------------------------------- MODULE Layout -------------------------------
(***************************************************************************)
(* The blocks of memory of instances, clients, windows and styles: the     *)
(* object itself, then the regions that go with it (data of drivers and of *)
(* the application), each aligned, with sizes of a fixed width             *)
(* (src/utility/math.c).                                                   *)
(***************************************************************************)
EXTENDS Integers, Sequences

CONSTANTS Align,    \* AUTK_ALIGNOF(max_align_t)
          SizeCount \* how many values size_t has

ASSUME SizeAssumption ==
    /\ Align \in Nat \ {0} /\ SizeCount \in Nat
    /\ Align < SizeCount /\ SizeCount % Align = 0

\* autk_align_up.  Close to the largest size, and at zero, it is zero.
AlignUp(n) == ((((n - 1) % SizeCount) \div Align) * Align + Align) % SizeCount

\* Slip: sizes are added as if they had any width.
AddRegionUnchecked(block, size) ==
    [block EXCEPT !.size = (@ + AlignUp(size)) % SizeCount, !.offsets = Append(@, block.size)]

\* autk_add_alloc_region; a caller gives up at the first overflow.
AddRegion(block, size) ==
    LET aligned == AlignUp(size) IN
    IF block.overflow \/ (size > 0 /\ (aligned = 0 \/ aligned > SizeCount - 1 - block.size))
    THEN [block EXCEPT !.overflow = TRUE]
    ELSE [block EXCEPT !.size = IF size > 0 THEN @ + aligned ELSE @,
                       !.offsets = Append(@, block.size)]

\* The block of an object of some size, with its regions.
Block(object, regions) ==
    LET upto[n \in 0 .. Len(regions)] ==
            IF n = 0 THEN [size |-> AlignUp(object), offsets |-> <<>>, overflow |-> FALSE]
            ELSE AddRegion(upto[n - 1], regions[n])
    IN  upto[Len(regions)]

\* Every region is inside the block, aligned, and behind what comes before it.
IsSound(block, object, regions) ==
    \A i \in DOMAIN regions :
        LET begin == block.offsets[i]
            before == IF i = 1 THEN object ELSE block.offsets[i - 1] + regions[i - 1]
        IN  begin % Align = 0 /\ before <= begin /\ begin + regions[i] <= block.size
=============================================================================
