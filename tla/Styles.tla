------------------------------- MODULE Styles -------------------------------
(***************************************************************************)
(* Style objects (src/core/style.c) and the list of fallback styles that   *)
(* each client keeps (autk_client_find_or_create_style_extension of        *)
(* src/core/client.c).                                                     *)
(*                                                                         *)
(* The list belongs to the client's thread and holds one reference to each *)
(* of its styles.  Other threads get references of their own: whoever has  *)
(* one, or the client's thread for a style of the list, retains the style  *)
(* for them.  They release them at any time, after the client is gone too. *)
(***************************************************************************)
EXTENDS Integers, Sequences, FiniteSets, FiniteSetsExt

CONSTANTS Clients, StyleObjects,
          Holders,     \* threads that hold references of their own
          Classes, Extensions, \* style classes; the extensions each of them provides
          Queries,     \* what is asked for
          Increment,   \* ALLOC_FALLBACK_STYLE_INCREMENT
          Wrap,        \* capacities are counted modulo this
          NoStyle

\* An extension has a uuid, a size and a version; a class has one per uuid, at
\* least one (autk_style_create checks it).  Every style that a list ever gets
\* answers a query the ones before it do not, so capacities do not wrap.
ASSUME StyleAssumption ==
    /\ IsFiniteSet(Clients) /\ IsFiniteSet(Holders) /\ Clients \cap Holders = {}
    /\ IsFiniteSet(StyleObjects) /\ StyleObjects \subseteq Nat /\ NoStyle \notin StyleObjects
    /\ IsFiniteSet(Queries) /\ Classes # {}
    /\ \A k \in Classes :
          /\ Extensions[k] # {}
          /\ \A e, f \in Extensions[k] : e.uuid = f.uuid => e = f
    /\ Increment \in Nat \ {0} /\ Wrap \in Nat /\ Wrap > Cardinality(Queries) + Increment

VARIABLES
    fallback,   \* each client's fallback_styles
    capacity,   \* fallback_style_capacity
    room,       \* elements the list's memory has room for
    allocated,  \* style objects in memory
    class_of,   \* style->klass; of memory not allocated, AnyClass
    ref_count,
    class_data, \* styles whose class has been asked to init and not yet to fini
    holds,      \* the reference of each holder
    last        \* the style of which a holder has just released the last reference

lists == <<fallback, capacity, room>>
objects == <<allocated, class_of, ref_count, class_data>>
threads == <<holds, last>>
style_vars == <<lists, objects, threads>>

AnyClass == CHOOSE k \in Classes : TRUE

StylesInit ==
    /\ fallback = [c \in Clients |-> <<>>]
    /\ capacity = [c \in Clients |-> 0] /\ room = [c \in Clients |-> 0]
    /\ allocated = {} /\ class_data = {}
    /\ class_of = [s \in StyleObjects |-> AnyClass]
    /\ ref_count = [s \in StyleObjects |-> 0]
    /\ holds = [t \in Holders |-> NoStyle] /\ last = [t \in Holders |-> NoStyle]

Listed(c) == {fallback[c][i] : i \in DOMAIN fallback[c]}

-----------------------------------------------------------------------------
(* autk_style_find_extension, autk_style_class_provides_extension *)

Provides(k, q) ==
    \E e \in Extensions[k] : e.uuid = q.uuid /\ e.size >= q.size /\ e.version >= q.version

-----------------------------------------------------------------------------
(* autk_client_find_or_create_style_extension *)

\* Slip: the style added last is not looked at.
FoundButLast(c, q) == \E i \in 1 .. Len(fallback[c]) - 1 : Provides(class_of[fallback[c][i]], q)

Found(c, q) == \E s \in Listed(c) : Provides(class_of[s], q)

Full(c) == capacity[c] < Len(fallback[c]) + 1

\* Slip: the list grows only when it holds more than it has room for.
GrownLate(c) ==
    IF capacity[c] < Len(fallback[c])
    THEN [capacity |-> (capacity[c] + Increment) % Wrap, room |-> capacity[c] + Increment]
    ELSE [capacity |-> capacity[c], room |-> room[c]]

\* The list with a place for one more.
Grown(c) ==
    IF Full(c) THEN [capacity |-> (capacity[c] + Increment) % Wrap,
                     room |-> capacity[c] + Increment]
               ELSE [capacity |-> capacity[c], room |-> room[c]]

\* Any style object not in use will do for the allocator.
Fresh == Min(StyleObjects \ allocated)

\* Nothing found: a style of the fallback class, which must provide what is
\* asked, with a first reference for the list.
AddFallback(c, q, k) ==
    /\ ~Found(c, q) /\ Provides(k, q) /\ StyleObjects \ allocated # {}
    /\ capacity' = [capacity EXCEPT ![c] = Grown(c).capacity]
    /\ room' = [room EXCEPT ![c] = Grown(c).room]
    /\ fallback' = [fallback EXCEPT ![c] = Append(@, Fresh)]
    /\ allocated' = allocated \cup {Fresh}
    /\ class_of' = [class_of EXCEPT ![Fresh] = k]
    /\ ref_count' = [ref_count EXCEPT ![Fresh] = 1]
    /\ class_data' = class_data \cup {Fresh}
    /\ UNCHANGED threads

\* There is no memory for the list; or there is, and none for the style, or its
\* class refuses, is asked to clean up and the style is freed.  The list keeps
\* what it has grown by.
AddFallbackFails(c, q, k, step) ==
    /\ ~Found(c, q) /\ Provides(k, q)
    /\ step = "style list" => Full(c)
    /\ IF step = "style list" THEN UNCHANGED <<capacity, room>>
       ELSE /\ capacity' = [capacity EXCEPT ![c] = Grown(c).capacity]
            /\ room' = [room EXCEPT ![c] = Grown(c).room]
    /\ UNCHANGED <<fallback, objects, threads>>

-----------------------------------------------------------------------------
(* autk_style_create for the application itself, autk_style_retain,
   autk_style_release *)

\* The first reference is the caller's.
CreateStyle(t, k) ==
    /\ holds[t] = NoStyle /\ last[t] = NoStyle /\ StyleObjects \ allocated # {}
    /\ allocated' = allocated \cup {Fresh}
    /\ class_of' = [class_of EXCEPT ![Fresh] = k]
    /\ ref_count' = [ref_count EXCEPT ![Fresh] = 1]
    /\ class_data' = class_data \cup {Fresh}
    /\ holds' = [holds EXCEPT ![t] = Fresh]
    /\ UNCHANGED <<lists, last>>

\* Whoever may pass a style on: a client's thread those of its list.
Lenders(s) == {c \in Clients : s \in Listed(c)} \cup {t \in Holders : holds[t] = s}

\* Slip: a style is handed on without its being retained.
LendUncounted(t, s) ==
    /\ holds[t] = NoStyle /\ last[t] = NoStyle /\ Lenders(s) # {}
    /\ holds' = [holds EXCEPT ![t] = s]
    /\ UNCHANGED <<lists, objects, last>>

Retain(t, s) ==
    /\ holds[t] = NoStyle /\ last[t] = NoStyle /\ Lenders(s) # {}
    /\ ref_count' = [ref_count EXCEPT ![s] = @ + 1]
    /\ holds' = [holds EXCEPT ![t] = s]
    /\ UNCHANGED <<lists, allocated, class_of, class_data, last>>

\* One atomic subtraction; whoever brings the count to zero is the last.
Release(t) ==
    LET s == holds[t] IN
    /\ s # NoStyle
    /\ ref_count' = [ref_count EXCEPT ![s] = @ - 1]
    /\ holds' = [holds EXCEPT ![t] = NoStyle]
    /\ last' = [last EXCEPT ![t] = IF ref_count[s] = 1 THEN s ELSE NoStyle]
    /\ UNCHANGED <<lists, allocated, class_of, class_data>>

\* Slip: the class is not asked to clean up.
FreeOnly(t) ==
    /\ last[t] # NoStyle
    /\ allocated' = allocated \ {last[t]}
    /\ class_of' = [class_of EXCEPT ![last[t]] = AnyClass]
    /\ last' = [last EXCEPT ![t] = NoStyle]
    /\ UNCHANGED <<lists, ref_count, class_data, holds>>

\* The last one has the class clean up and frees the style.
Free(t) ==
    /\ last[t] # NoStyle
    /\ class_data' = class_data \ {last[t]}
    /\ allocated' = allocated \ {last[t]}
    /\ class_of' = [class_of EXCEPT ![last[t]] = AnyClass]
    /\ last' = [last EXCEPT ![t] = NoStyle]
    /\ UNCHANGED <<lists, ref_count, holds>>

\* Slip: the client frees the styles of its list.
FreeList(c) ==
    /\ fallback' = [fallback EXCEPT ![c] = <<>>]
    /\ capacity' = [capacity EXCEPT ![c] = 0] /\ room' = [room EXCEPT ![c] = 0]
    /\ ref_count' = [s \in StyleObjects |-> IF s \in Listed(c) THEN 0 ELSE ref_count[s]]
    /\ allocated' = allocated \ Listed(c) /\ class_data' = class_data \ Listed(c)
    /\ UNCHANGED <<class_of, threads>>

\* The client releases every style of its list, then the list.  A style nobody
\* else holds is freed at once: between its last release and that nobody can
\* reach it.
ReleaseList(c) ==
    LET dropped == {s \in Listed(c) : ref_count[s] = 1} IN
    /\ fallback' = [fallback EXCEPT ![c] = <<>>]
    /\ capacity' = [capacity EXCEPT ![c] = 0] /\ room' = [room EXCEPT ![c] = 0]
    /\ ref_count' = [s \in StyleObjects |-> ref_count[s] - (IF s \in Listed(c) THEN 1 ELSE 0)]
    /\ allocated' = allocated \ dropped /\ class_data' = class_data \ dropped
    /\ class_of' = [s \in StyleObjects |-> IF s \in dropped THEN AnyClass ELSE class_of[s]]
    /\ UNCHANGED threads

\* What the threads do on their own.
HolderStep ==
    \E t \in Holders :
        \/ \E s \in StyleObjects : Retain(t, s)
        \/ Release(t) \/ Free(t)

-----------------------------------------------------------------------------
(* Properties *)

StylesTypeOK ==
    /\ fallback \in [Clients -> Seq(allocated)]
    /\ capacity \in [Clients -> 0 .. Wrap - 1] /\ room \in [Clients -> Nat]
    /\ allocated \subseteq StyleObjects /\ class_data \subseteq allocated
    /\ class_of \in [StyleObjects -> Classes] /\ ref_count \in [StyleObjects -> Nat]
    /\ holds \in [Holders -> StyleObjects \cup {NoStyle}]
    /\ last \in [Holders -> StyleObjects \cup {NoStyle}]

\* A style's count is the number of references to it, of lists and of threads;
\* so nobody has a reference to a style that is freed or about to be, and a style
\* without references has exactly one thread that will free it.
RefsCounted ==
    \A s \in StyleObjects :
        /\ ref_count[s] = Cardinality(Lenders(s))
        /\ s \in allocated <=> (Lenders(s) # {} \/ \E t \in Holders : last[t] = s)
        /\ \A t \in Holders : last[t] = s =>
              Lenders(s) = {} /\ \A u \in Holders \ {t} : last[u] # s

\* A class is asked to init and to fini each of its styles once: what it has of
\* a style lives as long as the style.
ClassDataLives == class_data = allocated

\* No fallback style is created for a query that one of the list already answers:
\* each answers some query that none before it does, so the list stays short.
FallbacksNeeded ==
    \A c \in Clients : \A j \in DOMAIN fallback[c] :
        \E q \in Queries :
            /\ Provides(class_of[fallback[c][j]], q)
            /\ \A i \in 1 .. j - 1 : ~Provides(class_of[fallback[c][i]], q)

\* The list's memory has room for its styles, and the capacity by which it is
\* resized and freed is what it has room for, also after failures.
ListHasRoom ==
    \A c \in Clients : capacity[c] = room[c] /\ Len(fallback[c]) <= room[c]
=============================================================================
