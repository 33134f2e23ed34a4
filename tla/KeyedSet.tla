------------------------------ MODULE KeyedSet ------------------------------
(***************************************************************************)
(* What src/utility/hash.h promises: a finite map.  Inserting a key that   *)
(* is there leaves its element alone ("Does not motify the existing        *)
(* element if the key was found"); inserting a new one may fail for lack   *)
(* of memory; nothing but a removal takes an element away, except the end  *)
(* of the table.                                                           *)
(***************************************************************************)
CONSTANTS Keys, Values

VARIABLE contents

Init == contents = [k \in {} |-> {}]

Insert(k, v) ==
    /\ k \in Keys \ DOMAIN contents
    /\ contents' = [x \in DOMAIN contents \cup {k} |->
                        IF x = k THEN v ELSE contents[x]]

Remove(k) ==
    /\ k \in DOMAIN contents
    /\ contents' = [x \in DOMAIN contents \ {k} |-> contents[x]]

Clear == contents' = [k \in {} |-> {}]

Next == Clear \/ \E k \in Keys : Remove(k) \/ \E v \in Values : Insert(k, v)

Spec == Init /\ [][Next]_contents
=============================================================================
