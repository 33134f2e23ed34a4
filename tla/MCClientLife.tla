---------------------------- MODULE MCClientLife ----------------------------
(* ClientLife with small sets: a default class of styles with the base extension
   and one of the application that has a newer base and an extension of its own. *)
EXTENDS ClientLife, MCText

CONSTANTS c1, c2, w1, t1, t2, none

\* The steps that may fail once the job queue has been set up, and the windows'.
QueueAndWindowFailures ==
    {"client memory", "sem_init", "pipe", "fcntl"} \cup WindowSteps

AllFailures == ClientSteps \cup WindowSteps

Extension(uuid, size, version) == [uuid |-> uuid, size |-> size, version |-> version]

Base == Extension("base", 0, 1)
NewBase == Extension("base", 0, 2)
Own == Extension("own", 8, 1)

TwoClasses == {"win9x", "app"}
TheirExtensions ==
    [k \in TwoClasses |-> IF k = "win9x" THEN {Extension("base", 40, 1)}
                                         ELSE {Extension("base", 40, 2), Extension("own", 8, 1)}]
ThreeQueries == {Base, NewBase, Own}

\* The threads that hold styles are alike.
HolderSymmetry == Permutations(Holders)

\* One that fits a stack buffer of three, one that does not.
TwoTitles == {<<EAcute, CutEuro>>, <<Letter, Smiley, EAcute, Letter>>}

\* The titles are of the kind the theorem about them is for.
ASSUME TitlesAreUnicode == \A t \in Titles : IsUnicode(t)
=============================================================================
