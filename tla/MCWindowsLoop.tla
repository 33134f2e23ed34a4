--------------------------- MODULE MCWindowsLoop ----------------------------
(* WindowsLoop with a stack buffer of three units and titles that leave it
   room, fill it, or need more, with a pair of units across its end or not. *)
EXTENDS WindowsLoop, MCText

CONSTANT w1

ShortTitles ==
    {<<>>, <<Letter>>, <<CutEuro, EAcute>>, <<Letter, Smiley>>, <<Smiley, Smiley>>,
     <<Stray, EAcute, Smiley>>, <<Surrogate, Smiley, Euro>>}

\* The titles are of the kind the theorem about them is for.
ASSUME TitlesAreUnicode == \A t \in Titles : IsUnicode(t)
=============================================================================
