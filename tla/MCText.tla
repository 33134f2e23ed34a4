------------------------------- MODULE MCText -------------------------------
(* Characters for the titles of the models, with the bytes and units that the
   Unicode standard gives for them, and ill-formed bytes with what replaces them. *)
EXTENDS Naturals, Sequences, SequencesExt

Letter  == [bytes |-> <<65>>, units |-> <<65>>, latin1 |-> 65]
EAcute  == [bytes |-> <<195, 169>>, units |-> <<233>>, latin1 |-> 233]
Euro    == [bytes |-> <<226, 130, 172>>, units |-> <<8364>>, latin1 |-> 63]
Smiley  == [bytes |-> <<240, 159, 152, 128>>, units |-> <<55357, 56832>>, latin1 |-> 63]
\* A Euro sign that was cut, a surrogate, and a byte that begins nothing.
CutEuro   == [bytes |-> <<226, 130>>, units |-> <<65533>>, latin1 |-> 63]
Surrogate == [bytes |-> <<237, 160, 128>>, units |-> <<65533>>, latin1 |-> 63]
Stray     == [bytes |-> <<255>>, units |-> <<65533>>, latin1 |-> 63]

Characters == {Letter, EAcute, Euro, Smiley, CutEuro, Surrogate, Stray}
=============================================================================
