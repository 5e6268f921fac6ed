----------------------------- MODULE LossyStream -----------------------------
(***************************************************************************)
(* What the sound path promises its listener: samples may be lost, but     *)
(* what is heard is what was sent, in the order it was sent, never twice,  *)
(* and without a hole inside one answer.  Samples are numbered as they are *)
(* sent.  AudioPath implements this specification.                         *)
(***************************************************************************)
EXTENDS Naturals

VARIABLES sent,     \* how many samples were sent so far
          past,     \* no sample up to this one will be heard any more
          heard     \* the samples of the last answer

Init == sent = 0 /\ past = 0 /\ heard = {}

Send == /\ sent' \in Nat /\ sent' > sent
        /\ past' \in past .. sent'
        /\ UNCHANGED heard

\* The listener gets the samples after some point that is not past.
Listen == /\ \E from \in past .. sent : \E to \in from .. sent :
                /\ heard' = (from + 1) .. to
                /\ past' = to
          /\ UNCHANGED sent

Skip == past' \in past .. sent /\ UNCHANGED <<sent, heard>>

Next == Send \/ Listen \/ Skip

Spec == Init /\ [][Next]_<<sent, past, heard>>

=============================================================================
