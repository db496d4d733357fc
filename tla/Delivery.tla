------------------------------ MODULE Delivery ------------------------------
(***************************************************************************)
(* What one direction of a connection promises, and what lies between the  *)
(* threads of a client: messages come whole, in order and once each,       *)
(* though perhaps not all of them.                                         *)
(***************************************************************************)
EXTENDS Sequences, SequencesExt

VARIABLES sent, got

Init == sent = << >> /\ got = << >>

\* Several may be handed over, and may come, at a time.
Send == /\ sent # sent' /\ IsPrefix(sent, sent')
        /\ UNCHANGED got

Receive == /\ UNCHANGED sent
           /\ got # got' /\ IsPrefix(got, got') /\ IsPrefix(got', sent)

Next == Send \/ Receive

Spec == Init /\ [][Next]_<< sent, got >>
=============================================================================
