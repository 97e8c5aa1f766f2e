--------------------------- MODULE MessageChannel ---------------------------
(***************************************************************************)
(* What a message pump promises its users: messages sent from any thread   *)
(* reach the handler on the reader's thread, each exactly once, in the     *)
(* order they were sent, and none stays behind.                            *)
(***************************************************************************)
EXTENDS Sequences

CONSTANTS Message, NoMessage

VARIABLES pending,  \* messages sent and not yet taken
          hand      \* the message the handler is working on

Init == pending = <<>> /\ hand = NoMessage

Send(m) == pending' = Append(pending, m) /\ UNCHANGED hand

Take == /\ hand = NoMessage /\ pending # <<>>
        /\ hand' = Head(pending) /\ pending' = Tail(pending)

Done == hand # NoMessage /\ hand' = NoMessage /\ UNCHANGED pending

Next == Take \/ Done \/ \E m \in Message : Send(m)

Spec == Init /\ [][Next]_<<pending, hand>>

FairSpec == Spec /\ WF_<<pending, hand>>(Take) /\ WF_<<pending, hand>>(Done)
=============================================================================
