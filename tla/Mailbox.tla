------------------------------ MODULE Mailbox ------------------------------
(***************************************************************************)
(* What the text service promises one device: each message sent to it      *)
(* waits, is held by the device, and is read, or is withdrawn before that; *)
(* the device holds one message at a time and takes them in id order.      *)
(***************************************************************************)
EXTENDS Naturals

CONSTANT Ids  \* message ids, natural numbers

VARIABLE stage

Stages == {"absent", "waiting", "held", "read", "withdrawn"}

Init == stage = [i \in Ids |-> "absent"]

\* Receipts are written with the message, so ids are sent in order.
Send(i) ==
  /\ \A j \in Ids : j >= i => stage[j] = "absent"
  /\ stage' = [stage EXCEPT ![i] = "waiting"]

\* No other message is held, and no older one waits.
Turn(i) == \A j \in Ids \ {i} : /\ stage[j] # "held"
                               /\ j < i => stage[j] # "waiting"

\* Reading is also the receipt of a message the relay still counts as waiting.
Advance(i, to) ==
  /\ stage[i] = "waiting" \/ (stage[i] = "held" /\ to = "read")
  /\ Turn(i)
  /\ stage' = [stage EXCEPT ![i] = to]

Withdraw(I) ==
  /\ \A i \in I : stage[i] \in {"waiting", "held"}
  /\ stage' = [i \in Ids |-> IF i \in I THEN "withdrawn" ELSE stage[i]]

Next ==
  \/ \E i \in Ids : Send(i) \/ \E to \in {"held", "read"} : Advance(i, to)
  \/ \E I \in SUBSET Ids : Withdraw(I)

Spec == Init /\ [][Next]_stage
=============================================================================
