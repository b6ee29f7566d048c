-------------------------------- MODULE Channel --------------------------------
(***************************************************************************)
(* What one direction of a connection promises, and what PaxosSession      *)
(* takes for granted of its `inbox': messages are dispatched in the order  *)
(* in which they were sent, each once and whole.  When the connection is   *)
(* cut, what was on the way may be lost, but only from its end.            *)
(***************************************************************************)
EXTENDS Integers, Sequences

CONSTANT Message

VARIABLES queue,  \* messages sent and neither dispatched nor lost
          got,    \* history of the messages dispatched
          open    \* whether the connection is up

Init == queue = <<>> /\ got = <<>> /\ open = TRUE

Send(m) ==
  /\ open
  /\ queue' = Append(queue, m)
  /\ UNCHANGED <<got, open>>

(* One read of a socket may bring any number of messages. *)
Receive(n) ==
  /\ queue' = SubSeq(queue, n + 1, Len(queue))
  /\ got' = got \o SubSeq(queue, 1, n)
  /\ UNCHANGED open

Cut(n) ==
  /\ open' = FALSE
  /\ queue' = SubSeq(queue, 1, n)
  /\ UNCHANGED got

Next ==
  \/ \E m \in Message : Send(m)
  \/ \E n \in 1 .. Len(queue) : Receive(n)
  \/ \E n \in 0 .. Len(queue) : Cut(n)

Spec == Init /\ [][Next]_<<queue, got, open>>

=============================================================================
