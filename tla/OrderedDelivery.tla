---------------------------- MODULE OrderedDelivery ----------------------------
(***************************************************************************)
(* What libmotmot promises the client of one participant, in one variable: *)
(* the values handed to the learning callbacks are the chosen values of    *)
(* instances 1, 2, 3, ... in that order, each exactly once, whatever the   *)
(* order in which their commits arrived.  Two participants that implement  *)
(* this specification for the same `Chosen' have callback histories one of *)
(* which is a prefix of the other: the paper's "Total Ordering".           *)
(***************************************************************************)
EXTENDS Integers, Sequences

CONSTANTS MaxInum,  \* the last instance number of the session
          Chosen    \* the value chosen in each instance

VARIABLE delivered  \* the history of learning callbacks

Prefix(k) == [i \in 1 .. k |-> Chosen[i]]

Init == delivered = Prefix(1)

(* One call of paxos_commit may learn a whole block of instances. *)
Deliver == \E k \in (Len(delivered) + 1) .. MaxInum : delivered' = Prefix(k)

Spec == Init /\ [][Deliver]_delivered

=============================================================================
