--------------------------------- MODULE Ballot --------------------------------
(***************************************************************************)
(* Ballots and majorities.  A ballot is a pair of a generation and the ID  *)
(* of the acceptor that prepares it; the generation weighs more, and of    *)
(* two ballots of one generation that of the lower ID is the higher, since *)
(* acceptors that joined earlier rank higher.                              *)
(***************************************************************************)
EXTENDS Integers

Ballots == [id : Nat, gen : Nat]

(* paxid_compare: the sign of the difference. *)
PaxidCompare(x, y) == IF x < y THEN -1 ELSE IF x > y THEN 1 ELSE 0

(* ppair_compare, which is ballot_compare and reqid_compare too. *)
BallotCompare(x, y) ==
  IF x.gen # y.gen THEN PaxidCompare(x.gen, y.gen) ELSE PaxidCompare(y.id, x.id)

(* majority() of n acceptors. *)
MajorityOf(n) == (n \div 2) + 1

=============================================================================
