------------------------------- MODULE PaxosState ------------------------------
(***************************************************************************)
(* The state of one libmotmot session at one participant (types/session.h) *)
(* and the routines that every protocol file shares: sending, proposer     *)
(* selection, decreeing, committing and learning (paxos_util.c,            *)
(* paxos_learn.c, and the parts of paxos_proposer.c they call).            *)
(*                                                                         *)
(* Every routine is an operator from a session to the session it leaves.   *)
(* What it sends collects in `out', by connection, and the connections it  *)
(* destroys in `closed'; the action that calls it hands both to the network.  A failed *)
(* assertion or a dereference of NULL ends the process: `status' then      *)
(* names it, and whatever the routine would still have done is dropped.    *)
(*                                                                         *)
(* Abstractions: the data of a chat is its request ID; the data of a join, *)
(* the descriptor of whoever is invited, is a process and kept with the    *)
(* value.  `alist' maps the paxids of the acceptors to their connections   *)
(* and `desc' to their processes.  Lists sorted by ID are functions or     *)
(* sets; a pointer into one is the ID it points to.                        *)
(***************************************************************************)
EXTENDS Integers, Sequences, FiniteSets, SequencesExt, Ballot, InstanceLog

(* The elements of a set of numbers, in order. *)
Sorted(S) ==
  CHOOSE q \in [1 .. Cardinality(S) -> S] : \A i, j \in DOMAIN q : i < j => q[i] < q[j]

NoPeer == <<>>   \* pa_peer = NULL; a connection is a nonempty tuple
NoPrep == <<>>   \* prep = NULL; a prepare is a record
NoSync == <<>>   \* sync = NULL; a sync is a record
OffList == 0     \* a pointer to an instance that is no longer on the list

Up(s) == s.status = "up"

(* A failed assert, or a NULL pointer dereferenced. *)
Fail(s, why) == [s EXCEPT !.status = why]

(* paxos_end: the client is told and the session destroyed. *)
PaxosEnd(s) == [s EXCEPT !.status = "left"]

-----------------------------------------------------------------------------
(* paxos_util.c *)

Members(s) == DOMAIN s.alist
IsMember(s, id) == id \in DOMAIN s.alist
Connected(s) == {id \in Members(s) : s.alist[id] # NoPeer}

IsProposer(s) == s.proposer = s.self
(* Mutant: half of the acceptors, rounded down. *)
MajorityHalf(s) == Cardinality(Members(s)) \div 2
Majority(s) == MajorityOf(Cardinality(Members(s)))

(* Mutant: we are next in line, whoever is before us. *)
ResetProposerSelf(s) == [s EXCEPT !.proposer = s.self]

(* The lowest-numbered acceptor that is us or that we are connected to. *)
ResetProposer(s) == [s EXCEPT !.proposer = Min(Connected(s) \union {s.self})]

(* Mutant: the hole, though instances above it may exist. *)
NextInstanceHole(s) == s.ihole

(* The number of the last instance, zero in an empty list. *)
LastIn(ilist) == Max(DOMAIN ilist \union {0})
NextInstance(s) == LastIn(s.ilist) + 1

NeedsCached(val) == val.kind \in {"CHAT", "JOIN"}

(* A decree value; (id, gen) is its request ID. *)
ValueOf(kind, id, gen, extra) == [kind |-> kind, id |-> id, gen |-> gen, extra |-> extra]
ReqId(val) == <<val.id, val.gen>>

(* A message: opcode, ballot and instance number of its header, payload. *)
Message(op, bal, inum, body) == [op |-> op, bal |-> bal, inum |-> inum, body |-> body]

(* What s has written to connection c. *)
Sent(s, c) == IF c \in DOMAIN s.out THEN s.out[c] ELSE <<>>

WriteTo(s, peers, msg) ==
  [s EXCEPT !.out = [c \in DOMAIN @ \union peers |->
                       IF c \in peers THEN Append(Sent(s, c), msg) ELSE @[c]]]

Send(s, peer, msg) ==
  IF peer = NoPeer THEN Fail(s, "send to NULL peer") ELSE WriteTo(s, {peer}, msg)

SendToProposer(s, msg) == Send(s, s.alist[s.proposer], msg)

Broadcast(s, msg) == WriteTo(s, {s.alist[id] : id \in Connected(s)}, msg)

(* paxos_broadcast_instance, under the opcode in the instance's header. *)
BroadcastInstance(s, i) ==
  Broadcast(s, Message(s.ilist[i].op, s.ilist[i].bal, i, s.ilist[i].val))

(* instance_init_metadata over a header initialised for a decree. *)
DecreeInstance(bal, val) ==
  [op |-> "DECREE", bal |-> bal, val |-> val, committed |-> FALSE, cached |-> FALSE,
   learned |-> FALSE, votes |-> 1, rejects |-> 0]

(* A zeroed instance, as acceptors and promises make them. *)
ZeroInstance(bal, val) == [DecreeInstance(bal, val) EXCEPT !.votes = 0]

(* Mutant: istart is not updated. *)
InsertOnly(s, i, inst) == [s EXCEPT !.ilist = Put(@, i, inst)]

(* instance_insert_and_upstart *)
InsertAndUpstart(s, i, inst) ==
  [s EXCEPT !.ilist = Put(@, i, inst), !.istart = Upstart(@, s.ihole, i)]

(***************************************************************************)
(* continuation_new and state.connect.  The client may call back at once   *)
(* or later (motmot.h); here it does so later, in a turn of its own.       *)
(***************************************************************************)
Connect(s, kind, id, inum, val) ==
  [s EXCEPT !.clist = Append(@, [kind |-> kind, acc |-> id, inum |-> inum, val |-> val])]

NoValue == ValueOf("NULL", 0, 0, 0)

-----------------------------------------------------------------------------
(* proposer_prepare, which paxos_learn may call *)

(***************************************************************************)
(* A prepare starts a new ballot.  A first prepare (not a reprepare) also  *)
(* defers a kill of every higher-ranked and a part of every lower-ranked   *)
(* acceptor we have lost.                                                  *)
(***************************************************************************)
ProposerPrepare(s, first) ==
  LET bal  == [id |-> s.self, gen |-> s.gen_high + 1]
      lost == IF first THEN Members(s) \ (Connected(s) \union {s.self}) ELSE {}
      ids  == Sorted(lost)
      part(k) == ValueOf(IF ids[k] < s.self THEN "KILL" ELSE "PART",
                         s.self, s.req_id + k, ids[k])
  IN  IF s.prep # NoPrep THEN Fail(s, "prepare while preparing")
      ELSE IF s.live_count < Majority(s) THEN PaxosEnd(s)
      ELSE Broadcast(
             [s EXCEPT !.gen_high = @ + 1,
                       !.prep = [bal |-> bal, acks |-> 1, redirects |-> 0, istart |-> s.istart],
                       !.idefer = @ \o [k \in 1 .. Cardinality(lost) |-> part(k)],
                       !.req_id = @ + Cardinality(lost)],
             Message("PREPARE", bal, s.ihole, <<>>))

-----------------------------------------------------------------------------
(* paxos_learn.c *)

(* A part or a kill takes effect: leave, or drop the acceptor. *)
LearnPart(s, id) ==
  LET gone == [s EXCEPT !.alist = [m \in Members(s) \ {id} |-> s.alist[m]],
                        !.live_count = IF s.alist[id] # NoPeer THEN @ - 1 ELSE @,
                        !.closed = @ \union ({s.alist[id]} \ {NoPeer})]
      elected == ResetProposer(gone)
  IN  IF ~IsMember(s, id) THEN s
      ELSE IF id = s.self THEN PaxosEnd(s)
      ELSE IF id # s.proposer THEN gone
      ELSE IF IsProposer(elected) THEN ProposerPrepare(elected, TRUE)
      ELSE elected

(* Mutant: a hello that came before the join does not count as live. *)
LearnJoinUncounted(s, i, process) ==
  LET greeted == i \in DOMAIN s.adefer
      t == [s EXCEPT !.alist = Put(@, i, IF greeted THEN s.adefer[i] ELSE NoPeer),
                     !.adefer = [id \in DOMAIN s.adefer \ {i} |-> s.adefer[id]],
                     !.desc = Put(@, i, process)]
  IN  IF IsProposer(s) THEN Connect(t, "welcome", i, 0, NoValue) ELSE t

(***************************************************************************)
(* A join takes effect: the newcomer's paxid is the number of the          *)
(* instance, its connection the one that a deferred hello came from, if    *)
(* any.  The proposer connects to it to welcome it (proposer_welcome).     *)
(***************************************************************************)
LearnJoin(s, i, process) ==
  LET greeted == i \in DOMAIN s.adefer
      t == [s EXCEPT !.alist = Put(@, i, IF greeted THEN s.adefer[i] ELSE NoPeer),
                     !.live_count = IF greeted THEN @ + 1 ELSE @,
                     !.adefer = [id \in DOMAIN s.adefer \ {i} |-> s.adefer[id]],
                     !.desc = Put(@, i, process)]
  IN  IF IsProposer(s) THEN Connect(t, "welcome", i, 0, NoValue) ELSE t

(* paxos_learn; `log' records the calls, in order. *)
PaxosLearn(s, i) ==
  LET val == s.ilist[i].val
      t == [s EXCEPT !.ilist = Put(@, i, [@[i] EXCEPT !.learned = TRUE]),
                     !.log = Append(@, val)]
  IN  IF val.kind = "CHAT" /\ ~IsMember(s, val.id) THEN Fail(s, "chat from a stranger")
      ELSE IF val.kind = "JOIN" THEN LearnJoin(t, i, val.extra)
      ELSE IF val.kind \in {"PART", "KILL"} THEN LearnPart(t, val.extra)
      ELSE t

(* One round of the learning loop; a departure ends it. *)
LearnNext(s, i) ==
  IF ~Up(s) THEN s
  ELSE IF s.ilist[i].learned THEN Fail(s, "learned twice")
  ELSE IF NeedsCached(s.ilist[i].val) /\ ReqId(s.ilist[i].val) \notin s.rcache
    THEN Fail(s, "learned without its request")
  ELSE LET t == PaxosLearn(s, i) IN IF Up(t) THEN [t EXCEPT !.ihole = i + 1] ELSE t

(* The loop: n instances from i on. *)
LearnFrom(s, i, n) == FoldLeft(LearnNext, s, [k \in 1 .. n |-> i + k - 1])

LearnContiguous(s) ==
  LET h == CHOOSE k \in s.ihole .. (LastIn(s.ilist) + 1) : IsNextHole(s.ilist, s.ihole, k)
      t == LearnFrom([s EXCEPT !.istart = s.ihole], s.ihole, h - s.ihole)
      adjacent == s.istart < s.ihole /\ \A i \in DOMAIN s.ilist : i > s.istart => i >= s.ihole
  IN  IF s.istart # s.ihole /\ ~adjacent THEN Fail(s, "istart far from the hole")
      ELSE IF Up(t) THEN [t EXCEPT !.istart = NextIstart(s.ilist, h)] ELSE t

(* acceptor_retry *)
AcceptorRetry(s, hole) == SendToProposer(s, Message("RETRY", s.ballot, hole, <<>>))

(* Mutant: nothing is asked for. *)
PaxosRetrieveNothing(s, i) == s

(* paxos_retrieve: from the originator, or from everyone if we lost it. *)
PaxosRetrieve(s, i) ==
  LET val == s.ilist[i].val
      msg == Message("RETRIEVE", s.ballot, i, [from |-> s.self, val |-> val])
  IN  IF val.id \in Connected(s) THEN Send(s, s.alist[val.id], msg) ELSE Broadcast(s, msg)

(***************************************************************************)
(* paxos_commit.  Without its request the commit is deferred; off the hole *)
(* an acceptor asks for the hole unless that only waits for its request;   *)
(* at the hole the contiguous block is learned.                            *)
(***************************************************************************)
PaxosCommit(s, i) ==
  LET c == [s EXCEPT !.ilist = Put(@, i, [@[i] EXCEPT !.committed = TRUE])]
      d == [c EXCEPT !.ilist = Put(@, i, [@[i] EXCEPT !.cached = TRUE])]
      val == s.ilist[i].val
      holeWaits == d.istart = d.ihole /\ d.ilist[d.istart].committed
  IN  IF NeedsCached(val) /\ ReqId(val) \notin s.rcache THEN PaxosRetrieve(c, i)
      ELSE IF i < s.ihole THEN Fail(s, "commit below the hole")
      ELSE IF i # s.ihole THEN
        IF IsProposer(s) THEN d
        ELSE IF s.istart = OffList THEN Fail(s, "istart off the list")
        ELSE IF holeWaits THEN
          IF d.ilist[d.istart].cached THEN Fail(s, "hole already cached") ELSE d
        ELSE AcceptorRetry(d, s.ihole)
      ELSE IF s.istart = OffList THEN Fail(s, "istart off the list")
      ELSE LearnContiguous(d)

-----------------------------------------------------------------------------
(* Decreeing *)

(* proposer_commit *)
ProposerCommit(s, i) ==
  PaxosCommit(
    BroadcastInstance([s EXCEPT !.ilist = Put(@, i, [@[i] EXCEPT !.op = "COMMIT"])], i), i)

(* proposer_decree; alone in the session we are a majority. *)
ProposerDecree(s, val) ==
  LET i == NextInstance(s)
      t == BroadcastInstance(InsertAndUpstart(s, i, DecreeInstance(s.ballot, val)), i)
  IN  IF Majority(s) <= 1 THEN ProposerCommit(t, i) ELSE t

(* Decree, or defer until our prepare has succeeded. *)
DecreeOrDefer(s, val) ==
  IF s.prep # NoPrep THEN [s EXCEPT !.idefer = Append(@, val)] ELSE ProposerDecree(s, val)

(* proposer_decree_part *)
DecreePart(s, id, force) ==
  LET val == ValueOf(IF force THEN "KILL" ELSE "PART", s.self, s.req_id + 1, id)
  IN  DecreeOrDefer([s EXCEPT !.req_id = @ + 1], val)

=============================================================================
