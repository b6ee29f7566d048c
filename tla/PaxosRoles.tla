------------------------------- MODULE PaxosRoles ------------------------------
(***************************************************************************)
(* The handlers of the consensus protocol: prepare and promise, decree and *)
(* accept, commit, retry and recommit, request, retrieve and resend        *)
(* (paxos_proposer.c, paxos_acceptor.c, paxos_retry.c, paxos_request.c).   *)
(* A handler takes the session, the connection the message came from where *)
(* the code uses it, and the message m.                                    *)
(***************************************************************************)
EXTENDS PaxosState

-----------------------------------------------------------------------------
(* Prepare and promise *)

(***************************************************************************)
(* acceptor_redirect, which names the acceptor we take for the proposer    *)
(* and echoes the ballot of the prepare.                                   *)
(***************************************************************************)
AcceptorRedirect(s, source, m) ==
  Send(s, source, Message("REDIRECT", s.ballot, s.proposer, m.bal))

(* Mutant: the generation of the promised ballot is not kept. *)
AcceptorPromiseOldGen(s, m) ==
  SendToProposer([s EXCEPT !.ballot.id = m.bal.id], Message("PROMISE", m.bal, m.inum, <<>>))

(* Mutant: the promise comes without our votes. *)
AcceptorPromiseNothing(s, m) ==
  SendToProposer([s EXCEPT !.ballot = m.bal, !.gen_high = m.bal.gen],
                 Message("PROMISE", m.bal, m.inum, <<>>))

(***************************************************************************)
(* acceptor_promise: our votes from the closest instance at or below the   *)
(* preparer's hole on.  Without such an instance the message would promise *)
(* votes that it does not carry.                                           *)
(***************************************************************************)
AcceptorPromise(s, m) ==
  LET base == Max({i \in DOMAIN s.ilist : i <= m.inum})
      vote(i) == [bal |-> s.ilist[i].bal, val |-> s.ilist[i].val]
  IN  IF \A i \in DOMAIN s.ilist : i > m.inum THEN Fail(s, "malformed promise")
      ELSE SendToProposer([s EXCEPT !.ballot = m.bal, !.gen_high = m.bal.gen],
                          Message("PROMISE", m.bal, m.inum,
                                  [i \in {j \in DOMAIN s.ilist : j >= base} |-> vote(i)]))

AcceptorAckPrepare(s, source, m) ==
  IF BallotCompare(m.bal, s.ballot) <= 0 \/ s.alist[s.proposer] # source
  THEN AcceptorRedirect(s, source, m)
  ELSE AcceptorPromise(s, m)

(***************************************************************************)
(* get_instance_glb: the closest instance at or below inum, looking from   *)
(* the instance `from' on; NULL if that one is already above.              *)
(***************************************************************************)
HasGlb(ilist, from, inum) == from # OffList /\ from <= inum
Glb(ilist, from, inum) == Max({i \in DOMAIN ilist : from <= i /\ i <= inum})

(* Mutant: a vote of our own ballot is swapped in as well. *)
MergeVoteAny(acc, i) ==
  LET s == acc.s
      vote == acc.votes[i]
      inst == ZeroInstance(vote.bal, vote.val)
      orphan(ptr) == IF ptr = i THEN OffList ELSE ptr
  IN  IF ~Up(s) \/ i \notin DOMAIN acc.votes THEN acc
      ELSE IF ~HasGlb(s.ilist, acc.it, i)
        THEN [acc EXCEPT !.s = Fail(s, "promise below the iterator")]
      ELSE IF i \notin DOMAIN s.ilist
        THEN [acc EXCEPT !.s = InsertAndUpstart(s, i, inst), !.it = Glb(s.ilist, acc.it, i)]
      ELSE IF ~s.ilist[i].committed
        THEN [acc EXCEPT !.s = [s EXCEPT !.ilist = Put(@, i, inst), !.istart = orphan(@),
                                         !.prep.istart = orphan(@)],
                         !.it = i]
      ELSE [acc EXCEPT !.it = i]

(***************************************************************************)
(* The vote of a promise in instance i, if it has one: inserted if we have *)
(* no such instance, swapped in if ours is uncommitted and of a lower      *)
(* ballot.  A swap takes the old instance off the list, and with it        *)
(* whatever pointed to it.                                                 *)
(***************************************************************************)
MergeVote(acc, i) ==
  LET s == acc.s
      vote == acc.votes[i]
      inst == ZeroInstance(vote.bal, vote.val)
      orphan(ptr) == IF ptr = i THEN OffList ELSE ptr
  IN  IF ~Up(s) \/ i \notin DOMAIN acc.votes THEN acc
      ELSE IF acc.it = OffList
        THEN [acc EXCEPT !.s = Fail(s, "pp_istart off the list")]
      ELSE IF ~HasGlb(s.ilist, acc.it, i)
        THEN [acc EXCEPT !.s = Fail(s, "promise below the iterator")]
      ELSE IF i \notin DOMAIN s.ilist
        THEN [acc EXCEPT !.s = InsertAndUpstart(s, i, inst), !.it = Glb(s.ilist, acc.it, i)]
      ELSE IF ~s.ilist[i].committed /\ BallotCompare(vote.bal, s.ilist[i].bal) > 0
        THEN [acc EXCEPT !.s = [s EXCEPT !.ilist = Put(@, i, inst), !.istart = orphan(@),
                                         !.prep.istart = orphan(@)],
                         !.it = i]
      ELSE [acc EXCEPT !.it = i]

(* All votes of a promise, in the order of their instances. *)
MergeVotes(acc) ==
  FoldLeft(MergeVote, acc, [i \in 1 .. LastIn(acc.votes) |-> i])

(* Redecree instance i under our ballot, as null if nobody knows it. *)
Redecree(s, i) ==
  LET null == ValueOf("NULL", s.self, s.req_id + 1, 0)
  IN  IF i \notin DOMAIN s.ilist
      THEN BroadcastInstance(
             [InsertAndUpstart(s, i, DecreeInstance(s.ballot, null)) EXCEPT !.req_id = @ + 1], i)
      ELSE IF s.ilist[i].committed THEN s
      ELSE BroadcastInstance(
             [s EXCEPT !.ilist = Put(@, i, DecreeInstance(s.ballot, @[i].val))], i)

(* Redecree n instances from i on. *)
RedecreeFrom(s, i, n) == FoldLeft(Redecree, s, [k \in 1 .. n |-> i + k - 1])

DecreeUnlessEnded(s, val) == IF Up(s) THEN ProposerDecree(s, val) ELSE s
DecreeAll(s, vals) == FoldLeft(DecreeUnlessEnded, s, vals)

(* The end of a prepare: everything unfinished, then everything deferred. *)
FinishPrepare(s) ==
  LET start == [s EXCEPT !.ballot = s.prep.bal]
      redecreed == RedecreeFrom(start, s.ihole, NextInstance(s) - s.ihole)
  IN  IF ~HasGlb(s.ilist, s.prep.istart, s.ihole) THEN Fail(s, "pp_istart off the list")
      ELSE DecreeAll([redecreed EXCEPT !.prep = NoPrep, !.idefer = <<>>], s.idefer)

ProposerAckPromise(s, m) ==
  LET merged == MergeVotes([s |-> s, it |-> s.prep.istart, votes |-> m.body]).s
      acked == [merged EXCEPT !.prep.acks = @ + 1]
  IN  IF s.prep = NoPrep THEN s
      ELSE IF BallotCompare(s.prep.bal, m.bal) # 0 THEN s
      ELSE IF ~Up(merged) THEN merged
      ELSE IF acked.prep.acks < Majority(s) THEN acked
      ELSE FinishPrepare(acked)

-----------------------------------------------------------------------------
(* Decree, accept, commit *)

AcceptorAccept(s, m) == SendToProposer(s, Message("ACCEPT", m.bal, m.inum, <<>>))
AcceptorReject(s, m) == SendToProposer(s, Message("REJECT", m.bal, m.inum, <<>>))

SameDecree(v, w) == v.kind = w.kind /\ ReqId(v) = ReqId(w)

AcceptorAckDecree(s, m) ==
  LET val == m.body
      i == m.inum
      known == i \in DOMAIN s.ilist
  IN  IF BallotCompare(m.bal, s.ballot) # 0 THEN s
      ELSE IF s.proposer # s.ballot.id THEN Fail(s, "decree from another proposer")
      ELSE IF val.kind = "PART" /\ ~IsMember(s, val.extra) THEN Fail(s, "part of a stranger")
      ELSE IF val.kind = "PART" /\ s.alist[val.extra] # NoPeer THEN AcceptorReject(s, m)
      ELSE IF ~known THEN AcceptorAccept(InsertAndUpstart(s, i, ZeroInstance(m.bal, val)), m)
      ELSE IF s.ilist[i].committed THEN
        IF SameDecree(s.ilist[i].val, val) THEN AcceptorAccept(s, m)
        ELSE Fail(s, "decree against a commit")
      ELSE IF BallotCompare(m.bal, s.ilist[i].bal) >= 0 THEN
        AcceptorAccept([s EXCEPT !.ilist = Put(@, i, [@[i] EXCEPT !.bal = m.bal, !.val = val])], m)
      ELSE s

(* Mutant: one vote more than a majority is waited for. *)
ProposerAckAcceptLate(s, m) ==
  LET i == m.inum
      counted == [s.ilist[i] EXCEPT !.votes = @ + 1]
      t == [s EXCEPT !.ilist = Put(@, i, counted)]
  IN  IF ~s.ilist[i].committed /\ counted.votes > Majority(s) THEN ProposerCommit(t, i)
      ELSE t

ProposerAckAccept(s, m) ==
  LET i == m.inum
      counted == [s.ilist[i] EXCEPT !.votes = @ + 1]
      t == [s EXCEPT !.ilist = Put(@, i, counted)]
  IN  IF BallotCompare(m.bal, s.ballot) # 0 THEN Fail(s, "accept of another ballot")
      ELSE IF i \notin DOMAIN s.ilist THEN Fail(s, "accept of no instance")
      ELSE IF ~s.ilist[i].committed /\ counted.votes >= Majority(s) THEN ProposerCommit(t, i)
      ELSE t

(* acceptor_ack_commit: trusted whatever its ballot. *)
AcceptorAckCommit(s, m) ==
  LET i == m.inum
      found == IF i \in DOMAIN s.ilist THEN s ELSE InsertAndUpstart(s, i, ZeroInstance(m.bal, m.body))
  IN  IF found.ilist[i].committed THEN s
      ELSE PaxosCommit([found EXCEPT !.ilist = Put(@, i, [@[i] EXCEPT !.val = m.body])], i)

-----------------------------------------------------------------------------
(* Retry *)

(* proposer_ack_retry and proposer_recommit. *)
ProposerAckRetry(s, m) ==
  IF m.inum \notin DOMAIN s.ilist THEN Fail(s, "retry of no instance")
  ELSE IF ~s.ilist[m.inum].committed THEN s
  ELSE Broadcast(s, Message("RECOMMIT", m.bal, m.inum, s.ilist[m.inum].val))

AcceptorAckRecommit(s, m) ==
  LET i == m.inum
      found == IF i \in DOMAIN s.ilist
               THEN [s EXCEPT !.ilist = Put(@, i, [@[i] EXCEPT !.bal = m.bal, !.val = m.body])]
               ELSE InsertAndUpstart(s, i, ZeroInstance(m.bal, m.body))
  IN  IF i \in DOMAIN s.ilist /\ s.ilist[i].committed THEN s ELSE PaxosCommit(found, i)

-----------------------------------------------------------------------------
(* Requests.  The payload of a request is its value. *)

(* paxos_request of a chat, or of a join of the process `extra'. *)
PaxosRequest(s, kind, extra) ==
  LET val == ValueOf(kind, s.self, s.req_id + 1, extra)
      t == Broadcast([s EXCEPT !.req_id = @ + 1, !.rcache = @ \union {ReqId(val)}],
                     Message("REQUEST", s.ballot, s.proposer, val))
  IN  IF IsProposer(s) THEN DecreeOrDefer(t, val) ELSE t

(* Mutant: whoever names another proposer is killed. *)
ProposerAckRequestKills(s, m) ==
  LET val == m.body
  IN  IF m.inum # s.self THEN
        IF IsMember(s, val.id) THEN DecreePart(s, val.id, TRUE) ELSE Fail(s, "kill of a stranger")
      ELSE DecreeOrDefer([s EXCEPT !.rcache = @ \union {ReqId(val)}], val)

(* proposer_ack_request: kill who takes a lower-ranked one for proposer. *)
ProposerAckRequest(s, m) ==
  LET val == m.body
  IN  IF m.inum > s.self THEN
        IF IsMember(s, val.id) THEN DecreePart(s, val.id, TRUE) ELSE Fail(s, "kill of a stranger")
      ELSE DecreeOrDefer([s EXCEPT !.rcache = @ \union {ReqId(val)}], val)

(* acceptor_ack_request, and acceptor_refuse when we are misidentified. *)
AcceptorAckRequest(s, source, m) ==
  LET t == [s EXCEPT !.rcache = @ \union {ReqId(m.body)}]
  IN  IF m.inum = s.self
      THEN Send(t, source, Message("REFUSE", s.ballot, s.proposer, m.body))
      ELSE t

(* paxos_ack_retrieve and paxos_resend. *)
PaxosAckRetrieve(s, m) ==
  LET from == m.body.from
  IN  IF ReqId(m.body.val) \notin s.rcache THEN s
      ELSE IF ~IsMember(s, from) THEN Fail(s, "resend to a stranger")
      ELSE Send(s, s.alist[from], Message("RESEND", m.bal, m.inum, m.body.val))

PaxosAckResend(s, m) ==
  LET i == m.inum
  IN  IF i \notin DOMAIN s.ilist \/ s.ilist[i].cached THEN s
      ELSE PaxosCommit([s EXCEPT !.rcache = @ \union {ReqId(m.body)}], i)

=============================================================================
