---------------------------- MODULE SessionHandlers ---------------------------
(***************************************************************************)
(* The handlers: each of them leaves a good session, or one that has       *)
(* ended, and a ballot that is at least what was promised.  One lemma per  *)
(* handler of PaxosRoles, PaxosReconnect and PaxosSync, then               *)
(* continuations and dispatch.                                             *)
(*                                                                         *)
(* In the second half, what all code outside paxos_sync.c leaves alone: it *)
(* writes no message of a sync, touches neither the sync nor the base of   *)
(* the log, and never takes the hole back (Calm).                          *)
(***************************************************************************)
EXTENDS SessionLemmas

(* What a handler leaves: the ballot may have been raised. *)
Outcome(n, s, t) ==
  Up(t) => Good(n, t) /\ BallotCompare(t.ballot, s.ballot) >= 0 /\ Shrinks(n, s, t, {})

(* Keeping the ballot is a special case. *)
LEMMA KeptOutcome ==
  ASSUME NEW n, NEW s, Good(n, s), NEW t, Kept(n, s, t) PROVE Outcome(n, s, t)
<1>1. s.ballot \in Bal
  BY DEF Good, Sound, Shaped, Promised
<1>2. BallotCompare(s.ballot, s.ballot) >= 0
  BY <1>1 DEF Bal, BallotCompare, PaxidCompare
<1> QED BY <1>2 DEF Kept, Outcome

(* The last promise: the ballot is raised to the prepared one, which the session owns;
   redecrees and deferred decrees follow. *)
LEMMA Finishes ==
  ASSUME NEW n, NEW s, Good(n, s), s.prep # NoPrep, NEW t, t = FinishPrepare(s)
  PROVE  Outcome(n, s, t)
<1> SUFFICES ASSUME Up(t) PROVE Outcome(n, s, t)
  BY DEF Outcome
<1>1. DOMAIN s = Fields /\ Typed(s) /\ s.ihole \in Nat /\ s.proposer = n
  BY DEF Good, Sound, Shaped, Holes, Proposes
<1>2. PICK b : b = s.prep.bal
  OBVIOUS
<1>3. b \in Bal /\ b.id = n /\ b.gen = s.gen_high /\ s.ballot.gen < b.gen /\ s.ballot \in Bal
  BY <1>2 DEF Good, Sound, Shaped, Founders, Promised, Proposes, Bal
<1>4. PICK a : a = [s EXCEPT !.ballot = b]
  OBVIOUS
<1>5. PICK h : h = NextInstance(s) - s.ihole
  OBVIOUS
<1>6. PICK c : c = RedecreeFrom(a, s.ihole, h)
  OBVIOUS
<1>7. PICK d : d = [c EXCEPT !.prep = NoPrep, !.idefer = <<>>]
  OBVIOUS
<1>8. t = DecreeAll(d, s.idefer)
  <2>1. ~Up(Fail(s, "pp_istart off the list"))
    BY <1>1, Failed
  <2> QED BY <1>2, <1>4, <1>5, <1>6, <1>7, <2>1 DEF FinishPrepare
<1>9. Quiet(a, c)
  <2>1. h \in Int
    BY <1>1, <1>5, LastInIs DEF NextInstance, Typed, IsLog
  <2>2. DOMAIN a = Fields /\ Typed(a) /\ a.ballot \in Bal
    BY <1>1, <1>3, <1>4 DEF Fields, Typed
  <2>3. Leads(s) /\ a.alist = s.alist /\ a.self = s.self
    BY <1>1, <1>4, ProposerLeads DEF Good, Fields
  <2>4. Leads(a)
    BY <2>3 DEF Leads, Connected, Members
  <2> QED BY <1>1, <1>6, <2>1, <2>2, <2>4, RedecreesFrom
<1>10. PICK g : g = [s EXCEPT !.ballot = b, !.prep = NoPrep]
  OBVIOUS
<1>11. /\ DOMAIN g = Fields /\ g.gen_high = s.gen_high /\ g.prep = NoPrep /\ g.idefer = s.idefer
       /\ g.status = s.status /\ g.self = s.self /\ g.alist = s.alist /\ g.desc = s.desc
       /\ g.adefer = s.adefer /\ g.live_count = s.live_count /\ g.proposer = s.proposer
       /\ g.ballot = b /\ g.ihole = s.ihole /\ g.clist = s.clist /\ g.closed = s.closed
       /\ g.ilist = s.ilist /\ g.out = s.out
  BY <1>1, <1>10 DEF Fields
<1>12. Connected(g) = Connected(s)
  BY <1>11 DEF Connected, Members
<1>13. Good(n, g)
  <2>1. Acceptors(n, g) /\ Descs(n, g) /\ Live(g) /\ Holes(g)
    BY <1>11, <1>12 DEF Good, Sound, Shaped, Acceptors, Descs, Live, Holes
  <2>2. Conts(n, g)
    BY <1>11 DEF Good, Sound, Shaped, Conts
  <2>3. Promised(g) /\ Proposes(n, g)
    BY <1>3, <1>11 DEF Good, Sound, Shaped, Promised, Proposes, Bal
  <2>4. Meets(n, g) /\ Ranked(n, g)
    BY <1>11, <1>12 DEF Good, Sound, Shaped, Meets, Ranked
  <2> QED BY <1>11, <2>1, <2>2, <2>3, <2>4 DEF Good, Sound, Shaped, Typed, Up
<1>14. Quiet(g, d)
  <2>1. d.prep = NoPrep /\ Same(g, d) /\ d.idefer = <<>> /\ d.out = c.out /\ d.ilist = c.ilist
        /\ d.self = c.self
    BY <1>1, <1>4, <1>7, <1>9, <1>11 DEF Quiet, Same, SamePrep, Fields
  <2> QED BY <1>9, <2>1, QueueEmpty DEF Quiet, Typed
<1>15. /\ Good(n, d) /\ d.ballot = b /\ d.proposer = n
       /\ Connected(d) = Connected(s) /\ d.closed = s.closed
  BY <1>1, <1>11, <1>12, <1>13, <1>14, QuietGood DEF Quiet, Same, Connected, Members
<1>16. Kept(n, d, t)
  BY <1>1, <1>8, <1>15, DecreesAll DEF Typed
<1>17. BallotCompare(b, s.ballot) >= 0
  BY <1>3 DEF Bal, BallotCompare, PaxidCompare
<1>18. Good(n, t) /\ t.ballot = b /\ Shrinks(n, d, t, {})
  BY <1>15, <1>16 DEF Kept
<1>19. Shrinks(n, s, t, {})
  BY <1>15, <1>18 DEF Shrinks
<1> QED BY <1>17, <1>18, <1>19 DEF Outcome

(* What a handler knows after its first quiet call. *)
LEMMA After ==
  ASSUME NEW n, NEW s, Good(n, s), NEW a, Quiet(s, a)
  PROVE  /\ Good(n, a) /\ Kept(n, s, a) /\ DOMAIN a = Fields /\ Typed(a) /\ a.self = n
         /\ a.ballot \in Bal /\ a.proposer = s.proposer /\ a.alist = s.alist
         /\ \A t : Kept(n, a, t) => Kept(n, s, t)
<1>1. Good(n, a) /\ Kept(n, s, a) /\ DOMAIN a = Fields /\ Typed(a) /\ a.self = n /\ a.ballot \in Bal
  BY QuietGood DEF Good, Sound, Shaped, Promised
<1>2. a.proposer = s.proposer /\ a.alist = s.alist
  BY DEF Quiet, Same
<1> QED BY <1>1, <1>2, QuietThen

(* What it knows before. *)
LEMMA Itself ==
  ASSUME NEW n, NEW s, Good(n, s)
  PROVE  /\ Quiet(s, s) /\ Kept(n, s, s) /\ DOMAIN s = Fields /\ Typed(s) /\ s.self = n
         /\ s.ballot \in Bal /\ n \in Nat
<1>1. /\ DOMAIN s = Fields /\ Typed(s) /\ s.self = n /\ s.ballot \in Bal /\ n \in Nat
  BY DEF Good, Sound, Shaped, Promised, Founders
<1> QED BY <1>1, ShrinksSame DEF Quiet, Same, SamePrep, Kept

-----------------------------------------------------------------------------
(* The handlers of PaxosRoles *)

(* proposer_ack_promise merges, counts, and finishes with a majority. *)
LEMMA AcksPromise ==
  ASSUME NEW n, NEW s, Good(n, s), NEW m, IsVotes(m.body), NEW t, t = ProposerAckPromise(s, m)
  PROVE  Outcome(n, s, t)
<1> SUFFICES ASSUME Up(t), t # s PROVE Outcome(n, s, t)
  BY Itself, KeptOutcome DEF Outcome
<1>1. DOMAIN s = Fields /\ Typed(s) /\ s.prep # NoPrep /\ DOMAIN s.prep = PrepFields
  BY DEF Good, Sound, Shaped, Proposes, ProposerAckPromise
<1>2. PICK acc : acc = [s |-> s, it |-> s.prep.istart, votes |-> m.body]
  OBVIOUS
<1>3. PICK u : u = MergeVotes(acc).s
  OBVIOUS
<1>4. PICK v : v = [u EXCEPT !.prep.acks = @ + 1]
  OBVIOUS
<1>5. Up(u) /\ (t = v \/ t = FinishPrepare(v))
  BY <1>2, <1>3, <1>4 DEF ProposerAckPromise
<1>6. Quiet(s, u) /\ DOMAIN u.prep = PrepFields
  <2>1. DOMAIN acc = AccFields /\ acc.s = s /\ acc.votes = m.body
    BY <1>2 DEF AccFields
  <2> QED BY <1>1, <1>3, <1>5, <2>1, MergesVotes
<1>7. Quiet(u, v) /\ DOMAIN v.prep = PrepFields
  <2>1. PICK p : p = [u.prep EXCEPT !.acks = @ + 1]
    OBVIOUS
  <2>2. DOMAIN p = PrepFields /\ p.bal = u.prep.bal /\ v = [u EXCEPT !.prep = p]
    BY <1>4, <1>6, <2>1 DEF PrepFields
  <2>3. DOMAIN u = Fields /\ Typed(u)
    BY <1>6 DEF Quiet, Same
  <2> QED BY <1>6, <2>2, <2>3 DEF Quiet, Same, SamePrep, Typed, Fields
<1>8. Quiet(s, v)
  BY <1>6, <1>7, QuietTrans
<1>9. /\ Good(n, v) /\ Kept(n, s, v) /\ v.ballot = s.ballot /\ v.prep # NoPrep
      /\ Connected(v) = Connected(s) /\ v.closed = s.closed
  <2>1. v.prep # NoPrep
    BY <1>7 DEF PrepFields, NoPrep
  <2> QED BY <1>8, <2>1, QuietGood DEF Quiet, Same, Connected, Members
<1>10. CASE t = v
  BY <1>9, <1>10, KeptOutcome
<1>11. CASE t = FinishPrepare(v)
  <2>1. Outcome(n, v, t)
    BY <1>9, <1>11, Finishes
  <2> QED BY <1>9, <2>1 DEF Outcome, Shrinks
<1> QED BY <1>5, <1>10, <1>11

(* A handler that only sends. *)
LEMMA SendsKept ==
  ASSUME NEW n, NEW s, Good(n, s), NEW c, NEW m, Routed(n, c, m), NEW t, t = Send(s, c, m)
  PROVE  Kept(n, s, t)
<1>1. Up(t) => Quiet(s, t)
  BY Sends, Itself
<1> QED BY <1>1, QuietGood DEF Kept

(* A handler of a proposer that only broadcasts. *)
LEMMA BroadcastsKept ==
  ASSUME NEW n, NEW s, Good(n, s), s.proposer = n, NEW m, IsMsg(m), m.op # "REQUEST",
         NEW t, t = Broadcast(s, m)
  PROVE  Kept(n, s, t)
<1>1. Leads(s)
  BY ProposerLeads DEF Good
<1>2. Quiet(s, t)
  BY <1>1, LeadBroadcasts, Itself
<1> QED BY <1>2, QuietGood

(* A handler that fails has kept everything. *)
LEMMA FailsKept ==
  ASSUME NEW n, NEW s, DOMAIN s = Fields, NEW w, w # "up", NEW u PROVE Kept(n, u, Fail(s, w))
BY Failed DEF Kept

(* A message whose body nobody relies on. *)
LEMMA PlainMessage ==
  ASSUME NEW op \in Ops \ {"DECREE", "COMMIT", "RECOMMIT", "REQUEST", "PROMISE"},
         NEW b \in Bal, NEW i, NEW x
  PROVE  IsMsg(Message(op, b, i, x)) /\ Message(op, b, i, x).op = op
BY DEF IsMsg, Message, Ops

(* What an acceptor sends to a proposer, or anybody to anybody. *)
LEMMA Answer ==
  ASSUME NEW op \in {"ACCEPT", "REJECT", "REDIRECT", "RETRY", "LAST", "RETRIEVE", "RESEND"},
         NEW b \in Bal, NEW i, NEW x
  PROVE  \A n, c : Routed(n, c, Message(op, b, i, x))
<1>1. PICK m : m = Message(op, b, i, x)
  OBVIOUS
<1>2. IsMsg(m) /\ m.op \notin Leading \union {"REQUEST"}
  BY <1>1, PlainMessage DEF Ops, Leading
<1> QED BY <1>1, <1>2, Anywhere

(* acceptor_ack_decree accepts, or rejects the part of a participant it is connected to. *)
LEMMA AcksDecree ==
  ASSUME NEW n, NEW s, Good(n, s), NEW m, m.bal \in Bal, m.inum \in Nat, IsValAt(m.inum, m.body),
         NEW t, t = AcceptorAckDecree(s, m)
  PROVE  Kept(n, s, t)
<1> SUFFICES ASSUME Up(t) PROVE Kept(n, s, t)
  BY DEF Kept
<1>1. PICK i, b, v : i = m.inum /\ b = m.bal /\ v = m.body
  OBVIOUS
<1>2. PICK x, y : /\ x = ZeroInstance(b, v)
                  /\ y = [s.ilist[i] EXCEPT !.bal = b, !.val = v]
  OBVIOUS
<1>3. PICK ins, upd : ins = InsertAndUpstart(s, i, x) /\ upd = [s EXCEPT !.ilist = Put(@, i, y)]
  OBVIOUS
<1>4. PICK acc, rej : acc = Message("ACCEPT", b, i, <<>>) /\ rej = Message("REJECT", b, i, <<>>)
  OBVIOUS
<1>5. \/ t = s
      \/ t = Send(s, s.alist[s.proposer], rej)
      \/ t = Send(ins, ins.alist[ins.proposer], acc)
      \/ t = Send(s, s.alist[s.proposer], acc)
      \/ i \in DOMAIN s.ilist /\ t = Send(upd, upd.alist[upd.proposer], acc)
  <2>1. /\ ~Up(Fail(s, "decree from another proposer")) /\ ~Up(Fail(s, "part of a stranger"))
        /\ ~Up(Fail(s, "decree against a commit"))
    BY Itself, Failed
  <2> QED BY <1>1, <1>2, <1>3, <1>4, <2>1
          DEF AcceptorAckDecree, AcceptorReject, AcceptorAccept, SendToProposer
<1>6. \A c : Routed(n, c, acc) /\ Routed(n, c, rej)
  BY <1>1, <1>4, Answer
<1>7. Quiet(s, ins)
  <2>1. IsInst(i, x)
    BY <1>1, <1>2, Instances
  <2> QED BY <1>1, <1>3, <2>1, Inserts, Itself
<1>8. i \in DOMAIN s.ilist => Quiet(s, upd)
  <2> SUFFICES ASSUME i \in DOMAIN s.ilist PROVE Quiet(s, upd)
    OBVIOUS
  <2>1. IsInst(i, s.ilist[i])
    BY Itself DEF Typed, IsLog
  <2>2. IsInst(i, y)
    BY <1>1, <1>2, <2>1 DEF IsInst
  <2> QED BY <1>1, <1>3, <2>2, Puts, Itself
<1>9. CASE t = Send(ins, ins.alist[ins.proposer], acc)
  <2>1. Kept(n, ins, t)
    BY <1>6, <1>7, <1>9, After, SendsKept
  <2> QED BY <1>7, <2>1, After
<1>10. CASE i \in DOMAIN s.ilist /\ t = Send(upd, upd.alist[upd.proposer], acc)
  <2>1. Kept(n, upd, t)
    BY <1>6, <1>8, <1>10, After, SendsKept
  <2> QED BY <1>8, <1>10, <2>1, After
<1> QED BY <1>5, <1>6, <1>9, <1>10, Itself, SendsKept

(* proposer_ack_accept counts a vote and commits with a majority. *)
LEMMA AcksAccept ==
  ASSUME NEW n, NEW s, Good(n, s), s.proposer = n, NEW m, NEW t, t = ProposerAckAccept(s, m)
  PROVE  Kept(n, s, t)
<1> SUFFICES ASSUME Up(t) PROVE Kept(n, s, t)
  BY DEF Kept
<1>1. PICK i : i = m.inum
  OBVIOUS
<1>2. PICK x : x = [s.ilist[i] EXCEPT !.votes = @ + 1]
  OBVIOUS
<1>3. PICK u : u = [s EXCEPT !.ilist = Put(@, i, x)]
  OBVIOUS
<1>4. i \in DOMAIN s.ilist /\ (t = u \/ t = ProposerCommit(u, i))
  <2>1. ~Up(Fail(s, "accept of another ballot")) /\ ~Up(Fail(s, "accept of no instance"))
    BY Itself, Failed
  <2> QED BY <1>1, <1>2, <1>3, <2>1 DEF ProposerAckAccept
<1>5. i \in Nat /\ IsInst(i, x)
  <2>1. i \in Nat /\ IsInst(i, s.ilist[i])
    BY <1>4, Itself DEF Typed, IsLog, IsNumbers
  <2> QED BY <1>2, <2>1, Updates
<1>6. Quiet(s, u) /\ i \in DOMAIN u.ilist
  BY <1>3, <1>5, Itself, Puts
<1>7. Kept(n, u, ProposerCommit(u, i))
  BY <1>6, After, ProposerCommits
<1> QED BY <1>4, <1>6, <1>7, After

(* acceptor_ack_commit, of an instance that is known or new. *)
LEMMA AcksCommit ==
  ASSUME NEW n, NEW s, Good(n, s), NEW m, m.bal \in Bal, m.inum \in Nat, IsValAt(m.inum, m.body),
         NEW t, t = AcceptorAckCommit(s, m)
  PROVE  Kept(n, s, t)
<1>1. PICK i, b, v : i = m.inum /\ b = m.bal /\ v = m.body
  OBVIOUS
<1>2. PICK f : f = IF i \in DOMAIN s.ilist THEN s ELSE InsertAndUpstart(s, i, ZeroInstance(b, v))
  OBVIOUS
<1>3. PICK x : x = [f.ilist[i] EXCEPT !.val = v]
  OBVIOUS
<1>4. PICK u : u = [f EXCEPT !.ilist = Put(@, i, x)]
  OBVIOUS
<1>5. t = s \/ t = PaxosCommit(u, i)
  BY <1>1, <1>2, <1>3, <1>4 DEF AcceptorAckCommit
<1>6. Quiet(s, f) /\ i \in DOMAIN f.ilist
  <2>1. CASE i \in DOMAIN s.ilist
    BY <1>2, <2>1, Itself
  <2>2. CASE i \notin DOMAIN s.ilist
    <3>1. IsInst(i, ZeroInstance(b, v))
      BY <1>1, Instances
    <3> QED BY <1>1, <1>2, <2>2, <3>1, Inserts, Itself
  <2> QED BY <2>1, <2>2
<1>7. IsInst(i, x)
  <2>1. IsInst(i, f.ilist[i])
    BY <1>6, After DEF Typed, IsLog
  <2> QED BY <1>1, <1>3, <2>1 DEF IsInst
<1>8. Quiet(f, u) /\ i \in DOMAIN u.ilist
  BY <1>1, <1>4, <1>6, <1>7, After, Puts
<1>9. Quiet(s, u)
  BY <1>6, <1>8, QuietTrans
<1>10. Kept(n, u, PaxosCommit(u, i))
  BY <1>8, <1>9, After, Commits
<1> QED BY <1>5, <1>9, <1>10, After, Itself

(* acceptor_ack_recommit, which may replace what is there. *)
LEMMA AcksRecommit ==
  ASSUME NEW n, NEW s, Good(n, s), NEW m, m.bal \in Bal, m.inum \in Nat, IsValAt(m.inum, m.body),
         NEW t, t = AcceptorAckRecommit(s, m)
  PROVE  Kept(n, s, t)
<1>1. PICK i, b, v : i = m.inum /\ b = m.bal /\ v = m.body
  OBVIOUS
<1>2. PICK x : x = [s.ilist[i] EXCEPT !.bal = b, !.val = v]
  OBVIOUS
<1>3. PICK f : f = IF i \in DOMAIN s.ilist THEN [s EXCEPT !.ilist = Put(@, i, x)]
                   ELSE InsertAndUpstart(s, i, ZeroInstance(b, v))
  OBVIOUS
<1>4. t = s \/ t = PaxosCommit(f, i)
  BY <1>1, <1>2, <1>3 DEF AcceptorAckRecommit
<1>5. Quiet(s, f) /\ i \in DOMAIN f.ilist
  <2>1. CASE i \in DOMAIN s.ilist
    <3>1. IsInst(i, s.ilist[i])
      BY <2>1, Itself DEF Typed, IsLog
    <3>2. IsInst(i, x)
      BY <1>1, <1>2, <3>1 DEF IsInst
    <3> QED BY <1>1, <1>3, <2>1, <3>2, Puts, Itself
  <2>2. CASE i \notin DOMAIN s.ilist
    <3>1. IsInst(i, ZeroInstance(b, v))
      BY <1>1, Instances
    <3> QED BY <1>1, <1>3, <2>2, <3>1, Inserts, Itself
  <2> QED BY <2>1, <2>2
<1>6. Kept(n, f, PaxosCommit(f, i))
  BY <1>5, After, Commits
<1> QED BY <1>4, <1>5, <1>6, After, Itself

(* A prepare that is not ours: redirect its sender, or promise. *)
LEMMA AcksPrepare ==
  ASSUME NEW n, NEW s, Good(n, s), s.proposer # n, NEW c, NEW m, m.bal \in Bal,
         NEW t, t = AcceptorAckPrepare(s, c, m)
  PROVE  Outcome(n, s, t)
<1> SUFFICES ASSUME Up(t) PROVE Outcome(n, s, t)
  BY DEF Outcome
<1>0. DOMAIN s = Fields /\ Typed(s) /\ s.ballot \in Bal /\ n \in Nat
  BY Itself
<1>1. CASE t = AcceptorRedirect(s, c, m)
  <2>1. PICK r : r = Message("REDIRECT", s.ballot, s.proposer, m.bal)
    OBVIOUS
  <2>2. Routed(n, c, r)
    BY <1>0, <2>1, Answer
  <2>3. t = Send(s, c, r)
    BY <1>1, <2>1 DEF AcceptorRedirect
  <2> QED BY <2>2, <2>3, SendsKept, KeptOutcome
<1>2. CASE BallotCompare(m.bal, s.ballot) > 0 /\ t = AcceptorPromise(s, m)
  <2>1. PICK b : b = m.bal
    OBVIOUS
  <2>2. PICK a : a = [s EXCEPT !.ballot = b, !.gen_high = b.gen]
    OBVIOUS
  <2> DEFINE base == Max({i \in DOMAIN s.ilist : i <= m.inum})
             D == {j \in DOMAIN s.ilist : j >= base}
             vs == [i \in D |-> [bal |-> s.ilist[i].bal, val |-> s.ilist[i].val]]
  <2>3. PICK p : p = Message("PROMISE", b, m.inum, vs)
    OBVIOUS
  <2>4. t = Send(a, a.alist[a.proposer], p)
    <3>1. ~Up(Fail(s, "malformed promise"))
      BY <1>0, Failed
    <3> QED BY <1>2, <2>1, <2>2, <2>3, <3>1 DEF AcceptorPromise, SendToProposer
  <2>5. IsVotes(vs)
    <3>1. IsNumbers(D)
      BY <1>0, NumbersSub DEF Typed, IsLog
    <3>2. \A i \in D : IsVote(i, vs[i])
      BY <1>0 DEF Typed, IsLog, IsInst, IsVote
    <3> QED BY <3>1, <3>2 DEF IsVotes
  <2> HIDE DEF vs
  <2>6. Routed(n, a.alist[a.proposer], p)
    <3>1. IsMsg(p) /\ p.op = "PROMISE"
      BY <2>1, <2>3, <2>5 DEF IsMsg, Message, Ops
    <3> QED BY <3>1, Anywhere DEF Leading
  <2>7. /\ DOMAIN a = Fields /\ a.gen_high = b.gen /\ a.prep = s.prep /\ a.idefer = s.idefer
        /\ a.status = s.status /\ a.self = s.self /\ a.alist = s.alist /\ a.desc = s.desc
        /\ a.adefer = s.adefer /\ a.live_count = s.live_count /\ a.proposer = s.proposer
        /\ a.ballot = b /\ a.ihole = s.ihole /\ a.clist = s.clist /\ a.closed = s.closed
        /\ a.ilist = s.ilist /\ a.out = s.out
    BY <1>0, <2>2 DEF Fields
  <2>8. Connected(a) = Connected(s)
    BY <2>7 DEF Connected, Members
  <2>9. Good(n, a)
    <3>1. Acceptors(n, a) /\ Descs(n, a) /\ Live(a) /\ Holes(a)
      BY <2>7, <2>8 DEF Good, Sound, Shaped, Acceptors, Descs, Live, Holes
    <3>2. Conts(n, a)
      BY <2>7 DEF Good, Sound, Shaped, Conts
    <3>3. Promised(a) /\ Proposes(n, a)
      BY <2>1, <2>7 DEF Good, Sound, Shaped, Promised, Proposes, Bal
    <3>4. Meets(n, a) /\ Ranked(n, a)
      BY <2>7, <2>8 DEF Good, Sound, Shaped, Meets, Ranked
    <3> QED BY <2>7, <3>1, <3>2, <3>3, <3>4 DEF Good, Sound, Shaped, Typed, Up
  <2>10. Kept(n, a, t)
    BY <2>4, <2>6, <2>9, SendsKept
  <2>11. BallotCompare(b, s.ballot) >= 0
    <3>1. BallotCompare(b, s.ballot) \in Int
      BY DEF BallotCompare, PaxidCompare
    <3> QED BY <1>2, <2>1, <3>1
  <2>12. Good(n, t) /\ t.ballot = b /\ Shrinks(n, a, t, {})
    BY <2>7, <2>10 DEF Kept
  <2>13. Shrinks(n, s, t, {})
    BY <2>7, <2>8, <2>12 DEF Shrinks
  <2> QED BY <2>11, <2>12, <2>13 DEF Outcome
<1>3. t = AcceptorRedirect(s, c, m) \/ (BallotCompare(m.bal, s.ballot) > 0 /\ t = AcceptorPromise(s, m))
  <2>1. BallotCompare(m.bal, s.ballot) \in Int
    BY DEF BallotCompare, PaxidCompare
  <2> QED BY <2>1 DEF AcceptorAckPrepare
<1> QED BY <1>1, <1>2, <1>3

(* acceptor_ack_request caches the request, and refuses it on a connection where we are
   the superior end: only there we are taken for the proposer. *)
LEMMA AcceptsRequest ==
  ASSUME NEW n, NEW s, Good(n, s), NEW c, NEW m, m.op = "REQUEST", Arrives(n, c, m),
         NEW t, t = AcceptorAckRequest(s, c, m)
  PROVE  Kept(n, s, t)
<1>1. PICK v, r, a : v = m.body /\ r = s.rcache \union {ReqId(v)} /\ a = [s EXCEPT !.rcache = r]
  OBVIOUS
<1>2. PICK f : f = Message("REFUSE", s.ballot, s.proposer, v)
  OBVIOUS
<1>3. IsMsg(f) /\ f.op = "REFUSE"
  BY <1>2, Itself, PlainMessage DEF Ops
<1>4. Quiet(s, a)
  BY <1>1, Itself, Minor
<1>5. t = a \/ (m.inum = s.self /\ t = Send(a, c, f))
  BY <1>1, <1>2 DEF AcceptorAckRequest
<1>6. CASE m.inum = s.self /\ t = Send(a, c, f)
  <2>1. c[1] = n
    BY <1>6, Itself DEF Arrives
  <2>2. Routed(n, c, f)
    BY <1>3, <2>1 DEF Routed
  <2>3. Kept(n, a, t)
    BY <1>4, <1>6, <2>2, After, SendsKept
  <2> QED BY <1>4, <2>3, After
<1>7. CASE t = a
  BY <1>4, <1>7, QuietGood
<1> QED BY <1>5, <1>6, <1>7

(* proposer_ack_request decrees or defers: nobody takes a lower-ranked one for proposer. *)
LEMMA AcksRequest ==
  ASSUME NEW n, NEW s, Good(n, s), s.proposer = n, NEW c, NEW m, m.op = "REQUEST", Arrives(n, c, m),
         NEW t, t = ProposerAckRequest(s, m)
  PROVE  Kept(n, s, t)
<1>1. PICK v, r, a : v = m.body /\ r = s.rcache \union {ReqId(v)} /\ a = [s EXCEPT !.rcache = r]
  OBVIOUS
<1>2. m.inum \in Nat /\ m.inum <= n /\ IsVal(v)
  BY <1>1 DEF Arrives, IsMsg
<1>3. t = DecreeOrDefer(a, v)
  <2>1. s.self = n /\ n \in Nat
    BY Itself
  <2>2. ~(m.inum > s.self)
    BY <1>2, <2>1
  <2> QED BY <1>1, <2>2 DEF ProposerAckRequest
<1>4. Quiet(s, a)
  BY <1>1, Itself, Minor
<1>5. Kept(n, a, t)
  BY <1>2, <1>3, <1>4, After, DecreesOrDefers
<1> QED BY <1>4, <1>5, After

(* paxos_ack_retrieve resends from the cache, or fails on a NULL peer. *)
LEMMA AcksRetrieve ==
  ASSUME NEW n, NEW s, Good(n, s), NEW m, m.bal \in Bal, NEW t, t = PaxosAckRetrieve(s, m)
  PROVE  Kept(n, s, t)
<1>1. PICK r, p : r = Message("RESEND", m.bal, m.inum, m.body.val) /\ p = s.alist[m.body.from]
  OBVIOUS
<1>2. Routed(n, p, r)
  BY <1>1, Answer
<1>3. t = s \/ t = Fail(s, "resend to a stranger") \/ t = Send(s, p, r)
  BY <1>1 DEF PaxosAckRetrieve
<1> QED BY <1>2, <1>3, Itself, FailsKept, SendsKept

(* paxos_ack_resend caches a request and takes up the commits that waited for it. *)
LEMMA AcksResend ==
  ASSUME NEW n, NEW s, Good(n, s), NEW m, NEW t, t = PaxosAckResend(s, m)
  PROVE  Kept(n, s, t)
<1>1. PICK i, r, a : i = m.inum /\ r = s.rcache \union {ReqId(m.body)} /\ a = [s EXCEPT !.rcache = r]
  OBVIOUS
<1>2. t = s \/ (i \in DOMAIN s.ilist /\ t = PaxosCommit(a, i))
  BY <1>1 DEF PaxosAckResend
<1>3. Quiet(s, a) /\ a.ilist = s.ilist
  BY <1>1, Itself, Minor DEF Fields
<1>4. i \in DOMAIN s.ilist => Kept(n, a, PaxosCommit(a, i))
  BY <1>3, After, Commits
<1> QED BY <1>2, <1>3, <1>4, After, Itself

(* proposer_ack_retry answers with a recommit. *)
LEMMA AcksRetry ==
  ASSUME NEW n, NEW s, Good(n, s), s.proposer = n, NEW m, m.bal \in Bal,
         NEW t, t = ProposerAckRetry(s, m)
  PROVE  Kept(n, s, t)
<1>1. PICK i, r : i = m.inum /\ r = Message("RECOMMIT", m.bal, i, s.ilist[i].val)
  OBVIOUS
<1>2. \/ t = s \/ t = Fail(s, "retry of no instance")
      \/ i \in DOMAIN s.ilist /\ t = Broadcast(s, r)
  BY <1>1 DEF ProposerAckRetry
<1>3. i \in DOMAIN s.ilist => IsMsg(r) /\ r.op # "REQUEST"
  BY <1>1, Itself DEF IsMsg, Message, Ops, Typed, IsLog, IsInst, IsNumbers
<1>4. CASE i \in DOMAIN s.ilist /\ t = Broadcast(s, r)
  BY <1>3, <1>4, BroadcastsKept
<1>5. CASE t = Fail(s, "retry of no instance")
  <2>1. ~Up(t)
    BY <1>5, Itself, Failed
  <2> QED BY <2>1 DEF Kept
<1> QED BY <1>2, <1>4, <1>5, Itself

(* Asking the client for a connection adds a continuation. *)
LEMMA Connects ==
  ASSUME NEW n, NEW s, Good(n, s), NEW kind \in {"redirect", "refuse", "reject", "welcome"},
         kind # "refuse" => s.proposer = n, NEW id, kind = "welcome" => id \notin Alive,
         id \in DOMAIN s.alist => s.alist[id] = NoPeer,
         NEW inum, NEW val, NEW t, t = Connect(s, kind, id, inum, val)
  PROVE  Kept(n, s, t)
<1>1. PICK w : w = [kind |-> kind, acc |-> id, inum |-> inum, val |-> val]
  OBVIOUS
<1>2. w.kind = kind /\ w.acc = id
  BY <1>1
<1>3. PICK cl : cl = Append(s.clist, w)
  OBVIOUS
<1>4. t = [s EXCEPT !.clist = cl]
  BY <1>1, <1>3 DEF Connect
<1>5. /\ DOMAIN t = Fields /\ t.gen_high = s.gen_high /\ t.prep = s.prep /\ t.idefer = s.idefer
      /\ t.status = s.status /\ t.self = s.self /\ t.alist = s.alist /\ t.desc = s.desc
      /\ t.adefer = s.adefer /\ t.live_count = s.live_count /\ t.proposer = s.proposer
      /\ t.ballot = s.ballot /\ t.ihole = s.ihole /\ t.clist = cl /\ t.closed = s.closed
      /\ t.ilist = s.ilist /\ t.out = s.out
  BY <1>4, Itself DEF Fields
<1>6. Connected(t) = Connected(s)
  BY <1>5 DEF Connected, Members
<1>7. Acceptors(n, t) /\ Descs(n, t) /\ Live(t) /\ Holes(t)
  BY <1>5, <1>6 DEF Good, Sound, Shaped, Acceptors, Descs, Live, Holes
<1>8. Promised(t) /\ Proposes(n, t) /\ Meets(n, t) /\ Ranked(n, t)
  BY <1>5, <1>6 DEF Good, Sound, Shaped, Promised, Proposes, Meets, Ranked
<1>9. Conts(n, t)
  <2>1. IsSeq(s.clist) /\ Len(s.clist) \in Nat
    BY DEF Good, Sound, Shaped, Conts, IsSeq
  <2>2. IsSeq(cl) /\ Len(cl) = Len(s.clist) + 1
    BY <1>3, <2>1, AppendSeq
  <2>3. ASSUME NEW k \in 1 .. Len(cl) PROVE (k \in 1 .. Len(s.clist) /\ cl[k] = s.clist[k]) \/ cl[k] = w
    <3>1. k \in 1 .. Len(s.clist) \/ k = Len(s.clist) + 1
      BY <2>1, <2>2
    <3> QED BY <1>3, <2>1, <3>1, AppendSeq
  <2>4. ASSUME NEW k \in 1 .. Len(cl)
        PROVE  /\ cl[k].kind \in {"redirect", "refuse", "reject", "welcome"}
               /\ cl[k].kind # "refuse" => s.proposer = n
               /\ cl[k].kind = "welcome" => cl[k].acc \notin Alive
               /\ cl[k].acc \in DOMAIN s.alist => s.alist[cl[k].acc] = NoPeer
    BY <1>2, <2>3 DEF Good, Sound, Shaped, Conts
  <2> QED BY <1>5, <2>2, <2>4 DEF Conts
<1>10. Good(n, t)
  BY <1>5, <1>7, <1>8, <1>9 DEF Good, Sound, Shaped, Typed, Up
<1> QED BY <1>5, <1>6, <1>10, ShrinksSame DEF Kept

(* acceptor_ack_refuse reconnects to the proposer that the refusal names. *)
LEMMA AcksRefuse ==
  ASSUME NEW n, NEW s, Good(n, s), NEW m, NEW t, t = AcceptorAckRefuse(s, m)
  PROVE  Kept(n, s, t)
<1>1. PICK id, v : id = m.inum /\ v = m.body
  OBVIOUS
<1>2. \/ t = s \/ t = Fail(s, "refuse to a stranger") \/ t = Fail(s, "refuse to a live acceptor")
      \/ s.alist[id] = NoPeer /\ t = Connect(s, "refuse", id, 0, v)
  BY <1>1 DEF AcceptorAckRefuse
<1>3. CASE s.alist[id] = NoPeer /\ t = Connect(s, "refuse", id, 0, v)
  BY <1>3, Connects
<1>4. CASE t = s
  BY <1>4, Itself
<1>5. CASE t = Fail(s, "refuse to a stranger") \/ t = Fail(s, "refuse to a live acceptor")
  <2>1. ~Up(t)
    BY <1>5, Itself, Failed
  <2> QED BY <2>1 DEF Kept
<1> QED BY <1>2, <1>3, <1>4, <1>5

-----------------------------------------------------------------------------
(* The handlers of PaxosSync *)

(* ilist_truncate_prefix leaves a list. *)
LEMMA Truncates ==
  ASSUME NEW s, DOMAIN s = Fields, Typed(s), NEW b, NEW t, t = TruncatePrefix(s, b)
  PROVE  Quiet(s, t)
<1>1. PICK l : l = Truncated(s.ilist, b)
  OBVIOUS
<1>2. DOMAIN l \in SUBSET DOMAIN s.ilist /\ \A i \in DOMAIN l : l[i] = s.ilist[i]
  BY <1>1 DEF Truncated
<1>3. IsLog(l)
  <2>1. IsNumbers(DOMAIN l)
    BY <1>2, NumbersSub DEF Typed, IsLog
  <2> QED BY <1>2, <2>1 DEF Typed, IsLog
<1>4. PICK i, r : t = [s EXCEPT !.ilist = l, !.istart = i, !.rcache = r]
  BY <1>1 DEF TruncatePrefix
<1> QED BY <1>3, <1>4 DEF Quiet, Same, SamePrep, Typed, Fields

(* acceptor_ack_sync and acceptor_ack_truncate. *)
LEMMA AcksSync ==
  ASSUME NEW n, NEW s, Good(n, s), NEW m, m.bal \in Bal,
         NEW t, t = AcceptorAckSync(s, m) \/ t = AcceptorAckTruncate(s, m)
  PROVE  Kept(n, s, t)
<1>1. CASE t = AcceptorAckSync(s, m)
  <2>1. PICK r : r = Message("LAST", m.bal, m.inum, s.ihole - 1)
    OBVIOUS
  <2>2. Routed(n, s.alist[s.proposer], r)
    BY <2>1, Answer
  <2>3. t = s \/ t = Send(s, s.alist[s.proposer], r)
    BY <1>1, <2>1 DEF AcceptorAckSync, SendToProposer
  <2> QED BY <2>2, <2>3, Itself, SendsKept
<1>2. CASE t = AcceptorAckTruncate(s, m)
  <2>1. PICK b, a : b = m.body /\ a = [s EXCEPT !.ibase = b]
    OBVIOUS
  <2>2. t = TruncatePrefix(a, b)
    BY <1>2, <2>1 DEF AcceptorAckTruncate
  <2>3. Quiet(s, a)
    BY <2>1, Itself, Minor
  <2>4. Quiet(a, t)
    BY <2>2, <2>3, After, Truncates
  <2>5. Quiet(s, t)
    BY <2>3, <2>4, QuietTrans
  <2> QED BY <2>5, QuietGood
<1> QED BY <1>1, <1>2

(* proposer_ack_last counts, and truncates when it has all answers. *)
LEMMA AcksLast ==
  ASSUME NEW n, NEW s, Good(n, s), s.proposer = n, NEW m, m.bal \in Bal,
         NEW t, t = ProposerAckLast(s, m)
  PROVE  Kept(n, s, t)
<1>1. PICK y, z : y = (IF m.body < s.sync.last \/ s.sync.last = 0 THEN m.body ELSE s.sync.last)
                  /\ z = [s.sync EXCEPT !.last = y, !.acks = @ + 1]
  OBVIOUS
<1>2. PICK u : u = [s EXCEPT !.sync = z]
  OBVIOUS
<1>3. t = s \/ t = Fail(s, "answer to no sync") \/ t = u \/ t = ProposerTruncate(u, m)
  BY <1>1, <1>2 DEF ProposerAckLast
<1>4. Quiet(s, u)
  BY <1>2, Itself, Minor
<1>5. CASE t = ProposerTruncate(u, m)
  <2>1. PICK last, r, a : /\ last = Min({u.sync.last, u.ihole - 1})
                          /\ r = Message("TRUNCATE", m.bal, m.inum, last)
                          /\ a = [u EXCEPT !.sync_prev = last, !.ibase = last]
    OBVIOUS
  <2>2. PICK b, c : b = Broadcast(a, r) /\ c = TruncatePrefix(b, last)
    OBVIOUS
  <2>3. t = Fail(u, "sync below the base") \/ t = [c EXCEPT !.sync = NoSync]
    BY <1>5, <2>1, <2>2 DEF ProposerTruncate
  <2>4. IsMsg(r) /\ r.op # "REQUEST"
    BY <2>1, PlainMessage DEF Ops
  <2>5. Quiet(u, a)
    BY <1>4, <2>1, After DEF Quiet, Same, SamePrep, Typed, Fields
  <2>6. Quiet(s, a)
    BY <1>4, <2>5, QuietTrans
  <2>7. Quiet(a, b)
    <3>1. Leads(a)
      BY <2>6, QuietLeads, ProposerLeads DEF Good
    <3> QED BY <2>2, <2>4, <2>6, <3>1, After, LeadBroadcasts
  <2>8. Quiet(s, b)
    BY <2>6, <2>7, QuietTrans
  <2>9. Quiet(b, c)
    BY <2>2, <2>8, After, Truncates
  <2>10. Quiet(s, c)
    BY <2>8, <2>9, QuietTrans
  <2>11. Quiet(c, [c EXCEPT !.sync = NoSync])
    BY <2>10, After, Minor
  <2>12. Quiet(s, [c EXCEPT !.sync = NoSync])
    BY <2>10, <2>11, QuietTrans
  <2>13. Kept(n, s, [c EXCEPT !.sync = NoSync])
    BY <2>12, QuietGood
  <2>14. DOMAIN u = Fields
    BY <1>4, After
  <2>15. ~Up(Fail(u, "sync below the base"))
    BY <2>14, Failed
  <2> QED BY <2>3, <2>13, <2>15 DEF Kept
<1>6. CASE t = s \/ t = u
  BY <1>4, <1>6, Itself, QuietGood
<1>7. CASE t = Fail(s, "answer to no sync")
  <2>1. ~Up(t)
    BY <1>7, Itself, Failed
  <2> QED BY <2>1 DEF Kept
<1> QED BY <1>3, <1>5, <1>6, <1>7

(* proposer_sync, from the timer. *)
LEMMA SyncSends ==
  ASSUME NEW n, NEW s, Good(n, s), s.proposer = n, NEW t, t = ProposerSync(s)
  PROVE  Kept(n, s, t)
<1>1. PICK y, z, r : /\ y = [s.sync EXCEPT !.skips = @ + 1]
                     /\ z = [total |-> Cardinality(Members(s)), acks |-> 1, skips |-> 0, last |-> 0]
                     /\ r = Message("SYNC", s.ballot, s.sync_id + 1, <<>>)
  OBVIOUS
<1>2. PICK a, b : /\ a = [s EXCEPT !.sync = y]
                  /\ b = [s EXCEPT !.sync = z, !.sync_id = @ + 1]
  OBVIOUS
<1>3. t = s \/ t = a \/ t = Broadcast(b, r)
  BY <1>1, <1>2 DEF ProposerSync
<1>4. Quiet(s, a) /\ Quiet(s, b)
  BY <1>2, Itself DEF Quiet, Same, SamePrep, Typed, Fields
<1>5. IsMsg(r) /\ r.op # "REQUEST"
  BY <1>1, Itself, PlainMessage DEF Ops
<1>6. Kept(n, b, Broadcast(b, r))
  BY <1>4, <1>5, After, BroadcastsKept
<1>7. CASE t = Broadcast(b, r)
  BY <1>4, <1>6, <1>7, After
<1> QED BY <1>3, <1>4, <1>7, Itself, QuietGood

(* proposer_ack_reject reconnects after a majority of rejections, decrees again on a tie. *)
LEMMA AcksReject ==
  ASSUME NEW n, NEW s, Good(n, s), s.proposer = n, NEW m, NEW t, t = ProposerAckReject(s, m)
  PROVE  Kept(n, s, t)
<1> SUFFICES ASSUME Up(t) PROVE Kept(n, s, t)
  BY DEF Kept
<1>1. PICK i : i = m.inum
  OBVIOUS
<1>2. PICK x : x = [s.ilist[i] EXCEPT !.rejects = @ + 1]
  OBVIOUS
<1>3. PICK u, id : u = [s EXCEPT !.ilist = Put(@, i, x)] /\ id = x.val.extra
  OBVIOUS
<1>4. /\ i \in DOMAIN s.ilist
      /\ \/ t = u \/ t = BroadcastInstance(u, i)
         \/ s.alist[id] = NoPeer /\ t = Connect(u, "reject", id, i, NoValue)
  <2>1. /\ ~Up(Fail(s, "reject of another ballot")) /\ ~Up(Fail(s, "reject of no instance"))
        /\ ~Up(Fail(s, "reject of no part")) /\ ~Up(Fail(s, "rejected part of a stranger"))
        /\ ~Up(Fail(s, "rejected part of a live acceptor"))
    BY Itself, Failed
  <2> QED BY <1>1, <1>2, <1>3, <2>1 DEF ProposerAckReject
<1>5. i \in Nat /\ IsInst(i, x)
  <2>1. i \in Nat /\ IsInst(i, s.ilist[i])
    BY <1>4, Itself DEF Typed, IsLog, IsNumbers
  <2> QED BY <1>2, <2>1, Updates
<1>6. Quiet(s, u) /\ i \in DOMAIN u.ilist
  BY <1>3, <1>5, Itself, Puts
<1>7. CASE t = u
  BY <1>6, <1>7, QuietGood
<1>8. CASE t = BroadcastInstance(u, i)
  <2>1. Quiet(u, t)
    <3>1. Leads(u)
      BY <1>6, QuietLeads, ProposerLeads DEF Good
    <3> QED BY <1>5, <1>6, <1>8, <3>1, After, BroadcastsInstance
  <2>2. Quiet(s, t)
    BY <1>6, <2>1, QuietTrans
  <2> QED BY <2>2, QuietGood
<1>9. CASE s.alist[id] = NoPeer /\ t = Connect(u, "reject", id, i, NoValue)
  <2>1. u.alist[id] = NoPeer
    BY <1>6, <1>9 DEF Quiet, Same
  <2>2. Kept(n, u, t)
    BY <1>6, <1>9, <2>1, After, Connects
  <2> QED BY <1>6, <2>2, After
<1> QED BY <1>4, <1>7, <1>8, <1>9

(* A session that has given up its prepare to prepare again. *)
LEMMA Reprepares ==
  ASSUME NEW n, NEW s, Good(n, s), s.proposer = n, NEW f, f = [s EXCEPT !.prep = NoPrep],
         NEW t, t = ProposerPrepare(f, FALSE)
  PROVE  Kept(n, s, t)
<1> SUFFICES ASSUME Up(t) PROVE Kept(n, s, t)
  BY DEF Kept
<1>1. /\ DOMAIN f = Fields /\ f.gen_high = s.gen_high /\ f.idefer = s.idefer
      /\ f.status = s.status /\ f.self = s.self /\ f.alist = s.alist /\ f.desc = s.desc
      /\ f.adefer = s.adefer /\ f.live_count = s.live_count /\ f.proposer = s.proposer
      /\ f.ballot = s.ballot /\ f.ihole = s.ihole /\ f.clist = s.clist /\ f.closed = s.closed
      /\ f.ilist = s.ilist /\ f.out = s.out
  BY Itself DEF Fields
<1>2. Connected(f) = Connected(s)
  BY <1>1 DEF Connected, Members
<1>3. Sound(n, f)
  <2>1. Acceptors(n, f) /\ Holes(f) /\ Meets(n, f) /\ Ranked(n, f)
    BY <1>1, <1>2 DEF Good, Sound, Shaped, Acceptors, Holes, Meets, Ranked
  <2>2. Live(f) /\ Descs(n, f) /\ Promised(f)
    BY <1>1, <1>2 DEF Good, Sound, Shaped, Live, Descs, Promised
  <2>3. Conts(n, f)
    BY <1>1 DEF Good, Sound, Shaped, Conts
  <2> QED BY <1>1, <2>1, <2>2, <2>3 DEF Good, Sound, Shaped, Up, Typed
<1>4. PreparesTo(n, f, t)
  BY <1>1, <1>3, Prepares
<1> QED BY <1>1, <1>2, <1>4, ShrinksSame DEF PreparesTo, Kept

(* proposer_ack_redirect reconnects after a majority of redirections, prepares again on
   a tie. *)
LEMMA AcksRedirect ==
  ASSUME NEW n, NEW s, Good(n, s), s.proposer = n, NEW m, NEW t, t = ProposerAckRedirect(s, m)
  PROVE  Kept(n, s, t)
<1> SUFFICES ASSUME Up(t), t # s PROVE Kept(n, s, t)
  BY Itself DEF Kept
<1>1. PICK p, f, id : /\ p = [s.prep EXCEPT !.redirects = @ + 1]
                      /\ f = [s EXCEPT !.prep = NoPrep] /\ id = m.inum
  OBVIOUS
<1>2. PICK u : u = [s EXCEPT !.prep.redirects = @ + 1]
  OBVIOUS
<1>3. u = [s EXCEPT !.prep = p]
  BY <1>1, <1>2, Itself DEF Fields
<1>4. DOMAIN u = Fields
  BY <1>3, Itself DEF Fields
<1>5. /\ s.prep # NoPrep
      /\ \/ t = u \/ t = ProposerPrepare(f, FALSE)
         \/ s.alist[id] = NoPeer /\ t = Connect(u, "redirect", id, 0, NoValue)
  <2>1. /\ ~Up(Fail(s, "redirect to a lower rank")) /\ ~Up(Fail(u, "redirect to a stranger"))
        /\ ~Up(Fail(u, "redirect to a live acceptor"))
    BY <1>4, Itself, Failed
  <2> QED BY <1>1, <1>2, <2>1 DEF ProposerAckRedirect
<1>6. Quiet(s, u)
  <2>1. DOMAIN s.prep = PrepFields
    BY <1>5 DEF Good, Proposes
  <2>2. DOMAIN p = PrepFields /\ p.bal = s.prep.bal
    BY <1>1, <2>1 DEF PrepFields
  <2> QED BY <1>3, <2>1, <2>2, Itself DEF Quiet, Same, SamePrep, Typed, Fields
<1>7. CASE t = u
  BY <1>6, <1>7, QuietGood
<1>8. CASE t = ProposerPrepare(f, FALSE)
  BY <1>1, <1>8, Reprepares
<1>9. CASE s.alist[id] = NoPeer /\ t = Connect(u, "redirect", id, 0, NoValue)
  <2>1. u.alist[id] = NoPeer /\ u.proposer = n
    BY <1>6, <1>9 DEF Quiet, Same
  <2>2. Kept(n, u, t)
    BY <1>6, <1>9, <2>1, After, Connects
  <2> QED BY <1>6, <2>2, After
<1> QED BY <1>5, <1>7, <1>8, <1>9

(* motmot_send and motmot_invite. *)
LEMMA Requests ==
  ASSUME NEW n, NEW s, Good(n, s), NEW j, NEW t,
         t = PaxosRequest(s, "CHAT", j) \/ (j \in Joiners /\ t = PaxosRequest(s, "JOIN", j))
  PROVE  Kept(n, s, t)
<1>1. PICK v : /\ IsVal(v)
               /\ \E b : /\ b = Broadcast([s EXCEPT !.req_id = @ + 1, !.rcache = @ \union {ReqId(v)}],
                                          Message("REQUEST", s.ballot, s.proposer, v))
                         /\ t = b \/ (IsProposer(s) /\ t = DecreeOrDefer(b, v))
  <2>1. PICK g : g = s.req_id + 1
    OBVIOUS
  <2>2. CASE t = PaxosRequest(s, "CHAT", j)
    <3>1. PICK v : v = ValueOf("CHAT", s.self, g, j)
      OBVIOUS
    <3>2. IsVal(v)
      BY <3>1, ValueIs
    <3> QED BY <2>1, <2>2, <3>1, <3>2 DEF PaxosRequest
  <2>3. CASE j \in Joiners /\ t = PaxosRequest(s, "JOIN", j)
    <3>1. PICK v : v = ValueOf("JOIN", s.self, g, j)
      OBVIOUS
    <3>2. IsVal(v)
      BY <2>3, <3>1 DEF IsVal, ValueOf, Kinds
    <3> QED BY <2>1, <2>3, <3>1, <3>2 DEF PaxosRequest
  <2> QED BY <2>2, <2>3
<1>2. PICK a, r : /\ a = [s EXCEPT !.req_id = @ + 1, !.rcache = @ \union {ReqId(v)}]
                  /\ r = Message("REQUEST", s.ballot, s.proposer, v)
  OBVIOUS
<1>3. PICK b : b = Broadcast(a, r) /\ (t = b \/ (IsProposer(s) /\ t = DecreeOrDefer(b, v)))
  BY <1>1, <1>2
<1>4. Quiet(s, a)
  BY <1>2, Itself DEF Quiet, Same, SamePrep, Typed, Fields
<1>5. ASSUME NEW id \in Connected(s) PROVE Routed(n, s.alist[id], r)
  <2>1. /\ id \in Nat /\ n \in Nat /\ id # n /\ s.alist[id] = FirstConn(id, n)
        /\ s.proposer \in Nat /\ s.proposer <= n /\ s.proposer <= id
    BY <1>5, Itself DEF Good, Sound, Shaped, Acceptors, Ranked, Connected, Members
  <2>2. OtherEnd(s.alist[id], n) = id /\ (s.proposer = id => s.alist[id][1] # n)
    BY <2>1 DEF OtherEnd, FirstConn
  <2>3. r.op = "REQUEST" /\ r.inum = s.proposer /\ r.body = v /\ r.bal \in Bal
    BY <1>2, Itself DEF Message
  <2> QED BY <1>1, <2>1, <2>2, <2>3 DEF Routed, IsMsg, Ops, Leading
<1>6. Quiet(a, b)
  <2>1. Connected(a) = Connected(s) /\ a.alist = s.alist /\ a.self = n
    BY <1>4, After DEF Connected, Members
  <2> QED BY <1>3, <1>4, <1>5, <2>1, After, Broadcasts
<1>7. Quiet(s, b)
  BY <1>4, <1>6, QuietTrans
<1>8. CASE t = b
  BY <1>7, <1>8, QuietGood
<1>9. CASE IsProposer(s) /\ t = DecreeOrDefer(b, v)
  <2>0. s.proposer = n
    BY <1>9, Itself DEF IsProposer
  <2>1. Kept(n, b, t)
    BY <1>1, <1>7, <1>9, <2>0, After, DecreesOrDefers
  <2> QED BY <1>7, <2>1, After
<1> QED BY <1>3, <1>8, <1>9

(* paxos_drop_connection: the connection leaves the list and the count, and the loss of
   the proposer elects another, or parts whoever is lost. *)
LEMMA Drops ==
  ASSUME NEW n, NEW s, Good(n, s), NEW c, c # NoPeer,
         \A id \in Connected(s) : s.alist[id] = c => id \notin Alive,
         NEW t, t = PaxosDropConnection(s, c), Up(t)
  PROVE  /\ Good(n, t) /\ t.ballot = s.ballot /\ Shrinks(n, s, t, {c})
         /\ \A id \in Connected(t) : t.alist[id] # c
<1>1. DOMAIN s = Fields /\ s.self = n /\ n \in Nat
  BY Itself
<1>2. CASE \A id \in Members(s) : s.alist[id] # c
  BY <1>2 DEF PaxosDropConnection, Connected, Shrinks
<1>3. CASE ~ \A id \in Members(s) : s.alist[id] # c
  <2> DEFINE S == {k \in Members(s) : s.alist[k] = c}
  <2>1. PICK id : id = Min(S)
    OBVIOUS
  <2>2. id \in DOMAIN s.alist /\ s.alist[id] = c /\ id \in Nat
    <3>1. S \subseteq Nat /\ S # {}
      BY <1>3 DEF Good, Sound, Shaped, Acceptors, Members
    <3>2. Min(S) \in S
      BY <3>1, MinOf
    <3> QED BY <2>1, <3>1, <3>2 DEF Members
  <2>3. PICK al : al = [s.alist EXCEPT ![id] = NoPeer]
    OBVIOUS
  <2>4. PICK u : u = [s EXCEPT !.alist = al, !.live_count = @ - 1]
    OBVIOUS
  <2>5. t = IF s.proposer = n THEN DecreePart(u, id, FALSE) ELSE IF id # s.proposer THEN u ELSE Elect(u)
    BY <1>1, <1>3, <2>1, <2>3, <2>4 DEF PaxosDropConnection, IsProposer, Elect
  <2>6. /\ DOMAIN al = DOMAIN s.alist /\ al = [m \in DOMAIN al |-> al[m]] /\ al[id] = NoPeer
        /\ \A m \in DOMAIN al : m # id => al[m] = s.alist[m]
    BY <2>2, <2>3 DEF Good, Sound, Shaped, Acceptors
  <2>7. /\ DOMAIN u = Fields /\ u.gen_high = s.gen_high /\ u.prep = s.prep
        /\ u.idefer = s.idefer /\ u.status = s.status /\ u.self = s.self /\ u.alist = al
        /\ u.desc = s.desc /\ u.adefer = s.adefer /\ u.live_count = s.live_count - 1
        /\ u.proposer = s.proposer /\ u.ballot = s.ballot /\ u.ihole = s.ihole
        /\ u.clist = s.clist /\ u.closed = s.closed /\ u.ilist = s.ilist /\ u.out = s.out
    BY <1>1, <2>4 DEF Fields
  <2>8. /\ Connected(u) = Connected(s) \ {id} /\ id \in Connected(s) /\ id \notin Alive
        /\ c = FirstConn(id, n)
    <3>1. Connected(u) = Connected(s) \ {id} /\ id \in Connected(s)
      BY <2>2, <2>6, <2>7 DEF Connected, Members
    <3> QED BY <2>2, <3>1 DEF Good, Sound, Shaped, Acceptors
  <2>9. Live(u)
    <3>1. IsFiniteSet(Connected(s)) /\ Cardinality(Connected(s)) \in Nat
      <4>1. IsFiniteSet(DOMAIN s.alist) /\ Connected(s) \in SUBSET DOMAIN s.alist
        BY DEF Good, Sound, Shaped, Acceptors, Connected, Members
      <4> QED BY <4>1, FS_Subset, FS_CardinalityType
    <3>2. PICK C : C = Connected(s) /\ IsFiniteSet(C) /\ Cardinality(C) \in Nat
      BY <3>1
    <3>3. Cardinality(C \ {id}) = Cardinality(C) - 1
      BY <2>8, <3>2, FS_RemoveElement
    <3>4. s.live_count = Cardinality(C) + 1
      BY <3>2 DEF Good, Sound, Shaped, Live
    <3>5. u.live_count = Cardinality(Connected(u)) + 1
      BY <2>7, <2>8, <3>2, <3>3, <3>4
    <3>6. ASSUME NEW m \in Connected(u) PROVE u.alist[m] \notin u.closed
      <4>1. m \in Connected(s) /\ m # id /\ m \in DOMAIN al
        BY <2>6, <2>8, <3>6 DEF Connected, Members
      <4> QED BY <2>6, <2>7, <4>1 DEF Good, Sound, Shaped, Live
    <3> QED BY <3>5, <3>6 DEF Live
  <2>10. Shaped(n, u)
    <3>1. Acceptors(n, u)
      BY <2>6, <2>7 DEF Good, Sound, Shaped, Acceptors
    <3>2. Holes(u)
      BY <2>6, <2>7 DEF Good, Sound, Shaped, Holes
    <3>3. Descs(n, u) /\ Promised(u)
      BY <2>6, <2>7 DEF Good, Sound, Shaped, Descs, Promised
    <3>4. Conts(n, u)
      BY <2>6, <2>7 DEF Good, Sound, Shaped, Conts
    <3>5. Meets(n, u)
      BY <2>8 DEF Good, Sound, Shaped, Meets
    <3> QED BY <2>7, <2>9, <3>1, <3>2, <3>3, <3>4, <3>5 DEF Good, Sound, Shaped, Up, Typed
  <2>11. ASSUME NEW v, Good(n, v), v.ballot = u.ballot, Shrinks(n, u, v, {})
         PROVE  /\ Good(n, v) /\ v.ballot = s.ballot /\ Shrinks(n, s, v, {c})
                /\ \A m \in Connected(v) : v.alist[m] # c
    <3>1. Shrinks(n, s, v, {c})
      BY <2>7, <2>8, <2>11 DEF Shrinks
    <3>2. ASSUME NEW m \in Connected(v) PROVE v.alist[m] # c
      <4>1. m # id /\ m \in Nat /\ v.alist[m] = FirstConn(m, n)
        BY <2>8, <2>11, <3>2 DEF Connected, Members, Good, Sound, Shaped, Acceptors, Shrinks
      <4> QED BY <1>1, <2>2, <2>8, <4>1, ConnIs
    <3> QED BY <2>7, <2>11, <3>1, <3>2
  <2>12. id # s.proposer => Good(n, u)
    <3> SUFFICES ASSUME id # s.proposer PROVE Good(n, u)
      OBVIOUS
    <3>1. Ranked(n, u)
      BY <2>7, <2>8 DEF Good, Sound, Ranked
    <3> QED BY <2>7, <2>10, <3>1 DEF Good, Sound, Proposes
  <2>13. id # n
    BY <2>2 DEF Good, Sound, Shaped, Acceptors
  <2>14. CASE s.proposer = n
    <3>1. t = DecreePart(u, id, FALSE) /\ Good(n, u) /\ u.proposer = n
      BY <2>5, <2>7, <2>12, <2>13, <2>14
    <3>2. Kept(n, u, t)
      BY <2>8, <3>1, DecreesPart
    <3> QED BY <2>11, <3>2 DEF Kept
  <2>15. CASE s.proposer # n /\ id # s.proposer
    <3>1. t = u /\ Good(n, u)
      BY <2>5, <2>12, <2>15
    <3> QED BY <2>11, <3>1, ShrinksSame
  <2>16. CASE s.proposer # n /\ id = s.proposer
    <3>1. t = Elect(u) /\ u.proposer # n /\ u.prep = NoPrep
      BY <2>5, <2>7, <2>16 DEF Good, Proposes
    <3>2. PreparesTo(n, u, t)
      BY <2>10, <3>1, Elects
    <3> QED BY <2>11, <3>2, ShrinksSame DEF PreparesTo
  <2> QED BY <2>14, <2>15, <2>16
<1> QED BY <1>2, <1>3

(* An acceptor without a connection stays without one. *)
LEMMA Unattached ==
  ASSUME NEW n, NEW s, Good(n, s), NEW id, id \in DOMAIN s.alist, s.alist[id] = NoPeer,
         NEW t, t = [s EXCEPT !.alist[id] = NoPeer]
  PROVE  Quiet(s, t) /\ t.ilist = s.ilist
<1>1. PICK al : al = [s.alist EXCEPT ![id] = NoPeer]
  OBVIOUS
<1>2. al = s.alist
  BY <1>1 DEF Good, Sound, Shaped, Acceptors
<1>3. t = [s EXCEPT !.alist = s.alist]
  BY <1>1, <1>2
<1> QED BY <1>3, Itself DEF Quiet, Same, SamePrep, Typed, Fields

(* A continuation is taken off its list before it runs. *)
LEMMA Forgets ==
  ASSUME NEW n, NEW s, Good(n, s), NEW k, k \in 1 .. Len(s.clist),
         NEW u, u = [s EXCEPT !.clist = RemoveAt(@, k)]
  PROVE  /\ Good(n, u) /\ u.ballot = s.ballot /\ u.alist = s.alist /\ u.proposer = s.proposer
         /\ Shrinks(n, s, u, {})
<1>1. PICK cl : cl = RemoveAt(s.clist, k)
  OBVIOUS
<1>2. u = [s EXCEPT !.clist = cl]
  BY <1>1
<1>3. /\ DOMAIN u = Fields /\ u.gen_high = s.gen_high /\ u.prep = s.prep /\ u.idefer = s.idefer
      /\ u.status = s.status /\ u.self = s.self /\ u.alist = s.alist /\ u.desc = s.desc
      /\ u.adefer = s.adefer /\ u.live_count = s.live_count /\ u.proposer = s.proposer
      /\ u.ballot = s.ballot /\ u.ihole = s.ihole /\ u.clist = cl /\ u.closed = s.closed
      /\ u.ilist = s.ilist /\ u.out = s.out
  BY <1>2, Itself DEF Fields
<1>4. Connected(u) = Connected(s)
  BY <1>3 DEF Connected, Members
<1>5. Acceptors(n, u) /\ Descs(n, u) /\ Live(u) /\ Holes(u)
  BY <1>3, <1>4 DEF Good, Sound, Shaped, Acceptors, Descs, Live, Holes
<1>6. Promised(u) /\ Proposes(n, u) /\ Meets(n, u) /\ Ranked(n, u)
  BY <1>3, <1>4 DEF Good, Sound, Shaped, Promised, Proposes, Meets, Ranked
<1>7. Conts(n, u)
  <2>1. IsSeq(s.clist)
    BY DEF Good, Sound, Shaped, Conts
  <2>2. IsSeq(cl) /\ \A j \in 1 .. Len(cl) : \E i \in 1 .. Len(s.clist) : cl[j] = s.clist[i]
    BY <1>1, <2>1, RemoveSeq
  <2> QED BY <1>3, <2>2 DEF Good, Sound, Shaped, Conts
<1>8. Good(n, u)
  BY <1>3, <1>5, <1>6, <1>7 DEF Good, Sound, Shaped, Typed, Up
<1> QED BY <1>3, <1>4, <1>8, ShrinksSame

(* A connect that failed. *)
LEMMA Continues ==
  ASSUME NEW n, NEW s, Good(n, s), NEW w, w.kind \in {"redirect", "refuse", "reject", "welcome"},
         w.kind # "refuse" => s.proposer = n, w.kind = "welcome" => w.acc \notin Alive,
         w.acc \in DOMAIN s.alist => s.alist[w.acc] = NoPeer,
         NEW t, t = Continue(s, w, NoPeer)
  PROVE  Kept(n, s, t)
<1> SUFFICES ASSUME Up(t), t # s PROVE Kept(n, s, t)
  BY Itself DEF Kept
<1>1. PICK id : id = w.acc
  OBVIOUS
<1>2. id \in DOMAIN s.alist /\ s.alist[id] = NoPeer
  BY <1>1 DEF Continue, IsMember
<1>3. PICK a : a = [s EXCEPT !.alist[id] = NoPeer]
  OBVIOUS
<1>4. Quiet(s, a) /\ a.ilist = s.ilist
  BY <1>2, <1>3, Unattached
<1>5. CASE w.kind = "redirect"
  <2>1. t = ContinueAckRedirect(s, w, NoPeer)
    BY <1>1, <1>2, <1>5 DEF Continue, IsMember
  <2>2. PICK f : f = [s EXCEPT !.prep = NoPrep]
    OBVIOUS
  <2>3. t = ProposerPrepare(f, FALSE)
    <3>1. ~Up(Fail(s, "reconnect to a lower rank"))
      BY Itself, Failed
    <3> QED BY <1>1, <1>2, <2>1, <2>2, <3>1 DEF ContinueAckRedirect
  <2> QED BY <1>5, <2>2, <2>3, Reprepares
<1>6. CASE w.kind = "refuse"
  <2>1. t = ContinueAckRefuse(s, w, NoPeer)
    BY <1>1, <1>2, <1>6 DEF Continue, IsMember
  <2>2. t = a
    BY <1>1, <1>3, <2>1 DEF ContinueAckRefuse
  <2> QED BY <1>4, <2>2, QuietGood
<1>7. CASE w.kind = "reject"
  <2>1. t = ContinueAckReject(s, w, NoPeer)
    BY <1>1, <1>2, <1>7 DEF Continue, IsMember
  <2>2. PICK i, p : i = w.inum /\ p = s.ilist[i]
    OBVIOUS
  <2>3. PICK x : x = [DecreeInstance(p.bal, p.val) EXCEPT !.op = p.op]
    OBVIOUS
  <2>4. PICK b : b = [a EXCEPT !.ilist = Put(@, i, x)]
    OBVIOUS
  <2>5. i \in DOMAIN s.ilist /\ t = BroadcastInstance(b, i)
    BY <1>1, <1>3, <2>1, <2>2, <2>3, <2>4 DEF ContinueAckReject
  <2>6. i \in Nat /\ IsInst(i, x)
    <3>1. i \in Nat /\ IsInst(i, p)
      BY <2>2, <2>5, Itself DEF Typed, IsLog, IsNumbers
    <3>2. p.bal \in Bal /\ IsValAt(i, p.val) /\ p.op \in {"DECREE", "COMMIT"}
      BY <3>1 DEF IsInst
    <3>3. PICK y : y = DecreeInstance(p.bal, p.val)
      OBVIOUS
    <3>4. IsInst(i, y)
      BY <3>2, <3>3, Instances
    <3> QED BY <2>3, <3>1, <3>2, <3>3, <3>4 DEF IsInst
  <2>7. Quiet(a, b) /\ i \in DOMAIN b.ilist
    BY <1>4, <2>4, <2>6, After, Puts
  <2>8. Quiet(s, b)
    BY <1>4, <2>7, QuietTrans
  <2>9. Quiet(b, t)
    <3>1. Leads(b)
      BY <1>7, <2>8, QuietLeads, ProposerLeads DEF Good
    <3> QED BY <2>5, <2>6, <2>7, <2>8, <3>1, After, BroadcastsInstance
  <2>10. Quiet(s, t)
    BY <2>8, <2>9, QuietTrans
  <2> QED BY <2>10, QuietGood
<1>8. CASE w.kind = "welcome"
  <2>1. t = ContinueWelcome(s, w, NoPeer)
    BY <1>1, <1>2, <1>8 DEF Continue, IsMember
  <2>2. t = DecreePart(a, id, FALSE)
    BY <1>1, <1>3, <2>1 DEF ContinueWelcome
  <2>3. Kept(n, a, t)
    <3>1. id \notin Alive /\ s.proposer = n
      BY <1>1, <1>8
    <3>2. Good(n, a) /\ a.proposer = n
      BY <1>4, <3>1, After
    <3> QED BY <2>2, <3>1, <3>2, DecreesPart
  <2> QED BY <1>4, <2>3, After
<1> QED BY <1>5, <1>6, <1>7, <1>8

(* The client could not connect: continuations of all kinds. *)
LEMMA ContinuesWithout ==
  ASSUME NEW n, NEW s, Good(n, s), NEW k, k \in DOMAIN s.clist,
         NEW t, t = Continue([s EXCEPT !.clist = RemoveAt(@, k)], s.clist[k], NoPeer)
  PROVE  Kept(n, s, t)
<1>1. PICK u, w : u = [s EXCEPT !.clist = RemoveAt(@, k)] /\ w = s.clist[k]
  OBVIOUS
<1>2. k \in 1 .. Len(s.clist)
  BY DEF Good, Sound, Shaped, Conts, IsSeq
<1>3. /\ Good(n, u) /\ u.ballot = s.ballot /\ u.alist = s.alist /\ u.proposer = s.proposer
      /\ Shrinks(n, s, u, {})
  BY <1>1, <1>2, Forgets
<1>4. /\ w.kind \in {"redirect", "refuse", "reject", "welcome"}
      /\ w.kind # "refuse" => u.proposer = n
      /\ w.kind = "welcome" => w.acc \notin Alive
      /\ w.acc \in DOMAIN u.alist => u.alist[w.acc] = NoPeer
  BY <1>1, <1>2, <1>3 DEF Good, Sound, Shaped, Conts
<1>5. Kept(n, u, t)
  <2>1. t = Continue(u, w, NoPeer)
    BY <1>1
  <2> QED BY <1>3, <1>4, <2>1, Continues
<1> QED BY <1>3, <1>5, KeptTrans

-----------------------------------------------------------------------------
(* A message of a good participant at a good participant. *)
LEMMA AcceptorDispatches ==
  ASSUME NEW n, NEW s, Good(n, s), s.proposer # n, NEW c, NEW m, Arrives(n, c, m),
         NEW t, t = AcceptorDispatch(s, c, m)
  PROVE  Outcome(n, s, t)
<1>0. m.op \in Ops /\ m.bal \in Bal /\ IsMsg(m)
  BY DEF Arrives, IsMsg
<1>1. CASE m.op = "PREPARE"
  <2>1. t = AcceptorAckPrepare(s, c, m)
    BY <1>1 DEF AcceptorDispatch
  <2> QED BY <1>0, <2>1, AcksPrepare
<1>2. CASE m.op = "DECREE"
  <2>1. t = AcceptorAckDecree(s, m)
    BY <1>2 DEF AcceptorDispatch
  <2>2. m.inum \in Nat /\ IsValAt(m.inum, m.body)
    BY <1>0, <1>2 DEF IsMsg
  <2> QED BY <1>0, <2>1, <2>2, AcksDecree, KeptOutcome
<1>3. CASE m.op = "COMMIT"
  <2>1. t = AcceptorAckCommit(s, m)
    BY <1>3 DEF AcceptorDispatch
  <2>2. m.inum \in Nat /\ IsValAt(m.inum, m.body)
    BY <1>0, <1>3 DEF IsMsg
  <2> QED BY <1>0, <2>1, <2>2, AcksCommit, KeptOutcome
<1>4. CASE m.op = "REQUEST"
  <2>1. t = AcceptorAckRequest(s, c, m)
    BY <1>4 DEF AcceptorDispatch
  <2> QED BY <1>4, <2>1, AcceptsRequest, KeptOutcome
<1>5. CASE m.op = "RETRIEVE"
  <2>1. t = PaxosAckRetrieve(s, m)
    BY <1>5 DEF AcceptorDispatch
  <2> QED BY <1>0, <2>1, AcksRetrieve, KeptOutcome
<1>6. CASE m.op = "RESEND"
  <2>1. t = PaxosAckResend(s, m)
    BY <1>6 DEF AcceptorDispatch
  <2> QED BY <2>1, AcksResend, KeptOutcome
<1>7. CASE m.op = "REFUSE"
  <2>1. t = AcceptorAckRefuse(s, m)
    BY <1>7 DEF AcceptorDispatch
  <2> QED BY <2>1, AcksRefuse, KeptOutcome
<1>8. CASE m.op = "RECOMMIT"
  <2>1. t = AcceptorAckRecommit(s, m)
    BY <1>8 DEF AcceptorDispatch
  <2>2. m.inum \in Nat /\ IsValAt(m.inum, m.body)
    BY <1>0, <1>8 DEF IsMsg
  <2> QED BY <1>0, <2>1, <2>2, AcksRecommit, KeptOutcome
<1>9. CASE m.op = "SYNC"
  <2>1. t = AcceptorAckSync(s, m)
    BY <1>9 DEF AcceptorDispatch
  <2> QED BY <1>0, <2>1, AcksSync, KeptOutcome
<1>10. CASE m.op = "TRUNCATE"
  <2>1. t = AcceptorAckTruncate(s, m)
    BY <1>10 DEF AcceptorDispatch
  <2> QED BY <1>0, <2>1, AcksSync, KeptOutcome
<1>11. CASE m.op \in {"PROMISE", "ACCEPT", "REDIRECT", "REJECT", "RETRY", "LAST"}
  <2>1. t = s
    BY <1>11 DEF AcceptorDispatch
  <2> QED BY <2>1, Itself, KeptOutcome
<1> QED BY <1>0, <1>1, <1>2, <1>3, <1>4, <1>5, <1>6, <1>7, <1>8, <1>9, <1>10, <1>11 DEF Ops

(* proposer_dispatch, one case per operation.  What only a superior sends never comes:
   nobody is force-killed. *)
LEMMA ProposerDispatches ==
  ASSUME NEW n, NEW s, Good(n, s), s.proposer = n, NEW c, NEW m, Arrives(n, c, m),
         \E id \in Connected(s) : s.alist[id] = c,
         NEW t, t = ProposerDispatch(s, c, m)
  PROVE  Outcome(n, s, t)
<1>0. m.op \in Ops /\ m.bal \in Bal /\ IsMsg(m)
  BY DEF Arrives, IsMsg
<1>1. m.op \notin Leading
  <2>1. c[1] = n
    BY ProposerLeads, Itself DEF Good, Leads
  <2> QED BY <2>1 DEF Arrives
<1>2. CASE m.op = "PROMISE"
  <2>1. t = ProposerAckPromise(s, m)
    BY <1>2 DEF ProposerDispatch
  <2>2. IsVotes(m.body)
    BY <1>0, <1>2 DEF IsMsg
  <2> QED BY <2>1, <2>2, AcksPromise
<1>3. CASE m.op = "ACCEPT"
  <2>1. t = ProposerAckAccept(s, m)
    BY <1>3 DEF ProposerDispatch
  <2> QED BY <2>1, AcksAccept, KeptOutcome
<1>4. CASE m.op = "REQUEST"
  <2>1. t = ProposerAckRequest(s, m)
    BY <1>4 DEF ProposerDispatch
  <2> QED BY <1>4, <2>1, AcksRequest, KeptOutcome
<1>5. CASE m.op = "RETRIEVE"
  <2>1. t = PaxosAckRetrieve(s, m)
    BY <1>5 DEF ProposerDispatch
  <2> QED BY <1>0, <2>1, AcksRetrieve, KeptOutcome
<1>6. CASE m.op = "RESEND"
  <2>1. t = PaxosAckResend(s, m)
    BY <1>6 DEF ProposerDispatch
  <2> QED BY <2>1, AcksResend, KeptOutcome
<1>7. CASE m.op = "REDIRECT"
  <2>1. t = ProposerAckRedirect(s, m)
    BY <1>7 DEF ProposerDispatch
  <2> QED BY <2>1, AcksRedirect, KeptOutcome
<1>8. CASE m.op = "REJECT"
  <2>1. t = ProposerAckReject(s, m)
    BY <1>8 DEF ProposerDispatch
  <2> QED BY <2>1, AcksReject, KeptOutcome
<1>9. CASE m.op = "RETRY"
  <2>1. t = ProposerAckRetry(s, m)
    BY <1>9 DEF ProposerDispatch
  <2> QED BY <1>0, <2>1, AcksRetry, KeptOutcome
<1>10. CASE m.op = "LAST"
  <2>1. t = ProposerAckLast(s, m)
    BY <1>10 DEF ProposerDispatch
  <2> QED BY <1>0, <2>1, AcksLast, KeptOutcome
<1> QED BY <1>0, <1>1, <1>2, <1>3, <1>4, <1>5, <1>6, <1>7, <1>8, <1>9, <1>10 DEF Ops, Leading

(* paxos_dispatch: by role. *)
LEMMA Dispatches ==
  ASSUME NEW n, NEW s, Good(n, s), NEW c, NEW m, Arrives(n, c, m),
         \E id \in Connected(s) : s.alist[id] = c, NEW t, t = PaxosDispatch(s, c, m)
  PROVE  Outcome(n, s, t)
<1>1. Up(s) /\ s.self = n
  BY DEF Good, Sound, Shaped
<1>2. t = IF s.proposer = n THEN ProposerDispatch(s, c, m) ELSE AcceptorDispatch(s, c, m)
  BY <1>1 DEF PaxosDispatch, IsProposer
<1> QED BY <1>2, AcceptorDispatches, ProposerDispatches

-----------------------------------------------------------------------------
(* What has nothing to do with a sync *)

(* The messages of a sync. *)
SyncOps == {"SYNC", "LAST", "TRUNCATE"}

(* What n writes outside of a sync; a prepare is for a ballot of its sender. *)
Plain(n, m) == m.op \notin SyncOps /\ (m.op = "PREPARE" => m.bal.id = n)

(* Nothing else has been written. *)
PlainOut(n, out) ==
  \A c \in DOMAIN out : IsSeq(out[c]) /\ \A k \in 1 .. Len(out[c]) : Plain(n, out[c][k])

(* Instances by their fields: BroadcastInstance sends the opcode of one. *)
InstFields == {"op", "bal", "val", "committed", "cached", "learned", "votes", "rejects"}
IsEntry(x) == DOMAIN x = InstFields /\ x.op \in {"DECREE", "COMMIT"}
Entries(l) == IsNumbers(DOMAIN l) /\ \A i \in DOMAIN l : IsEntry(l[i])

(* From r to s nothing has happened to the sync, and the hole is not taken back. *)
Calm(r, s) ==
  /\ DOMAIN s = Fields /\ s.self = r.self /\ s.status \notin SyncFaults
  /\ s.sync = r.sync /\ s.sync_id = r.sync_id /\ s.ibase = r.ibase
  /\ r.ihole \in Nat /\ s.ihole \in Nat /\ r.ihole <= s.ihole
  /\ Entries(s.ilist) /\ PlainOut(s.self, s.out)

(* A good session that has written nothing is where all calls begin. *)
LEMMA CalmItself ==
  ASSUME NEW n, NEW s, Good(n, s), s.out = <<>> PROVE Calm(s, s)
<1>1. Entries(s.ilist)
  BY DEF Good, Sound, Shaped, Typed, IsLog, IsInst, Entries, IsEntry, InstFields
<1>2. PlainOut(s.self, s.out)
  BY DEF PlainOut
<1>3. s.status \notin SyncFaults
  BY DEF Good, Sound, Shaped, Up, SyncFaults
<1> QED BY <1>1, <1>2, <1>3 DEF Calm, Good, Sound, Shaped, Holes

(* The end of a session: an assertion, or paxos_end. *)
Stops(s, t) == t = PaxosEnd(s) \/ \E why : why \notin SyncFaults /\ t = Fail(s, why)

(* It changes the status only. *)
LEMMA CalmStops ==
  ASSUME NEW r, NEW s, Calm(r, s), NEW t, Stops(s, t) PROVE Calm(r, t) /\ t.ilist = s.ilist
<1>1. PICK y : t = [s EXCEPT !.status = y] /\ y \notin SyncFaults
  BY DEF Stops, SyncFaults, PaxosEnd, Fail
<1> QED BY <1>1 DEF Calm, Fields

(* Writing to peers. *)
LEMMA CalmWrites ==
  ASSUME NEW r, NEW s, Calm(r, s), NEW peers, NEW m, Plain(r.self, m)
  PROVE  Calm(r, WriteTo(s, peers, m)) /\ WriteTo(s, peers, m).ilist = s.ilist
<1> DEFINE out == [c \in DOMAIN s.out \union peers |->
                     IF c \in peers THEN Append(Sent(s, c), m) ELSE s.out[c]]
<1>1. PlainOut(s.self, s.out)
  BY DEF Calm
<1>2. ASSUME NEW c PROVE IsSeq(Sent(s, c)) /\ \A k \in 1 .. Len(Sent(s, c)) : Plain(s.self, Sent(s, c)[k])
  <2>1. CASE c \in DOMAIN s.out
    BY <1>1, <2>1 DEF Sent, PlainOut
  <2>2. CASE c \notin DOMAIN s.out
    <3>1. PICK q : q = Sent(s, c)
      OBVIOUS
    <3>2. q = <<>>
      BY <2>2, <3>1 DEF Sent
    <3>3. IsSeq(q) /\ Len(q) = 0
      BY <3>2, EmptyIsSeq
    <3> QED BY <3>1, <3>3
  <2> QED BY <2>1, <2>2
<1>3. ASSUME NEW c \in peers
      PROVE  IsSeq(out[c]) /\ \A k \in 1 .. Len(out[c]) : Plain(s.self, out[c][k])
  <2>1. PICK q, w : q = Sent(s, c) /\ w = Append(q, m)
    OBVIOUS
  <2>2. IsSeq(q) /\ Len(q) \in Nat
    BY <1>2, <2>1 DEF IsSeq
  <2>3. IsSeq(w) /\ Len(w) = Len(q) + 1 /\ w[Len(q) + 1] = m /\ \A k \in 1 .. Len(q) : w[k] = q[k]
    BY <2>1, <2>2, AppendSeq
  <2>4. ASSUME NEW k \in 1 .. Len(w) PROVE Plain(s.self, w[k])
    <3>1. k \in 1 .. Len(q) \/ k = Len(q) + 1
      BY <2>2, <2>3
    <3> QED BY <1>2, <2>1, <2>3, <3>1 DEF Calm
  <2> QED BY <2>1, <2>3, <2>4
<1>4. PlainOut(s.self, out)
  BY <1>1, <1>3 DEF PlainOut
<1> HIDE DEF out
<1>5. WriteTo(s, peers, m) = [s EXCEPT !.out = out]
  BY DEF WriteTo, out
<1> QED BY <1>4, <1>5 DEF Calm, Fields

(* The ways to write. *)
LEMMA CalmSends ==
  ASSUME NEW r, NEW s, Calm(r, s), NEW m, Plain(r.self, m), NEW t,
         t = Broadcast(s, m) \/ t = SendToProposer(s, m) \/ \E c : t = Send(s, c, m)
  PROVE  Calm(r, t) /\ t.ilist = s.ilist
<1>1. Stops(s, t) \/ \E peers : t = WriteTo(s, peers, m)
  BY DEF Send, Stops, SyncFaults, Broadcast, SendToProposer
<1> QED BY <1>1, CalmStops, CalmWrites

(* A message of a plain operation. *)
LEMMA PlainIs ==
  ASSUME NEW op, op \notin SyncOps, NEW bal, NEW n, op = "PREPARE" => bal.id = n
  PROVE  \A inum, body : Plain(n, Message(op, bal, inum, body))
BY DEF Plain, Message

(* Updating the log. *)
LEMMA CalmPuts ==
  ASSUME NEW r, NEW s, Calm(r, s), NEW i \in Nat, NEW x, IsEntry(x)
  PROVE  \A t : t = [s EXCEPT !.ilist = Put(@, i, x)] \/ t = InsertAndUpstart(s, i, x) =>
           Calm(r, t) /\ t.ilist = Put(s.ilist, i, x) /\ DOMAIN t.ilist = DOMAIN s.ilist \union {i}
<1>1. Entries(Put(s.ilist, i, x)) /\ DOMAIN Put(s.ilist, i, x) = DOMAIN s.ilist \union {i}
  <2>1. IsNumbers(DOMAIN s.ilist \union {i})
    BY NumbersAdd DEF Calm, Entries
  <2> QED BY <2>1 DEF Calm, Entries, Put
<1>2. PICK l : l = Put(s.ilist, i, x)
  OBVIOUS
<1>3. Calm(r, [s EXCEPT !.ilist = l]) /\ [s EXCEPT !.ilist = l].ilist = l
  BY <1>1, <1>2 DEF Calm, Fields
<1>4. \A y : LET t == [s EXCEPT !.ilist = l, !.istart = y] IN Calm(r, t) /\ t.ilist = l
  BY <1>1, <1>2 DEF Calm, Fields
<1> QED BY <1>1, <1>2, <1>3, <1>4 DEF InsertAndUpstart

(* The entries that the code makes. *)
LEMMA EntriesAre ==
  /\ \A bal, val : IsEntry(DecreeInstance(bal, val)) /\ IsEntry(ZeroInstance(bal, val))
  /\ \A x : IsEntry(x) => /\ IsEntry([x EXCEPT !.committed = TRUE]) /\ IsEntry([x EXCEPT !.cached = TRUE])
                          /\ IsEntry([x EXCEPT !.learned = TRUE]) /\ IsEntry([x EXCEPT !.op = "COMMIT"])
                          /\ \A y : IsEntry([x EXCEPT !.votes = y]) /\ IsEntry([x EXCEPT !.rejects = y])
                                    /\ IsEntry([x EXCEPT !.val = y])
                          /\ \A y, z : IsEntry([x EXCEPT !.bal = y, !.val = z])
<1>1. ASSUME NEW bal, NEW val PROVE IsEntry(DecreeInstance(bal, val)) /\ IsEntry(ZeroInstance(bal, val))
  BY DEF IsEntry, InstFields, DecreeInstance, ZeroInstance
<1>2. ASSUME NEW x, IsEntry(x)
      PROVE  /\ IsEntry([x EXCEPT !.committed = TRUE]) /\ IsEntry([x EXCEPT !.cached = TRUE])
             /\ IsEntry([x EXCEPT !.learned = TRUE]) /\ IsEntry([x EXCEPT !.op = "COMMIT"])
             /\ \A y : IsEntry([x EXCEPT !.votes = y]) /\ IsEntry([x EXCEPT !.rejects = y])
                       /\ IsEntry([x EXCEPT !.val = y])
             /\ \A y, z : IsEntry([x EXCEPT !.bal = y, !.val = z])
  BY <1>2 DEF IsEntry, InstFields
<1> QED BY <1>1, <1>2

(* Broadcasting an instance. *)
LEMMA CalmInstance ==
  ASSUME NEW r, NEW s, Calm(r, s), NEW i, i \in DOMAIN s.ilist 
  PROVE  Calm(r, BroadcastInstance(s, i)) /\ BroadcastInstance(s, i).ilist = s.ilist
<1>1. s.ilist[i].op \notin SyncOps /\ s.ilist[i].op # "PREPARE"
  BY DEF Calm, Entries, IsEntry, SyncOps
<1>2. PICK m, t : m = Message(s.ilist[i].op, s.ilist[i].bal, i, s.ilist[i].val) /\ t = Broadcast(s, m)
  OBVIOUS
<1>3. Plain(r.self, m)
  BY <1>1, <1>2, PlainIs
<1>4. Calm(r, t) /\ t.ilist = s.ilist
  BY <1>2, <1>3, CalmSends
<1> QED BY <1>2, <1>4 DEF BroadcastInstance

(* The rest of paxos_util.c. *)
LEMMA CalmUtil ==
  ASSUME NEW r, NEW s, Calm(r, s)
  PROVE  /\ Calm(r, ResetProposer(s)) /\ ResetProposer(s).ilist = s.ilist
         /\ \A kind, id, inum, val : /\ Calm(r, Connect(s, kind, id, inum, val))
                                     /\ Connect(s, kind, id, inum, val).ilist = s.ilist
BY DEF Calm, Fields, ResetProposer, Connect

(* proposer_prepare writes a prepare for a ballot of its own. *)
LEMMA CalmPreparesWithout ==
  ASSUME NEW r, NEW s, Calm(r, s), NEW lost, NEW t, t = PrepareWithout(s, lost)
  PROVE  Calm(r, t) /\ t.ilist = s.ilist
<1> DEFINE bal  == [id |-> s.self, gen |-> s.gen_high + 1]
           ids  == Sorted(lost)
           parts == [k \in 1 .. Cardinality(lost) |->
                       ValueOf(IF ids[k] < s.self THEN "KILL" ELSE "PART", s.self, s.req_id + k, ids[k])]
           prep == [bal |-> bal, acks |-> 1, redirects |-> 0, istart |-> s.istart]
           defer == s.idefer \o parts
           req == s.req_id + Cardinality(lost)
           m == Message("PREPARE", bal, s.ihole, <<>>)
           u == [s EXCEPT !.gen_high = @ + 1, !.prep = prep, !.idefer = defer, !.req_id = req]
<1>1. t = Broadcast(u, m)
  BY DEF PrepareWithout
<1>2. Plain(r.self, m)
  BY DEF Plain, Message, SyncOps, Calm
<1> HIDE DEF prep, defer, req, m
<1>3. Calm(r, u) /\ u.ilist = s.ilist
  BY DEF Calm, Fields
<1>4. PICK v : v = u
  OBVIOUS
<1> HIDE DEF u
<1> QED BY <1>1, <1>2, <1>3, <1>4, CalmSends

(* With or without parts. *)
LEMMA CalmPrepares ==
  ASSUME NEW r, NEW s, Calm(r, s), NEW t, t = ProposerPrepare(s, TRUE) \/ t = ProposerPrepare(s, FALSE)
  PROVE  Calm(r, t) /\ t.ilist = s.ilist
<1>1. Stops(s, t) \/ t = PrepareWithout(s, Members(s) \ (Connected(s) \union {s.self})) \/ t = PrepareWithout(s, {})
  BY DEF ProposerPrepare, PrepareWithout, Stops, SyncFaults
<1> QED BY <1>1, CalmStops, CalmPreparesWithout

(* learn_part and learn_join: only the acceptor list, and a prepare or a continuation. *)
LEMMA CalmLearns ==
  ASSUME NEW r, NEW s, Calm(r, s), NEW i, NEW x, NEW t, t = LearnPart(s, x) \/ t = LearnJoin(s, i, x)
  PROVE  Calm(r, t) /\ t.ilist = s.ilist
<1>1. CASE t = LearnPart(s, x)
  <2>1. PICK al, lc, cl : /\ al = [m \in Members(s) \ {x} |-> s.alist[m]]
                           /\ lc = (IF s.alist[x] # NoPeer THEN s.live_count - 1 ELSE s.live_count)
                           /\ cl = s.closed \union ({s.alist[x]} \ {NoPeer})
    OBVIOUS
  <2>2. PICK g : g = [s EXCEPT !.alist = al, !.live_count = lc, !.closed = cl]
    OBVIOUS
  <2>3. Calm(r, g) /\ g.ilist = s.ilist
    BY <2>2 DEF Calm, Fields
  <2>4. PICK e : e = ResetProposer(g)
    OBVIOUS
  <2>5. Calm(r, e) /\ e.ilist = s.ilist
    BY <2>3, <2>4, CalmUtil
  <2>6. t = s \/ Stops(s, t) \/ t = g \/ t = ProposerPrepare(e, TRUE) \/ t = e
    BY <1>1, <2>1, <2>2, <2>4 DEF LearnPart, Stops, SyncFaults
  <2>7. t = ProposerPrepare(e, TRUE) => Calm(r, t) /\ t.ilist = s.ilist
    BY <2>5, CalmPrepares
  <2>8. Stops(s, t) => Calm(r, t) /\ t.ilist = s.ilist
    BY CalmStops
  <2> QED BY <2>3, <2>5, <2>6, <2>7, <2>8
<1>2. CASE t = LearnJoin(s, i, x)
  <2>1. PICK al, lc, ad, de :
           /\ al = Put(s.alist, i, IF i \in DOMAIN s.adefer THEN s.adefer[i] ELSE NoPeer)
           /\ lc = (IF i \in DOMAIN s.adefer THEN s.live_count + 1 ELSE s.live_count)
           /\ ad = [id \in DOMAIN s.adefer \ {i} |-> s.adefer[id]]
           /\ de = Put(s.desc, i, x)
    OBVIOUS
  <2>2. PICK g : g = [s EXCEPT !.alist = al, !.live_count = lc, !.adefer = ad, !.desc = de]
    OBVIOUS
  <2>3. Calm(r, g) /\ g.ilist = s.ilist
    BY <2>2 DEF Calm, Fields
  <2>4. t = g \/ t = Connect(g, "welcome", i, 0, NoValue)
    BY <1>2, <2>1, <2>2 DEF LearnJoin
  <2> QED BY <2>3, <2>4, CalmUtil
<1> QED BY <1>1, <1>2

(* paxos_learn. *)
LEMMA CalmLearn ==
  ASSUME NEW r, NEW s, Calm(r, s), NEW i \in DOMAIN s.ilist, NEW t, t = PaxosLearn(s, i)
  PROVE  Calm(r, t) /\ DOMAIN t.ilist = DOMAIN s.ilist
<1>1. PICK x, v : x = [s.ilist[i] EXCEPT !.learned = TRUE] /\ v = s.ilist[i].val
  OBVIOUS
<1>2. IsEntry(x) /\ i \in Nat
  BY <1>1, EntriesAre DEF Calm, Entries, IsNumbers
<1>3. PICK a : a = [s EXCEPT !.ilist = Put(@, i, x)]
  OBVIOUS
<1>4. Calm(r, a) /\ DOMAIN a.ilist = DOMAIN s.ilist
  BY <1>2, <1>3, CalmPuts
<1>5. PICK b : b = [s EXCEPT !.ilist = Put(@, i, x), !.log = Append(@, v)]
  OBVIOUS
<1>6. b = [a EXCEPT !.log = Append(s.log, v)]
  <2>1. PICK l, w : l = Put(s.ilist, i, x) /\ w = Append(s.log, v)
    OBVIOUS
  <2> QED BY <1>3, <1>5, <2>1 DEF Calm, Fields
<1>7. Calm(r, b) /\ b.ilist = a.ilist
  BY <1>4, <1>6 DEF Calm, Fields
<1>8. Stops(s, t) \/ t = LearnJoin(b, i, v.extra) \/ t = LearnPart(b, v.extra) \/ t = b
  BY <1>1, <1>5 DEF PaxosLearn, Stops, SyncFaults
<1> QED BY <1>4, <1>7, <1>8, CalmStops, CalmLearns

(* One round of the learning loop. *)
LEMMA CalmNext ==
  ASSUME NEW r, NEW s, Calm(r, s), NEW i \in DOMAIN s.ilist, r.ihole <= i, NEW t, t = LearnNext(s, i)
  PROVE  Calm(r, t) /\ DOMAIN t.ilist = DOMAIN s.ilist
<1>1. PICK a : a = PaxosLearn(s, i)
  OBVIOUS
<1>2. Calm(r, a) /\ DOMAIN a.ilist = DOMAIN s.ilist
  BY <1>1, CalmLearn
<1>3. i \in Nat
  BY DEF Calm, Entries, IsNumbers
<1>4. PICK b : b = [a EXCEPT !.ihole = i + 1]
  OBVIOUS
<1>5. Calm(r, b) /\ b.ilist = a.ilist
  BY <1>2, <1>3, <1>4 DEF Calm, Fields
<1>6. t = s \/ Stops(s, t) \/ t = b \/ t = a
  BY <1>1, <1>4 DEF LearnNext, Stops, SyncFaults
<1> QED BY <1>2, <1>5, <1>6, CalmStops

(* What the learning loop keeps, r being the first session and the numbers of its log. *)
CalmKeeps(r, k, s) == Calm(r[1], s) /\ DOMAIN s.ilist = r[2]

CalmFold == INSTANCE Folding WITH Op <- LearnNext, P <- CalmKeeps

(* All its rounds. *)
LEMMA CalmFrom ==
  ASSUME NEW b, NEW s, Calm(b, s), NEW h \in Nat, NEW t, t = LearnFrom(s, s.ihole, h),
         \A k \in 1 .. h : s.ihole + k - 1 \in DOMAIN s.ilist
  PROVE  Calm(b, t)
<1>1. PICK r : r[1] = b /\ r[2] = DOMAIN s.ilist
  <2>1. <<b, DOMAIN s.ilist>>[1] = b /\ <<b, DOMAIN s.ilist>>[2] = DOMAIN s.ilist
    OBVIOUS
  <2> QED BY <2>1
<1>2. PICK i \in Nat : i = s.ihole
  BY DEF Calm
<1> DEFINE q == [k \in 1 .. h |-> i + k - 1]
<1>3. t = CalmFold!Folded(s, q)
  BY <1>2 DEF LearnFrom, CalmFold!Folded, FoldLeft, CalmFold!FoldLeft, MapThenFoldSet,
     CalmFold!MapThenFoldSet, Max, CalmFold!Max
<1>4. b.ihole \in Nat /\ b.ihole <= i
  BY <1>2 DEF Calm
<1>5. DOMAIN q = 1 .. h /\ \A k \in 1 .. h : q[k] \in DOMAIN s.ilist /\ b.ihole <= q[k]
  BY <1>2, <1>4
<1> HIDE DEF q
<1>6. CalmKeeps(r, 0, s)
  BY <1>1 DEF CalmKeeps
<1>7. ASSUME NEW u, NEW k \in 1 .. h, CalmKeeps(r, k - 1, u) PROVE CalmKeeps(r, k, LearnNext(u, q[k]))
  BY <1>1, <1>5, <1>7, CalmNext DEF CalmKeeps
<1>8. CalmKeeps(r, h, t)
  BY <1>3, <1>5, <1>6, <1>7, CalmFold!FoldKeeps
<1> QED BY <1>1, <1>8 DEF CalmKeeps

(* learn_contiguous. *)
LEMMA CalmContiguous ==
  ASSUME NEW r, NEW s, Calm(r, s), s.ihole \in DOMAIN s.ilist PROVE Calm(r, LearnContiguous(s))
<1>1. PICK h : h = CHOOSE k \in s.ihole .. (LastIn(s.ilist) + 1) : IsNextHole(s.ilist, s.ihole, k)
  OBVIOUS
<1>2. h \in s.ihole .. (LastIn(s.ilist) + 1) /\ IsNextHole(s.ilist, s.ihole, h)
  <2>1. \E k \in s.ihole .. (LastIn(s.ilist) + 1) : IsNextHole(s.ilist, s.ihole, k)
    BY HoleAhead DEF Calm, Entries
  <2> QED BY <1>1, <2>1
<1>3. LastIn(s.ilist) \in Nat /\ s.ihole \in Nat
  BY LastInIs DEF Calm, Entries
<1>4. PICK g : g = h - s.ihole
  OBVIOUS
<1>5. g \in Nat /\ \A k \in 1 .. g : s.ihole + k - 1 \in DOMAIN s.ilist
  <2>1. h \in Nat /\ h >= s.ihole
    BY <1>2, <1>3
  <2>2. ASSUME NEW k \in 1 .. g PROVE s.ihole + k - 1 \in DOMAIN s.ilist
    <3>1. s.ihole + k - 1 \in s.ihole .. (h - 1)
      BY <1>3, <1>4, <2>1
    <3> QED BY <1>2, <3>1 DEF IsNextHole, Ready
  <2> QED BY <1>3, <1>4, <2>1, <2>2
<1>6. PICK a : a = [s EXCEPT !.istart = s.ihole]
  OBVIOUS
<1>7. Calm(r, a) /\ a.ilist = s.ilist /\ a.ihole = s.ihole
  BY <1>6 DEF Calm, Fields
<1>8. PICK u : u = LearnFrom(a, s.ihole, g)
  OBVIOUS
<1>9. Calm(r, u)
  BY <1>5, <1>7, <1>8, CalmFrom
<1>10. PICK v : v = [u EXCEPT !.istart = NextIstart(s.ilist, h)]
  OBVIOUS
<1>11. Calm(r, v)
  BY <1>9, <1>10 DEF Calm, Fields
<1>12. PICK t : t = LearnContiguous(s)
  OBVIOUS
<1>13. Stops(s, t) \/ t = v \/ t = u
  BY <1>1, <1>4, <1>6, <1>8, <1>10, <1>12 DEF LearnContiguous, Stops, SyncFaults
<1> QED BY <1>9, <1>11, <1>12, <1>13, CalmStops

(* paxos_retrieve and acceptor_retry ask. *)
LEMMA CalmAsks ==
  ASSUME NEW r, NEW s, Calm(r, s), NEW i, NEW t, t = PaxosRetrieve(s, i) \/ t = AcceptorRetry(s, i)
  PROVE  Calm(r, t)
<1>1. CASE t = PaxosRetrieve(s, i)
  <2>1. PICK m : m = Message("RETRIEVE", s.ballot, i, [from |-> s.self, val |-> s.ilist[i].val])
    OBVIOUS
  <2>2. Plain(r.self, m)
    BY <2>1 DEF Plain, Message, SyncOps
  <2>3. t = Broadcast(s, m) \/ \E c : t = Send(s, c, m)
    BY <1>1, <2>1 DEF PaxosRetrieve
  <2> QED BY <2>2, <2>3, CalmSends
<1>2. CASE t = AcceptorRetry(s, i)
  <2>1. PICK m : m = Message("RETRY", s.ballot, i, <<>>)
    OBVIOUS
  <2>2. Plain(r.self, m)
    BY <2>1 DEF Plain, Message, SyncOps
  <2> QED BY <1>2, <2>1, <2>2, CalmSends DEF AcceptorRetry
<1> QED BY <1>1, <1>2

(* paxos_commit. *)
LEMMA CalmCommits ==
  ASSUME NEW r, NEW s, Calm(r, s), NEW i \in DOMAIN s.ilist, NEW t, t = PaxosCommit(s, i)
  PROVE  Calm(r, t)
<1>1. PICK x : x = [s.ilist[i] EXCEPT !.committed = TRUE]
  OBVIOUS
<1>2. i \in Nat /\ IsEntry(x)
  BY <1>1, EntriesAre DEF Calm, Entries, IsNumbers
<1>3. PICK c : c = [s EXCEPT !.ilist = Put(@, i, x)]
  OBVIOUS
<1>4. Calm(r, c) /\ c.ilist = Put(s.ilist, i, x) /\ i \in DOMAIN c.ilist /\ c.ihole = s.ihole
  <2>1. c.ihole = s.ihole
    BY <1>3 DEF Calm, Fields
  <2>2. Calm(r, c) /\ c.ilist = Put(s.ilist, i, x)
    BY <1>2, <1>3, CalmPuts
  <2> QED BY <2>1, <2>2 DEF Put
<1>5. PICK y : y = [c.ilist[i] EXCEPT !.cached = TRUE]
  OBVIOUS
<1>6. IsEntry(y)
  BY <1>4, <1>5, EntriesAre DEF Calm, Entries
<1>7. PICK d : d = [c EXCEPT !.ilist = Put(@, i, y)]
  OBVIOUS
<1>8. Calm(r, d) /\ i \in DOMAIN d.ilist /\ d.ihole = s.ihole
  <2>1. d.ihole = c.ihole
    BY <1>4, <1>7 DEF Calm, Fields
  <2>2. Calm(r, d) /\ d.ilist = Put(c.ilist, i, y)
    BY <1>2, <1>4, <1>6, <1>7, CalmPuts
  <2> QED BY <1>4, <2>1, <2>2 DEF Put
<1>9. \/ t = PaxosRetrieve(c, i) \/ t = d \/ t = AcceptorRetry(d, s.ihole) \/ Stops(s, t)
      \/ i = s.ihole /\ t = LearnContiguous(d)
  BY <1>1, <1>3, <1>5, <1>7 DEF PaxosCommit, Stops, SyncFaults
<1>10. i = s.ihole => Calm(r, LearnContiguous(d))
  BY <1>8, CalmContiguous
<1>11. t = PaxosRetrieve(c, i) \/ t = AcceptorRetry(d, s.ihole) => Calm(r, t)
  BY <1>4, <1>8, CalmAsks
<1>12. Stops(s, t) => Calm(r, t)
  BY CalmStops
<1> QED BY <1>8, <1>9, <1>10, <1>11, <1>12

(* proposer_commit. *)
LEMMA CalmProposerCommits ==
  ASSUME NEW r, NEW s, Calm(r, s), NEW i \in DOMAIN s.ilist, NEW t, t = ProposerCommit(s, i)
  PROVE  Calm(r, t)
<1>1. PICK x : x = [s.ilist[i] EXCEPT !.op = "COMMIT"]
  OBVIOUS
<1>2. i \in Nat /\ IsEntry(x)
  BY <1>1, EntriesAre DEF Calm, Entries, IsNumbers
<1>3. PICK a, b : a = [s EXCEPT !.ilist = Put(@, i, x)] /\ b = BroadcastInstance(a, i)
  OBVIOUS
<1>4. Calm(r, a) /\ i \in DOMAIN a.ilist
  BY <1>2, <1>3, CalmPuts
<1>5. Calm(r, b) /\ b.ilist = a.ilist
  BY <1>3, <1>4, CalmInstance
<1>6. t = PaxosCommit(b, i)
  BY <1>1, <1>3 DEF ProposerCommit
<1> QED BY <1>4, <1>5, <1>6, CalmCommits

(* proposer_decree. *)
LEMMA CalmDecrees ==
  ASSUME NEW r, NEW s, Calm(r, s), NEW val, NEW t, t = ProposerDecree(s, val)
  PROVE  Calm(r, t)
<1>1. PICK i, b, x : i = NextInstance(s) /\ b = s.ballot /\ x = DecreeInstance(b, val)
  OBVIOUS
<1>2. i \in Nat /\ IsEntry(x)
  <2>1. LastIn(s.ilist) \in Nat
    BY LastInIs DEF Calm, Entries
  <2>2. IsEntry(x)
    BY <1>1, EntriesAre, Zenon
  <2> QED BY <1>1, <2>1, <2>2 DEF NextInstance
<1>3. PICK a, c : a = InsertAndUpstart(s, i, x) /\ c = BroadcastInstance(a, i)
  OBVIOUS
<1>4. Calm(r, a) /\ i \in DOMAIN a.ilist
  BY <1>2, <1>3, CalmPuts
<1>5. Calm(r, c) /\ c.ilist = a.ilist
  BY <1>3, <1>4, CalmInstance
<1>6. t = ProposerCommit(c, i) \/ t = c
  BY <1>1, <1>3 DEF ProposerDecree
<1> QED BY <1>4, <1>5, <1>6, CalmProposerCommits

(* At once, or after the prepare; of a request, or of a part or a kill. *)
LEMMA CalmDecides ==
  ASSUME NEW r, NEW s, Calm(r, s), NEW t,
         (\E val : t = DecreeOrDefer(s, val)) \/ (\E id, force : t = DecreePart(s, id, force))
  PROVE  Calm(r, t)
<1>1. ASSUME NEW u, Calm(r, u), NEW val, NEW v, v = DecreeOrDefer(u, val) PROVE Calm(r, v)
  <2>1. PICK a, w : w = Append(u.idefer, val) /\ a = [u EXCEPT !.idefer = w]
    OBVIOUS
  <2>2. Calm(r, a)
    BY <1>1, <2>1 DEF Calm, Fields
  <2>3. v = a \/ v = ProposerDecree(u, val)
    BY <1>1, <2>1 DEF DecreeOrDefer
  <2> QED BY <1>1, <2>2, <2>3, CalmDecrees
<1>2. ASSUME NEW id, NEW force, t = DecreePart(s, id, force) PROVE Calm(r, t)
  <2>1. PICK u : u = [s EXCEPT !.req_id = @ + 1]
    OBVIOUS
  <2>2. Calm(r, u)
    BY <2>1 DEF Calm, Fields
  <2>3. \E val : t = DecreeOrDefer(u, val)
    BY <1>2, <2>1 DEF DecreePart
  <2> QED BY <1>1, <2>2, <2>3
<1> QED BY <1>1, <1>2

(* A handler answers with one message. *)
Says(s, t) ==
  \E op, bal, inum, body :
    /\ op \notin SyncOps \union {"PREPARE"}
    /\ LET m == Message(op, bal, inum, body)
       IN  t = Broadcast(s, m) \/ t = SendToProposer(s, m) \/ \E c : t = Send(s, c, m)

(* Whatever it answers. *)
LEMMA CalmSays ==
  ASSUME NEW r, NEW s, Calm(r, s), NEW t, Says(s, t) PROVE Calm(r, t) /\ t.ilist = s.ilist
<1>1. PICK op, bal, inum, body :
        /\ op \notin SyncOps \union {"PREPARE"}
        /\ LET m == Message(op, bal, inum, body)
           IN  t = Broadcast(s, m) \/ t = SendToProposer(s, m) \/ \E c : t = Send(s, c, m)
  BY DEF Says
<1>2. PICK m : m = Message(op, bal, inum, body)
  OBVIOUS
<1>3. Plain(r.self, m)
  BY <1>1, <1>2 DEF Plain, Message
<1> QED BY <1>1, <1>2, <1>3, CalmSends

(* acceptor_ack_prepare: redirect or promise. *)
LEMMA CalmAcksPrepare ==
  ASSUME NEW r, NEW s, Calm(r, s), NEW c, NEW m, NEW t, t = AcceptorAckPrepare(s, c, m)
  PROVE  Calm(r, t)
<1>1. PICK a : a = [s EXCEPT !.ballot = m.bal, !.gen_high = m.bal.gen]
  OBVIOUS
<1>2. Calm(r, a)
  BY <1>1 DEF Calm, Fields
<1>3. Says(s, t) \/ Stops(s, t) \/ Says(a, t)
  <2>1. CASE t = AcceptorRedirect(s, c, m)
    BY <2>1 DEF AcceptorRedirect, Says, SyncOps
  <2>2. CASE t = AcceptorPromise(s, m)
    <3>1. Stops(s, t) \/ \E v : t = SendToProposer(a, Message("PROMISE", m.bal, m.inum, v))
      BY <1>1, <2>2 DEF AcceptorPromise, Stops, SyncFaults
    <3> QED BY <3>1 DEF Says, SyncOps
  <2> QED BY <2>1, <2>2 DEF AcceptorAckPrepare
<1> QED BY <1>2, <1>3, CalmSays, CalmStops

(* acceptor_ack_decree. *)
LEMMA CalmAcksDecree ==
  ASSUME NEW r, NEW s, Calm(r, s), NEW m, m.inum \in Nat, NEW t, t = AcceptorAckDecree(s, m)
  PROVE  Calm(r, t)
<1>1. PICK i, x, b, v : i = m.inum /\ b = m.bal /\ v = m.body /\ x = ZeroInstance(b, v)
  OBVIOUS
<1>2. PICK a : a = InsertAndUpstart(s, i, x)
  OBVIOUS
<1>3. Calm(r, a)
  <2>1. IsEntry(x)
    BY <1>1, EntriesAre, Zenon
  <2> QED BY <1>1, <1>2, <2>1, CalmPuts
<1>4. PICK y : y = [s.ilist[i] EXCEPT !.bal = b, !.val = v]
  OBVIOUS
<1>5. PICK d : d = [s EXCEPT !.ilist = Put(@, i, y)]
  OBVIOUS
<1>6. i \in DOMAIN s.ilist => Calm(r, d)
  <2>1. i \in DOMAIN s.ilist => IsEntry(y)
    BY <1>4 DEF Calm, Entries, IsEntry, InstFields
  <2> QED BY <1>1, <1>5, <2>1, CalmPuts
<1>7. t = s \/ Stops(s, t) \/ Says(s, t) \/ Says(a, t) \/ (i \in DOMAIN s.ilist /\ Says(d, t))
  <2>1. \A u : u = AcceptorAccept(s, m) \/ u = AcceptorReject(s, m) => Says(s, u)
    BY DEF AcceptorAccept, AcceptorReject, Says, SyncOps
  <2>2. \A u : u = AcceptorAccept(a, m) => Says(a, u)
    BY DEF AcceptorAccept, Says, SyncOps
  <2>3. \A u : u = AcceptorAccept(d, m) => Says(d, u)
    BY DEF AcceptorAccept, Says, SyncOps
  <2>4. \/ t = s \/ Stops(s, t) \/ t = AcceptorAccept(s, m) \/ t = AcceptorReject(s, m) \/ t = AcceptorAccept(a, m)
        \/ i \in DOMAIN s.ilist /\ t = AcceptorAccept(d, m)
    BY <1>1, <1>2, <1>4, <1>5 DEF AcceptorAckDecree, Stops, SyncFaults
  <2> QED BY <2>1, <2>2, <2>3, <2>4
<1> QED BY <1>3, <1>6, <1>7, CalmSays, CalmStops

(* proposer_ack_accept. *)
LEMMA CalmAcksAccept ==
  ASSUME NEW r, NEW s, Calm(r, s), NEW m, NEW t, t = ProposerAckAccept(s, m) PROVE Calm(r, t)
<1>1. PICK i, x : i = m.inum /\ x = [s.ilist[i] EXCEPT !.votes = @ + 1]
  OBVIOUS
<1>2. PICK a : a = [s EXCEPT !.ilist = Put(@, i, x)]
  OBVIOUS
<1>3. i \in DOMAIN s.ilist => Calm(r, a) /\ i \in DOMAIN a.ilist
  <2> SUFFICES ASSUME i \in DOMAIN s.ilist PROVE Calm(r, a) /\ i \in DOMAIN a.ilist
    OBVIOUS
  <2>1. IsEntry(x) /\ i \in Nat
    BY <1>1 DEF Calm, Entries, IsEntry, InstFields, IsNumbers
  <2> QED BY <1>2, <2>1, CalmPuts
<1>4. Stops(s, t) \/ (i \in DOMAIN s.ilist /\ (t = ProposerCommit(a, i) \/ t = a))
  BY <1>1, <1>2 DEF ProposerAckAccept, Stops, SyncFaults
<1> QED BY <1>3, <1>4, CalmStops, CalmProposerCommits

(* acceptor_ack_commit and acceptor_ack_recommit. *)
LEMMA CalmAcksCommit ==
  ASSUME NEW r, NEW s, Calm(r, s), NEW m, m.inum \in Nat, NEW t,
         t = AcceptorAckCommit(s, m) \/ t = AcceptorAckRecommit(s, m)
  PROVE  Calm(r, t)
<1>1. PICK i, b, v, x : i = m.inum /\ b = m.bal /\ v = m.body /\ x = ZeroInstance(b, v)
  OBVIOUS
<1>2. IsEntry(x) /\ i \in Nat
  <2>1. IsEntry(x)
    BY <1>1, EntriesAre, Zenon
  <2> QED BY <1>1, <2>1
<1>3. PICK a : a = InsertAndUpstart(s, i, x)
  OBVIOUS
<1>4. Calm(r, a) /\ i \in DOMAIN a.ilist
  BY <1>2, <1>3, CalmPuts
<1>5. ASSUME NEW f, Calm(r, f), i \in DOMAIN f.ilist, NEW y, NEW g, g = [f EXCEPT !.ilist = Put(@, i, y)],
             y = [f.ilist[i] EXCEPT !.val = v] \/ y = [f.ilist[i] EXCEPT !.bal = b, !.val = v]
      PROVE  Calm(r, g) /\ i \in DOMAIN g.ilist
  <2>1. IsEntry(y)
    BY <1>5 DEF Calm, Entries, IsEntry, InstFields
  <2> QED BY <1>2, <1>5, <2>1, CalmPuts
<1>6. ASSUME NEW f, Calm(r, f), i \in DOMAIN f.ilist, NEW u, u = PaxosCommit(f, i) PROVE Calm(r, u)
  BY <1>6, CalmCommits
<1>7. CASE t = AcceptorAckCommit(s, m)
  <2>1. PICK f : f = IF i \in DOMAIN s.ilist THEN s ELSE a
    OBVIOUS
  <2>2. Calm(r, f) /\ i \in DOMAIN f.ilist
    BY <1>4, <2>1
  <2>3. PICK y : y = [f.ilist[i] EXCEPT !.val = v]
    OBVIOUS
  <2>4. PICK g : g = [f EXCEPT !.ilist = Put(@, i, y)]
    OBVIOUS
  <2>5. t = s \/ t = PaxosCommit(g, i)
    BY <1>1, <1>3, <1>7, <2>1, <2>3, <2>4 DEF AcceptorAckCommit
  <2> QED BY <1>5, <1>6, <2>2, <2>3, <2>4, <2>5
<1>8. CASE t = AcceptorAckRecommit(s, m)
  <2>1. PICK y : y = [s.ilist[i] EXCEPT !.bal = b, !.val = v]
    OBVIOUS
  <2>2. PICK g : g = [s EXCEPT !.ilist = Put(@, i, y)]
    OBVIOUS
  <2>3. t = s \/ (i \in DOMAIN s.ilist /\ t = PaxosCommit(g, i)) \/ t = PaxosCommit(a, i)
    BY <1>1, <1>3, <1>8, <2>1, <2>2 DEF AcceptorAckRecommit
  <2> QED BY <1>4, <1>5, <1>6, <2>1, <2>2, <2>3
<1> QED BY <1>7, <1>8

(* One vote of a promise. *)
LEMMA CalmVote ==
  ASSUME NEW r, NEW acc, DOMAIN acc = AccFields, Calm(r, acc.s), NEW i \in Nat, NEW b, b = MergeVote(acc, i)
  PROVE  DOMAIN b = AccFields /\ b.votes = acc.votes /\ Calm(r, b.s)
<1>1. PICK s, v, l : s = acc.s /\ v = acc.votes[i] /\ l = Glb(s.ilist, acc.it, i)
  OBVIOUS
<1>2. PICK x : x = ZeroInstance(v.bal, v.val)
  OBVIOUS
<1>3. IsEntry(x)
  <2>1. PICK bal, val : bal = v.bal /\ val = v.val
    OBVIOUS
  <2>2. IsEntry(ZeroInstance(bal, val))
    BY EntriesAre, Zenon
  <2> QED BY <1>2, <2>1, <2>2
<1>4. PICK f, g, ins : /\ f = Fail(s, "pp_istart off the list") /\ g = Fail(s, "promise below the iterator")
                       /\ ins = InsertAndUpstart(s, i, x)
  OBVIOUS
<1>5. PICK ist, pst : /\ ist = (IF s.istart = i THEN OffList ELSE s.istart)
                      /\ pst = (IF s.prep.istart = i THEN OffList ELSE s.prep.istart)
  OBVIOUS
<1>6. PICK swap : swap = [s EXCEPT !.ilist = Put(@, i, x), !.istart = ist, !.prep.istart = pst]
  OBVIOUS
<1>7. Calm(r, f) /\ Calm(r, g) /\ Calm(r, ins)
  BY <1>1, <1>3, <1>4, CalmStops, CalmPuts DEF Stops, SyncFaults
<1>8. Calm(r, swap)
  <2>1. PICK a : a = [s EXCEPT !.ilist = Put(@, i, x)]
    OBVIOUS
  <2>2. Calm(r, a)
    BY <1>1, <1>3, <2>1, CalmPuts
  <2>3. PICK p : p = [s.prep EXCEPT !.istart = pst]
    OBVIOUS
  <2>4. swap = [a EXCEPT !.istart = ist, !.prep = p]
    <3>1. PICK y : y = Put(s.ilist, i, x)
      OBVIOUS
    <3> QED BY <1>1, <1>6, <2>1, <2>3, <3>1 DEF Calm, Fields
  <2> QED BY <2>2, <2>4 DEF Calm, Fields
<1>9. \/ b = acc \/ b = [acc EXCEPT !.s = f] \/ b = [acc EXCEPT !.s = g]
      \/ b = [acc EXCEPT !.s = ins, !.it = l] \/ b = [acc EXCEPT !.s = swap, !.it = i]
      \/ b = [acc EXCEPT !.it = i]
  BY <1>1, <1>2, <1>4, <1>5, <1>6 DEF MergeVote
<1> QED BY <1>1, <1>7, <1>8, <1>9 DEF AccFields

(* What the merge of a promise keeps, r being the first session and the votes. *)
CalmMergeKeeps(r, k, acc) == DOMAIN acc = AccFields /\ acc.votes = r[2] /\ Calm(r[1], acc.s)

CalmMergeFold == INSTANCE Folding WITH Op <- MergeVote, P <- CalmMergeKeeps

(* All votes of a promise. *)
LEMMA CalmMerges ==
  ASSUME NEW r, NEW acc, DOMAIN acc = AccFields, Calm(r, acc.s), IsVotes(acc.votes),
         NEW t, t = MergeVotes(acc).s
  PROVE  Calm(r, t)
<1>1. PICK h \in Nat : h = LastIn(acc.votes)
  BY LastInIs DEF IsVotes
<1> DEFINE q == [i \in 1 .. h |-> i]
<1>2. MergeVotes(acc) = CalmMergeFold!Folded(acc, q)
  BY <1>1 DEF MergeVotes, CalmMergeFold!Folded, FoldLeft, CalmMergeFold!FoldLeft, MapThenFoldSet,
     CalmMergeFold!MapThenFoldSet, Max, CalmMergeFold!Max
<1>3. DOMAIN q = 1 .. h /\ \A k \in 1 .. h : q[k] \in Nat
  OBVIOUS
<1> HIDE DEF q
<1>4. PICK z : z[1] = r /\ z[2] = acc.votes
  <2>1. <<r, acc.votes>>[1] = r /\ <<r, acc.votes>>[2] = acc.votes
    OBVIOUS
  <2> QED BY <2>1
<1>5. CalmMergeKeeps(z, 0, acc)
  BY <1>4 DEF CalmMergeKeeps
<1>6. ASSUME NEW a, NEW k \in 1 .. h, CalmMergeKeeps(z, k - 1, a) PROVE CalmMergeKeeps(z, k, MergeVote(a, q[k]))
  <2>1. PICK j \in Nat : j = q[k]
    BY <1>3
  <2>2. PICK b : b = MergeVote(a, j)
    OBVIOUS
  <2>3. DOMAIN a = AccFields /\ a.votes = z[2] /\ Calm(r, a.s)
    BY <1>4, <1>6 DEF CalmMergeKeeps
  <2>4. DOMAIN b = AccFields /\ b.votes = a.votes /\ Calm(r, b.s)
    BY <2>2, <2>3, CalmVote
  <2> QED BY <1>4, <2>1, <2>2, <2>3, <2>4 DEF CalmMergeKeeps
<1>7. CalmMergeKeeps(z, h, MergeVotes(acc))
  BY <1>2, <1>3, <1>5, <1>6, CalmMergeFold!FoldKeeps
<1> QED BY <1>4, <1>7 DEF CalmMergeKeeps

(* One round of the loop that redecrees. *)
LEMMA CalmRedecree ==
  ASSUME NEW r, NEW s, Calm(r, s), NEW i \in Nat, NEW t, t = Redecree(s, i) PROVE Calm(r, t)
<1>1. CASE i \notin DOMAIN s.ilist
  <2>1. PICK bal, val : bal = s.ballot /\ val = ValueOf("NULL", s.self, s.req_id + 1, 0)
    OBVIOUS
  <2>2. PICK x : x = DecreeInstance(bal, val)
    OBVIOUS
  <2>3. IsEntry(x)
    BY <2>2, EntriesAre, Zenon
  <2>4. PICK a : a = InsertAndUpstart(s, i, x)
    OBVIOUS
  <2>5. Calm(r, a) /\ i \in DOMAIN a.ilist
    BY <2>3, <2>4, CalmPuts
  <2>6. PICK b : b = [a EXCEPT !.req_id = @ + 1]
    OBVIOUS
  <2>7. Calm(r, b) /\ b.ilist = a.ilist
    BY <2>5, <2>6 DEF Calm, Fields
  <2>8. t = BroadcastInstance(b, i)
    BY <1>1, <2>1, <2>2, <2>4, <2>6 DEF Redecree
  <2> QED BY <2>5, <2>7, <2>8, CalmInstance
<1>2. CASE i \in DOMAIN s.ilist
  <2>1. PICK bal, val : bal = s.ballot /\ val = s.ilist[i].val
    OBVIOUS
  <2>2. PICK x : x = DecreeInstance(bal, val)
    OBVIOUS
  <2>3. IsEntry(x)
    BY <2>2, EntriesAre, Zenon
  <2>4. PICK a : a = [s EXCEPT !.ilist = Put(@, i, x)]
    OBVIOUS
  <2>5. Calm(r, a) /\ i \in DOMAIN a.ilist
    BY <2>3, <2>4, CalmPuts
  <2>6. t = s \/ t = BroadcastInstance(a, i)
    BY <1>2, <2>1, <2>2, <2>4 DEF Redecree
  <2> QED BY <2>5, <2>6, CalmInstance
<1> QED BY <1>1, <1>2

(* What redecreeing and decreeing keep. *)
CalmStaysSo(r, k, s) == Calm(r, s)

CalmRedecreeFold == INSTANCE Folding WITH Op <- Redecree, P <- CalmStaysSo

(* All its rounds. *)
LEMMA CalmRedecrees ==
  ASSUME NEW r, NEW s, Calm(r, s), NEW i \in Nat, NEW h \in Int, NEW t, t = RedecreeFrom(s, i, h)
  PROVE  Calm(r, t)
<1> DEFINE q == [k \in 1 .. h |-> i + k - 1]
<1>0. PICK g \in Nat : 1 .. g = 1 .. h
  <2>1. CASE h >= 0
    BY <2>1
  <2>2. CASE h < 0
    <3>1. 1 .. 0 = 1 .. h
      BY <2>2
    <3> QED BY <3>1
  <2> QED BY <2>1, <2>2
<1>1. t = CalmRedecreeFold!Folded(s, q)
  BY DEF RedecreeFrom, CalmRedecreeFold!Folded, FoldLeft, CalmRedecreeFold!FoldLeft, MapThenFoldSet,
     CalmRedecreeFold!MapThenFoldSet, Max, CalmRedecreeFold!Max
<1>2. DOMAIN q = 1 .. g /\ \A k \in 1 .. g : q[k] \in Nat
  BY <1>0
<1> HIDE DEF q
<1>3. CalmStaysSo(r, 0, s)
  BY DEF CalmStaysSo
<1>4. ASSUME NEW u, NEW k \in 1 .. g, CalmStaysSo(r, k - 1, u) PROVE CalmStaysSo(r, k, Redecree(u, q[k]))
  BY <1>2, <1>4, CalmRedecree DEF CalmStaysSo
<1>5. CalmStaysSo(r, g, t)
  BY <1>1, <1>2, <1>3, <1>4, CalmRedecreeFold!FoldKeeps
<1> QED BY <1>5 DEF CalmStaysSo

CalmDecreeFold == INSTANCE Folding WITH Op <- DecreeUnlessEnded, P <- CalmStaysSo

(* All deferred decrees. *)
LEMMA CalmDecreesAll ==
  ASSUME NEW r, NEW s, Calm(r, s), NEW vals, IsSeq(vals), NEW t, t = DecreeAll(s, vals) PROVE Calm(r, t)
<1>1. t = CalmDecreeFold!Folded(s, vals)
  BY DEF DecreeAll, CalmDecreeFold!Folded, FoldLeft, CalmDecreeFold!FoldLeft, MapThenFoldSet,
     CalmDecreeFold!MapThenFoldSet, Max, CalmDecreeFold!Max
<1>2. PICK h \in Nat : DOMAIN vals = 1 .. h
  BY DEF IsSeq
<1>3. CalmStaysSo(r, 0, s)
  BY DEF CalmStaysSo
<1>4. ASSUME NEW u, NEW k \in 1 .. h, CalmStaysSo(r, k - 1, u)
      PROVE  CalmStaysSo(r, k, DecreeUnlessEnded(u, vals[k]))
  BY <1>4, CalmDecrees DEF CalmStaysSo, DecreeUnlessEnded
<1>5. CalmStaysSo(r, h, t)
  BY <1>1, <1>2, <1>3, <1>4, CalmDecreeFold!FoldKeeps
<1> QED BY <1>5 DEF CalmStaysSo

(* The last promise. *)
LEMMA CalmFinishes ==
  ASSUME NEW r, NEW s, Calm(r, s), IsSeq(s.idefer), NEW t, t = FinishPrepare(s) PROVE Calm(r, t)
<1>1. PICK b, h : b = s.prep.bal /\ h = NextInstance(s) - s.ihole
  OBVIOUS
<1>2. PICK a : a = [s EXCEPT !.ballot = b]
  OBVIOUS
<1>3. Calm(r, a) /\ s.ihole \in Nat
  BY <1>2 DEF Calm, Fields
<1>4. PICK c : c = RedecreeFrom(a, s.ihole, h)
  OBVIOUS
<1>5. Calm(r, c)
  <2>1. h \in Int
    BY <1>1, LastInIs DEF NextInstance, Calm, Entries
  <2> QED BY <1>3, <1>4, <2>1, CalmRedecrees
<1>6. PICK d : d = [c EXCEPT !.prep = NoPrep, !.idefer = <<>>]
  OBVIOUS
<1>7. Calm(r, d)
  BY <1>5, <1>6 DEF Calm, Fields
<1>8. Stops(s, t) \/ t = DecreeAll(d, s.idefer)
  BY <1>1, <1>2, <1>4, <1>6 DEF FinishPrepare, Stops, SyncFaults
<1> QED BY <1>7, <1>8, CalmStops, CalmDecreesAll

(* proposer_ack_promise. *)
LEMMA CalmAcksPromise ==
  ASSUME NEW r, NEW n, NEW s, Good(n, s), Calm(r, s), NEW m, IsVotes(m.body),
         NEW t, t = ProposerAckPromise(s, m)
  PROVE  Calm(r, t)
<1> SUFFICES ASSUME s.prep # NoPrep PROVE Calm(r, t)
  BY DEF ProposerAckPromise
<1>1. DOMAIN s = Fields /\ Typed(s) /\ DOMAIN s.prep = PrepFields
  BY DEF Good, Sound, Shaped, Proposes
<1>2. PICK acc : acc = [s |-> s, it |-> s.prep.istart, votes |-> m.body]
  OBVIOUS
<1>3. DOMAIN acc = AccFields /\ acc.s = s /\ acc.votes = m.body
  BY <1>2 DEF AccFields
<1>4. PICK u : u = MergeVotes(acc).s
  OBVIOUS
<1>5. Calm(r, u)
  BY <1>3, <1>4, CalmMerges
<1>6. PICK p : p = [u.prep EXCEPT !.acks = @ + 1]
  OBVIOUS
<1>7. PICK v : v = [u EXCEPT !.prep = p]
  OBVIOUS
<1>8. Calm(r, v) /\ v.idefer = u.idefer
  BY <1>5, <1>7 DEF Calm, Fields
<1>9. t = s \/ t = u \/ t = v \/ (Up(u) /\ t = FinishPrepare(v))
  <2>1. v = [u EXCEPT !.prep.acks = @ + 1]
    BY <1>6, <1>7
  <2> QED BY <1>2, <1>4, <2>1 DEF ProposerAckPromise
<1>10. Up(u) => IsSeq(u.idefer)
  BY <1>1, <1>3, <1>4, MergesVotes DEF Quiet, Typed, IsVals
<1> QED BY <1>5, <1>8, <1>9, <1>10, CalmFinishes

(* proposer_ack_retry, paxos_ack_retrieve, paxos_ack_resend. *)
LEMMA CalmRetries ==
  ASSUME NEW r, NEW s, Calm(r, s), NEW m, NEW t,
         t = ProposerAckRetry(s, m) \/ t = PaxosAckRetrieve(s, m) \/ t = PaxosAckResend(s, m)
  PROVE  Calm(r, t)
<1>1. CASE t = ProposerAckRetry(s, m)
  <2>1. t = s \/ Stops(s, t) \/ Says(s, t)
    BY <1>1 DEF ProposerAckRetry, Stops, SyncFaults, Says, SyncOps
  <2> QED BY <2>1, CalmStops, CalmSays
<1>2. CASE t = PaxosAckRetrieve(s, m)
  <2>1. t = s \/ Stops(s, t) \/ Says(s, t)
    BY <1>2 DEF PaxosAckRetrieve, Stops, SyncFaults, Says, SyncOps
  <2> QED BY <2>1, CalmStops, CalmSays
<1>3. CASE t = PaxosAckResend(s, m)
  <2>1. PICK i, c : i = m.inum /\ c = s.rcache \union {ReqId(m.body)}
    OBVIOUS
  <2>2. PICK a : a = [s EXCEPT !.rcache = c]
    OBVIOUS
  <2>3. Calm(r, a) /\ a.ilist = s.ilist
    BY <2>2 DEF Calm, Fields
  <2>4. t = s \/ (i \in DOMAIN a.ilist /\ t = PaxosCommit(a, i))
    BY <1>3, <2>1, <2>2, <2>3 DEF PaxosAckResend
  <2> QED BY <2>3, <2>4, CalmCommits
<1> QED BY <1>1, <1>2, <1>3

(* paxos_request, proposer_ack_request, acceptor_ack_request. *)
LEMMA CalmRequests ==
  ASSUME NEW r, NEW s, Calm(r, s), NEW t,
         \/ \E kind, extra : t = PaxosRequest(s, kind, extra)
         \/ \E m : t = ProposerAckRequest(s, m) \/ \E c : t = AcceptorAckRequest(s, c, m)
  PROVE  Calm(r, t)
<1>1. ASSUME NEW c, NEW q, NEW a, a = [s EXCEPT !.rcache = c, !.req_id = q] PROVE Calm(r, a)
  BY <1>1 DEF Calm, Fields
<1>2. ASSUME NEW c, NEW a, a = [s EXCEPT !.rcache = c] PROVE Calm(r, a)
  BY <1>2 DEF Calm, Fields
<1>3. ASSUME NEW kind, NEW extra, t = PaxosRequest(s, kind, extra) PROVE Calm(r, t)
  <2>1. PICK val : val = ValueOf(kind, s.self, s.req_id + 1, extra)
    OBVIOUS
  <2>2. PICK c, q : c = s.rcache \union {ReqId(val)} /\ q = s.req_id + 1
    OBVIOUS
  <2>3. PICK a : a = [s EXCEPT !.rcache = c, !.req_id = q]
    OBVIOUS
  <2>4. PICK u : u = Broadcast(a, Message("REQUEST", s.ballot, s.proposer, val))
    OBVIOUS
  <2>5. Calm(r, a) /\ Says(a, u)
    BY <1>1, <2>3, <2>4 DEF Says, SyncOps
  <2>6. t = DecreeOrDefer(u, val) \/ t = u
    <3>1. a = [s EXCEPT !.req_id = @ + 1, !.rcache = @ \union {ReqId(val)}]
      BY <2>2, <2>3 DEF Calm, Fields
    <3> QED BY <1>3, <2>1, <2>4, <3>1 DEF PaxosRequest
  <2> QED BY <2>5, <2>6, CalmSays, CalmDecides
<1>4. ASSUME NEW m, t = ProposerAckRequest(s, m) PROVE Calm(r, t)
  <2>1. PICK c, val : c = s.rcache \union {ReqId(m.body)} /\ val = m.body
    OBVIOUS
  <2>2. PICK a : a = [s EXCEPT !.rcache = c]
    OBVIOUS
  <2>3. Calm(r, a)
    BY <1>2, <2>2
  <2>4. Stops(s, t) \/ t = DecreePart(s, val.id, TRUE) \/ t = DecreeOrDefer(a, val)
    BY <1>4, <2>1, <2>2 DEF ProposerAckRequest, Stops, SyncFaults
  <2>5. t = DecreePart(s, val.id, TRUE) => Calm(r, t)
    BY CalmDecides
  <2>6. t = DecreeOrDefer(a, val) => Calm(r, t)
    BY <2>3, CalmDecides
  <2> QED BY <2>4, <2>5, <2>6, CalmStops
<1>5. ASSUME NEW m, NEW d, t = AcceptorAckRequest(s, d, m) PROVE Calm(r, t)
  <2>1. PICK c : c = s.rcache \union {ReqId(m.body)}
    OBVIOUS
  <2>2. PICK a : a = [s EXCEPT !.rcache = c]
    OBVIOUS
  <2>3. Calm(r, a)
    BY <1>2, <2>2
  <2>4. t = a \/ Says(a, t)
    BY <1>5, <2>1, <2>2 DEF AcceptorAckRequest, Says, SyncOps
  <2> QED BY <2>3, <2>4, CalmSays
<1> QED BY <1>3, <1>4, <1>5

(* proposer_ack_redirect and acceptor_ack_refuse. *)
LEMMA CalmAcksRedirect ==
  ASSUME NEW r, NEW s, Calm(r, s), NEW m, NEW t, t = ProposerAckRedirect(s, m) \/ t = AcceptorAckRefuse(s, m)
  PROVE  Calm(r, t)
<1>1. CASE t = AcceptorAckRefuse(s, m)
  <2>1. PICK i, v : i = m.inum /\ v = m.body
    OBVIOUS
  <2>2. t = s \/ Stops(s, t) \/ t = Connect(s, "refuse", i, 0, v)
    BY <1>1, <2>1 DEF AcceptorAckRefuse, Stops, SyncFaults
  <2>3. t = Connect(s, "refuse", i, 0, v) => Calm(r, t)
    BY CalmUtil
  <2> QED BY <2>2, <2>3, CalmStops
<1>2. CASE t = ProposerAckRedirect(s, m)
  <2>1. PICK p : p = [s.prep EXCEPT !.redirects = @ + 1]
    OBVIOUS
  <2>2. PICK a, b : a = [s EXCEPT !.prep = p] /\ b = [s EXCEPT !.prep = NoPrep]
    OBVIOUS
  <2>3. Calm(r, a) /\ Calm(r, b)
    BY <2>2 DEF Calm, Fields
  <2>4. a = [s EXCEPT !.prep.redirects = @ + 1]
    BY <2>1, <2>2
  <2>5. \/ t = s \/ Stops(s, t) \/ Stops(a, t) \/ t = Connect(a, "redirect", m.inum, 0, NoValue)
        \/ t = ProposerPrepare(b, FALSE) \/ t = a
    BY <1>2, <2>2, <2>4 DEF ProposerAckRedirect, Stops, SyncFaults
  <2>6. t = Connect(a, "redirect", m.inum, 0, NoValue) => Calm(r, t)
    BY <2>3, CalmUtil
  <2>7. t = ProposerPrepare(b, FALSE) => Calm(r, t)
    BY <2>3, CalmPrepares
  <2> QED BY <2>3, <2>5, <2>6, <2>7, CalmStops
<1> QED BY <1>1, <1>2

(* proposer_ack_reject. *)
LEMMA CalmAcksReject ==
  ASSUME NEW r, NEW s, Calm(r, s), NEW m, NEW t, t = ProposerAckReject(s, m) PROVE Calm(r, t)
<1>1. PICK i, x : i = m.inum /\ x = [s.ilist[i] EXCEPT !.rejects = @ + 1]
  OBVIOUS
<1>2. PICK a, id : a = [s EXCEPT !.ilist = Put(@, i, x)] /\ id = x.val.extra
  OBVIOUS
<1>3. i \in DOMAIN s.ilist => Calm(r, a) /\ i \in DOMAIN a.ilist
  <2> SUFFICES ASSUME i \in DOMAIN s.ilist PROVE Calm(r, a) /\ i \in DOMAIN a.ilist
    OBVIOUS
  <2>1. IsEntry(x) /\ i \in Nat
    BY <1>1 DEF Calm, Entries, IsEntry, InstFields, IsNumbers
  <2> QED BY <1>2, <2>1, CalmPuts
<1>4. \/ Stops(s, t)
      \/ i \in DOMAIN s.ilist /\ (t = a \/ t = Connect(a, "reject", id, i, NoValue) \/ t = BroadcastInstance(a, i))
  BY <1>1, <1>2 DEF ProposerAckReject, Stops, SyncFaults
<1>5. i \in DOMAIN s.ilist /\ t = Connect(a, "reject", id, i, NoValue) => Calm(r, t)
  BY <1>3, CalmUtil
<1>6. i \in DOMAIN s.ilist /\ t = BroadcastInstance(a, i) => Calm(r, t)
  BY <1>3, CalmInstance
<1> QED BY <1>3, <1>4, <1>5, <1>6, CalmStops

(* A continuation for which the client could not connect. *)
LEMMA CalmContinues ==
  ASSUME NEW r, NEW s, Calm(r, s), NEW k, k.kind \in {"redirect", "refuse", "reject", "welcome"},
         NEW t, t = Continue(s, k, NoPeer)
  PROVE  Calm(r, t)
<1>1. PICK al : al = [s.alist EXCEPT ![k.acc] = NoPeer]
  OBVIOUS
<1>2. PICK a, b : a = [s EXCEPT !.alist = al] /\ b = [s EXCEPT !.prep = NoPrep]
  OBVIOUS
<1>3. Calm(r, a) /\ Calm(r, b) /\ a.ilist = s.ilist
  BY <1>2 DEF Calm, Fields
<1>4. a = [s EXCEPT !.alist[k.acc] = NoPeer]
  BY <1>1, <1>2
<1>5. PICK i, part : i = k.inum /\ part = s.ilist[i]
  OBVIOUS
<1>6. PICK x : x = [DecreeInstance(part.bal, part.val) EXCEPT !.op = part.op]
  OBVIOUS
<1>7. PICK c : c = [a EXCEPT !.ilist = Put(@, i, x)]
  OBVIOUS
<1>8. i \in DOMAIN s.ilist => Calm(r, c) /\ i \in DOMAIN c.ilist
  <2> SUFFICES ASSUME i \in DOMAIN s.ilist PROVE Calm(r, c) /\ i \in DOMAIN c.ilist
    OBVIOUS
  <2>1. IsEntry(x) /\ i \in Nat
    BY <1>5, <1>6 DEF Calm, Entries, IsEntry, InstFields, IsNumbers, DecreeInstance
  <2> QED BY <1>3, <1>7, <2>1, CalmPuts
<1>9. \/ t = s \/ Stops(s, t) \/ t = ProposerPrepare(b, FALSE) \/ t = a
      \/ t = DecreePart(a, k.acc, FALSE)
      \/ i \in DOMAIN s.ilist /\ t = BroadcastInstance(c, i)
  <2>1. k.kind = "redirect" => t = s \/ Stops(s, t) \/ t = ProposerPrepare(b, FALSE)
    BY <1>2 DEF Continue, ContinueAckRedirect, Stops, SyncFaults
  <2>2. k.kind = "refuse" => t = s \/ t = a
    BY <1>4 DEF Continue, ContinueAckRefuse
  <2>3. k.kind = "reject" => t = s \/ (i \in DOMAIN s.ilist /\ t = BroadcastInstance(c, i))
    BY <1>4, <1>5, <1>6, <1>7 DEF Continue, ContinueAckReject
  <2>4. k.kind = "welcome" => t = s \/ t = DecreePart(a, k.acc, FALSE)
    BY <1>4 DEF Continue, ContinueWelcome
  <2> QED BY <2>1, <2>2, <2>3, <2>4
<1>10. t = ProposerPrepare(b, FALSE) => Calm(r, t)
  BY <1>3, CalmPrepares
<1>11. t = DecreePart(a, k.acc, FALSE) => Calm(r, t)
  BY <1>3, CalmDecides
<1>12. i \in DOMAIN s.ilist /\ t = BroadcastInstance(c, i) => Calm(r, t)
  BY <1>8, CalmInstance
<1>13. Stops(s, t) => Calm(r, t)
  BY CalmStops
<1> QED BY <1>3, <1>9, <1>10, <1>11, <1>12, <1>13

(* paxos_drop_connection. *)
LEMMA CalmDrops ==
  ASSUME NEW r, NEW s, Calm(r, s), NEW c, NEW t, t = PaxosDropConnection(s, c) PROVE Calm(r, t)
<1>1. PICK lost : lost = Min({id \in Members(s) : s.alist[id] = c})
  OBVIOUS
<1>2. PICK al, lc : al = [s.alist EXCEPT ![lost] = NoPeer] /\ lc = s.live_count - 1
  OBVIOUS
<1>3. PICK a : a = [s EXCEPT !.alist = al, !.live_count = lc]
  OBVIOUS
<1>4. Calm(r, a)
  BY <1>3 DEF Calm, Fields
<1>5. a = [s EXCEPT !.alist[lost] = NoPeer, !.live_count = @ - 1]
  BY <1>2, <1>3 DEF Calm, Fields
<1>6. PICK e : e = ResetProposer(a)
  OBVIOUS
<1>7. Calm(r, e)
  BY <1>4, <1>6, CalmUtil
<1>8. t = s \/ t = DecreePart(a, lost, FALSE) \/ t = a \/ t = ProposerPrepare(e, TRUE) \/ t = e
  BY <1>1, <1>5, <1>6 DEF PaxosDropConnection
<1>9. t = DecreePart(a, lost, FALSE) => Calm(r, t)
  BY <1>4, CalmDecides
<1>10. t = ProposerPrepare(e, TRUE) => Calm(r, t)
  BY <1>7, CalmPrepares
<1> QED BY <1>4, <1>7, <1>8, <1>9, <1>10

(* A message that is not of a sync. *)
LEMMA CalmDispatch ==
  ASSUME NEW n, NEW s, Good(n, s), s.out = <<>>, NEW c, NEW m, Arrives(n, c, m), m.op \notin SyncOps,
         \E id \in Connected(s) : s.alist[id] = c, NEW t, t = PaxosDispatch(s, c, m)
  PROVE  Calm(s, t)
<1>1. Calm(s, s) /\ Up(s) /\ s.self = n
  BY CalmItself DEF Good, Sound, Shaped
<1>2. /\ m.op \in Ops /\ (m.op = "PROMISE" => IsVotes(m.body))
      /\ m.op \in {"DECREE", "COMMIT", "RECOMMIT"} => m.inum \in Nat
  BY DEF Arrives, IsMsg
<1>3. CASE s.proposer # n
  <2>1. t = AcceptorDispatch(s, c, m)
    BY <1>1, <1>3 DEF PaxosDispatch, IsProposer
  <2>2. CASE m.op = "PREPARE"
    BY <1>1, <2>1, <2>2, CalmAcksPrepare DEF AcceptorDispatch
  <2>3. CASE m.op = "DECREE"
    <3>1. t = AcceptorAckDecree(s, m)
      BY <2>1, <2>3 DEF AcceptorDispatch
    <3> QED BY <1>1, <1>2, <2>3, <3>1, CalmAcksDecree
  <2>4. CASE m.op \in {"COMMIT", "RECOMMIT"}
    <3>1. t = AcceptorAckCommit(s, m) \/ t = AcceptorAckRecommit(s, m)
      BY <2>1, <2>4 DEF AcceptorDispatch
    <3> QED BY <1>1, <1>2, <2>4, <3>1, CalmAcksCommit
  <2>5. CASE m.op \in {"REQUEST", "RETRIEVE", "RESEND", "REFUSE"}
    <3>1. \/ t = AcceptorAckRequest(s, c, m) \/ t = PaxosAckRetrieve(s, m) \/ t = PaxosAckResend(s, m)
          \/ t = AcceptorAckRefuse(s, m)
      BY <2>1, <2>5 DEF AcceptorDispatch
    <3>2. t = AcceptorAckRequest(s, c, m) => Calm(s, t)
      BY <1>1, CalmRequests
    <3>3. t = PaxosAckRetrieve(s, m) \/ t = PaxosAckResend(s, m) => Calm(s, t)
      BY <1>1, CalmRetries
    <3>4. t = AcceptorAckRefuse(s, m) => Calm(s, t)
      BY <1>1, CalmAcksRedirect
    <3> QED BY <3>1, <3>2, <3>3, <3>4
  <2>6. CASE m.op \in {"PROMISE", "ACCEPT", "REDIRECT", "REJECT", "RETRY"}
    BY <1>1, <2>1, <2>6 DEF AcceptorDispatch
  <2> QED BY <1>2, <2>2, <2>3, <2>4, <2>5, <2>6 DEF Ops, SyncOps
<1>4. CASE s.proposer = n
  <2>1. t = ProposerDispatch(s, c, m)
    BY <1>1, <1>4 DEF PaxosDispatch, IsProposer
  <2>2. m.op \notin Leading
    <3>1. c[1] = n
      BY <1>4, ProposerLeads, Itself DEF Good, Leads
    <3> QED BY <3>1 DEF Arrives
  <2>3. CASE m.op = "PROMISE"
    <3>1. t = ProposerAckPromise(s, m)
      BY <2>1, <2>3 DEF ProposerDispatch
    <3> QED BY <1>1, <1>2, <2>3, <3>1, CalmAcksPromise
  <2>4. CASE m.op = "ACCEPT"
    <3>1. t = ProposerAckAccept(s, m)
      BY <2>1, <2>4 DEF ProposerDispatch
    <3> QED BY <1>1, <3>1, CalmAcksAccept
  <2>5. CASE m.op = "REQUEST"
    <3>1. t = ProposerAckRequest(s, m)
      BY <2>1, <2>5 DEF ProposerDispatch
    <3> QED BY <1>1, <3>1, CalmRequests
  <2>6. CASE m.op \in {"RETRIEVE", "RESEND", "RETRY"}
    <3>1. t = ProposerAckRetry(s, m) \/ t = PaxosAckRetrieve(s, m) \/ t = PaxosAckResend(s, m)
      BY <2>1, <2>6 DEF ProposerDispatch
    <3> QED BY <1>1, <3>1, CalmRetries
  <2>7. CASE m.op = "REDIRECT"
    <3>1. t = ProposerAckRedirect(s, m)
      BY <2>1, <2>7 DEF ProposerDispatch
    <3> QED BY <1>1, <3>1, CalmAcksRedirect
  <2>8. CASE m.op = "REJECT"
    <3>1. t = ProposerAckReject(s, m)
      BY <2>1, <2>8 DEF ProposerDispatch
    <3> QED BY <1>1, <3>1, CalmAcksReject
  <2> QED BY <1>2, <2>2, <2>3, <2>4, <2>5, <2>6, <2>7, <2>8 DEF Ops, Leading, SyncOps
<1> QED BY <1>3, <1>4

(* A continuation of the list, without a connection. *)
LEMMA CalmFails ==
  ASSUME NEW n, NEW s, Good(n, s), s.out = <<>>, NEW k, k \in DOMAIN s.clist,
         NEW t, t = Continue([s EXCEPT !.clist = RemoveAt(@, k)], s.clist[k], NoPeer)
  PROVE  Calm(s, t)
<1>1. PICK l, w : l = RemoveAt(s.clist, k) /\ w = s.clist[k]
  OBVIOUS
<1>2. PICK u : u = [s EXCEPT !.clist = l]
  OBVIOUS
<1>3. Calm(s, u)
  BY <1>2, CalmItself DEF Calm, Fields
<1>4. w.kind \in {"redirect", "refuse", "reject", "welcome"}
  BY <1>1 DEF Good, Sound, Shaped, Conts, IsSeq
<1>5. t = Continue(u, w, NoPeer)
  BY <1>1, <1>2
<1> QED BY <1>3, <1>4, <1>5, CalmContinues

-----------------------------------------------------------------------------
(* Whose ballot a participant follows *)

(* A participant that does not propose has promised to nobody behind the one that it
   takes for the proposer. *)
Follows(s) == s.proposer = s.self \/ s.ballot.id <= s.proposer

(* The handlers of an acceptor leave the ballot alone, but for the one of a prepare. *)
LEMMA AcceptorKeeps ==
  ASSUME NEW n, NEW s, Good(n, s), s.proposer # n, NEW c, NEW m, Arrives(n, c, m), m.op # "PREPARE",
         NEW t, t = AcceptorDispatch(s, c, m)
  PROVE  Kept(n, s, t)
<1>0. m.op \in Ops /\ m.bal \in Bal /\ IsMsg(m)
  BY DEF Arrives, IsMsg
<1>1. CASE m.op \in {"DECREE", "COMMIT", "RECOMMIT"}
  <2>1. t = AcceptorAckDecree(s, m) \/ t = AcceptorAckCommit(s, m) \/ t = AcceptorAckRecommit(s, m)
    BY <1>1 DEF AcceptorDispatch
  <2>2. m.inum \in Nat /\ IsValAt(m.inum, m.body)
    BY <1>0, <1>1 DEF IsMsg
  <2> QED BY <1>0, <2>1, <2>2, AcksDecree, AcksCommit, AcksRecommit
<1>2. CASE m.op = "REQUEST"
  <2>1. t = AcceptorAckRequest(s, c, m)
    BY <1>2 DEF AcceptorDispatch
  <2> QED BY <1>2, <2>1, AcceptsRequest
<1>3. CASE m.op \in {"RETRIEVE", "RESEND", "REFUSE"}
  <2>1. t = PaxosAckRetrieve(s, m) \/ t = PaxosAckResend(s, m) \/ t = AcceptorAckRefuse(s, m)
    BY <1>3 DEF AcceptorDispatch
  <2> QED BY <1>0, <2>1, AcksRetrieve, AcksResend, AcksRefuse
<1>4. CASE m.op \in {"SYNC", "TRUNCATE"}
  <2>1. t = AcceptorAckSync(s, m) \/ t = AcceptorAckTruncate(s, m)
    BY <1>4 DEF AcceptorDispatch
  <2> QED BY <1>0, <2>1, AcksSync
<1>5. CASE m.op \in {"PROMISE", "ACCEPT", "REDIRECT", "REJECT", "RETRY", "LAST"}
  <2>1. t = s
    BY <1>5 DEF AcceptorDispatch
  <2> QED BY <2>1, Itself
<1> QED BY <1>0, <1>1, <1>2, <1>3, <1>4, <1>5 DEF Ops

(* A participant is still following as long as its ballot is kept or it proposes: the
   proposer changes for one that is behind it. *)
LEMMA FollowsOn ==
  ASSUME NEW n, NEW s, Good(n, s), Follows(s), NEW t, Good(n, t), NEW lost, Shrinks(n, s, t, lost),
         s.proposer = n \/ t.ballot = s.ballot \/ t.ballot.id = s.proposer
  PROVE  Follows(t)
<1>1. /\ n \in Nat /\ s.self = n /\ t.self = n /\ Connected(t) \subseteq Connected(s) /\ Connected(s) \subseteq Nat
      /\ s.ballot.id \in Nat
  BY DEF Good, Sound, Shaped, Founders, Shrinks, Connected, Members, Acceptors, Promised, Bal
<1>2. /\ t.proposer \in Connected(t) \union {n} /\ t.proposer <= n
      /\ \A id \in Connected(s) : s.proposer <= id
      /\ s.proposer \in Nat
  BY <1>1 DEF Good, Sound, Ranked
<1>3. CASE t.proposer = n
  BY <1>1, <1>3 DEF Follows
<1>4. CASE t.proposer # n
  <2>1. t.proposer \in Connected(s) /\ t.proposer \in Nat /\ s.proposer <= t.proposer
    BY <1>1, <1>2, <1>4
  <2>2. s.proposer # n
    BY <1>1, <1>2, <1>4, <2>1
  <2> QED BY <1>1, <1>2, <2>1, <2>2 DEF Follows
<1> QED BY <1>3, <1>4

(* The connection of an acceptor leads to it. *)
LEMMA LeadsTo ==
  ASSUME NEW n, NEW s, Good(n, s), NEW id \in Connected(s), NEW c, s.alist[id] = c
  PROVE  c = FirstConn(id, n) /\ OtherEnd(c, n) = id /\ id # n /\ OtherEnd(c, id) = n
<1>1. c = FirstConn(id, n) /\ id \in Nat /\ n \in Nat /\ id # n
  BY DEF Good, Sound, Shaped, Acceptors, Connected, Members, Founders
<1> QED BY <1>1 DEF FirstConn, OtherEnd

(* Dispatch: who reads a prepare of another than its proposer redirects it. *)
LEMMA FollowsDispatch ==
  ASSUME NEW n, NEW s, Good(n, s), Follows(s), NEW c, NEW m, Arrives(n, c, m),
         \E id \in Connected(s) : s.alist[id] = c, m.op = "PREPARE" => m.bal.id = OtherEnd(c, n),
         NEW t, t = PaxosDispatch(s, c, m), Up(t)
  PROVE  Follows(t)
<1>1. Outcome(n, s, t)
  BY Dispatches
<1>2. Good(n, t) /\ Shrinks(n, s, t, {})
  BY <1>1 DEF Outcome
<1>3. s.proposer = n \/ t.ballot = s.ballot \/ t.ballot.id = s.proposer
  <2> SUFFICES ASSUME s.proposer # n PROVE t.ballot = s.ballot \/ t.ballot.id = s.proposer
    OBVIOUS
  <2>1. t = AcceptorDispatch(s, c, m)
    BY DEF PaxosDispatch, IsProposer, Good, Sound, Shaped
  <2>2. CASE m.op # "PREPARE"
    BY <2>1, <2>2, AcceptorKeeps DEF Kept
  <2>3. CASE m.op = "PREPARE"
    <3>1. t = AcceptorAckPrepare(s, c, m)
      BY <2>1, <2>3 DEF AcceptorDispatch
    <3>2. PICK a : a = [s EXCEPT !.ballot = m.bal, !.gen_high = m.bal.gen]
      OBVIOUS
    <3>3. DOMAIN s = Fields /\ a.ballot = m.bal
      BY <3>2 DEF Good, Sound, Shaped, Fields
    <3>4. \/ t = AcceptorRedirect(s, c, m)
          \/ s.alist[s.proposer] = c /\ t = AcceptorPromise(s, m)
      BY <3>1 DEF AcceptorAckPrepare
    <3>5. ASSUME NEW r, DOMAIN r = Fields, NEW d, NEW x, NEW v, v = Send(r, d, x) PROVE v.ballot = r.ballot
      <4>1. v = Fail(r, "send to NULL peer") \/ v = WriteTo(r, {d}, x)
        BY <3>5 DEF Send
      <4>2. PICK o : WriteTo(r, {d}, x) = [r EXCEPT !.out = o]
        BY DEF WriteTo
      <4> QED BY <3>5, <4>1, <4>2 DEF Fail, Fields
    <3>6. CASE t = AcceptorRedirect(s, c, m)
      BY <3>3, <3>5, <3>6 DEF AcceptorRedirect
    <3>7. CASE s.alist[s.proposer] = c /\ t = AcceptorPromise(s, m)
      <4>1. Stops(s, t) \/ \E x : t = Send(a, a.alist[a.proposer], x)
        BY <3>2, <3>7 DEF AcceptorPromise, SendToProposer, Stops, SyncFaults
      <4>2. Stops(s, t) => t.ballot = s.ballot
        BY <3>3 DEF Stops, SyncFaults, PaxosEnd, Fail, Fields
      <4>3. DOMAIN a = Fields
        BY <3>2, <3>3 DEF Fields
      <4>4. s.proposer \in Connected(s)
        BY DEF Good, Sound, Ranked
      <4>5. m.bal.id = s.proposer
        BY <2>3, <3>7, <4>4, LeadsTo
      <4> QED BY <3>3, <3>5, <4>1, <4>2, <4>3, <4>5
    <3> QED BY <3>4, <3>6, <3>7
  <2> QED BY <2>2, <2>3
<1> QED BY <1>2, <1>3, FollowsOn

=============================================================================
