----------------------------- MODULE PaxosReconnect ----------------------------
(***************************************************************************)
(* Reconnection: redirected prepares, refused requests and rejected parts  *)
(* each make a participant reconnect to an acceptor that others say is     *)
(* alive (paxos_reconnect.c), and hellos attach a connection to an         *)
(* acceptor (paxos_ack_hello).  A connect is asynchronous: it leaves a     *)
(* continuation in `clist', which a later step runs with the new           *)
(* connection, or with NoPeer when the client could not connect.           *)
(***************************************************************************)
EXTENDS PaxosRoles

(***************************************************************************)
(* DEATH_ADJUSTED: n plus the acceptors we have no connection to.  The C   *)
(* arithmetic is unsigned, so a live_count that is too large by more than  *)
(* n wraps around to a huge number.                                        *)
(***************************************************************************)
Huge == 2147483647
DeathAdjusted(s, n) ==
  LET d == n + Cardinality(Members(s)) - s.live_count IN IF d < 0 THEN Huge ELSE d

(* Attach a connection to an acceptor and count it live. *)
Attach(s, id, conn) == [s EXCEPT !.alist[id] = conn, !.live_count = @ + 1]

(* Mutant: the hello names whom it greets. *)
PaxosHelloThem(s, id) == Send(s, s.alist[id], Message("HELLO", s.ballot, id, <<>>))

(* paxos_hello *)
PaxosHello(s, id) == Send(s, s.alist[id], Message("HELLO", s.ballot, s.self, <<>>))

-----------------------------------------------------------------------------
(* Mutant: a prepared proposer yields to a hello from a superior. *)
PaxosAckHelloYields(s, source, m) ==
  LET id == m.inum
      t == Attach(s, id, source)
  IN  IF ~IsMember(s, id) \/ s.alist[id] # NoPeer THEN s
      ELSE IF id >= s.proposer THEN t
      ELSE [t EXCEPT !.prep = IF IsProposer(s) THEN NoPrep ELSE @, !.proposer = id,
                     !.ballot = m.bal]

(***************************************************************************)
(* paxos_ack_hello.  The hello of an unknown acceptor waits in adefer for  *)
(* its join to be learned; if the acceptor was parted, it waits for ever.  *)
(***************************************************************************)
PaxosAckHello(s, source, m) ==
  LET id == m.inum
      attached ==
        IF s.alist[id] = NoPeer THEN
          LET t == Attach(s, id, source)
          IN  IF id >= s.proposer THEN t
              ELSE [t EXCEPT !.prep = IF IsProposer(s) THEN NoPrep ELSE @, !.proposer = id]
        ELSE IF id < s.self
          THEN [s EXCEPT !.alist[id] = source, !.closed = @ \union {s.alist[id]}]
        ELSE s
  IN  IF IsProposer(s) /\ s.prep = NoPrep /\ id < s.self THEN s
      ELSE IF ~IsMember(s, id) THEN
        [s EXCEPT !.adefer = IF id \in DOMAIN @ THEN @ ELSE Put(@, id, source)]
      ELSE IF id = attached.proposer THEN [attached EXCEPT !.ballot = m.bal]
      ELSE attached

-----------------------------------------------------------------------------
(* Redirects of our prepare.  The body is the ballot that was prepared. *)
ProposerAckRedirect(s, m) ==
  LET t == [s EXCEPT !.prep.redirects = @ + 1]
  IN  IF m.inum >= s.self THEN Fail(s, "redirect to a lower rank")
      ELSE IF s.prep = NoPrep THEN s
      ELSE IF BallotCompare(m.body, s.prep.bal) # 0 THEN s
      ELSE IF DeathAdjusted(s, t.prep.redirects) >= Majority(s) THEN
        IF ~IsMember(s, m.inum) THEN Fail(t, "redirect to a stranger")
        ELSE IF s.alist[m.inum] # NoPeer THEN Fail(t, "redirect to a live acceptor")
        ELSE Connect(t, "redirect", m.inum, 0, NoValue)
      ELSE IF t.prep.acks < Majority(s) /\ t.prep.acks + t.prep.redirects = s.live_count
        THEN ProposerPrepare([s EXCEPT !.prep = NoPrep], FALSE)
      ELSE t

(* Mutant: the prepare is given up but not the proposership. *)
ContinueAckRedirectStays(s, k, conn) ==
  LET freed == [s EXCEPT !.prep = NoPrep]
  IN  IF s.alist[k.acc] # NoPeer THEN s
      ELSE IF conn = NoPeer THEN ProposerPrepare(freed, FALSE)
      ELSE PaxosHello([Attach(freed, k.acc, conn) EXCEPT !.idefer = <<>>], k.acc)

(* Give up the prepare for the acceptor we reconnected to, or reprepare. *)
ContinueAckRedirect(s, k, conn) ==
  LET id == k.acc
      freed == [s EXCEPT !.prep = NoPrep]
      t == Attach(freed, id, conn)
  IN  IF id >= s.self THEN Fail(s, "reconnect to a lower rank")
      ELSE IF s.alist[id] # NoPeer THEN
        IF IsProposer(s) THEN Fail(s, "proposer under a live superior") ELSE s
      ELSE IF conn = NoPeer THEN ProposerPrepare(freed, FALSE)
      ELSE PaxosHello([t EXCEPT !.proposer = Min({@, id}), !.idefer = <<>>], id)

-----------------------------------------------------------------------------
(* Refusals of our request.  The body is the value that was refused. *)
AcceptorAckRefuse(s, m) ==
  IF s.proposer <= m.inum THEN s
  ELSE IF ~IsMember(s, m.inum) THEN Fail(s, "refuse to a stranger")
  ELSE IF s.alist[m.inum] # NoPeer THEN Fail(s, "refuse to a live acceptor")
  ELSE Connect(s, "refuse", m.inum, 0, m.body)

(***************************************************************************)
(* The reconnected acceptor gets a hello and, if it proposes, the request. *)
(* A connection that a hello attached meanwhile is overwritten, by NULL    *)
(* too.                                                                    *)
(***************************************************************************)
ContinueAckRefuse(s, k, conn) ==
  LET id == k.acc
      t == PaxosHello([Attach(s, id, conn) EXCEPT !.prep = NoPrep, !.idefer = <<>>], id)
  IN  IF IsProposer(s) /\ s.prep = NoPrep THEN s
      ELSE IF conn = NoPeer THEN [s EXCEPT !.alist[id] = NoPeer]
      ELSE IF id >= s.proposer THEN t
      ELSE SendToProposer([t EXCEPT !.proposer = id],
                          Message("REQUEST", s.ballot, id, k.val))

-----------------------------------------------------------------------------
(* Rejections of a part we decreed. *)
ProposerAckReject(s, m) ==
  LET i == m.inum
      inst == [s.ilist[i] EXCEPT !.rejects = @ + 1]
      t == [s EXCEPT !.ilist = Put(@, i, inst)]
      id == inst.val.extra
  IN  IF BallotCompare(m.bal, s.ballot) # 0 THEN Fail(s, "reject of another ballot")
      ELSE IF i \notin DOMAIN s.ilist THEN Fail(s, "reject of no instance")
      ELSE IF inst.committed \/ inst.val.kind = "NULL" THEN t
      ELSE IF inst.val.kind # "PART" THEN Fail(s, "reject of no part")
      ELSE IF DeathAdjusted(s, inst.rejects) >= Majority(s) THEN
        IF ~IsMember(s, id) THEN Fail(s, "rejected part of a stranger")
        ELSE IF s.alist[id] # NoPeer THEN Fail(s, "rejected part of a live acceptor")
        ELSE Connect(t, "reject", id, i, NoValue)
      ELSE IF inst.votes < Majority(s) /\ inst.votes + inst.rejects = s.live_count
        THEN BroadcastInstance(t, i)
      ELSE t

(* Mutant: without a connection the part is forgotten. *)
ContinueAckRejectForgets(s, k, conn) ==
  LET i == k.inum
      null == DecreeInstance(s.ilist[i].bal, [s.ilist[i].val EXCEPT !.kind = "NULL", !.extra = 0])
  IN  IF i \notin DOMAIN s.ilist \/ conn = NoPeer THEN s
      ELSE BroadcastInstance(
             [PaxosHello(Attach(s, k.acc, conn), k.acc) EXCEPT !.ilist = Put(@, i, null)], i)

(***************************************************************************)
(* Decree null in place of the part if we reconnected, else the part again *)
(* under whatever opcode its header has, the instance's metadata reset in  *)
(* both cases.                                                             *)
(***************************************************************************)
ContinueAckReject(s, k, conn) ==
  LET i == k.inum
      part == s.ilist[i]
      again == [DecreeInstance(part.bal, part.val) EXCEPT !.op = part.op]
      null == DecreeInstance(part.bal, [part.val EXCEPT !.kind = "NULL", !.extra = 0])
      decree(t, inst) == BroadcastInstance([t EXCEPT !.ilist = Put(@, i, inst)], i)
  IN  IF i \notin DOMAIN s.ilist THEN s
      ELSE IF conn = NoPeer THEN decree([s EXCEPT !.alist[k.acc] = NoPeer], again)
      ELSE decree(PaxosHello(Attach(s, k.acc, conn), k.acc), null)

=============================================================================
