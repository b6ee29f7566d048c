------------------------------ MODULE PaxosSession -----------------------------
(***************************************************************************)
(* A session of N participants over TCP, and processes that are invited to *)
(* it: the event loop of every process dispatches one message, one lost    *)
(* connection, one finished connect or one tick of its timer at a time     *)
(* (paxos.c, paxos_io.c) to the handlers of PaxosRoles, PaxosReconnect,    *)
(* PaxosGreet and PaxosSync.                                               *)
(*                                                                         *)
(* A connection is a triple <<i, j, k>>: the k-th one that i opened to j.  *)
(* `inbox' holds, for each open end <<connection, participant>>, what is   *)
(* still to be read there: a connection delivers in order.  It may lose    *)
(* what is in flight only by breaking, which the reader learns from an end *)
(* of file.  Write buffers live in the process: what a handler sends on a  *)
(* connection that it goes on to destroy, or in a session that it ends, is *)
(* never written.                                                          *)
(***************************************************************************)
EXTENDS PaxosGreet, PaxosSync

CONSTANTS
  N,           \* participants, numbered in the order they joined
  Joiners,     \* processes that may be invited
  Talkers,     \* processes whose clients send chats
  Inviters,    \* processes whose clients invite
  Crashers,    \* processes that may crash
  MaxChats,    \* bound: chats requested
  MaxInvites,  \* bound: joins requested
  MaxTicks,    \* bound: ticks of a timer that have an effect
  MaxCrashes,  \* bound: processes that crash or disconnect
  MaxDrops,    \* bound: connections that break between live processes
  MaxConns,    \* bound: connections that are made again
  MaxGen       \* bound: generations of ballots

ASSUME NAssumption == N \in Nat \ {0}
ASSUME JoinersAssumption == Joiners \subseteq Nat \ (0 .. N)
ASSUME ActorsAssumption == Talkers \union Inviters \union Crashers \subseteq 1 .. N \union Joiners
ASSUME BoundsAssumption ==
  /\ {MaxChats, MaxInvites, MaxTicks, MaxCrashes, MaxDrops, MaxConns, MaxGen} \subseteq Nat
  /\ MaxGen >= 1  \* the generation that a session starts in

VARIABLES
  sess,     \* the session of every process
  inbox,    \* what is in flight to every open end of a connection
  broken,   \* connections that no longer deliver anything
  chats, invites, ticks, crashes, drops, conns  \* how many of each there have been

counters == <<chats, invites, ticks, crashes, drops, conns>>
vars == <<sess, inbox, broken, counters>>

Founders == 1 .. N
Node == Founders \union Joiners

(* A process whose event loop runs: in the session, or waiting for a welcome. *)
Listens(s) == s.status \in {"up", "idle"}

OtherEnd(c, n) == IF c[1] = n THEN c[2] ELSE c[1]

-----------------------------------------------------------------------------
(***************************************************************************)
(* Participant 1 has started the session and the others have joined one    *)
(* after the other; the sync since then has left the last join in the log. *)
(***************************************************************************)
FirstConn(i, j) == IF i < j THEN <<i, j, 0>> ELSE <<j, i, 0>>

LastJoin == ValueOf("JOIN", 1, N, N)

InitSession(n) ==
  [self |-> n,
   alist |-> [id \in Founders |-> IF id = n THEN NoPeer ELSE FirstConn(id, n)],
   desc |-> [id \in Founders |-> id], adefer |-> <<>>,
   live_count |-> N, proposer |-> 1, ballot |-> [id |-> 1, gen |-> 1], gen_high |-> 1,
   prep |-> NoPrep,
   ilist |-> [i \in {N} |-> [DecreeInstance([id |-> 1, gen |-> 1], LastJoin) EXCEPT
                               !.committed = TRUE, !.cached = TRUE, !.learned = TRUE]],
   ibase |-> N, ihole |-> N + 1, istart |-> N, idefer |-> <<>>,
   rcache |-> {ReqId(LastJoin)}, req_id |-> IF n = 1 THEN N ELSE 0,
   clist |-> <<>>, sync |-> NoSync, sync_id |-> IF n = 1 THEN 1 ELSE 0,
   sync_prev |-> IF n = 1 THEN N ELSE 0,
   first |-> N, log |-> <<>>, out |-> <<>>, closed |-> {}, status |-> "up"]

(* A process without a session: why, and what it learned in the one it had. *)
NoSession(status, first, log) ==
  [status |-> status, first |-> first, log |-> log, gen_high |-> 0, clist |-> <<>>,
   out |-> <<>>, closed |-> {}]

Init ==
  /\ sess = [n \in Node |-> IF n \in Founders THEN InitSession(n) ELSE NoSession("idle", 0, <<>>)]
  /\ inbox = [e \in UNION {{<<FirstConn(i, n), n>> : i \in Founders \ {n}} : n \in Founders} |-> <<>>]
  /\ broken = {}
  /\ chats = 0 /\ invites = 0 /\ ticks = 0 /\ crashes = 0 /\ drops = 0 /\ conns = 0

-----------------------------------------------------------------------------
(* paxos.c *)

(* proposer_force_kill; it fails, changing nothing, for an unknown peer. *)
ProposerForceKill(s, source) ==
  LET offenders == {id \in Members(s) : s.alist[id] = source}
  IN  IF offenders = {} THEN s ELSE DecreePart(s, Min(offenders), TRUE)

(* Mutant: the acceptor keeps its destroyed peer. *)
PaxosDropConnectionKeeps(s, source) ==
  LET lost == Min({id \in Members(s) : s.alist[id] = source})
      t == [s EXCEPT !.live_count = @ - 1]
  IN  IF \A id \in Members(s) : s.alist[id] # source THEN s
      ELSE IF IsProposer(s) THEN DecreePart(t, lost, FALSE)
      ELSE t

(* paxos_drop_connection; an unattached peer is only forgotten. *)
PaxosDropConnection(s, source) ==
  LET lost == Min({id \in Members(s) : s.alist[id] = source})
      t == [s EXCEPT !.alist[lost] = NoPeer, !.live_count = @ - 1]
      elected == ResetProposer(t)
  IN  IF \A id \in Members(s) : s.alist[id] # source THEN s
      ELSE IF IsProposer(s) THEN DecreePart(t, lost, FALSE)
      ELSE IF lost # s.proposer THEN t
      ELSE IF IsProposer(elected) THEN ProposerPrepare(elected, TRUE)
      ELSE elected

(* proposer_dispatch; the refuse case falls through to the reject case. *)
ProposerDispatch(s, source, m) ==
  CASE m.op \in {"PREPARE", "DECREE", "COMMIT", "RECOMMIT", "WELCOME", "SYNC", "TRUNCATE"} ->
         ProposerForceKill(s, source)
    [] m.op = "PROMISE"  -> ProposerAckPromise(s, m)
    [] m.op = "ACCEPT"   -> ProposerAckAccept(s, m)
    [] m.op = "REQUEST"  -> ProposerAckRequest(s, m)
    [] m.op = "RETRIEVE" -> PaxosAckRetrieve(s, m)
    [] m.op = "RESEND"   -> PaxosAckResend(s, m)
    [] m.op = "HELLO"    -> PaxosAckHello(s, source, m)
    [] m.op = "REDIRECT" -> ProposerAckRedirect(s, m)
    [] m.op = "REFUSE"   -> LET t == ProposerForceKill(s, source)
                            IN  IF Up(t) THEN ProposerAckReject(t, m) ELSE t
    [] m.op = "REJECT"   -> ProposerAckReject(s, m)
    [] m.op = "RETRY"    -> ProposerAckRetry(s, m)
    [] m.op = "LAST"     -> ProposerAckLast(s, m)

AcceptorDispatch(s, source, m) ==
  CASE m.op = "PREPARE"  -> AcceptorAckPrepare(s, source, m)
    [] m.op = "DECREE"   -> AcceptorAckDecree(s, m)
    [] m.op = "COMMIT"   -> AcceptorAckCommit(s, m)
    [] m.op = "REQUEST"  -> AcceptorAckRequest(s, source, m)
    [] m.op = "RETRIEVE" -> PaxosAckRetrieve(s, m)
    [] m.op = "RESEND"   -> PaxosAckResend(s, m)
    [] m.op = "HELLO"    -> PaxosAckHello(s, source, m)
    [] m.op = "REFUSE"   -> AcceptorAckRefuse(s, m)
    [] m.op = "RECOMMIT" -> AcceptorAckRecommit(s, m)
    [] m.op = "SYNC"     -> AcceptorAckSync(s, m)
    [] m.op = "TRUNCATE" -> AcceptorAckTruncate(s, m)
    [] m.op \in {"PROMISE", "ACCEPT", "WELCOME", "REDIRECT", "REJECT", "RETRY", "LAST"} -> s

(* paxos_dispatch; without a session only a welcome is heard. *)
PaxosDispatch(s, source, m) ==
  IF ~Up(s) THEN IF m.op = "WELCOME" THEN AcceptorAckWelcome(source, m) ELSE s
  ELSE IF IsProposer(s) THEN ProposerDispatch(s, source, m)
  ELSE AcceptorDispatch(s, source, m)

-----------------------------------------------------------------------------
(* One turn of a participant's event loop *)

(***************************************************************************)
(* The ends that stay open when participant n goes from a network of       *)
(* `ends' on with session t.  A process that left the session ignores what *)
(* it reads, so its end of a connection is kept only for the other's sake. *)
(***************************************************************************)
OpenEnds(ends, n, t) ==
  LET open == {e \in ends : e[2] = n => Listens(t) /\ e[1] \notin t.closed}
  IN  {e \in open : \/ e[2] = n \/ Listens(sess[e[2]])
                    \/ <<e[1], OtherEnd(e[1], e[2])>> \in open}

(***************************************************************************)
(* The ends that n reads again.  After an end of file the loop no longer   *)
(* watches a connection, but a hello that waits in adefer may keep it and  *)
(* hand it to an acceptor; a write to it then sets the watch once more.    *)
(***************************************************************************)
Rewatched(ends, n, t) ==
  IF ~Up(t) THEN {}
  ELSE {e \in {<<t.alist[id], n>> : id \in Connected(t)} \ ends : Sent(t, e[1]) # <<>>}

(***************************************************************************)
(* The handler of process n has turned its session into t; net is the      *)
(* network once n's input is taken off it.  MaxGen is a bound on what is   *)
(* explored: a turn that would go beyond it is not taken.  (The            *)
(* quantifiers over single values make TLC evaluate each once.)            *)
(***************************************************************************)
Step(n, session, network) ==
  \E t \in {session}, net \in {network} :
  \E ends \in {OpenEnds(DOMAIN net, n, t)} :
    LET reaches(e) == /\ Up(t) /\ e[2] # n /\ <<e[1], n>> \in ends
                      /\ e[1] \notin broken
                      /\ Listens(sess[e[2]])
        again == Rewatched(ends, n, t)
    IN  /\ t.gen_high <= MaxGen
        /\ sess' = [sess EXCEPT ![n] =
             IF Up(t) THEN [t EXCEPT !.out = <<>>, !.closed = {}]
             ELSE NoSession(t.status, t.first, t.log)]
        /\ inbox' = [e \in ends \union again |->
                       IF e \in again THEN <<>>
                       ELSE IF reaches(e) THEN net[e] \o Sent(t, e[1])
                       ELSE net[e]]
        /\ broken' = {c \in broken : \E e \in ends : e[1] = c}

(* paxos_peer_read: dispatch the next message of connection c. *)
Deliver(n, c) ==
  /\ Listens(sess[n])
  /\ <<c, n>> \in DOMAIN inbox
  /\ inbox[<<c, n>>] # <<>>
  /\ Step(n, PaxosDispatch(sess[n], c, Head(inbox[<<c, n>>])),
          [inbox EXCEPT ![<<c, n>>] = Tail(@)])
  /\ UNCHANGED counters

(* paxos_peer_read: an end of file, whatever was still in flight. *)
Eof(n, c) ==
  /\ Listens(sess[n])
  /\ <<c, n>> \in DOMAIN inbox
  /\ c \in broken \/ <<c, OtherEnd(c, n)>> \notin DOMAIN inbox
  /\ Step(n, IF Up(sess[n]) THEN PaxosDropConnection(sess[n], c) ELSE sess[n],
          [e \in DOMAIN inbox \ {<<c, n>>} |-> inbox[e]])
  /\ UNCHANGED counters

(* motmot_send: the client requests a chat. *)
Chat(n) ==
  /\ Up(sess[n])
  /\ chats < MaxChats
  /\ chats' = chats + 1
  /\ Step(n, PaxosRequest(sess[n], "CHAT", 0), inbox)
  /\ UNCHANGED <<invites, ticks, crashes, drops, conns>>

(* motmot_invite: the client asks to let process j join. *)
Invite(n, j) ==
  /\ Up(sess[n])
  /\ sess[j].status = "idle"
  /\ invites < MaxInvites
  /\ invites' = invites + 1
  /\ Step(n, PaxosRequest(sess[n], "JOIN", j), inbox)
  /\ UNCHANGED <<chats, ticks, crashes, drops, conns>>

(***************************************************************************)
(* paxos_sync, the timer of a session.  It goes on when the session is     *)
(* over, and then dereferences the session it does not find.               *)
(***************************************************************************)
Tick(n) ==
  /\ ticks < MaxTicks
  /\ ticks' = ticks + 1
  /\ \/ /\ Up(sess[n])
        /\ IsProposer(sess[n])
        /\ ProposerSync(sess[n]) # sess[n]
        /\ Step(n, ProposerSync(sess[n]), inbox)
     \/ /\ sess[n].status = "left"
        /\ Step(n, [sess[n] EXCEPT !.status = "tick without a session"], inbox)
  /\ UNCHANGED <<chats, invites, crashes, drops, conns>>

(* The client could not connect to the acceptor of the k-th continuation. *)
ConnectFails(n, k) ==
  /\ Up(sess[n])
  /\ k \in DOMAIN sess[n].clist
  /\ Step(n, Continue([sess[n] EXCEPT !.clist = RemoveAt(@, k)], sess[n].clist[k], NoPeer), inbox)
  /\ UNCHANGED counters

(* The client connected; that takes a process that listens. *)
ConnectSucceeds(n, k) ==
  LET to == sess[n].desc[sess[n].clist[k].acc]
      c  == <<n, to, conns + 1>>
      net == [e \in DOMAIN inbox \union {<<c, n>>, <<c, to>>} |->
                IF e[1] = c THEN <<>> ELSE inbox[e]]
  IN  /\ Up(sess[n])
      /\ k \in DOMAIN sess[n].clist
      /\ sess[to].status \in {"up", "idle", "left"}
      /\ conns < MaxConns
      /\ conns' = conns + 1
      /\ Step(n, Continue([sess[n] EXCEPT !.clist = RemoveAt(@, k)], sess[n].clist[k], c), net)
      /\ UNCHANGED <<chats, invites, ticks, crashes, drops>>

(* A process crashes, or its client disconnects. *)
Crash(n) ==
  /\ Up(sess[n])
  /\ crashes < MaxCrashes
  /\ crashes' = crashes + 1
  /\ Step(n, [sess[n] EXCEPT !.status = "crashed"], inbox)
  /\ UNCHANGED <<chats, invites, ticks, drops, conns>>

(* A connection between two live processes breaks. *)
Break(c) ==
  /\ c \notin broken
  /\ \A i \in {c[1], c[2]} : <<c, i>> \in DOMAIN inbox
  /\ drops < MaxDrops
  /\ drops' = drops + 1
  /\ broken' = broken \union {c}
  /\ UNCHANGED <<sess, inbox, chats, invites, ticks, crashes, conns>>

-----------------------------------------------------------------------------
Conns == {e[1] : e \in DOMAIN inbox}

Next ==
  \/ \E n \in Node, c \in Conns : Deliver(n, c)
  \/ \E n \in Node, c \in Conns : Eof(n, c)
  \/ \E n \in Talkers : Chat(n)
  \/ \E n \in Inviters, j \in Joiners : Invite(n, j)
  \/ \E n \in Node : Tick(n)
  \/ \E n \in Node : \E k \in DOMAIN sess[n].clist : ConnectFails(n, k)
  \/ \E n \in Node : \E k \in DOMAIN sess[n].clist : ConnectSucceeds(n, k)
  \/ \E n \in Crashers : Crash(n)
  \/ \E c \in Conns : Break(c)

Spec == Init /\ [][Next]_vars

(***************************************************************************)
(* The event loops keep running: what has arrived is read, every process   *)
(* notices its ends of file, and the client calls back after an attempt to *)
(* connect.                                                                *)
(***************************************************************************)
Fairness ==
  /\ WF_vars(\E n \in Node, c \in Conns : Deliver(n, c))
  /\ \A n \in Node : WF_vars(\E c \in Conns : Eof(n, c))
  /\ WF_vars(\E n \in Node : \E k \in DOMAIN sess[n].clist :
               ConnectFails(n, k) \/ ConnectSucceeds(n, k))

FairSpec == Spec /\ Fairness

-----------------------------------------------------------------------------
UpNodes == {n \in Node : Up(sess[n])}

(* The process that s knows acceptor id to be, also once it is parted. *)
Process(s, id) == IF id \in DOMAIN s.desc THEN s.desc[id] ELSE 0

IsBallot(b) == b.id \in Nat /\ b.gen \in 1 .. MaxGen

(***************************************************************************)
(* The shape of a session: the proposer is a member, only a proposer       *)
(* prepares, and it does so under a ballot of its own that is the newest   *)
(* it has seen; a descriptor refers to an open connection of ours.         *)
(***************************************************************************)
TypeOK ==
  /\ \A n \in UpNodes : LET s == sess[n] IN
       /\ s.self \in Members(s) /\ s.proposer \in Members(s)
       /\ Members(s) \subseteq DOMAIN s.desc
       /\ s.desc[s.self] = n /\ \A id \in DOMAIN s.desc : s.desc[id] \in Node
       /\ s.alist[s.self] = NoPeer
       /\ \A id \in Connected(s) : <<s.alist[id], n>> \in DOMAIN inbox
       /\ IsBallot(s.ballot)
       /\ s.prep # NoPrep =>
            /\ IsProposer(s)
            /\ s.prep.bal = [id |-> s.self, gen |-> s.gen_high]
       /\ s.out = <<>> /\ s.closed = {}
  /\ broken \subseteq Conns

(***************************************************************************)
(* The paper's Total Ordering (paper.tex:97-98): two participants, of      *)
(* which one may have joined later and either may have left, have learned  *)
(* the same value in every instance that both have learned.                *)
(***************************************************************************)
LogsAgree ==
  \A n, m \in Node :
    \A k \in DOMAIN sess[n].log :
      LET j == sess[n].first + k - sess[m].first
      IN  j \in DOMAIN sess[m].log => sess[n].log[k] = sess[m].log[j]

(* The decree of instance i as participant n has settled it, if it has. *)
Settled(n, i) ==
  IF Up(sess[n])
  THEN {sess[n].ilist[j].val : j \in {j \in DOMAIN sess[n].ilist :
                                       j = i /\ sess[n].ilist[j].committed}}
  ELSE {sess[n].log[k] : k \in {k \in DOMAIN sess[n].log : k + sess[n].first = i}}

(***************************************************************************)
(* No two participants have committed different decrees in one instance,   *)
(* whether or not those before it have been learned, and whether or not    *)
(* the participants are still in the session.                              *)
(***************************************************************************)
CommitsAgree ==
  \A n, m \in Node : \A i \in UNION {DOMAIN sess[k].ilist : k \in UpNodes} :
    Cardinality(Settled(n, i) \union Settled(m, i)) <= 1

(***************************************************************************)
(* A ballot decrees one value per instance: whoever holds a vote of the    *)
(* ballot in an instance holds the same one.                               *)
(***************************************************************************)
OneValuePerBallot ==
  \A n, m \in UpNodes :
    \A i \in DOMAIN sess[n].ilist \intersect DOMAIN sess[m].ilist :
      sess[n].ilist[i].bal = sess[m].ilist[i].bal =>
        sess[n].ilist[i].val = sess[m].ilist[i].val

(***************************************************************************)
(* Who may have voted for the decree that n holds in instance i: whoever   *)
(* has it, has voted in a later ballot since, or is gone, unless the       *)
(* decree is about its going.                                              *)
(***************************************************************************)
Voters(n, i) ==
  LET inst == sess[n].ilist[i]
      voted(vote) == \/ BallotCompare(vote.bal, inst.bal) > 0
                     \/ vote.val = inst.val /\ (vote.bal = inst.bal \/ vote.committed)
  IN  {m \in Node : IF Up(sess[m])
                    THEN i \in DOMAIN sess[m].ilist /\ voted(sess[m].ilist[i])
                    ELSE inst.val.kind = "PART" => m # Process(sess[n], inst.val.extra)}

(***************************************************************************)
(* A proposer counts no vote that was not cast, and none twice, so that    *)
(* proposer_commit is "only called when we receive a majority vote"        *)
(* (paxos_proposer.c:387).                                                 *)
(***************************************************************************)
VotesCounted ==
  \A n \in UpNodes : IsProposer(sess[n]) =>
    \A i \in DOMAIN sess[n].ilist : sess[n].ilist[i].votes <= Cardinality(Voters(n, i))

Prepared(s) == IsProposer(s) /\ s.prep = NoPrep

(***************************************************************************)
(* "Once a proposer successfully prepares, it remains the proposer until   *)
(* it drops out of the system" (paxos_proposer.c:43-46), and under the     *)
(* ballot it prepared.                                                     *)
(***************************************************************************)
PreparedProposerStays ==
  [][\A n \in UpNodes : Prepared(sess[n]) /\ Up(sess'[n]) =>
       /\ Prepared(sess'[n])
       /\ sess'[n].ballot = sess[n].ballot]_vars

(***************************************************************************)
(* "We can check whether we are a prepared proposer by simply checking     *)
(* whether pax->prep is NULL" (paxos_proposer.c:56-58): whoever thinks it  *)
(* proposes and is not preparing decrees under a ballot of its own, however*)
(* hellos, redirects and connect callbacks cross.                          *)
(***************************************************************************)
PreparedOwnsBallot ==
  \A n \in UpNodes : Prepared(sess[n]) => sess[n].ballot.id = sess[n].self

(***************************************************************************)
(* No proposer is sent what only a proposer sends: paxos.c:412-417 says    *)
(* that this "should not actually be possible".  It is, once connections   *)
(* are made again: a decree may outlive the proposer that sent it.         *)
(***************************************************************************)
OneProposer ==
  \A e \in DOMAIN inbox :
    inbox[e] # <<>> /\ Up(sess[e[2]]) /\ IsProposer(sess[e[2]]) =>
      Head(inbox[e]).op \notin {"PREPARE", "DECREE", "COMMIT", "RECOMMIT"}

(***************************************************************************)
(* live_count is the "number of acceptors we think are live"               *)
(* (session.h:49): ourselves and those we have a connection to.  A connect *)
(* callback that crosses with a hello breaks this (paxos_reconnect.c:444). *)
(***************************************************************************)
LiveCountAccurate ==
  \A n \in UpNodes : sess[n].live_count = Cardinality(Connected(sess[n])) + 1

(***************************************************************************)
(* A promise holds "in perpetuity" (paxos_acceptor.c:42): the ballot of a  *)
(* participant never goes back to one below what it has promised.  The     *)
(* hello of a proposer that reconnects takes it back (paxos_greet.c:359).  *)
(***************************************************************************)
PromisesKept ==
  [][\A n \in UpNodes :
       Up(sess'[n]) => BallotCompare(sess'[n].ballot, sess[n].ballot) >= 0]_vars

(***************************************************************************)
(* The invariant of paxos_commit, in a log that prepares and promises also *)
(* rearrange: what is below the hole is learned, nothing else is, the hole *)
(* cannot be learned yet, and istart is at the hole or right before it.    *)
(***************************************************************************)
LogsWellFormed ==
  \A n \in UpNodes : LET s == sess[n] IN
    /\ s.istart = NextIstart(s.ilist, s.ihole)
    /\ \A i \in DOMAIN s.ilist : s.ilist[i].learned <=> i < s.ihole
    /\ \A i \in s.ibase .. (s.ihole - 1) : Ready(s.ilist, i)
    /\ ~Ready(s.ilist, s.ihole)

(* No request is learned in two instances. *)
RequestsOnce ==
  \A n \in Node : \A i, j \in DOMAIN sess[n].log :
    SameDecree(sess[n].log[i], sess[n].log[j]) => i = j

(* Where connections break only because a process has gone, only those     *)
(* that are gone are parted or killed.                                     *)
OnlyTheGoneAreParted ==
  \A n \in UpNodes : \A id \in DOMAIN sess[n].desc \ Members(sess[n]) : ~Up(sess[Process(sess[n], id)])

Statuses == {sess[n].status : n \in Node}

(***************************************************************************)
(* The merge of a promise always finds "the closest instance with lesser   *)
(* or equal instance number" (paxos_proposer.c:213-218).                   *)
(***************************************************************************)
PromisesMerge == "promise below the iterator" \notin Statuses

(***************************************************************************)
(* Whoever a redirect names outranks the one that prepares, "because of    *)
(* the consistency of proposer ranks" (paxos_reconnect.c:77-81).  A        *)
(* preparer that has missed the prepare of a predecessor repeats its       *)
(* generation, and an acceptor that promised then names the preparer.      *)
(***************************************************************************)
RedirectsOutrank == "redirect to a lower rank" \notin Statuses

(* No other assertion fails and no NULL pointer is dereferenced. *)
NoOtherAbort ==
  Statuses \subseteq {"up", "idle", "left", "crashed", "promise below the iterator"}

(* How a session can fail in paxos_sync.c (proposer_ack_last, proposer_truncate). *)
SyncFaults == {"answer to no sync", "sync below the base"}

(***************************************************************************)
(* An answer to the latest sync comes in only while that sync is under     *)
(* way, so that proposer_ack_last finds pax->sync (paxos_sync.c:151), and  *)
(* the least answer is not below the base, as proposer_truncate asserts    *)
(* (paxos_sync.c:213): whichever syncs were given up after                 *)
(* SYNC_SKIP_THRESH ticks, answered late or left behind by a proposer that *)
(* is gone.                                                                *)
(***************************************************************************)
SyncsHold == Statuses \intersect SyncFaults = {}

(***************************************************************************)
(* "Command all acceptors to drop the contiguous prefix of Paxos instances *)
(* for which every participant has learned" (paxos_sync.c:193-195): nobody *)
(* has dropped, or is told to drop, what a participant has not learned,    *)
(* whoever joined or left during the sync.                                 *)
(***************************************************************************)
TruncatesLearned ==
  \A n \in UpNodes :
    /\ \A m \in UpNodes : sess[m].ibase < sess[n].ihole
    /\ \A e \in DOMAIN inbox : \A k \in DOMAIN inbox[e] :
         inbox[e][k].op = "TRUNCATE" => inbox[e][k].body < sess[n].ihole

(***************************************************************************)
(* "The first instance in the ilist should always have the instance number *)
(* pax->ibase" (paxos_greet.c:188-189), and it is learned, so that a       *)
(* promise and a welcome always have an instance to start from.            *)
(***************************************************************************)
LogStartsAtBase ==
  \A n \in UpNodes : LET s == sess[n] IN
    /\ s.ibase \in DOMAIN s.ilist /\ \A i \in DOMAIN s.ilist : i >= s.ibase
    /\ s.ibase < s.ihole

(***************************************************************************)
(* The acceptor list is a function of what was learned: participants that  *)
(* have learned the same instances have the same acceptors, with the same  *)
(* descriptors, whether they learned a join or were welcomed.              *)
(***************************************************************************)
MembersAgree ==
  \A n, m \in UpNodes : sess[n].ihole = sess[m].ihole =>
    /\ Members(sess[n]) = Members(sess[m])
    /\ \A id \in Members(sess[n]) : sess[n].desc[id] = sess[m].desc[id]

(***************************************************************************)
(* The connection of an acceptor leads to the process that the acceptor    *)
(* stands for, however it was attached.                                    *)
(***************************************************************************)
PeersAreAcceptors ==
  \A n \in UpNodes : \A id \in Connected(sess[n]) :
    OtherEnd(sess[n].alist[id], n) = sess[n].desc[id]

(***************************************************************************)
(* paxos_peer_read goes on with the next message of the same peer when a   *)
(* handler returns (paxos_io.c:121): no handler destroys the peer that it  *)
(* was called for, unless the session ends.                                *)
(***************************************************************************)
PeerOutlivesHandler ==
  \A e \in DOMAIN inbox : inbox[e] # <<>> /\ Up(sess[e[2]]) =>
    \E t \in {PaxosDispatch(sess[e[2]], e[1], Head(inbox[e]))} :
      Up(t) => e[1] \notin t.closed

(***************************************************************************)
(* "The new acceptor can issue retrieves to obtain any necessary requests" *)
(* (paxos_greet.c:36-37): whoever is asked knows the one that asks.        *)
(***************************************************************************)
RetrievesAnswered == "resend to a stranger" \notin Statuses

(* Whoever is learned to have sent a chat is a member (paxos_learn.c:159). *)
ChatsFromMembers == "chat from a stranger" \notin Statuses

(***************************************************************************)
(* The paper's Reliability (paper.tex:94-96): "any message recorded in the *)
(* chat history is guaranteed to be delivered to the rest of the session". *)
(* However much one participant has learned, those that stay learn too.    *)
(***************************************************************************)
Reliability ==
  []<>(\A n \in Node, m \in UpNodes :
         sess[m].first + Len(sess[m].log) >= sess[n].first + Len(sess[n].log))

(* A chat of a client that stays is learned by everyone that holds it. *)
ChatsLearned ==
  []<>(\A n \in UpNodes : \A r \in sess[n].rcache \ {ReqId(LastJoin)} :
         Up(sess[Process(sess[n], r[1])]) => \E i \in DOMAIN sess[n].log : ReqId(sess[n].log[i]) = r)

(***************************************************************************)
(* Whoever is learned to have joined gets its welcome and learns what the  *)
(* others learn, or is parted again: no acceptor is left that knows of no  *)
(* session, and none that stays behind.                                    *)
(***************************************************************************)
NewcomersGetIn ==
  []<>(\A n \in UpNodes : \A id \in Members(sess[n]) :
         LET t == sess[Process(sess[n], id)]
         IN  /\ t.status # "idle"
             /\ Up(t) => t.first + Len(t.log) >= sess[n].first + Len(sess[n].log))

(* A participant that crashed is parted by all that remain. *)
CrashedAreParted ==
  []<>(\A n \in UpNodes : \A id \in Members(sess[n]) :
         sess[Process(sess[n], id)].status # "crashed")

=============================================================================
