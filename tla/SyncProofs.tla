------------------------------- MODULE SyncProofs ------------------------------
(***************************************************************************)
(* Truncation is safe: while nobody connects anew and no connection        *)
(* between live processes breaks, nobody drops, or is told to drop, an     *)
(* instance that a participant has not learned, for every number of        *)
(* founders and whoever crashes.                                           *)
(*                                                                         *)
(* What the code outside paxos_sync.c leaves alone is in SessionHandlers   *)
(* (Calm).  Here are what the messages of a sync mean (SyncInv), and that  *)
(* every step keeps it.                                                    *)
(***************************************************************************)
EXTENDS SessionProofs

-----------------------------------------------------------------------------
(* What the messages of a sync mean *)

(* A message m on its way from w to n.  A sync is of its sender, whom its reader then
   takes for the proposer (Follows), so that the answer goes to who has asked; an answer
   is of a participant that has learned more; whoever is told to truncate, everybody has
   learned more. *)
Told(n, w, m) ==
  /\ m.op = "PREPARE" => m.bal.id = w
  /\ m.op = "SYNC" =>
       m.bal.id = w /\ m.inum \in Nat /\ (w \in Alive => m.inum <= sess[w].sync_id)
  /\ m.op = "LAST" =>
       /\ m.body \in Nat \ {0} /\ m.inum \in Nat
       /\ n \in Alive => m.inum <= sess[n].sync_id
       /\ w \in Alive => m.body < sess[w].ihole
  /\ m.op = "TRUNCATE" => m.body \in Nat /\ \A q \in Alive : m.body < sess[q].ihole

(* The k-th message of end e is the question of the sync of p to r, or its answer. *)
Asks(p, r, e, k) ==
  /\ e \in DOMAIN inbox /\ e[1] = FirstConn(p, r) /\ k \in 1 .. Len(inbox[e])
  /\ inbox[e][k].inum = sess[p].sync_id
  /\ \/ inbox[e][k].op = "SYNC" /\ e[2] = r
     \/ inbox[e][k].op = "LAST" /\ e[2] = p

(* Who has answered is not asked again, and nobody is asked, or answers, twice. *)
Pending(p, r, done) ==
  /\ r \in done => \A e, k : ~Asks(p, r, e, k)
  /\ \A e, f, k, j : Asks(p, r, e, k) /\ Asks(p, r, f, j) => e = f /\ k = j

SyncFields == {"total", "acks", "skips", "last"}

(* The answers that the sync of p counts are those of the participants `done' of those
   that were `asked', and the least is below all of their holes. *)
Counts(s, asked, done) ==
  /\ DOMAIN s.sync = SyncFields
  /\ IsFiniteSet(asked) /\ done \subseteq asked /\ Connected(s) \subseteq asked
  /\ s.sync.total = Cardinality(asked) + 1 /\ s.sync.acks = Cardinality(done) + 1
  /\ done = {} => s.sync.last = 0
  /\ done # {} => s.sync.last \in Nat \ {0}
  /\ \A r \in done \intersect Alive : s.sync.last < sess[r].ihole

Round(p, asked, done) ==
  Counts(sess[p], asked, done) /\ \A r \in Connected(sess[p]) : Pending(p, r, done)

(* What holds of the base of a log and of the sync of a session. *)
Based(s) ==
  /\ Follows(s) /\ s.sync_id \in Nat
  /\ s.ibase \in Nat /\ \A q \in Alive : s.ibase < sess[q].ihole

(* Only the proposer has a sync, nobody is asked or answers for one that is over, and what
   has been answered or counted is not below the base. *)
Awaits(p) ==
  /\ sess[p].proposer # p => sess[p].sync = NoSync
  /\ \A r \in Connected(sess[p]) : \A e, k : Asks(p, r, e, k) =>
       /\ sess[p].sync # NoSync
       /\ inbox[e][k].op = "LAST" => inbox[e][k].body >= sess[p].ibase
  /\ sess[p].sync # NoSync => sess[p].sync.last = 0 \/ sess[p].sync.last >= sess[p].ibase

(* The inductive invariant, for as long as no connection between live processes breaks
   either. *)
SyncInv ==
  /\ \A n \in Node : sess[n].status \notin SyncFaults
  /\ \A p \in Alive : Based(sess[p]) /\ Awaits(p)
  /\ \A e \in DOMAIN inbox : \A k \in 1 .. Len(inbox[e]) :
       Told(e[2], OtherEnd(e[1], e[2]), inbox[e][k])
  /\ \A p \in Alive : sess[p].sync # NoSync => \E asked, done : Round(p, asked, done)

(* Holes and the numbers of syncs are never taken back. *)
Grown ==
  /\ Alive' \subseteq Alive
  /\ \A p \in Alive' : /\ sess[p].ihole \in Nat /\ sess'[p].ihole \in Nat
                       /\ sess[p].ihole <= sess'[p].ihole
                       /\ sess[p].sync_id \in Nat /\ sess'[p].sync_id \in Nat
                       /\ sess[p].sync_id <= sess'[p].sync_id

(* So what was told stays true. *)
LEMMA ToldOn ==
  ASSUME Grown, NEW n, NEW w, NEW m, Told(n, w, m) PROVE Told(n, w, m)'
BY DEF Grown, Told

(* A question or an answer that is there after a turn, and was not written in it, was
   there before. *)
LEMMA AskedBefore ==
  ASSUME NEW n, NEW t, NEW z, Turn(n, t, z), NEW p, sess'[p].sync_id = sess[p].sync_id,
         NEW r, NEW e, NEW k, Asks(p, r, e, k)', ~NewAt(n, t, e, k)
  PROVE  Asks(p, r, e, k + Shift(z, e))
<1>1. e \in DOMAIN inbox' /\ k \in 1 .. Len(inbox'[e])
  BY DEF Asks
<1>2. OldAt(z, e, k)
  BY <1>1 DEF Turn
<1> QED BY <1>2 DEF OldAt, Asks

(* The round of p goes on for r when nothing of it was written. *)
LEMMA PendingOn ==
  ASSUME NEW n, NEW t, NEW z, Turn(n, t, z), NEW p, sess'[p].sync_id = sess[p].sync_id,
         NEW r, NEW done, Pending(p, r, done),
         \A e, k : Asks(p, r, e, k)' => ~NewAt(n, t, e, k)
  PROVE  Pending(p, r, done)'
<1>1. \A e, k : Asks(p, r, e, k)' => Asks(p, r, e, k + Shift(z, e))
  BY AskedBefore
<1>2. ASSUME NEW e, NEW f, NEW k, NEW j, Asks(p, r, e, k)', Asks(p, r, f, j)' PROVE e = f /\ k = j
  <2>1. e = f /\ k + Shift(z, e) = j + Shift(z, f)
    BY <1>1, <1>2 DEF Pending
  <2>2. k \in Int /\ j \in Int
    BY <1>2 DEF Asks
  <2> QED BY <2>1, <2>2 DEF Shift
<1>3. ASSUME r \in done, NEW e, NEW k, Asks(p, r, e, k)' PROVE FALSE
  BY <1>1, <1>3 DEF Pending
<1> QED BY <1>2, <1>3 DEF Pending

(* And the whole round when p has nothing to do with it. *)
LEMMA RoundOn ==
  ASSUME Grown, NEW n, NEW t, NEW z, Turn(n, t, z), NEW p,
         sess'[p].sync = sess[p].sync, sess'[p].sync_id = sess[p].sync_id,
         Connected(sess'[p]) \subseteq Connected(sess[p]),
         NEW asked, NEW done, Round(p, asked, done),
         \A r \in Connected(sess[p]) : \A e, k : Asks(p, r, e, k)' => ~NewAt(n, t, e, k)
  PROVE  Round(p, asked, done)'
<1>1. \A r \in Connected(sess'[p]) : Pending(p, r, done)'
  BY PendingOn DEF Round
<1>2. Counts(sess[p], asked, done)'
  <2>1. PICK s, u : s = sess[p] /\ u = sess'[p]
    OBVIOUS
  <2>2. Counts(s, asked, done) /\ u.sync = s.sync /\ Connected(u) \subseteq Connected(s)
    BY <2>1 DEF Round
  <2>3. ASSUME NEW r \in done, r \in Alive' PROVE u.sync.last < sess'[r].ihole
    <3>1. r \in Alive /\ sess[r].ihole \in Nat /\ sess'[r].ihole \in Nat /\ sess[r].ihole <= sess'[r].ihole
      BY <2>3 DEF Grown
    <3>2. s.sync.last < sess[r].ihole /\ s.sync.last \in Nat
      BY <2>2, <2>3, <3>1 DEF Counts
    <3> QED BY <2>2, <3>1, <3>2
  <2> QED BY <2>1, <2>2, <2>3 DEF Counts
<1> QED BY <1>1, <1>2 DEF Round

(* The session may go on from s as t. *)
Ahead(s, t) ==
  /\ t.ihole \in Nat /\ s.ihole <= t.ihole /\ t.sync_id \in Nat /\ s.sync_id <= t.sync_id
  /\ Follows(t)
  /\ t.ibase \in Nat /\ (t.ibase = s.ibase \/ \A q \in Alive : t.ibase < sess[q].ihole)

(* What lies ahead of one session lies ahead of all. *)
LEMMA Grows ==
  ASSUME Inv, SyncInv, drops = 0, NEW n \in Node, NEW t, NEW z, Turn(n, t, z),
         Up(t) => Ahead(sess[n], t)
  PROVE  Grown
<1> SUFFICES ASSUME NEW p \in Alive'
             PROVE  /\ sess[p].ihole \in Nat /\ sess'[p].ihole \in Nat
                    /\ sess[p].ihole <= sess'[p].ihole
                    /\ sess[p].sync_id \in Nat /\ sess'[p].sync_id \in Nat
                    /\ sess[p].sync_id <= sess'[p].sync_id
  BY DEF Turn, Grown
<1>1. p \in Alive /\ p \in Node /\ Up(sess'[p])
  BY DEF Turn, Alive, Node
<1>2. sess[p].ihole \in Nat /\ sess[p].sync_id \in Nat
  BY <1>1, AliveUp DEF SyncInv, Based
<1>3. CASE p = n
  BY <1>1, <1>2, <1>3 DEF Turn, Echoes, Ahead
<1>4. CASE p # n
  BY <1>1, <1>2, <1>4 DEF Turn
<1> QED BY <1>3, <1>4

(* A turn keeps the invariant when the session has done so, what it has written is true
   and the syncs go on. *)
LEMMA SyncSteps ==
  ASSUME Inv, SyncInv, drops = 0, NEW n \in Node, NEW t, NEW z, Turn(n, t, z),
         Up(t) => Ahead(sess[n], t),
         \A e \in DOMAIN inbox' : \A k \in 1 .. Len(inbox'[e]) :
           NewAt(n, t, e, k) => Told(e[2], OtherEnd(e[1], e[2]), inbox[e][k])',
         \A p \in Alive' : sess'[p].sync # NoSync => \E asked, done : Round(p, asked, done)',
         \A p \in Alive' : Awaits(p)', t.status \notin SyncFaults
  PROVE  SyncInv'
<1>1. Grown
  BY Grows
<1>2. ASSUME NEW p \in Alive' PROVE Based(sess[p])'
  <2>1. p \in Alive /\ p \in Node /\ Up(sess'[p]) /\ Based(sess[p])
    BY <1>2 DEF Turn, Alive, Node, SyncInv
  <2>2. PICK s, u : s = sess[p] /\ u = sess'[p]
    OBVIOUS
  <2>3. Follows(u) /\ u.sync_id \in Nat /\ u.ibase \in Nat
        /\ (u.ibase = s.ibase \/ \A q \in Alive : u.ibase < sess[q].ihole)
    <3>1. CASE p = n
      BY <2>1, <2>2, <3>1 DEF Turn, Echoes, Ahead, Follows
    <3>2. CASE p # n
      BY <2>1, <2>2, <3>2 DEF Turn, Based
    <3> QED BY <3>1, <3>2
  <2>4. \A q \in Alive : u.ibase < sess[q].ihole
    BY <2>1, <2>2, <2>3 DEF Based
  <2>5. ASSUME NEW q \in Alive' PROVE u.ibase < sess'[q].ihole
    <3>1. q \in Alive /\ sess[q].ihole \in Nat /\ sess'[q].ihole \in Nat /\ sess[q].ihole <= sess'[q].ihole
      BY <1>1, <2>5 DEF Grown
    <3>2. u.ibase < sess[q].ihole
      BY <2>4, <3>1
    <3> QED BY <2>3, <3>1, <3>2
  <2> QED BY <2>2, <2>3, <2>5 DEF Based, Follows
<1>3. ASSUME NEW e \in DOMAIN inbox', NEW k \in 1 .. Len(inbox'[e])
      PROVE  Told(e[2], OtherEnd(e[1], e[2]), inbox[e][k])'
  <2>1. CASE NewAt(n, t, e, k)
    BY <2>1, <1>3
  <2>2. CASE OldAt(z, e, k)
    <3>1. PICK r, w, m, j : r = e[2] /\ w = OtherEnd(e[1], e[2]) /\ m = inbox'[e][k] /\ j = k + Shift(z, e)
      OBVIOUS
    <3>2. e \in DOMAIN inbox /\ j \in 1 .. Len(inbox[e]) /\ m = inbox[e][j]
      BY <2>2, <3>1 DEF OldAt
    <3>3. Told(r, w, m)
      BY <3>1, <3>2 DEF SyncInv
    <3>4. Told(r, w, m)'
      BY <1>1, <3>3, ToldOn
    <3> QED BY <3>1, <3>4
  <2> QED BY <1>3, <2>1, <2>2 DEF Turn
<1>4. ASSUME NEW m \in Node PROVE sess'[m].status \notin SyncFaults
  BY DEF Turn, SyncInv
<1> QED BY <1>2, <1>3, <1>4 DEF SyncInv

(* What p awaits is still so when its sync has not begun or ended and what it counts is
   not below the base. *)
LEMMA AwaitsOn ==
  ASSUME NEW n, NEW t, NEW z, Turn(n, t, z), NEW p, Awaits(p),
         sess'[p].proposer # p => sess[p].proposer # p, sess'[p].sync_id = sess[p].sync_id,
         Connected(sess'[p]) \subseteq Connected(sess[p]),
         sess[p].sync = NoSync => sess'[p].sync = NoSync,
         sess[p].sync # NoSync =>
           /\ sess'[p].sync # NoSync /\ sess'[p].ibase = sess[p].ibase
           /\ sess'[p].sync.last = 0 \/ sess'[p].sync.last >= sess[p].ibase,
         \A r \in Connected(sess[p]) : \A e, k : Asks(p, r, e, k)' /\ NewAt(n, t, e, k) =>
           /\ sess[p].sync # NoSync
           /\ inbox'[e][k].op = "LAST" => inbox'[e][k].body >= sess[p].ibase
  PROVE  Awaits(p)'
<1>1. ASSUME NEW r \in Connected(sess'[p]), NEW e, NEW k, Asks(p, r, e, k)'
      PROVE  sess[p].sync # NoSync /\ (inbox'[e][k].op = "LAST" => inbox'[e][k].body >= sess[p].ibase)
  <2>1. CASE NewAt(n, t, e, k)
    BY <1>1, <2>1
  <2>2. CASE ~NewAt(n, t, e, k)
    <3>1. PICK j : j = k + Shift(z, e)
      OBVIOUS
    <3>2. Asks(p, r, e, j)
      BY <1>1, <2>2, <3>1, AskedBefore
    <3>3. inbox'[e][k] = inbox[e][j]
      BY <1>1, <2>2, <3>1 DEF Turn, OldAt, Asks
    <3> QED BY <1>1, <3>2, <3>3 DEF Awaits
  <2> QED BY <2>1, <2>2
<1> QED BY <1>1 DEF Awaits

(* Of another than n, when n writes nothing of a sync. *)
LEMMA OthersAwait ==
  ASSUME SyncInv, NEW n \in Node, NEW t, NEW z, Turn(n, t, z), NEW p \in Alive', p # n,
         \A e, k : NewAt(n, t, e, k) => inbox'[e][k].op \notin {"SYNC", "LAST"}
  PROVE  Awaits(p)'
<1>1. p \in Alive /\ p \in Node
  BY DEF Turn, Alive, Node
<1>2. sess'[p] = sess[p] /\ Awaits(p)
  BY <1>1 DEF Turn, SyncInv
<1>3. \A r, e, k : Asks(p, r, e, k)' => ~NewAt(n, t, e, k)
  BY DEF Asks
<1>4. sess[p].sync # NoSync => sess[p].sync.last = 0 \/ sess[p].sync.last >= sess[p].ibase
  BY <1>2 DEF Awaits
<1> QED BY <1>2, <1>3, <1>4, AwaitsOn

(* Of n, when it has done nothing with its sync. *)
LEMMA ItselfAwaits ==
  ASSUME SyncInv, NEW n \in Node, NEW t, NEW z, Turn(n, t, z), n \in Alive',
         t.proposer # n => sess[n].proposer # n, t.sync = sess[n].sync, t.sync_id = sess[n].sync_id,
         Connected(t) \subseteq Connected(sess[n]), t.ibase = sess[n].ibase \/ sess[n].sync = NoSync,
         \A r, e, k : Asks(n, r, e, k)' => ~NewAt(n, t, e, k)
  PROVE  Awaits(n)'
<1>1. n \in Alive /\ Up(sess'[n])
  BY DEF Turn, Alive
<1>2. Echoes(t, sess'[n]) /\ Awaits(n)
  BY <1>1 DEF Turn, SyncInv
<1>3. PICK s, u : s = sess[n] /\ u = sess'[n]
  OBVIOUS
<1>4. /\ u.proposer = t.proposer /\ u.sync = s.sync /\ u.sync_id = s.sync_id
      /\ Connected(u) \subseteq Connected(s) /\ (u.ibase = s.ibase \/ s.sync = NoSync)
  BY <1>2, <1>3 DEF Echoes, Connected, Members
<1>5. s.sync # NoSync => s.sync.last = 0 \/ s.sync.last >= s.ibase
  BY <1>2, <1>3 DEF Awaits
<1> QED BY <1>2, <1>3, <1>4, <1>5, AwaitsOn

(* The sync of p goes on when a turn changes nothing of it. *)
LEMMA RoundsOn ==
  ASSUME Inv, SyncInv, drops = 0, NEW n \in Node, NEW t, NEW z, Turn(n, t, z),
         Up(t) => Ahead(sess[n], t),
         NEW p \in Alive', sess'[p].sync # NoSync,
         p = n => /\ t.sync = sess[n].sync /\ t.sync_id = sess[n].sync_id
                  /\ Connected(t) \subseteq Connected(sess[n]),
         \A r \in Connected(sess[p]) : \A e, k : Asks(p, r, e, k)' => ~NewAt(n, t, e, k)
  PROVE  \E asked, done : Round(p, asked, done)'
<1>1. p \in Alive /\ p \in Node /\ Up(sess'[p])
  BY DEF Turn, Alive, Node
<1>2. sess'[p].sync = sess[p].sync /\ sess'[p].sync_id = sess[p].sync_id
      /\ Connected(sess'[p]) \subseteq Connected(sess[p])
  <2>1. CASE p = n
    BY <1>1, <2>1 DEF Turn, Echoes, Connected, Members
  <2>2. CASE p # n
    BY <1>1, <2>2 DEF Turn
  <2> QED BY <2>1, <2>2
<1>3. PICK asked, done : Round(p, asked, done)
  BY <1>1, <1>2 DEF SyncInv
<1> QED BY <1>2, <1>3, Grows, RoundOn

(* A calm turn leaves all syncs alone. *)
LEMMA CalmTurns ==
  ASSUME Inv, SyncInv, drops = 0, NEW n \in Node, NEW t, NEW z, Turn(n, t, z), t.status \notin SyncFaults,
         Up(t) => /\ Up(sess[n]) /\ Good(n, t) /\ Calm(sess[n], t) /\ Follows(t)
                  /\ Connected(t) \subseteq Connected(sess[n])
  PROVE  SyncInv'
<1>1. PICK s : s = sess[n]
  OBVIOUS
<1>2. Up(t) => Ahead(s, t)
  <2> SUFFICES ASSUME Up(t) PROVE Ahead(s, t)
    OBVIOUS
  <2>1. n \in Alive
    BY <1>1, AliveUp
  <2>2. Based(s)
    BY <1>1, <2>1 DEF SyncInv
  <2> QED BY <1>1, <2>2 DEF Ahead, Calm, Based
<1>3. ASSUME NEW e, NEW k, NewAt(n, t, e, k) PROVE Plain(n, inbox'[e][k])
  <2>1. PICK c, q : c = e[1] /\ q = Sent(t, c)
    OBVIOUS
  <2>2. PICK j \in 1 .. Len(q) : inbox'[e][k] = q[j]
    BY <1>3, <2>1, NewIs
  <2>3. Calm(s, t) /\ s.self = n
    BY <1>1, <1>3, NewIs, AliveUp DEF Good, Sound, Shaped
  <2>4. c \in DOMAIN t.out
    <3> SUFFICES ASSUME c \notin DOMAIN t.out PROVE FALSE
      OBVIOUS
    <3>1. q = <<>>
      BY <2>1 DEF Sent
    <3>2. Len(q) = 0
      BY <3>1, EmptyIsSeq
    <3> QED BY <2>2, <3>2
  <2> QED BY <2>1, <2>2, <2>3, <2>4 DEF Calm, PlainOut, Sent
<1>4. ASSUME NEW e \in DOMAIN inbox', NEW k \in 1 .. Len(inbox'[e]), NewAt(n, t, e, k)
      PROVE  Told(e[2], OtherEnd(e[1], e[2]), inbox[e][k])'
  BY <1>3, <1>4, NewIs DEF Plain, Told, SyncOps
<1>5. ASSUME NEW p \in Alive', sess'[p].sync # NoSync PROVE \E asked, done : Round(p, asked, done)'
  <2>1. \A r \in Connected(sess[p]) : \A e, k : Asks(p, r, e, k)' => ~NewAt(n, t, e, k)
    BY <1>3 DEF Asks, Plain, SyncOps
  <2>2. p = n => Up(t)
    BY DEF Alive, Turn
  <2> QED BY <1>1, <1>2, <1>5, <2>1, <2>2, RoundsOn DEF Calm
<1>6. ASSUME NEW p \in Alive' PROVE Awaits(p)'
  <2>1. \A e, k : NewAt(n, t, e, k) => inbox'[e][k].op \notin {"SYNC", "LAST"}
    BY <1>3 DEF Plain, SyncOps
  <2>2. CASE p = n
    <3>1. Up(t)
      BY <2>2 DEF Alive, Turn
    <3>2. t.proposer # n => s.proposer # n
      BY <1>1, <3>1, AliveUp, ProposerOn
    <3>3. \A r, e, k : Asks(n, r, e, k)' => ~NewAt(n, t, e, k)
      BY <2>1 DEF Asks
    <3> QED BY <1>1, <1>6, <2>2, <3>1, <3>2, <3>3, ItselfAwaits DEF Calm
  <2>3. CASE p # n
    BY <1>6, <2>1, <2>3, OthersAwait
  <2> QED BY <2>2, <2>3
<1> QED BY <1>1, <1>2, <1>4, <1>5, <1>6, SyncSteps

-----------------------------------------------------------------------------
(* The handlers of paxos_sync.c *)

(* A message m is read by n from connection c of the session s, which turns to t. *)
Reads(n, c, s, m, t) ==
  /\ n \in Node /\ s = sess[n] /\ Up(s) /\ <<c, n>> \in DOMAIN inbox
  /\ 1 \in 1 .. Len(inbox[<<c, n>>]) /\ m = inbox[<<c, n>>][1]
  /\ Arrives(n, c, m) /\ t = PaxosDispatch(s, c, m) /\ Turn(n, t, <<c, n>>)

(* Such a message, and the one that wrote it. *)
LEMMA ReadsFrom ==
  ASSUME Inv, SyncInv, drops = 0, NEW n, NEW c, NEW s, NEW m, NEW t, Reads(n, c, s, m, t)
  PROVE  /\ Good(n, s) /\ s.out = <<>> /\ DOMAIN s = Fields /\ s.self = n /\ n \in Alive /\ Based(s)
         /\ \E w \in Connected(s) : /\ s.alist[w] = c /\ w # n /\ w \in Nat /\ n \in Nat
                                    /\ c = FirstConn(w, n) /\ c = FirstConn(n, w)
                                    /\ OtherEnd(c, n) = w /\ Told(n, w, m)
<1>1. PICK d, q : d = <<c, n>> /\ q = inbox[d]
  BY Zenon
<1>2. d \in DOMAIN inbox /\ d[1] = c /\ d[2] = n /\ 1 \in 1 .. Len(q) /\ m = q[1]
  BY <1>1 DEF Reads
<1>3. Running(n) /\ n \in Alive /\ s = sess[n]
  BY AliveUp DEF Reads, Inv
<1>4. Good(n, s) /\ s.out = <<>> /\ DOMAIN s = Fields /\ s.self = n /\ Based(s)
  BY <1>3 DEF Running, Good, Sound, Shaped, SyncInv
<1>5. PICK w \in Connected(s) : s.alist[w] = c
  BY <1>2, <1>3 DEF Running
<1>6. c = FirstConn(w, n) /\ OtherEnd(c, n) = w /\ w # n
  BY <1>4, <1>5, LeadsTo
<1>7. w \in Nat /\ n \in Nat
  BY <1>4, <1>5 DEF Good, Sound, Shaped, Acceptors, Connected, Members, Founders
<1>8. c = FirstConn(n, w)
  BY <1>6, <1>7 DEF FirstConn
<1>9. Told(n, w, m)
  BY <1>1, <1>2, <1>6 DEF SyncInv
<1> QED BY <1>3, <1>4, <1>5, <1>6, <1>7, <1>8, <1>9, Zenon

(* acceptor_ack_sync: the answer goes to who has asked, and says what we have learned. *)
LEMMA ReadsSync ==
  ASSUME Inv, SyncInv, drops = 0, NEW n, NEW c, NEW s, NEW m, NEW t, Reads(n, c, s, m, t), m.op = "SYNC"
  PROVE  SyncInv'
<1>1. /\ Good(n, s) /\ s.out = <<>> /\ DOMAIN s = Fields /\ s.self = n /\ n \in Alive /\ Based(s)
      /\ s = sess[n] /\ n \in Node /\ Up(s) /\ m.bal \in Bal
  BY ReadsFrom DEF Reads, Arrives, IsMsg
<1>2. PICK w \in Connected(s) : /\ s.alist[w] = c /\ w # n /\ w \in Nat /\ n \in Nat
                                /\ c = FirstConn(w, n) /\ c = FirstConn(n, w)
                                /\ OtherEnd(c, n) = w /\ Told(n, w, m)
  BY ReadsFrom
<1>3. PICK d : d = <<c, n>>
  BY Zenon
<1>4. Turn(n, t, d) /\ d \in DOMAIN inbox /\ 1 \in 1 .. Len(inbox[d]) /\ m = inbox[d][1] /\ d[1] = c /\ d[2] = n
  BY <1>3 DEF Reads
<1>5. s.proposer # n
  <2> SUFFICES ASSUME s.proposer = n PROVE FALSE
    OBVIOUS
  <2>1. c[1] = n
    BY <1>1, <1>2, ProposerLeads DEF Good, Leads
  <2> QED BY <2>1 DEF Reads, Arrives, Leading
<1>6. PICK r : r = Message("LAST", m.bal, m.inum, s.ihole - 1)
  OBVIOUS
<1>7. t = AcceptorAckSync(s, m)
  BY <1>1, <1>5 DEF Reads, PaxosDispatch, IsProposer, AcceptorDispatch
<1>8. CASE t = s
  BY <1>1, <1>4, <1>8, CalmItself, CalmTurns DEF Based, Calm
<1>9. CASE t # s
  <2>1. BallotCompare(m.bal, s.ballot) = 0 /\ t = Send(s, s.alist[s.proposer], r)
    BY <1>6, <1>7, <1>9 DEF AcceptorAckSync, SendToProposer
  <2>2. s.ballot.id = w
    <3>1. s.ballot \in Bal /\ m.bal.id = w
      BY <1>1, <1>2 DEF Good, Sound, Shaped, Promised, Told
    <3> QED BY <1>1, <2>1, <3>1 DEF Bal, BallotCompare, PaxidCompare
  <2>3. s.proposer = w
    <3>1. s.proposer <= w /\ s.proposer \in Nat /\ w <= s.proposer
      <4>1. s.proposer \in Connected(s) /\ s.proposer <= w
        BY <1>1, <1>2, <1>5 DEF Good, Sound, Ranked
      <4>2. s.proposer \in Nat
        BY <1>1, <4>1 DEF Good, Sound, Shaped, Acceptors, Connected, Members
      <4> QED BY <1>1, <1>5, <2>2, <4>1, <4>2 DEF Based, Follows
    <3> QED BY <1>2, <3>1
  <2>4. t = WriteTo(s, {c}, r)
    BY <1>2, <2>1, <2>3, Zenon DEF Send, Connected
  <2>5. /\ Echoes(s, t) /\ Up(t)
        /\ \A b : \A j \in 1 .. Len(Sent(t, b)) : b = c /\ j = 1 /\ Sent(t, b)[j] = r
    BY <1>1, <2>4, OneWrite DEF Up
  <2>6. Ahead(s, t)
    BY <1>1, <2>5 DEF Ahead, Echoes, Based, Follows, Good, Sound, Shaped, Holes
  <2>7. ASSUME NEW e, NEW k, NewAt(n, t, e, k)
        PROVE  e[1] = c /\ e[2] = w /\ k = Len(inbox[e]) + 1 /\ inbox'[e][k] = r
               /\ e \in DOMAIN inbox
    <3>1. e \in DOMAIN inbox /\ OtherEnd(e[1], n) = e[2]
          /\ \E j \in 1 .. Len(Sent(t, e[1])) : inbox'[e][k] = Sent(t, e[1])[j] /\ j = k - Len(inbox[e])
      BY <1>1, <2>7, NewIs
    <3>2. e[1] = c /\ inbox'[e][k] = r /\ 1 = k - Len(inbox[e])
      BY <2>5, <3>1
    <3>3. Len(inbox[e]) \in Nat
      BY <3>1 DEF Inv, Network, IsInbox, IsSeq
    <3>4. k \in Nat
      BY <2>7 DEF NewAt
    <3> QED BY <1>2, <3>1, <3>2, <3>3, <3>4
  <2>8. ASSUME NEW e \in DOMAIN inbox', NEW k \in 1 .. Len(inbox'[e]), NewAt(n, t, e, k)
        PROVE  Told(e[2], OtherEnd(e[1], e[2]), inbox[e][k])'
    <3>1. e[1] = c /\ e[2] = w /\ inbox'[e][k] = r /\ OtherEnd(c, w) = n
      BY <1>1, <2>7, <2>8, NewIs
    <3>2. /\ r.op = "LAST" /\ r.inum = m.inum /\ r.body = s.ihole - 1
      BY <1>6 DEF Message
    <3>3. s.ihole \in Nat /\ N < s.ihole /\ N \in Nat \ {0}
      BY <1>1, NAssumption DEF Good, Sound, Shaped, Holes
    <3>4. Told(w, n, r)
      BY <1>1, <1>2, <3>2, <3>3 DEF Told
    <3>5. Told(w, n, r)'
      BY <1>1, <1>4, <2>6, <3>4, Grows, ToldOn
    <3> QED BY <3>1, <3>5
  <2>9. ASSUME NEW p \in Alive', sess'[p].sync # NoSync PROVE \E asked, done : Round(p, asked, done)'
    <3>0. p = n => t.sync = s.sync /\ t.sync_id = s.sync_id /\ Connected(t) \subseteq Connected(s)
      BY <2>5 DEF Echoes, Connected, Members
    <3>1. CASE \A q \in Connected(sess[p]) : \A e, k : Asks(p, q, e, k)' => ~NewAt(n, t, e, k)
      BY <1>1, <1>4, <2>6, <2>9, <3>0, <3>1, RoundsOn
    <3>2. ASSUME NEW q \in Connected(sess[p]), NEW f, NEW l, Asks(p, q, f, l)', NewAt(n, t, f, l)
          PROVE  \E asked, done : Round(p, asked, done)'
      <4>1. p = w /\ r.inum = sess'[w].sync_id /\ r.inum = m.inum
        BY <1>6, <2>7, <3>2 DEF Asks, Message
      <4>2. sess'[w] = sess[w] /\ w \in Alive /\ w \in Node
        BY <1>2, <1>4, <4>1 DEF Turn, Alive, Node
      <4>3. PICK asked, done : Round(w, asked, done)
        BY <2>9, <4>1, <4>2 DEF SyncInv
      <4>4. n \in Connected(sess[w])
        BY <1>1, <1>2, <4>2, AliveUp DEF Good, Sound, Shaped, Meets
      <4>5. Asks(w, n, d, 1)
        BY <1>2, <1>4, <4>1, <4>2, Zenon DEF Asks
      <4>6. n \notin done /\ \A e, k : Asks(w, n, e, k) => e = d /\ k = 1
        BY <4>3, <4>4, <4>5 DEF Round, Pending
      <4>7. ASSUME NEW e, NEW k, Asks(w, n, e, k)' PROVE NewAt(n, t, e, k)
        <5> SUFFICES ASSUME ~NewAt(n, t, e, k) PROVE FALSE
          OBVIOUS
        <5>1. Asks(w, n, e, k + Shift(d, e))
          BY <1>4, <4>2, <4>7, AskedBefore
        <5>2. e = d /\ k + 1 = 1 /\ k \in 1 .. Len(inbox'[e])
          BY <4>6, <4>7, <5>1 DEF Shift, Asks
        <5> QED BY <5>2
      <4>8. Pending(w, n, done)'
        <5>1. ASSUME NEW e, NEW g, NEW k, NEW j, Asks(w, n, e, k)', Asks(w, n, g, j)' PROVE e = g /\ k = j
          <6>1. /\ e \in DOMAIN inbox /\ e[1] = c /\ e[2] = w /\ k = Len(inbox[e]) + 1
                /\ g \in DOMAIN inbox /\ g[1] = c /\ g[2] = w /\ j = Len(inbox[g]) + 1
            BY <2>7, <4>7, <5>1
          <6>2. e = <<e[1], e[2]>> /\ g = <<g[1], g[2]>>
            BY <6>1 DEF Inv, Network
          <6> QED BY <6>1, <6>2
        <5> QED BY <4>6, <5>1 DEF Pending
      <4>9. ASSUME NEW i \in Connected(sess[w]), i # n PROVE Pending(w, i, done)'
        <5>1. Pending(w, i, done)
          BY <4>3, <4>9 DEF Round
        <5>2. ASSUME NEW e, NEW k, Asks(w, i, e, k)', NewAt(n, t, e, k) PROVE FALSE
          <6>1. FirstConn(w, i) = FirstConn(w, n)
            BY <1>2, <2>7, <5>2 DEF Asks
          <6>2. i \in Nat
            BY <4>2, <4>9, AliveUp, Zenon DEF Good, Sound, Shaped, Acceptors, Connected, Members
          <6> QED BY <1>2, <4>9, <6>1, <6>2 DEF FirstConn
        <5> QED BY <1>4, <4>2, <5>1, <5>2, PendingOn
      <4>10. Counts(sess[w], asked, done)'
        <5>1. Grown
          BY <1>1, <1>4, <2>6, Grows
        <5>2. PICK u : u = sess[w]
          OBVIOUS
        <5>3. Counts(u, asked, done)
          BY <4>3, <5>2 DEF Round
        <5>4. ASSUME NEW i \in done, i \in Alive' PROVE u.sync.last < sess'[i].ihole
          <6>1. i \in Alive /\ sess[i].ihole \in Nat /\ sess'[i].ihole \in Nat /\ sess[i].ihole <= sess'[i].ihole
            BY <5>1, <5>4 DEF Grown
          <6>2. u.sync.last < sess[i].ihole /\ u.sync.last \in Nat
            BY <5>3, <5>4, <6>1 DEF Counts
          <6> QED BY <6>1, <6>2
        <5> QED BY <4>2, <5>2, <5>3, <5>4 DEF Counts
      <4> QED BY <4>1, <4>2, <4>8, <4>9, <4>10 DEF Round
    <3> QED BY <3>1, <3>2
  <2>10. ASSUME NEW p \in Alive' PROVE Awaits(p)'
    <3>1. r.op = "LAST" /\ r.inum = m.inum /\ r.body = s.ihole - 1
      BY <1>6 DEF Message
    <3>2. CASE p = n
      <4>1. \A q, e, k : Asks(n, q, e, k)' => ~NewAt(n, t, e, k)
        BY <1>2, <2>7, <3>1 DEF Asks
      <4>2. /\ t.proposer = s.proposer /\ t.sync = s.sync /\ t.sync_id = s.sync_id /\ t.ibase = s.ibase
            /\ Connected(t) \subseteq Connected(s)
        BY <2>5 DEF Echoes, Connected, Members
      <4> QED BY <1>1, <1>4, <2>10, <3>2, <4>1, <4>2, ItselfAwaits
    <3>3. CASE p # n
      <4>1. sess'[p] = sess[p] /\ p \in Alive /\ p \in Node /\ Awaits(p) /\ Based(sess[p])
        BY <1>4, <2>10, <3>3 DEF Turn, Alive, Node, SyncInv
      <4>2. ASSUME NEW q \in Connected(sess[p]), NEW e, NEW k, Asks(p, q, e, k)', NewAt(n, t, e, k)
            PROVE  sess[p].sync # NoSync /\ inbox'[e][k].body >= sess[p].ibase
        <5>1. p = w /\ r.inum = sess[w].sync_id
          BY <2>7, <3>1, <4>1, <4>2 DEF Asks
        <5>2. Asks(w, n, d, 1)
          BY <1>2, <1>4, <3>1, <5>1 DEF Asks
        <5>3. n \in Connected(sess[w])
          BY <1>1, <1>2, <4>1, <5>1, AliveUp DEF Good, Sound, Shaped, Meets
        <5>4. sess[p].ibase < s.ihole /\ sess[p].ibase \in Nat /\ s.ihole \in Nat
          BY <1>1, <4>1 DEF Based, Good, Sound, Shaped, Holes
        <5> QED BY <2>7, <3>1, <4>1, <4>2, <5>1, <5>2, <5>3, <5>4 DEF Awaits
      <4>3. sess[p].sync # NoSync => sess[p].sync.last = 0 \/ sess[p].sync.last >= sess[p].ibase
        BY <4>1 DEF Awaits
      <4> QED BY <1>4, <4>1, <4>2, <4>3, AwaitsOn
    <3> QED BY <3>2, <3>3
  <2>11. t.status \notin SyncFaults
    BY <2>5 DEF Up, SyncFaults
  <2> QED BY <1>1, <1>4, <2>6, <2>8, <2>9, <2>10, <2>11, SyncSteps
<1> QED BY <1>8, <1>9

(* A turn that writes nothing. *)
LEMMA Silent ==
  ASSUME NEW n, NEW t, t.out = <<>> PROVE \A e, k : ~NewAt(n, t, e, k)
<1> SUFFICES ASSUME NEW e, NEW k, NewAt(n, t, e, k) PROVE FALSE
  OBVIOUS
<1>1. PICK q : q = Sent(t, e[1])
  OBVIOUS
<1>2. q = <<>>
  BY <1>1 DEF Sent
<1>3. Len(q) = 0
  BY <1>2, EmptyIsSeq
<1> QED BY <1>1, <1>3 DEF NewAt

(* Only a participant that does not propose reads a truncate; the proposer alone reads
   the answers. *)
LEMMA ReadsAs ==
  ASSUME Inv, SyncInv, drops = 0, NEW n, NEW c, NEW s, NEW m, NEW t, Reads(n, c, s, m, t)
  PROVE  /\ m.op = "TRUNCATE" => s.proposer # n /\ t = AcceptorAckTruncate(s, m)
         /\ m.op = "LAST" => t = IF s.proposer = n THEN ProposerAckLast(s, m) ELSE s
<1>1. Good(n, s) /\ s.self = n /\ \E w \in Connected(s) : s.alist[w] = c
  BY ReadsFrom
<1>2. Up(s) /\ t = PaxosDispatch(s, c, m)
  BY DEF Reads
<1>3. m.op = "TRUNCATE" => s.proposer # n
  <2> SUFFICES ASSUME s.proposer = n, m.op = "TRUNCATE" PROVE FALSE
    OBVIOUS
  <2>1. c[1] = n
    BY <1>1, ProposerLeads DEF Good, Leads
  <2> QED BY <2>1 DEF Reads, Arrives, Leading
<1>4. CASE m.op = "TRUNCATE"
  BY <1>1, <1>2, <1>3, <1>4 DEF PaxosDispatch, IsProposer, AcceptorDispatch
<1>5. CASE m.op = "LAST"
  BY <1>1, <1>2, <1>5 DEF PaxosDispatch, IsProposer, AcceptorDispatch, ProposerDispatch
<1> QED BY <1>4, <1>5

(* acceptor_ack_truncate takes over a base below every hole. *)
LEMMA ReadsTruncate ==
  ASSUME Inv, SyncInv, drops = 0, NEW n, NEW c, NEW s, NEW m, NEW t, Reads(n, c, s, m, t), m.op = "TRUNCATE"
  PROVE  SyncInv'
<1>1. /\ Good(n, s) /\ s.out = <<>> /\ DOMAIN s = Fields /\ s.self = n /\ n \in Alive /\ Based(s)
      /\ s = sess[n] /\ n \in Node /\ Up(s)
  BY ReadsFrom DEF Reads
<1>2. m.body \in Nat /\ \A q \in Alive : m.body < sess[q].ihole
  BY ReadsFrom DEF Told
<1>3. PICK d, b : d = <<c, n>> /\ b = m.body
  BY Zenon
<1>4. Turn(n, t, d)
  BY <1>3 DEF Reads
<1>5. t = TruncatePrefix([s EXCEPT !.ibase = b], b)
  BY <1>3, ReadsAs DEF AcceptorAckTruncate
<1>6. PICK l, i, r : t = [[s EXCEPT !.ibase = b] EXCEPT !.ilist = l, !.istart = i, !.rcache = r]
  BY <1>5, Zenon DEF TruncatePrefix
<1>7. /\ t.self = s.self /\ t.alist = s.alist /\ t.proposer = s.proposer /\ t.ballot = s.ballot
      /\ t.sync = s.sync /\ t.sync_id = s.sync_id /\ t.ibase = b /\ t.ihole = s.ihole
      /\ t.out = <<>> /\ t.status = s.status
  BY <1>1, <1>6 DEF Fields
<1>8. Ahead(s, t)
  BY <1>1, <1>2, <1>3, <1>7 DEF Ahead, Based, Follows, Good, Sound, Shaped, Holes
<1>9. \A e, k : ~NewAt(n, t, e, k)
  BY <1>7, Silent
<1>10. ASSUME NEW p \in Alive', sess'[p].sync # NoSync PROVE \E asked, done : Round(p, asked, done)'
  <2>1. Connected(t) \subseteq Connected(s)
    BY <1>7 DEF Connected, Members
  <2> QED BY <1>1, <1>4, <1>7, <1>8, <1>9, <1>10, <2>1, RoundsOn
<1>11. ASSUME NEW p \in Alive' PROVE Awaits(p)'
  <2>1. CASE p = n
    <3>1. s.proposer # n /\ Awaits(n)
      BY <1>1, ReadsAs DEF SyncInv
    <3>2. s.sync = NoSync
      BY <1>1, <3>1 DEF Awaits
    <3>3. Connected(t) \subseteq Connected(s)
      BY <1>7 DEF Connected, Members
    <3> QED BY <1>1, <1>4, <1>7, <1>9, <1>11, <2>1, <3>1, <3>2, <3>3, ItselfAwaits
  <2>2. CASE p # n
    BY <1>1, <1>4, <1>9, <1>11, <2>2, OthersAwait
  <2> QED BY <2>1, <2>2
<1>12. t.status \notin SyncFaults
  BY <1>1, <1>7 DEF Up, SyncFaults
<1> QED BY <1>1, <1>4, <1>8, <1>9, <1>10, <1>11, <1>12, SyncSteps

(* The least answer so far, with that of m. *)
Least(s, m) == IF m.body < s.sync.last \/ s.sync.last = 0 THEN m.body ELSE s.sync.last

(* An answer that is not the last one is counted. *)
IsCounted(s, m, t) ==
  /\ s.sync.acks + 1 # s.sync.total
  /\ t = [s EXCEPT !.sync = [s.sync EXCEPT !.last = Least(s, m), !.acks = s.sync.acks + 1]]

(* Everyone is told to truncate at the base. *)
Orders(t) ==
  \A c : \A j \in 1 .. Len(Sent(t, c)) : Sent(t, c)[j].op = "TRUNCATE" /\ Sent(t, c)[j].body = t.ibase

(* At the last one the base becomes the least of the answers and of what we have learned
   ourselves, and everyone is told. *)
IsTruncated(s, m, t) ==
  /\ s.sync.acks + 1 = s.sync.total
  /\ t.self = s.self /\ t.alist = s.alist /\ t.proposer = s.proposer
  /\ t.ballot = s.ballot /\ t.sync = NoSync /\ t.sync_id = s.sync_id /\ t.ihole = s.ihole
  /\ t.ibase = Min({Least(s, m), s.ihole - 1}) /\ t.status = s.status
  /\ Orders(t)

(* proposer_truncate writes nothing else, when the assertion holds. *)
LEMMA TruncateIs ==
  ASSUME NEW u, DOMAIN u = Fields, u.out = <<>>, NEW m, NEW t, t = ProposerTruncate(u, m),
         ~(Min({u.sync.last, u.ihole - 1}) < u.ibase)
  PROVE  /\ t.self = u.self /\ t.alist = u.alist /\ t.proposer = u.proposer
         /\ t.ballot = u.ballot /\ t.sync = NoSync /\ t.sync_id = u.sync_id /\ t.ihole = u.ihole
         /\ t.ibase = Min({u.sync.last, u.ihole - 1}) /\ t.status = u.status
         /\ Orders(t)
<1>1. PICK b, r, a : /\ b = Min({u.sync.last, u.ihole - 1})
                     /\ r = Message("TRUNCATE", m.bal, m.inum, b)
                     /\ a = [u EXCEPT !.sync_prev = b, !.ibase = b]
  BY Zenon
<1>2. PICK w, v : w = Broadcast(a, r) /\ v = TruncatePrefix(w, b)
  OBVIOUS
<1>4. t = [v EXCEPT !.sync = NoSync]
  BY <1>1, <1>2 DEF ProposerTruncate
<1>5. PICK l, i, x : v = [w EXCEPT !.ilist = l, !.istart = i, !.rcache = x]
  BY <1>2, Zenon DEF TruncatePrefix
<1>6. /\ DOMAIN a = Fields /\ a.out = <<>> /\ a.self = u.self /\ a.alist = u.alist
      /\ a.proposer = u.proposer /\ a.ballot = u.ballot /\ a.sync_id = u.sync_id
      /\ a.ibase = b /\ a.ihole = u.ihole /\ a.status = u.status
  BY <1>1 DEF Fields
<1>7. PICK peers : w = WriteTo(a, peers, r)
  BY <1>2, Zenon DEF Broadcast
<1>8. /\ Echoes(a, w) /\ DOMAIN w = Fields /\ w.status = a.status
      /\ \A c : \A j \in 1 .. Len(Sent(w, c)) : Sent(w, c)[j] = r
  BY <1>6, <1>7, OneWrite
<1>9. /\ t.self = w.self /\ t.alist = w.alist /\ t.proposer = w.proposer /\ t.ballot = w.ballot
      /\ t.sync = NoSync /\ t.sync_id = w.sync_id /\ t.ibase = w.ibase /\ t.ihole = w.ihole
      /\ t.out = w.out /\ t.status = w.status
  BY <1>4, <1>5, <1>8 DEF Fields
<1>10. \A c : Sent(t, c) = Sent(w, c)
  BY <1>9 DEF Sent
<1>11. r.op = "TRUNCATE" /\ r.body = b
  BY <1>1 DEF Message
<1>12. /\ t.self = u.self /\ t.alist = u.alist /\ t.proposer = u.proposer
       /\ t.ballot = u.ballot /\ t.sync = NoSync /\ t.sync_id = u.sync_id /\ t.ihole = u.ihole
       /\ t.ibase = b /\ t.status = u.status
  BY <1>6, <1>8, <1>9 DEF Echoes
<1>13. Orders(t)
  BY <1>8, <1>10, <1>11, <1>12 DEF Orders
<1> QED BY <1>1, <1>12, <1>13

(* What proposer_ack_last does: an answer to an earlier sync is ignored. *)
LEMMA LastIs ==
  ASSUME NEW s, DOMAIN s = Fields, s.out = <<>>, NEW m, NEW t, t = ProposerAckLast(s, m),
         m.inum = s.sync_id => /\ s.sync # NoSync /\ DOMAIN s.sync = SyncFields
                               /\ ~(Min({Least(s, m), s.ihole - 1}) < s.ibase)
  PROVE  \/ t = s
         \/ m.inum = s.sync_id /\ s.sync # NoSync /\ (IsCounted(s, m, t) \/ IsTruncated(s, m, t))
<1>1. PICK y : y = Least(s, m)
  OBVIOUS
<1>2. PICK v : v = [s.sync EXCEPT !.last = y, !.acks = s.sync.acks + 1]
  OBVIOUS
<1>3. PICK u : u = [s EXCEPT !.sync = v]
  BY Zenon
<1>4. u = [s EXCEPT !.sync.last = IF m.body < @ \/ @ = 0 THEN m.body ELSE @, !.sync.acks = @ + 1]
  BY <1>1, <1>2, <1>3, Zenon DEF Least
<1>5. u.sync = v /\ DOMAIN u = Fields /\ u.out = <<>> /\ u.ihole = s.ihole
      /\ u.self = s.self /\ u.alist = s.alist /\ u.proposer = s.proposer
      /\ u.ballot = s.ballot /\ u.sync_id = s.sync_id /\ u.ibase = s.ibase /\ u.status = s.status
  BY <1>3 DEF Fields
<1>6. \/ t = s
      \/ /\ m.inum = s.sync_id /\ s.sync # NoSync
         /\ \/ u.sync.acks = u.sync.total /\ t = ProposerTruncate(u, m)
            \/ u.sync.acks # u.sync.total /\ t = u
  BY <1>4, Zenon DEF ProposerAckLast
<1>8. CASE m.inum = s.sync_id /\ s.sync # NoSync
  <2>1. v.acks = s.sync.acks + 1 /\ v.total = s.sync.total /\ v.last = y
    BY <1>2, <1>8 DEF SyncFields
  <2>2. CASE u.sync.acks # u.sync.total /\ t = u
    <3>1. s.sync.acks + 1 # s.sync.total
      BY <1>5, <2>1, <2>2
    <3> QED BY <1>1, <1>2, <1>3, <1>8, <2>2, <3>1 DEF IsCounted
  <2>3. CASE u.sync.acks = u.sync.total /\ t = ProposerTruncate(u, m)
    <3>1. s.sync.acks + 1 = s.sync.total
      BY <1>5, <2>1, <2>3
    <3>2. u.sync.last = Least(s, m)
      BY <1>1, <1>5, <2>1
    <3>3. /\ t.self = u.self /\ t.alist = u.alist /\ t.proposer = u.proposer
          /\ t.ballot = u.ballot /\ t.sync = NoSync /\ t.sync_id = u.sync_id /\ t.ihole = u.ihole
          /\ t.ibase = Min({u.sync.last, u.ihole - 1}) /\ t.status = u.status
          /\ Orders(t)
      BY <1>5, <1>8, <2>3, <3>2, TruncateIs
    <3> QED BY <1>5, <1>8, <3>1, <3>2, <3>3 DEF IsTruncated
  <2> QED BY <1>6, <1>8, <2>2, <2>3
<1> QED BY <1>6, <1>8

(* What is so when the answer m of w is read: it is the first of w, one more has answered,
   and the least answer is below the holes of all of them. *)
Answered(n, c, w, s, m, asked, done) ==
  /\ w \notin done /\ \A e, k : Asks(n, w, e, k) => e = <<c, n>> /\ k = 1
  /\ Cardinality(done) \in Nat /\ IsFiniteSet(done \union {w}) /\ done \union {w} \subseteq asked
  /\ Cardinality(done \union {w}) = Cardinality(done) + 1
  /\ Least(s, m) \in Nat \ {0}
  /\ \A r \in (done \union {w}) \intersect Alive : Least(s, m) < sess[r].ihole

(* That is when it is an answer to the present sync. *)
LEMMA Answers ==
  ASSUME Inv, SyncInv, drops = 0, NEW n, NEW c, NEW s, NEW m, NEW t, Reads(n, c, s, m, t), m.op = "LAST",
         m.inum = s.sync_id, NEW asked, NEW done, Round(n, asked, done),
         NEW w \in Connected(s), w \in Nat, n \in Nat, w # n, c = FirstConn(n, w), Told(n, w, m)
  PROVE  Answered(n, c, w, s, m, asked, done)
<1>1. PICK d : d = <<c, n>>
  BY Zenon
<1>2. d \in DOMAIN inbox /\ 1 \in 1 .. Len(inbox[d]) /\ m = inbox[d][1] /\ d[1] = c /\ d[2] = n /\ s = sess[n]
  BY <1>1 DEF Reads
<1>3. Asks(n, w, d, 1)
  BY <1>2 DEF Asks
<1>4. Pending(n, w, done) /\ Counts(s, asked, done)
  BY <1>2 DEF Round
<1>5. w \notin done /\ \A e, k : Asks(n, w, e, k) => e = d /\ k = 1
  BY <1>3, <1>4 DEF Pending
<1>6. IsFiniteSet(done) /\ Cardinality(done) \in Nat
  BY <1>4, FS_Subset, FS_CardinalityType DEF Counts
<1>7. IsFiniteSet(done \union {w}) /\ Cardinality(done \union {w}) = Cardinality(done) + 1
  BY <1>5, <1>6, FS_AddElement
<1>8. done \union {w} \subseteq asked
  BY <1>4 DEF Counts
<1>9. m.body \in Nat \ {0} /\ (w \in Alive => m.body < sess[w].ihole)
  BY DEF Told
<1>10. PICK y : y = Least(s, m)
  OBVIOUS
<1>11. /\ s.sync.last \in Nat /\ (s.sync.last = 0 <=> done = {})
       /\ \A r \in done \intersect Alive : s.sync.last < sess[r].ihole
  BY <1>4 DEF Counts
<1>12. y \in Nat \ {0} /\ y <= m.body /\ (done # {} => y <= s.sync.last)
  BY <1>9, <1>10, <1>11 DEF Least
<1>13. ASSUME NEW r \in done \union {w}, r \in Alive PROVE y < sess[r].ihole
  <2>1. sess[r].ihole \in Nat
    BY <1>13, AliveUp DEF Alive, Node
  <2>2. CASE r = w
    BY <1>9, <1>12, <1>13, <2>1, <2>2
  <2>3. CASE r \in done
    BY <1>11, <1>12, <1>13, <2>1, <2>3
  <2> QED BY <1>13, <2>2, <2>3
<1> QED BY <1>1, <1>5, <1>6, <1>7, <1>8, <1>10, <1>12, <1>13 DEF Answered

(* Then a sync is under way, and the least answer is not below the base. *)
LEMMA Awaited ==
  ASSUME Inv, SyncInv, drops = 0, NEW n, NEW c, NEW s, NEW m, NEW t, Reads(n, c, s, m, t), m.op = "LAST",
         m.inum = s.sync_id
  PROVE  /\ s.sync # NoSync /\ Least(s, m) >= s.ibase
         /\ ~(Min({Least(s, m), s.ihole - 1}) < s.ibase)
<1>1. /\ Good(n, s) /\ n \in Alive /\ Based(s) /\ s = sess[n] /\ Awaits(n)
  BY ReadsFrom DEF Reads, SyncInv
<1>2. PICK w \in Connected(s) : c = FirstConn(n, w) /\ Told(n, w, m)
  BY ReadsFrom
<1>3. PICK d : d = <<c, n>>
  BY Zenon
<1>4. Asks(n, w, d, 1) /\ m = inbox[d][1]
  BY <1>1, <1>2, <1>3 DEF Reads, Asks
<1>5. s.sync # NoSync /\ m.body >= s.ibase /\ (s.sync.last = 0 \/ s.sync.last >= s.ibase)
  BY <1>1, <1>2, <1>4 DEF Awaits
<1>6. PICK asked, done : Counts(s, asked, done)
  BY <1>1, <1>5 DEF SyncInv, Round
<1>7. s.sync.last \in Nat /\ m.body \in Nat /\ s.ibase \in Nat /\ s.ihole \in Nat /\ s.ibase < s.ihole
  BY <1>1, <1>2, <1>6 DEF Counts, Told, Based, Good, Sound, Shaped, Holes
<1>8. PICK y, S : y = Least(s, m) /\ S = {y, s.ihole - 1}
  BY Zenon
<1>9. y \in Nat /\ y >= s.ibase
  BY <1>5, <1>7, <1>8 DEF Least
<1>10. S \subseteq Nat /\ S # {}
  BY <1>7, <1>8, <1>9
<1>11. Min(S) \in S
  BY <1>10, MinOf, Zenon
<1> QED BY <1>5, <1>7, <1>8, <1>9, <1>11

(* The sync of p goes on when a turn of another writes nothing of a sync. *)
LEMMA OthersOn ==
  ASSUME Inv, SyncInv, drops = 0, NEW n \in Node, NEW t, NEW z, Turn(n, t, z),
         Up(t) => Ahead(sess[n], t), NEW p \in Alive', p # n, sess'[p].sync # NoSync,
         \A e, k : NewAt(n, t, e, k) => inbox'[e][k].op \notin {"SYNC", "LAST"}
  PROVE  \E asked, done : Round(p, asked, done)'
<1>1. \A r \in Connected(sess[p]) : \A e, k : Asks(p, r, e, k)' => ~NewAt(n, t, e, k)
  BY DEF Asks
<1> QED BY <1>1, RoundsOn

(* proposer_ack_last *)
LEMMA ReadsLast ==
  ASSUME Inv, SyncInv, drops = 0, NEW n, NEW c, NEW s, NEW m, NEW t, Reads(n, c, s, m, t), m.op = "LAST"
  PROVE  SyncInv'
<1>1. /\ Good(n, s) /\ s.out = <<>> /\ DOMAIN s = Fields /\ s.self = n /\ n \in Alive /\ Based(s)
      /\ s = sess[n] /\ n \in Node /\ Up(s)
  BY ReadsFrom DEF Reads
<1>2. PICK w \in Connected(s) : /\ s.alist[w] = c /\ w # n /\ w \in Nat /\ n \in Nat
                                /\ c = FirstConn(w, n) /\ c = FirstConn(n, w)
                                /\ OtherEnd(c, n) = w /\ Told(n, w, m)
  BY ReadsFrom
<1>3. PICK d : d = <<c, n>>
  BY Zenon
<1>4. Turn(n, t, d)
  BY <1>3 DEF Reads
<1>5. CASE t = s
  BY <1>1, <1>4, <1>5, CalmItself, CalmTurns DEF Based, Calm
<1>6. CASE t # s
  <2>0. m.inum = s.sync_id =>
          s.sync # NoSync /\ Least(s, m) >= s.ibase /\ ~(Min({Least(s, m), s.ihole - 1}) < s.ibase)
    BY Awaited
  <2>1. s.proposer = n /\ t = ProposerAckLast(s, m)
    BY <1>6, ReadsAs
  <2>2. s.sync # NoSync => \E asked, done : Round(n, asked, done)
    BY <1>1 DEF SyncInv
  <2>3. s.sync # NoSync => DOMAIN s.sync = SyncFields
    BY <1>1, <2>2 DEF Round, Counts
  <2>4. m.inum = s.sync_id /\ s.sync # NoSync /\ (IsCounted(s, m, t) \/ IsTruncated(s, m, t))
    BY <1>1, <1>6, <2>0, <2>1, <2>3, LastIs, Zenon
  <2>5. PICK asked, done : Round(n, asked, done)
    BY <2>2, <2>4
  <2>6. PICK y, acked : y = Least(s, m) /\ acked = done \union {w}
    BY Zenon
  <2>7. /\ w \notin done /\ \A e, k : Asks(n, w, e, k) => e = d /\ k = 1
        /\ Cardinality(done) \in Nat /\ IsFiniteSet(acked) /\ acked \subseteq asked
        /\ Cardinality(acked) = Cardinality(done) + 1
        /\ y \in Nat \ {0}
        /\ \A r \in acked \intersect Alive : y < sess[r].ihole
    <3>1. Told(n, w, m) /\ w \in Connected(s) /\ w \in Nat /\ n \in Nat /\ w # n /\ c = FirstConn(n, w)
      BY <1>2
    <3>2. m.inum = s.sync_id
      BY <2>4
    <3>3. Answered(n, c, w, s, m, asked, done)
      BY <2>5, <3>1, <3>2, Answers
    <3> QED BY <1>3, <2>6, <3>3 DEF Answered
  <2>8. Counts(s, asked, done)
    BY <1>1, <2>5 DEF Round
  <2>9. s.ihole \in Nat /\ N < s.ihole /\ N \in Nat \ {0}
    BY <1>1, NAssumption DEF Good, Sound, Shaped, Holes
  <2>10. CASE IsCounted(s, m, t)
    <3>1. PICK v : v = [s.sync EXCEPT !.last = y, !.acks = s.sync.acks + 1]
      OBVIOUS
    <3>2. t = [s EXCEPT !.sync = v]
      BY <2>6, <2>10, <3>1 DEF IsCounted
    <3>3. /\ t.self = s.self /\ t.alist = s.alist /\ t.proposer = s.proposer /\ t.ballot = s.ballot
          /\ t.sync = v /\ t.sync_id = s.sync_id /\ t.ibase = s.ibase /\ t.ihole = s.ihole
          /\ t.out = <<>> /\ t.status = s.status
      BY <1>1, <3>2 DEF Fields
    <3>4. Ahead(s, t)
      BY <1>1, <2>9, <3>3 DEF Ahead, Based, Follows
    <3>5. \A e, k : ~NewAt(n, t, e, k)
      BY <3>3, Silent
    <3>6. Grown
      BY <1>1, <1>4, <3>4, Grows
    <3>7. ASSUME n \in Alive' PROVE Round(n, asked, acked)'
      <4>1. sess'[n].sync = v /\ sess'[n].sync_id = s.sync_id /\ Connected(sess'[n]) = Connected(s)
        BY <1>4, <3>3, <3>7 DEF Turn, Alive, Echoes, Connected, Members
      <4>2. Counts(sess[n], asked, acked)'
        <5>1. PICK u : u = sess'[n]
          OBVIOUS
        <5>2. /\ DOMAIN v = SyncFields /\ v.total = s.sync.total /\ v.acks = s.sync.acks + 1 /\ v.last = y
          BY <2>8, <3>1 DEF Counts, SyncFields
        <5>3. ASSUME NEW r \in acked, r \in Alive' PROVE v.last < sess'[r].ihole
          <6>1. r \in Alive /\ sess[r].ihole \in Nat /\ sess'[r].ihole \in Nat /\ sess[r].ihole <= sess'[r].ihole
            BY <3>6, <5>3 DEF Grown
          <6>2. y < sess[r].ihole
            BY <2>7, <5>3, <6>1
          <6> QED BY <2>7, <5>2, <6>1, <6>2
        <5>4. acked # {}
          BY <2>6
        <5>5. s.sync.acks + 1 = Cardinality(acked) + 1
          BY <2>7, <2>8 DEF Counts
        <5> QED BY <2>7, <2>8, <4>1, <5>1, <5>2, <5>3, <5>4, <5>5 DEF Counts
      <4>3. ASSUME NEW r \in Connected(s) PROVE Pending(n, r, acked)'
        <5>1. CASE r = w
          <6>1. ASSUME NEW e, NEW k, Asks(n, w, e, k)' PROVE FALSE
            <7>1. Asks(n, w, e, k + Shift(d, e))
              BY <1>1, <1>4, <3>5, <4>1, <6>1, AskedBefore
            <7>2. e = d /\ k + 1 = 1 /\ k \in 1 .. Len(inbox'[e])
              BY <2>7, <6>1, <7>1 DEF Shift, Asks
            <7> QED BY <7>2
          <6> QED BY <5>1, <6>1 DEF Pending
        <5>2. CASE r # w
          <6>1. Pending(n, r, done)
            BY <1>1, <2>5 DEF Round
          <6>2. Pending(n, r, done)'
            BY <1>1, <1>4, <3>5, <4>1, <6>1, PendingOn
          <6> QED BY <2>6, <5>2, <6>2 DEF Pending
        <5> QED BY <5>1, <5>2
      <4> QED BY <4>1, <4>2, <4>3 DEF Round
    <3>8. ASSUME NEW p \in Alive', sess'[p].sync # NoSync PROVE \E a, b : Round(p, a, b)'
      <4>1. CASE p = n
        BY <3>7, <3>8, <4>1
      <4>2. CASE p # n
        BY <1>1, <1>4, <3>4, <3>5, <3>8, <4>2, OthersOn
      <4> QED BY <4>1, <4>2
    <3>9. ASSUME NEW p \in Alive' PROVE Awaits(p)'
      <4>1. CASE p = n
        <5>1. PICK u : u = sess'[n]
          OBVIOUS
        <5>2. /\ u.proposer = s.proposer /\ u.sync = v /\ u.sync_id = s.sync_id /\ u.ibase = s.ibase
              /\ Connected(u) = Connected(s)
          BY <1>4, <3>3, <3>9, <4>1, <5>1 DEF Turn, Alive, Echoes, Connected, Members
        <5>3. v # NoSync /\ v.last >= s.ibase
          <6>1. DOMAIN v = SyncFields /\ v.last = y
            BY <2>8, <3>1 DEF Counts, SyncFields
          <6>2. NoSync = <<>> /\ DOMAIN NoSync = {}
            BY DEF NoSync
          <6>3. v # NoSync
            BY <6>1, <6>2 DEF SyncFields
          <6> QED BY <2>0, <2>4, <2>6, <6>1, <6>3
        <5>4. Awaits(n) /\ u.sync.last >= s.ibase /\ u.sync # NoSync
          BY <1>1, <5>2, <5>3 DEF SyncInv
        <5> QED BY <1>1, <1>4, <2>1, <2>4, <3>5, <4>1, <5>1, <5>2, <5>4, AwaitsOn
      <4>2. CASE p # n
        BY <1>1, <1>4, <3>5, <3>9, <4>2, OthersAwait
      <4> QED BY <4>1, <4>2
    <3>10. t.status \notin SyncFaults
      BY <1>1, <3>3 DEF Up, SyncFaults
    <3> QED BY <1>1, <1>4, <3>4, <3>5, <3>8, <3>9, <3>10, SyncSteps
  <2>11. CASE IsTruncated(s, m, t)
    <3>1. PICK b : b = Min({y, s.ihole - 1})
      OBVIOUS
    <3>2. /\ t.self = s.self /\ t.proposer = s.proposer /\ t.ballot = s.ballot
          /\ t.sync = NoSync /\ t.sync_id = s.sync_id /\ t.ihole = s.ihole /\ t.ibase = b
          /\ t.alist = s.alist /\ t.status = s.status /\ Orders(t)
      BY <2>6, <2>11, <3>1 DEF IsTruncated
    <3>3. b \in Nat /\ b <= y /\ b <= s.ihole - 1
      <4>1. PICK S : S = {y, s.ihole - 1}
        BY Zenon
      <4>2. S \subseteq Nat /\ S # {}
        BY <2>7, <2>9, <4>1
      <4>3. b \in S /\ \A k \in S : b <= k
        BY <3>1, <4>1, <4>2, MinOf
      <4> QED BY <4>1, <4>2, <4>3
    <3>4. asked = acked
      <4>1. Cardinality(asked) = Cardinality(acked)
        <5>1. s.sync.acks + 1 = s.sync.total
          BY <2>11 DEF IsTruncated
        <5>2. Cardinality(asked) \in Nat
          BY <2>8, FS_CardinalityType DEF Counts
        <5> QED BY <2>7, <2>8, <5>1, <5>2 DEF Counts
      <4> QED BY <2>7, <2>8, <4>1, FS_Subset DEF Counts
    <3>5. ASSUME NEW q \in Alive PROVE b < sess[q].ihole
      <4>1. CASE q = n
        BY <1>1, <2>9, <3>3, <4>1
      <4>2. CASE q # n
        <5>1. q \in acked
          BY <1>1, <2>8, <3>4, <4>2 DEF Counts, Good, Sound, Shaped, Meets
        <5>2. y < sess[q].ihole /\ sess[q].ihole \in Nat
          BY <2>7, <5>1, AliveUp DEF Alive, Node
        <5> QED BY <2>7, <3>3, <5>2
      <4> QED BY <4>1, <4>2
    <3>6. Ahead(s, t)
      BY <1>1, <2>9, <3>2, <3>3, <3>5 DEF Ahead, Based, Follows
    <3>7. ASSUME NEW e, NEW k, NewAt(n, t, e, k) PROVE inbox'[e][k].op = "TRUNCATE" /\ inbox'[e][k].body = b
      BY <1>1, <3>2, <3>7, NewIs DEF Orders
    <3>8. Grown
      BY <1>1, <1>4, <3>6, Grows
    <3>9. ASSUME NEW e \in DOMAIN inbox', NEW k \in 1 .. Len(inbox'[e]), NewAt(n, t, e, k)
          PROVE  Told(e[2], OtherEnd(e[1], e[2]), inbox[e][k])'
      <4>1. PICK x, o, i : x = inbox'[e][k] /\ o = e[2] /\ i = OtherEnd(e[1], e[2])
        OBVIOUS
      <4>2. x.op = "TRUNCATE" /\ x.body = b
        BY <3>7, <3>9, <4>1
      <4>3. Told(o, i, x)
        BY <3>3, <3>5, <4>2 DEF Told
      <4>4. Told(o, i, x)'
        BY <3>8, <4>3, ToldOn
      <4> QED BY <4>1, <4>4
    <3>10. ASSUME NEW p \in Alive', sess'[p].sync # NoSync PROVE \E a, e : Round(p, a, e)'
      <4>1. p # n
        BY <1>4, <3>2, <3>10 DEF Turn, Echoes, Alive
      <4> QED BY <1>1, <1>4, <3>6, <3>7, <3>10, <4>1, OthersOn
    <3>11. ASSUME NEW p \in Alive' PROVE Awaits(p)'
      <4>1. CASE p = n
        <5>1. PICK u : u = sess'[n]
          OBVIOUS
        <5>2. /\ u.proposer = s.proposer /\ u.sync = NoSync /\ u.sync_id = s.sync_id
              /\ Connected(u) = Connected(s)
          BY <1>4, <3>2, <3>11, <4>1, <5>1 DEF Turn, Alive, Echoes, Connected, Members
        <5>3. ASSUME NEW r \in Connected(s), NEW e, NEW k, Asks(n, r, e, k)' PROVE FALSE
          <6>1. ~NewAt(n, t, e, k)
            BY <3>7, <5>3 DEF Asks
          <6>2. Asks(n, r, e, k + Shift(d, e))
            BY <1>1, <1>4, <5>1, <5>2, <5>3, <6>1, AskedBefore
          <6>3. r \in done \/ r = w
            BY <2>6, <2>8, <3>4 DEF Counts
          <6>4. r \notin done
            BY <1>1, <2>5, <5>3, <6>2 DEF Round, Pending
          <6>5. e = d /\ k + 1 = 1 /\ k \in 1 .. Len(inbox'[e])
            BY <2>7, <5>3, <6>2, <6>3, <6>4 DEF Shift, Asks
          <6> QED BY <6>5
        <5> QED BY <2>1, <4>1, <5>1, <5>2, <5>3 DEF Awaits
      <4>2. CASE p # n
        <5>1. \A e, k : NewAt(n, t, e, k) => inbox'[e][k].op \notin {"SYNC", "LAST"}
          BY <3>7
        <5> QED BY <1>1, <1>4, <3>11, <4>2, <5>1, OthersAwait
      <4> QED BY <4>1, <4>2
    <3>12. t.status \notin SyncFaults
      BY <1>1, <3>2 DEF Up, SyncFaults
    <3> QED BY <1>1, <1>4, <3>6, <3>9, <3>10, <3>11, <3>12, SyncSteps
  <2> QED BY <2>4, <2>10, <2>11
<1> QED BY <1>5, <1>6

-----------------------------------------------------------------------------
(* One case per action *)

(* A message is read. *)
LEMMA SyncDelivers ==
  ASSUME Inv, SyncInv, drops = 0, NEW n \in Node, NEW c, Deliver(n, c) PROVE SyncInv'
<1>1. PICK s, q, m, t, d : /\ s = sess[n] /\ q = inbox[<<c, n>>] /\ m = Head(q)
                           /\ t = PaxosDispatch(s, c, m) /\ d = <<c, n>>
  OBVIOUS
<1>2. PICK net : net = [inbox EXCEPT ![d] = Tail(q)]
  BY Zenon
<1>3. d \in DOMAIN inbox /\ q # <<>> /\ Step(n, t, net) /\ d[1] = c /\ d[2] = n /\ q = inbox[d]
  BY <1>1, <1>2 DEF Deliver
<1>4. drops' = drops
  BY Zenon DEF Deliver, counters
<1>5. IsInbox(n, c, q)
  BY <1>3 DEF Inv, Network
<1>6. Arrives(n, c, m) /\ 1 \in 1 .. Len(q) /\ m = q[1]
  <2>1. IsSeq(q) /\ Len(q) \in Nat
    BY <1>5 DEF IsInbox, IsSeq
  <2>2. Len(q) >= 1 /\ Head(q) = q[1]
    BY <1>3, <2>1, TailSeq
  <2>3. Arrives(n, c, Head(q))
    BY <1>3, <1>5, InboxTail, Zenon
  <2>4. 1 \in 1 .. Len(q)
    BY <2>1, <2>2
  <2>5. m = Head(q)
    BY <1>1
  <2> QED BY <2>2, <2>3, <2>4, <2>5
<1>7. \A e \in DOMAIN net : e \in DOMAIN inbox /\ net[e] = IF e = d THEN Tail(inbox[e]) ELSE inbox[e]
  BY <1>2, <1>3
<1>8. CASE Up(s)
  <2>1. Good(n, s) /\ s.out = <<>> /\ n \in Alive /\ Based(s) /\ \E id \in Connected(s) : s.alist[id] = c
    <3>1. Running(n) /\ n \in Alive
      BY <1>1, <1>8, AliveUp DEF Inv
    <3> QED BY <1>1, <1>3, <3>1 DEF Running, SyncInv
  <2>2. Outcome(n, s, t)
    BY <1>1, <1>6, <2>1, Dispatches
  <2>3. Up(t) => Up(sess[n]) /\ Good(n, t) /\ Connected(t) \subseteq Connected(s)
    BY <1>1, <1>8, <2>2 DEF Outcome, Shrinks
  <2>4. Turn(n, t, d)
    BY <1>3, <1>4, <1>7, <2>3, TurnIs
  <2>5. Reads(n, c, s, m, t)
    BY <1>1, <1>3, <1>6, <1>8, <2>4 DEF Reads
  <2>6. CASE m.op \in SyncOps
    BY <2>5, <2>6, ReadsSync, ReadsLast, ReadsTruncate DEF SyncOps
  <2>7. CASE m.op \notin SyncOps
    <3>1. Calm(s, t)
      BY <1>1, <1>6, <2>1, <2>7, CalmDispatch
    <3>2. m.op = "PREPARE" => m.bal.id = OtherEnd(c, n)
      BY <2>5, ReadsFrom DEF Told
    <3>3. Up(t) => Follows(t)
      BY <1>1, <1>6, <2>1, <3>2, FollowsDispatch DEF Based
    <3>4. t.status \notin SyncFaults
      BY <3>1 DEF Calm
    <3> QED BY <1>1, <1>8, <2>3, <2>4, <3>1, <3>3, <3>4, CalmTurns
  <2> QED BY <2>6, <2>7
<1>9. CASE ~Up(s)
  <2>1. t = s
    <3>1. m.op # "WELCOME"
      BY <1>6 DEF Arrives, IsMsg, Ops
    <3> QED BY <1>1, <1>9, <3>1 DEF PaxosDispatch
  <2>2. Turn(n, t, d)
    BY <1>3, <1>4, <1>7, <1>9, <2>1, TurnIs
  <2>3. t.status \notin SyncFaults
    BY <1>1, <2>1 DEF SyncInv
  <2> QED BY <1>9, <2>1, <2>2, <2>3, CalmTurns
<1> QED BY <1>8, <1>9

(* A turn that reads no message. *)
LEMMA OwnSyncTurns ==
  ASSUME Inv, SyncInv, drops = 0, NEW n \in Node, NEW t, NEW net, Step(n, t, net), drops' = drops,
         \A e \in DOMAIN net : e \in DOMAIN inbox /\ net[e] = inbox[e],
         NEW lost, t.status \notin SyncFaults,
         Up(t) => /\ Up(sess[n]) /\ Good(n, t) /\ t.ballot = sess[n].ballot
                  /\ Shrinks(n, sess[n], t, lost) /\ Calm(sess[n], t)
  PROVE  SyncInv'
<1>1. PICK z : z \notin DOMAIN inbox
  BY NoSetContainsEverything
<1>2. Turn(n, t, z)
  BY <1>1, TurnIs
<1>3. Up(t) => Follows(t) /\ Connected(t) \subseteq Connected(sess[n])
  <2> SUFFICES ASSUME Up(t) PROVE Follows(t) /\ Connected(t) \subseteq Connected(sess[n])
    OBVIOUS
  <2>1. PICK s : s = sess[n]
    OBVIOUS
  <2>2. Good(n, s) /\ Based(s)
    BY <2>1, AliveUp DEF SyncInv
  <2> QED BY <2>1, <2>2, FollowsOn DEF Based, Shrinks
<1> QED BY <1>2, <1>3, CalmTurns

(* An end of file is read. *)
LEMMA SyncCloses ==
  ASSUME Inv, SyncInv, drops = 0, NEW n \in Node, NEW c, Eof(n, c) PROVE SyncInv'
<1>1. PICK s, t, lost : s = sess[n] /\ (t = IF Up(s) THEN PaxosDropConnection(s, c) ELSE s) /\ lost = {c}
  BY Zenon
<1>2. PICK d : d = <<c, n>>
  BY Zenon
<1>3. PICK net : net = [e \in DOMAIN inbox \ {d} |-> inbox[e]]
  BY Zenon
<1>4. d \in DOMAIN inbox /\ Step(n, t, net) /\ d[1] = c /\ d[2] = n
  BY <1>1, <1>2, <1>3 DEF Eof
<1>5. drops' = drops
  BY Zenon DEF Eof, counters
<1>6. \A e \in DOMAIN net : e \in DOMAIN inbox /\ net[e] = inbox[e]
  BY <1>3
<1>7. ASSUME Up(t)
      PROVE  /\ Up(s) /\ Good(n, t) /\ t.ballot = s.ballot /\ Shrinks(n, s, t, lost) /\ Calm(s, t)
  <2>1. Up(s) /\ t = PaxosDropConnection(s, c)
    BY <1>1, <1>7
  <2>2. Good(n, s) /\ s.out = <<>>
    BY <1>1, <2>1 DEF Inv, Running
  <2>3. c # NoPeer
    <3>1. PICK id \in Founders : c = FirstConn(id, n)
      BY <1>4 DEF Inv, Network
    <3>2. n \in Founders /\ Founders \subseteq Nat
      BY <2>2 DEF Good, Sound, Shaped, Founders
    <3> QED BY <3>1, <3>2, ConnIs
  <2>4. \A id \in Connected(s) : s.alist[id] = c => id \notin Alive
    BY <1>1, <2>1, EofOfTheGone
  <2>5. Good(n, t) /\ t.ballot = s.ballot /\ Shrinks(n, s, t, {c})
    BY <1>7, <2>1, <2>2, <2>3, <2>4, Drops
  <2>6. Calm(s, t)
    BY <2>1, <2>2, CalmItself, CalmDrops
  <2> QED BY <1>1, <2>1, <2>5, <2>6
<1>8. t.status \notin SyncFaults
  <2>1. CASE Up(s)
    <3>1. Good(n, s) /\ s.out = <<>> /\ t = PaxosDropConnection(s, c)
      BY <1>1, <2>1 DEF Inv, Running
    <3>2. Calm(s, t)
      BY <3>1, CalmItself, CalmDrops
    <3> QED BY <3>2 DEF Calm
  <2>2. CASE ~Up(s)
    BY <1>1, <2>2 DEF SyncInv
  <2> QED BY <2>1, <2>2
<1> QED BY <1>1, <1>4, <1>5, <1>6, <1>7, <1>8, OwnSyncTurns

(* What the timer leaves of a session. *)
LEMMA SyncIs ==
  ASSUME NEW s, NEW t, t = ProposerSync(s)
  PROVE  \/ t = s
         \/ s.sync # NoSync /\ t = [s EXCEPT !.sync = [s.sync EXCEPT !.skips = @ + 1]]
         \/ /\ s.prep = NoPrep /\ s.live_count = Cardinality(Members(s))
            /\ t = Broadcast([s EXCEPT !.sync = [total |-> Cardinality(Members(s)), acks |-> 1,
                                                 skips |-> 0, last |-> 0],
                                       !.sync_id = @ + 1],
                             Message("SYNC", s.ballot, s.sync_id + 1, <<>>))
BY DEF ProposerSync

(* A tick that only counts. *)
LEMMA SyncWaits ==
  ASSUME Inv, SyncInv, drops = 0, NEW n \in Node, NEW s, s = sess[n], Up(s), NEW t, NEW z, Turn(n, t, z),
         s.sync # NoSync, t = [s EXCEPT !.sync = [s.sync EXCEPT !.skips = @ + 1]]
  PROVE  SyncInv'
<1>1. /\ Good(n, s) /\ s.out = <<>> /\ DOMAIN s = Fields /\ n \in Alive /\ Based(s) /\ s.ihole \in Nat
  BY AliveUp, Zenon DEF Inv, Running, Good, Sound, Shaped, SyncInv
<1>2. PICK v : v = [s.sync EXCEPT !.skips = @ + 1]
  BY Zenon
<1>3. /\ t.self = s.self /\ t.alist = s.alist /\ t.proposer = s.proposer /\ t.ballot = s.ballot
      /\ t.sync = v /\ t.sync_id = s.sync_id /\ t.ibase = s.ibase /\ t.ihole = s.ihole /\ t.out = <<>>
      /\ t.status = s.status
  BY <1>1, <1>2 DEF Fields
<1>4. Ahead(s, t)
  BY <1>1, <1>3 DEF Ahead, Based, Follows
<1>5. \A e, k : ~NewAt(n, t, e, k)
  BY <1>3, Silent, Zenon
<1>6. Grown
  BY <1>4, Grows
<1>7. PICK asked, done : Round(n, asked, done)
  BY <1>1 DEF SyncInv
<1>8. ASSUME n \in Alive' PROVE Round(n, asked, done)'
  <2>1. sess'[n].sync = v /\ sess'[n].sync_id = s.sync_id /\ Connected(sess'[n]) = Connected(s)
    BY <1>3, <1>8 DEF Turn, Alive, Echoes, Connected, Members
  <2>2. Counts(s, asked, done)
    BY <1>7 DEF Round
  <2>3. Counts(sess[n], asked, done)'
    <3>1. PICK u : u = sess'[n]
      OBVIOUS
    <3>2. /\ DOMAIN v = SyncFields /\ v.total = s.sync.total /\ v.acks = s.sync.acks
          /\ v.last = s.sync.last
      BY <1>2, <2>2 DEF Counts, SyncFields
    <3>3. ASSUME NEW r \in done, r \in Alive' PROVE v.last < sess'[r].ihole
      <4>1. r \in Alive /\ sess[r].ihole \in Nat /\ sess'[r].ihole \in Nat /\ sess[r].ihole <= sess'[r].ihole
        BY <1>6, <3>3 DEF Grown
      <4>2. s.sync.last < sess[r].ihole /\ s.sync.last \in Nat
        BY <2>2, <3>3, <4>1 DEF Counts
      <4> QED BY <3>2, <4>1, <4>2
    <3> QED BY <2>1, <2>2, <3>1, <3>2, <3>3 DEF Counts
  <2>4. ASSUME NEW r \in Connected(s) PROVE Pending(n, r, done)'
    <3>1. Pending(n, r, done)
      BY <1>7 DEF Round
    <3> QED BY <1>5, <2>1, <3>1, PendingOn
  <2> QED BY <2>1, <2>3, <2>4 DEF Round
<1>9. ASSUME NEW p \in Alive', sess'[p].sync # NoSync PROVE \E a, b : Round(p, a, b)'
  <2>1. CASE p = n
    BY <1>8, <1>9, <2>1
  <2>2. CASE p # n
    BY <1>4, <1>5, <1>9, <2>2, OthersOn
  <2> QED BY <2>1, <2>2
<1>10. ASSUME NEW p \in Alive' PROVE Awaits(p)'
  <2>1. CASE p = n
    <3>1. PICK u : u = sess'[n]
      OBVIOUS
    <3>2. /\ u.proposer = s.proposer /\ u.sync = v /\ u.sync_id = s.sync_id /\ u.ibase = s.ibase
          /\ Connected(u) = Connected(s)
      BY <1>3, <1>10, <2>1, <3>1 DEF Turn, Alive, Echoes, Connected, Members
    <3>3. Awaits(n) /\ DOMAIN s.sync = SyncFields
      BY <1>1, <1>7 DEF SyncInv, Round, Counts
    <3>4. v # NoSync /\ v.last = s.sync.last
      <4>1. DOMAIN v = SyncFields /\ v.last = s.sync.last
        BY <1>2, <3>3 DEF SyncFields
      <4>2. NoSync = <<>> /\ DOMAIN NoSync = {}
        BY DEF NoSync
      <4> QED BY <4>1, <4>2 DEF SyncFields
    <3>5. u.sync # NoSync /\ (u.sync.last = 0 \/ u.sync.last >= s.ibase)
      BY <3>2, <3>3, <3>4 DEF Awaits
    <3> QED BY <1>5, <2>1, <3>1, <3>2, <3>3, <3>5, AwaitsOn
  <2>2. CASE p # n
    BY <1>5, <1>10, <2>2, OthersAwait
  <2> QED BY <2>1, <2>2
<1>11. t.status \notin SyncFaults
  BY <1>3, Zenon DEF Up, SyncFaults
<1> QED BY <1>4, <1>5, <1>9, <1>10, <1>11, SyncSteps, Zenon

(* What a question or an answer looks like after a turn. *)
LEMMA AskedAfter ==
  ASSUME NEW p, NEW r, NEW e, NEW k, Asks(p, r, e, k)', NEW y, y = inbox'[e][k]
  PROVE  /\ y.inum = sess'[p].sync_id /\ e[1] = FirstConn(p, r)
         /\ ((y.op = "SYNC" /\ e[2] = r) \/ (y.op = "LAST" /\ e[2] = p))
BY DEF Asks

(* A tick that starts a sync: everyone that is connected is asked once, and no question
   or answer of an earlier sync has its number. *)
LEMMA SyncAsks ==
  ASSUME Inv, SyncInv, drops = 0, NEW n \in Node, NEW s, s = sess[n], Up(s), s.proposer = n,
         NEW t, NEW z, Turn(n, t, z), s.prep = NoPrep, s.live_count = Cardinality(Members(s)),
         NEW v, v = [total |-> Cardinality(Members(s)), acks |-> 1, skips |-> 0, last |-> 0],
         NEW r, r = Message("SYNC", s.ballot, s.sync_id + 1, <<>>),
         t = Broadcast([s EXCEPT !.sync = v, !.sync_id = @ + 1], r)
  PROVE  SyncInv'
<1>1. /\ Good(n, s) /\ s.out = <<>> /\ DOMAIN s = Fields /\ n \in Alive /\ Based(s) /\ s.ihole \in Nat
      /\ n \in Nat
  <2>1. /\ Good(n, s) /\ s.out = <<>> /\ DOMAIN s = Fields /\ n \in Alive /\ Based(s) /\ s.ihole \in Nat
    BY AliveUp, Zenon DEF Inv, Running, Good, Sound, Shaped, SyncInv
  <2>2. n \in Nat
    BY <2>1 DEF Alive, Founders
  <2> QED BY <2>1, <2>2
<1>2. PICK a, i : a = [s EXCEPT !.sync = v, !.sync_id = i] /\ i = s.sync_id + 1
  BY Zenon
<1>3. PICK peers : peers = {a.alist[id] : id \in Connected(a)} /\ t = WriteTo(a, peers, r)
  <2>1. t = Broadcast(a, r)
    BY <1>2
  <2> QED BY <2>1, Zenon DEF Broadcast
<1>4. /\ a.self = s.self /\ a.alist = s.alist /\ a.proposer = s.proposer /\ a.ballot = s.ballot
      /\ a.sync = v /\ a.sync_id = i /\ a.ibase = s.ibase /\ a.ihole = s.ihole /\ a.out = <<>>
      /\ DOMAIN a = Fields /\ a.status = s.status
  BY <1>1, <1>2 DEF Fields
<1>5. Echoes(a, t) /\ \A c : \A j \in 1 .. Len(Sent(t, c)) : c \in peers /\ j = 1 /\ Sent(t, c)[j] = r
  BY <1>3, <1>4, OneWrite
<1>6. i \in Nat /\ s.sync_id \in Nat /\ i = s.sync_id + 1
  BY <1>1, <1>2 DEF Based
<1>7. Ahead(s, t)
  BY <1>1, <1>4, <1>5, <1>6 DEF Ahead, Echoes, Based, Follows
<1>8. Grown
  BY <1>7, Grows
<1>9. r.op = "SYNC" /\ r.inum = i /\ r.bal.id = n
  BY <1>1, <1>2 DEF Message, Good, Proposes
<1>10. ASSUME NEW e, NEW k, NewAt(n, t, e, k)
       PROVE  /\ inbox'[e][k] = r /\ e[1] = FirstConn(n, e[2]) /\ OtherEnd(e[1], e[2]) = n
              /\ k = Len(inbox[e]) + 1 /\ e \in DOMAIN inbox /\ e[2] \in Nat /\ e[2] # n
  <2>1. /\ e[1] = FirstConn(n, e[2]) /\ OtherEnd(e[1], e[2]) = n /\ e \in DOMAIN inbox
        /\ e[2] \in Nat /\ e[2] # n
        /\ \E j \in 1 .. Len(Sent(t, e[1])) : inbox'[e][k] = Sent(t, e[1])[j] /\ j = k - Len(inbox[e])
    BY <1>10, NewIs
  <2>2. inbox'[e][k] = r /\ 1 = k - Len(inbox[e])
    BY <1>5, <2>1
  <2>3. Len(inbox[e]) \in Nat /\ k \in Nat
    BY <1>10, <2>1 DEF NewAt, Inv, Network, IsInbox, IsSeq
  <2> QED BY <2>1, <2>2, <2>3
<1>11. ASSUME NEW e \in DOMAIN inbox', NEW k \in 1 .. Len(inbox'[e]), NewAt(n, t, e, k)
       PROVE  Told(e[2], OtherEnd(e[1], e[2]), inbox[e][k])'
  <2>1. PICK x, o : x = inbox'[e][k] /\ o = e[2]
    OBVIOUS
  <2>2. x = r /\ OtherEnd(e[1], e[2]) = n
    BY <1>10, <1>11, <2>1
  <2>3. n \in Alive' => sess'[n].sync_id = i
    BY <1>4, <1>5 DEF Turn, Alive, Echoes
  <2>4. Told(o, n, r)'
    BY <1>6, <1>9, <2>3 DEF Told
  <2> QED BY <2>1, <2>2, <2>4
<1>12. ASSUME n \in Alive'
       PROVE  /\ sess'[n].sync = v /\ sess'[n].sync_id = i /\ sess'[n].proposer = n
              /\ Connected(sess'[n]) = Connected(s)
  BY <1>4, <1>5, <1>12 DEF Turn, Alive, Echoes, Connected, Members
<1>13. ASSUME n \in Alive', NEW q \in Connected(s), NEW e, NEW k, Asks(n, q, e, k)' PROVE NewAt(n, t, e, k)
  <2> SUFFICES ASSUME ~NewAt(n, t, e, k) PROVE FALSE
    OBVIOUS
  <2>1. q \in Nat /\ q # n /\ OtherEnd(FirstConn(n, q), q) = n
    <3>1. PICK c : s.alist[q] = c
      OBVIOUS
    <3>2. c = FirstConn(q, n) /\ q # n /\ OtherEnd(c, q) = n
      BY <1>1, <3>1, LeadsTo
    <3>3. q \in Nat
      BY <1>1 DEF Good, Sound, Shaped, Acceptors, Connected, Members
    <3> QED BY <1>1, <3>2, <3>3 DEF FirstConn
  <2>2. e \in DOMAIN inbox' /\ k \in 1 .. Len(inbox'[e])
    BY <1>13 DEF Asks
  <2>3. OldAt(z, e, k)
    BY <2>2 DEF Turn
  <2>4. PICK j, x : j = k + Shift(z, e) /\ x = inbox[e][j]
    OBVIOUS
  <2>5. e \in DOMAIN inbox /\ j \in 1 .. Len(inbox[e]) /\ inbox'[e][k] = x
    BY <2>3, <2>4 DEF OldAt
  <2>6. x.inum = i /\ e[1] = FirstConn(n, q) /\ ((x.op = "SYNC" /\ e[2] = q) \/ (x.op = "LAST" /\ e[2] = n))
    <3>1. PICK y : y = inbox'[e][k]
      OBVIOUS
    <3>2. y.inum = sess'[n].sync_id /\ e[1] = FirstConn(n, q)
          /\ ((y.op = "SYNC" /\ e[2] = q) \/ (y.op = "LAST" /\ e[2] = n))
      BY <1>13, <3>1, AskedAfter
    <3> QED BY <1>12, <1>13, <2>5, <3>1, <3>2
  <2>7. Told(e[2], OtherEnd(e[1], e[2]), x)
    BY <2>4, <2>5 DEF SyncInv
  <2>8. x.inum <= s.sync_id
    <3>1. CASE x.op = "SYNC" /\ e[2] = q
      <4>1. OtherEnd(e[1], e[2]) = n
        BY <2>1, <2>6, <3>1
      <4> QED BY <1>1, <2>7, <3>1, <4>1 DEF Told
    <3>2. CASE x.op = "LAST" /\ e[2] = n
      BY <1>1, <2>7, <3>2 DEF Told
    <3> QED BY <2>6, <3>1, <3>2
  <2> QED BY <1>6, <2>6, <2>8
<1>14. ASSUME n \in Alive' PROVE Round(n, Connected(s), {})'
  <2>1. Counts(sess[n], Connected(s), {})'
    <3>1. /\ DOMAIN v = SyncFields /\ v.total = Cardinality(Members(s)) /\ v.acks = 1 /\ v.last = 0
      BY DEF SyncFields
    <3>2. v.total = Cardinality(Connected(s)) + 1
      BY <1>1, <3>1 DEF Good, Sound, Shaped, Live
    <3>3. IsFiniteSet(Connected(s))
      <4>1. IsFiniteSet(Members(s)) /\ Connected(s) \subseteq Members(s)
        BY <1>1 DEF Good, Sound, Shaped, Acceptors, Members, Connected
      <4> QED BY <4>1, FS_Subset
    <3>4. Cardinality({}) = 0
      BY FS_EmptySet
    <3>5. sess'[n].sync = v /\ Connected(sess'[n]) = Connected(s)
      BY <1>12, <1>14
    <3>6. {} \subseteq Connected(s) /\ {} \intersect Alive' = {}
      OBVIOUS
    <3>7. v.total = Cardinality(Connected(s)) + 1 /\ v.acks = Cardinality({}) + 1
      BY <3>1, <3>2, <3>4
    <3> QED BY <3>1, <3>3, <3>5, <3>6, <3>7, Zenon DEF Counts
  <2>2. ASSUME NEW q \in Connected(s) PROVE Pending(n, q, {})'
    <3>1. ASSUME NEW e, NEW k, Asks(n, q, e, k)'
          PROVE  e = <<FirstConn(n, q), q>> /\ k = Len(inbox[e]) + 1
      <4>1. NewAt(n, t, e, k)
        BY <1>13, <1>14, <3>1
      <4>2. inbox'[e][k] = r /\ k = Len(inbox[e]) + 1 /\ e \in DOMAIN inbox
        BY <1>10, <4>1
      <4>3. e[1] = FirstConn(n, q) /\ e[2] = q
        BY <1>9, <3>1, <4>2 DEF Asks
      <4>4. e = <<e[1], e[2]>>
        BY <4>2 DEF Inv, Network
      <4> QED BY <4>2, <4>3, <4>4
    <3>2. ASSUME NEW e, NEW f, NEW k, NEW j, Asks(n, q, e, k)', Asks(n, q, f, j)' PROVE e = f /\ k = j
      <4>1. e = f
        BY <3>1, <3>2
      <4> QED BY <3>1, <3>2, <4>1
    <3> QED BY <3>2 DEF Pending
  <2> QED BY <1>12, <1>14, <2>1, <2>2 DEF Round
<1>15. ASSUME NEW p \in Alive', p # n, NEW q, NEW e, NEW k, Asks(p, q, e, k)', NewAt(n, t, e, k) PROVE FALSE
  <2>1. p \in Nat
    BY <1>15 DEF Alive, Founders
  <2>2. inbox'[e][k] = r /\ e[1] = FirstConn(n, e[2]) /\ e[2] \in Nat /\ e[2] # n
    BY <1>10, <1>15
  <2>3. e[2] = q /\ e[1] = FirstConn(p, q)
    BY <1>9, <1>15, <2>2 DEF Asks
  <2>4. FirstConn(p, q) = FirstConn(n, q) /\ q \in Nat
    BY <2>2, <2>3
  <2> QED BY <1>1, <1>15, <2>1, <2>4, ConnIs
<1>16. ASSUME NEW p \in Alive', sess'[p].sync # NoSync PROVE \E asked, done : Round(p, asked, done)'
  <2>1. CASE p = n
    BY <1>14, <1>16, <2>1
  <2>2. CASE p # n
    BY <1>7, <1>15, <1>16, <2>2, RoundsOn
  <2> QED BY <2>1, <2>2
<1>17. ASSUME NEW p \in Alive' PROVE Awaits(p)'
  <2>1. CASE p = n
    <3>1. PICK u : u = sess'[n]
      OBVIOUS
    <3>2. u.sync = v /\ u.proposer = n /\ Connected(u) = Connected(s)
      BY <1>12, <1>17, <2>1, <3>1
    <3>3. v # NoSync /\ v.last = 0
      <4>1. DOMAIN v = SyncFields /\ v.last = 0
        BY DEF SyncFields
      <4>2. NoSync = <<>> /\ DOMAIN NoSync = {}
        BY DEF NoSync
      <4> QED BY <4>1, <4>2 DEF SyncFields
    <3>4. ASSUME NEW q \in Connected(s), NEW e, NEW k, Asks(n, q, e, k)' PROVE inbox'[e][k].op = "SYNC"
      BY <1>9, <1>10, <1>13, <1>17, <2>1, <3>4
    <3> QED BY <2>1, <3>1, <3>2, <3>3, <3>4 DEF Awaits
  <2>2. CASE p # n
    <3>1. sess'[p] = sess[p] /\ p \in Alive
      BY <1>17, <2>2 DEF Turn, Alive, Node
    <3>2. Awaits(p) /\ (sess[p].sync # NoSync => sess[p].sync.last = 0 \/ sess[p].sync.last >= sess[p].ibase)
      BY <3>1 DEF SyncInv, Awaits
    <3> QED BY <1>15, <1>17, <2>2, <3>1, <3>2, AwaitsOn
  <2> QED BY <2>1, <2>2
<1>18. t.status \notin SyncFaults
  <2>1. t.status = a.status
    BY <1>3, <1>4, OneWrite
  <2> QED BY <1>4, <2>1, Zenon DEF Up, SyncFaults
<1> QED BY <1>7, <1>11, <1>16, <1>17, <1>18, SyncSteps

(* A turn that reads nothing and in which no sync begins or goes on. *)
LEMMA CalmOwnTurns ==
  ASSUME Inv, SyncInv, drops = 0, NEW n \in Node, NEW t, Step(n, t, inbox), drops' = drops,
         t.status \notin SyncFaults, Up(t) => Up(sess[n]) /\ Kept(n, sess[n], t) /\ Calm(sess[n], t)
  PROVE  SyncInv'
<1>1. PICK lost : lost = {}
  BY Zenon
<1>2. Up(t) => /\ Up(sess[n]) /\ Good(n, t) /\ t.ballot = sess[n].ballot
               /\ Shrinks(n, sess[n], t, lost) /\ Calm(sess[n], t)
  BY <1>1 DEF Kept
<1>3. \A e \in DOMAIN inbox : e \in DOMAIN inbox /\ inbox[e] = inbox[e]
  OBVIOUS
<1> QED BY <1>2, <1>3, OwnSyncTurns

(* The timer of a session fires. *)
LEMMA SyncTicks ==
  ASSUME Inv, SyncInv, drops = 0, NEW n \in Node, Tick(n) PROVE SyncInv'
<1>1. PICK s, t, u : s = sess[n] /\ t = ProposerSync(s) /\ u = [s EXCEPT !.status = "tick without a session"]
  BY Zenon
<1>2. (Up(s) /\ IsProposer(s) /\ Step(n, t, inbox)) \/ (s.status = "left" /\ Step(n, u, inbox))
  BY <1>1, Zenon DEF Tick
<1>3. drops' = drops
  BY Zenon DEF Tick
<1>4. CASE Up(s) /\ IsProposer(s) /\ Step(n, t, inbox)
  <2>1. Good(n, s) /\ s.out = <<>> /\ s.proposer = n
    BY <1>1, <1>4, Zenon DEF Inv, Running, Good, Sound, Shaped, IsProposer
  <2>2. Kept(n, s, t)
    BY <1>1, <2>1, SyncSends, Zenon
  <2>3. CASE t = s
    <3>1. Calm(s, t)
      BY <2>1, <2>3, CalmItself
    <3> QED BY <1>1, <1>3, <1>4, <2>2, <3>1, CalmOwnTurns, Zenon DEF Calm
  <2>4. PICK z : z \notin DOMAIN inbox
    BY NoSetContainsEverything
  <2>5. Turn(n, t, z)
    <3>1. Up(t) => Up(sess[n]) /\ Good(n, t)
      BY <1>1, <1>4, <2>2, Zenon DEF Kept
    <3>2. \A e \in DOMAIN inbox : e \in DOMAIN inbox /\ inbox[e] = IF e = z THEN Tail(inbox[e]) ELSE inbox[e]
      BY <2>4
    <3> QED BY <1>3, <1>4, <2>4, <3>1, <3>2, TurnIs
  <2>6. CASE s.sync # NoSync /\ t = [s EXCEPT !.sync = [s.sync EXCEPT !.skips = @ + 1]]
    BY <1>1, <1>4, <2>5, <2>6, SyncWaits, Zenon
  <2>7. CASE /\ s.prep = NoPrep /\ s.live_count = Cardinality(Members(s))
             /\ t = Broadcast([s EXCEPT !.sync = [total |-> Cardinality(Members(s)), acks |-> 1,
                                                  skips |-> 0, last |-> 0],
                                        !.sync_id = @ + 1],
                              Message("SYNC", s.ballot, s.sync_id + 1, <<>>))
    <3>1. PICK v, r : /\ v = [total |-> Cardinality(Members(s)), acks |-> 1, skips |-> 0, last |-> 0]
                      /\ r = Message("SYNC", s.ballot, s.sync_id + 1, <<>>)
      BY Zenon
    <3>2. t = Broadcast([s EXCEPT !.sync = v, !.sync_id = @ + 1], r)
      BY <2>7, <3>1
    <3>3. s = sess[n] /\ Up(s) /\ s.proposer = n /\ s.prep = NoPrep /\ s.live_count = Cardinality(Members(s))
      BY <1>1, <1>4, <2>1, <2>7, Zenon
    <3> QED BY <2>5, <3>1, <3>2, <3>3, SyncAsks, Zenon
  <2> QED BY <1>1, <2>3, <2>6, <2>7, SyncIs, Zenon
<1>5. CASE s.status = "left" /\ Step(n, u, inbox)
  <2>1. "status" \in DOMAIN s
    BY <1>1, <1>5, Zenon DEF Inv, Up
  <2>2. ~Up(u) /\ u.status \notin SyncFaults
    BY <1>1, <2>1, Zenon DEF Up, SyncFaults
  <2> QED BY <1>3, <1>5, <2>2, CalmOwnTurns
<1> QED BY <1>2, <1>4, <1>5

(* One case per action. *)
LEMMA SyncGoes ==
  ASSUME Inv, SyncInv, conns = 0, conns' = 0, drops = 0, drops' = 0, Next PROVE SyncInv'
<1>1. ASSUME NEW n \in Node, NEW c \in Conns, Deliver(n, c) PROVE SyncInv'
  BY <1>1, SyncDelivers
<1>2. ASSUME NEW n \in Node, NEW c \in Conns, Eof(n, c) PROVE SyncInv'
  BY <1>2, SyncCloses
<1>3. Talkers \subseteq Node /\ Inviters \subseteq Node /\ Crashers \subseteq Node
  BY ActorsAssumption DEF Node, Founders
<1>4. \A n \in Node : Up(sess[n]) => Good(n, sess[n]) /\ sess[n].out = <<>>
  BY DEF Inv, Running
<1>5. ASSUME NEW n \in Talkers, Chat(n) PROVE SyncInv'
  <2>1. PICK s, t, z : s = sess[n] /\ t = PaxosRequest(s, "CHAT", z) /\ z = 0
    OBVIOUS
  <2>2. n \in Node /\ Up(s) /\ Good(n, s) /\ s.out = <<>> /\ Step(n, t, inbox)
    BY <1>3, <1>4, <1>5, <2>1 DEF Chat
  <2>3. Kept(n, s, t) /\ Calm(s, t)
    BY <2>1, <2>2, Requests, CalmItself, CalmRequests
  <2>4. t.status \notin SyncFaults
    BY <2>3 DEF Calm
  <2> QED BY <2>1, <2>2, <2>3, <2>4, CalmOwnTurns
<1>6. ASSUME NEW n \in Inviters, NEW j \in Joiners, Invite(n, j) PROVE SyncInv'
  <2>1. PICK s, t : s = sess[n] /\ t = PaxosRequest(s, "JOIN", j)
    OBVIOUS
  <2>2. n \in Node /\ Up(s) /\ Good(n, s) /\ s.out = <<>> /\ Step(n, t, inbox)
    BY <1>3, <1>4, <1>6, <2>1 DEF Invite
  <2>3. Kept(n, s, t) /\ Calm(s, t)
    BY <2>1, <2>2, Requests, CalmItself, CalmRequests
  <2>4. t.status \notin SyncFaults
    BY <2>3 DEF Calm
  <2> QED BY <2>1, <2>2, <2>3, <2>4, CalmOwnTurns
<1>7. ASSUME NEW n \in Node, Tick(n) PROVE SyncInv'
  BY <1>7, SyncTicks
<1>8. ASSUME NEW n \in Node, NEW k \in DOMAIN sess[n].clist, ConnectFails(n, k) PROVE SyncInv'
  <2>1. PICK s, t : s = sess[n] /\ t = Continue([s EXCEPT !.clist = RemoveAt(@, k)], s.clist[k], NoPeer)
    OBVIOUS
  <2>2. Up(s) /\ Good(n, s) /\ s.out = <<>> /\ k \in DOMAIN s.clist /\ Step(n, t, inbox)
    BY <1>4, <1>8, <2>1 DEF ConnectFails
  <2>3. Kept(n, s, t) /\ Calm(s, t)
    BY <2>1, <2>2, ContinuesWithout, CalmFails, Zenon
  <2>4. t.status \notin SyncFaults
    BY <2>3 DEF Calm
  <2> QED BY <2>1, <2>2, <2>3, <2>4, CalmOwnTurns
<1>9. ASSUME NEW n \in Node, NEW k \in DOMAIN sess[n].clist, ConnectSucceeds(n, k) PROVE FALSE
  <2>1. conns' = conns + 1
    BY <1>9, Zenon DEF ConnectSucceeds
  <2> QED BY <2>1
<1>10. ASSUME NEW n \in Crashers, Crash(n) PROVE SyncInv'
  <2>1. PICK s, t : s = sess[n] /\ t = [s EXCEPT !.status = "crashed"]
    BY Zenon
  <2>2. n \in Node /\ DOMAIN s = Fields /\ Step(n, t, inbox)
    BY <1>3, <1>4, <1>10, <2>1 DEF Crash, Good, Sound, Shaped
  <2>3. ~Up(t) /\ t.status \notin SyncFaults
    BY <2>1, <2>2 DEF Up, Fields, SyncFaults
  <2> QED BY <2>2, <2>3, CalmOwnTurns
<1>11. ASSUME NEW c \in Conns, Break(c) PROVE FALSE
  <2>1. drops' = drops + 1
    BY <1>11, Zenon DEF Break
  <2> QED BY <2>1
<1> QED BY <1>1, <1>2, <1>5, <1>6, <1>7, <1>8, <1>9, <1>10, <1>11 DEF Next

(* Nothing happens. *)
LEMMA SyncStutters == ASSUME UNCHANGED vars PROVE drops' = drops /\ (SyncInv => SyncInv')
<1>1. sess' = sess /\ inbox' = inbox /\ drops' = drops
  BY DEF vars, counters
<1>2. Alive' = Alive
  BY <1>1 DEF Alive
<1>3. ASSUME NEW n, NEW w, NEW m, Told(n, w, m) PROVE Told(n, w, m)'
  BY <1>1, <1>2, <1>3 DEF Told
<1>4. ASSUME NEW p, NEW asked, NEW done, Round(p, asked, done) PROVE Round(p, asked, done)'
  <2>1. \A r, e, k : Asks(p, r, e, k)' <=> Asks(p, r, e, k)
    BY <1>1 DEF Asks
  <2>2. \A r : Pending(p, r, done) => Pending(p, r, done)'
    BY <2>1, Zenon DEF Pending
  <2>3. Counts(sess[p], asked, done)'
    BY <1>1, <1>2, <1>4 DEF Round, Counts
  <2> QED BY <1>1, <1>4, <2>2, <2>3 DEF Round
<1>5. ASSUME NEW p \in Alive, Based(sess[p]) PROVE Based(sess[p])'
  BY <1>1, <1>2, <1>5 DEF Based
<1>6. ASSUME SyncInv PROVE SyncInv'
  <2>1. ASSUME NEW e \in DOMAIN inbox', NEW k \in 1 .. Len(inbox'[e])
        PROVE  Told(e[2], OtherEnd(e[1], e[2]), inbox[e][k])'
    <3>1. PICK n, w, m : n = e[2] /\ w = OtherEnd(e[1], n) /\ m = inbox[e][k]
      OBVIOUS
    <3>2. Told(n, w, m)
      BY <1>1, <1>6, <2>1, <3>1 DEF SyncInv
    <3>3. Told(n, w, m)'
      BY <1>3, <3>2
    <3> QED BY <1>1, <3>1, <3>3
  <2>2. ASSUME NEW p \in Alive', sess'[p].sync # NoSync PROVE \E asked, done : Round(p, asked, done)'
    <3>1. PICK asked, done : Round(p, asked, done)
      BY <1>1, <1>2, <1>6, <2>2 DEF SyncInv
    <3> QED BY <1>4, <3>1
  <2>3. \A p \in Alive' : Based(sess[p])'
    BY <1>2, <1>5, <1>6 DEF SyncInv
  <2>4. \A p \in Alive' : Awaits(p)'
    <3>1. \A p \in Alive' : Awaits(p)
      BY <1>2, <1>6 DEF SyncInv
    <3>2. \A p, r, e, k : Asks(p, r, e, k)' <=> Asks(p, r, e, k)
      BY <1>1 DEF Asks
    <3> QED BY <1>1, <3>1, <3>2 DEF Awaits
  <2>5. \A m \in Node : sess'[m].status \notin SyncFaults
    BY <1>1, <1>6 DEF SyncInv
  <2> QED BY <2>1, <2>2, <2>3, <2>4, <2>5 DEF SyncInv
<1> QED BY <1>1, <1>6

(* drops counts the connections that broke. *)
LEMMA DropsGrow ==
  ASSUME Next PROVE drops' = drops \/ drops' = drops + 1
<1>1. ASSUME NEW n, NEW c, Deliver(n, c) \/ Eof(n, c) PROVE drops' = drops
  BY <1>1, Zenon DEF Deliver, Eof, counters
<1>2. ASSUME NEW n, Chat(n) \/ Tick(n) \/ Crash(n) \/ (\E j \in Joiners : Invite(n, j)) PROVE drops' = drops
  BY <1>2, Zenon DEF Chat, Tick, Crash, Invite
<1>3. ASSUME NEW n, NEW k, ConnectFails(n, k) PROVE drops' = drops
  BY <1>3, Zenon DEF ConnectFails, counters
<1>4. ASSUME NEW n, NEW k, ConnectSucceeds(n, k) PROVE drops' = drops
  BY <1>4, Zenon DEF ConnectSucceeds
<1>5. ASSUME NEW c, Break(c) PROVE drops' = drops + 1
  BY <1>5, Zenon DEF Break
<1> QED BY <1>1, <1>2, <1>3, <1>4, <1>5, Zenon DEF Next

(* The initial states. *)
LEMMA SyncStarts == Init => SyncInv
<1> SUFFICES ASSUME Init PROVE SyncInv
  OBVIOUS
<1>1. \A e \in DOMAIN inbox : Len(inbox[e]) = 0
  BY EmptyIsSeq DEF Init
<1>2. N \in Nat /\ N >= 1
  BY NAssumption
<1>3. ASSUME NEW p \in Founders
      PROVE  /\ sess[p].self = p /\ sess[p].proposer = 1 /\ sess[p].ballot.id = 1
             /\ sess[p].sync = NoSync /\ sess[p].sync_id \in Nat
             /\ sess[p].ibase = N /\ sess[p].ihole = N + 1
  <2>1. PICK s : s = InitSession(p)
    OBVIOUS
  <2>2. sess[p] = s
    BY <1>3, <2>1 DEF Init, Node
  <2> QED BY <2>1, <2>2 DEF InitSession
<1>4. ASSUME NEW p \in Alive PROVE Based(sess[p])
  BY <1>2, <1>3, <1>4 DEF Alive, Based, Follows
<1>5. \A p \in Alive : sess[p].sync = NoSync
  BY <1>3 DEF Alive
<1>6. \A p \in Alive : Awaits(p)
  <2>1. \A p, r, e, k : ~Asks(p, r, e, k)
    BY <1>1 DEF Asks
  <2> QED BY <1>5, <2>1 DEF Awaits
<1>7. ASSUME NEW n \in Node PROVE sess[n].status \notin SyncFaults
  <2>1. PICK s : s = IF n \in Founders THEN InitSession(n) ELSE NoSession("idle", 0, <<>>)
    OBVIOUS
  <2>2. s.status \in {"up", "idle"}
    BY <2>1 DEF InitSession, NoSession
  <2> QED BY <2>1, <2>2, Zenon DEF Init, SyncFaults
<1> QED BY <1>1, <1>4, <1>5, <1>6, <1>7 DEF SyncInv

(* It implies that nobody drops what a participant has not learned. *)
LEMMA SyncImplies ==
  ASSUME Inv, SyncInv, drops = 0 PROVE TruncatesLearned
<1> SUFFICES ASSUME NEW n \in UpNodes
             PROVE  /\ \A m \in UpNodes : sess[m].ibase < sess[n].ihole
                    /\ \A e \in DOMAIN inbox : \A k \in DOMAIN inbox[e] :
                         inbox[e][k].op = "TRUNCATE" => inbox[e][k].body < sess[n].ihole
  BY DEF TruncatesLearned
<1>1. \A m \in UpNodes : m \in Alive
  BY AliveUp DEF UpNodes
<1>2. \A m \in UpNodes : sess[m].ibase < sess[n].ihole
  BY <1>1 DEF SyncInv, Based
<1>3. ASSUME NEW e \in DOMAIN inbox, NEW k \in DOMAIN inbox[e], inbox[e][k].op = "TRUNCATE"
      PROVE  inbox[e][k].body < sess[n].ihole
  <2>1. PICK q : q = inbox[e]
    OBVIOUS
  <2>2. IsSeq(q)
    BY <2>1 DEF Inv, Network, IsInbox
  <2>3. k \in 1 .. Len(q)
    BY <1>3, <2>1, <2>2 DEF IsSeq
  <2>4. Told(e[2], OtherEnd(e[1], e[2]), q[k])
    BY <2>1, <2>3 DEF SyncInv
  <2> QED BY <1>1, <1>3, <2>1, <2>4 DEF Told
<1> QED BY <1>2, <1>3

(* The invariant holds in every reachable state without a new connection and without a
   broken one: whatever crashes, fails over or is lost with a process, in a session of any
   number of founders, the messages of the syncs mean what paxos_sync.c takes them for. *)
THEOREM SyncInvariant ==
  Spec => [](conns \in Nat /\ (conns = 0 => Inv /\ (drops = 0 => SyncInv)))
<1> DEFINE I == conns \in Nat /\ (conns = 0 => Inv /\ (drops = 0 => SyncInv))
<1>1. Init => I
  BY Starts, SyncStarts
<1>2. I /\ [Next]_vars => I'
  <2> SUFFICES ASSUME I, [Next]_vars PROVE I'
    OBVIOUS
  <2>1. CASE Next
    <3>1. conns' = conns \/ conns' = conns + 1
      BY <2>1, ConnsGrow
    <3>2. conns' \in Nat /\ (conns' = 0 => conns = 0)
      BY <3>1
    <3>3. ASSUME conns' = 0 PROVE Inv'
      BY <2>1, <3>2, <3>3, Goes
    <3>4. ASSUME conns' = 0, drops' = 0 PROVE SyncInv'
      <4>1. Inv /\ conns = 0 /\ drops \in Nat
        BY <3>2, <3>4 DEF Inv, Network
      <4>2. drops = 0
        BY <2>1, <3>4, <4>1, DropsGrow
      <4> QED BY <2>1, <3>4, <4>1, <4>2, SyncGoes
    <3> QED BY <3>2, <3>3, <3>4
  <2>2. CASE UNCHANGED vars
    BY <2>2, Stutters, SyncStutters
  <2> QED BY <2>1, <2>2
<1> QED BY <1>1, <1>2, PTL DEF Spec

(* proposer_ack_last never counts an answer without a sync (pax->sync is not NULL), and the
   assertion of proposer_truncate, that the base is not taken back, never fails: an answer
   to the latest sync comes in only while that sync is under way, and says at least the
   base of the proposer; whatever the syncs that were given up, new proposers and crashes
   leave on their way. *)
THEOREM SyncsNeverFail == Spec => [](conns = 0 /\ drops = 0 => SyncsHold)
<1>1. conns = 0 /\ drops = 0 /\ (conns \in Nat /\ (conns = 0 => Inv /\ (drops = 0 => SyncInv)))
        => SyncsHold
  BY DEF SyncInv, SyncsHold, Statuses
<1> QED BY <1>1, SyncInvariant, PTL

(* Nobody has dropped, or is told to drop, a decree that a participant has not learned
   (acceptor_ack_truncate, proposer_ack_last): the answers that a sync counts are those of
   different participants to this very sync, each learned more than it has answered ever
   after, and those that were not asked are gone; whatever the timer, new proposers and
   crashes do in between. *)
THEOREM TruncationSafe == Spec => [](conns = 0 /\ drops = 0 => TruncatesLearned)
<1>1. conns = 0 /\ drops = 0 /\ (conns \in Nat /\ (conns = 0 => Inv /\ (drops = 0 => SyncInv)))
        => TruncatesLearned
  BY SyncImplies
<1> QED BY <1>1, SyncInvariant, PTL
=============================================================================
