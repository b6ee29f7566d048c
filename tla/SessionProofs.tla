----------------------------- MODULE SessionProofs ----------------------------
(***************************************************************************)
(* Theorems about PaxosSession for every number of founders and every      *)
(* bound on crashes, broken connections, chats, ticks and generations, up  *)
(* to the first new connection.                                            *)
(***************************************************************************)
EXTENDS SessionHandlers

(* A participant whose session is up: between two turns of its loop nothing waits to be
   written, and its open connections are those of its acceptor list. *)
Running(n) ==
  LET s == sess[n] IN
  /\ Good(n, s) /\ s.out = <<>> /\ s.closed = {} /\ s.gen_high <= MaxGen
  /\ \A id \in Connected(s) : <<s.alist[id], n>> \in DOMAIN inbox
  /\ \A e \in DOMAIN inbox : e[2] = n => \E id \in Connected(s) : s.alist[id] = e[1]

(* Connections are those of the start; their queues hold well-formed messages. *)
Network ==
  /\ \A e \in DOMAIN inbox :
       /\ e = <<e[1], e[2]>> /\ e[2] \in Founders
       /\ \E id \in Founders \ {e[2]} : e[1] = FirstConn(id, e[2])
       /\ IsInbox(e[2], e[1], inbox[e])
  /\ broken \subseteq Conns /\ (drops = 0 => broken = {}) /\ drops \in Nat

(* The inductive invariant, for as long as nobody has connected anew. *)
Inv ==
  /\ sess = [n \in Node |-> sess[n]]
  /\ \A n \in Node : IF Up(sess[n]) THEN Running(n) ELSE "status" \in DOMAIN sess[n]
  /\ Network

(* The sessions of the founders. *)
LEMMA InitialSession ==
  ASSUME NEW n \in Founders, NEW s, s = InitSession(n)
  PROVE  Good(n, s) /\ s.out = <<>> /\ s.closed = {} /\ s.gen_high = 1
         /\ Connected(s) = Founders \ {n}
         /\ \A id \in Connected(s) : s.alist[id] = FirstConn(id, n)
<1> DEFINE b == [id |-> 1, gen |-> 1]
           al == [id \in Founders |-> IF id = n THEN NoPeer ELSE FirstConn(id, n)]
           de == [id \in Founders |-> id]
           x == [DecreeInstance(b, LastJoin) EXCEPT !.committed = TRUE, !.cached = TRUE, !.learned = TRUE]
           l == [i \in {N} |-> x]
<1>1. N \in Nat /\ N >= 1 /\ Founders \subseteq Nat /\ Founders \subseteq Node
  BY NAssumption DEF Founders, Node
<1>2. IsLog(l)
  <2>1. IsValAt(N, LastJoin)
    BY <1>1 DEF IsValAt, LastJoin, ValueOf, Kinds
  <2>2. b \in Bal
    BY DEF Bal
  <2>3. IsInst(N, DecreeInstance(b, LastJoin))
    BY <2>1, <2>2, Instances
  <2>4. IsInst(N, x)
    <3>1. PICK y : y = DecreeInstance(b, LastJoin)
      OBVIOUS
    <3>2. IsInst(N, y)
      BY <2>3, <3>1
    <3> QED BY <3>1, <3>2 DEF IsInst
  <2> HIDE DEF x
  <2> QED BY <1>1, <2>4 DEF IsLog, IsNumbers
<1>3. /\ DOMAIN s = Fields /\ s.self = n /\ s.alist = al /\ s.desc = de /\ s.adefer = <<>>
      /\ s.live_count = N /\ s.proposer = 1 /\ s.ballot = b /\ s.gen_high = 1 /\ s.prep = NoPrep
      /\ s.ilist = l /\ s.ihole = N + 1 /\ s.idefer = <<>> /\ s.clist = <<>> /\ s.out = <<>>
      /\ s.closed = {} /\ s.status = "up"
  BY DEF InitSession, Fields
<1> HIDE DEF l, b
<1>4. Connected(s) = Founders \ {n}
  <2>1. \A id \in Founders : FirstConn(id, n) # NoPeer
    BY <1>1, ConnIs
  <2> QED BY <1>3, <2>1 DEF Connected, Members
<1>5. IsFiniteSet(Founders) /\ Cardinality(Founders) = N /\ Cardinality(Founders \ {n}) = N - 1
  <2>1. IsFiniteSet(Founders) /\ Cardinality(Founders) = N
    BY <1>1, FS_Interval DEF Founders
  <2> QED BY <2>1, FS_RemoveElement
<1>6. Acceptors(n, s)
  BY <1>1, <1>3, <1>5 DEF Acceptors
<1>7. Holes(s) /\ Descs(n, s)
  BY <1>1, <1>3 DEF Holes, Descs, Founders
<1>8. Live(s)
  BY <1>1, <1>3, <1>4, <1>5 DEF Live
<1>9. Promised(s) /\ Proposes(n, s)
  BY <1>3 DEF Promised, Proposes, Bal, b
<1>10. Conts(n, s)
  BY <1>3, EmptyIsSeq DEF Conts
<1>11. Typed(s)
  BY <1>2, <1>3, QueueEmpty DEF Typed, IsOut
<1>12. Meets(n, s) /\ Ranked(n, s) /\ DOMAIN s.adefer = {}
  BY <1>1, <1>3, <1>4 DEF Meets, Ranked, Alive, Founders
<1>13. Good(n, s)
  BY <1>3, <1>6, <1>7, <1>8, <1>9, <1>10, <1>11, <1>12 DEF Good, Sound, Shaped, Up
<1> QED BY <1>3, <1>4, <1>13

(* The initial states. *)
LEMMA Starts == Init => Inv /\ conns = 0
<1> SUFFICES ASSUME Init PROVE Inv /\ conns = 0
  OBVIOUS
<1>1. DOMAIN inbox = UNION {{<<FirstConn(i, n), n>> : i \in Founders \ {n}} : n \in Founders}
      /\ \A e \in DOMAIN inbox : inbox[e] = <<>>
  BY DEF Init
<1>2. Founders \subseteq Nat
  BY DEF Founders
<1>3. Network
  <2>1. ASSUME NEW e \in DOMAIN inbox
        PROVE  /\ e = <<e[1], e[2]>> /\ e[2] \in Founders
               /\ \E id \in Founders \ {e[2]} : e[1] = FirstConn(id, e[2])
               /\ IsInbox(e[2], e[1], inbox[e])
    <3>1. PICK n \in Founders : e \in {<<FirstConn(i, n), n>> : i \in Founders \ {n}}
      BY <1>1, <2>1
    <3>2. PICK i \in Founders \ {n} : e = <<FirstConn(i, n), n>>
      BY <3>1
    <3> QED BY <1>1, <3>2, QueueEmpty
  <2>2. broken \subseteq Conns /\ (drops = 0 => broken = {}) /\ drops \in Nat
    BY DEF Init
  <2> QED BY <2>1, <2>2 DEF Network
<1>4. sess = [n \in Node |-> sess[n]]
  BY DEF Init
<1>5. ASSUME NEW n \in Node PROVE IF Up(sess[n]) THEN Running(n) ELSE "status" \in DOMAIN sess[n]
  <2>1. CASE n \in Founders
    <3>1. PICK s : s = sess[n]
      OBVIOUS
    <3>2. s = InitSession(n)
      BY <2>1, <3>1 DEF Init, Node
    <3>3. Good(n, s) /\ s.out = <<>> /\ s.closed = {} /\ s.gen_high = 1
          /\ Connected(s) = Founders \ {n}
          /\ \A id \in Connected(s) : s.alist[id] = FirstConn(id, n)
      BY <2>1, <3>2, InitialSession
    <3>4. \A id \in Connected(s) : <<s.alist[id], n>> \in DOMAIN inbox
      BY <1>1, <2>1, <3>3
    <3>5. Up(s)
      BY <3>3 DEF Good, Sound, Shaped
    <3>6. ASSUME NEW e \in DOMAIN inbox, e[2] = n PROVE \E id \in Connected(s) : s.alist[id] = e[1]
      <4>1. PICK id \in Founders \ {n} : e[1] = FirstConn(id, n)
        BY <1>3, <3>6 DEF Network
      <4> QED BY <2>1, <3>2, <4>1, InitialSession
    <3> QED BY <3>1, <3>3, <3>4, <3>5, <3>6, BoundsAssumption DEF Running
  <2>2. CASE n \notin Founders
    <3>1. sess[n] = NoSession("idle", 0, <<>>)
      BY <1>5, <2>2 DEF Init
    <3> QED BY <3>1 DEF NoSession, Up
  <2> QED BY <2>1, <2>2
<1> QED BY <1>3, <1>4, <1>5 DEF Inv, Init

(* Nobody comes back to life, so what does not concern the living goes on not to. *)
LEMMA LiftsValues ==
  ASSUME Alive' \subseteq Alive
  PROVE  /\ \A v : IsVal(v) => IsVal(v)'
         /\ \A i, v : IsValAt(i, v) => IsValAt(i, v)'
BY DEF IsVal, IsValAt

(* A well-formed log stays well formed. *)
LEMMA LiftsLog ==
  ASSUME Alive' \subseteq Alive, NEW l, IsLog(l) PROVE IsLog(l)'
BY LiftsValues DEF IsLog, IsInst

(* So does what is in flight. *)
LEMMA LiftsMessage ==
  ASSUME Alive' \subseteq Alive, NEW m, IsMsg(m) PROVE IsMsg(m)'
BY LiftsValues DEF IsMsg, IsVotes, IsVote

(* So does what is still to be read from a connection. *)
LEMMA LiftsInbox ==
  ASSUME Alive' \subseteq Alive, NEW n, NEW c, NEW q, IsInbox(n, c, q) PROVE IsInbox(n, c, q)'
BY LiftsMessage DEF IsInbox, Arrives

(* And a good session stays good while others step. *)
LEMMA LiftsGood ==
  ASSUME Alive' \subseteq Alive, NEW n, NEW s, Good(n, s) PROVE Good(n, s)'
<1>1. IsLog(s.ilist)'
  BY LiftsLog DEF Good, Sound, Shaped, Typed
<1>2. IsVals(s.idefer)'
  BY LiftsValues DEF Good, Sound, Shaped, Typed, IsVals
<1>3. IsOut(s.self, s.out)'
  BY LiftsMessage DEF Good, Sound, Shaped, Typed, IsOut, IsQueue, Routed
<1>4. Conts(n, s)' /\ Meets(n, s)'
  BY DEF Good, Sound, Shaped, Conts, Meets
<1> QED BY <1>1, <1>2, <1>3, <1>4 DEF Good, Sound, Shaped, Typed

(* A turn of the loop of n that leaves session t and network net: what t has written
   goes to the other ends, and what it has closed is closed. *)
LEMMA Steps ==
  ASSUME Inv, NEW n \in Node, NEW t, NEW net, Step(n, t, net),
         drops' = drops,
         DOMAIN net \subseteq DOMAIN inbox, \A e \in DOMAIN net : IsInbox(e[2], e[1], net[e]),
         \A e \in DOMAIN inbox : e[2] # n => e \in DOMAIN net,
         Up(t) => Up(sess[n]) /\ Good(n, t),
         Up(t) => \A id \in Connected(t) : <<t.alist[id], n>> \in DOMAIN net,
         Up(t) => \A e \in DOMAIN net : e[2] = n /\ e[1] \notin t.closed =>
                    \E id \in Connected(t) : t.alist[id] = e[1]
  PROVE  Inv' /\ (sess' = [sess EXCEPT ![n] = sess'[n]]) /\ (Up(sess'[n]) => Up(t) /\ sess'[n].ballot = t.ballot)
<1>1. PICK ends : ends = OpenEnds(DOMAIN net, n, t)
  OBVIOUS
<1>2. PICK again : again = Rewatched(ends, n, t)
  OBVIOUS
<1>3. PICK u : u = (IF Up(t) THEN [t EXCEPT !.out = <<>>, !.closed = {}]
                    ELSE NoSession(t.status, t.first, t.log))
  OBVIOUS
<1> DEFINE reaches(e) == /\ Up(t) /\ e[2] # n /\ <<e[1], n>> \in ends
                         /\ e[1] \notin broken
                         /\ Listens(sess[e[2]])
           queue(e) == IF e \in again THEN <<>>
                       ELSE IF reaches(e) THEN net[e] \o Sent(t, e[1]) ELSE net[e]
<1>4. /\ t.gen_high <= MaxGen /\ sess' = [sess EXCEPT ![n] = u]
      /\ inbox' = [e \in ends \union again |-> queue(e)]
      /\ broken' = {c \in broken : \E e \in ends : e[1] = c}
  BY <1>1, <1>2, <1>3 DEF Step
<1>4a. \A e : queue(e) \in {<<>>, net[e]} \/ (reaches(e) /\ queue(e) = net[e] \o Sent(t, e[1]))
  OBVIOUS
<1> HIDE DEF queue
<1>4b. /\ DOMAIN inbox' = ends \union again
       /\ \A e \in ends \union again : inbox'[e] = queue(e)
  BY <1>4
<1>5. ends \subseteq DOMAIN net
  BY <1>1 DEF OpenEnds
<1>6. ASSUME NEW m \in Node, m # n, Up(sess[m]), NEW c, <<c, m>> \in DOMAIN inbox
      PROVE  <<c, m>> \in ends
  BY <1>1, <1>6 DEF OpenEnds, Listens, Up
<1>7. ASSUME Up(t), NEW id \in Connected(t) PROVE <<t.alist[id], n>> \in ends
  <2>1. t.alist[id] \notin t.closed
    BY <1>7 DEF Good, Sound, Shaped, Live
  <2> QED BY <1>1, <1>7, <2>1 DEF OpenEnds, Listens, Up
<1>8. again = {}
  BY <1>2, <1>7 DEF Rewatched
<1>9. DOMAIN sess' = Node /\ sess' = [m \in Node |-> sess'[m]] /\ sess'[n] = u
      /\ \A m \in Node : m # n => sess'[m] = sess[m]
  BY <1>4 DEF Inv
<1>9a. Alive' \subseteq Alive
  <2>1. Up(u) => Up(sess[n])
    BY <1>3 DEF NoSession, Up
  <2>2. \A m \in Founders : Up(sess'[m]) => Up(sess[m])
    BY <1>9, <2>1 DEF Node
  <2> QED BY <2>2 DEF Alive
<1>10. Network'
  <2>1. ASSUME NEW e \in DOMAIN inbox'
        PROVE  /\ e = <<e[1], e[2]>> /\ e[2] \in Founders
               /\ \E id \in Founders \ {e[2]} : e[1] = FirstConn(id, e[2])
               /\ IsInbox(e[2], e[1], inbox[e])'
    <3>1. e \in ends /\ e \in DOMAIN net /\ e \in DOMAIN inbox /\ inbox'[e] = queue(e)
      BY <1>4b, <1>5, <1>8, <2>1
    <3>2. /\ e = <<e[1], e[2]>> /\ e[2] \in Founders
          /\ \E id \in Founders \ {e[2]} : e[1] = FirstConn(id, e[2])
      BY <3>1 DEF Inv, Network
    <3>3. PICK c, o, q, x : c = e[1] /\ o = e[2] /\ q = queue(e) /\ x = net[e]
      OBVIOUS
    <3>4. IsInbox(o, c, x)
      BY <3>1, <3>3
    <3>5. ASSUME reaches(e), q = x \o Sent(t, c) PROVE IsInbox(o, c, q)
      <4>1. Up(t) /\ o # n /\ <<c, n>> \in DOMAIN inbox
        BY <1>5, <3>3, <3>5
      <4>2. PICK f : f = <<c, n>>
        OBVIOUS
      <4>3. PICK id \in Founders : c = FirstConn(id, n)
        <5>1. f \in DOMAIN inbox /\ f[1] = c /\ f[2] = n
          BY <4>1, <4>2
        <5>2. \E id \in Founders \ {f[2]} : f[1] = FirstConn(id, f[2])
          BY <5>1 DEF Inv, Network
        <5> QED BY <5>1, <5>2
      <4>4. n \in Nat /\ o \in Nat /\ c = FirstConn(o, n)
        <5>1. n \in Founders
          BY <4>1 DEF Good, Sound, Shaped
        <5>2. PICK k \in Founders : c = FirstConn(k, o)
          BY <3>2, <3>3
        <5> QED BY <3>2, <3>3, <4>1, <4>3, <5>1, <5>2 DEF FirstConn, Founders
      <4>5. PICK w : w = Sent(t, c)
        OBVIOUS
      <4>6. IsQueue(n, c, w)
        BY <4>1, <4>5, QueueEmpty DEF Good, Sound, Shaped, Typed, IsOut, Sent
      <4>7. IsInbox(o, c, x \o w)
        BY <3>4, <4>1, <4>4, <4>6, InboxConcat
      <4> QED BY <3>5, <4>5, <4>7
    <3>5a. q = <<>> \/ q = x \/ (reaches(e) /\ q = x \o Sent(t, c))
      BY <1>4a, <3>3
    <3>6. IsInbox(o, c, q)
      BY <3>4, <3>5, <3>5a, QueueEmpty
    <3>7. IsInbox(o, c, q)'
      BY <1>9a, <3>6, LiftsInbox
    <3> QED BY <3>1, <3>2, <3>3, <3>7
  <2>2. broken' \subseteq Conns' /\ (drops' = 0 => broken' = {}) /\ drops' \in Nat
    BY <1>4, <1>4b DEF Conns, Inv, Network
  <2> QED BY <2>1, <2>2 DEF Network
<1>11. ASSUME NEW m \in Node, m # n
       PROVE  IF Up(sess'[m]) THEN Running(m)' ELSE "status" \in DOMAIN sess'[m]
  <2>1. sess'[m] = sess[m]
    BY <1>9, <1>11
  <2>2. CASE Up(sess[m])
    <3>1. \A id \in Connected(sess[m]) : <<sess[m].alist[id], m>> \in DOMAIN inbox'
      BY <1>4b, <1>6, <1>11, <2>2 DEF Inv, Running
    <3>2. PICK s : s = sess[m]
      OBVIOUS
    <3>3. Good(m, s) /\ s.out = <<>> /\ s.closed = {} /\ s.gen_high <= MaxGen
      BY <2>2, <3>2 DEF Inv, Running
    <3>4. Good(m, s)'
      BY <1>9a, <3>3, LiftsGood
    <3>5. ASSUME NEW e \in DOMAIN inbox', e[2] = m PROVE \E id \in Connected(s) : s.alist[id] = e[1]
      <4>1. e \in DOMAIN inbox
        BY <1>4b, <1>5, <1>8, <3>5
      <4> QED BY <2>2, <3>2, <3>5, <4>1 DEF Inv, Running
    <3> QED BY <2>1, <2>2, <3>1, <3>2, <3>3, <3>4, <3>5 DEF Running
  <2>3. CASE ~Up(sess[m])
    BY <2>1, <2>3 DEF Inv
  <2> QED BY <2>2, <2>3
<1>12. IF Up(u) THEN Running(n)' /\ Up(t) /\ u.ballot = t.ballot ELSE "status" \in DOMAIN u
  <2>1. CASE Up(t)
    <3>1. /\ DOMAIN t = Fields /\ u = [t EXCEPT !.out = <<>>, !.closed = {}]
      BY <1>3, <2>1 DEF Good, Sound, Shaped
    <3>2. /\ DOMAIN u = Fields /\ u.gen_high = t.gen_high /\ u.prep = t.prep /\ u.idefer = t.idefer
          /\ u.status = t.status /\ u.self = t.self /\ u.alist = t.alist /\ u.desc = t.desc
          /\ u.adefer = t.adefer /\ u.live_count = t.live_count /\ u.proposer = t.proposer
          /\ u.ballot = t.ballot /\ u.ihole = t.ihole /\ u.clist = t.clist /\ u.closed = {}
          /\ u.ilist = t.ilist /\ u.out = <<>>
      BY <3>1 DEF Fields
    <3>3. Connected(u) = Connected(t)
      BY <3>2 DEF Connected, Members
    <3>4. Acceptors(n, u) /\ Descs(n, u) /\ Live(u) /\ Holes(u)
      BY <2>1, <3>2, <3>3 DEF Good, Sound, Shaped, Acceptors, Descs, Live, Holes
    <3>5. Promised(u) /\ Proposes(n, u) /\ Meets(n, u) /\ Ranked(n, u)
      BY <2>1, <3>2, <3>3 DEF Good, Sound, Shaped, Promised, Proposes, Meets, Ranked
    <3>6. Conts(n, u)
      BY <2>1, <3>2 DEF Good, Sound, Shaped, Conts
    <3>7. Typed(u)
      BY <2>1, <3>2, QueueEmpty DEF Good, Sound, Shaped, Typed, IsOut
    <3>8. Good(n, u)
      BY <2>1, <3>2, <3>4, <3>5, <3>6, <3>7 DEF Good, Sound, Shaped, Up
    <3>8a. Good(n, u)'
      BY <1>9a, <3>8, LiftsGood
    <3>9. \A id \in Connected(u) : <<u.alist[id], n>> \in DOMAIN inbox'
      BY <1>4b, <1>7, <2>1, <3>2, <3>3
    <3>9a. ASSUME NEW e \in DOMAIN inbox', e[2] = n PROVE \E id \in Connected(u) : u.alist[id] = e[1]
      <4>1. e \in ends /\ e \in DOMAIN net
        BY <1>4b, <1>5, <1>8, <3>9a
      <4>2. e[1] \notin t.closed
        BY <1>1, <3>9a, <4>1 DEF OpenEnds
      <4> QED BY <2>1, <3>2, <3>3, <3>9a, <4>1, <4>2
    <3>10. Running(n)'
      BY <1>4, <1>9, <3>2, <3>8a, <3>9, <3>9a DEF Running
    <3>11. Up(u)
      BY <3>8 DEF Good, Sound, Shaped
    <3> QED BY <2>1, <3>2, <3>10, <3>11
  <2>2. CASE ~Up(t)
    BY <1>3, <2>2 DEF NoSession, Up
  <2> QED BY <2>1, <2>2
<1>13. \A m \in Node : IF Up(sess'[m]) THEN Running(m)' ELSE "status" \in DOMAIN sess'[m]
  <2> SUFFICES ASSUME NEW m \in Node
               PROVE  IF Up(sess'[m]) THEN Running(m)' ELSE "status" \in DOMAIN sess'[m]
    OBVIOUS
  <2> QED BY <1>9, <1>11, <1>12
<1>14. Inv'
  BY <1>9, <1>10, <1>13 DEF Inv
<1> QED BY <1>4, <1>9, <1>12, <1>14

(* No session that stays up lowers its ballot. *)
Promises ==
  \A n \in UpNodes : Up(sess'[n]) => BallotCompare(sess'[n].ballot, sess[n].ballot) >= 0

(* What is left of the connections of a session, with those of `lost' taken off its
   input: the open ones are attached, and the attached ones open. *)
LEMMA Ends ==
  ASSUME NEW n, NEW s, Good(n, s), NEW t, Good(n, t), NEW lost, Shrinks(n, s, t, lost),
         \A id \in Connected(t) : t.alist[id] \notin lost
  PROVE  /\ \A id \in Connected(t) : id \in Connected(s) /\ t.alist[id] = s.alist[id]
         /\ \A id \in Connected(s) : s.alist[id] \notin t.closed \union lost =>
              id \in Connected(t) /\ t.alist[id] = s.alist[id]
<1>1. \A id \in Connected(t) : id \in Connected(s) /\ t.alist[id] = s.alist[id]
  BY DEF Good, Sound, Shaped, Acceptors, Connected, Members, Shrinks
<1>2. \A id \in Connected(s) : s.alist[id] = FirstConn(id, n)
  BY DEF Good, Sound, Shaped, Acceptors, Connected, Members
<1> QED BY <1>1, <1>2 DEF Shrinks

(* A turn that takes the connections of `lost' off the input and keeps the promise. *)
LEMMA Turns ==
  ASSUME Inv, NEW n \in Node, NEW t, NEW net, NEW lost, Step(n, t, net), drops' = drops,
         DOMAIN net = DOMAIN inbox \ {<<c, n>> : c \in lost},
         \A e \in DOMAIN net : IsInbox(e[2], e[1], net[e]),
         Up(t) => Up(sess[n]) /\ Good(n, t) /\ BallotCompare(t.ballot, sess[n].ballot) >= 0,
         Up(t) => Shrinks(n, sess[n], t, lost) /\ \A id \in Connected(t) : t.alist[id] \notin lost
  PROVE  Inv' /\ Promises
<1>1. Up(t) => \A id \in Connected(t) : <<t.alist[id], n>> \in DOMAIN net
  <2> SUFFICES ASSUME Up(t), NEW id \in Connected(t) PROVE <<t.alist[id], n>> \in DOMAIN net
    OBVIOUS
  <2>1. PICK s : s = sess[n]
    OBVIOUS
  <2>2. Good(n, s) /\ \A k \in Connected(s) : <<s.alist[k], n>> \in DOMAIN inbox
    BY <2>1 DEF Inv, Running
  <2>3. id \in Connected(s) /\ t.alist[id] = s.alist[id] /\ t.alist[id] \notin lost
    BY <2>1, <2>2, Ends
  <2> QED BY <2>2, <2>3
<1>2. Up(t) => \A e \in DOMAIN net : e[2] = n /\ e[1] \notin t.closed =>
                 \E id \in Connected(t) : t.alist[id] = e[1]
  <2> SUFFICES ASSUME Up(t), NEW e \in DOMAIN net, e[2] = n, e[1] \notin t.closed
               PROVE  \E id \in Connected(t) : t.alist[id] = e[1]
    OBVIOUS
  <2>1. PICK s : s = sess[n]
    OBVIOUS
  <2>2. e \in DOMAIN inbox /\ e = <<e[1], n>> /\ e[1] \notin lost
    <3>1. e \in DOMAIN inbox /\ e = <<e[1], n>>
      BY DEF Inv, Network
    <3> QED BY <3>1
  <2>3. Good(n, s)
    BY <2>1 DEF Inv, Running
  <2>4. PICK id \in Connected(s) : s.alist[id] = e[1]
    BY <2>1, <2>2 DEF Inv, Running
  <2> QED BY <2>1, <2>2, <2>3, <2>4, Ends
<1>3. DOMAIN net \subseteq DOMAIN inbox /\ \A e \in DOMAIN inbox : e[2] # n => e \in DOMAIN net
  OBVIOUS
<1>4. Inv' /\ (sess' = [sess EXCEPT ![n] = sess'[n]]) /\ (Up(sess'[n]) => Up(t) /\ sess'[n].ballot = t.ballot)
  BY <1>1, <1>2, <1>3, Steps
<1>5. ASSUME NEW m \in UpNodes, Up(sess'[m]) PROVE BallotCompare(sess'[m].ballot, sess[m].ballot) >= 0
  <2>1. CASE m = n
    BY <1>4, <1>5, <2>1
  <2>2. CASE m # n
    <3>1. sess'[m] = sess[m]
      BY <1>4, <2>2 DEF Inv, UpNodes
    <3>2. sess[m].ballot \in Bal
      BY <1>5 DEF UpNodes, Inv, Running, Good, Sound, Shaped, Promised
    <3> QED BY <3>1, <3>2 DEF Bal, BallotCompare, PaxidCompare
  <2> QED BY <2>1, <2>2
<1> QED BY <1>4, <1>5 DEF Promises

(* The turns that take no connection off the input. *)
LEMMA OpenTurns ==
  ASSUME Inv, NEW n \in Node, NEW t, NEW net, Step(n, t, net), drops' = drops,
         DOMAIN net = DOMAIN inbox, \A e \in DOMAIN net : IsInbox(e[2], e[1], net[e]),
         Up(t) => Up(sess[n]) /\ Outcome(n, sess[n], t)
  PROVE  Inv' /\ Promises
<1>1. PICK lost : lost = {}
  OBVIOUS
<1>2. DOMAIN net = DOMAIN inbox \ {<<c, n>> : c \in lost}
  BY <1>1
<1>3. /\ Up(t) => Up(sess[n]) /\ Good(n, t) /\ BallotCompare(t.ballot, sess[n].ballot) >= 0
      /\ Up(t) => Shrinks(n, sess[n], t, lost) /\ \A id \in Connected(t) : t.alist[id] \notin lost
  BY <1>1 DEF Outcome
<1> QED BY <1>2, <1>3, Turns

(* The turns that read nothing. *)
LEMMA OwnTurns ==
  ASSUME Inv, NEW n \in Node, NEW t, Step(n, t, inbox), drops' = drops, Up(sess[n]), Kept(n, sess[n], t)
  PROVE  Inv' /\ Promises
<1>1. PICK s : s = sess[n]
  OBVIOUS
<1>2. Good(n, s)
  BY <1>1 DEF Inv, Running
<1>3. Outcome(n, s, t)
  BY <1>1, <1>2, KeptOutcome
<1>4. \A e \in DOMAIN inbox : IsInbox(e[2], e[1], inbox[e])
  BY DEF Inv, Network
<1> QED BY <1>1, <1>3, <1>4, OpenTurns

(* A session that is over. *)
LEMMA LastTurns ==
  ASSUME Inv, NEW n \in Node, NEW t, Step(n, t, inbox), drops' = drops, ~Up(t)
  PROVE  Inv' /\ Promises
<1>1. \A e \in DOMAIN inbox : IsInbox(e[2], e[1], inbox[e])
  BY DEF Inv, Network
<1> QED BY <1>1, OpenTurns

(* A message is read. *)
LEMMA Delivers ==
  ASSUME Inv, NEW n \in Node, NEW c, Deliver(n, c) PROVE Inv' /\ Promises
<1>1. PICK s, q, m, t, d : /\ s = sess[n] /\ q = inbox[<<c, n>>] /\ m = Head(q)
                           /\ t = PaxosDispatch(s, c, m) /\ d = <<c, n>>
  OBVIOUS
<1>2. PICK net : net = [inbox EXCEPT ![d] = Tail(q)]
  OBVIOUS
<1>3. d \in DOMAIN inbox /\ q # <<>> /\ Step(n, t, net)
  BY <1>1, <1>2 DEF Deliver
<1>3a. drops' = drops
  BY Zenon DEF Deliver, counters
<1>4. \A e \in DOMAIN inbox : IsInbox(e[2], e[1], inbox[e])
  BY DEF Inv, Network
<1>5. d[1] = c /\ d[2] = n /\ q = inbox[d]
  BY <1>1
<1>6. IsInbox(n, c, q)
  BY <1>3, <1>4, <1>5
<1>7. IsInbox(n, c, Tail(q)) /\ Arrives(n, c, m)
  BY <1>1, <1>3, <1>6, InboxTail
<1>8. DOMAIN net = DOMAIN inbox /\ \A e \in DOMAIN net : IsInbox(e[2], e[1], net[e])
  BY <1>2, <1>4, <1>5, <1>7
<1>9. CASE Up(s)
  <2>1. Good(n, s) /\ \E id \in Connected(s) : s.alist[id] = c
    BY <1>1, <1>3, <1>5, <1>9 DEF Inv, Running
  <2>2. Outcome(n, s, t)
    BY <1>1, <1>7, <2>1, Dispatches
  <2> QED BY <1>1, <1>3, <1>3a, <1>8, <1>9, <2>2, OpenTurns
<1>10. CASE ~Up(s)
  <2>1. t = s
    <3>1. m.op # "WELCOME"
      BY <1>7 DEF Arrives, IsMsg, Ops
    <3> QED BY <1>1, <1>10, <3>1 DEF PaxosDispatch
  <2> QED BY <1>1, <1>3, <1>3a, <1>8, <1>10, <2>1, OpenTurns
<1> QED BY <1>9, <1>10

(* While no connection has broken, an end of file comes from a process that is gone:
   whoever is alive still has its end of the connection. *)
LEMMA EofOfTheGone ==
  ASSUME Inv, NEW n \in Node, NEW c, Eof(n, c), Up(sess[n]),
         NEW id \in Connected(sess[n]), sess[n].alist[id] = c
  PROVE  id \notin Alive
<1> SUFFICES ASSUME id \in Alive PROVE FALSE
  OBVIOUS
<1>1. PICK s, t : s = sess[n] /\ t = sess[id]
  OBVIOUS
<1>2. drops = 0 /\ id \in Founders /\ Up(t)
  BY <1>1 DEF Alive
<1>3. Good(n, s) /\ n \in Founders
  BY <1>1 DEF Inv, Running, Good, Sound, Shaped
<1>4. id # n /\ id \in Nat /\ n \in Nat /\ c = FirstConn(id, n)
  BY <1>1, <1>2, <1>3 DEF Good, Sound, Shaped, Acceptors, Connected, Members, Founders
<1>5. OtherEnd(c, n) = id /\ c = FirstConn(n, id)
  BY <1>4 DEF OtherEnd, FirstConn
<1>6. <<c, id>> \notin DOMAIN inbox
  <2>1. broken = {}
    BY <1>2 DEF Inv, Network
  <2> QED BY <1>5, <2>1 DEF Eof
<1>7. Good(id, t) /\ \A k \in Connected(t) : <<t.alist[k], id>> \in DOMAIN inbox
  BY <1>1, <1>2 DEF Inv, Running, Node
<1>8. n \in Connected(t)
  <2>1. n \in Alive \ {id}
    BY <1>2, <1>3, <1>4 DEF Alive
  <2> QED BY <1>7, <2>1 DEF Good, Sound, Shaped, Meets
<1>9. t.alist[n] = c
  BY <1>5, <1>7, <1>8 DEF Good, Sound, Shaped, Acceptors, Connected, Members
<1> QED BY <1>6, <1>7, <1>8, <1>9

(* An end of file is read. *)
LEMMA Closes ==
  ASSUME Inv, NEW n \in Node, NEW c, Eof(n, c) PROVE Inv' /\ Promises
<1>1. PICK s, t, lost : s = sess[n] /\ (t = IF Up(s) THEN PaxosDropConnection(s, c) ELSE s) /\ lost = {c}
  OBVIOUS
<1>2. PICK net : net = [e \in DOMAIN inbox \ {<<c, n>>} |-> inbox[e]]
  OBVIOUS
<1>3. <<c, n>> \in DOMAIN inbox /\ Step(n, t, net)
  BY <1>1, <1>2 DEF Eof
<1>3a. drops' = drops
  BY Zenon DEF Eof, counters
<1>4. \A e \in DOMAIN inbox : IsInbox(e[2], e[1], inbox[e])
  BY DEF Inv, Network
<1>5. /\ DOMAIN net = DOMAIN inbox \ {<<b, n>> : b \in lost}
      /\ \A e \in DOMAIN net : IsInbox(e[2], e[1], net[e])
  BY <1>1, <1>2, <1>4
<1>6. Up(t) => /\ Up(s) /\ Good(n, t) /\ BallotCompare(t.ballot, s.ballot) >= 0
               /\ Shrinks(n, s, t, lost) /\ \A id \in Connected(t) : t.alist[id] \notin lost
  <2> SUFFICES ASSUME Up(t)
               PROVE  /\ Up(s) /\ Good(n, t) /\ BallotCompare(t.ballot, s.ballot) >= 0
                      /\ Shrinks(n, s, t, lost) /\ \A id \in Connected(t) : t.alist[id] \notin lost
    OBVIOUS
  <2>1. Up(s) /\ t = PaxosDropConnection(s, c)
    BY <1>1
  <2>2. Good(n, s)
    BY <1>1, <2>1 DEF Inv, Running
  <2>3. c # NoPeer
    <3>1. PICK d : d = <<c, n>>
      OBVIOUS
    <3>2. PICK id \in Founders : c = FirstConn(id, n)
      BY <1>3, <3>1 DEF Inv, Network
    <3>3. n \in Founders /\ Founders \subseteq Nat
      BY <2>2 DEF Good, Sound, Shaped, Founders
    <3> QED BY <3>2, <3>3, ConnIs
  <2>4. \A id \in Connected(s) : s.alist[id] = c => id \notin Alive
    BY <1>1, <2>1, EofOfTheGone
  <2>5. /\ Good(n, t) /\ t.ballot = s.ballot /\ Shrinks(n, s, t, {c})
        /\ \A id \in Connected(t) : t.alist[id] # c
    BY <2>1, <2>2, <2>3, <2>4, Drops
  <2>6. BallotCompare(s.ballot, s.ballot) >= 0
    BY <2>2 DEF Good, Sound, Shaped, Promised, Bal, BallotCompare, PaxidCompare
  <2> QED BY <1>1, <2>1, <2>5, <2>6
<1> QED BY <1>1, <1>3, <1>3a, <1>5, <1>6, Turns

(* A step that leaves the sessions and what is in flight alone. *)
LEMMA Idles ==
  ASSUME Inv, sess' = sess, inbox' = inbox, Alive' \subseteq Alive, broken' \subseteq Conns',
         drops' = 0 => broken' = {}, drops' \in Nat
  PROVE  Inv'
<1>1. ASSUME NEW n \in Node PROVE IF Up(sess'[n]) THEN Running(n)' ELSE "status" \in DOMAIN sess'[n]
  <2>1. PICK s : s = sess[n]
    OBVIOUS
  <2>2. CASE Up(s)
    <3>1. Good(n, s)
      BY <2>1, <2>2 DEF Inv, Running
    <3>2. Good(n, s)'
      BY <3>1, LiftsGood
    <3> QED BY <2>1, <2>2, <3>2 DEF Inv, Running
  <2>3. CASE ~Up(s)
    BY <2>1, <2>3 DEF Inv
  <2> QED BY <2>2, <2>3
<1>2. ASSUME NEW e \in DOMAIN inbox PROVE IsInbox(e[2], e[1], inbox[e])'
  <2>1. PICK c, o, q : c = e[1] /\ o = e[2] /\ q = inbox[e]
    OBVIOUS
  <2>2. IsInbox(o, c, q)
    BY <1>2, <2>1 DEF Inv, Network
  <2>3. IsInbox(o, c, q)'
    BY <2>2, LiftsInbox
  <2> QED BY <2>1, <2>3
<1>3. Network'
  BY <1>2 DEF Inv, Network
<1> QED BY <1>1, <1>3 DEF Inv

(* One case per action. *)
LEMMA Goes ==
  ASSUME Inv, conns = 0, conns' = 0, Next PROVE Inv' /\ Promises
<1>1. ASSUME NEW n \in Node, NEW c \in Conns, Deliver(n, c) PROVE Inv' /\ Promises
  BY <1>1, Delivers
<1>2. ASSUME NEW n \in Node, NEW c \in Conns, Eof(n, c) PROVE Inv' /\ Promises
  BY <1>2, Closes
<1>0. Talkers \subseteq Node /\ Inviters \subseteq Node /\ Crashers \subseteq Node /\ Joiners \subseteq Node
  BY ActorsAssumption DEF Node, Founders
<1>00. \A n \in Node : Up(sess[n]) => Good(n, sess[n])
  BY DEF Inv, Running
<1>3. ASSUME NEW n \in Talkers, Chat(n) PROVE Inv' /\ Promises
  <2>1. PICK s, t, z : s = sess[n] /\ t = PaxosRequest(s, "CHAT", z) /\ z = 0
    OBVIOUS
  <2>2. n \in Node /\ Up(s) /\ Good(n, s) /\ Step(n, t, inbox)
    BY <1>0, <1>00, <1>3, <2>1 DEF Chat
  <2>2a. drops' = drops
    BY <1>3, Zenon DEF Chat
  <2>3. Kept(n, s, t)
    BY <2>1, <2>2, Requests
  <2> QED BY <2>1, <2>2, <2>2a, <2>3, OwnTurns
<1>4. ASSUME NEW n \in Inviters, NEW j \in Joiners, Invite(n, j) PROVE Inv' /\ Promises
  <2>1. PICK s, t : s = sess[n] /\ t = PaxosRequest(s, "JOIN", j)
    OBVIOUS
  <2>2. n \in Node /\ Up(s) /\ Good(n, s) /\ Step(n, t, inbox)
    BY <1>0, <1>00, <1>4, <2>1 DEF Invite
  <2>2a. drops' = drops
    BY <1>4, Zenon DEF Invite
  <2>3. Kept(n, s, t)
    BY <2>1, <2>2, Requests
  <2> QED BY <2>1, <2>2, <2>2a, <2>3, OwnTurns
<1>5. ASSUME NEW n \in Node, Tick(n) PROVE Inv' /\ Promises
  <2>1. PICK s, t, u : s = sess[n] /\ t = ProposerSync(s) /\ u = [s EXCEPT !.status = "tick without a session"]
    OBVIOUS
  <2>2. (Up(s) /\ IsProposer(s) /\ Step(n, t, inbox)) \/ (s.status = "left" /\ Step(n, u, inbox))
    BY <1>5, <2>1 DEF Tick
  <2>2a. drops' = drops
    BY <1>5, Zenon DEF Tick
  <2>3. CASE Up(s) /\ IsProposer(s) /\ Step(n, t, inbox)
    <3>1. Good(n, s) /\ s.proposer = n
      BY <1>00, <2>1, <2>3 DEF Good, Sound, Shaped, IsProposer
    <3>2. Kept(n, s, t)
      BY <2>1, <3>1, SyncSends
    <3> QED BY <2>1, <2>2a, <2>3, <3>2, OwnTurns
  <2>4. CASE s.status = "left" /\ Step(n, u, inbox)
    <3>1. "status" \in DOMAIN s
      BY <2>1, <2>4 DEF Inv, Up
    <3>2. ~Up(u)
      BY <2>1, <3>1 DEF Up
    <3> QED BY <2>2a, <2>4, <3>2, LastTurns
  <2> QED BY <2>2, <2>3, <2>4
<1>6. ASSUME NEW n \in Node, NEW k \in DOMAIN sess[n].clist, ConnectFails(n, k) PROVE Inv' /\ Promises
  <2>1. PICK s, t : s = sess[n] /\ t = Continue([s EXCEPT !.clist = RemoveAt(@, k)], s.clist[k], NoPeer)
    OBVIOUS
  <2>2. Up(s) /\ Good(n, s) /\ k \in DOMAIN s.clist /\ Step(n, t, inbox)
    BY <1>00, <1>6, <2>1 DEF ConnectFails
  <2>2a. drops' = drops
    BY <1>6, Zenon DEF ConnectFails, counters
  <2>3. Kept(n, s, t)
    BY <2>1, <2>2, ContinuesWithout
  <2> QED BY <2>1, <2>2, <2>2a, <2>3, OwnTurns
<1>7. ASSUME NEW n \in Node, NEW k \in DOMAIN sess[n].clist, ConnectSucceeds(n, k) PROVE FALSE
  <2>1. conns' = conns + 1
    BY <1>7, Zenon DEF ConnectSucceeds
  <2> QED BY <2>1
<1>8. ASSUME NEW n \in Crashers, Crash(n) PROVE Inv' /\ Promises
  <2>1. PICK s, t : s = sess[n] /\ t = [s EXCEPT !.status = "crashed"]
    OBVIOUS
  <2>2. n \in Node /\ DOMAIN s = Fields /\ Step(n, t, inbox)
    BY <1>0, <1>00, <1>8, <2>1 DEF Crash, Good, Sound, Shaped
  <2>2a. drops' = drops
    BY <1>8, Zenon DEF Crash
  <2>3. ~Up(t)
    BY <2>1, <2>2 DEF Up, Fields
  <2> QED BY <2>2, <2>2a, <2>3, LastTurns
<1>9. ASSUME NEW c \in Conns, Break(c) PROVE Inv' /\ Promises
  <2>1. sess' = sess /\ inbox' = inbox /\ broken' = broken \union {c} /\ drops' = drops + 1
    BY <1>9 DEF Break
  <2>2. Inv'
    <3>1. drops' \in Nat /\ drops' # 0
      BY <2>1 DEF Inv, Network
    <3>2. Alive' \subseteq Alive
      BY <3>1 DEF Alive
    <3>3. broken' \subseteq Conns'
      BY <1>9, <2>1 DEF Inv, Network, Conns
    <3> QED BY <2>1, <3>1, <3>2, <3>3, Idles
  <2>3. ASSUME NEW m \in UpNodes PROVE BallotCompare(sess'[m].ballot, sess[m].ballot) >= 0
    <3>1. sess[m].ballot \in Bal
      BY <2>3 DEF UpNodes, Inv, Running, Good, Sound, Shaped, Promised
    <3> QED BY <2>1, <3>1 DEF Bal, BallotCompare, PaxidCompare
  <2> QED BY <2>2, <2>3 DEF Promises
<1> QED BY <1>1, <1>2, <1>3, <1>4, <1>5, <1>6, <1>7, <1>8, <1>9 DEF Next

(* Nothing happens. *)
LEMMA Stutters == ASSUME UNCHANGED vars PROVE conns' = conns /\ (Inv => Inv')
<1>1. sess' = sess /\ inbox' = inbox /\ broken' = broken /\ drops' = drops /\ conns' = conns
  BY DEF vars, counters
<1>2. Alive' \subseteq Alive /\ Conns' = Conns
  BY <1>1 DEF Alive, Conns
<1>3. Inv => broken' \subseteq Conns' /\ (drops' = 0 => broken' = {}) /\ drops' \in Nat
  BY <1>1, <1>2 DEF Inv, Network
<1> QED BY <1>1, <1>2, <1>3, Idles

(* conns counts the connections that were made. *)
LEMMA ConnsGrow ==
  ASSUME Next PROVE conns' = conns \/ (conns' = conns + 1 /\ conns < MaxConns)
<1>1. ASSUME NEW n, NEW c, Deliver(n, c) \/ Eof(n, c) PROVE conns' = conns
  BY <1>1, Zenon DEF Deliver, Eof, counters
<1>2. ASSUME NEW n, Chat(n) \/ Tick(n) \/ Crash(n) \/ (\E j \in Joiners : Invite(n, j)) PROVE conns' = conns
  BY <1>2, Zenon DEF Chat, Tick, Crash, Invite
<1>3. ASSUME NEW n, NEW k, ConnectFails(n, k) PROVE conns' = conns
  BY <1>3, Zenon DEF ConnectFails, counters
<1>4. ASSUME NEW n, NEW k, ConnectSucceeds(n, k) PROVE conns' = conns + 1 /\ conns < MaxConns
  BY <1>4, Zenon DEF ConnectSucceeds
<1>5. ASSUME NEW c, Break(c) PROVE conns' = conns
  BY <1>5, Zenon DEF Break
<1> QED BY <1>1, <1>2, <1>3, <1>4, <1>5, Zenon DEF Next

(* The invariant holds in every reachable state without a new connection: whatever
   crashes, breaks, fails over or fails to connect, in a session of any number of
   founders, sessions stay well formed, their counts and their ballots right. *)
THEOREM SessionInvariant == Spec => [](conns \in Nat /\ (conns = 0 => Inv))
<1> DEFINE I == conns \in Nat /\ (conns = 0 => Inv)
<1>1. Init => I
  BY Starts
<1>2. I /\ [Next]_vars => I'
  <2> SUFFICES ASSUME I, [Next]_vars PROVE I'
    OBVIOUS
  <2>1. CASE Next
    <3>0. conns' = conns \/ conns' = conns + 1
      BY <2>1, ConnsGrow
    <3>1. conns' \in Nat /\ conns' >= conns
      BY <3>0
    <3>2. conns' = 0 => conns = 0
      BY <3>1
    <3> QED BY <2>1, <3>1, <3>2, Goes
  <2>2. CASE UNCHANGED vars
    BY <2>2, Stutters
  <2> QED BY <2>1, <2>2
<1> QED BY <1>1, <1>2, PTL DEF Spec

(* It implies five of the invariants that runs check. *)
LEMMA Implies ==
  Inv => /\ TypeOK /\ LiveCountAccurate /\ PreparedOwnsBallot /\ OneProposer
         /\ drops = 0 => OnlyTheGoneAreParted
<1> SUFFICES ASSUME Inv
             PROVE  /\ TypeOK /\ LiveCountAccurate /\ PreparedOwnsBallot /\ OneProposer
                    /\ drops = 0 => OnlyTheGoneAreParted
  OBVIOUS
<1>1. ASSUME NEW n \in UpNodes, NEW s, s = sess[n]
      PROVE  /\ s.self \in Members(s) /\ s.proposer \in Members(s)
             /\ Members(s) \subseteq DOMAIN s.desc
             /\ s.desc[s.self] = n /\ \A id \in DOMAIN s.desc : s.desc[id] \in Node
             /\ s.alist[s.self] = NoPeer
             /\ \A id \in Connected(s) : <<s.alist[id], n>> \in DOMAIN inbox
             /\ IsBallot(s.ballot)
             /\ s.prep # NoPrep =>
                  /\ IsProposer(s)
                  /\ s.prep.bal = [id |-> s.self, gen |-> s.gen_high]
             /\ s.out = <<>> /\ s.closed = {}
             /\ s.live_count = Cardinality(Connected(s)) + 1
             /\ Prepared(s) => s.ballot.id = s.self
  <2>1. Running(n) /\ Good(n, s) /\ n \in Node
    BY <1>1 DEF UpNodes, Inv, Running
  <2>2. s.self = n /\ s.self \in Members(s) /\ s.proposer \in Members(s) /\ s.alist[n] = NoPeer
    BY <2>1 DEF Good, Sound, Shaped, Acceptors, Members, Ranked, Connected
  <2>3. Members(s) \subseteq DOMAIN s.desc /\ s.desc[n] = n /\ \A id \in DOMAIN s.desc : s.desc[id] \in Node
    BY <2>1 DEF Good, Sound, Shaped, Descs, Members
  <2>4. IsBallot(s.ballot)
    BY <1>1, <2>1, BoundsAssumption DEF Running, Good, Sound, Shaped, Promised, Bal, IsBallot
  <2>5. (s.prep # NoPrep => IsProposer(s) /\ s.prep.bal = [id |-> s.self, gen |-> s.gen_high])
        /\ (Prepared(s) => s.ballot.id = s.self)
    BY <2>1, <2>2 DEF Good, Proposes, IsProposer, Prepared
  <2>6. s.live_count = Cardinality(Connected(s)) + 1
    BY <2>1 DEF Good, Sound, Shaped, Live
  <2> QED BY <1>1, <2>1, <2>2, <2>3, <2>4, <2>5, <2>6 DEF Running
<1>2. TypeOK
  <2>1. broken \subseteq Conns
    BY DEF Inv, Network
  <2> QED BY <1>1, <2>1, Zenon DEF TypeOK
<1>3. OneProposer
  <2> SUFFICES ASSUME NEW e \in DOMAIN inbox, inbox[e] # <<>>, Up(sess[e[2]]), IsProposer(sess[e[2]])
               PROVE  Head(inbox[e]).op \notin {"PREPARE", "DECREE", "COMMIT", "RECOMMIT"}
    BY DEF OneProposer
  <2>1. PICK n, c, q, s : n = e[2] /\ c = e[1] /\ q = inbox[e] /\ s = sess[n]
    OBVIOUS
  <2>2. IsInbox(n, c, q) /\ n \in Node
    BY <2>1 DEF Inv, Network, Node
  <2>3. Good(n, s) /\ \E id \in Connected(s) : s.alist[id] = c
    BY <2>1, <2>2 DEF Inv, Running
  <2>4. Leads(s) /\ s.self = n
    BY <2>1, <2>3, ProposerLeads DEF Good, Sound, Shaped, IsProposer
  <2>5. c[1] = n
    BY <2>3, <2>4 DEF Leads
  <2>6. Arrives(n, c, Head(q))
    BY <2>1, <2>2, InboxTail
  <2> QED BY <2>1, <2>5, <2>6 DEF Arrives, Leading
<1>4. ASSUME drops = 0 PROVE OnlyTheGoneAreParted
  <2> SUFFICES ASSUME NEW n \in UpNodes, NEW id \in DOMAIN sess[n].desc \ Members(sess[n]),
                      Up(sess[Process(sess[n], id)])
               PROVE  FALSE
    BY DEF OnlyTheGoneAreParted
  <2>1. PICK s, p : s = sess[n] /\ p = s.desc[id]
    OBVIOUS
  <2>2. Good(n, s) /\ Up(sess[p])
    BY <2>1 DEF UpNodes, Inv, Running, Process
  <2>3. p \in Node /\ (p \in Founders => p = id)
    BY <2>1, <2>2 DEF Good, Sound, Shaped, Descs
  <2>4. p \in Founders
    BY <2>2, <2>3 DEF Inv, Running, Good, Sound, Shaped
  <2>5. p \in Alive
    BY <1>4, <2>2, <2>4 DEF Alive
  <2>6. p \in Members(s)
    BY <2>2, <2>5 DEF Good, Sound, Shaped, Meets, Acceptors, Connected, Members
  <2> QED BY <2>1, <2>3, <2>4, <2>6
<1> QED BY <1>1, <1>2, <1>3, <1>4 DEF LiveCountAccurate, PreparedOwnsBallot

(* Every session has itself and its proposer among its acceptors and knows their
   descriptors; its connections are open (paxos.c, paxos_util.c). *)
THEOREM SessionTypes == Spec => [](conns = 0 => TypeOK)
BY SessionInvariant, Implies, PTL

(* live_count, by which proposer_prepare decides whether a majority is left and redirects
   and rejects are adjusted for the dead, is the number of connected acceptors and the participant itself: no sequence
   of dropped connections and learned parts counts one of them twice. *)
THEOREM LiveCounts == Spec => [](conns = 0 => LiveCountAccurate)
BY SessionInvariant, Implies, PTL

(* Who takes itself for a prepared proposer decrees under a ballot of its own
   (proposer_decree uses session->ballot): a lost prepare, a redirect or an election in
   between never leaves it with the ballot of another. *)
THEOREM BallotsOwned == Spec => [](conns = 0 => PreparedOwnsBallot)
BY SessionInvariant, Implies, PTL

(* No proposer reads what only a proposer sends, which "should not actually be possible"
   (paxos.c:412-417): a participant takes itself for the proposer only when all its
   connections are to participants behind it, and whatever a superior has still in
   flight comes before the end of file that makes its inferior take over.  It is a new
   connection that makes it possible. *)
THEOREM NoRivalHeard == Spec => [](conns = 0 => OneProposer)
BY SessionInvariant, Implies, PTL

(* Nobody is parted or killed that is still there, in executions where connections are
   lost only with the process at their other end: every part in every log, message,
   promise or list of deferred decrees, and every kill, is of one that is gone
   (paxos_drop_connection, proposer_prepare, proposer_ack_request, proposer_force_kill). *)
THEOREM OnlyTheGone == Spec => [](conns = 0 /\ drops = 0 => OnlyTheGoneAreParted)
BY SessionInvariant, Implies, PTL

(* No handler ever lowers the ballot that a session has promised, in any execution in
   which nobody reconnects. With reconnection it does not hold: the hello of an old
   proposer resets it (paxos_greet.c:359). *)
THEOREM PromisesHold == ASSUME MaxConns = 0 PROVE Spec => PromisesKept
<1> DEFINE I == conns = 0 /\ Inv
<1>1. Init => I
  BY Starts
<1>2. I /\ [Next]_vars => I' /\ (Promises \/ UNCHANGED vars)
  <2> SUFFICES ASSUME I, [Next]_vars PROVE I' /\ (Promises \/ UNCHANGED vars)
    OBVIOUS
  <2>1. CASE Next
    <3>1. conns' = 0
      BY <2>1, ConnsGrow
    <3> QED BY <2>1, <3>1, Goes
  <2>2. CASE UNCHANGED vars
    BY <2>2, Stutters
  <2> QED BY <2>1, <2>2
<1>3. (Promises \/ UNCHANGED vars)
      <=> [\A n \in UpNodes :
             Up(sess'[n]) => BallotCompare(sess'[n].ballot, sess[n].ballot) >= 0]_vars
  BY DEF Promises
<1> QED BY <1>1, <1>2, <1>3, PTL DEF Spec, PromisesKept

-----------------------------------------------------------------------------
(* One turn of a loop, as the theorems about syncs need it *)

(* A message is taken off the head of end z. *)
Shift(z, e) == IF e = z THEN 1 ELSE 0

(* The k-th message of end e was there before the turn. *)
OldAt(z, e, k) ==
  /\ e \in DOMAIN inbox /\ k + Shift(z, e) \in 1 .. Len(inbox[e])
  /\ inbox'[e][k] = inbox[e][k + Shift(z, e)]

(* Or it is among those that n, with session t, has written. *)
NewAt(n, t, e, k) ==
  /\ Up(t) /\ e[2] # n /\ <<e[1], n>> \in DOMAIN inbox /\ e \in DOMAIN inbox
  /\ k \in Nat /\ k - Len(inbox[e]) \in 1 .. Len(Sent(t, e[1]))
  /\ inbox'[e][k] = Sent(t, e[1])[k - Len(inbox[e])]

(* The fields of u that a sync depends on are those of t. *)
Echoes(t, u) ==
  /\ u.self = t.self /\ u.alist = t.alist /\ u.proposer = t.proposer /\ u.ballot = t.ballot
  /\ u.sync = t.sync /\ u.sync_id = t.sync_id /\ u.ibase = t.ibase /\ u.ihole = t.ihole

(* A turn of n that leaves session t, after reading the head of z if that is an end. *)
Turn(n, t, z) ==
  /\ \A m \in Node : m # n => sess'[m] = sess[m]
  /\ Up(sess'[n]) => Up(sess[n]) /\ Up(t) /\ Echoes(t, sess'[n])
  /\ sess'[n].status = t.status
  /\ Alive' \subseteq Alive
  /\ \A e \in DOMAIN inbox' : \A k \in 1 .. Len(inbox'[e]) : OldAt(z, e, k) \/ NewAt(n, t, e, k)

(* Every action but Break is one. *)
LEMMA TurnIs ==
  ASSUME Inv, NEW n \in Node, NEW t, NEW net, Step(n, t, net), drops' = drops,
         NEW z, z \in DOMAIN inbox => z[2] = n /\ inbox[z] # <<>>,
         \A e \in DOMAIN net : e \in DOMAIN inbox /\ net[e] = IF e = z THEN Tail(inbox[e]) ELSE inbox[e],
         Up(t) => Up(sess[n]) /\ Good(n, t)
  PROVE  Turn(n, t, z)
<1>1. PICK ends : ends = OpenEnds(DOMAIN net, n, t)
  OBVIOUS
<1>2. PICK again : again = Rewatched(ends, n, t)
  OBVIOUS
<1>3. PICK u : u = (IF Up(t) THEN [t EXCEPT !.out = <<>>, !.closed = {}]
                    ELSE NoSession(t.status, t.first, t.log))
  OBVIOUS
<1> DEFINE reaches(e) == /\ Up(t) /\ e[2] # n /\ <<e[1], n>> \in ends
                         /\ e[1] \notin broken
                         /\ Listens(sess[e[2]])
           queue(e) == IF e \in again THEN <<>>
                       ELSE IF reaches(e) THEN net[e] \o Sent(t, e[1]) ELSE net[e]
<1>4. /\ sess' = [sess EXCEPT ![n] = u]
      /\ inbox' = [e \in ends \union again |-> queue(e)]
  BY <1>1, <1>2, <1>3 DEF Step
<1>4a. \A e : \/ queue(e) = <<>>
              \/ e \notin again /\ queue(e) = net[e]
              \/ e \notin again /\ reaches(e) /\ queue(e) = net[e] \o Sent(t, e[1])
  OBVIOUS
<1> HIDE DEF queue
<1>4b. /\ DOMAIN inbox' = ends \union again
       /\ \A e \in ends \union again : inbox'[e] = queue(e)
  BY <1>4
<1>5. ends \subseteq DOMAIN net
  BY <1>1 DEF OpenEnds
<1>6. DOMAIN sess' = Node /\ sess'[n] = u /\ \A m \in Node : m # n => sess'[m] = sess[m]
  BY <1>4 DEF Inv
<1>7. (Up(u) => Up(sess[n]) /\ Up(t) /\ Echoes(t, u)) /\ u.status = t.status
  <2>1. CASE Up(t)
    BY <1>3, <2>1 DEF Echoes, Good, Sound, Shaped, Fields
  <2>2. CASE ~Up(t)
    BY <1>3, <2>2 DEF NoSession, Up
  <2> QED BY <2>1, <2>2
<1>8. Alive' \subseteq Alive
  <2>1. \A m \in Founders : Up(sess'[m]) => Up(sess[m])
    BY <1>6, <1>7 DEF Node
  <2> QED BY <2>1 DEF Alive
<1>9. ASSUME NEW e \in DOMAIN inbox', NEW k \in 1 .. Len(inbox'[e]) PROVE OldAt(z, e, k) \/ NewAt(n, t, e, k)
  <2>1. PICK q, i, o : q = queue(e) /\ i = inbox[e] /\ o = Sent(t, e[1])
    OBVIOUS
  <2>2. inbox'[e] = q /\ k \in 1 .. Len(q)
    BY <1>4b, <2>1
  <2>3. q # <<>>
    <3> SUFFICES ASSUME q = <<>> PROVE FALSE
      OBVIOUS
    <3>1. Len(q) = 0
      BY EmptyIsSeq
    <3> QED BY <2>2, <3>1
  <2>4. e \in ends /\ e \in DOMAIN net /\ e \in DOMAIN inbox
    <3>1. e \notin again
      BY <1>4a, <2>1, <2>3
    <3> QED BY <1>4b, <1>5, <3>1
  <2>5. IsSeq(i)
    BY <2>1, <2>4 DEF Inv, Network, IsInbox
  <2>6. PICK x : x = net[e]
    OBVIOUS
  <2>7. /\ IsSeq(x)
        /\ \A j \in 1 .. Len(x) : j + Shift(z, e) \in 1 .. Len(i) /\ x[j] = i[j + Shift(z, e)]
        /\ e # z => x = i
    <3>1. CASE e = z
      <4>1. x = Tail(i) /\ i # <<>> /\ Len(i) \in Nat
        BY <2>1, <2>4, <2>5, <2>6, <3>1 DEF IsSeq
      <4>2. IsSeq(x) /\ Len(x) = Len(i) - 1 /\ \A j \in 1 .. Len(i) - 1 : x[j] = i[j + 1]
        BY <2>5, <4>1, TailSeq
      <4> QED BY <3>1, <4>1, <4>2 DEF Shift
    <3>2. CASE e # z
      <4>1. x = i
        BY <2>1, <2>4, <2>6, <3>2
      <4> QED BY <2>5, <3>2, <4>1 DEF Shift, IsSeq
    <3> QED BY <3>1, <3>2
  <2>8. CASE q = x
    BY <2>1, <2>2, <2>4, <2>7, <2>8 DEF OldAt
  <2>9. CASE reaches(e) /\ q = x \o o
    <3>1. e # z /\ x = i /\ Up(t) /\ <<e[1], n>> \in DOMAIN inbox
      BY <1>1, <1>5, <2>4, <2>7, <2>9
    <3>2. IsSeq(o)
      BY <2>1, <3>1, EmptyIsSeq DEF Good, Sound, Shaped, Typed, IsOut, IsQueue, Sent
    <3>3. /\ Len(q) = Len(i) + Len(o) /\ Len(i) \in Nat /\ Len(o) \in Nat
          /\ \A j \in 1 .. Len(i) : q[j] = i[j]
          /\ \A j \in 1 .. Len(o) : q[Len(i) + j] = o[j]
      BY <2>5, <2>9, <3>1, <3>2, ConcatSeq DEF IsSeq
    <3>4. CASE k \in 1 .. Len(i)
      BY <2>1, <2>2, <2>4, <3>1, <3>3, <3>4 DEF OldAt, Shift
    <3>5. CASE k \notin 1 .. Len(i)
      <4>1. PICK j : j = k - Len(i)
        OBVIOUS
      <4>2. j \in 1 .. Len(o) /\ k = Len(i) + j
        BY <2>2, <3>3, <3>5, <4>1
      <4>3. q[k] = o[j]
        BY <3>3, <4>2
      <4> QED BY <2>1, <2>2, <2>4, <2>9, <3>1, <4>1, <4>2, <4>3 DEF NewAt
    <3> QED BY <3>4, <3>5
  <2> QED BY <1>4a, <2>1, <2>3, <2>6, <2>8, <2>9
<1> QED BY <1>6, <1>7, <1>8, <1>9 DEF Turn

(* The alive are the founders whose sessions are up. *)
LEMMA AliveUp ==
  ASSUME Inv, drops = 0
  PROVE  \A p \in Node : /\ p \in Alive <=> Up(sess[p])
                         /\ Up(sess[p]) => /\ Good(p, sess[p]) /\ p \in Founders
                                           /\ sess[p].ihole \in Nat
<1>1. \A p \in Node : Up(sess[p]) => Good(p, sess[p]) /\ p \in Founders /\ sess[p].ihole \in Nat
  BY DEF Inv, Running, Good, Sound, Shaped, Holes
<1> QED BY <1>1 DEF Alive

(* Two ends of a connection. *)
LEMMA Across ==
  ASSUME Inv, NEW e \in DOMAIN inbox, NEW n \in Node, <<e[1], n>> \in DOMAIN inbox, e[2] # n
  PROVE  /\ e[1] = FirstConn(n, e[2]) /\ OtherEnd(e[1], e[2]) = n /\ OtherEnd(e[1], n) = e[2]
         /\ n \in Nat /\ e[2] \in Nat
<1>1. PICK c, o, f : c = e[1] /\ o = e[2] /\ f = <<c, n>>
  OBVIOUS
<1>2. f \in DOMAIN inbox /\ f[1] = c /\ f[2] = n
  BY <1>1
<1>3. PICK i \in Founders \ {o} : c = FirstConn(i, o)
  BY <1>1 DEF Inv, Network
<1>4. n \in Founders /\ \E j \in Founders \ {n} : c = FirstConn(j, n)
  BY <1>2 DEF Inv, Network
<1>5. PICK j \in Founders \ {n} : c = FirstConn(j, n)
  BY <1>4
<1>6. o \in Nat /\ n \in Nat /\ i \in Nat /\ j \in Nat /\ o # n
  BY <1>1, <1>4 DEF Inv, Network, Founders
<1>7. c = FirstConn(n, o) /\ OtherEnd(c, o) = n /\ OtherEnd(c, n) = o
  BY <1>3, <1>5, <1>6 DEF FirstConn, OtherEnd
<1> QED BY <1>1, <1>6, <1>7

(* What a turn has written was written by n. *)
LEMMA NewIs ==
  ASSUME Inv, NEW n \in Node, NEW t, NEW e, NEW k, NewAt(n, t, e, k)
  PROVE  /\ e[1] = FirstConn(n, e[2]) /\ OtherEnd(e[1], e[2]) = n /\ OtherEnd(e[1], n) = e[2]
         /\ Up(t) /\ e \in DOMAIN inbox /\ e[2] # n /\ n \in Nat /\ e[2] \in Nat
         /\ \E j \in 1 .. Len(Sent(t, e[1])) : inbox'[e][k] = Sent(t, e[1])[j] /\ j = k - Len(inbox[e])
<1>1. e \in DOMAIN inbox /\ <<e[1], n>> \in DOMAIN inbox /\ e[2] # n
  BY DEF NewAt
<1> QED BY <1>1, Across DEF NewAt

(* The proposer stays the proposer. *)
LEMMA ProposerOn ==
  ASSUME NEW n, NEW s, Good(n, s), NEW t, Good(n, t), Connected(t) \subseteq Connected(s), s.proposer = n
  PROVE  t.proposer = n
<1>1. t.proposer \in Connected(t) \union {n} /\ t.proposer <= n /\ \A id \in Connected(s) : n <= id
  BY DEF Good, Sound, Ranked
<1>2. n \in Nat /\ Connected(s) \subseteq Nat
  BY DEF Good, Sound, Shaped, Founders, Connected, Members, Acceptors
<1> QED BY <1>1, <1>2

(* One message is written, to each of `peers'. *)
LEMMA OneWrite ==
  ASSUME NEW s, DOMAIN s = Fields, s.out = <<>>, NEW peers, NEW m, NEW t, t = WriteTo(s, peers, m)
  PROVE  /\ Echoes(s, t) /\ DOMAIN t = Fields /\ t.ilist = s.ilist /\ t.status = s.status
         /\ \A c : \A j \in 1 .. Len(Sent(t, c)) : c \in peers /\ j = 1 /\ Sent(t, c)[j] = m
<1> DEFINE out == [c \in DOMAIN s.out \union peers |->
                     IF c \in peers THEN Append(Sent(s, c), m) ELSE s.out[c]]
<1>1. t = [s EXCEPT !.out = out]
  BY DEF WriteTo
<1>2. PICK o : o = out
  OBVIOUS
<1>3. t = [s EXCEPT !.out = o] /\ t.out = o
  BY <1>1, <1>2 DEF Fields
<1>4. /\ Echoes(s, t) /\ DOMAIN t = Fields /\ t.ilist = s.ilist /\ t.status = s.status
  BY <1>3 DEF Echoes, Fields
<1>5. ASSUME NEW c, NEW j \in 1 .. Len(Sent(t, c)) PROVE c \in peers /\ j = 1 /\ Sent(t, c)[j] = m
  <2>1. PICK q : q = Sent(t, c)
    OBVIOUS
  <2>2. q # <<>>
    BY <1>5, <2>1, EmptyIsSeq
  <2>3. c \in DOMAIN o
    BY <1>3, <2>1, <2>2 DEF Sent
  <2>4. c \in peers
    BY <1>2, <2>3
  <2>5. PICK x : x = Sent(s, c)
    OBVIOUS
  <2>6. x = <<>>
    BY <2>5 DEF Sent
  <2>7. q = Append(x, m)
    BY <1>2, <1>3, <2>1, <2>3, <2>4, <2>5 DEF Sent
  <2>8. IsSeq(x) /\ Len(x) = 0
    BY <2>6, EmptyIsSeq
  <2>9. Len(q) = 1 /\ q[1] = m
    BY <2>7, <2>8, AppendSeq
  <2> QED BY <1>5, <2>1, <2>4, <2>9
<1> QED BY <1>4, <1>5

=============================================================================
