----------------------------- MODULE SessionLemmas ----------------------------
(***************************************************************************)
(* What a session looks like between two calls of the code while nobody    *)
(* connects anew, and that the operators of PaxosState and the helpers of  *)
(* PaxosRoles keep it that way.  Good(n, s) is what holds of the session   *)
(* s of participant n; Quiet and Kept say how a call may change it.        *)
(***************************************************************************)
EXTENDS PaxosSession, FiniteSetTheorems, TLAPS

-----------------------------------------------------------------------------
(* What is well formed *)

(* A ballot; generations start at one. *)
Bal == [id : Nat, gen : Nat \ {0}]

(* The kinds of a decree (enum dkind_t). *)
Kinds == {"CHAT", "JOIN", "PART", "KILL", "NULL"}

(* The founders that no others may take for dead: those whose session is up, as long
   as no connection between live processes has broken. *)
Alive == IF drops = 0 THEN {n \in Founders : Up(sess[n])} ELSE {}

(* A decree value: a join names a process outside the session, a part names nobody that
   is alive. *)
IsVal(v) ==
  /\ DOMAIN v = {"kind", "id", "gen", "extra"} /\ v.kind \in Kinds
  /\ v.kind = "JOIN" => v.extra \in Joiners
  /\ v.kind \in {"PART", "KILL"} => v.extra \notin Alive

(* The value of instance i; the founders joined in the first N. *)
IsValAt(i, v) ==
  /\ DOMAIN v = {"kind", "id", "gen", "extra"} /\ v.kind \in Kinds
  /\ v.kind = "JOIN" => v.extra \in Joiners \/ i <= N
  /\ v.kind \in {"PART", "KILL"} => v.extra \notin Alive

(* Instance i as a promise carries it. *)
IsVote(i, v) == v.bal \in Bal /\ IsValAt(i, v.val)

(* Instance i (struct paxos_instance) with a ballot and a value. *)
IsInst(i, x) ==
  /\ DOMAIN x = {"op", "bal", "val", "committed", "cached", "learned", "votes", "rejects"}
  /\ x.op \in {"DECREE", "COMMIT"} /\ x.bal \in Bal /\ IsValAt(i, x.val)

(* Instance numbers, of which there is a greatest one. *)
IsNumbers(S) == S \subseteq Nat /\ \E b \in Nat : \A i \in S : i <= b

(* An instance list. *)
IsLog(l) == IsNumbers(DOMAIN l) /\ \A i \in DOMAIN l : IsInst(i, l[i])

(* The votes of a promise. *)
IsVotes(l) == IsNumbers(DOMAIN l) /\ \A i \in DOMAIN l : IsVote(i, l[i])

(* The operations that a session sends while nobody connects: no hello, no welcome. *)
Ops == {"PREPARE", "PROMISE", "DECREE", "ACCEPT", "COMMIT", "REQUEST", "RETRIEVE", "RESEND",
        "REDIRECT", "REFUSE", "REJECT", "RETRY", "RECOMMIT", "SYNC", "LAST", "TRUNCATE"}

(* A message, with what its reader takes for granted: dispatch unpacks the value of a
   decree unchecked. *)
IsMsg(m) ==
  /\ m.op \in Ops /\ m.bal \in Bal
  /\ m.op \in {"DECREE", "COMMIT", "RECOMMIT"} => m.inum \in Nat /\ IsValAt(m.inum, m.body)
  /\ m.op = "REQUEST" => m.inum \in Nat /\ IsVal(m.body)
  /\ m.op = "PROMISE" => IsVotes(m.body)

(* What only a superior sends: a proposer, or an acceptor that is taken for one. *)
Leading == {"PREPARE", "DECREE", "COMMIT", "RECOMMIT", "SYNC", "TRUNCATE", "REFUSE"}

(* What participant n may write to connection c, whose first end is its superior one. *)
Routed(n, c, m) ==
  /\ IsMsg(m)
  /\ m.op \in Leading => c[1] = n
  /\ m.op = "REQUEST" => m.inum <= OtherEnd(c, n) /\ (m.inum = OtherEnd(c, n) => c[1] # n)

(* What it may read there: nobody asks it for what an inferior has to decree. *)
Arrives(n, c, m) ==
  /\ IsMsg(m)
  /\ m.op \in Leading => c[1] # n
  /\ m.op = "REQUEST" => m.inum <= n /\ (m.inum = n => c[1] = n)

(* A sequence of anything. *)
IsSeq(q) == Len(q) \in Nat /\ q = [k \in 1 .. Len(q) |-> q[k]]

(* Deferred decrees. *)
IsVals(q) == IsSeq(q) /\ \A k \in 1 .. Len(q) : IsVal(q[k])

(* What n has written to connection c. *)
IsQueue(n, c, q) == IsSeq(q) /\ \A k \in 1 .. Len(q) : Routed(n, c, q[k])

(* What n has still to read from connection c. *)
IsInbox(n, c, q) == IsSeq(q) /\ \A k \in 1 .. Len(q) : Arrives(n, c, q[k])

(* What n has written. *)
IsOut(n, out) == \A c \in DOMAIN out : IsQueue(n, c, out[c])

-----------------------------------------------------------------------------
(* Sequences *)

(* A sequence of elements of S. *)
LEMMA SeqIn ==
  ASSUME NEW q, IsSeq(q), NEW S, \A k \in 1 .. Len(q) : q[k] \in S PROVE q \in Seq(S)
<1>1. q \in [1 .. Len(q) -> S]
  BY DEF IsSeq
<1> QED BY <1>1 DEF IsSeq

(* The sequences of the library are sequences of anything. *)
LEMMA SeqIs ==
  ASSUME NEW S, NEW q \in Seq(S) PROVE IsSeq(q) /\ DOMAIN q = 1 .. Len(q)
BY DEF IsSeq

(* So is the empty one. *)
LEMMA EmptyIsSeq == IsSeq(<<>>) /\ Len(<<>>) = 0
<1>0. <<>> \in Seq({})
  OBVIOUS
<1>1. PICK q : q = <<>> /\ q \in Seq({})
  BY <1>0
<1>2. Len(q) = 0 /\ IsSeq(q)
  BY <1>1, SeqIs
<1> QED BY <1>1, <1>2

(* What Append does to them. *)
LEMMA AppendSeq ==
  ASSUME NEW q, IsSeq(q), NEW x
  PROVE  /\ IsSeq(Append(q, x)) /\ Len(Append(q, x)) = Len(q) + 1
         /\ Append(q, x)[Len(q) + 1] = x
         /\ \A k \in 1 .. Len(q) : Append(q, x)[k] = q[k]
<1> DEFINE S == {q[k] : k \in 1 .. Len(q)}
<1> DEFINE Sx == S \union {x}
<1>1. q \in Seq(Sx)
  <2>1. \A k \in 1 .. Len(q) : q[k] \in Sx
    OBVIOUS
  <2> QED BY <2>1, SeqIn
<1>2. Append(q, x) \in Seq(Sx)
  BY <1>1
<1>3. IsSeq(Append(q, x))
  BY <1>2, SeqIs
<1> QED BY <1>1, <1>3

(* What concatenation does to them. *)
LEMMA ConcatSeq ==
  ASSUME NEW q, IsSeq(q), NEW r, IsSeq(r)
  PROVE  /\ IsSeq(q \o r) /\ Len(q \o r) = Len(q) + Len(r)
         /\ \A k \in 1 .. Len(q) : (q \o r)[k] = q[k]
         /\ \A k \in 1 .. Len(r) : (q \o r)[Len(q) + k] = r[k]
<1> DEFINE S == {q[k] : k \in 1 .. Len(q)}
           T == {r[k] : k \in 1 .. Len(r)}
<1> DEFINE U == S \union T
<1>1. q \in Seq(U) /\ r \in Seq(U)
  <2>1. (\A k \in 1 .. Len(q) : q[k] \in U) /\ (\A k \in 1 .. Len(r) : r[k] \in U)
    OBVIOUS
  <2> QED BY <2>1, SeqIn
<1>2. q \o r \in Seq(U)
  BY <1>1
<1>3. IsSeq(q \o r)
  BY <1>2, SeqIs
<1> QED BY <1>1, <1>3

(* What Tail does to them. *)
LEMMA TailSeq ==
  ASSUME NEW q, IsSeq(q), q # <<>>
  PROVE  /\ IsSeq(Tail(q)) /\ Len(Tail(q)) = Len(q) - 1 /\ Len(q) >= 1 /\ Head(q) = q[1]
         /\ \A k \in 1 .. Len(q) - 1 : Tail(q)[k] = q[k + 1]
<1> DEFINE S == {q[k] : k \in 1 .. Len(q)}
<1>1. q \in Seq(S)
  BY SeqIn
<1>2. Tail(q) \in Seq(S) /\ Len(q) >= 1
  BY <1>1
<1>3. IsSeq(Tail(q))
  BY <1>2, SeqIs
<1> QED BY <1>1, <1>2, <1>3

(* What remains after an element is removed was there before. *)
LEMMA RemoveSeq ==
  ASSUME NEW q, IsSeq(q), NEW j \in 1 .. Len(q)
  PROVE  /\ IsSeq(RemoveAt(q, j))
         /\ \A k \in 1 .. Len(RemoveAt(q, j)) : \E i \in 1 .. Len(q) : RemoveAt(q, j)[k] = q[i]
<1> DEFINE S == {q[k] : k \in 1 .. Len(q)}
           a == SubSeq(q, 1, j - 1)
           b == SubSeq(q, j + 1, Len(q))
<1>0. Len(q) \in Nat /\ j \in Nat
  BY DEF IsSeq
<1>1. q \in Seq(S)
  BY SeqIn
<1>2. a \in Seq(S) /\ b \in Seq(S)
  BY <1>0, <1>1
<1>3. RemoveAt(q, j) \in Seq(S)
  BY <1>2 DEF RemoveAt
<1>4. IsSeq(RemoveAt(q, j))
  BY <1>3, SeqIs
<1>5. \A k \in 1 .. Len(RemoveAt(q, j)) : RemoveAt(q, j)[k] \in S
  BY <1>3
<1> QED BY <1>4, <1>5

(* One more message is written to a connection. *)
LEMMA QueueAppend ==
  ASSUME NEW n, NEW c, NEW q, IsQueue(n, c, q), NEW m, Routed(n, c, m)
  PROVE  IsQueue(n, c, Append(q, m))
<1>1. Len(q) \in Nat /\ IsSeq(q)
  BY DEF IsQueue, IsSeq
<1>2. ASSUME NEW k \in 1 .. Len(Append(q, m)) PROVE Routed(n, c, Append(q, m)[k])
  <2>1. k \in 1 .. Len(q) + 1
    BY <1>1, AppendSeq
  <2>2. k \in 1 .. Len(q) \/ k = Len(q) + 1
    BY <1>1, <2>1
  <2> QED BY <1>1, <2>2, AppendSeq DEF IsQueue
<1> QED BY <1>1, <1>2, AppendSeq DEF IsQueue

(* What one end of a connection may write, the other may read. *)
LEMMA Crosses ==
  ASSUME NEW n \in Nat, NEW o \in Nat, o # n, NEW c, c = FirstConn(o, n), NEW m, Routed(n, c, m)
  PROVE  Arrives(o, c, m)
<1>1. (c[1] = n /\ OtherEnd(c, n) = o) \/ (c[1] = o /\ OtherEnd(c, n) = o)
  BY DEF FirstConn, OtherEnd
<1> QED BY <1>1 DEF Routed, Arrives

(* What was written joins what is still to be read. *)
LEMMA InboxConcat ==
  ASSUME NEW n \in Nat, NEW o \in Nat, o # n, NEW c, c = FirstConn(o, n),
         NEW q, IsInbox(o, c, q), NEW r, IsQueue(n, c, r)
  PROVE  IsInbox(o, c, q \o r)
<1>1. Len(q) \in Nat /\ Len(r) \in Nat /\ IsSeq(q) /\ IsSeq(r)
  BY DEF IsQueue, IsInbox, IsSeq
<1>2. ASSUME NEW k \in 1 .. Len(r) PROVE Arrives(o, c, r[k])
  BY Crosses DEF IsQueue
<1>3. ASSUME NEW k \in 1 .. Len(q \o r) PROVE Arrives(o, c, (q \o r)[k])
  <2>1. k \in 1 .. Len(q) + Len(r)
    BY <1>1, ConcatSeq
  <2>2. k \in 1 .. Len(q) \/ (k - Len(q) \in 1 .. Len(r) /\ k = Len(q) + (k - Len(q)))
    BY <1>1, <2>1
  <2> QED BY <1>1, <1>2, <2>2, ConcatSeq DEF IsInbox
<1> QED BY <1>1, <1>3, ConcatSeq DEF IsInbox

(* What is read from a connection, and the rest. *)
LEMMA InboxTail ==
  ASSUME NEW n, NEW c, NEW q, IsInbox(n, c, q), q # <<>>
  PROVE  IsInbox(n, c, Tail(q)) /\ Arrives(n, c, Head(q))
<1>1. Len(q) \in Nat /\ IsSeq(q)
  BY DEF IsInbox, IsSeq
<1>2. ASSUME NEW k \in 1 .. Len(Tail(q)) PROVE Arrives(n, c, Tail(q)[k])
  <2>1. k \in 1 .. Len(q) - 1 /\ k + 1 \in 1 .. Len(q)
    BY <1>1, TailSeq
  <2> QED BY <1>1, <2>1, TailSeq DEF IsInbox
<1>3. 1 \in 1 .. Len(q)
  BY <1>1, TailSeq
<1> QED BY <1>1, <1>2, <1>3, TailSeq DEF IsInbox

(* Nothing is written, read or deferred. *)
LEMMA QueueEmpty == IsVals(<<>>) /\ \A n, c : IsQueue(n, c, <<>>) /\ IsInbox(n, c, <<>>)
<1>1. PICK q : q = <<>>
  OBVIOUS
<1>2. IsSeq(q) /\ Len(q) = 0
  BY <1>1, EmptyIsSeq
<1>3. \A k \in 1 .. Len(q) : FALSE
  BY <1>2
<1>4. IsVals(q) /\ \A n, c : IsQueue(n, c, q) /\ IsInbox(n, c, q)
  BY <1>2, <1>3 DEF IsQueue, IsInbox, IsVals
<1> QED BY <1>1, <1>4

(* proposer_decree defers a value. *)
LEMMA ValsAppend ==
  ASSUME NEW q, IsVals(q), NEW v, IsVal(v) PROVE IsVals(Append(q, v))
<1>1. Len(q) \in Nat /\ IsSeq(q)
  BY DEF IsVals, IsSeq
<1>2. ASSUME NEW k \in 1 .. Len(Append(q, v)) PROVE IsVal(Append(q, v)[k])
  <2>1. k \in 1 .. Len(q) + 1
    BY <1>1, AppendSeq
  <2>2. k \in 1 .. Len(q) \/ k = Len(q) + 1
    BY <1>1, <2>1
  <2> QED BY <1>1, <2>2, AppendSeq DEF IsVals
<1> QED BY <1>1, <1>2, AppendSeq DEF IsVals

(* Deferred values followed by the parts of a prepare. *)
LEMMA ValsConcat ==
  ASSUME NEW q, IsVals(q), NEW r, IsVals(r) PROVE IsVals(q \o r)
<1>1. Len(q) \in Nat /\ Len(r) \in Nat /\ IsSeq(q) /\ IsSeq(r)
  BY DEF IsVals, IsSeq
<1>2. ASSUME NEW k \in 1 .. Len(q \o r) PROVE IsVal((q \o r)[k])
  <2>1. k \in 1 .. Len(q) + Len(r)
    BY <1>1, ConcatSeq
  <2>2. k \in 1 .. Len(q) \/ (k - Len(q) \in 1 .. Len(r) /\ k = Len(q) + (k - Len(q)))
    BY <1>1, <2>1
  <2> QED BY <1>1, <2>2, ConcatSeq DEF IsVals
<1> QED BY <1>1, <1>2, ConcatSeq DEF IsVals

(* Whatever is sorted was in the set. *)
LEMMA SortedIn ==
  ASSUME NEW S \in SUBSET Nat, IsFiniteSet(S)
  PROVE  Sorted(S) \in [1 .. Cardinality(S) -> S]
<1> DEFINE below(x) == {y \in S : y <= x}
           rank == [x \in S |-> Cardinality(below(x))]
<1>1. PICK c \in Nat : c = Cardinality(S)
  BY FS_CardinalityType
<1>2. ASSUME NEW x \in S PROVE rank[x] \in 1 .. c /\ IsFiniteSet(below(x)) /\ rank[x] = Cardinality(below(x))
  <2>1. below(x) \in SUBSET S /\ x \in below(x)
    OBVIOUS
  <2>2. PICK B : B = below(x)
    OBVIOUS
  <2>3. IsFiniteSet(B) /\ Cardinality(B) \in Nat /\ Cardinality(B) <= c /\ Cardinality(B) # 0
    BY <1>1, <2>1, <2>2, FS_Subset, FS_CardinalityType, FS_EmptySet
  <2> QED BY <1>1, <2>2, <2>3
<1>3. ASSUME NEW x \in S, NEW y \in S, x < y PROVE rank[x] < rank[y]
  <2>1. PICK A, B : A = below(x) /\ B = below(y)
    OBVIOUS
  <2>2. A \in SUBSET B /\ y \in B /\ y \notin A
    <3>1. x \in Nat /\ y \in Nat /\ \A z \in S : z \in Nat
      OBVIOUS
    <3>2. (\A z : z \in A <=> z \in S /\ z <= x) /\ (\A z : z \in B <=> z \in S /\ z <= y)
      BY <2>1
    <3>3. ASSUME NEW z \in A PROVE z \in B
      <4>1. z \in S /\ z \in Nat /\ z <= x
        BY <3>1, <3>2, <3>3
      <4>2. z <= y
        BY <1>3, <3>1, <4>1
      <4> QED BY <3>2, <4>1, <4>2
    <3>4. y <= y /\ ~(y <= x)
      BY <1>3, <3>1
    <3> QED BY <3>2, <3>3, <3>4
  <2>3. IsFiniteSet(B) /\ rank[x] = Cardinality(A) /\ rank[y] = Cardinality(B)
    BY <1>2, <2>1
  <2>4. Cardinality(A) <= Cardinality(B) /\ (Cardinality(A) = Cardinality(B) => A = B)
    BY <2>2, <2>3, FS_Subset
  <2>5. rank[x] \in Nat /\ rank[y] \in Nat
    BY <1>2
  <2> QED BY <2>2, <2>3, <2>4, <2>5
<1> HIDE DEF rank, below
<1>4. rank \in Injection(S, 1 .. c)
  <2>1. rank \in [S -> 1 .. c]
    BY <1>2 DEF rank
  <2>2. ASSUME NEW x \in S, NEW y \in S, x # y PROVE rank[x] # rank[y]
    <3>1. x < y \/ y < x
      BY <2>2
    <3>2. rank[x] \in Nat /\ rank[y] \in Nat
      BY <1>2
    <3>3. CASE x < y
      <4>1. rank[x] < rank[y]
        BY <1>3, <3>3
      <4> QED BY <3>2, <4>1
    <3>4. CASE y < x
      <4>1. rank[y] < rank[x]
        BY <1>3, <3>4
      <4> QED BY <3>2, <4>1
    <3> QED BY <3>1, <3>3, <3>4
  <2> QED BY <2>1, <2>2 DEF Injection, IsInjective
<1>5. rank \in Surjection(S, 1 .. c)
  <2>1. IsFiniteSet(1 .. c) /\ Cardinality(1 .. c) = c
    BY FS_Interval
  <2> QED BY <1>1, <1>4, <2>1, FS_Injection
<1>6. \A k \in 1 .. c : \E x \in S : rank[x] = k
  BY <1>5 DEF Surjection
<1> DEFINE q == [k \in 1 .. c |-> CHOOSE x \in S : rank[x] = k]
<1>7. q \in [1 .. c -> S] /\ \A k \in 1 .. c : q[k] \in S /\ rank[q[k]] = k
  BY <1>6
<1> HIDE DEF q
<1>8. ASSUME NEW i \in 1 .. c, NEW j \in 1 .. c, i < j PROVE q[i] < q[j]
  <2>1. q[i] \in Nat /\ q[j] \in Nat /\ q[i] # q[j]
    <3>1. q[i] \in S /\ q[j] \in S /\ rank[q[i]] = i /\ rank[q[j]] = j /\ i # j
      BY <1>7, <1>8
    <3> QED BY <3>1
  <2>2. ~(q[j] < q[i])
    <3>1. q[i] \in S /\ q[j] \in S /\ rank[q[i]] = i /\ rank[q[j]] = j
      BY <1>7
    <3>2. q[j] < q[i] => rank[q[j]] < rank[q[i]]
      BY <1>3, <3>1
    <3>3. ~(j < i)
      BY <1>8
    <3> QED BY <3>1, <3>2, <3>3
  <2> QED BY <2>1, <2>2
<1> QED BY <1>1, <1>7, <1>8 DEF Sorted

-----------------------------------------------------------------------------
(* Lists of instances *)

(* The loops of the code are folds, and what they keep is proved with Folding. *)
Never(r, k, s) == FALSE
(* This instance is for Least only, which does not depend on the operator. *)
L == INSTANCE Folding WITH Op <- LearnNext, P <- Never

(* Min takes the least number of a set. *)
LEMMA MinOf ==
  ASSUME NEW S, S \subseteq Nat, S # {} PROVE Min(S) \in S /\ \A k \in S : Min(S) <= k
<1>1. \E m \in S : \A k \in S : m <= k
  BY L!Least
<1> QED BY <1>1 DEF Min

(* Max takes the greatest number of a bounded set. *)
LEMMA MaxOf ==
  ASSUME NEW S, IsNumbers(S), S # {} PROVE Max(S) \in S /\ \A i \in S : i <= Max(S)
<1> DEFINE U == {b \in Nat : \A i \in S : i <= b}
<1>1. PICK b \in U : \A c \in U : b <= c
  <2>1. U \subseteq Nat /\ U # {}
    BY DEF IsNumbers
  <2> QED BY <2>1, L!Least
<1>2. b \in S
  <2> SUFFICES ASSUME b \notin S PROVE FALSE
    OBVIOUS
  <2>1. \A i \in S : i \in Nat /\ i <= b - 1
    BY <1>1 DEF IsNumbers
  <2>2. b - 1 \in Nat
    BY <1>1, <2>1
  <2> QED BY <1>1, <2>1, <2>2
<1>3. \E x \in S : \A y \in S : x >= y
  BY <1>1, <1>2 DEF IsNumbers
<1>4. Max(S) \in S /\ \A y \in S : Max(S) >= y
  BY <1>3 DEF Max
<1> QED BY <1>4 DEF IsNumbers

(* One more instance number. *)
LEMMA NumbersAdd ==
  ASSUME NEW S, IsNumbers(S), NEW i \in Nat PROVE IsNumbers(S \union {i})
<1>1. PICK b \in Nat : \A j \in S : j <= b
  BY DEF IsNumbers
<1>2. \A j \in S \union {i} : j \in Nat /\ j <= b + i
  BY <1>1 DEF IsNumbers
<1>3. b + i \in Nat
  OBVIOUS
<1> QED BY <1>2, <1>3 DEF IsNumbers

(* Fewer instance numbers. *)
LEMMA NumbersSub ==
  ASSUME NEW S, IsNumbers(S), NEW T \in SUBSET S PROVE IsNumbers(T)
BY DEF IsNumbers

(* LastIn bounds the numbers of a list. *)
LEMMA LastInIs ==
  ASSUME NEW l, IsNumbers(DOMAIN l) PROVE LastIn(l) \in Nat /\ \A i \in DOMAIN l : i <= LastIn(l)
<1>1. PICK S : S = DOMAIN l \union {0}
  OBVIOUS
<1>2. IsNumbers(S) /\ S # {}
  BY <1>1, NumbersAdd
<1>3. Max(S) \in S /\ \A i \in S : i <= Max(S)
  BY <1>2, MaxOf
<1> QED BY <1>1, <1>2, <1>3 DEF LastIn, IsNumbers

(* An instance is inserted into a list or replaced. *)
LEMMA PutLog ==
  ASSUME NEW l, IsLog(l), NEW i \in Nat, NEW x, IsInst(i, x) PROVE IsLog(Put(l, i, x))
<1>1. IsNumbers(DOMAIN l \union {i})
  BY NumbersAdd DEF IsLog
<1>2. \A j \in DOMAIN l \union {i} : IsInst(j, Put(l, i, x)[j])
  BY DEF IsLog, Put
<1>3. DOMAIN Put(l, i, x) = DOMAIN l \union {i}
  BY DEF Put
<1> QED BY <1>1, <1>2, <1>3 DEF IsLog

-----------------------------------------------------------------------------
(* Sessions *)

(* The fields of a session (struct paxos_session). *)
Fields ==
  {"self", "alist", "desc", "adefer", "live_count", "proposer", "ballot", "gen_high", "prep", "ilist",
   "ibase", "ihole", "istart", "idefer", "rcache", "req_id", "clist", "sync", "sync_id", "sync_prev",
   "first", "log", "out", "closed", "status"}

(* The fields of its prepare (struct paxos_prep). *)
PrepFields == {"bal", "acks", "redirects", "istart"}

(* Everything that a session holds of decrees and messages is well formed. *)
Typed(s) == IsLog(s.ilist) /\ IsVals(s.idefer) /\ IsOut(s.self, s.out)

(* The same prepare, up to its counts and the start of its merge. *)
SamePrep(p, q) == q = p \/ (DOMAIN p = PrepFields /\ DOMAIN q = PrepFields /\ q.bal = p.bal)

(* s and t differ in their logs, requests, counts and output only. *)
Same(s, t) ==
  /\ DOMAIN t = Fields /\ t.status = s.status /\ t.self = s.self
  /\ t.alist = s.alist /\ t.desc = s.desc /\ t.adefer = s.adefer
  /\ t.live_count = s.live_count /\ t.proposer = s.proposer
  /\ t.ballot = s.ballot /\ t.gen_high = s.gen_high /\ SamePrep(s.prep, t.prep)
  /\ t.ihole = s.ihole /\ t.clist = s.clist /\ t.closed = s.closed

(* Nothing has happened but to logs, requests, counts and output. *)
Quiet(s, t) == Same(s, t) /\ Typed(t)

(* The acceptor list: a participant is connected over the connection that its session
   started with, or not at all. *)
Acceptors(n, s) ==
  /\ s.alist = [id \in DOMAIN s.alist |-> s.alist[id]]
  /\ IsFiniteSet(DOMAIN s.alist) /\ DOMAIN s.alist \subseteq Nat
  /\ n \in DOMAIN s.alist /\ s.alist[n] = NoPeer
  /\ \A id \in DOMAIN s.alist : s.alist[id] \in {NoPeer, FirstConn(id, n)}

(* Whoever is in the list joined below the hole: a join that is still to be learned is
   not in it. *)
Holes(s) == s.ihole \in Nat /\ N < s.ihole /\ \A id \in DOMAIN s.alist : id < s.ihole

(* Whoever is alive is connected. *)
Meets(n, s) == Alive \ {n} \subseteq Connected(s)

(* live_count counts the connections and the participant itself; connections of the
   list are not destroyed. *)
Live(s) ==
  /\ s.live_count = Cardinality(Connected(s)) + 1
  /\ \A id \in Connected(s) : s.alist[id] \notin s.closed

(* There is a descriptor for whoever is in the acceptor list; founders have their own. *)
Descs(n, s) ==
  /\ DOMAIN s.alist \subseteq DOMAIN s.desc /\ s.desc[n] = n
  /\ \A id \in DOMAIN s.desc : s.desc[id] \in Node /\ (s.desc[id] \in Founders => s.desc[id] = id)

(* gen_high is at least the generation that was promised. *)
Promised(s) == s.ballot \in Bal /\ s.gen_high \in Nat /\ s.ballot.gen <= s.gen_high

(* Who prepares is the proposer and prepares a ballot of its own, higher than its
   promise; who has prepared owns the ballot. *)
Proposes(n, s) ==
  /\ s.prep # NoPrep =>
       /\ s.proposer = n /\ DOMAIN s.prep = PrepFields
       /\ s.prep.bal = [id |-> n, gen |-> s.gen_high] /\ s.ballot.gen < s.gen_high
  /\ s.proposer = n /\ s.prep = NoPrep => s.ballot.id = n

(* A continuation waits for a participant that is not connected (paxos_continue.h). *)
Conts(n, s) ==
  /\ IsSeq(s.clist)
  /\ \A k \in 1 .. Len(s.clist) :
       /\ s.clist[k].kind \in {"redirect", "refuse", "reject", "welcome"}
       /\ s.clist[k].kind # "refuse" => s.proposer = n
       /\ s.clist[k].kind = "welcome" => s.clist[k].acc \notin Alive
       /\ s.clist[k].acc \in DOMAIN s.alist => s.alist[s.clist[k].acc] = NoPeer

(* All but that there is a proposer, and that it has prepared or prepares. *)
Shaped(n, s) ==
  /\ Up(s) /\ DOMAIN s = Fields /\ s.self = n /\ n \in Founders /\ DOMAIN s.adefer = {}
  /\ Acceptors(n, s) /\ Holes(s) /\ Live(s) /\ Descs(n, s) /\ Promised(s) /\ Conts(n, s)
  /\ Typed(s) /\ Meets(n, s)

(* The proposer is the first of those that are connected, the participant among them. *)
Ranked(n, s) ==
  /\ s.proposer \in Connected(s) \union {n} /\ s.proposer <= n
  /\ \A id \in Connected(s) : s.proposer <= id

(* With a proposer. *)
Sound(n, s) == Shaped(n, s) /\ Ranked(n, s)

(* What holds of a session between any two calls. *)
Good(n, s) == Sound(n, s) /\ Proposes(n, s)

(* Connections leave the list only when they are destroyed, or are among `lost'. *)
Shrinks(n, s, t, lost) ==
  /\ Connected(t) \subseteq Connected(s) /\ s.closed \subseteq t.closed
  /\ \A id \in Connected(s) \ Connected(t) : FirstConn(id, n) \in t.closed \union lost

(* What a routine leaves of a good session, unless it ends it. *)
Kept(n, s, t) ==
  Up(t) => Good(n, t) /\ t.ballot = s.ballot /\ Shrinks(n, s, t, {})

(* A quiet call keeps a session good. *)
LEMMA QuietGood ==
  ASSUME NEW n, NEW s, Good(n, s), NEW t, Quiet(s, t) PROVE Good(n, t) /\ Kept(n, s, t)
<1>1. Connected(t) = Connected(s) /\ DOMAIN t.alist = DOMAIN s.alist /\ (Up(t) <=> Up(s))
  BY DEF Quiet, Same, Connected, Members, Up
<1>2. DOMAIN s.prep = PrepFields => s.prep # NoPrep
  BY DEF PrepFields, NoPrep
<1>2a. DOMAIN t.prep = PrepFields => t.prep # NoPrep
  BY DEF PrepFields, NoPrep
<1>3. Proposes(n, t)
  BY <1>2, <1>2a DEF Good, Proposes, Quiet, Same, SamePrep
<1>4. Acceptors(n, t) /\ Holes(t)
  BY <1>1 DEF Good, Sound, Shaped, Acceptors, Quiet, Same, Holes
<1>5. Live(t) /\ Descs(n, t) /\ Promised(t) /\ Conts(n, t)
  BY <1>1 DEF Good, Sound, Shaped, Live, Descs, Promised, Conts, Quiet, Same
<1>6. Meets(n, t) /\ Ranked(n, t)
  BY <1>1 DEF Good, Sound, Shaped, Meets, Ranked, Quiet, Same
<1>7. Good(n, t)
  BY <1>1, <1>3, <1>4, <1>5, <1>6 DEF Good, Sound, Shaped, Quiet, Same
<1> QED BY <1>1, <1>7 DEF Kept, Shrinks, Quiet, Same

(* Two quiet calls in a row. *)
LEMMA QuietTrans ==
  ASSUME NEW s, NEW t, Quiet(s, t), NEW u, Quiet(t, u) PROVE Quiet(s, u)
BY DEF Quiet, Same, SamePrep

(* A call that keeps the ballot after one that does. *)
LEMMA KeptTrans ==
  ASSUME NEW n, NEW s, NEW t, t.ballot = s.ballot, Shrinks(n, s, t, {}), NEW u, Kept(n, t, u)
  PROVE  Kept(n, s, u)
BY DEF Kept, Shrinks

(* A call after a quiet one. *)
LEMMA QuietThen ==
  ASSUME NEW n, NEW s, NEW t, Quiet(s, t), NEW u, Kept(n, t, u) PROVE Kept(n, s, u)
<1>1. Connected(t) = Connected(s)
  BY DEF Quiet, Same, Connected, Members
<1> QED BY <1>1 DEF Kept, Shrinks, Quiet, Same

(* Nothing is lost where nothing changes. *)
LEMMA ShrinksSame ==
  ASSUME NEW n, NEW s, NEW t, Connected(t) = Connected(s), t.closed = s.closed
  PROVE  Shrinks(n, s, t, {})
BY DEF Shrinks

(* Connections lost in two calls. *)
LEMMA ShrinksTrans ==
  ASSUME NEW n, NEW s, NEW t, Shrinks(n, s, t, {}), NEW u, Shrinks(n, t, u, {})
  PROVE  Shrinks(n, s, u, {})
BY DEF Shrinks

(* A proposer that keeps its session keeps proposing. *)
LEMMA Stays ==
  ASSUME NEW n, NEW s, Good(n, s), s.proposer = n, NEW t, Kept(n, s, t), Up(t)
  PROVE  Good(n, t) /\ t.proposer = n
<1>1. Good(n, t) /\ Connected(t) \subseteq Connected(s) /\ n \in Nat
  BY DEF Kept, Shrinks, Good, Sound, Shaped, Founders
<1>2. t.proposer <= n /\ t.proposer \in Connected(t) \union {n}
  BY <1>1 DEF Good, Sound, Ranked
<1>3. n \notin Connected(t) /\ Connected(t) \subseteq Nat
  BY <1>1 DEF Good, Sound, Shaped, Acceptors, Connected, Members
<1>4. t.proposer \in Connected(t) => n <= t.proposer
  BY <1>1 DEF Good, Sound, Ranked
<1> QED BY <1>1, <1>2, <1>3, <1>4

(* The participant is the superior end of all its connections. *)
Leads(s) == \A id \in Connected(s) : s.alist[id][1] = s.self

(* So is a proposer. *)
LEMMA ProposerLeads ==
  ASSUME NEW n, NEW s, Sound(n, s), s.proposer = n PROVE Leads(s)
<1> SUFFICES ASSUME NEW id \in Connected(s) PROVE s.alist[id][1] = s.self
  BY DEF Leads
<1>1. n \in Nat /\ id \in Nat /\ s.self = n /\ s.alist[id] = FirstConn(id, n) /\ id # n
  BY DEF Sound, Shaped, Founders, Acceptors, Connected, Members
<1>2. n < id
  BY <1>1 DEF Sound, Ranked
<1> QED BY <1>1, <1>2 DEF FirstConn

(* And it stays so. *)
LEMMA QuietLeads ==
  ASSUME NEW s, Leads(s), NEW t, Quiet(s, t) PROVE Leads(t)
BY DEF Quiet, Same, Leads, Connected, Members

(* A failed assertion ends the session. *)
LEMMA Failed == ASSUME NEW s, DOMAIN s = Fields, NEW w, w # "up" PROVE ~Up(Fail(s, w))
BY DEF Fail, Fields, Up

(* So does paxos_end. *)
LEMMA Ended == ASSUME NEW s, DOMAIN s = Fields PROVE ~Up(PaxosEnd(s))
BY DEF PaxosEnd, Fields, Up

-----------------------------------------------------------------------------
(* Routines that leave all but the log and the output alone *)

(* What neither a proposer nor a client asks for may be written to anybody. *)
LEMMA Anywhere ==
  ASSUME NEW n, NEW c, NEW m, IsMsg(m), m.op \notin Leading \union {"REQUEST"}
  PROVE  Routed(n, c, m)
BY DEF Routed

(* Writing to peers changes their queues only. *)
LEMMA Writes ==
  ASSUME NEW s, DOMAIN s = Fields, Typed(s), NEW peers, NEW m, \A c \in peers : Routed(s.self, c, m),
         NEW t, t = WriteTo(s, peers, m)
  PROVE  Quiet(s, t) /\ t.ilist = s.ilist /\ t.prep = s.prep /\ t.idefer = s.idefer
<1>1. ASSUME NEW c \in peers PROVE IsQueue(s.self, c, Append(Sent(s, c), m))
  <2>1. PICK q, n : q = Sent(s, c) /\ n = s.self
    OBVIOUS
  <2>2. IsQueue(n, c, q)
    BY <2>1, QueueEmpty DEF Sent, Typed, IsOut
  <2>3. IsQueue(n, c, Append(q, m))
    BY <2>1, <2>2, QueueAppend
  <2> QED BY <2>1, <2>3
<1> DEFINE o == [c \in DOMAIN s.out \union peers |->
                   IF c \in peers THEN Append(Sent(s, c), m) ELSE s.out[c]]
<1>2. IsOut(s.self, o)
  BY <1>1 DEF IsOut, Typed
<1>3. t = [s EXCEPT !.out = o]
  BY DEF WriteTo
<1> HIDE DEF o
<1> QED BY <1>2, <1>3 DEF Quiet, Same, SamePrep, Typed, Fields

(* paxos_send either fails on a NULL peer or writes. *)
LEMMA Sends ==
  ASSUME NEW s, DOMAIN s = Fields, Typed(s), NEW c, NEW m, Routed(s.self, c, m), NEW t, t = Send(s, c, m)
  PROVE  Up(t) => Quiet(s, t) /\ t.ilist = s.ilist /\ t.prep = s.prep
<1>1. CASE c = NoPeer
  <2>1. t = Fail(s, "send to NULL peer")
    BY <1>1 DEF Send
  <2> QED BY <2>1, Failed
<1>2. CASE c # NoPeer
  <2>1. t = WriteTo(s, {c}, m)
    BY <1>2 DEF Send
  <2>2. \A d \in {c} : Routed(s.self, d, m)
    OBVIOUS
  <2> QED BY <2>1, <2>2, Writes
<1> QED BY <1>1, <1>2

(* paxos_broadcast writes to the connected acceptors. *)
LEMMA Broadcasts ==
  ASSUME NEW s, DOMAIN s = Fields, Typed(s), NEW m,
         \A id \in Connected(s) : Routed(s.self, s.alist[id], m), NEW t, t = Broadcast(s, m)
  PROVE  Quiet(s, t) /\ t.ilist = s.ilist /\ t.prep = s.prep
<1>1. PICK peers : peers = {s.alist[id] : id \in Connected(s)}
  OBVIOUS
<1>2. t = WriteTo(s, peers, m) /\ \A c \in peers : Routed(s.self, c, m)
  BY <1>1 DEF Broadcast
<1> QED BY <1>2, Writes

(* What a proposer broadcasts. *)
LEMMA LeadBroadcasts ==
  ASSUME NEW s, DOMAIN s = Fields, Typed(s), Leads(s), NEW m, IsMsg(m), m.op # "REQUEST",
         NEW t, t = Broadcast(s, m)
  PROVE  Quiet(s, t) /\ t.ilist = s.ilist /\ t.prep = s.prep
<1>1. \A id \in Connected(s) : Routed(s.self, s.alist[id], m)
  BY DEF Routed, Leads
<1> QED BY <1>1, Broadcasts

(* Broadcasting an instance: its header is well formed because the instance is. *)
LEMMA BroadcastsInstance ==
  ASSUME NEW s, DOMAIN s = Fields, Typed(s), Leads(s), NEW i \in Nat, i \in DOMAIN s.ilist,
         NEW t, t = BroadcastInstance(s, i)
  PROVE  Quiet(s, t) /\ t.ilist = s.ilist /\ t.prep = s.prep
<1>1. PICK x, m : x = s.ilist[i] /\ m = Message(x.op, x.bal, i, x.val)
  OBVIOUS
<1>2. IsInst(i, x)
  BY <1>1 DEF Typed, IsLog
<1>3. IsMsg(m) /\ m.op # "REQUEST"
  BY <1>1, <1>2 DEF IsInst, IsMsg, Message, Ops
<1>4. t = Broadcast(s, m)
  BY <1>1 DEF BroadcastInstance
<1> QED BY <1>3, <1>4, LeadBroadcasts

(* Replacing the instance list. *)
LEMMA Logs ==
  ASSUME NEW s, DOMAIN s = Fields, Typed(s), NEW l, IsLog(l), NEW t, t = [s EXCEPT !.ilist = l]
  PROVE  Quiet(s, t) /\ t.ilist = l /\ t.prep = s.prep
BY DEF Quiet, Same, SamePrep, Typed, Fields

(* Inserting or replacing an instance. *)
LEMMA Puts ==
  ASSUME NEW s, DOMAIN s = Fields, Typed(s), NEW i \in Nat, NEW x, IsInst(i, x),
         NEW t, t = [s EXCEPT !.ilist = Put(@, i, x)]
  PROVE  /\ Quiet(s, t) /\ t.prep = s.prep
         /\ t.ilist = Put(s.ilist, i, x) /\ i \in DOMAIN t.ilist /\ t.ilist[i] = x
         /\ DOMAIN t.ilist = DOMAIN s.ilist \union {i}
<1>1. IsLog(Put(s.ilist, i, x))
  BY PutLog DEF Typed
<1>2. PICK l : l = Put(s.ilist, i, x)
  OBVIOUS
<1>3. DOMAIN l = DOMAIN s.ilist \union {i} /\ l[i] = x
  BY <1>2 DEF Put
<1> QED BY <1>1, <1>2, <1>3, Logs

(* instance_insert_and_upstart inserts, and moves istart only. *)
LEMMA Inserts ==
  ASSUME NEW s, DOMAIN s = Fields, Typed(s), NEW i \in Nat, NEW x, IsInst(i, x),
         NEW t, t = InsertAndUpstart(s, i, x)
  PROVE  /\ Quiet(s, t) /\ t.prep = s.prep
         /\ t.ilist = Put(s.ilist, i, x) /\ i \in DOMAIN t.ilist /\ t.ilist[i] = x
         /\ DOMAIN t.ilist = DOMAIN s.ilist \union {i}
<1>1. IsLog(Put(s.ilist, i, x))
  BY PutLog DEF Typed
<1>2. PICK l : l = Put(s.ilist, i, x)
  OBVIOUS
<1>3. DOMAIN l = DOMAIN s.ilist \union {i} /\ l[i] = x
  BY <1>2 DEF Put
<1>4. t = [s EXCEPT !.ilist = l, !.istart = Upstart(@, s.ihole, i)]
  BY <1>2 DEF InsertAndUpstart
<1>5. Quiet(s, t) /\ t.prep = s.prep /\ t.ilist = l
  BY <1>1, <1>2, <1>4 DEF Quiet, Same, SamePrep, Typed, Fields
<1> QED BY <1>2, <1>3, <1>5

(* The two ways in which instances are made. *)
LEMMA Instances ==
  ASSUME NEW i, NEW b \in Bal, NEW v, IsValAt(i, v)
  PROVE  IsInst(i, DecreeInstance(b, v)) /\ IsInst(i, ZeroInstance(b, v))
BY DEF IsInst, DecreeInstance, ZeroInstance

(* A value may be decreed in any instance. *)
LEMMA ValueAt == ASSUME NEW v, IsVal(v), NEW i PROVE IsValAt(i, v)
BY DEF IsVal, IsValAt

-----------------------------------------------------------------------------
(* Preparing *)

(* Values that take effect on nobody. *)
LEMMA ValueIs ==
  ASSUME NEW kind \in {"CHAT", "NULL"}, NEW id, NEW gen, NEW extra
  PROVE  IsVal(ValueOf(kind, id, gen, extra))
BY DEF IsVal, ValueOf, Kinds

(* Parts and kills of those that are gone. *)
LEMMA PartIs ==
  ASSUME NEW kind \in {"PART", "KILL"}, NEW id, NEW gen, NEW extra, extra \notin Alive
  PROVE  IsVal(ValueOf(kind, id, gen, extra))
BY DEF IsVal, ValueOf, Kinds

(* The parts and kills that a prepare defers. *)
LEMMA PartsAreVals ==
  ASSUME NEW c \in Nat, NEW ids, \A k \in 1 .. c : ids[k] \notin Alive, NEW self, NEW r
  PROVE  IsVals([k \in 1 .. c |-> ValueOf(IF ids[k] < self THEN "KILL" ELSE "PART", self, r + k, ids[k])])
<1> DEFINE part(k) == ValueOf(IF ids[k] < self THEN "KILL" ELSE "PART", self, r + k, ids[k])
           S == {part(k) : k \in 1 .. c}
           q == [k \in 1 .. c |-> part(k)]
<1>1. \A k \in 1 .. c : IsVal(part(k))
  <2> TAKE k \in 1 .. c
  <2>1. PICK kind, id : kind = (IF ids[k] < self THEN "KILL" ELSE "PART") /\ id = ids[k]
    OBVIOUS
  <2>2. kind \in {"PART", "KILL"} /\ id \notin Alive
    BY <2>1
  <2>3. IsVal(ValueOf(kind, self, r + k, id))
    BY <2>2, PartIs
  <2> QED BY <2>1, <2>3
<1> HIDE DEF part
<1>2. q \in [1 .. c -> S]
  OBVIOUS
<1>3. q \in Seq(S) /\ Len(q) = c
  BY <1>2
<1>4. IsSeq(q)
  BY <1>3, SeqIs
<1>5. IsVals(q)
  BY <1>1, <1>3, <1>4 DEF IsVals
<1> QED BY <1>5 DEF part

(* ProposerPrepare, with the acceptors to be parted and once it is sure to prepare. *)
PrepareWithout(s, lost) ==
  LET bal  == [id |-> s.self, gen |-> s.gen_high + 1]
      ids  == Sorted(lost)
      part(k) == ValueOf(IF ids[k] < s.self THEN "KILL" ELSE "PART", s.self, s.req_id + k, ids[k])
  IN  Broadcast([s EXCEPT !.gen_high = @ + 1,
                          !.prep = [bal |-> bal, acks |-> 1, redirects |-> 0, istart |-> s.istart],
                          !.idefer = @ \o [k \in 1 .. Cardinality(lost) |-> part(k)],
                          !.req_id = @ + Cardinality(lost)],
                Message("PREPARE", bal, s.ihole, <<>>))

(* What proposer_prepare leaves: a good session that has kept its promise and its
   connections. *)
PreparesTo(n, s, t) ==
  /\ Good(n, t) /\ t.ballot = s.ballot /\ Connected(t) = Connected(s)
  /\ t.ilist = s.ilist /\ t.ihole = s.ihole /\ t.closed = s.closed

(* The body of proposer_prepare: the new ballot is above gen_high, and a part is
   deferred for everybody without a connection. *)
LEMMA PreparesWithout ==
  ASSUME NEW n, NEW s, Sound(n, s), s.proposer = n, NEW lost \in SUBSET Members(s), lost \cap Alive = {},
         NEW t, t = PrepareWithout(s, lost)
  PROVE  PreparesTo(n, s, t)
<1> DEFINE bal  == [id |-> s.self, gen |-> s.gen_high + 1]
           ids  == Sorted(lost)
           parts == [k \in 1 .. Cardinality(lost) |->
                       ValueOf(IF ids[k] < s.self THEN "KILL" ELSE "PART", s.self, s.req_id + k, ids[k])]
           prep == [bal |-> bal, acks |-> 1, redirects |-> 0, istart |-> s.istart]
           defer == s.idefer \o parts
           req == s.req_id + Cardinality(lost)
           m == Message("PREPARE", bal, s.ihole, <<>>)
           u == [s EXCEPT !.gen_high = @ + 1, !.prep = prep, !.idefer = defer, !.req_id = req]
<1>1. DOMAIN s = Fields /\ Typed(s) /\ s.self = n /\ n \in Nat
  BY DEF Sound, Shaped, Founders
<1>2. Cardinality(lost) \in Nat /\ \A k \in 1 .. Cardinality(lost) : Sorted(lost)[k] \notin Alive
  <2>1. IsFiniteSet(Members(s)) /\ lost \in SUBSET Nat
    BY DEF Sound, Shaped, Acceptors, Members
  <2>2. IsFiniteSet(lost)
    BY <2>1, FS_Subset
  <2>3. Sorted(lost) \in [1 .. Cardinality(lost) -> lost]
    BY <2>1, <2>2, SortedIn
  <2> QED BY <2>2, <2>3, FS_CardinalityType
<1>3. IsVals(defer)
  <2>1. PICK c, i, n0, r0 : c \in Nat /\ c = Cardinality(lost) /\ i = ids /\ n0 = s.self /\ r0 = s.req_id
    BY <1>2
  <2>2. \A k \in 1 .. c : i[k] \notin Alive
    BY <1>2, <2>1
  <2>3. IsVals([k \in 1 .. c |-> ValueOf(IF i[k] < n0 THEN "KILL" ELSE "PART", n0, r0 + k, i[k])])
    <3>1. c \in Nat
      BY <2>1
    <3> QED BY <2>2, <3>1, PartsAreVals
  <2>4. IsVals(parts)
    BY <2>1, <2>3
  <2> HIDE DEF parts
  <2> QED BY <1>1, <2>4, ValsConcat DEF Typed
<1>4. t = Broadcast(u, m)
  BY DEF PrepareWithout
<1>5. bal \in Bal /\ bal = [id |-> n, gen |-> s.gen_high + 1]
  BY <1>1 DEF Sound, Shaped, Promised, Bal
<1>6. DOMAIN prep = PrepFields /\ prep.bal = bal
  BY DEF PrepFields
<1>7. prep # NoPrep
  BY <1>6 DEF PrepFields, NoPrep
<1> HIDE DEF bal, ids, parts, prep, defer, req
<1>8. /\ DOMAIN u = Fields /\ u.gen_high = s.gen_high + 1 /\ u.prep = prep /\ u.idefer = defer
      /\ u.status = s.status /\ u.self = s.self /\ u.alist = s.alist /\ u.desc = s.desc
      /\ u.adefer = s.adefer /\ u.live_count = s.live_count /\ u.proposer = s.proposer
      /\ u.ballot = s.ballot /\ u.ihole = s.ihole /\ u.clist = s.clist /\ u.closed = s.closed
      /\ u.ilist = s.ilist /\ u.out = s.out
  BY <1>1 DEF Fields
<1> HIDE DEF u
<1>9. Connected(u) = Connected(s)
  BY <1>8 DEF Connected, Members
<1>10. Typed(u)
  BY <1>1, <1>3, <1>8 DEF Typed
<1>11. Sound(n, u)
  <2>1. Promised(u)
    BY <1>8 DEF Sound, Shaped, Promised, Bal
  <2>2. Acceptors(n, u) /\ Holes(u)
    BY <1>8 DEF Sound, Shaped, Acceptors, Holes
  <2>3. Live(u) /\ Descs(n, u) /\ Conts(n, u)
    BY <1>8, <1>9 DEF Sound, Shaped, Live, Descs, Conts
  <2>4. Meets(n, u) /\ Ranked(n, u)
    BY <1>8, <1>9 DEF Sound, Shaped, Meets, Ranked
  <2> QED BY <1>8, <1>10, <2>1, <2>2, <2>3, <2>4 DEF Sound, Shaped, Up
<1>12. Proposes(n, u)
  BY <1>5, <1>6, <1>7, <1>8 DEF Proposes, Sound, Shaped, Promised, Bal
<1>13. Good(n, u)
  BY <1>11, <1>12 DEF Good
<1>14. IsMsg(m) /\ m.op # "REQUEST"
  BY <1>5 DEF Message, IsMsg, Ops
<1>15. Quiet(u, t) /\ t.ilist = u.ilist
  <2>1. Leads(u)
    BY <1>8, <1>11, ProposerLeads
  <2> QED BY <1>4, <1>8, <1>10, <1>14, <2>1, LeadBroadcasts
<1>16. Good(n, t)
  BY <1>13, <1>15, QuietGood
<1> QED BY <1>8, <1>15, <1>16 DEF PreparesTo, Quiet, Same, Connected, Members

(* proposer_prepare, called with or without a hole to fill. *)
LEMMA Prepares ==
  ASSUME NEW n, NEW s, Sound(n, s), s.proposer = n, NEW t, Up(t),
         t = ProposerPrepare(s, TRUE) \/ t = ProposerPrepare(s, FALSE)
  PROVE  PreparesTo(n, s, t)
<1>1. ~Up(Fail(s, "prepare while preparing")) /\ ~Up(PaxosEnd(s))
  BY Failed, Ended DEF Sound, Shaped
<1>2. CASE t = ProposerPrepare(s, TRUE)
  <2>1. t = PrepareWithout(s, Members(s) \ (Connected(s) \union {s.self}))
    BY <1>1, <1>2 DEF ProposerPrepare, PrepareWithout
  <2>2. PICK lost : lost = Members(s) \ (Connected(s) \union {s.self})
    OBVIOUS
  <2>3. lost \in SUBSET Members(s) /\ lost \cap Alive = {}
    BY <2>2 DEF Sound, Shaped, Meets
  <2> QED BY <2>1, <2>2, <2>3, PreparesWithout
<1>3. CASE t = ProposerPrepare(s, FALSE)
  <2>1. t = PrepareWithout(s, {})
    BY <1>1, <1>3 DEF ProposerPrepare, PrepareWithout
  <2> QED BY <2>1, PreparesWithout
<1> QED BY <1>2, <1>3

-----------------------------------------------------------------------------
(* Electing a proposer *)

(* What reset_proposer is followed by everywhere: the new proposer prepares. *)
Elect(s) ==
  LET u == ResetProposer(s) IN IF IsProposer(u) THEN ProposerPrepare(u, TRUE) ELSE u

(* An election ends with a proposer from the list, which prepares if it is this session. *)
LEMMA Elects ==
  ASSUME NEW n, NEW s, Shaped(n, s), s.proposer # n, s.prep = NoPrep, NEW t, t = Elect(s), Up(t)
  PROVE  PreparesTo(n, s, t)
<1>0. PICK u : u = ResetProposer(s)
  OBVIOUS
<1> DEFINE S == Connected(s) \union {s.self}
<1>1. DOMAIN s = Fields /\ s.self = n
  BY DEF Shaped
<1>2. Min(S) \in S /\ \A id \in S : Min(S) <= id
  <2>1. S \subseteq DOMAIN s.alist /\ S \subseteq Nat /\ S # {}
    BY <1>1 DEF Connected, Members, Shaped, Acceptors
  <2> HIDE DEF S
  <2> QED BY <2>1, MinOf
<1>3. PICK p : p = Min(S)
  OBVIOUS
<1>4. u = [s EXCEPT !.proposer = p]
  BY <1>0, <1>3 DEF ResetProposer
<1>5. /\ DOMAIN u = Fields /\ u.gen_high = s.gen_high /\ u.prep = s.prep /\ u.idefer = s.idefer
      /\ u.status = s.status /\ u.self = s.self /\ u.alist = s.alist /\ u.desc = s.desc
      /\ u.adefer = s.adefer /\ u.live_count = s.live_count /\ u.proposer = p
      /\ u.ballot = s.ballot /\ u.ihole = s.ihole /\ u.clist = s.clist /\ u.closed = s.closed
      /\ u.ilist = s.ilist /\ u.out = s.out
  BY <1>1, <1>4 DEF Fields
<1>6. Connected(u) = Connected(s)
  BY <1>5 DEF Connected, Members
<1>7. Sound(n, u)
  <2>1. Acceptors(n, u) /\ Holes(u) /\ Meets(n, u)
    BY <1>5, <1>6 DEF Shaped, Acceptors, Holes, Meets
  <2>2. Live(u) /\ Descs(n, u) /\ Conts(n, u) /\ Promised(u)
    BY <1>5, <1>6 DEF Shaped, Live, Descs, Conts, Promised
  <2>3. Ranked(n, u)
    BY <1>1, <1>2, <1>3, <1>5, <1>6 DEF Ranked
  <2> QED BY <1>5, <2>1, <2>2, <2>3 DEF Sound, Shaped, Up, Typed
<1>8. CASE p = n
  <2>1. t = ProposerPrepare(u, TRUE)
    BY <1>0, <1>1, <1>5, <1>8 DEF IsProposer, Elect
  <2>2. PreparesTo(n, u, t)
    BY <1>5, <1>7, <1>8, <2>1, Prepares
  <2> QED BY <1>5, <1>6, <2>2 DEF PreparesTo
<1>9. CASE p # n
  <2>1. t = u
    BY <1>0, <1>1, <1>5, <1>9 DEF IsProposer, Elect
  <2>2. Proposes(n, u)
    BY <1>5, <1>9 DEF Proposes
  <2> QED BY <1>5, <1>6, <1>7, <2>1, <2>2 DEF Good, PreparesTo
<1> QED BY <1>8, <1>9

-----------------------------------------------------------------------------
(* Learning *)

(* The first connections of a participant are as distinct as its peers. *)
LEMMA ConnIs ==
  ASSUME NEW n \in Nat, NEW x \in Nat
  PROVE  FirstConn(x, n) # NoPeer /\ \A y \in Nat : FirstConn(x, n) = FirstConn(y, n) => x = y
<1>1. FirstConn(x, n) # NoPeer
  BY DEF FirstConn, NoPeer
<1>2. ASSUME NEW y \in Nat, FirstConn(x, n) = FirstConn(y, n) PROVE x = y
  BY <1>2 DEF FirstConn
<1> QED BY <1>1, <1>2

(* learn_part takes an acceptor and its connection off the list, counts the connection
   out, and elects if the acceptor was the proposer. *)
LEMMA LearnsPart ==
  ASSUME NEW n, NEW s, Good(n, s), NEW id, id \notin Alive, NEW t, t = LearnPart(s, id), Up(t)
  PROVE  /\ Good(n, t) /\ t.ballot = s.ballot /\ Shrinks(n, s, t, {})
         /\ t.ilist = s.ilist /\ t.ihole = s.ihole
<1> DEFINE al == [m \in Members(s) \ {id} |-> s.alist[m]]
           lc == IF s.alist[id] # NoPeer THEN s.live_count - 1 ELSE s.live_count
           cl == s.closed \union ({s.alist[id]} \ {NoPeer})
           gone == [s EXCEPT !.alist = al, !.live_count = lc, !.closed = cl]
<1>1. DOMAIN s = Fields /\ s.self = n /\ n \in Nat
  BY DEF Good, Sound, Shaped, Founders
<1>2. CASE ~IsMember(s, id)
  <2>1. t = s
    BY <1>2 DEF LearnPart
  <2> QED BY <2>1, ShrinksSame
<1>3. CASE IsMember(s, id)
  <2>1. id # n
    <3>1. ~Up(PaxosEnd(s))
      BY <1>1, Ended
    <3> QED BY <1>1, <1>3, <3>1 DEF LearnPart
  <2>2. t = IF id # s.proposer THEN gone ELSE Elect(gone)
    BY <1>1, <1>3, <2>1 DEF LearnPart, Elect
  <2>3. /\ DOMAIN al = DOMAIN s.alist \ {id} /\ al = [m \in DOMAIN al |-> al[m]]
        /\ \A m \in DOMAIN al : al[m] = s.alist[m]
    BY DEF Members
  <2> HIDE DEF al, lc, cl
  <2>4. /\ DOMAIN gone = Fields /\ gone.gen_high = s.gen_high /\ gone.prep = s.prep
        /\ gone.idefer = s.idefer /\ gone.status = s.status /\ gone.self = s.self /\ gone.alist = al
        /\ gone.desc = s.desc /\ gone.adefer = s.adefer /\ gone.live_count = lc
        /\ gone.proposer = s.proposer /\ gone.ballot = s.ballot /\ gone.ihole = s.ihole
        /\ gone.clist = s.clist /\ gone.closed = cl /\ gone.ilist = s.ilist /\ gone.out = s.out
    BY <1>1 DEF Fields
  <2> HIDE DEF gone
  <2>5. IsFiniteSet(DOMAIN al) /\ DOMAIN al \subseteq Nat /\ id \in Nat
    <3>1. IsFiniteSet(DOMAIN s.alist) /\ DOMAIN s.alist \subseteq Nat /\ id \in DOMAIN s.alist
      BY <1>3 DEF Good, Sound, Shaped, Acceptors, IsMember
    <3>2. IsFiniteSet(DOMAIN s.alist \ {id})
      BY <3>1, FS_RemoveElement
    <3> QED BY <2>3, <3>1, <3>2
  <2>6. Connected(gone) = Connected(s) \ {id}
    BY <2>3, <2>4 DEF Connected, Members
  <2>7. Live(gone)
    <3>1. IsFiniteSet(Connected(s)) /\ Cardinality(Connected(s)) \in Nat
      <4>1. IsFiniteSet(DOMAIN s.alist) /\ Connected(s) \in SUBSET DOMAIN s.alist
        BY DEF Good, Sound, Shaped, Acceptors, Connected, Members
      <4> QED BY <4>1, FS_Subset, FS_CardinalityType
    <3>2. PICK C : C = Connected(s) /\ IsFiniteSet(C) /\ Cardinality(C) \in Nat
      BY <3>1
    <3>3. Cardinality(C \ {id}) = IF id \in C THEN Cardinality(C) - 1 ELSE Cardinality(C)
      BY <3>2, FS_RemoveElement
    <3>4. id \in C <=> s.alist[id] # NoPeer
      BY <1>3, <3>2 DEF IsMember, Connected, Members
    <3>5. s.live_count = Cardinality(C) + 1
      BY <3>2 DEF Good, Sound, Shaped, Live
    <3>6. gone.live_count = Cardinality(Connected(gone)) + 1
      BY <2>4, <2>6, <3>2, <3>3, <3>4, <3>5 DEF lc
    <3>7. ASSUME NEW m \in Connected(gone) PROVE gone.alist[m] \notin gone.closed
      <4>1. m \in Connected(s) /\ m # id /\ m \in DOMAIN al
        BY <2>3, <2>6, <3>7 DEF Connected, Members
      <4>2. gone.alist[m] = s.alist[m] /\ s.alist[m] \notin s.closed
        BY <2>3, <2>4, <4>1 DEF Good, Sound, Shaped, Live
      <4>3. s.alist[m] = FirstConn(m, n) /\ s.alist[id] \in {NoPeer, FirstConn(id, n)}
        BY <1>3, <4>1 DEF Good, Sound, Shaped, Acceptors, Connected, Members, IsMember
      <4>4. s.alist[m] # s.alist[id] \/ s.alist[id] = NoPeer
        BY <1>1, <2>5, <4>1, <4>3, ConnIs
      <4> QED BY <2>4, <4>2, <4>4 DEF cl
    <3> QED BY <3>6, <3>7 DEF Live
  <2>8. Shaped(n, gone)
    <3>1. Acceptors(n, gone)
      BY <2>1, <2>3, <2>4, <2>5 DEF Good, Sound, Shaped, Acceptors
    <3>2. Holes(gone)
      BY <2>3, <2>4 DEF Good, Sound, Shaped, Holes
    <3>3. Descs(n, gone) /\ Conts(n, gone) /\ Promised(gone)
      BY <2>3, <2>4 DEF Good, Sound, Shaped, Descs, Conts, Promised
    <3>4. Meets(n, gone)
      BY <2>6 DEF Good, Sound, Shaped, Meets
    <3> QED BY <2>4, <2>7, <3>1, <3>2, <3>3, <3>4 DEF Good, Sound, Shaped, Up, Typed
  <2>8a. Shrinks(n, s, gone, {})
    <3>1. id \in Connected(s) => s.alist[id] = FirstConn(id, n) /\ s.alist[id] # NoPeer
      BY DEF Good, Sound, Shaped, Acceptors, Connected, Members
    <3>2. id \in Connected(s) => FirstConn(id, n) \in cl
      BY <3>1 DEF cl
    <3> QED BY <2>4, <2>6, <3>2 DEF Shrinks, cl
  <2>9. CASE id # s.proposer
    <3>1. t = gone
      BY <2>2, <2>9
    <3>2. Proposes(n, gone) /\ Ranked(n, gone)
      BY <2>3, <2>4, <2>6, <2>9 DEF Good, Sound, Shaped, Proposes, Ranked
    <3> QED BY <2>4, <2>8, <2>8a, <3>1, <3>2 DEF Good, Sound
  <2>10. CASE id = s.proposer
    <3>1. s.prep = NoPrep
      BY <2>1, <2>10 DEF Good, Proposes
    <3>2. t = Elect(gone)
      BY <2>2, <2>10
    <3>3. gone.proposer # n /\ gone.prep = NoPrep
      BY <2>1, <2>4, <2>10, <3>1
    <3>4. PreparesTo(n, gone, t)
      BY <2>8, <3>2, <3>3, Elects
    <3>5. Shrinks(n, s, t, {})
      BY <2>8a, <3>4 DEF PreparesTo, Shrinks
    <3> QED BY <2>4, <3>4, <3>5 DEF PreparesTo
  <2> QED BY <2>9, <2>10
<1> QED BY <1>2, <1>3

(* Setting the flags and counts of an instance. *)
LEMMA Updates ==
  ASSUME NEW i, NEW x, IsInst(i, x)
  PROVE  /\ IsInst(i, [x EXCEPT !.committed = TRUE]) /\ IsInst(i, [x EXCEPT !.cached = TRUE])
         /\ IsInst(i, [x EXCEPT !.learned = TRUE]) /\ IsInst(i, [x EXCEPT !.op = "COMMIT"])
         /\ IsInst(i, [x EXCEPT !.votes = @ + 1]) /\ IsInst(i, [x EXCEPT !.rejects = @ + 1])
<1>1. IsInst(i, [x EXCEPT !.committed = TRUE]) /\ IsInst(i, [x EXCEPT !.cached = TRUE])
  BY DEF IsInst
<1>2. IsInst(i, [x EXCEPT !.learned = TRUE]) /\ IsInst(i, [x EXCEPT !.op = "COMMIT"])
  BY DEF IsInst
<1>3. IsInst(i, [x EXCEPT !.votes = @ + 1]) /\ IsInst(i, [x EXCEPT !.rejects = @ + 1])
  BY DEF IsInst
<1> QED BY <1>1, <1>2, <1>3

(* The hole moves up. *)
LEMMA HoleUp ==
  ASSUME NEW n, NEW s, Good(n, s), NEW t, t = [s EXCEPT !.ihole = s.ihole + 1]
  PROVE  /\ Good(n, t) /\ t.ballot = s.ballot /\ Shrinks(n, s, t, {})
         /\ t.ilist = s.ilist /\ t.ihole = s.ihole + 1
<1>1. DOMAIN s = Fields
  BY DEF Good, Sound, Shaped
<1>2. /\ DOMAIN t = Fields /\ t.gen_high = s.gen_high /\ t.prep = s.prep /\ t.idefer = s.idefer
      /\ t.status = s.status /\ t.self = s.self /\ t.alist = s.alist /\ t.desc = s.desc
      /\ t.adefer = s.adefer /\ t.live_count = s.live_count /\ t.proposer = s.proposer
      /\ t.ballot = s.ballot /\ t.ihole = s.ihole + 1 /\ t.clist = s.clist /\ t.closed = s.closed
      /\ t.ilist = s.ilist /\ t.out = s.out
  BY <1>1 DEF Fields
<1>3. Connected(t) = Connected(s)
  BY <1>2 DEF Connected, Members
<1>4. Acceptors(n, t) /\ Descs(n, t) /\ Live(t)
  BY <1>2, <1>3 DEF Good, Sound, Shaped, Acceptors, Descs, Live
<1>5. Holes(t)
  BY <1>2, NAssumption DEF Good, Sound, Shaped, Holes, Acceptors
<1>6. Promised(t) /\ Conts(n, t) /\ Proposes(n, t)
  BY <1>2 DEF Good, Sound, Shaped, Promised, Conts, Proposes
<1>7. Meets(n, t) /\ Ranked(n, t) /\ Shrinks(n, s, t, {})
  BY <1>2, <1>3, ShrinksSame DEF Good, Sound, Shaped, Meets, Ranked
<1> QED BY <1>2, <1>4, <1>5, <1>6, <1>7 DEF Good, Sound, Shaped, Typed, Up

(* A join at the hole is learned. *)
Joined(s, p) == [LearnJoin(s, s.ihole, p) EXCEPT !.ihole = s.ihole + 1]

(* learn_join adds an acceptor without connection, named after its instance: the number
   is new to the list because it is that of the hole. *)
LEMMA LearnsJoin ==
  ASSUME NEW n, NEW s, Good(n, s), NEW p \in Joiners, NEW t, t = Joined(s, p)
  PROVE  /\ Good(n, t) /\ t.ballot = s.ballot /\ Shrinks(n, s, t, {})
         /\ t.ilist = s.ilist /\ t.ihole = s.ihole + 1
<1>0. PICK u : u = LearnJoin(s, s.ihole, p) /\ t = [u EXCEPT !.ihole = s.ihole + 1]
  BY DEF Joined
<1>1. PICK i \in Nat : i = s.ihole
  BY DEF Good, Sound, Shaped, Holes
<1> DEFINE al == Put(s.alist, i, NoPeer)
           ds == Put(s.desc, i, p)
           ad == [id \in DOMAIN s.adefer \ {i} |-> s.adefer[id]]
           v == [s EXCEPT !.alist = al, !.live_count = s.live_count, !.adefer = ad, !.desc = ds]
           w == [kind |-> "welcome", acc |-> i, inum |-> 0, val |-> NoValue]
<1>2. DOMAIN s = Fields /\ s.self = n /\ DOMAIN s.adefer = {}
  BY DEF Good, Sound, Shaped
<1>3. u = IF s.proposer = n THEN [v EXCEPT !.clist = Append(@, w)] ELSE v
  BY <1>0, <1>1, <1>2 DEF LearnJoin, Connect, IsProposer
<1>4. DOMAIN ad = {}
  BY <1>2
<1>5. i \notin DOMAIN s.alist
  BY <1>1 DEF Good, Sound, Shaped, Holes
<1>5a. i \notin Alive
  BY <1>1, NAssumption DEF Good, Sound, Shaped, Holes, Alive, Founders
<1>5b. p \in Node /\ p \notin Founders
  BY JoinersAssumption DEF Node, Founders
<1>6. /\ DOMAIN al = DOMAIN s.alist \union {i} /\ al[i] = NoPeer
      /\ \A id \in DOMAIN s.alist : al[id] = s.alist[id]
      /\ al = [id \in DOMAIN al |-> al[id]]
  BY <1>5 DEF Put
<1>7. /\ DOMAIN ds = DOMAIN s.desc \union {i} /\ ds[i] = p
      /\ \A id \in DOMAIN s.desc : id # i => ds[id] = s.desc[id]
  BY DEF Put
<1>8. PICK cl : cl = IF s.proposer = n THEN Append(s.clist, w) ELSE s.clist
  OBVIOUS
<1>w. w.kind = "welcome" /\ w.acc = i
  OBVIOUS
<1> HIDE DEF al, ds, ad, w
<1>9. /\ DOMAIN t = Fields /\ t.gen_high = s.gen_high /\ t.prep = s.prep /\ t.idefer = s.idefer
      /\ t.status = s.status /\ t.self = s.self /\ t.alist = al /\ t.desc = ds
      /\ t.adefer = ad /\ t.live_count = s.live_count /\ t.proposer = s.proposer
      /\ t.ballot = s.ballot /\ t.ihole = i + 1 /\ t.clist = cl /\ t.closed = s.closed
      /\ t.ilist = s.ilist /\ t.out = s.out
  <2>1. CASE s.proposer = n
    BY <1>0, <1>1, <1>2, <1>3, <1>8, <2>1 DEF Fields
  <2>2. CASE s.proposer # n
    BY <1>0, <1>1, <1>2, <1>3, <1>8, <2>2 DEF Fields
  <2> QED BY <2>1, <2>2
<1>10. Connected(t) = Connected(s)
  BY <1>5, <1>6, <1>9 DEF Connected, Members
<1>11. Acceptors(n, t) /\ Meets(n, t) /\ Ranked(n, t)
  <2>1. IsFiniteSet(DOMAIN s.alist \union {i})
    BY FS_AddElement DEF Good, Sound, Shaped, Acceptors
  <2>2. Acceptors(n, t)
    BY <1>1, <1>6, <1>9, <2>1 DEF Good, Sound, Shaped, Acceptors
  <2>3. Meets(n, t) /\ Ranked(n, t)
    BY <1>9, <1>10 DEF Good, Sound, Shaped, Meets, Ranked
  <2> QED BY <2>2, <2>3
<1>12. Holes(t)
  BY <1>1, <1>6, <1>9, NAssumption DEF Good, Sound, Shaped, Acceptors, Holes
<1>13. Live(t)
  BY <1>6, <1>9, <1>10 DEF Good, Sound, Shaped, Live, Connected, Members
<1>14. Descs(n, t)
  <2>1. n # i /\ n \in DOMAIN s.desc
    BY <1>5 DEF Good, Sound, Shaped, Acceptors, Descs
  <2> QED BY <1>5b, <1>6, <1>7, <1>9, <2>1 DEF Good, Sound, Shaped, Descs
<1>15. Promised(t) /\ Proposes(n, t)
  BY <1>9 DEF Good, Sound, Shaped, Promised, Proposes
<1>16. Conts(n, t)
  <2>0. IsSeq(s.clist) /\ Len(s.clist) \in Nat
    BY DEF Good, Sound, Shaped, Conts, IsSeq
  <2>1. ASSUME NEW k \in 1 .. Len(s.clist)
        PROVE  /\ s.clist[k].kind \in {"redirect", "refuse", "reject", "welcome"}
               /\ s.clist[k].kind # "refuse" => s.proposer = n
               /\ s.clist[k].kind = "welcome" => s.clist[k].acc \notin Alive
               /\ s.clist[k].acc \in DOMAIN al => al[s.clist[k].acc] = NoPeer
    BY <1>6 DEF Good, Sound, Shaped, Conts
  <2>2. CASE s.proposer # n
    BY <1>8, <1>9, <2>0, <2>1, <2>2 DEF Conts
  <2>3. CASE s.proposer = n
    <3>1. cl = Append(s.clist, w)
      BY <1>8, <2>3
    <3>2. IsSeq(cl) /\ Len(cl) = Len(s.clist) + 1
      BY <2>0, <3>1, AppendSeq
    <3>3. ASSUME NEW k \in 1 .. Len(cl) PROVE (k \in 1 .. Len(s.clist) /\ cl[k] = s.clist[k]) \/ cl[k] = w
      <4>1. k \in 1 .. Len(s.clist) \/ k = Len(s.clist) + 1
        BY <2>0, <3>2
      <4> QED BY <2>0, <3>1, <4>1, AppendSeq
    <3> QED BY <1>5a, <1>6, <1>9, <1>w, <2>1, <2>3, <3>2, <3>3 DEF Conts
  <2> QED BY <2>2, <2>3
<1>17. Shrinks(n, s, t, {})
  BY <1>9, <1>10, ShrinksSame
<1> QED BY <1>1, <1>2, <1>4, <1>9, <1>17, <1>11, <1>12, <1>13, <1>14, <1>15, <1>16
        DEF Good, Sound, Shaped, Typed, Up

(* One round of the loop of paxos_commit: learn the instance at the hole. *)
LEMMA LearnsNext ==
  ASSUME NEW n, NEW s, Good(n, s), NEW i, i = s.ihole, i \in DOMAIN s.ilist,
         NEW t, t = LearnNext(s, i), Up(t)
  PROVE  /\ Good(n, t) /\ t.ballot = s.ballot /\ Shrinks(n, s, t, {})
         /\ DOMAIN t.ilist = DOMAIN s.ilist /\ t.ihole = i + 1
<1> DEFINE val == s.ilist[i].val
           x == [s.ilist[i] EXCEPT !.learned = TRUE]
           a == [s EXCEPT !.ilist = Put(@, i, x)]
           b == [s EXCEPT !.ilist = Put(@, i, x), !.log = Append(@, val)]
           u == PaxosLearn(s, i)
<1>1. DOMAIN s = Fields /\ Typed(s) /\ i \in Nat
  BY DEF Good, Sound, Shaped, Holes
<1>2. t = [u EXCEPT !.ihole = i + 1] /\ Up(u)
  <2>1. ~Up(Fail(s, "learned twice")) /\ ~Up(Fail(s, "learned without its request"))
    BY <1>1, Failed
  <2>2. Up(s)
    BY DEF Good, Sound, Shaped
  <2> QED BY <2>1, <2>2 DEF LearnNext
<1>3. IsInst(i, x) /\ IsValAt(i, val)
  <2>1. IsInst(i, s.ilist[i])
    BY <1>1 DEF Typed, IsLog
  <2> QED BY <2>1, Updates DEF IsInst
<1>3a. i \in Nat /\ N < i
  BY DEF Good, Sound, Shaped, Holes
<1> HIDE DEF x
<1>4. Quiet(s, a) /\ DOMAIN a.ilist = DOMAIN s.ilist
  <2>1. PICK c : c = a
    OBVIOUS
  <2>2. Quiet(s, c) /\ DOMAIN c.ilist = DOMAIN s.ilist \union {i}
    BY <1>1, <1>3, <2>1, Puts
  <2> QED BY <2>1, <2>2
<1>5. b.ilist = a.ilist /\ b.ihole = i /\ Quiet(s, b)
  BY <1>1, <1>4 DEF Fields, Quiet, Same, SamePrep, Typed
<1>6. Good(n, b) /\ b.ballot = s.ballot /\ Shrinks(n, s, b, {}) /\ DOMAIN b.ilist = DOMAIN s.ilist
  <2>1. PICK g : g = b
    OBVIOUS
  <2>2. Quiet(s, g) /\ DOMAIN g.ilist = DOMAIN s.ilist
    BY <1>4, <1>5, <2>1
  <2>3. Good(n, g) /\ Kept(n, s, g)
    BY <2>2, QuietGood
  <2>4. Up(g)
    BY <2>3 DEF Good, Sound, Shaped
  <2>5. g.ballot = s.ballot /\ Shrinks(n, s, g, {})
    BY <2>3, <2>4 DEF Kept
  <2> QED BY <2>1, <2>2, <2>3, <2>5
<1>7. u = IF val.kind = "JOIN" THEN LearnJoin(b, i, val.extra)
          ELSE IF val.kind \in {"PART", "KILL"} THEN LearnPart(b, val.extra) ELSE b
  <2>1. ~Up(Fail(s, "chat from a stranger"))
    BY <1>1, Failed
  <2> QED BY <1>2, <2>1 DEF PaxosLearn, x
<1>8. PICK c : c = b
  OBVIOUS
<1> HIDE DEF b, a, u
<1>9. CASE val.kind = "JOIN"
  <2>0. PICK p : p = val.extra
    OBVIOUS
  <2>1. t = Joined(c, p) /\ p \in Joiners
    <3>1. ~(i <= N)
      BY <1>3a, NAssumption
    <3> QED BY <1>2, <1>3, <1>5, <1>7, <1>8, <1>9, <2>0, <3>1 DEF IsValAt, Joined
  <2>2. Good(n, c)
    BY <1>6, <1>8
  <2> HIDE DEF val
  <2>3. /\ Good(n, t) /\ t.ballot = c.ballot /\ Shrinks(n, c, t, {})
        /\ t.ilist = c.ilist /\ t.ihole = c.ihole + 1
    BY <2>1, <2>2, LearnsJoin
  <2>4. Shrinks(n, s, t, {})
    BY <1>6, <1>8, <2>3, ShrinksTrans
  <2> QED BY <1>5, <1>6, <1>8, <2>3, <2>4
<1>10. CASE val.kind # "JOIN"
  <2>1. /\ Good(n, u) /\ u.ballot = c.ballot /\ Shrinks(n, c, u, {})
        /\ u.ilist = c.ilist /\ u.ihole = c.ihole
    <3>1. CASE val.kind \in {"PART", "KILL"}
      <4>1. PICK p : p = val.extra
        OBVIOUS
      <4>2. u = LearnPart(c, p) /\ Good(n, c) /\ Up(u) /\ p \notin Alive
        BY <1>2, <1>3, <1>6, <1>7, <1>8, <1>10, <3>1, <4>1 DEF IsValAt
      <4> HIDE DEF val
      <4> QED BY <4>2, LearnsPart
    <3>2. CASE val.kind \notin {"PART", "KILL"}
      <4>1. u = c
        BY <1>7, <1>8, <1>10, <3>2
      <4> QED BY <1>6, <1>8, <4>1, ShrinksSame
    <3> QED BY <3>1, <3>2
  <2>2. u.ihole = i /\ t = [u EXCEPT !.ihole = u.ihole + 1]
    BY <1>2, <1>5, <1>8, <2>1
  <2>3. /\ Good(n, t) /\ t.ballot = u.ballot /\ Shrinks(n, u, t, {})
        /\ t.ilist = u.ilist /\ t.ihole = u.ihole + 1
    BY <2>1, <2>2, HoleUp
  <2>4. Shrinks(n, c, t, {})
    BY <2>1, <2>3, ShrinksTrans
  <2>5. Shrinks(n, s, t, {})
    BY <1>6, <1>8, <2>4, ShrinksTrans
  <2> QED BY <1>6, <1>8, <2>1, <2>2, <2>3, <2>5
<1> QED BY <1>9, <1>10

(* What the learning loop keeps, r being the participant and the session it began with. *)
LearnKeeps(r, k, s) ==
  Up(s) =>
    /\ Good(r[1], s) /\ s.ballot = r[2].ballot /\ Shrinks(r[1], r[2], s, {})
    /\ DOMAIN s.ilist = DOMAIN r[2].ilist /\ s.ihole = r[2].ihole + k

(* The loop of paxos_commit. *)
LearnFold == INSTANCE Folding WITH Op <- LearnNext, P <- LearnKeeps

(* All its rounds: the session is good after each, or has ended. *)
LEMMA LearnsFrom ==
  ASSUME NEW n, NEW s, Good(n, s), NEW h \in Nat, NEW t, t = LearnFrom(s, s.ihole, h),
         \A k \in 1 .. h : s.ihole + k - 1 \in DOMAIN s.ilist
  PROVE  Kept(n, s, t)
<1>1. PICK r : r[1] = n /\ r[2] = s
  <2>1. <<n, s>>[1] = n /\ <<n, s>>[2] = s
    OBVIOUS
  <2> QED BY <2>1
<1>2. PICK i \in Nat : i = s.ihole
  BY DEF Good, Sound, Shaped, Holes
<1> DEFINE q == [k \in 1 .. h |-> i + k - 1]
<1>3. t = LearnFold!Folded(s, q)
  BY <1>2 DEF LearnFrom, LearnFold!Folded, FoldLeft, LearnFold!FoldLeft, MapThenFoldSet,
     LearnFold!MapThenFoldSet, Max, LearnFold!Max
<1>4. DOMAIN q = 1 .. h /\ \A k \in 1 .. h : q[k] = i + k - 1 /\ q[k] \in DOMAIN s.ilist
  BY <1>2
<1> HIDE DEF q
<1>5. PICK z \in Nat : z = 0
  OBVIOUS
<1>6. LearnKeeps(r, z, s)
  BY <1>1, <1>2, <1>5, ShrinksSame DEF LearnKeeps
<1>7. ASSUME NEW u, NEW k \in 1 .. h, LearnKeeps(r, k - 1, u)
      PROVE  LearnKeeps(r, k, LearnNext(u, q[k]))
  <2>1. SUFFICES ASSUME Up(LearnNext(u, q[k])) PROVE LearnKeeps(r, k, LearnNext(u, q[k]))
    BY DEF LearnKeeps
  <2>2. Up(u)
    BY <2>1 DEF LearnNext
  <2>3. /\ Good(n, u) /\ u.ballot = s.ballot /\ Shrinks(n, s, u, {})
        /\ DOMAIN u.ilist = DOMAIN s.ilist /\ u.ihole = i + (k - 1)
    BY <1>1, <1>2, <1>7, <2>2 DEF LearnKeeps
  <2>4. q[k] = u.ihole /\ q[k] \in DOMAIN u.ilist /\ q[k] + 1 = i + k
    BY <1>2, <1>4, <2>3
  <2>5. PICK v : v = LearnNext(u, q[k])
    OBVIOUS
  <2>6. /\ Good(n, v) /\ v.ballot = u.ballot /\ Shrinks(n, u, v, {})
        /\ DOMAIN v.ilist = DOMAIN u.ilist /\ v.ihole = q[k] + 1
    BY <2>1, <2>3, <2>4, <2>5, LearnsNext
  <2>7. Shrinks(n, s, v, {})
    BY <2>3, <2>6, ShrinksTrans
  <2>8. LearnKeeps(r, k, v)
    BY <1>1, <1>2, <2>3, <2>4, <2>6, <2>7 DEF LearnKeeps
  <2> QED BY <2>5, <2>8
<1>8. LearnKeeps(r, h, t)
  <2>1. LearnKeeps(r, 0, s)
    BY <1>5, <1>6
  <2> QED BY <1>3, <1>4, <1>7, <2>1, LearnFold!FoldKeeps
<1> QED BY <1>1, <1>8 DEF LearnKeeps, Kept

(* The loop ends: at some number no later than the one after the last there is nothing to learn. *)
LEMMA HoleAhead ==
  ASSUME NEW l, IsNumbers(DOMAIN l), NEW i \in DOMAIN l
  PROVE  \E h \in i .. (LastIn(l) + 1) : IsNextHole(l, i, h)
<1>1. PICK m \in Nat : m = LastIn(l) /\ i \in Nat /\ i <= m /\ \A j \in DOMAIN l : j <= m
  BY LastInIs DEF IsNumbers
<1> DEFINE S == {h \in i .. (m + 1) : ~Ready(l, h)}
<1>2. S \subseteq Nat /\ m + 1 \in S
  BY <1>1 DEF Ready, IsNumbers
<1>3. PICK h \in S : \A k \in S : h <= k
  BY <1>2, L!Least
<1>4. h \in i .. (m + 1) /\ ~Ready(l, h)
  BY <1>3
<1>5. ASSUME NEW k \in i .. (h - 1) PROVE Ready(l, k)
  <2>1. k \in i .. (m + 1) /\ ~(h <= k)
    BY <1>1, <1>4
  <2> QED BY <1>3, <2>1
<1>6. h >= i
  BY <1>1, <1>4
<1> QED BY <1>1, <1>4, <1>5, <1>6 DEF IsNextHole

(* The whole of learn_contiguous, up to the next hole. *)
LEMMA LearnsContiguous ==
  ASSUME NEW n, NEW s, Good(n, s), s.ihole \in DOMAIN s.ilist, NEW t, t = LearnContiguous(s)
  PROVE  Kept(n, s, t)
<1> DEFINE h == CHOOSE k \in s.ihole .. (LastIn(s.ilist) + 1) : IsNextHole(s.ilist, s.ihole, k)
           a == [s EXCEPT !.istart = s.ihole]
           u == LearnFrom(a, s.ihole, h - s.ihole)
           p == NextIstart(s.ilist, h)
<1> SUFFICES ASSUME Up(t) PROVE Kept(n, s, t)
  BY DEF Kept
<1>1. DOMAIN s = Fields /\ Typed(s) /\ s.ihole \in Nat
  BY DEF Good, Sound, Shaped, Holes
<1>2. t = [u EXCEPT !.istart = p] /\ Up(u)
  <2>1. ~Up(Fail(s, "istart far from the hole"))
    BY <1>1, Failed
  <2> QED BY <2>1 DEF LearnContiguous
<1>3. h \in s.ihole .. (LastIn(s.ilist) + 1) /\ IsNextHole(s.ilist, s.ihole, h)
  <2>1. \E k \in s.ihole .. (LastIn(s.ilist) + 1) : IsNextHole(s.ilist, s.ihole, k)
    BY <1>1, HoleAhead DEF Typed, IsLog
  <2> QED BY <2>1
<1>4. LastIn(s.ilist) \in Nat
  BY <1>1, LastInIs DEF Typed, IsLog
<1> HIDE DEF h
<1>5. h - s.ihole \in Nat /\ \A k \in 1 .. (h - s.ihole) : s.ihole + k - 1 \in DOMAIN s.ilist
  <2>1. h \in Nat /\ h >= s.ihole
    BY <1>1, <1>3, <1>4
  <2>2. ASSUME NEW k \in 1 .. (h - s.ihole) PROVE s.ihole + k - 1 \in DOMAIN s.ilist
    <3>1. s.ihole + k - 1 \in s.ihole .. (h - 1)
      BY <1>1, <2>1
    <3> QED BY <1>3, <3>1 DEF IsNextHole, Ready
  <2> QED BY <1>1, <2>1, <2>2
<1>6. Quiet(s, a) /\ a.ilist = s.ilist /\ a.ihole = s.ihole
  BY <1>1 DEF Quiet, Same, SamePrep, Typed, Fields
<1>7. Good(n, a)
  BY <1>6, QuietGood
<1>8. PICK b, c, g : b = a /\ c = u /\ g = h - s.ihole
  OBVIOUS
<1>9. Kept(n, b, c)
  <2>1. c = LearnFrom(b, b.ihole, g) /\ g \in Nat /\ \A k \in 1 .. g : b.ihole + k - 1 \in DOMAIN b.ilist
    BY <1>5, <1>6, <1>8
  <2>2. Good(n, b)
    BY <1>7, <1>8
  <2> QED BY <2>1, <2>2, LearnsFrom
<1>9a. Kept(n, s, c)
  BY <1>6, <1>8, <1>9, QuietThen
<1>10. Good(n, c) /\ c.ballot = s.ballot /\ Shrinks(n, s, c, {}) /\ t = [c EXCEPT !.istart = p]
  BY <1>2, <1>8, <1>9a DEF Kept
<1> HIDE DEF a, u, p
<1>11. Quiet(c, t)
  BY <1>10 DEF Good, Sound, Shaped, Quiet, Same, SamePrep, Typed, Fields
<1>12. Kept(n, c, t)
  BY <1>10, <1>11, QuietGood
<1> QED BY <1>10, <1>12, KeptTrans

-----------------------------------------------------------------------------
(* Committing and decreeing *)

(* paxos_retrieve asks the originator, or everybody. *)
LEMMA Retrieves ==
  ASSUME NEW n, NEW s, Good(n, s), NEW i, i \in DOMAIN s.ilist, NEW t, t = PaxosRetrieve(s, i), Up(t)
  PROVE  Quiet(s, t)
<1> DEFINE val == s.ilist[i].val
           m == Message("RETRIEVE", s.ballot, i, [from |-> s.self, val |-> val])
<1>1. DOMAIN s = Fields /\ Typed(s)
  BY DEF Good, Sound, Shaped
<1>2. IsMsg(m) /\ m.op \notin Leading \union {"REQUEST"}
  BY <1>1 DEF IsMsg, Message, Ops, Leading, Good, Sound, Shaped, Promised
<1>3. t = Send(s, s.alist[val.id], m) \/ t = Broadcast(s, m)
  BY DEF PaxosRetrieve
<1> HIDE DEF m, val
<1>4. \A c : Routed(s.self, c, m)
  BY <1>2, Anywhere
<1> QED BY <1>1, <1>3, <1>4, Sends, Broadcasts

(* acceptor_retry asks the proposer for the hole. *)
LEMMA Retries ==
  ASSUME NEW n, NEW s, Good(n, s), NEW i, NEW t, t = AcceptorRetry(s, i), Up(t)
  PROVE  Quiet(s, t)
<1> DEFINE m == Message("RETRY", s.ballot, i, <<>>)
<1>1. DOMAIN s = Fields /\ Typed(s)
  BY DEF Good, Sound, Shaped
<1>2. IsMsg(m) /\ m.op \notin Leading \union {"REQUEST"}
  BY <1>1 DEF IsMsg, Message, Ops, Leading, Good, Sound, Shaped, Promised
<1>3. t = Send(s, s.alist[s.proposer], m)
  BY DEF AcceptorRetry, SendToProposer
<1> HIDE DEF m
<1>4. \A c : Routed(s.self, c, m)
  BY <1>2, Anywhere
<1> QED BY <1>1, <1>3, <1>4, Sends

(* paxos_commit: flag, retrieve or retry or learn. *)
LEMMA Commits ==
  ASSUME NEW n, NEW s, Good(n, s), NEW i, i \in DOMAIN s.ilist, NEW t, t = PaxosCommit(s, i)
  PROVE  Kept(n, s, t)
<1> DEFINE x == [s.ilist[i] EXCEPT !.committed = TRUE]
           c == [s EXCEPT !.ilist = Put(@, i, x)]
           y == [c.ilist[i] EXCEPT !.cached = TRUE]
           d == [c EXCEPT !.ilist = Put(@, i, y)]
<1> SUFFICES ASSUME Up(t) PROVE Kept(n, s, t)
  BY DEF Kept
<1>1. DOMAIN s = Fields /\ Typed(s) /\ i \in Nat /\ IsInst(i, s.ilist[i]) /\ s.self = n
  BY DEF Good, Sound, Shaped, Typed, IsLog, IsNumbers
<1>2. t = PaxosRetrieve(c, i) \/ t = d \/ t = AcceptorRetry(d, s.ihole) \/ (i = s.ihole /\ t = LearnContiguous(d))
  <2>1. /\ ~Up(Fail(s, "commit below the hole")) /\ ~Up(Fail(s, "istart off the list"))
        /\ ~Up(Fail(s, "hole already cached"))
    BY <1>1, Failed
  <2> QED BY <2>1 DEF PaxosCommit
<1>3. IsInst(i, x)
  BY <1>1, Updates
<1> HIDE DEF x
<1>4. PICK u : u = c
  OBVIOUS
<1>5. Quiet(s, u) /\ i \in DOMAIN u.ilist /\ u.ilist[i] = x
  BY <1>1, <1>3, <1>4, Puts
<1>6. PICK z : z = y
  OBVIOUS
<1>7. IsInst(i, z)
  BY <1>3, <1>4, <1>5, <1>6, Updates
<1>8. PICK v : v = d
  OBVIOUS
<1>9. v = [u EXCEPT !.ilist = Put(@, i, z)]
  BY <1>4, <1>6, <1>8
<1> HIDE DEF c, d, y
<1>10. Quiet(u, v) /\ i \in DOMAIN v.ilist
  BY <1>1, <1>5, <1>7, <1>9, Puts DEF Quiet, Same
<1>11. Quiet(s, v)
  BY <1>5, <1>10, QuietTrans
<1>12. Good(n, u) /\ Good(n, v)
  BY <1>5, <1>11, QuietGood
<1>13. CASE t = PaxosRetrieve(u, i)
  <2>1. Quiet(u, t)
    BY <1>5, <1>12, <1>13, Retrieves
  <2>2. Quiet(s, t)
    BY <1>5, <2>1, QuietTrans
  <2> QED BY <2>2, QuietGood
<1>14. CASE t = v
  BY <1>11, <1>14, QuietGood
<1>15. CASE t = AcceptorRetry(v, s.ihole)
  <2>1. Quiet(v, t)
    BY <1>12, <1>15, Retries
  <2>2. Quiet(s, t)
    BY <1>11, <2>1, QuietTrans
  <2> QED BY <2>2, QuietGood
<1>16. CASE i = s.ihole /\ t = LearnContiguous(v)
  <2>1. v.ihole \in DOMAIN v.ilist
    BY <1>10, <1>11, <1>16 DEF Quiet, Same
  <2>2. Kept(n, v, t)
    BY <1>12, <1>16, <2>1, LearnsContiguous
  <2> QED BY <1>11, <2>2, QuietThen
<1> QED BY <1>2, <1>4, <1>8, <1>13, <1>14, <1>15, <1>16

(* proposer_commit: commit and tell the others. *)
LEMMA ProposerCommits ==
  ASSUME NEW n, NEW s, Good(n, s), s.proposer = n, NEW i, i \in DOMAIN s.ilist, NEW t, t = ProposerCommit(s, i)
  PROVE  Kept(n, s, t)
<1>1. DOMAIN s = Fields /\ Typed(s) /\ i \in Nat /\ IsInst(i, s.ilist[i])
  BY DEF Good, Sound, Shaped, Typed, IsLog, IsNumbers
<1>2. PICK x : x = [s.ilist[i] EXCEPT !.op = "COMMIT"]
  OBVIOUS
<1>3. PICK a : a = [s EXCEPT !.ilist = Put(@, i, x)]
  OBVIOUS
<1>4. PICK b : b = BroadcastInstance(a, i)
  OBVIOUS
<1>5. t = PaxosCommit(b, i)
  BY <1>2, <1>3, <1>4 DEF ProposerCommit
<1>6. Quiet(s, a) /\ i \in DOMAIN a.ilist
  <2>1. IsInst(i, x)
    BY <1>1, <1>2, Updates
  <2> QED BY <1>1, <1>3, <2>1, Puts
<1>7. Quiet(a, b) /\ b.ilist = a.ilist
  <2>1. Leads(a)
    BY <1>6, ProposerLeads, QuietLeads DEF Good
  <2> QED BY <1>1, <1>4, <1>6, <2>1, BroadcastsInstance DEF Quiet, Same
<1>8. Quiet(s, b) /\ i \in DOMAIN b.ilist
  BY <1>6, <1>7, QuietTrans
<1>9. Good(n, b)
  BY <1>8, QuietGood
<1>10. Kept(n, b, t)
  BY <1>5, <1>8, <1>9, Commits
<1> QED BY <1>8, <1>10, QuietThen

(* proposer_decree of a prepared proposer. *)
LEMMA Decrees ==
  ASSUME NEW n, NEW s, Good(n, s), s.proposer = n, NEW val, IsVal(val), NEW t, t = ProposerDecree(s, val)
  PROVE  Kept(n, s, t)
<1>1. DOMAIN s = Fields /\ Typed(s) /\ s.ballot \in Bal
  BY DEF Good, Sound, Shaped, Promised
<1>2. PICK i : i = NextInstance(s) /\ i \in Nat
  BY <1>1, LastInIs DEF NextInstance, Typed, IsLog
<1>3. PICK x : x = DecreeInstance(s.ballot, val)
  OBVIOUS
<1>4. PICK a : a = InsertAndUpstart(s, i, x)
  OBVIOUS
<1>5. PICK b : b = BroadcastInstance(a, i)
  OBVIOUS
<1>6. t = b \/ t = ProposerCommit(b, i)
  BY <1>2, <1>3, <1>4, <1>5 DEF ProposerDecree
<1>7. Quiet(s, a) /\ i \in DOMAIN a.ilist
  <2>1. IsInst(i, x)
    BY <1>1, <1>3, Instances, ValueAt
  <2> QED BY <1>1, <1>2, <1>4, <2>1, Inserts
<1>8. Quiet(a, b) /\ b.ilist = a.ilist
  <2>1. Leads(a)
    BY <1>7, ProposerLeads, QuietLeads DEF Good
  <2> QED BY <1>2, <1>5, <1>7, <2>1, BroadcastsInstance DEF Quiet, Same
<1>9. Quiet(s, b) /\ i \in DOMAIN b.ilist
  BY <1>7, <1>8, QuietTrans
<1>10. Good(n, b) /\ b.proposer = n /\ Kept(n, s, b)
  BY <1>9, QuietGood DEF Quiet, Same
<1>11. CASE t = ProposerCommit(b, i)
  <2>1. Kept(n, b, t)
    BY <1>9, <1>10, <1>11, ProposerCommits
  <2> QED BY <1>9, <2>1, QuietThen
<1> QED BY <1>6, <1>10, <1>11

(* proposer_decree while it may still be preparing. *)
LEMMA DecreesOrDefers ==
  ASSUME NEW n, NEW s, Good(n, s), s.proposer = n, NEW val, IsVal(val), NEW t, t = DecreeOrDefer(s, val)
  PROVE  Kept(n, s, t)
<1>1. CASE s.prep = NoPrep
  BY <1>1, Decrees DEF DecreeOrDefer
<1>2. CASE s.prep # NoPrep
  <2>1. PICK q : q = Append(s.idefer, val)
    OBVIOUS
  <2>2. t = [s EXCEPT !.idefer = q] /\ DOMAIN s = Fields /\ Typed(s)
    BY <1>2, <2>1 DEF DecreeOrDefer, Good, Sound, Shaped
  <2>3. IsVals(q)
    BY <2>1, <2>2, ValsAppend DEF Typed
  <2>4. Quiet(s, t)
    BY <2>2, <2>3 DEF Quiet, Same, SamePrep, Typed, Fields
  <2> QED BY <2>4, QuietGood
<1> QED BY <1>1, <1>2

(* The fields that no part of Good speaks of. *)
LEMMA Minor ==
  ASSUME NEW s, DOMAIN s = Fields, Typed(s), NEW x
  PROVE  /\ Quiet(s, [s EXCEPT !.req_id = x]) /\ Quiet(s, [s EXCEPT !.rcache = x])
         /\ Quiet(s, [s EXCEPT !.ibase = x]) /\ Quiet(s, [s EXCEPT !.sync = x])
<1>1. Quiet(s, [s EXCEPT !.req_id = x]) /\ Quiet(s, [s EXCEPT !.rcache = x])
  BY DEF Quiet, Same, SamePrep, Typed, Fields
<1>2. Quiet(s, [s EXCEPT !.ibase = x]) /\ Quiet(s, [s EXCEPT !.sync = x])
  BY DEF Quiet, Same, SamePrep, Typed, Fields
<1> QED BY <1>1, <1>2

(* proposer_decree_part, for a part or a kill. *)
LEMMA DecreesPart ==
  ASSUME NEW n, NEW s, Good(n, s), s.proposer = n, NEW id, id \notin Alive, NEW t,
         t = DecreePart(s, id, TRUE) \/ t = DecreePart(s, id, FALSE)
  PROVE  Kept(n, s, t)
<1>1. PICK a : a = [s EXCEPT !.req_id = @ + 1]
  OBVIOUS
<1>2. PICK kill, part : kill = ValueOf("KILL", s.self, s.req_id + 1, id)
                        /\ part = ValueOf("PART", s.self, s.req_id + 1, id)
  OBVIOUS
<1>3. t = DecreeOrDefer(a, kill) \/ t = DecreeOrDefer(a, part)
  BY <1>1, <1>2 DEF DecreePart
<1>4. IsVal(kill) /\ IsVal(part)
  BY <1>2, PartIs
<1>5. Quiet(s, a)
  BY <1>1, Minor DEF Good, Sound, Shaped
<1>6. Good(n, a) /\ a.proposer = n
  BY <1>5, QuietGood DEF Quiet, Same
<1>7. Kept(n, a, t)
  BY <1>3, <1>4, <1>6, DecreesOrDefers
<1> QED BY <1>5, <1>7, QuietThen

-----------------------------------------------------------------------------
(* Merging promises *)

(* What the merge of a promise passes along. *)
AccFields == {"s", "it", "votes"}

(* One vote of a promise. *)
LEMMA MergesVote ==
  ASSUME NEW acc, DOMAIN acc = AccFields, IsVotes(acc.votes), NEW i \in Nat,
         NEW b, b = MergeVote(acc, i), NEW s, s = acc.s,
         Up(s) => DOMAIN s = Fields /\ Typed(s) /\ DOMAIN s.prep = PrepFields
  PROVE  /\ DOMAIN b = AccFields /\ b.votes = acc.votes
         /\ Up(b.s) => Up(s) /\ Quiet(s, b.s)
<1>1. CASE ~Up(s) \/ i \notin DOMAIN acc.votes
  <2>1. b = acc
    BY <1>1 DEF MergeVote
  <2>2. Up(s) => Quiet(s, s)
    BY DEF Quiet, Same, SamePrep
  <2> QED BY <2>1, <2>2
<1>2. CASE Up(s) /\ i \in DOMAIN acc.votes
  <2> DEFINE x == ZeroInstance(acc.votes[i].bal, acc.votes[i].val)
             ist == IF s.istart = i THEN OffList ELSE s.istart
             pst == IF s.prep.istart = i THEN OffList ELSE s.prep.istart
             f1 == Fail(s, "pp_istart off the list")
             f2 == Fail(s, "promise below the iterator")
             ins == InsertAndUpstart(s, i, x)
             swap == [s EXCEPT !.ilist = Put(@, i, x), !.istart = ist, !.prep.istart = pst]
  <2>1. DOMAIN s = Fields /\ Typed(s) /\ DOMAIN s.prep = PrepFields
    BY <1>2
  <2>2. \/ b = [acc EXCEPT !.s = f1] \/ b = [acc EXCEPT !.s = f2]
        \/ b = [acc EXCEPT !.s = ins, !.it = Glb(s.ilist, acc.it, i)]
        \/ b = [acc EXCEPT !.s = swap, !.it = i]
        \/ b = [acc EXCEPT !.it = i]
    BY <1>2 DEF MergeVote
  <2>3. ~Up(f1) /\ ~Up(f2)
    BY <2>1, Failed
  <2>4. IsInst(i, x)
    <3>1. IsVote(i, acc.votes[i])
      BY <1>2 DEF IsVotes
    <3> QED BY <3>1, Instances DEF IsVote
  <2> HIDE DEF x, f1, f2
  <2>5. Quiet(s, ins)
    BY <2>1, <2>4, Inserts
  <2>6. Quiet(s, swap)
    <3>1. PICK l : l = Put(s.ilist, i, x)
      OBVIOUS
    <3>2. IsLog(l)
      BY <2>1, <2>4, <3>1, PutLog DEF Typed
    <3>3. PICK pr : pr = [s.prep EXCEPT !.istart = pst]
      OBVIOUS
    <3>4. DOMAIN pr = PrepFields /\ pr.bal = s.prep.bal
      BY <2>1, <3>3 DEF PrepFields
    <3>5. swap = [s EXCEPT !.ilist = l, !.istart = ist, !.prep = pr]
      BY <3>1, <3>3
    <3> HIDE DEF swap, ist, pst
    <3> QED BY <2>1, <3>2, <3>4, <3>5 DEF Quiet, Same, SamePrep, Typed, Fields
  <2>7. Quiet(s, s)
    BY <2>1 DEF Quiet, Same, SamePrep
  <2> HIDE DEF ins, swap
  <2> QED BY <1>2, <2>2, <2>3, <2>5, <2>6, <2>7 DEF AccFields
<1> QED BY <1>1, <1>2

(* What the merge of a promise keeps, r being the session and the votes it began with. *)
MergeKeeps(r, k, acc) ==
  /\ DOMAIN acc = AccFields /\ acc.votes = r.votes
  /\ Up(acc.s) => Quiet(r.s, acc.s) /\ DOMAIN acc.s.prep = PrepFields

(* The merge of a promise. *)
MergeFold == INSTANCE Folding WITH Op <- MergeVote, P <- MergeKeeps

(* All votes of a promise: only the list and the start of the merge change. *)
LEMMA MergesVotes ==
  ASSUME NEW s, DOMAIN s = Fields, Typed(s), DOMAIN s.prep = PrepFields, NEW votes, IsVotes(votes),
         NEW acc, DOMAIN acc = AccFields, acc.s = s, acc.votes = votes,
         NEW t, t = MergeVotes(acc).s, Up(t)
  PROVE  Quiet(s, t) /\ DOMAIN t.prep = PrepFields
<1>1. PICK h : h \in Nat /\ h = LastIn(votes)
  BY LastInIs DEF IsVotes
<1> DEFINE q == [i \in 1 .. h |-> i]
<1>2. MergeVotes(acc) = MergeFold!Folded(acc, q)
  BY <1>1 DEF MergeVotes, MergeFold!Folded, FoldLeft, MergeFold!FoldLeft, MapThenFoldSet,
     MergeFold!MapThenFoldSet, Max, MergeFold!Max
<1>3. DOMAIN q = 1 .. h /\ \A k \in 1 .. h : q[k] = k
  OBVIOUS
<1> HIDE DEF q
<1>4. MergeKeeps(acc, 0, acc)
  BY DEF MergeKeeps, Quiet, Same, SamePrep
<1>5. ASSUME NEW a, NEW k \in 1 .. h, MergeKeeps(acc, k - 1, a)
      PROVE  MergeKeeps(acc, k, MergeVote(a, q[k]))
  <2>1. PICK b : b = MergeVote(a, q[k])
    OBVIOUS
  <2>2. q[k] \in Nat
    BY <1>3
  <2>3. PICK u : u = a.s
    OBVIOUS
  <2>4. /\ DOMAIN a = AccFields /\ a.votes = votes
        /\ Up(u) => Quiet(s, u) /\ DOMAIN u.prep = PrepFields /\ DOMAIN u = Fields /\ Typed(u)
    BY <1>5, <2>3 DEF MergeKeeps, Quiet, Same
  <2>5. DOMAIN b = AccFields /\ b.votes = a.votes /\ (Up(b.s) => Up(u) /\ Quiet(u, b.s))
    BY <2>1, <2>2, <2>3, <2>4, MergesVote
  <2>6. ASSUME Up(b.s) PROVE Quiet(s, b.s) /\ DOMAIN b.s.prep = PrepFields
    <3>1. PICK v : v = b.s
      OBVIOUS
    <3>2. Quiet(s, v)
      BY <2>4, <2>5, <2>6, <3>1, QuietTrans
    <3>3. DOMAIN v.prep = PrepFields
      BY <2>4, <2>5, <2>6, <3>1 DEF Quiet, Same, SamePrep
    <3> QED BY <3>1, <3>2, <3>3
  <2>7. MergeKeeps(acc, k, b)
    BY <2>4, <2>5, <2>6 DEF MergeKeeps
  <2> QED BY <2>1, <2>7
<1>6. MergeKeeps(acc, h, MergeVotes(acc))
  BY <1>1, <1>2, <1>3, <1>4, <1>5, MergeFold!FoldKeeps
<1> QED BY <1>6 DEF MergeKeeps

-----------------------------------------------------------------------------
(* Finishing a prepare *)

(* One round of the loop that redecrees what the promises brought, or nulls. *)
LEMMA Redecrees ==
  ASSUME NEW s, DOMAIN s = Fields, Typed(s), Leads(s), s.ballot \in Bal, NEW i \in Nat,
         NEW t, t = Redecree(s, i)
  PROVE  Quiet(s, t) /\ t.prep = s.prep
<1>1. CASE i \notin DOMAIN s.ilist
  <2>1. PICK x : x = DecreeInstance(s.ballot, ValueOf("NULL", s.self, s.req_id + 1, 0))
    OBVIOUS
  <2>2. PICK a : a = InsertAndUpstart(s, i, x)
    OBVIOUS
  <2>3. PICK b : b = [a EXCEPT !.req_id = @ + 1]
    OBVIOUS
  <2>4. t = BroadcastInstance(b, i)
    BY <1>1, <2>1, <2>2, <2>3 DEF Redecree
  <2>5. IsInst(i, x)
    BY <2>1, ValueIs, ValueAt, Instances
  <2>6. Quiet(s, a) /\ a.prep = s.prep /\ i \in DOMAIN a.ilist
    BY <2>2, <2>5, Inserts
  <2>7. Quiet(a, b) /\ b.prep = a.prep /\ b.ilist = a.ilist
    BY <2>3, <2>6 DEF Quiet, Same, SamePrep, Typed, Fields
  <2>9. Quiet(s, b) /\ Leads(b)
    BY <2>6, <2>7, QuietTrans, QuietLeads
  <2>8. Quiet(b, t) /\ t.prep = b.prep
    BY <2>4, <2>6, <2>7, <2>9, BroadcastsInstance DEF Quiet, Same
  <2>10. Quiet(s, t)
    BY <2>8, <2>9, QuietTrans
  <2> QED BY <2>6, <2>7, <2>8, <2>10
<1>2. CASE i \in DOMAIN s.ilist /\ s.ilist[i].committed
  BY <1>2 DEF Redecree, Quiet, Same, SamePrep
<1>3. CASE i \in DOMAIN s.ilist /\ ~s.ilist[i].committed
  <2>1. PICK x : x = DecreeInstance(s.ballot, s.ilist[i].val)
    OBVIOUS
  <2>2. PICK a : a = [s EXCEPT !.ilist = Put(@, i, x)]
    OBVIOUS
  <2>3. t = BroadcastInstance(a, i)
    BY <1>3, <2>1, <2>2 DEF Redecree
  <2>4. IsInst(i, x)
    <3>1. IsValAt(i, s.ilist[i].val)
      BY <1>3 DEF Typed, IsLog, IsInst
    <3> QED BY <2>1, <3>1, Instances
  <2>5. Quiet(s, a) /\ a.prep = s.prep /\ i \in DOMAIN a.ilist /\ Leads(a)
    BY <2>2, <2>4, Puts, QuietLeads
  <2>6. Quiet(a, t) /\ t.prep = a.prep
    BY <2>3, <2>5, BroadcastsInstance DEF Quiet, Same
  <2> QED BY <2>5, <2>6, QuietTrans
<1> QED BY <1>1, <1>2, <1>3

(* What redecreeing keeps, r being the session it began with. *)
RedecreeKeeps(r, k, s) == Quiet(r, s)

(* That loop. *)
RedecreeFold == INSTANCE Folding WITH Op <- Redecree, P <- RedecreeKeeps

(* All its rounds. *)
LEMMA RedecreesFrom ==
  ASSUME NEW s, DOMAIN s = Fields, Typed(s), Leads(s), s.ballot \in Bal, NEW i \in Nat, NEW h \in Int,
         NEW t, t = RedecreeFrom(s, i, h)
  PROVE  Quiet(s, t)
<1> DEFINE q == [k \in 1 .. h |-> i + k - 1]
<1>0. PICK g \in Nat : 1 .. g = 1 .. h
  <2>1. CASE h >= 0
    BY <2>1
  <2>2. CASE h < 0
    <3>1. 1 .. 0 = 1 .. h
      BY <2>2
    <3> QED BY <3>1
  <2> QED BY <2>1, <2>2
<1>1. t = RedecreeFold!Folded(s, q)
  BY DEF RedecreeFrom, RedecreeFold!Folded, FoldLeft, RedecreeFold!FoldLeft, MapThenFoldSet,
     RedecreeFold!MapThenFoldSet, Max, RedecreeFold!Max
<1>2. DOMAIN q = 1 .. g /\ \A k \in 1 .. g : q[k] \in Nat
  BY <1>0
<1> HIDE DEF q
<1>3. RedecreeKeeps(s, 0, s)
  BY DEF RedecreeKeeps, Quiet, Same, SamePrep
<1>4. ASSUME NEW u, NEW k \in 1 .. g, RedecreeKeeps(s, k - 1, u)
      PROVE  RedecreeKeeps(s, k, Redecree(u, q[k]))
  <2>1. Quiet(s, u)
    BY <1>4 DEF RedecreeKeeps
  <2>2. DOMAIN u = Fields /\ Typed(u) /\ u.ballot \in Bal /\ Leads(u)
    BY <2>1, QuietLeads DEF Quiet, Same
  <2>3. PICK v : v = Redecree(u, q[k])
    OBVIOUS
  <2>4. Quiet(u, v)
    BY <1>2, <2>2, <2>3, Redecrees
  <2>5. Quiet(s, v)
    BY <2>1, <2>4, QuietTrans
  <2> QED BY <2>3, <2>5 DEF RedecreeKeeps
<1>5. RedecreeKeeps(s, g, t)
  BY <1>1, <1>2, <1>3, <1>4, RedecreeFold!FoldKeeps
<1> QED BY <1>5 DEF RedecreeKeeps

(* What decreeing what was deferred keeps. *)
DecreeKeeps(r, k, s) == Kept(r[1], r[2], s)

(* The loop over the deferred decrees. *)
DecreeFold == INSTANCE Folding WITH Op <- DecreeUnlessEnded, P <- DecreeKeeps

(* All deferred decrees are decreed; one of them may end the session. *)
LEMMA DecreesAll ==
  ASSUME NEW n, NEW s, Good(n, s), s.proposer = n, NEW vals, IsVals(vals), NEW t, t = DecreeAll(s, vals)
  PROVE  Kept(n, s, t)
<1>1. PICK r : r[1] = n /\ r[2] = s
  <2>1. <<n, s>>[1] = n /\ <<n, s>>[2] = s
    OBVIOUS
  <2> QED BY <2>1
<1>2. t = DecreeFold!Folded(s, vals)
  BY DEF DecreeAll, DecreeFold!Folded, FoldLeft, DecreeFold!FoldLeft, MapThenFoldSet,
     DecreeFold!MapThenFoldSet, Max, DecreeFold!Max
<1>3. PICK h \in Nat : DOMAIN vals = 1 .. h /\ \A k \in 1 .. h : IsVal(vals[k])
  BY DEF IsVals, IsSeq
<1>4. DecreeKeeps(r, 0, s)
  BY <1>1, ShrinksSame DEF DecreeKeeps, Kept
<1>5. ASSUME NEW u, NEW k \in 1 .. h, DecreeKeeps(r, k - 1, u)
      PROVE  DecreeKeeps(r, k, DecreeUnlessEnded(u, vals[k]))
  <2>1. PICK v, w : v = DecreeUnlessEnded(u, vals[k]) /\ w = vals[k]
    OBVIOUS
  <2>2. Kept(n, s, u) /\ IsVal(w)
    BY <1>1, <1>3, <1>5, <2>1 DEF DecreeKeeps
  <2>3. CASE Up(u)
    <3>1. Good(n, u) /\ u.ballot = s.ballot /\ Shrinks(n, s, u, {}) /\ u.proposer = n
      BY <2>2, <2>3, Stays DEF Kept
    <3>2. v = ProposerDecree(u, w)
      BY <2>1, <2>3 DEF DecreeUnlessEnded
    <3>3. Kept(n, u, v)
      BY <2>2, <3>1, <3>2, Decrees
    <3>4. Kept(n, s, v)
      BY <3>1, <3>3, KeptTrans
    <3> QED BY <1>1, <2>1, <3>4 DEF DecreeKeeps
  <2>4. CASE ~Up(u)
    BY <1>1, <2>1, <2>2, <2>4 DEF DecreeUnlessEnded, DecreeKeeps
  <2> QED BY <2>3, <2>4
<1>6. DecreeKeeps(r, h, t)
  BY <1>2, <1>3, <1>4, <1>5, DecreeFold!FoldKeeps
<1> QED BY <1>1, <1>6 DEF DecreeKeeps

=============================================================================
