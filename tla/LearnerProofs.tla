----------------------------- MODULE LearnerProofs -----------------------------
(***************************************************************************)
(* Proofs about Learner, for every bound, value set and choice of values:  *)
(* the invariant paxos_commit states in its comment, that one assertion    *)
(* only can fail and when, and that a participant implements ordered       *)
(* delivery.                                                               *)
(***************************************************************************)
EXTENDS Learner, TLAPS

(***************************************************************************)
(* The parts of LogInv about a list, an istart and a request cache, at a   *)
(* point inside a handler where they are not yet those of a state.         *)
(***************************************************************************)
ListOK(il) == DOMAIN il \subseteq Inum /\ \A k \in DOMAIN il : il[k] \in Instance

PrefixOK(il) ==
  /\ \A k \in DOMAIN il : k >= ibase /\ (il[k].learned <=> k < ihole)
  /\ \A k \in ibase .. (ihole - 1) : Ready(il, k)

ChosenOK(il) ==
  \A k \in DOMAIN il :
    /\ il[k].committed => il[k].val = Chosen[k]
    /\ il[k].cached => il[k].committed

KeptOK(il, rc) ==
  \A k \in DOMAIN il :
    k >= ihole /\ il[k].cached => HasRequest(il, rc, k) \/ TruncatedBefore(k)

RetrievesOK(il) ==
  \A k \in retrieves :
    k < ibase \/ (k \in DOMAIN il /\ il[k].committed /\ il[k].val \in Cacheable)

(* What holds whenever a handler calls paxos_commit(i). *)
CommitPre(il, is, rc, i) ==
  /\ ListOK(il) /\ PrefixOK(il) /\ ChosenOK(il) /\ KeptOK(il, rc) /\ RetrievesOK(il)
  /\ i \in DOMAIN il
  /\ ~il[i].cached
  /\ il[i].val = Chosen[i]
  /\ ~Ready(il, ihole)
  /\ is = NextIstart(il, ihole)

(***************************************************************************)
(* Marking instance i committed, and cached if c, keeps the facts about    *)
(* the list; i itself is not below the hole.                               *)
(***************************************************************************)
LEMMA MarkKeeps ==
  ASSUME TypeOK, ibase < ihole,
         NEW il, NEW is, NEW rc, NEW i, NEW inst,
         CommitPre(il, is, rc, i),
         inst \in Instance,
         inst.val = il[i].val, inst.committed, inst.learned = il[i].learned,
         inst.cached => HasRequest(il, rc, i)
  PROVE  /\ ListOK(Put(il, i, inst))
         /\ PrefixOK(Put(il, i, inst))
         /\ ChosenOK(Put(il, i, inst))
         /\ KeptOK(Put(il, i, inst), rc)
         /\ RetrievesOK(Put(il, i, inst))
         /\ DOMAIN Put(il, i, inst) = DOMAIN il
         /\ i >= ihole
<1> DEFINE new == Put(il, i, inst)
<1>1. DOMAIN new = DOMAIN il /\ new[i] = inst /\ \A k \in DOMAIN il : k # i => new[k] = il[k]
  BY DEF CommitPre, Put
<1>2. i \in Inum /\ i >= ibase
  BY DEF CommitPre, ListOK, PrefixOK
<1>3. i >= ihole
  <2>1. i \in Int /\ ibase \in Int /\ ihole \in Int
    BY <1>2, MaxInumAssumption DEF TypeOK, Inum
  <2> QED BY <1>2, <2>1 DEF CommitPre, PrefixOK, Ready
<1> HIDE DEF new
<1>4. ListOK(new)
  BY <1>1 DEF CommitPre, ListOK
<1>5. PrefixOK(new)
  <2>1. \A k \in DOMAIN new : k >= ibase /\ (new[k].learned <=> k < ihole)
    BY <1>1 DEF CommitPre, PrefixOK
  <2>2. ASSUME NEW k \in ibase .. (ihole - 1) PROVE Ready(new, k)
    <3>1. k # i
      BY <1>2, <1>3, MaxInumAssumption DEF TypeOK, Inum
    <3> QED BY <1>1, <3>1 DEF CommitPre, PrefixOK, Ready
  <2> QED BY <2>1, <2>2 DEF PrefixOK
<1>6. ChosenOK(new)
  BY <1>1 DEF CommitPre, ChosenOK
<1>7. KeptOK(new, rc)
  BY <1>1 DEF CommitPre, KeptOK, HasRequest
<1>8. RetrievesOK(new)
  BY <1>1 DEF CommitPre, RetrievesOK
<1> QED BY <1>1, <1>3, <1>4, <1>5, <1>6, <1>7, <1>8 DEF new

(***************************************************************************)
(* The variables other than those paxos_commit writes, as a handler leaves *)
(* them when it commits.                                                   *)
(***************************************************************************)
HandlerFrame(rc) ==
  /\ rcache' = rc /\ rc \subseteq Cacheable
  /\ proposer' = proposer /\ ibase' = ibase
  /\ commits' \subseteq Inum

(***************************************************************************)
(* paxos_commit preserves the invariant, whatever handler calls it.        *)
(***************************************************************************)
LEMMA DeferKeeps ==
  ASSUME LogInv, ~aborted, NEW il, NEW is, NEW rc, NEW i,
         CommitPre(il, is, rc, i), HandlerFrame(rc),
         ~HasRequest(il, rc, i), DeferCommit(il, is, i)
  PROVE  LogInv'
<1> DEFINE inst == [il[i] EXCEPT !.committed = TRUE]
           new == Put(il, i, inst)
<1>1. /\ inst \in Instance /\ inst.val = il[i].val /\ inst.committed
      /\ inst.learned = il[i].learned /\ ~inst.cached
  BY DEF CommitPre, ListOK, Instance
<1> HIDE DEF inst
<1>2. /\ ListOK(new) /\ PrefixOK(new) /\ ChosenOK(new) /\ KeptOK(new, rc)
      /\ RetrievesOK(new) /\ DOMAIN new = DOMAIN il /\ i >= ihole
  BY <1>1, MarkKeeps DEF LogInv, LearnedPrefix
<1>3. new[i] = inst /\ \A k \in DOMAIN il : k # i => new[k] = il[k]
  BY DEF CommitPre, Put
<1> HIDE DEF new
<1>4. /\ ilist' = new /\ istart' = is /\ ihole' = ihole /\ delivered' = delivered
      /\ aborted' = aborted /\ retries' = retries /\ retrieves' = retrieves \union {i}
  BY DEF DeferCommit, new, inst
<1>5. i \in Inum
  BY DEF CommitPre, ListOK
<1>6. is = NextIstart(new, ihole) /\ is \in Inum
  <2>1. is = NextIstart(new, ihole)
    BY <1>2 DEF CommitPre, NextIstart
  <2>2. (ihole - 1) \in Inum
    BY MaxInumAssumption DEF LogInv, TypeOK, Inum
  <2> QED BY <2>1, <2>2, <1>2 DEF NextIstart, ListOK
<1>7. TypeOK'
  BY <1>2, <1>4, <1>5, <1>6 DEF LogInv, TypeOK, ListOK, HandlerFrame
<1>8. LearnedPrefix'
  <2>1. ~Ready(new, ihole)
    BY <1>1, <1>2, <1>3 DEF CommitPre, Ready
  <2> QED BY <1>2, <1>4, <2>1 DEF LogInv, LearnedPrefix, PrefixOK, HandlerFrame, Ready
<1>9. IstartAtHole' /\ CommitsChosen' /\ RequestsKept'
  BY <1>2, <1>4, <1>6 DEF IstartAtHole, CommitsChosen, RequestsKept, ChosenOK, KeptOK,
                          HasRequest, TruncatedBefore, NextIstart, HandlerFrame
<1>10. OnlyRepeatsAbort' /\ InOrder'
  BY <1>4 DEF LogInv, OnlyRepeatsAbort, InOrder
<1>11. RetrievesCommitted'
  <2>1. i \in DOMAIN new /\ new[i].committed /\ new[i].val \in Cacheable
    BY <1>1, <1>2, <1>3 DEF CommitPre, HasRequest
  <2> QED BY <1>2, <1>4, <2>1 DEF RetrievesCommitted, RetrievesOK, HandlerFrame
<1> QED BY <1>7, <1>8, <1>9, <1>10, <1>11 DEF LogInv

(* ... when it commits above the hole and waits. *)
LEMMA AwaitKeeps ==
  ASSUME LogInv, ~aborted, NEW il, NEW is, NEW rc, NEW i,
         CommitPre(il, is, rc, i), HandlerFrame(rc),
         HasRequest(il, rc, i), i # ihole, AwaitHole(il, is, i)
  PROVE  LogInv'
<1> DEFINE inst == CommittedAndCached(il[i])
           new == Put(il, i, inst)
<1>1. /\ inst \in Instance /\ inst.val = il[i].val /\ inst.committed
      /\ inst.learned = il[i].learned
  BY DEF CommitPre, ListOK, Instance, CommittedAndCached
<1> HIDE DEF inst
<1>2. /\ ListOK(new) /\ PrefixOK(new) /\ ChosenOK(new) /\ KeptOK(new, rc)
      /\ RetrievesOK(new) /\ DOMAIN new = DOMAIN il /\ i >= ihole
  BY <1>1, MarkKeeps DEF LogInv, LearnedPrefix
<1>3. new[i] = inst /\ \A k \in DOMAIN il : k # i => new[k] = il[k]
  BY DEF CommitPre, Put
<1> HIDE DEF new
<1>4. /\ ilist' = new /\ istart' = is /\ ihole' = ihole /\ delivered' = delivered
      /\ aborted' = (i < ihole \/ (~proposer /\ (is = ihole /\ new[is].committed) /\ new[is].cached))
      /\ retries' \in {retries, retries \union {ihole}} /\ retrieves' = retrieves
  BY DEF AwaitHole, new, inst
<1>5. i \in Inum /\ ihole \in Inum /\ ihole < i /\ i \in Int /\ ihole \in Int
  <2>1. i \in Inum /\ ihole \in Int
    BY MaxInumAssumption DEF CommitPre, ListOK, LogInv, TypeOK
  <2> QED BY <1>2, <2>1, MaxInumAssumption DEF Inum, LogInv, TypeOK
<1>6. is = NextIstart(new, ihole) /\ is \in Inum
  <2>1. is = NextIstart(new, ihole)
    BY <1>2 DEF CommitPre, NextIstart
  <2>2. (ihole - 1) \in Inum
    BY MaxInumAssumption DEF LogInv, TypeOK, Inum
  <2> QED BY <2>1, <2>2, <1>2 DEF NextIstart, ListOK
<1>7. ~Ready(new, ihole)
  BY <1>2, <1>3 DEF CommitPre, Ready
<1>8. aborted' = FALSE
  <2>1. ~(i < ihole)
    BY <1>5
  <2>2. ~(is = ihole /\ new[is].committed /\ new[is].cached)
    <3>1. CASE ihole \in DOMAIN new
      BY <1>7, <3>1 DEF Ready
    <3>2. CASE ihole \notin DOMAIN new
      BY <1>5, <1>6, <3>2 DEF NextIstart
    <3> QED BY <3>1, <3>2
  <2> QED BY <1>4, <2>1, <2>2, Zenon
<1>9. TypeOK'
  BY <1>2, <1>4, <1>5, <1>6, <1>8 DEF LogInv, TypeOK, ListOK, HandlerFrame
<1>10. LearnedPrefix'
  BY <1>2, <1>4, <1>7 DEF LogInv, LearnedPrefix, PrefixOK, HandlerFrame, Ready
<1>11. IstartAtHole' /\ CommitsChosen' /\ RequestsKept'
  BY <1>2, <1>4, <1>6 DEF IstartAtHole, CommitsChosen, RequestsKept, ChosenOK, KeptOK,
                          HasRequest, TruncatedBefore, NextIstart, HandlerFrame
<1>12. OnlyRepeatsAbort' /\ InOrder'
  BY <1>4, <1>8 DEF LogInv, OnlyRepeatsAbort, InOrder
<1>13. RetrievesCommitted'
  BY <1>2, <1>4 DEF RetrievesCommitted, RetrievesOK, HandlerFrame
<1> QED BY <1>9, <1>10, <1>11, <1>12, <1>13 DEF LogInv

(* ... when it learns the block that starts at the hole. *)
LEMMA LearnKeeps ==
  ASSUME LogInv, ~aborted, NEW il, NEW is, NEW rc, NEW i,
         CommitPre(il, is, rc, i), HandlerFrame(rc),
         HasRequest(il, rc, i), i = ihole, LearnBlock(il, is, rc, i)
  PROVE  LogInv'
<1> DEFINE inst == CommittedAndCached(il[i])
           new == Put(il, i, inst)
<1>1. /\ inst \in Instance /\ inst.val = il[i].val /\ inst.committed
      /\ inst.learned = il[i].learned
  BY DEF CommitPre, ListOK, Instance, CommittedAndCached
<1> HIDE DEF inst
<1>2. /\ ListOK(new) /\ PrefixOK(new) /\ ChosenOK(new) /\ KeptOK(new, rc)
      /\ RetrievesOK(new) /\ DOMAIN new = DOMAIN il
  BY <1>1, MarkKeeps DEF LogInv, LearnedPrefix
<1> HIDE DEF new
<1> DEFINE Learns(k) == /\ AtHole(new, is)
                        /\ Ready(new, k)
                        /\ ~new[k].learned
                        /\ HasRequest(new, rc, k)
<1>3. PICK h \in ihole .. (MaxInum + 1) :
        /\ ~Learns(h)
        /\ \A k \in ihole .. (h - 1) : Learns(k)
        /\ ilist' = [k \in DOMAIN new |->
             IF k \in ihole .. (h - 1) THEN [new[k] EXCEPT !.learned = TRUE] ELSE new[k]]
        /\ ihole' = h
        /\ aborted' = Ready(new, h)
        /\ istart' = IF Ready(new, h) THEN ihole ELSE NextIstart(new, h)
        /\ delivered' = [k \in 1 .. (h - 1) |->
             IF k \in ihole .. (h - 1) THEN new[k].val ELSE delivered[k]]
        /\ retries' = retries /\ retrieves' = retrieves
  BY DEF LearnBlock, new, inst
<1>4. is = ihole /\ ihole \in DOMAIN new /\ AtHole(new, is)
  <2>1. is = ihole /\ ihole \in DOMAIN new
    BY <1>2 DEF CommitPre, NextIstart
  <2>2. ihole \in Int /\ \A k \in DOMAIN new : k \in Int
    BY <1>2, MaxInumAssumption DEF LogInv, TypeOK, ListOK, Inum
  <2> QED BY <2>1, <2>2 DEF AtHole
<1>5. Learns(ihole)
  <2>1. new[ihole] = inst /\ inst.committed /\ inst.cached
    BY DEF CommitPre, ListOK, Put, CommittedAndCached, Instance, new, inst
  <2>2. HasRequest(new, rc, ihole)
    BY <1>1, <2>1 DEF HasRequest
  <2>3. ~new[ihole].learned
    BY <1>2, <1>4, MaxInumAssumption DEF PrefixOK, LogInv, TypeOK
  <2> QED BY <1>4, <2>1, <2>2, <2>3 DEF Ready
<1>6. /\ ihole \in 2 .. (MaxInum + 1) /\ ibase \in Inum /\ ibase < ihole
      /\ h \in 3 .. (MaxInum + 1) /\ ihole < h /\ MaxInum \in Nat
  <2>1. h # ihole
    BY <1>3, <1>5
  <2> QED BY <1>3, <2>1, MaxInumAssumption DEF LogInv, TypeOK, LearnedPrefix
<1>7. \A k \in ihole .. (h - 1) : k \in DOMAIN new /\ new[k].committed /\ new[k].cached
  BY <1>3 DEF Ready
<1>8. ASSUME NEW k \in DOMAIN new
      PROVE  /\ k \in DOMAIN ilist' /\ k \in Inum
             /\ ilist'[k] \in Instance
             /\ ilist'[k].val = new[k].val
             /\ ilist'[k].committed = new[k].committed
             /\ ilist'[k].cached = new[k].cached
             /\ k \in ihole .. (h - 1) => ilist'[k].learned
             /\ k \notin ihole .. (h - 1) => ilist'[k].learned = new[k].learned
  <2>1. new[k] \in Instance /\ k \in Inum
    BY <1>2 DEF ListOK
  <2>2. CASE k \in ihole .. (h - 1)
    <3>1. ilist'[k] = [new[k] EXCEPT !.learned = TRUE]
      BY <1>3, <2>2
    <3> QED BY <1>3, <2>1, <2>2, <3>1 DEF Instance
  <2>3. CASE k \notin ihole .. (h - 1)
    BY <1>3, <2>1, <2>3
  <2> QED BY <2>2, <2>3
<1>9. DOMAIN ilist' = DOMAIN new
  BY <1>3
<1>10. /\ aborted' \in BOOLEAN
       /\ aborted' <=> Ready(new, h)
  BY <1>3 DEF Ready
<1>11. ASSUME Ready(new, h)
      PROVE  ~HasRequest(new, rc, h) /\ TruncatedBefore(h)
  <2>1. h \in DOMAIN new /\ new[h].cached /\ h >= ihole
    BY <1>6, <1>11 DEF Ready
  <2>2. ~new[h].learned
    BY <1>2, <1>6, <2>1 DEF PrefixOK
  <2>3. ~HasRequest(new, rc, h)
    BY <1>3, <1>4, <1>11, <2>2
  <2> QED BY <1>2, <2>1, <2>3 DEF KeptOK
<1> HIDE DEF Learns
<1>12. TypeOK'
  <2>1. NextIstart(new, h) \in Inum /\ ihole \in Inum
    BY <1>2, <1>4, <1>6 DEF NextIstart, ListOK, Inum
  <2>2. delivered' \in [1 .. (ihole' - 1) -> Value]
    <3>1. \A k \in ihole .. (h - 1) : new[k].val \in Value
      BY <1>2, <1>7 DEF ListOK, Instance
    <3>2. \A k \in 1 .. (h - 1) : k \notin ihole .. (h - 1) => delivered[k] \in Value
      BY <1>6 DEF LogInv, TypeOK
    <3> QED BY <1>3, <3>1, <3>2
  <2>3. DOMAIN ilist' \subseteq Inum /\ \A k \in DOMAIN ilist' : ilist'[k] \in Instance
    BY <1>8, <1>9
  <2>4. istart' \in Inum /\ ihole' \in 2 .. (MaxInum + 1)
    BY <1>3, <1>6, <2>1
  <2>5. retries' \subseteq Inum /\ retrieves' \subseteq Inum
    BY <1>3 DEF LogInv, TypeOK
  <2>6. ibase' \in Inum /\ rcache' \subseteq Cacheable /\ proposer' \in BOOLEAN /\ commits' \subseteq Inum
    BY DEF LogInv, TypeOK, HandlerFrame
  <2> QED BY <1>10, <2>2, <2>3, <2>4, <2>5, <2>6 DEF TypeOK
<1>13. LearnedPrefix'
  <2>1. ASSUME NEW k \in DOMAIN new
        PROVE  k >= ibase /\ (ilist'[k].learned <=> k < h)
    <3>1. k \in Int /\ k >= ibase /\ (new[k].learned <=> k < ihole)
      BY <1>2, <1>6, <1>8 DEF PrefixOK, Inum
    <3>2. CASE k \in ihole .. (h - 1)
      BY <1>6, <1>8, <3>1, <3>2
    <3>3. CASE k \notin ihole .. (h - 1)
      <4>1. k < ihole <=> k < h
        BY <1>6, <3>1, <3>3
      <4> QED BY <1>8, <3>1, <3>3, <4>1
    <3> QED BY <3>2, <3>3
  <2>2. ASSUME NEW k \in ibase .. (h - 1) PROVE Ready(ilist', k)
    <3>1. Ready(new, k)
      <4>1. CASE k < ihole
        BY <1>2, <1>6, <4>1 DEF PrefixOK, Inum
      <4>2. CASE k >= ihole
        BY <1>6, <1>7, <4>2 DEF Ready, Inum
      <4> QED BY <1>6, <4>1, <4>2 DEF Inum
    <3> QED BY <1>8, <3>1 DEF Ready
  <2>3. ~aborted' => ~Ready(ilist', h)
    BY <1>8, <1>9, <1>10 DEF Ready
  <2>4. ibase < h
    BY <1>6 DEF Inum
  <2> QED BY <1>3, <1>9, <2>1, <2>2, <2>3, <2>4 DEF LearnedPrefix, HandlerFrame, Ready
<1>14. IstartAtHole'
  BY <1>3, <1>9, <1>10 DEF IstartAtHole, NextIstart
<1>15. CommitsChosen'
  BY <1>2, <1>8, <1>9 DEF CommitsChosen, ChosenOK
<1>16. RequestsKept'
  <2>1. ASSUME NEW k \in DOMAIN new, k >= h, new[k].cached
        PROVE  HasRequest(new, rc, k) \/ TruncatedBefore(k)
    <3>1. k >= ihole
      BY <1>6, <1>8, <2>1 DEF Inum
    <3> QED BY <1>2, <2>1, <3>1 DEF KeptOK
  <2> QED BY <1>3, <1>8, <1>9, <2>1 DEF RequestsKept, HasRequest, TruncatedBefore, HandlerFrame
<1>17. InOrder'
  <2>1. ASSUME NEW k \in 1 .. (h - 1) PROVE delivered'[k] = Chosen[k]
    <3>1. CASE k \in ihole .. (h - 1)
      <4>1. new[k].val = Chosen[k]
        BY <1>2, <1>7, <3>1 DEF ChosenOK
      <4> QED BY <1>3, <3>1, <4>1
    <3>2. CASE k \notin ihole .. (h - 1)
      <4>1. k \in 1 .. (ihole - 1)
        BY <1>6, <3>2
      <4> QED BY <1>3, <3>2, <4>1 DEF LogInv, InOrder
    <3> QED BY <3>1, <3>2
  <2> QED BY <1>3, <2>1 DEF InOrder
<1>18. OnlyRepeatsAbort'
  <2> SUFFICES ASSUME Ready(new, h)
               PROVE  /\ Ready(ilist', h)
                      /\ ~HasRequest(ilist', rc, h)
                      /\ TruncatedBefore(h)
    BY <1>3, <1>10 DEF OnlyRepeatsAbort, Ready, HasRequest, TruncatedBefore, HandlerFrame
  <2>1. h \in DOMAIN new
    BY DEF Ready
  <2> QED BY <1>8, <1>9, <1>11, <2>1 DEF Ready, HasRequest
<1>19. RetrievesCommitted'
  BY <1>2, <1>3, <1>8, <1>9 DEF RetrievesCommitted, RetrievesOK, HandlerFrame
<1> QED BY <1>12, <1>13, <1>14, <1>15, <1>16, <1>17, <1>18, <1>19 DEF LogInv

(* The three cases of paxos_commit together. *)
LEMMA PaxosCommitKeeps ==
  ASSUME LogInv, ~aborted, NEW il, NEW is, NEW rc, NEW i,
         CommitPre(il, is, rc, i), HandlerFrame(rc), PaxosCommit(il, is, rc, i)
  PROVE  LogInv'
BY DeferKeeps, AwaitKeeps, LearnKeeps DEF PaxosCommit

(***************************************************************************)
(* A list between two calls, with the istart that belongs to it.           *)
(***************************************************************************)
ListInv(il, is) ==
  /\ ListOK(il) /\ PrefixOK(il) /\ ChosenOK(il) /\ KeptOK(il, rcache)
  /\ RetrievesOK(il)
  /\ ~Ready(il, ihole)
  /\ is = NextIstart(il, ihole)

(* In a state of LogInv the list on hand is one a handler may start from. *)
LEMMA StateList ==
  ASSUME LogInv, ~aborted
  PROVE  ListInv(ilist, istart)
BY DEF LogInv, ListInv, TypeOK, LearnedPrefix, IstartAtHole, CommitsChosen, RequestsKept,
       RetrievesCommitted, ListOK, PrefixOK, ChosenOK, KeptOK, RetrievesOK

(* Inserting an uncommitted instance with instance_insert_and_upstart. *)
LEMMA InsertList ==
  ASSUME LogInv, ~aborted, NEW i \in Inum, NEW v \in Value, i >= ibase, i \notin DOMAIN ilist
  PROVE  /\ ListInv(Put(ilist, i, Fresh(v)), Upstart(istart, ihole, i))
         /\ i \in DOMAIN Put(ilist, i, Fresh(v))
         /\ Put(ilist, i, Fresh(v))[i] = Fresh(v)
<1> DEFINE new == Put(ilist, i, Fresh(v))
<1>1. ListInv(ilist, istart)
  BY StateList
<1>2. /\ DOMAIN new = DOMAIN ilist \union {i} /\ new[i] = Fresh(v)
      /\ \A k \in DOMAIN ilist : new[k] = ilist[k]
  BY DEF Put
<1>3. /\ Fresh(v) \in Instance /\ Fresh(v).val = v
      /\ Fresh(v).committed = FALSE /\ Fresh(v).cached = FALSE /\ Fresh(v).learned = FALSE
  BY DEF Fresh, Instance
<1> HIDE DEF new
<1>4. i >= ihole /\ i \in Int /\ ihole \in Int
  <2>1. i \in Int /\ ihole \in Int /\ ibase \in Int
    BY MaxInumAssumption DEF LogInv, TypeOK, Inum
  <2>2. i \notin ibase .. (ihole - 1)
    BY <1>1 DEF ListInv, PrefixOK, Ready
  <2> QED BY <2>1, <2>2
<1>5. ListOK(new) /\ ChosenOK(new)
  BY <1>1, <1>2, <1>3 DEF ListInv, ListOK, ChosenOK
<1>6. PrefixOK(new)
  <2>1. \A k \in DOMAIN new : k >= ibase /\ (new[k].learned <=> k < ihole)
    BY <1>1, <1>2, <1>3, <1>4 DEF ListInv, PrefixOK
  <2>2. \A k \in ibase .. (ihole - 1) : Ready(new, k)
    BY <1>1, <1>2 DEF ListInv, PrefixOK, Ready
  <2> QED BY <2>1, <2>2 DEF PrefixOK
<1>7. KeptOK(new, rcache)
  BY <1>1, <1>2, <1>3 DEF ListInv, KeptOK, HasRequest
<1>8. ~Ready(new, ihole)
  BY <1>1, <1>2, <1>3 DEF ListInv, Ready
<1>9. Upstart(istart, ihole, i) = NextIstart(new, ihole)
  BY <1>1, <1>2 DEF ListInv, Upstart, NextIstart
<1>10. RetrievesOK(new)
  BY <1>1, <1>2 DEF ListInv, RetrievesOK
<1> QED BY <1>2, <1>5, <1>6, <1>7, <1>8, <1>9, <1>10 DEF ListInv, new

(* Replacing the value of an uncommitted instance. *)
LEMMA ReplaceList ==
  ASSUME LogInv, ~aborted, NEW i \in DOMAIN ilist, NEW v \in Value, ~ilist[i].committed
  PROVE  /\ ListInv(Put(ilist, i, [ilist[i] EXCEPT !.val = v]), istart)
         /\ i \in DOMAIN Put(ilist, i, [ilist[i] EXCEPT !.val = v])
         /\ ~Put(ilist, i, [ilist[i] EXCEPT !.val = v])[i].cached
         /\ Put(ilist, i, [ilist[i] EXCEPT !.val = v])[i].val = v
<1> DEFINE inst == [ilist[i] EXCEPT !.val = v]
           new == Put(ilist, i, inst)
<1>1. ListInv(ilist, istart)
  BY StateList
<1>2. /\ inst \in Instance /\ inst.val = v /\ inst.committed = ilist[i].committed
      /\ inst.cached = ilist[i].cached /\ inst.learned = ilist[i].learned
  BY <1>1 DEF ListInv, ListOK, Instance
<1>3. ~ilist[i].cached
  BY <1>1 DEF ListInv, ChosenOK
<1> HIDE DEF inst
<1>4. /\ DOMAIN new = DOMAIN ilist /\ new[i] = inst
      /\ \A k \in DOMAIN ilist : k # i => new[k] = ilist[k]
  BY DEF Put
<1> HIDE DEF new
<1>5. ListOK(new) /\ ChosenOK(new)
  BY <1>1, <1>2, <1>3, <1>4 DEF ListInv, ListOK, ChosenOK
<1>6. PrefixOK(new)
  BY <1>1, <1>2, <1>3, <1>4 DEF ListInv, PrefixOK, Ready
<1>7. KeptOK(new, rcache)
  BY <1>1, <1>2, <1>3, <1>4 DEF ListInv, KeptOK, HasRequest
<1>8. ~Ready(new, ihole) /\ istart = NextIstart(new, ihole)
  BY <1>1, <1>2, <1>3, <1>4 DEF ListInv, Ready, NextIstart
<1>9. RetrievesOK(new)
  BY <1>1, <1>2, <1>4 DEF ListInv, RetrievesOK
<1>10. ListInv(new, istart) /\ i \in DOMAIN new /\ ~new[i].cached /\ new[i].val = v
  BY <1>2, <1>3, <1>4, <1>5, <1>6, <1>7, <1>8, <1>9 DEF ListInv
<1> QED BY <1>10 DEF new, inst

(* A handler that only replaces the list and its istart. *)
LEMMA ListStepKeeps ==
  ASSUME LogInv, ~aborted, ListInv(ilist', istart'),
         UNCHANGED <<ihole, delivered, aborted, ibase, rcache, proposer>>,
         commits' \subseteq Inum, retries' \subseteq Inum, retrieves' = retrieves
  PROVE  LogInv'
<1>1. istart' \in Inum
  <2>1. (ihole - 1) \in Inum
    BY MaxInumAssumption DEF LogInv, TypeOK, Inum
  <2> QED BY <2>1 DEF ListInv, ListOK, NextIstart
<1>2. TypeOK'
  BY <1>1 DEF LogInv, TypeOK, ListInv, ListOK
<1>3. LearnedPrefix'
  BY DEF LogInv, LearnedPrefix, ListInv, PrefixOK, Ready
<1>4. IstartAtHole' /\ CommitsChosen' /\ RequestsKept' /\ RetrievesCommitted'
  BY DEF IstartAtHole, CommitsChosen, RequestsKept, RetrievesCommitted, ListInv, ChosenOK,
         KeptOK, RetrievesOK, NextIstart, HasRequest, TruncatedBefore
<1>5. OnlyRepeatsAbort' /\ InOrder'
  BY DEF LogInv, OnlyRepeatsAbort, InOrder
<1> QED BY <1>2, <1>3, <1>4, <1>5 DEF LogInv

(* acceptor_ack_commit and acceptor_ack_recommit. *)
LEMMA CommitChosenKeeps ==
  ASSUME LogInv, ~aborted, NEW i \in Inum, i >= ibase, CommitChosen(i),
         UNCHANGED <<ibase, rcache, proposer>>, commits' \subseteq Inum
  PROVE  LogInv'
<1>1. HandlerFrame(rcache)
  BY DEF HandlerFrame, LogInv, TypeOK
<1>2. Chosen[i] \in Value
  BY ChosenAssumption DEF Inum
<1>3. CASE i \in DOMAIN ilist /\ ilist[i].committed /\ UNCHANGED <<logVars, retries, retrieves>>
  BY <1>3, StateList, ListStepKeeps DEF logVars, LogInv, TypeOK
<1>4. CASE /\ i \in DOMAIN ilist /\ ~ilist[i].committed
           /\ PaxosCommit(Put(ilist, i, [ilist[i] EXCEPT !.val = Chosen[i]]), istart, rcache, i)
  <2> DEFINE new == Put(ilist, i, [ilist[i] EXCEPT !.val = Chosen[i]])
  <2>1. ListInv(new, istart) /\ i \in DOMAIN new /\ ~new[i].cached /\ new[i].val = Chosen[i]
    BY <1>2, <1>4, ReplaceList
  <2>2. PaxosCommit(new, istart, rcache, i)
    BY <1>4
  <2> HIDE DEF new
  <2>3. CommitPre(new, istart, rcache, i)
    BY <2>1 DEF CommitPre, ListInv
  <2> QED BY <1>1, <2>2, <2>3, PaxosCommitKeeps
<1>5. CASE /\ i \notin DOMAIN ilist
           /\ PaxosCommit(Put(ilist, i, Fresh(Chosen[i])), Upstart(istart, ihole, i), rcache, i)
  <2> DEFINE new == Put(ilist, i, Fresh(Chosen[i]))
             is == Upstart(istart, ihole, i)
  <2>1. ListInv(new, is) /\ i \in DOMAIN new /\ new[i] = Fresh(Chosen[i])
    BY <1>2, <1>5, InsertList
  <2>2. PaxosCommit(new, is, rcache, i)
    BY <1>5
  <2> HIDE DEF new, is
  <2>3. CommitPre(new, is, rcache, i)
    BY <2>1 DEF CommitPre, ListInv, Fresh
  <2> QED BY <1>1, <2>2, <2>3, PaxosCommitKeeps
<1> QED BY <1>3, <1>4, <1>5 DEF CommitChosen

-----------------------------------------------------------------------------
(* One lemma for each handler that is not covered above. *)

(* acceptor_ack_decree preserves the invariant. *)
LEMMA DecreeKeeps ==
  ASSUME LogInv, ~aborted, NEW i \in Inum, NEW v \in Value, AckDecree(i, v)
  PROVE  LogInv'
<1>1. ListInv(ilist', istart')
  <2>1. CASE i \notin DOMAIN ilist
    BY <2>1, InsertList DEF AckDecree
  <2>2. CASE i \in DOMAIN ilist
    BY <2>2, ReplaceList DEF AckDecree
  <2> QED BY <2>1, <2>2
<1> QED BY <1>1, ListStepKeeps DEF AckDecree, envVars, LogInv, TypeOK

(* acceptor_ack_request preserves the invariant. *)
LEMMA RequestKeeps ==
  ASSUME LogInv, ~aborted, NEW v \in Cacheable, AckRequest(v)
  PROVE  LogInv'
<1>1. TypeOK'
  BY DEF AckRequest, logVars, envVars, LogInv, TypeOK
<1>2. LearnedPrefix' /\ IstartAtHole' /\ CommitsChosen' /\ RetrievesCommitted' /\ OnlyRepeatsAbort' /\ InOrder'
  BY DEF AckRequest, logVars, envVars, LogInv, LearnedPrefix, IstartAtHole, CommitsChosen,
         RetrievesCommitted, OnlyRepeatsAbort, InOrder
<1>3. RequestsKept'
  BY DEF AckRequest, logVars, LogInv, RequestsKept, HasRequest, TruncatedBefore
<1> QED BY <1>1, <1>2, <1>3 DEF LogInv

(* paxos_ack_resend preserves the invariant. *)
LEMMA ResendKeeps ==
  ASSUME LogInv, ~aborted, NEW i \in Inum, AckResend(i)
  PROVE  LogInv'
<1>1. CASE i \notin DOMAIN ilist \/ ilist[i].cached
  BY <1>1, StateList, ListStepKeeps DEF AckResend, logVars, LogInv, TypeOK
<1>2. CASE i \in DOMAIN ilist /\ ~ilist[i].cached
  <2> DEFINE rc == rcache \union {ilist[i].val}
  <2>1. /\ rcache' = rc /\ PaxosCommit(ilist, istart, rc, i)
        /\ UNCHANGED <<ibase, proposer, commits>> /\ i \in retrieves
    BY <1>2 DEF AckResend
  <2>2. ListInv(ilist, istart)
    BY StateList
  <2>3. ilist[i].committed /\ ilist[i].val \in Cacheable /\ ilist[i].val = Chosen[i]
    <3>1. ~(i < ibase)
      BY <1>2, <2>2, MaxInumAssumption DEF ListInv, PrefixOK, LogInv, TypeOK, Inum
    <3> QED BY <1>2, <2>1, <2>2, <3>1 DEF ListInv, RetrievesOK, ChosenOK
  <2>4. CommitPre(ilist, istart, rc, i)
    <3>1. KeptOK(ilist, rc)
      BY <2>2 DEF ListInv, KeptOK, HasRequest
    <3> HIDE DEF rc
    <3> QED BY <1>2, <2>2, <2>3, <3>1 DEF CommitPre, ListInv
  <2>5. HandlerFrame(rc)
    BY <2>1, <2>3 DEF HandlerFrame, LogInv, TypeOK
  <2> QED BY <2>1, <2>4, <2>5, PaxosCommitKeeps
<1> QED BY <1>1, <1>2

(* acceptor_ack_truncate preserves the invariant: what it drops was chosen below the new base. *)
LEMMA TruncateKeeps ==
  ASSUME LogInv, ~aborted, NEW b \in Inum, AckTruncate(b)
  PROVE  LogInv'
<1>1. /\ b \in ibase .. (ihole - 1) /\ ibase' = b /\ ilist' = Truncated(ilist, b)
      /\ rcache' = rcache \ {ilist[i].val : i \in {k \in DOMAIN ilist : k < b}}
      /\ UNCHANGED <<ihole, istart, delivered, aborted, proposer, commits, retries, retrieves>>
  BY DEF AckTruncate, envVars
<1>2. ListInv(ilist, istart)
  BY StateList
<1>3. /\ b \in Int /\ ibase \in Int /\ ihole \in Int /\ ibase <= b /\ b < ihole
      /\ \A k \in DOMAIN ilist : k \in Int
  BY <1>1, MaxInumAssumption DEF LogInv, TypeOK, Inum
<1>4. /\ DOMAIN ilist' = {k \in DOMAIN ilist : k >= b}
      /\ \A k \in DOMAIN ilist' : ilist'[k] = ilist[k]
  BY <1>1 DEF Truncated
<1>5. TypeOK'
  BY <1>1, <1>4 DEF LogInv, TypeOK
<1>6. LearnedPrefix'
  <2>1. \A k \in b .. (ihole - 1) : Ready(ilist', k)
    BY <1>2, <1>3, <1>4 DEF ListInv, PrefixOK, Ready
  <2>2. \A k \in DOMAIN ilist' : k >= b /\ (ilist'[k].learned <=> k < ihole)
    BY <1>2, <1>4 DEF ListInv, PrefixOK
  <2>3. ~Ready(ilist', ihole)
    BY <1>2, <1>4 DEF ListInv, Ready
  <2> QED BY <1>1, <1>3, <2>1, <2>2, <2>3 DEF LearnedPrefix, Ready
<1>7. IstartAtHole' /\ CommitsChosen'
  BY <1>1, <1>2, <1>3, <1>4 DEF IstartAtHole, CommitsChosen, ListInv, ChosenOK, NextIstart
<1>8. RequestsKept'
  <2> SUFFICES ASSUME NEW k \in DOMAIN ilist', k >= ihole, ilist'[k].cached,
                      ilist'[k].val \in Cacheable, ilist'[k].val \notin rcache'
               PROVE  TruncatedBefore(k)'
    BY <1>1 DEF RequestsKept, HasRequest
  <2>1. k \in DOMAIN ilist /\ ilist'[k] = ilist[k] /\ ilist[k].val = Chosen[k] /\ k \in Inum
    BY <1>2, <1>4 DEF ListInv, ChosenOK, ListOK
  <2>2. CASE ilist[k].val \in rcache
    <3>1. PICK m \in DOMAIN ilist : m < b /\ ilist[m].val = ilist[k].val
      BY <1>1, <2>1, <2>2
    <3>2. m \in Inum /\ ilist[m].val = Chosen[m]
      BY <1>2, <1>3, <3>1 DEF ListInv, ListOK, PrefixOK, ChosenOK, Ready
    <3>3. m \in 1 .. (b - 1) /\ m < k
      BY <1>3, <2>1, <3>1, <3>2 DEF Inum
    <3> QED BY <1>1, <2>1, <3>1, <3>2, <3>3 DEF TruncatedBefore
  <2>3. CASE ilist[k].val \notin rcache
    <3>1. TruncatedBefore(k)
      BY <1>2, <2>1, <2>3 DEF ListInv, KeptOK, HasRequest
    <3> QED BY <1>1, <1>3, <3>1 DEF TruncatedBefore
  <2> QED BY <2>2, <2>3
<1>9. RetrievesCommitted'
  <2> SUFFICES ASSUME NEW k \in retrieves, ~(k < b)
               PROVE  k \in DOMAIN ilist' /\ ilist'[k].committed /\ ilist'[k].val \in Cacheable
    BY <1>1 DEF RetrievesCommitted
  <2>1. k \in Int /\ k >= b /\ ~(k < ibase)
    BY <1>3, MaxInumAssumption DEF LogInv, TypeOK, Inum
  <2> QED BY <1>2, <1>4, <2>1 DEF ListInv, RetrievesOK
<1>10. OnlyRepeatsAbort' /\ InOrder'
  BY <1>1 DEF LogInv, OnlyRepeatsAbort, InOrder
<1> QED BY <1>5, <1>6, <1>7, <1>8, <1>9, <1>10 DEF LogInv

(* proposer_decree preserves the invariant, alone in the session too. *)
LEMMA ProposerDecreeKeeps ==
  ASSUME LogInv, ~aborted, NEW i \in Inum, NEW v \in Value, ProposerDecree(i, v)
  PROVE  LogInv'
<1> DEFINE il == Put(ilist, i, Fresh(v))
           is == Upstart(istart, ihole, i)
<1>1. i \notin DOMAIN ilist /\ i >= ibase
  <2>1. ibase \in Int /\ i \in Int /\ i - 1 \in DOMAIN ilist /\ \A k \in DOMAIN ilist : k < i
    BY MaxInumAssumption DEF ProposerDecree, IsNextInstance, LogInv, TypeOK, Inum
  <2>2. i - 1 >= ibase
    BY <2>1 DEF LogInv, LearnedPrefix
  <2> QED BY <2>1, <2>2
<1>2. ListInv(il, is) /\ i \in DOMAIN il /\ il[i] = Fresh(v)
  BY <1>1, InsertList
<1>3. /\ \/ /\ ilist' = il /\ istart' = is
            /\ UNCHANGED <<ihole, delivered, aborted, retries, retrieves>>
         \/ v = Chosen[i] /\ PaxosCommit(il, is, rcache, i)
      /\ UNCHANGED <<ibase, rcache, proposer, commits>>
  BY DEF ProposerDecree
<1> HIDE DEF il, is
<1>4. CASE /\ ilist' = il /\ istart' = is
           /\ UNCHANGED <<ihole, delivered, aborted, retries, retrieves>>
  BY <1>2, <1>3, <1>4, ListStepKeeps DEF LogInv, TypeOK
<1>5. CASE v = Chosen[i] /\ PaxosCommit(il, is, rcache, i)
  <2>1. CommitPre(il, is, rcache, i)
    BY <1>2, <1>5 DEF CommitPre, ListInv, Fresh
  <2>2. HandlerFrame(rcache)
    BY <1>3 DEF HandlerFrame, LogInv, TypeOK
  <2> QED BY <1>5, <2>1, <2>2, PaxosCommitKeeps
<1> QED BY <1>3, <1>4, <1>5

(* proposer_ack_accept preserves the invariant. *)
LEMMA ProposerAckAcceptKeeps ==
  ASSUME LogInv, ~aborted, NEW i \in Inum, ProposerAckAccept(i)
  PROVE  LogInv'
<1>1. ListInv(ilist, istart)
  BY StateList
<1>2. CommitPre(ilist, istart, rcache, i)
  BY <1>1 DEF ProposerAckAccept, CommitPre, ListInv, ChosenOK
<1>3. HandlerFrame(rcache)
  BY DEF ProposerAckAccept, HandlerFrame, LogInv, TypeOK
<1> QED BY <1>2, <1>3, PaxosCommitKeeps DEF ProposerAckAccept

(* The session that paxos_start makes satisfies the invariant. *)
LEMMA InitKeeps ==
  ASSUME Init
  PROVE  LogInv
<1>1. /\ Chosen[1] \in Value /\ 1 \in Inum /\ MaxInum \in Nat /\ MaxInum >= 2
  BY MaxInumAssumption, ChosenAssumption DEF Inum
<1>2. /\ DOMAIN ilist = {1} /\ ilist[1] \in Instance /\ ilist[1].val = Chosen[1]
      /\ ilist[1].committed = TRUE /\ ilist[1].cached = TRUE /\ ilist[1].learned = TRUE
  BY <1>1 DEF Init, Instance
<1>3. TypeOK
  <2>1. delivered \in [1 .. (ihole - 1) -> Value]
    <3>1. 1 .. (ihole - 1) = {1}
      BY DEF Init
    <3> QED BY <1>1, <3>1 DEF Init
  <2>2. proposer \in BOOLEAN
    BY RolesAssumption DEF Init
  <2>3. commits \subseteq Inum
    BY <1>1 DEF Init, Inum
  <2>4. DOMAIN ilist \subseteq Inum /\ \A k \in DOMAIN ilist : ilist[k] \in Instance
    BY <1>1, <1>2
  <2>5. ihole \in 2 .. (MaxInum + 1) /\ istart \in Inum /\ ibase \in Inum
    BY <1>1 DEF Init, Inum
  <2>6. rcache \subseteq Cacheable /\ retries \subseteq Inum /\ retrieves \subseteq Inum
    BY DEF Init
  <2>7. aborted \in BOOLEAN
    BY DEF Init
  <2> QED BY <2>1, <2>2, <2>3, <2>4, <2>5, <2>6, <2>7 DEF TypeOK
<1>4. LearnedPrefix
  <2>1. \A k \in ibase .. (ihole - 1) : k = 1
    BY DEF Init
  <2> QED BY <1>2, <2>1 DEF Init, LearnedPrefix, Ready
<1>5. IstartAtHole /\ CommitsChosen
  BY <1>2 DEF Init, IstartAtHole, CommitsChosen, NextIstart
<1>6. RequestsKept /\ RetrievesCommitted /\ OnlyRepeatsAbort
  BY <1>2 DEF Init, RequestsKept, RetrievesCommitted, OnlyRepeatsAbort
<1>7. InOrder
  BY DEF Init, InOrder
<1> QED BY <1>3, <1>4, <1>5, <1>6, <1>7 DEF LogInv

(* A change of proposer, or a step of anybody else, preserves the invariant. *)
LEMMA IdleKeeps ==
  ASSUME LogInv, ChangeProposer \/ UNCHANGED vars
  PROVE  LogInv'
<1>1. UNCHANGED <<ilist, ihole, istart, ibase, rcache, delivered, aborted, commits, retries, retrieves>>
  BY DEF ChangeProposer, vars, logVars, envVars
<1>2. proposer' \in BOOLEAN
  BY RolesAssumption DEF ChangeProposer, vars, LogInv, TypeOK
<1> QED BY <1>1, <1>2 DEF LogInv, TypeOK, LearnedPrefix, IstartAtHole, CommitsChosen, Ready,
          NextIstart, RequestsKept, HasRequest, TruncatedBefore, RetrievesCommitted,
          OnlyRepeatsAbort, InOrder

(* Every handler preserves the invariant of a process that has not aborted. *)
LEMMA StepKeeps ==
  ASSUME LogInv, ~aborted, Step
  PROVE  LogInv'
<1>1. ASSUME NEW i \in Inum, NEW v \in Value, AckDecree(i, v) PROVE LogInv'
  BY <1>1, DecreeKeeps
<1>2. ASSUME NEW i \in Inum, AckCommit(i) PROVE LogInv'
  BY <1>2, CommitChosenKeeps DEF AckCommit, LogInv, TypeOK
<1>3. ASSUME NEW i \in Inum, AckRecommit(i) PROVE LogInv'
  BY <1>3, CommitChosenKeeps DEF AckRecommit, LogInv, TypeOK
<1>4. ASSUME NEW v \in Cacheable, AckRequest(v) PROVE LogInv'
  BY <1>4, RequestKeeps
<1>5. ASSUME NEW i \in Inum, AckResend(i) PROVE LogInv'
  BY <1>5, ResendKeeps
<1>6. ASSUME NEW b \in Inum, AckTruncate(b) PROVE LogInv'
  BY <1>6, TruncateKeeps
<1>7. ASSUME NEW i \in Inum, NEW v \in Value, ProposerDecree(i, v) PROVE LogInv'
  BY <1>7, ProposerDecreeKeeps
<1>8. ASSUME NEW i \in Inum, ProposerAckAccept(i) PROVE LogInv'
  BY <1>8, ProposerAckAcceptKeeps
<1>9. CASE ChangeProposer
  BY <1>9, IdleKeeps
<1> QED BY <1>1, <1>2, <1>3, <1>4, <1>5, <1>6, <1>7, <1>8, <1>9 DEF Step

(* So does a step of anybody else, and a dead process takes none. *)
LEMMA NextKeeps ==
  ASSUME LogInv, [Next]_vars
  PROVE  LogInv'
BY StepKeeps, IdleKeeps DEF Next

(***************************************************************************)
(* The invariant in the comment of paxos_commit (all instances below ihole *)
(* learned, none above), with what it rests on, holds in every reachable   *)
(* state, the callbacks have seen the chosen values in instance order, and *)
(* the process dies of no other assert than that of a request truncated    *)
(* with an earlier instance of it.                                         *)
(***************************************************************************)
THEOREM LearnerInvariant == Spec => []LogInv
<1>1. Init => LogInv
  BY InitKeeps
<1>2. LogInv /\ [Next]_vars => LogInv'
  BY NextKeeps
<1> QED BY <1>1, <1>2, PTL DEF Spec

(* The state of a participant keeps its shape, whatever arrives. *)
THEOREM LearnerTypes == Spec => []TypeOK
BY LearnerInvariant, PTL DEF LogInv

(***************************************************************************)
(* The invariant stated in paxos_commit (paxos_learn.c): exactly what is   *)
(* below ihole is learned, and ihole itself cannot be learned yet.         *)
(***************************************************************************)
THEOREM LearnerPrefix == Spec => []LearnedPrefix
BY LearnerInvariant, PTL DEF LogInv

(***************************************************************************)
(* The pointer istart, which four handlers move, is always the hole or its *)
(* predecessor when paxos_commit starts learning from it.                  *)
(***************************************************************************)
THEOREM LearnerIstart == Spec => []IstartAtHole
BY LearnerInvariant, PTL DEF LogInv

(***************************************************************************)
(* The request of an instance that waits, committed and cached, for the    *)
(* hole below it is dropped by no truncation, other than one that drops an *)
(* earlier instance of the same request (paxos_sync.c:183).                *)
(***************************************************************************)
THEOREM LearnerKeepsRequests == Spec => []RequestsKept
BY LearnerInvariant, PTL DEF LogInv

(***************************************************************************)
(* The assertions of paxos_commit never fail, except that of a request     *)
(* decreed in two instances, the first of which has been truncated.        *)
(***************************************************************************)
THEOREM LearnerAborts == Spec => []OnlyRepeatsAbort
BY LearnerInvariant, PTL DEF LogInv

-----------------------------------------------------------------------------
(* What one call of paxos_commit may do to a list: nothing is taken back. *)
Extends(old, new) ==
  /\ DOMAIN old \subseteq DOMAIN new
  /\ \A k \in DOMAIN old :
       /\ old[k].committed => new[k].committed /\ new[k].val = old[k].val
       /\ old[k].learned => new[k].learned

(* paxos_commit takes nothing off the list, and no commit or learn back. *)
LEMMA PaxosCommitExtends ==
  ASSUME LogInv, ~aborted, NEW il, NEW is, NEW rc, NEW i,
         CommitPre(il, is, rc, i), PaxosCommit(il, is, rc, i)
  PROVE  Extends(il, ilist') /\ ihole' >= ihole
<1>1. i \in DOMAIN il /\ il[i] \in Instance /\ ihole \in Int
  BY MaxInumAssumption DEF CommitPre, ListOK, LogInv, TypeOK
<1>2. CASE DeferCommit(il, is, i)
  <2> DEFINE inst == [il[i] EXCEPT !.committed = TRUE]
  <2>1. inst.val = il[i].val /\ inst.committed /\ inst.learned = il[i].learned
    BY <1>1 DEF Instance
  <2> HIDE DEF inst
  <2>2. ilist' = Put(il, i, inst) /\ ihole' = ihole
    BY <1>2 DEF DeferCommit, inst
  <2> QED BY <1>1, <2>1, <2>2 DEF Extends, Put
<1> DEFINE inst == CommittedAndCached(il[i])
           new == Put(il, i, inst)
<1>3. inst.val = il[i].val /\ inst.committed /\ inst.learned = il[i].learned
  BY <1>1 DEF Instance, CommittedAndCached
<1> HIDE DEF inst
<1>4. Extends(il, new) /\ DOMAIN new = DOMAIN il
  BY <1>1, <1>3 DEF Extends, Put
<1> HIDE DEF new
<1>5. CASE AwaitHole(il, is, i)
  BY <1>1, <1>4, <1>5 DEF AwaitHole, new, inst
<1>6. CASE LearnBlock(il, is, rc, i)
  <2>1. PICK h \in ihole .. (MaxInum + 1) :
          /\ ilist' = [k \in DOMAIN new |->
               IF k \in ihole .. (h - 1) THEN [new[k] EXCEPT !.learned = TRUE] ELSE new[k]]
          /\ ihole' = h
    BY <1>6 DEF LearnBlock, new, inst
  <2>2. ASSUME NEW k \in DOMAIN il PROVE new[k] \in Instance
    BY <1>1, <2>2 DEF CommitPre, ListOK, Put, new, inst, CommittedAndCached, Instance
  <2>3. ASSUME NEW k \in DOMAIN il
        PROVE  /\ ilist'[k].committed = new[k].committed /\ ilist'[k].val = new[k].val
               /\ new[k].learned => ilist'[k].learned
    <3>1. CASE k \in ihole .. (h - 1)
      <4>1. ilist'[k] = [new[k] EXCEPT !.learned = TRUE]
        BY <1>4, <2>1, <3>1
      <4> QED BY <2>2, <4>1 DEF Instance
    <3>2. CASE k \notin ihole .. (h - 1)
      BY <1>4, <2>1, <3>2
    <3> QED BY <3>1, <3>2
  <2>4. DOMAIN ilist' = DOMAIN il /\ ihole' >= ihole
    BY <1>1, <1>4, <2>1, MaxInumAssumption
  <2> QED BY <1>4, <2>3, <2>4 DEF Extends
<1> QED BY <1>2, <1>5, <1>6 DEF PaxosCommit

(***************************************************************************)
(* Every step keeps what is committed and learned, up to a truncation of   *)
(* learned instances, and never moves the hole back.                       *)
(***************************************************************************)
Final(k) ==
  \/ k \notin DOMAIN ilist' /\ ilist[k].learned
  \/ /\ k \in DOMAIN ilist'
     /\ ilist[k].committed => ilist'[k].committed /\ ilist'[k].val = ilist[k].val
     /\ ilist[k].learned => ilist'[k].learned

(* acceptor_ack_commit and acceptor_ack_recommit take no commit or learn back. *)
LEMMA CommitChosenFinal ==
  ASSUME LogInv, ~aborted, NEW i \in Inum, i >= ibase, CommitChosen(i)
  PROVE  Extends(ilist, ilist') /\ ihole' >= ihole
<1>1. Chosen[i] \in Value /\ ihole \in Int
  BY ChosenAssumption, MaxInumAssumption DEF Inum, LogInv, TypeOK
<1>2. CASE UNCHANGED <<logVars, retries, retrieves>>
  BY <1>1, <1>2 DEF logVars, Extends
<1>3. CASE /\ i \in DOMAIN ilist /\ ~ilist[i].committed
           /\ PaxosCommit(Put(ilist, i, [ilist[i] EXCEPT !.val = Chosen[i]]), istart, rcache, i)
  <2> DEFINE inst == [ilist[i] EXCEPT !.val = Chosen[i]]
             new == Put(ilist, i, inst)
  <2>1. ListInv(new, istart) /\ i \in DOMAIN new /\ ~new[i].cached /\ new[i].val = Chosen[i]
    BY <1>1, <1>3, ReplaceList
  <2>2. inst.learned = ilist[i].learned
    BY <1>3 DEF LogInv, TypeOK, Instance
  <2>3. PaxosCommit(new, istart, rcache, i)
    BY <1>3
  <2> HIDE DEF inst
  <2>4. Extends(ilist, new)
    BY <1>3, <2>2 DEF Extends, Put
  <2> HIDE DEF new
  <2>5. CommitPre(new, istart, rcache, i)
    BY <2>1 DEF CommitPre, ListInv
  <2>6. Extends(new, ilist') /\ ihole' >= ihole
    BY <2>3, <2>5, PaxosCommitExtends
  <2> QED BY <2>4, <2>6 DEF Extends
<1>4. CASE /\ i \notin DOMAIN ilist
           /\ PaxosCommit(Put(ilist, i, Fresh(Chosen[i])), Upstart(istart, ihole, i), rcache, i)
  <2> DEFINE new == Put(ilist, i, Fresh(Chosen[i]))
             is == Upstart(istart, ihole, i)
  <2>1. ListInv(new, is) /\ i \in DOMAIN new /\ new[i] = Fresh(Chosen[i])
    BY <1>1, <1>4, InsertList
  <2>2. PaxosCommit(new, is, rcache, i)
    BY <1>4
  <2>3. Extends(ilist, new)
    BY <1>4 DEF Extends, Put
  <2> HIDE DEF new, is
  <2>4. CommitPre(new, is, rcache, i)
    BY <2>1 DEF CommitPre, ListInv, Fresh
  <2>5. Extends(new, ilist') /\ ihole' >= ihole
    BY <2>2, <2>4, PaxosCommitExtends
  <2> QED BY <2>3, <2>5 DEF Extends
<1> QED BY <1>2, <1>3, <1>4 DEF CommitChosen

(* No step takes a commit or a learn back, and the hole never moves down. *)
LEMMA HandlerFinal ==
  ASSUME LogInv, ~aborted, Step
  PROVE  (\A k \in DOMAIN ilist : Final(k)) /\ ihole' >= ihole
<1> DEFINE Goal == (\A k \in DOMAIN ilist : Final(k)) /\ ihole' >= ihole
<1>1. ListInv(ilist, istart)
  BY StateList
<1>2. ihole \in Int
  BY MaxInumAssumption DEF LogInv, TypeOK
<1>3. ASSUME Extends(ilist, ilist'), ihole' >= ihole PROVE Goal
  BY <1>3 DEF Extends, Final
<1>4. ASSUME NEW i \in Inum, NEW v \in Value, AckDecree(i, v) PROVE Goal
  <2> DEFINE inst == [ilist[i] EXCEPT !.val = v]
  <2>1. i \in DOMAIN ilist => inst.learned = ilist[i].learned
    BY DEF LogInv, TypeOK, Instance
  <2> HIDE DEF inst
  <2>2. CASE i \notin DOMAIN ilist /\ ilist' = Put(ilist, i, Fresh(v))
    BY <1>2, <1>3, <1>4, <2>2 DEF AckDecree, Extends, Put
  <2>3. CASE i \in DOMAIN ilist /\ ~ilist[i].committed /\ ilist' = Put(ilist, i, inst)
    BY <1>2, <1>3, <1>4, <2>1, <2>3 DEF AckDecree, Extends, Put
  <2> QED BY <1>4, <2>2, <2>3 DEF AckDecree, inst
<1>5. ASSUME NEW i \in Inum, AckCommit(i) \/ AckRecommit(i) PROVE Goal
  BY <1>3, <1>5, CommitChosenFinal DEF AckCommit, AckRecommit
<1>6. ASSUME NEW v \in Cacheable, AckRequest(v) PROVE Goal
  BY <1>2, <1>6 DEF AckRequest, logVars, Final
<1>7. ASSUME NEW i \in Inum, AckResend(i) PROVE Goal
  <2>1. CASE i \notin DOMAIN ilist \/ ilist[i].cached
    BY <1>2, <1>7, <2>1 DEF AckResend, logVars, Final
  <2>2. CASE i \in DOMAIN ilist /\ ~ilist[i].cached
    <3> DEFINE rc == rcache \union {ilist[i].val}
    <3>1. PaxosCommit(ilist, istart, rc, i) /\ i \in retrieves
      BY <1>7, <2>2 DEF AckResend
    <3>2. ilist[i].committed
      <4>1. ~(i < ibase)
        BY <1>1, <2>2, MaxInumAssumption DEF ListInv, PrefixOK, LogInv, TypeOK, Inum
      <4> QED BY <1>1, <3>1, <4>1 DEF ListInv, RetrievesOK
    <3>3. KeptOK(ilist, rc)
      BY <1>1 DEF ListInv, KeptOK, HasRequest
    <3> HIDE DEF rc
    <3>4. CommitPre(ilist, istart, rc, i)
      BY <1>1, <2>2, <3>2, <3>3 DEF CommitPre, ListInv, ChosenOK
    <3> QED BY <1>3, <3>1, <3>4, PaxosCommitExtends
  <2> QED BY <2>1, <2>2
<1>8. ASSUME NEW b \in Inum, AckTruncate(b) PROVE Goal
  <2>1. ihole' = ihole /\ b < ihole /\ b \in Int
    BY <1>2, <1>8, MaxInumAssumption DEF AckTruncate, LogInv, TypeOK, Inum
  <2>2. \A k \in DOMAIN ilist : k \in Int
    BY DEF LogInv, TypeOK, Inum
  <2> QED BY <1>1, <1>2, <1>8, <2>1, <2>2 DEF AckTruncate, Truncated, ListInv, PrefixOK, Final
<1>9. ASSUME NEW i \in Inum, NEW v \in Value, ProposerDecree(i, v) PROVE Goal
  <2> DEFINE il == Put(ilist, i, Fresh(v))
             is == Upstart(istart, ihole, i)
  <2>1. i \notin DOMAIN ilist /\ i >= ibase
    <3>1. ibase \in Int /\ i \in Int /\ i - 1 \in DOMAIN ilist /\ \A k \in DOMAIN ilist : k < i
      BY <1>9, MaxInumAssumption DEF ProposerDecree, IsNextInstance, LogInv, TypeOK, Inum
    <3>2. i - 1 >= ibase
      BY <3>1 DEF LogInv, LearnedPrefix
    <3> QED BY <3>1, <3>2
  <2>2. ListInv(il, is) /\ i \in DOMAIN il /\ il[i] = Fresh(v)
    BY <2>1, InsertList
  <2>3. Extends(ilist, il)
    BY <2>1 DEF Extends, Put
  <2>4. \/ ilist' = il /\ ihole' = ihole
        \/ v = Chosen[i] /\ PaxosCommit(il, is, rcache, i)
    BY <1>9 DEF ProposerDecree
  <2> HIDE DEF il, is
  <2>5. CASE ilist' = il /\ ihole' = ihole
    BY <1>2, <1>3, <2>3, <2>5
  <2>6. CASE v = Chosen[i] /\ PaxosCommit(il, is, rcache, i)
    <3>1. CommitPre(il, is, rcache, i)
      BY <2>2, <2>6 DEF CommitPre, ListInv, Fresh
    <3>2. Extends(il, ilist') /\ ihole' >= ihole
      BY <2>6, <3>1, PaxosCommitExtends
    <3>3. Extends(ilist, ilist')
      BY <2>3, <3>2 DEF Extends
    <3> QED BY <1>3, <3>2, <3>3
  <2> QED BY <2>4, <2>5, <2>6
<1>10. ASSUME NEW i \in Inum, ProposerAckAccept(i) PROVE Goal
  <2>1. CommitPre(ilist, istart, rcache, i)
    BY <1>1, <1>10 DEF ProposerAckAccept, CommitPre, ListInv, ChosenOK
  <2> QED BY <1>3, <1>10, <2>1, PaxosCommitExtends DEF ProposerAckAccept
<1>11. CASE ChangeProposer
  BY <1>2, <1>11 DEF ChangeProposer, logVars, Final
<1> QED BY <1>4, <1>5, <1>6, <1>7, <1>8, <1>9, <1>10, <1>11 DEF Step

(* Nor does a step of anybody else. *)
LEMMA StepFinal ==
  ASSUME LogInv, [Next]_vars
  PROVE  (\A k \in DOMAIN ilist : Final(k)) /\ ihole' >= ihole
<1>1. CASE Next
  BY <1>1, HandlerFinal DEF Next
<1>2. CASE UNCHANGED vars
  BY <1>2, MaxInumAssumption DEF vars, logVars, Final, LogInv, TypeOK
<1> QED BY <1>1, <1>2

(***************************************************************************)
(* No handler takes a commit or a learn back, and only learned instances   *)
(* are truncated.                                                          *)
(***************************************************************************)
THEOREM LearnerCommitsAreFinal == Spec => CommitsAreFinal
<1>1. LogInv /\ [Next]_vars => [\A i \in DOMAIN ilist : Final(i)]_vars
  BY StepFinal
<1>2. Spec => [][\A i \in DOMAIN ilist : Final(i)]_vars
  BY <1>1, LearnerInvariant, PTL DEF Spec
<1> QED BY <1>2 DEF CommitsAreFinal, Final

(***************************************************************************)
(* A participant implements ordered delivery: in instance order, without   *)
(* gaps or repetitions, its callbacks see the chosen values.               *)
(***************************************************************************)
THEOREM LearnerDeliversInOrder == Spec => DeliversInOrder
<1>1. ASSUME LogInv PROVE delivered = Ordered!Prefix(ihole - 1) /\ Len(delivered) = ihole - 1
  <2>1. ihole - 1 \in Nat /\ delivered \in [1 .. (ihole - 1) -> Value]
    BY <1>1, MaxInumAssumption DEF LogInv, TypeOK
  <2>2. delivered = [i \in 1 .. (ihole - 1) |-> Chosen[i]]
    BY <1>1, <2>1 DEF LogInv, InOrder
  <2> QED BY <2>1, <2>2 DEF Ordered!Prefix
<1>2. Init => Ordered!Init
  <2> SUFFICES ASSUME Init PROVE Ordered!Init
    OBVIOUS
  <2>1. delivered = Ordered!Prefix(ihole - 1) /\ ihole = 2
    BY <1>1, InitKeeps DEF Init
  <2> QED BY <2>1 DEF Ordered!Init
<1>3. LogInv /\ [Next]_vars => [Ordered!Deliver]_delivered
  <2> SUFFICES ASSUME LogInv, [Next]_vars, delivered' # delivered PROVE Ordered!Deliver
    OBVIOUS
  <2>1. LogInv'
    BY NextKeeps
  <2>2. delivered' = Ordered!Prefix(ihole' - 1) /\ ihole' \in 2 .. (MaxInum + 1)
    <3>1. /\ ihole' \in 2 .. (MaxInum + 1) /\ delivered' \in [1 .. (ihole' - 1) -> Value]
          /\ \A i \in 1 .. (ihole' - 1) : delivered'[i] = Chosen[i]
      BY <2>1 DEF LogInv, TypeOK, InOrder
    <3> QED BY <3>1 DEF Ordered!Prefix
  <2>3. delivered = Ordered!Prefix(ihole - 1) /\ Len(delivered) = ihole - 1
    BY <1>1
  <2>4. ihole' >= ihole /\ ihole' # ihole
    BY <2>2, <2>3, StepFinal
  <2>5. ihole' - 1 \in (Len(delivered) + 1) .. MaxInum
    <3>1. ihole \in Int /\ ihole' \in Int /\ ihole' <= MaxInum + 1 /\ MaxInum \in Int
      BY <2>2, MaxInumAssumption DEF LogInv, TypeOK
    <3>2. \A x, y, m \in Int : x <= m + 1 /\ x >= y /\ x # y => x - 1 \in ((y - 1) + 1) .. m
      OBVIOUS
    <3>3. ihole' - 1 \in ((ihole - 1) + 1) .. MaxInum
      BY <2>4, <3>1, <3>2
    <3> QED BY <2>3, <3>3
  <2> QED BY <2>2, <2>5 DEF Ordered!Deliver
<1> QED BY <1>2, <1>3, LearnerInvariant, PTL DEF Spec, DeliversInOrder, Ordered!Spec

=============================================================================
