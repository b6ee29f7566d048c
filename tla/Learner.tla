-------------------------------- MODULE Learner --------------------------------
(***************************************************************************)
(* The log of one participant: what it does with decrees, commits,         *)
(* recommits, requests, resends and truncates, and in which order it hands *)
(* committed values to the learning callbacks (paxos_learn.c with its      *)
(* callers in paxos_acceptor.c, paxos_retry.c, paxos_request.c and         *)
(* paxos_sync.c).                                                          *)
(*                                                                         *)
(* The rest of the session is the environment.  It is assumed to be a      *)
(* correct Paxos: `Chosen' gives the value of every instance, commits and  *)
(* recommits carry it.  A decree may carry anything; ballots, which select *)
(* the decrees that are accepted, are abstracted into that choice.  One    *)
(* request may be chosen in several instances: a new proposer decrees what *)
(* it deferred, which the old one may have decreed (paxos_proposer.c:312). *)
(***************************************************************************)
EXTENDS Integers, Sequences, FiniteSets, InstanceLog

CONSTANTS
  MaxInum,     \* bound: the last instance number
  Value,       \* values of decrees (a paxos_value: dkind, request ID)
  Cacheable,   \* the values for which request_needs_cached() holds
  Chosen,      \* the value Paxos chooses in each instance
  Roles,       \* values of is_proposer() the participant goes through
  Fifo,        \* whether commits arrive in the order they were broadcast
  MaxLost      \* bound: commits broadcast while we were disconnected

ASSUME MaxInumAssumption == MaxInum \in Nat /\ MaxInum >= 2
ASSUME ValueAssumption   == Cacheable \subseteq Value
ASSUME ChosenAssumption  == Chosen \in [1 .. MaxInum -> Value]
ASSUME RolesAssumption   == Roles \subseteq BOOLEAN

Inum == 1 .. MaxInum

VARIABLES
  ilist, ihole, istart,  \* see InstanceLog
  ibase,      \* number of the first instance kept
  rcache,     \* requests whose data we hold
  proposer,   \* is_proposer()
  delivered,  \* history of the learning callbacks (auxiliary)
  aborted,    \* an assert of paxos_commit has failed (auxiliary)
  commits,    \* instances whose commit is on its way to us
  retries,    \* instances for which we sent a retry
  retrieves   \* instances for which we sent a retrieve

logVars == <<ilist, ihole, istart, delivered, aborted>>
envVars == <<commits, retries, retrieves>>
vars == <<logVars, ibase, rcache, proposer, envVars>>

Instance == [val : Value, committed : BOOLEAN, cached : BOOLEAN, learned : BOOLEAN]

Fresh(v) == [val |-> v, committed |-> FALSE, cached |-> FALSE, learned |-> FALSE]

(* paxos_start: the session's own join is instance 1, already learned. *)
Init ==
  /\ ilist = [i \in {1} |-> [val |-> Chosen[1], committed |-> TRUE,
                             cached |-> TRUE, learned |-> TRUE]]
  /\ ihole = 2
  /\ istart = 1
  /\ ibase = 1
  /\ rcache = {Chosen[1]} \intersect Cacheable
  /\ proposer \in Roles
  /\ delivered = <<Chosen[1]>>
  /\ aborted = FALSE
  /\ commits \in {S \in SUBSET (2 .. MaxInum) :
       MaxInum \in S /\ Cardinality(S) + MaxLost >= MaxInum - 1}
  /\ retries = {}
  /\ retrieves = {}

-----------------------------------------------------------------------------
(***************************************************************************)
(* paxos_commit(i), called with the handler's own updates done: il is the  *)
(* list and is the istart at the call, rc the request cache.               *)
(***************************************************************************)

HasRequest(il, rc, i) == il[i].val \in Cacheable => il[i].val \in rc

CommittedAndCached(inst) == [inst EXCEPT !.committed = TRUE, !.cached = TRUE]

(* The request is missing: ask for it and learn nothing. *)
DeferCommit(il, is, i) ==
  /\ ilist' = Put(il, i, [il[i] EXCEPT !.committed = TRUE])
  /\ istart' = is
  /\ retrieves' = retrieves \union {i}
  /\ UNCHANGED <<ihole, delivered, aborted, retries>>

(* Mutant: nobody asks for the hole. *)
AwaitHoleSilently(il, is, i) ==
  /\ ilist' = Put(il, i, CommittedAndCached(il[i]))
  /\ istart' = is
  /\ UNCHANGED <<ihole, delivered, aborted, retries, retrieves>>

(***************************************************************************)
(* i is not the hole: the proposer waits, others ask for the hole unless   *)
(* it only lacks its request.                                              *)
(***************************************************************************)
AwaitHole(il, is, i) ==
  LET done == Put(il, i, CommittedAndCached(il[i]))
      waiting == is = ihole /\ done[is].committed
  IN  /\ ilist' = done
      /\ istart' = is
      /\ aborted' = (i < ihole \/ (~proposer /\ waiting /\ done[is].cached))
      /\ retries' = IF proposer \/ waiting THEN retries ELSE retries \union {ihole}
      /\ UNCHANGED <<ihole, delivered, retrieves>>

(* istart is at the hole or can be moved to it: it points to the predecessor. *)
AtHole(il, is) == is <= ihole /\ \A k \in DOMAIN il : ~(is < k /\ k < ihole)

(***************************************************************************)
(* i is the hole: learn from it to the next one, h, or up to the first     *)
(* assertion that fails.  The assertions are that istart or its successor  *)
(* is the hole, that nothing is learned twice, and that the requests of    *)
(* cached instances are still in the cache.  What was learned before one   *)
(* fails has been delivered.                                               *)
(***************************************************************************)
LearnBlock(il, is, rc, i) ==
  LET done == Put(il, i, CommittedAndCached(il[i]))
      Learns(k) == /\ AtHole(done, is)
                   /\ Ready(done, k)
                   /\ ~done[k].learned
                   /\ HasRequest(done, rc, k)
  IN  \E h \in ihole .. (MaxInum + 1) :
        /\ ~Learns(h)
        /\ \A j \in ihole .. (h - 1) : Learns(j)
        /\ ilist' = [j \in DOMAIN done |->
             IF j \in ihole .. (h - 1) THEN [done[j] EXCEPT !.learned = TRUE] ELSE done[j]]
        /\ ihole' = h
        /\ aborted' = Ready(done, h)
        /\ istart' = IF Ready(done, h) THEN ihole ELSE NextIstart(done, h)
        /\ delivered' = [j \in 1 .. (h - 1) |->
             IF j \in ihole .. (h - 1) THEN done[j].val ELSE delivered[j]]
        /\ UNCHANGED <<retries, retrieves>>

PaxosCommit(il, is, rc, i) ==
  \/ ~HasRequest(il, rc, i) /\ DeferCommit(il, is, i)
  \/ HasRequest(il, rc, i) /\ i # ihole /\ AwaitHole(il, is, i)
  \/ HasRequest(il, rc, i) /\ i = ihole /\ LearnBlock(il, is, rc, i)

-----------------------------------------------------------------------------
(* Mutant: a decree replaces the value of a committed instance too. *)
AckDecreeAnyway(i, v) ==
  /\ ~proposer
  /\ i >= ibase
  /\ ilist' = IF i \in DOMAIN ilist THEN Put(ilist, i, [ilist[i] EXCEPT !.val = v])
              ELSE Put(ilist, i, Fresh(v))
  /\ istart' = Upstart(istart, ihole, i)
  /\ UNCHANGED <<ihole, delivered, aborted, ibase, rcache, proposer, envVars>>

(* acceptor_ack_decree of an instance we have not committed: we may accept. *)
AckDecree(i, v) ==
  /\ ~proposer
  /\ i >= ibase
  /\ \/ /\ i \notin DOMAIN ilist
        /\ ilist' = Put(ilist, i, Fresh(v))
        /\ istart' = Upstart(istart, ihole, i)
     \/ /\ i \in DOMAIN ilist /\ ~ilist[i].committed
        /\ ilist' = Put(ilist, i, [ilist[i] EXCEPT !.val = v])
        /\ UNCHANGED istart
  /\ UNCHANGED <<ihole, delivered, aborted, ibase, rcache, proposer, envVars>>

(* Mutant: a commit does not bring its value. *)
CommitVote(i) ==
  \/ /\ i \in DOMAIN ilist /\ ilist[i].committed
     /\ UNCHANGED <<logVars, retries, retrieves>>
  \/ /\ i \in DOMAIN ilist /\ ~ilist[i].committed
     /\ PaxosCommit(ilist, istart, rcache, i)
  \/ /\ i \notin DOMAIN ilist
     /\ PaxosCommit(Put(ilist, i, Fresh(Chosen[i])), Upstart(istart, ihole, i), rcache, i)

(* Commit i with the chosen value, on an old instance or a new one. *)
CommitChosen(i) ==
  \/ /\ i \in DOMAIN ilist /\ ilist[i].committed
     /\ UNCHANGED <<logVars, retries, retrieves>>
  \/ /\ i \in DOMAIN ilist /\ ~ilist[i].committed
     /\ PaxosCommit(Put(ilist, i, [ilist[i] EXCEPT !.val = Chosen[i]]), istart, rcache, i)
  \/ /\ i \notin DOMAIN ilist
     /\ PaxosCommit(Put(ilist, i, Fresh(Chosen[i])), Upstart(istart, ihole, i), rcache, i)

(* acceptor_ack_commit; a new proposer may commit an instance again. *)
AckCommit(i) ==
  /\ ~proposer
  /\ i >= ibase
  /\ Fifo => \A j \in commits : i <= j
  /\ commits' = commits \ {i}
  /\ CommitChosen(i)
  /\ UNCHANGED <<ibase, rcache, proposer>>

(* acceptor_ack_recommit: the proposer broadcasts what someone asked for. *)
AckRecommit(i) ==
  /\ ~proposer
  /\ i >= ibase
  /\ Fifo => \A j \in commits : i < j
  /\ CommitChosen(i)
  /\ UNCHANGED <<ibase, rcache, proposer, commits>>

(* acceptor_ack_request (the cache part of proposer_ack_request too). *)
AckRequest(v) ==
  /\ rcache' = rcache \union {v}
  /\ UNCHANGED <<logVars, ibase, proposer, envVars>>

(* Mutant: a second resend commits again. *)
AckResendAgain(i) ==
  /\ i \in retrieves
  /\ i \in DOMAIN ilist
  /\ rcache' = rcache \union {ilist[i].val}
  /\ PaxosCommit(ilist, istart, rcache', i)
  /\ UNCHANGED <<ibase, proposer, commits>>

(* paxos_ack_resend: the answer to a retrieve. *)
AckResend(i) ==
  /\ i \in retrieves
  /\ IF i \notin DOMAIN ilist \/ ilist[i].cached
     THEN UNCHANGED <<logVars, rcache, retries, retrieves>>
     ELSE /\ rcache' = rcache \union {ilist[i].val}
          /\ PaxosCommit(ilist, istart, rcache', i)
  /\ UNCHANGED <<ibase, proposer, commits>>

(* Mutant: the truncation may pass the hole. *)
AckTruncatePastHole(b) ==
  /\ b \in ibase .. MaxInum
  /\ ibase' = b
  /\ ilist' = Truncated(ilist, b)
  /\ rcache' = rcache \ {ilist[i].val : i \in {j \in DOMAIN ilist : j < b}}
  /\ UNCHANGED <<ihole, istart, delivered, aborted, proposer, envVars>>

(* Mutant: the truncation empties the request cache. *)
AckTruncateAll(b) ==
  /\ b \in ibase .. (ihole - 1)
  /\ ibase' = b
  /\ ilist' = Truncated(ilist, b)
  /\ rcache' = {}
  /\ UNCHANGED <<ihole, istart, delivered, aborted, proposer, envVars>>

(* acceptor_ack_truncate, and proposer_truncate's own truncation: the       *)
(* proposer's minimum over the last contiguous learns includes ours.        *)
AckTruncate(b) ==
  /\ b \in ibase .. (ihole - 1)
  /\ ibase' = b
  /\ ilist' = Truncated(ilist, b)
  /\ rcache' = rcache \ {ilist[i].val : i \in {j \in DOMAIN ilist : j < b}}
  /\ UNCHANGED <<ihole, istart, delivered, aborted, proposer, envVars>>

(* The number next_instance() returns. *)
IsNextInstance(i) ==
  i - 1 \in DOMAIN ilist /\ \A j \in DOMAIN ilist : j < i

(* proposer_decree; alone in its session the proposer commits at once. *)
ProposerDecree(i, v) ==
  LET il == Put(ilist, i, Fresh(v))
      is == Upstart(istart, ihole, i)
  IN  /\ proposer
      /\ IsNextInstance(i)
      /\ \/ /\ ilist' = il
            /\ istart' = is
            /\ UNCHANGED <<ihole, delivered, aborted, retries, retrieves>>
         \/ v = Chosen[i] /\ PaxosCommit(il, is, rcache, i)
      /\ UNCHANGED <<ibase, rcache, proposer, commits>>

(* proposer_ack_accept, at the accept that completes a majority. *)
ProposerAckAccept(i) ==
  /\ proposer
  /\ i \in DOMAIN ilist /\ ~ilist[i].committed /\ ilist[i].val = Chosen[i]
  /\ PaxosCommit(ilist, istart, rcache, i)
  /\ UNCHANGED <<ibase, rcache, proposer, commits>>

(* reset_proposer and paxos_ack_hello change who we think proposes. *)
ChangeProposer ==
  /\ proposer' \in Roles
  /\ UNCHANGED <<logVars, ibase, rcache, envVars>>

-----------------------------------------------------------------------------
(* A failed assertion ends the process. *)
Step ==
  \/ \E i \in Inum, v \in Value : AckDecree(i, v)
  \/ \E i \in Inum : AckCommit(i)
  \/ \E i \in Inum : AckRecommit(i)
  \/ \E v \in Cacheable : AckRequest(v)
  \/ \E i \in Inum : AckResend(i)
  \/ \E b \in Inum : AckTruncate(b)
  \/ \E i \in Inum, v \in Value : ProposerDecree(i, v)
  \/ \E i \in Inum : ProposerAckAccept(i)
  \/ ChangeProposer

Next == ~aborted /\ Step

Spec == Init /\ [][Next]_vars

(***************************************************************************)
(* TCP delivers what was sent on a connection that stays up, the proposer  *)
(* answers retries, and the originator of a request answers retrieves.     *)
(***************************************************************************)
Fairness ==
  \A i \in Inum :
    /\ WF_vars(~aborted /\ i \in commits /\ AckCommit(i))
    /\ WF_vars(~aborted /\ i \in retries /\ AckRecommit(i))
    /\ WF_vars(~aborted /\ AckResend(i))

FairSpec == Spec /\ Fairness

-----------------------------------------------------------------------------
(***************************************************************************)
(* The shape of the state.  There is one callback per instance below the   *)
(* hole, and only requests that can be decreed are cached.                 *)
(***************************************************************************)
TypeOK ==
  /\ DOMAIN ilist \subseteq Inum
  /\ \A i \in DOMAIN ilist : ilist[i] \in Instance
  /\ ihole \in 2 .. (MaxInum + 1)
  /\ istart \in Inum
  /\ ibase \in Inum
  /\ rcache \subseteq Cacheable
  /\ proposer \in BOOLEAN
  /\ delivered \in [1 .. (ihole - 1) -> Value]
  /\ aborted \in BOOLEAN
  /\ commits \subseteq Inum
  /\ retries \subseteq Inum
  /\ retrieves \subseteq Inum

(***************************************************************************)
(* The invariant stated in paxos_commit: exactly the instances below ihole *)
(* are learned, and the instance at ihole still lacks its commit or its    *)
(* request, unless the process has died learning it.                       *)
(***************************************************************************)
LearnedPrefix ==
  /\ ibase < ihole
  /\ \A i \in DOMAIN ilist : i >= ibase /\ (ilist[i].learned <=> i < ihole)
  /\ \A i \in ibase .. (ihole - 1) : Ready(ilist, i)
  /\ ~aborted => ~Ready(ilist, ihole)

(***************************************************************************)
(* istart is on the list and is the hole if the hole exists, otherwise its *)
(* predecessor: what lets paxos_commit start learning from it.             *)
(***************************************************************************)
IstartAtHole == ~aborted => istart = NextIstart(ilist, ihole)

(* Every commit holds the chosen value, and is cached only once committed. *)
CommitsChosen ==
  \A i \in DOMAIN ilist :
    /\ ilist[i].committed => ilist[i].val = Chosen[i]
    /\ ilist[i].cached => ilist[i].committed

(* The request chosen in instance i was chosen in one truncated before, too. *)
TruncatedBefore(i) == \E k \in 1 .. (ibase - 1) : k < i /\ Chosen[k] = Chosen[i]

(***************************************************************************)
(* The request of a cached instance that is still to be learned stays in   *)
(* the cache, unless the same request was decreed in an earlier instance:  *)
(* ilist_truncate_prefix then drops it with that one.                      *)
(***************************************************************************)
RequestsKept ==
  \A i \in DOMAIN ilist :
    i >= ihole /\ ilist[i].cached => HasRequest(ilist, rcache, i) \/ TruncatedBefore(i)

(***************************************************************************)
(* We only retrieve for instances that stay committed until they are       *)
(* truncated, so that a late resend finds what it was asked for.           *)
(***************************************************************************)
RetrievesCommitted ==
  \A i \in retrieves :
    i < ibase \/ (i \in DOMAIN ilist /\ ilist[i].committed /\ ilist[i].val \in Cacheable)

(***************************************************************************)
(* The one assert of paxos_commit that can fail is that of the request of  *)
(* a cached instance (paxos_learn.c:126), and it does so only at the hole, *)
(* for a request that was decreed twice and truncated with its first       *)
(* instance.                                                               *)
(***************************************************************************)
OnlyRepeatsAbort ==
  aborted => /\ Ready(ilist, ihole)
             /\ ~HasRequest(ilist, rcache, ihole)
             /\ TruncatedBefore(ihole)

(* The callbacks saw the chosen values in instance order, none skipped. *)
InOrder == \A i \in 1 .. (ihole - 1) : delivered[i] = Chosen[i]

(***************************************************************************)
(* paxos_learn.c:121-122: the request of an instance past the hole "is     *)
(* guaranteed to exist because we have checked that pi_cached holds".      *)
(***************************************************************************)
RequestGuaranteed == ~aborted

(* The inductive invariant that the proofs use. *)
LogInv ==
  /\ TypeOK
  /\ LearnedPrefix
  /\ IstartAtHole
  /\ CommitsChosen
  /\ RequestsKept
  /\ RetrievesCommitted
  /\ OnlyRepeatsAbort
  /\ InOrder

(* The participant implements ordered delivery. *)
Ordered == INSTANCE OrderedDelivery
  WITH MaxInum <- MaxInum, Chosen <- Chosen, delivered <- delivered
DeliversInOrder == Ordered!Spec

(***************************************************************************)
(* Committed instances and learned ones are never taken back: an instance  *)
(* that disappears was learned.                                            *)
(***************************************************************************)
CommitsAreFinal ==
  [][\A i \in DOMAIN ilist :
       \/ i \notin DOMAIN ilist' /\ ilist[i].learned
       \/ /\ i \in DOMAIN ilist'
          /\ ilist[i].committed => ilist'[i].committed /\ ilist'[i].val = ilist[i].val
          /\ ilist[i].learned => ilist'[i].learned]_vars

(***************************************************************************)
(* Every instance of the session is eventually learned.  paper.tex:301-304 *)
(* on a missing commit: participants "ask the proposer to remind them".    *)
(***************************************************************************)
CatchesUp == <>(ihole = MaxInum + 1)

=============================================================================
