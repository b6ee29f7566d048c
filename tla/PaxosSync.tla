------------------------------- MODULE PaxosSync -------------------------------
(***************************************************************************)
(* Truncation of the logs (paxos_sync.c).  Every second the proposer may   *)
(* ask everyone how far it has learned; when all have answered it tells    *)
(* everyone to drop the instances before the least answer, and the         *)
(* requests they refer to.                                                 *)
(***************************************************************************)
EXTENDS PaxosState

CONSTANT SyncSkipThresh  \* SYNC_SKIP_THRESH: ticks after which a sync is given up

ASSUME SyncSkipAssumption == SyncSkipThresh \in Nat \ {0}

(* Mutant: a sync that is begun anew keeps the number of the one that was given up. *)
ProposerSyncRenew(s) ==
  LET id == IF s.sync = NoSync THEN s.sync_id + 1 ELSE s.sync_id
  IN  IF \/ s.prep # NoPrep
         \/ s.live_count # Cardinality(Members(s))
         \/ s.ihole - 1 = s.sync_prev
      THEN s
      ELSE IF s.sync # NoSync /\ s.sync.skips + 1 < SyncSkipThresh
      THEN [s EXCEPT !.sync.skips = @ + 1]
      ELSE Broadcast([s EXCEPT !.sync = [total |-> Cardinality(Members(s)), acks |-> 1,
                                         skips |-> 0, last |-> 0],
                               !.sync_id = id],
                     Message("SYNC", s.ballot, id, <<>>))

(* proposer_sync *)
ProposerSync(s) ==
  IF \/ s.prep # NoPrep
     \/ s.live_count # Cardinality(Members(s))
     \/ s.ihole - 1 = s.sync_prev
  THEN s
  ELSE IF s.sync # NoSync /\ s.sync.skips + 1 < SyncSkipThresh
  THEN [s EXCEPT !.sync.skips = @ + 1]
  ELSE Broadcast([s EXCEPT !.sync = [total |-> Cardinality(Members(s)), acks |-> 1,
                                     skips |-> 0, last |-> 0],
                           !.sync_id = @ + 1],
                 Message("SYNC", s.ballot, s.sync_id + 1, <<>>))

(* acceptor_ack_sync and acceptor_last: our last contiguous learn. *)
AcceptorAckSync(s, m) ==
  IF BallotCompare(m.bal, s.ballot) # 0 THEN s
  ELSE SendToProposer(s, Message("LAST", m.bal, m.inum, s.ihole - 1))

(* Mutant: the instance at inum goes as well. *)
TruncatePrefixOneMore(s, inum) ==
  LET gone == {i \in DOMAIN s.ilist : i <= inum}
  IN  [s EXCEPT !.ilist = Truncated(@, inum + 1),
                !.rcache = @ \ {ReqId(s.ilist[i].val) : i \in gone}]

(***************************************************************************)
(* ilist_truncate_prefix: drop the instances before inum, and the request  *)
(* of each.                                                                *)
(***************************************************************************)
TruncatePrefix(s, inum) ==
  LET gone == {i \in DOMAIN s.ilist : i < inum}
  IN  [s EXCEPT !.ilist = Truncated(@, inum),
                !.istart = IF @ \in gone THEN OffList ELSE @,
                !.rcache = @ \ {ReqId(s.ilist[i].val) : i \in gone}]

(* proposer_truncate *)
ProposerTruncate(s, m) ==
  LET last == Min({s.sync.last, s.ihole - 1})
      t == Broadcast([s EXCEPT !.sync_prev = last, !.ibase = last],
                     Message("TRUNCATE", m.bal, m.inum, last))
  IN  IF last < s.ibase THEN Fail(s, "sync below the base")
      ELSE [TruncatePrefix(t, last) EXCEPT !.sync = NoSync]

(* Mutant: the last answer to come in is the one that counts. *)
ProposerAckLastLatest(s, m) ==
  LET t == [s EXCEPT !.sync.last = m.body, !.sync.acks = @ + 1]
  IN  IF m.inum # s.sync_id THEN s
      ELSE IF t.sync.acks = t.sync.total THEN ProposerTruncate(t, m)
      ELSE t

(* proposer_ack_last; a sync_id is never used twice by one proposer. *)
ProposerAckLast(s, m) ==
  LET t == [s EXCEPT !.sync.last = IF m.body < @ \/ @ = 0 THEN m.body ELSE @,
                     !.sync.acks = @ + 1]
  IN  IF m.inum # s.sync_id THEN s
      ELSE IF s.sync = NoSync THEN Fail(s, "answer to no sync")
      ELSE IF t.sync.acks = t.sync.total THEN ProposerTruncate(t, m)
      ELSE t

(* acceptor_ack_truncate; the base is taken over unchecked. *)
AcceptorAckTruncate(s, m) == TruncatePrefix([s EXCEPT !.ibase = m.body], m.body)

=============================================================================
