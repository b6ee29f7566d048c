------------------------------- MODULE PaxosGreet ------------------------------
(***************************************************************************)
(* How a newcomer gets into a session (paxos_greet.c).  Whoever proposes   *)
(* when it learns a join connects to the newcomer and welcomes it with the *)
(* acceptor list and the instance list; the newcomer, which has no session *)
(* yet, starts one from them, connects to everyone else and says hello.    *)
(***************************************************************************)
EXTENDS PaxosReconnect

(* paxos_instance_pack *)
Packed(inst) ==
  [op |-> inst.op, bal |-> inst.bal, val |-> inst.val, committed |-> inst.committed]

(* Mutant: the list of acceptors is sent without the newcomer itself. *)
ContinueWelcomeEarly(s, k, conn) ==
  LET others == Members(s) \ {k.acc}
  IN  IF conn = NoPeer THEN DecreePart([s EXCEPT !.alist[k.acc] = NoPeer], k.acc, FALSE)
      ELSE Send(Attach(s, k.acc, conn), conn,
                Message("WELCOME", s.ballot, k.acc,
                        [ibase |-> s.ibase, alist |-> [id \in others |-> s.desc[id]],
                         ilist |-> [i \in DOMAIN s.ilist |-> Packed(s.ilist[i])]]))

(* Mutant: whoever cannot be reached stays an acceptor. *)
ContinueWelcomeForgets(s, k, conn) ==
  IF conn = NoPeer THEN [s EXCEPT !.alist[k.acc] = NoPeer]
  ELSE Send(Attach(s, k.acc, conn), conn,
            Message("WELCOME", s.ballot, k.acc,
                    [ibase |-> s.ibase, alist |-> [id \in Members(s) |-> s.desc[id]],
                     ilist |-> [i \in DOMAIN s.ilist |-> Packed(s.ilist[i])]]))

(***************************************************************************)
(* continue_welcome: send the newcomer its paxid and our state, or part it *)
(* if we could not connect.                                                *)
(***************************************************************************)
ContinueWelcome(s, k, conn) ==
  IF conn = NoPeer THEN DecreePart([s EXCEPT !.alist[k.acc] = NoPeer], k.acc, FALSE)
  ELSE Send(Attach(s, k.acc, conn), conn,
            Message("WELCOME", s.ballot, k.acc,
                    [ibase |-> s.ibase, alist |-> [id \in Members(s) |-> s.desc[id]],
                     ilist |-> [i \in DOMAIN s.ilist |-> Packed(s.ilist[i])]]))

(* paxos_instance_unpack, and then what comes before the hole counts as learned. *)
Unpacked(ilist, hole) ==
  [i \in DOMAIN ilist |->
     [ZeroInstance(ilist[i].bal, ilist[i].val) EXCEPT
        !.op = ilist[i].op, !.committed = ilist[i].committed,
        !.cached = i < hole, !.learned = i < hole]]

(***************************************************************************)
(* acceptor_ack_welcome: the session that a newcomer starts.  It takes the *)
(* sender for the acceptor that the ballot names, and asks its client to   *)
(* connect it to all others.  `first' is where what it learns begins.      *)
(***************************************************************************)
AcceptorAckWelcome(source, m) ==
  LET info == m.body
      others == Sorted(DOMAIN info.alist \ {m.bal.id, m.inum})
      hole == Min({h \in info.ibase .. (Max(DOMAIN info.ilist) + 1) :
                     h \in DOMAIN info.ilist => ~info.ilist[h].committed})
      s == [self |-> m.inum,
            alist |-> [id \in DOMAIN info.alist |-> IF id = m.bal.id THEN source ELSE NoPeer],
            desc |-> info.alist, adefer |-> <<>>, live_count |-> 2,
            proposer |-> m.bal.id, ballot |-> m.bal, gen_high |-> m.bal.gen, prep |-> NoPrep,
            ilist |-> Unpacked(info.ilist, hole), ibase |-> info.ibase, ihole |-> hole,
            istart |-> NextIstart(info.ilist, hole), idefer |-> <<>>,
            rcache |-> {}, req_id |-> 0,
            clist |-> [k \in 1 .. Len(others) |-> [kind |-> "ack_welcome", acc |-> others[k],
                                                   inum |-> 0, val |-> NoValue]],
            sync |-> NoSync, sync_id |-> 0, sync_prev |-> 0,
            first |-> hole - 1, log |-> <<>>, out |-> <<>>, closed |-> {}, status |-> "up"]
  IN  IF m.bal.id \notin DOMAIN info.alist THEN Fail(s, "welcome without a proposer")
      ELSE IF Min(DOMAIN info.ilist) # info.ibase THEN Fail(s, "welcome without its base")
      ELSE s

(* continue_ack_welcome *)
ContinueAckWelcome(s, k, conn) ==
  IF conn = NoPeer THEN [s EXCEPT !.alist[k.acc] = NoPeer]
  ELSE PaxosHello(Attach(s, k.acc, conn), k.acc)

(* CONNECTINUATE: nothing is done for an acceptor parted meanwhile. *)
Continue(s, k, conn) ==
  IF ~IsMember(s, k.acc) THEN s
  ELSE CASE k.kind = "redirect"    -> ContinueAckRedirect(s, k, conn)
         [] k.kind = "refuse"      -> ContinueAckRefuse(s, k, conn)
         [] k.kind = "reject"      -> ContinueAckReject(s, k, conn)
         [] k.kind = "welcome"     -> ContinueWelcome(s, k, conn)
         [] k.kind = "ack_welcome" -> ContinueAckWelcome(s, k, conn)

=============================================================================
