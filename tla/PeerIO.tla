--------------------------------- MODULE PeerIO --------------------------------
(***************************************************************************)
(* The peer objects at the two ends of one TCP connection (paxos_io.c):    *)
(* the buffers through which a message goes and the two watches through    *)
(* which the event loop calls the peer.                                    *)
(*                                                                         *)
(* A message is Size bytes.  It goes from pp_write_buffer into the buffer  *)
(* of the GIOChannel, from there into the socket, and at the other end     *)
(* into the msgpack unpacker, at every stage in portions that ignore the   *)
(* boundaries of messages.  The GIOChannel and the socket are GLib's and   *)
(* the kernel's; both are nonblocking and bounded.                         *)
(***************************************************************************)
EXTENDS Integers, Sequences

CONSTANTS
  Size,      \* bytes of a message
  ChanSize,  \* bytes that a GIOChannel buffers
  SockSize,  \* bytes that a socket holds
  MaxSends,  \* bound: messages sent from each end
  MaxFails,  \* bound: dispatches that fail
  MaxCloses  \* bound: ends that are closed by their process

ASSUME SizesAssumption == {Size, ChanSize, SockSize} \subseteq Nat \ {0}
ASSUME BoundsAssumption == {MaxSends, MaxFails, MaxCloses} \subseteq Nat

VARIABLES
  peer,  \* the peer object at each end
  sock,  \* bytes that can be read at each end
  got,   \* messages dispatched at each end (auxiliary)
  sends, fails, closes  \* how many of each there have been

vars == <<peer, sock, got, sends, fails, closes>>

End == {1, 2}
Other(e) == 3 - e

Message == 1 .. MaxSends
Bytes(m) == [k \in 1 .. Size |-> <<m, k>>]

Smaller(a, b) == IF a < b THEN a ELSE b
Take(s, n) == SubSeq(s, 1, n)
Drop(s, n) == SubSeq(s, n + 1, Len(s))

-----------------------------------------------------------------------------
(***************************************************************************)
(* paxos_peer_init: a read watch, and empty buffers.  Write watches are    *)
(* counted: the event loop keeps as many as have been added.               *)
(***************************************************************************)
PaxosPeerInit ==
  [alive |-> TRUE, wbuf |-> <<>>, chan |-> <<>>, unpk |-> <<>>, in |-> TRUE, out |-> 0]

Init ==
  /\ peer = [e \in End |-> PaxosPeerInit]
  /\ sock = [e \in End |-> <<>>]
  /\ got = [e \in End |-> <<>>]
  /\ sends = [e \in End |-> 0]
  /\ fails = 0 /\ closes = 0

(* Mutant: a write watch is added with every message. *)
PaxosPeerSendAgain(e) ==
  /\ peer[e].alive
  /\ sends[e] < MaxSends
  /\ sends' = [sends EXCEPT ![e] = @ + 1]
  /\ peer' = [peer EXCEPT ![e].wbuf = @ \o Bytes(sends'[e]), ![e].out = @ + 1]
  /\ UNCHANGED <<sock, got, fails, closes>>

(* paxos_peer_send: a write watch is added if there was nothing to write. *)
PaxosPeerSend(e) ==
  /\ peer[e].alive
  /\ sends[e] < MaxSends
  /\ sends' = [sends EXCEPT ![e] = @ + 1]
  /\ peer' = [peer EXCEPT ![e].wbuf = @ \o Bytes(sends'[e]),
                          ![e].out = IF peer[e].wbuf = <<>> THEN @ + 1 ELSE @]
  /\ UNCHANGED <<sock, got, fails, closes>>

(* Mutant: a drained buffer removes the write watch and no more. *)
WatchesInOnly(p, rest) == IF rest = <<>> THEN [p EXCEPT !.out = 0] ELSE p

(***************************************************************************)
(* A drained write buffer removes every watch of the peer, and then adds   *)
(* one: the read watch, also if that had been taken away.                  *)
(***************************************************************************)
Watches(p, rest) == IF rest = <<>> THEN [p EXCEPT !.in = TRUE, !.out = 0] ELSE p

(***************************************************************************)
(* g_io_channel_write_chars and g_io_channel_flush: of the bytes offered,  *)
(* the socket takes what it has room for and the channel what then fits in *)
(* its buffer.  A flush that would block leaves the rest there.            *)
(***************************************************************************)
Written(e, bytes) ==
  LET flushed == Smaller(Len(bytes), SockSize - Len(sock[Other(e)]))
      kept == Smaller(Len(bytes) - flushed, ChanSize)
  IN  [sock |-> Take(bytes, flushed), chan |-> SubSeq(bytes, flushed + 1, flushed + kept),
       rest |-> Drop(bytes, flushed + kept)]

(* What the process at end e may yet read; bytes for a closed end vanish. *)
Arrives(e, bytes) ==
  sock' = [sock EXCEPT ![e] = IF peer[e].alive THEN @ \o bytes ELSE @]

(* Mutant: nothing is erased unless all was written. *)
PaxosPeerWriteAgain(e) ==
  LET w == Written(e, peer[e].chan \o peer[e].wbuf)
      rest == IF w.rest = <<>> THEN <<>> ELSE peer[e].wbuf
  IN  /\ peer[e].alive /\ peer[e].out > 0 /\ peer[e].wbuf # <<>>
      /\ Len(sock[Other(e)]) < SockSize
      /\ Arrives(Other(e), w.sock)
      /\ peer' = [peer EXCEPT ![e] = Watches([@ EXCEPT !.wbuf = rest, !.chan = w.chan], rest)]
      /\ UNCHANGED <<got, sends, fails, closes>>

(***************************************************************************)
(* paxos_peer_write, when the socket can be written to.  The first write   *)
(* after the other end was closed succeeds like any other.  An error       *)
(* writes nothing and keeps the watch, which is no step.                   *)
(***************************************************************************)
PaxosPeerWrite(e) ==
  LET w == Written(e, peer[e].chan \o peer[e].wbuf)
  IN  /\ peer[e].alive /\ peer[e].out > 0 /\ peer[e].wbuf # <<>>
      /\ Len(sock[Other(e)]) < SockSize
      /\ Arrives(Other(e), w.sock)
      /\ peer' = [peer EXCEPT ![e] = Watches([@ EXCEPT !.wbuf = w.rest, !.chan = w.chan], w.rest)]
      /\ UNCHANGED <<got, sends, fails, closes>>

-----------------------------------------------------------------------------
(* The message the unpacker makes of Size bytes; 0 if they are not one. *)
Unpacked(bytes) == IF bytes = Bytes(bytes[1][1]) THEN bytes[1][1] ELSE 0

(* msgpack_unpacker_next, n times. *)
NextMessages(bytes, n) ==
  [j \in 1 .. n |-> Unpacked(SubSeq(bytes, (j - 1) * Size + 1, j * Size))]

(* k bytes are read, and then n messages dispatched. *)
ReadAndDispatch(e, k, n, watch) ==
  LET u == peer[e].unpk \o Take(sock[e], k)
  IN  /\ sock' = [sock EXCEPT ![e] = Drop(@, k)]
      /\ got' = [got EXCEPT ![e] = @ \o NextMessages(u, n)]
      /\ peer' = [peer EXCEPT ![e].unpk = Drop(u, n * Size), ![e].in = watch]

Complete(e, k) == (Len(peer[e].unpk) + k) \div Size

(* paxos_peer_read: dispatch every message that is complete. *)
PaxosPeerRead(e) ==
  /\ peer[e].alive /\ peer[e].in
  /\ \E k \in 1 .. Len(sock[e]) : ReadAndDispatch(e, k, Complete(e, k), TRUE)
  /\ UNCHANGED <<sends, fails, closes>>

(***************************************************************************)
(* paxos_peer_read, with a dispatch that fails: the messages behind it may *)
(* stay in the unpacker, and the watch is taken away.                      *)
(***************************************************************************)
DispatchFails(e) ==
  /\ peer[e].alive /\ peer[e].in
  /\ fails < MaxFails
  /\ fails' = fails + 1
  /\ \E k \in 1 .. Len(sock[e]) : \E n \in 1 .. Complete(e, k) : ReadAndDispatch(e, k, n, FALSE)
  /\ UNCHANGED <<sends, closes>>

Gone == [PaxosPeerInit EXCEPT !.alive = FALSE, !.in = FALSE]

(***************************************************************************)
(* paxos_peer_read at the end of file: paxos_drop_connection destroys the  *)
(* peer of an acceptor; any other keeps its place without a watch.         *)
(***************************************************************************)
Eof(e) ==
  /\ peer[e].alive /\ peer[e].in
  /\ ~peer[Other(e)].alive /\ sock[e] = <<>>
  /\ peer' = [peer EXCEPT ![e] = Gone] \/ peer' = [peer EXCEPT ![e].in = FALSE]
  /\ UNCHANGED <<sock, got, sends, fails, closes>>

(***************************************************************************)
(* paxos_peer_destroy flushes the channel and drops the write buffer; a    *)
(* crash drops both.                                                       *)
(***************************************************************************)
PaxosPeerDestroy(e) ==
  /\ peer[e].alive
  /\ closes < MaxCloses
  /\ closes' = closes + 1
  /\ \E last \in {<<>>, peer[e].chan} :
       sock' = [d \in End |-> IF d = e THEN <<>>
                              ELSE IF peer[d].alive THEN sock[d] \o last ELSE sock[d]]
  /\ peer' = [peer EXCEPT ![e] = Gone]
  /\ UNCHANGED <<got, sends, fails>>

-----------------------------------------------------------------------------
Next ==
  \E e \in End :
    \/ PaxosPeerSend(e) \/ PaxosPeerWrite(e)
    \/ PaxosPeerRead(e) \/ DispatchFails(e)
    \/ Eof(e) \/ PaxosPeerDestroy(e)

Spec == Init /\ [][Next]_vars

-----------------------------------------------------------------------------
(* The shape of the state: the socket and the channel stay in their bounds. *)
TypeOK ==
  /\ \A e \in End :
       /\ peer[e].alive \in BOOLEAN /\ peer[e].in \in BOOLEAN /\ peer[e].out \in Nat
       /\ Len(peer[e].unpk) < Size \/ fails > 0
       /\ Len(peer[e].chan) <= ChanSize
       /\ Len(sock[e]) <= SockSize + ChanSize
       /\ got[e] \in Seq(Message)
  /\ sends \in [End -> 0 .. MaxSends]
  /\ fails \in 0 .. MaxFails /\ closes \in 0 .. MaxCloses

(***************************************************************************)
(* "If there was no data in the buffer to begin with, it means we weren't  *)
(* subscribed to write events" (paxos_io.c:199-201): however sends, failed *)
(* dispatches, partial and drained writes alternate, there is no write     *)
(* watch while there is nothing to write, and one, never a second, while   *)
(* there is.                                                               *)
(***************************************************************************)
WriteWatched ==
  \A e \in End : peer[e].out = IF peer[e].wbuf = <<>> THEN 0 ELSE 1

(* What is on the way to end e, from the unpacker back to the sender. *)
Stream(e) == peer[e].unpk \o sock[e] \o peer[Other(e)].chan \o peer[Other(e)].wbuf

(***************************************************************************)
(* The messages on the way that can still arrive whole: what the unpacker  *)
(* would make of all these bytes.                                          *)
(***************************************************************************)
OnTheWay(e) ==
  IF peer[e].alive THEN NextMessages(Stream(e), Len(Stream(e)) \div Size) ELSE <<>>

BothAlive == peer[1].alive /\ peer[2].alive

(***************************************************************************)
(* The event loop calls back for a watch whose condition stays true.       *)
(* Writes to a closed end may fail for ever.                               *)
(***************************************************************************)
Fairness ==
  \A e \in End :
    /\ WF_vars(BothAlive /\ PaxosPeerWrite(e))
    /\ WF_vars(PaxosPeerRead(e)) /\ WF_vars(Eof(e))

FairSpec == Spec /\ Fairness

WireTo1 == INSTANCE Channel WITH queue <- OnTheWay(1), got <- got[1], open <- BothAlive
WireTo2 == INSTANCE Channel WITH queue <- OnTheWay(2), got <- got[2], open <- BothAlive

(***************************************************************************)
(* "Paxos reliable IO" (paxos_io.c:2): both directions of a connection     *)
(* implement the channel, whatever the portions in which bytes are written *)
(* and read, and whichever dispatches fail.                                *)
(***************************************************************************)
ReliableIO == WireTo1!Spec /\ WireTo2!Spec

(***************************************************************************)
(* An end that has become deaf by a failed dispatch hears again once it    *)
(* writes: the drained buffer puts the watch back (paxos_io.c:171-172).    *)
(***************************************************************************)
HearsAgain ==
  \A e \in End :
    peer[e].wbuf # <<>> ~> (peer[e].in \/ ~BothAlive)

(***************************************************************************)
(* "Write data reliably to a peer" (paxos_io.c:143): what is sent on a     *)
(* connection that stays up is dispatched in the end.                      *)
(***************************************************************************)
AllDispatched == \A e \in End : []<>(OnTheWay(e) = <<>>)

=============================================================================
