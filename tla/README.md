# Motmot: a TLA+ model of libmotmot

Motmot is a distributed chat system. Its core, `libmotmot` (C, under
`src/libmotmot/src`), runs Multi-Paxos among the participants of a chat so that
all of them see the same messages in the same order, elects proposers without
timeouts, and lets participants come, go, disconnect and reconnect. Its
discovery servers, `plume` (Python), keep users, friends and statuses. This
directory models the Paxos core, the I/O below it and the discovery servers as
they are written, checks them with TLC on small instances, and proves with TLAPS,
for every value of the constants, the learner, the peer I/O and the agreement of
the discovery servers, and the invariants of a session until a connection is made
anew.

## The system

| Part | State | Operations | Interacts with |
|---|---|---|---|
| Session, dispatch (`paxos.c`, `motmot.c`) | `struct paxos_session`: self, proposer, ballot, acceptor list, instance list, request cache | start, end, dispatch by opcode and role, drop a connection, force a kill | called by peer I/O, calls every handler |
| Proposer (`paxos_proposer.c`) | `prep` (ballot, acks, redirects, start of the merge), `idefer` | prepare, merge promises, redecree, decree, count accepts, commit | messages to and from acceptors |
| Acceptor (`paxos_acceptor.c`) | `ballot`, `gen_high`, votes in `ilist` | promise or redirect, accept or reject, commit | messages |
| Learner (`paxos_learn.c`) | `ihole`, `istart`, `pi_committed`, `pi_cached`, `pi_learned` | commit, learn a contiguous block, part, elect | client callbacks; calls `proposer_prepare`, `acceptor_retry`, `paxos_retrieve` |
| Requests (`paxos_request.c`) | `rcache`, `req_id` | request, defer, refuse, retrieve, resend | broadcast out of band of Paxos |
| Retry (`paxos_retry.c`) | - | retry a hole, recommit | learner, proposer |
| Reconnection (`paxos_reconnect.c`, `paxos_continue.h`) | `clist`, `live_count`, `pp_redirects`, `pi_rejects` | redirect, refuse, reject; connect callbacks | the client's asynchronous `connect` |
| Greeting (`paxos_greet.c`) | `adefer` | hello, welcome | joins, reconnection |
| Sync (`paxos_sync.c`) | `sync`, `ibase` | sync, last, truncate, on a timer | all participants |
| Peer I/O (`paxos_io.c`) | write buffer, event watches | read, write, destroy | GLib's main loop |
| Discovery (`plume/`) | users, friends, statuses, connections | RPC handlers in Python | other servers, `turquoise` |
| Pidgin plugin (`turquoise/`) | libpurple's | glue | libmotmot, plume |

What is hard here: every participant notices a crash at its own time; a failover
races with messages of the old proposer; a reconnection is decided in one
handler and completed in a callback much later, while the other side may be
reconnecting too; commits overtake the data they refer to; there are no
timeouts, so whatever is not asked for again is never repaired. `PROJECT.json`
lists these hazards line by line.

What makes each part correct:

- learner: callbacks in instance order, each once; what is committed stays; no
  assertion of `paxos_commit` fails as long as no request is decreed twice; every
  instance is learned eventually;
- Paxos roles: one value per ballot and instance, commits agree, promises are
  kept, a prepared proposer stays the proposer;
- reconnection: who thinks it is a prepared proposer has prepared, agreement
  whatever happens to connections, an accurate `live_count`;
- requests: a chat is learned once, by everybody who stays;
- session: who crashes is parted, who does not crash is not;
- sync: nothing is truncated that somebody still has to learn, and an answer counts for
  the sync that asked for it only;
- greeting: a newcomer ends up with the log, the acceptors and the connections
  of the others, or is parted again;
- peer I/O: messages arrive whole, in order and once, and the loop is asked to
  write, once, exactly while there is something to write;
- discovery: two servers agree on a friendship once it is settled, whichever requests
  crossed or failed before.

## Modules

`InstanceLog` defines the instance list as a function from instance numbers, and
the operators on it that the learner uses: where the learning loop stops, where
`istart` ends up, truncation.

`Learner` (with `OrderedDelivery`, its abstract specification) is one participant
in an environment that is a correct Paxos: the constant `Chosen` gives the value
of each instance, commits carry it, decrees may carry anything. `Chosen` may give one
request to several instances, which the proposer of this code does not prevent. One action per
handler that touches the log: `AckDecree`, `AckCommit`, `AckRecommit`,
`AckRequest`, `AckResend`, `AckTruncate`, `ProposerDecree`, `ProposerAckAccept`,
and `ChangeProposer` for the handlers that only change the role. `PaxosCommit` is
`paxos_commit` with its three outcomes (`DeferCommit`, `AwaitHole`,
`LearnBlock`); a C assertion that fails sets `aborted` and ends the process. `commits`, `retries` and
`retrieves` record what is on its way or has been asked for. `MCLearner` gives
the values for TLC, `LearnerProofs` holds the theorems.

`Ballot`, `PaxosState`, `PaxosRoles`, `PaxosReconnect` and `PaxosSession` are the
session of `N` participants. The state of a participant is a record with the
fields of `struct paxos_session` under their C names. Every C function is an
operator from a session to the session it leaves, so that an operator reads like
the function and a handler that calls others is a composition; sends collect in
`out`, destroyed connections in `closed`, and a failed assertion or a NULL
dereference puts its name into `status` and ends the process.

- `PaxosState`: `paxos_util.c`, `paxos_learn.c` and what they call;
- `PaxosRoles`: handlers of prepare, promise, decree, accept, commit, retry,
  recommit, request, retrieve, resend;
- `PaxosReconnect`: redirect, refuse, reject, hello, and their continuations;
- `PaxosGreet`: welcome, the session that a newcomer starts from it, and the
  continuations of both sides;
- `PaxosSync`: sync, last, truncate;
- `PaxosSession`: dispatch, the network, joining processes, the timer, crashes and
  broken connections, and the properties;
- `SessionLemmas`, `SessionHandlers`, `SessionProofs`, `SyncProofs`: the proofs, about
  the operators of `PaxosState`, about the handlers, about `Spec`, and about its syncs.
  `Folding` states
  once what folds over sets and sequences keep; each loop of the code that is a fold
  instantiates it.

The actions of `PaxosSession` are turns of an event loop: `Deliver` reads one
message, `Eof` an end of file, `ConnectSucceeds` and `ConnectFails` run a
continuation, `Tick` is the timer of the session, `Chat` and `Invite` are a
client's `motmot_send` and `motmot_invite`. `Crash` and `Break` are the
environment. A process is single-threaded, so a handler is atomic. A process of
`Joiners` starts `idle`, without a session, and gets one from a welcome.

`PeerIO` is one connection: a peer object at each end, with its write buffer, the
buffer of its GIOChannel, its unpacker, its read watch and the number of its write
watches, and the socket between them, all in bytes. One action per callback and operation of
`paxos_io.c`. `Channel` is the connection that `PaxosSession` takes for granted:
an in-order queue of messages that loses only its end, and only when it is cut.
`ReliableIO` says that both directions of `PeerIO` implement it; `PeerIOProofs`
proves it.

`Discovery` is two plume servers (`MCDiscovery` names their users). A handler that
stays on its server is one action; one that calls the other server is three: up
to the call, the other server's part, and what follows the answer. Requests about the
same users may cross, of one user (each message runs in a greenlet of its own) or of
both. `CallFails` ends a call after the other server has done its part, before, or
for the caller only: a `lost` call has nobody waiting for it and may still be done at
any later time. Two auxiliary sets record what crossed or failed. A pair is `unsure`
from the moment that a register and an unregister about it cross, or one of them
fails, until the next of either that no other has crossed (`alone`) is answered; it is
`odd` from the moment that any request fails, or a register is crossed by an accept or
an unregister, until the next unregister of that kind is answered. `DiscoveryProofs`
holds the theorems.

Abstractions, with their reasons:

- request data is its request ID, a descriptor is the process that it leads to;
- a sorted list is a function or a set, a pointer into it the number it points
  to; `OffList` is a pointer to an instance that was unlinked;
- a connection delivers in order, and loses what is in flight only by breaking
  (TCP); what a handler sends on a connection that it destroys itself, or in a
  session that it ends, is never written, because the write buffer is drained by
  a later event;
- in `PaxosSession` a dispatch that fails is a step without effect. It removes
  the read watch until the next drained write puts it back (`HearsAgain`); what is
  read late for that reason is a delivery that the model takes late;
- `Rewatched`: an end of file takes the watch away, and the peer of a deferred
  hello survives it. When the join is learned the peer is attached and the first
  write to it brings the end of file back;
- a process that left the session accepts connections and ignores what it reads;
  it is not invited again;
- `motmot_disconnect` ends a session without a message and so is a `Crash`; a process
  that goes on to accept connections after it, which the demo client does not
  (`main.c:136-142`), is not modelled;
- a connect is asynchronous: the client calls back in a later turn of its loop.
  `motmot.h:32-43` leaves that to the client, and the demo client calls back within
  `connect` (`main.c:65-72`). Its orders are missing: `continue_welcome` in the middle
  of the learning loop (`paxos_learn.c:190-192`), `continue_ack_welcome` before the
  instances of the welcome are unpacked (`paxos_greet.c:167-183`);
- `MaxGen` bounds the generation of a ballot: a turn that would exceed it is not taken
  (`Step`), so that a run shows what happens within that many prepares;
- the session starts when its `N` founders have joined and a sync has left the
  last join in the log. One session per process: handlers of different sessions
  share nothing but the connection, and `paxos_drop_connection` treats each alike;
- `PeerIO`: messages have one size, which their bytes record; a write error writes
  nothing and keeps the watch, so it is a step without effect. What is written after
  the other end was closed vanishes, or fails: fairness promises nothing about it;
- `Discovery`: `conn.domain` and `conn.connTbl`, which `motmot.py` uses and
  `server.py` does not define, are the server's domain and its table of connected
  users, as their uses have it. Passwords are right, requests come from
  authenticated connections, and server authentication is part of a call and its
  failure. The order in which sqlite returns rows is any order.

Definitions marked "Mutant" are what a plausible bug would make of the
definition after them; `PROJECT.json` says which property each one breaks.

## Runs

| Run | Shows |
|---|---|
| `learner_safety` | five instances, two of them with the same chat, any order of decrees, commits, recommits, requests, resends and truncates, both roles: `LogInv` and its parts, refinement of `OrderedDelivery`, commits are final; a request is dropped too early, and `paxos_commit` aborts, only where the chat was truncated with its first instance |
| `learner_oneloss` | commits in order, one of them lost: everything is learned eventually |
| `session_crash` | three participants, two chats, one crash: agreement, one value per ballot, one proposer, well-formed logs, promises kept, nobody parted who is not gone, no handler frees the connection it is called for, no failure but the one that `session_promise` shows (two failovers take more participants: `PaxosSession_rank.cfg`, `PaxosSession_swap.cfg`) |
| `session_reconnect` | one chat, one crash, one broken connection, one reconnection: agreement on what is committed, a prepared proposer stays and decrees under a ballot of its own |
| `session_partition` | two chats of the proposer, two broken connections, so that it may be cut off: agreement between the deposed proposer and its successor |
| `session_live` | participant 2, which sends nothing, crashes: chats are learned, logs catch up, 2 is parted |
| `session_join` | two founders and a newcomer, a chat, three ticks of the timer, a crash of any of them: welcome, hellos and commits cross; agreement across the join, the same acceptors and right connections, an accurate `live_count`, nothing truncated that somebody has not learned, every answer to the latest sync finds it under way, every log starts at its base |
| `session_welcome` | the same with fairness and no crash, connects may fail: whoever joined is welcomed and learns what the others learn, or is parted again |
| `peer_io` | three messages in each direction, buffers smaller than the stream, one failed dispatch, one closed end and writes to it: refinement of `Channel`, one write watch or none (`WriteWatched`), a deaf end hears again once it writes |
| `discovery` | a user in each of two domains and a name without a user, five requests in any overlap, one failed or lost call: one row per pair and only for own users, servers agree on friendships and on their acceptance once they are settled |
| `session_promise`, `session_resend` | each refutes a claim of a comment, see below |

Bounds. Three participants are the smallest session in which a majority is not
everybody and a failover leaves a majority. One crash is what three participants
survive. Two chats give two instances in flight, so that commits, redecrees and
nulls above a hole occur. Each break is followed by at most one reconnection, which
suffices for hellos to cross with parts, prepares and crashes. Two breaks are what
it takes to cut one of three participants off; there, two prepared proposers at a
time are normal, and only one of them can still commit.
`MaxGen = 3` leaves room for a failover and a repeated prepare. Five instances
are enough for the learner to have a learned one, a hole, and committed ones above
the hole with and without their requests, and to truncate the first instance of a
request that is chosen in two before it learns the second; the theorems cover every number.
In `session_join` two founders suffice for the newcomer to be welcomed by one and to
say hello to the other, before or after the other learns of it; the three connects
are welcome, hello and one more; three ticks with a threshold of two begin a sync,
skip it and begin another in its place, or begin the next whenever one is over; answers
to an earlier one may come in at any time. In `peer_io` a message has two bytes, the channel
holds two and the socket three, so that every portion may cut a message. Five
requests let two users log in, become friends and accept, and one more interfere, or
let them log in and three requests cross. A request between two users of one domain
writes both rows in one step; `MCDiscovery_local.cfg` adds such a user, with four
requests, and passes too, and the theorems cover any users.
Deadlock is not checked: a session in which nothing is left to deliver, a connection
with nothing to send and a server without requests have stopped for good reason.

Fairness. `Learner`: commits on a live connection arrive, the proposer answers
retries, originators answer retrieves. `PaxosSession`: some pending message is
delivered as long as there is one, every process notices its ends of file, and
the client calls back after a connect. `PeerIO`: the loop calls back for a watch
whose condition stays true, except for writes to a closed end. That is what GLib's loop and TCP give.
Clients need not talk and nobody needs to crash. `session_live` lets only
participant 2 crash and lets it send nothing: a retrieve from an originator that
crashes is not repeated (below), and after the crash of the proposer the abort of
`session_promise` may leave no majority to make progress. `session_welcome` lets
only the proposer talk, because of `session_resend`.

## What the checks found

- `session_promise`: an acceptor starts its promise at the closest instance at or
  below the preparer's hole, the preparer starts merging at the hole itself if it
  has an instance there. A failover between the decree and the commit of a chat
  then aborts the new proposer at `paxos_proposer.c:218`.
- `session_resend`: a newcomer learns a commit whose request it lacks and asks its
  originator, which has not learned the newcomer's join, finds no acceptor to answer
  and dereferences NULL (`paxos_request.c:248-249`). Nothing has failed before.

The following configurations refute further claims. They are not part of the list
of runs in `PROJECT.json`; run TLC with them to see the counterexample.

- `MCLearner_twolosses.cfg`, `CatchesUp`: `paxos_commit` asks for a hole only when a
  commit arrives above it. When the answer fills the first hole and uncovers a
  second one, nobody asks again; a session that falls silent never catches up.
- `PaxosSession_duplicate.cfg`, `RequestsOnce`: a request that arrives while the new
  proposer prepares is deferred and decreed even if the promises bring its first
  decree back; the chat is delivered twice.
- `MCLearner_repeated.cfg`, `RequestGuaranteed`: of such a request the first instance
  is learned and truncated, which drops the request from the cache, while the second
  is committed above a hole. When the hole is filled, the assertion at
  `paxos_learn.c:126` ends the process, although the request "is guaranteed to exist
  because we have checked that pi_cached holds" (`paxos_learn.c:121-122`).
- `PaxosSession_stranger.cfg`, `ChatsFromMembers`: the chat of a participant that
  reconnected is committed above its own pending part; learning both aborts at
  `paxos_learn.c:159`.
- `PaxosSession_votes.cfg`, `VotesCounted`: a part decreed again after a tie counts
  accepts twice (four participants, the smallest even split after a crash).
- `PaxosSession_rank.cfg`, `RedirectsOutrank`: of five participants the first crashes,
  the second prepares, is promised by the fourth, and crashes before its prepare
  reaches the third. The third prepares under the same generation, the fourth
  finds that not newer and redirects to its proposer, which is the third by now; the
  assertion that "should always be the case because of the consistency of proposer
  ranks" (`paxos_reconnect.c:77-81`) ends the third.
- `PaxosSession_swap.cfg`, `LogsWellFormed`: the same two crashes and one chat. The
  third holds the decree of the first in its hole, the fifth the redecree of the
  second; the merge of the fifth's promise swaps that in, and `istart`, which pointed to
  the old instance, points to the memory that the next vote is unpacked into
  (`paxos_proposer.c:238-240`).
- `PaxosSession_retrieve.cfg`, `Reliability`: a retrieve to an originator that
  crashes is not repeated.
- `PeerIO_flush.cfg`, `AllDispatched`: the write watch goes when the write buffer is
  empty, but the flush that follows may leave the tail of a message in the
  GIOChannel (`paxos_io.c:169-177`); it waits there for the next send.
- `MCDiscovery_status.cfg`, `StatusReachesFriends`: `serverStatusChange` indexes a
  `Connection` (`motmot.py:519-520`) and raises as soon as a friend is online, so
  changes of status are not pushed across domains, and the rest of the user's
  friends is skipped.
- `MCDiscovery_overlap.cfg`, `AlwaysBidirectional`: `rpc.py:75` handles each message in
  a greenlet of its own, which opens a connection of its own to the other server, so
  that a client's register and unregister may reach that server in the opposite order:
  the friend gets a row, the user has none, and no call has failed. A register of the
  one user and an unregister of the other cross in the same way. `testClient.py`
  sends its requests without waiting for answers. `Bidirectional` says when a later
  request makes the servers agree again.

Where properties stop to hold, found by adding them to a neighbouring configuration:

- Three properties do not survive reconnection; adding them to
  `PaxosSession_reconnect.cfg` shows how in at most twelve steps.
  `LiveCountAccurate`: a continuation overwrites the connection that a hello
  attached meanwhile (`paxos_reconnect.c:444`; the comments at 137, 269 and 422
  suspect it). `PromisesKept`: a hello of an old proposer resets the ballot
  (`paxos_greet.c:359`; the comment at 344 asks about this case). `OneProposer`: the
  decree of a proposer that reconnected and crashed reaches its prepared successor,
  for which `paxos.c:412-417` knows no cause. Agreement and `PreparedOwnsBallot`
  hold nevertheless. `PeerOutlivesHandler` fails there too: a commit of an old
  proposer makes its reader learn that proposer's part.
- `PeersAreAcceptors` with three founders: a proposer that is still preparing
  welcomes under its predecessor's ballot, and the newcomer takes the connection for
  the predecessor's (`paxos_greet.c:164-168`).
- `CrashedAreParted` with a newcomer that crashes after its hello was deferred: the
  dead connection is attached and counted live when the join is learned
  (`paxos.c:175`, `paxos_greet.c:299-306`), and no end of file comes from it.
- The timer of a session that has ended dereferences it (`paxos_sync.c:30-32`);
  every process that is parted meets this within a second (`Tick`).
- A process that learns its own part ends the session, and frees the peer, under
  the `paxos_peer_read` that called it; `PeerOutlivesHandler` leaves this case out.
- A session of four in which a newcomer cannot be reached and a participant crashes
  has two of four left: neither is parted and nothing more is learned.

## Proofs

`LearnerProofs` proves, for every `MaxInum`, set of values, choice of values,
loss and order of commits:

- `LearnerInvariant`: `Spec => []LogInv`, and from it `LearnerTypes`,
  `LearnerPrefix`, `LearnerIstart`, `LearnerKeepsRequests`, `LearnerAborts`;
- `LearnerCommitsAreFinal`: no step takes a commit or a learn back;
- `LearnerDeliversInOrder`: `Learner` implements `OrderedDelivery`.

None of the interesting invariants is inductive alone. That the loop of
`paxos_commit` delivers in order needs `LearnedPrefix` (what is below the hole is
learned, nothing else is), which needs that nothing is learned twice, which needs
`IstartAtHole`; that all assertions but one hold, and that one fails only at the hole
and for a request chosen twice (`OnlyRepeatsAbort`), needs `RequestsKept`: only learned
instances are truncated, so that a request which an instance above the hole still
needs goes only if it was chosen below the base, too; that a late resend does not commit below the hole needs
`RetrievesCommitted`. `LogInv` is their conjunction. The proof is organised around
`CommitPre`, what every handler establishes before it calls `paxos_commit`:
`DeferKeeps`, `AwaitKeeps` and `LearnKeeps` treat its outcomes once, and one lemma
per handler shows that it establishes `CommitPre` or changes the list harmlessly.

Assumptions: `MaxInum >= 2`, and `Chosen` maps instances to values, as many of them to
one request as it likes.

`PeerIOProofs` proves, for every size of messages, channels and sockets:

- `PeerTypes` and `WritesAreWatched`: buffers stay in their bounds, and there is one
  write watch while the write buffer holds something and none otherwise;
- `PeersImplementChannel`: each direction implements `Channel`. A byte is a pair of
  the number of its message and its offset; the k-th byte of the stream between two
  peers has a position, k. The inductive invariant says that what was dispatched, the
  unpacker, the socket, the channel and the write buffer hold, one after the other,
  consecutive positions. Every callback moves a portion from the front of one buffer
  to the end of the next, so whole messages appear at the other end in order,
  wherever a portion cuts them, and only a closed end drops something: the tail. What
  is written to a closed end is of no stream, because nobody reads there any more.

`DiscoveryProofs` proves, for every set of users, any placement of them on the two
servers, and any number of requests and failed calls:

- `TypeCorrect`: a server keeps rows for its own users only;
- `FriendsAreBidirectional` and `AcceptanceIsShared`: the two servers of a pair agree
  on the friendship and on its acceptance, as `Bidirectional` and `AcceptedByBoth` say,
  with any number of requests crossing, failing and arriving late.

Their invariant, `PairInv`, describes a pair while any number of calls about it are
under way; a call moves rows if it is a register or an unregister. `OneSide`: as long
as the pair is not `unsure`, or a call is `alone`, every call that moves its rows is of
the same kind, and the caller's row is what that call has made it. So it does not
matter in which order they are done, nor whether a lost one is done late: `Agree`, that
the servers agree when nobody waits for such a call, survives. Two more parts are about
the accepted bit of a pair that is not `odd`: `OneKind` says that no register is under
way together with a request of another kind and that who has accepted has no
invitation left, `Shared` that the two rows are the same unless one of them waits for a
call under way to catch up.

`SessionProofs` proves, for every number of founders and every bound on crashes,
broken connections, chats, invitations, ticks and generations, with `conns` the
number of connections made anew:

- `SessionInvariant`: `Inv` holds while `conns = 0`;
- `SessionTypes`, `LiveCounts`, `BallotsOwned`: `TypeOK`, `LiveCountAccurate` and
  `PreparedOwnsBallot` hold while `conns = 0`;
- `NoRivalHeard`: `OneProposer` holds while `conns = 0`, whatever breaks or crashes;
- `OnlyTheGone`: `OnlyTheGoneAreParted` holds while `conns = 0` and no connection
  between live processes has broken (`drops = 0`);
- `PromisesHold`: `PromisesKept` holds where `MaxConns = 0`.

`Inv` says that each session that is up is `Good`, that its connections are open, and
that every message in a queue is well formed. `Good` relates the fields of a session:
itself and its proposer are acceptors, the connected ones are counted, nobody is an
acceptor before its join is learned, nobody prepares who is not the proposer, a prepare
is under a ballot of the preparer that is newer than its promise, a continuation is
about somebody without a connection. `live_count` alone is not inductive, because a part that is learned
during a handler may elect, prepare and decree before the handler goes on; that is why
`Good` is shown for every operator rather than for every action. An operator is
`Quiet` if it only sends and writes to the log, `Kept` if it keeps `Good` and lowers no
ballot. There is one lemma per C function, in the order of the calls; handlers are
compositions of them. Loops (learning a block, redecreeing, sending to all acceptors)
are folds, and the induction is the one of `Folding`, instantiated with what the loop
keeps.

Two more relations make `OneProposer` and `OnlyTheGoneAreParted` inductive, and each
needs the other parts of `Inv`.

- Who leads whom. `Ranked` says that the proposer of a session is the least of its
  connected acceptors and itself, so that a session that takes itself for the proposer
  is the superior end of all its connections (`ProposerLeads`). `Routed` and `Arrives`
  say that the messages of `Leading` travel on a connection from its superior end to
  the other only. The founders' IDs agree on which end that is, and so no message that
  is read by a proposer is one of them. A session sends such messages from a proposer's
  handlers, from the acceptor that answers in its place, and from continuations, and
  every lemma about a handler carries the direction along. An ID is only ever removed
  from the connected ones (`Shrinks`), hence who leads keeps leading.
- Who is there. `Alive` are the founders whose session is up, as long as no connection
  has broken between live processes. `Meets` says that whoever is alive is connected
  to every session that is up, and `IsVal` and `IsValAt` that no part or kill in a log, a
  promise, a deferred decree or a message names one of them. A part is decreed for an
  acceptor without a connection; a connection is lost by an end of file, which with
  `drops = 0` comes from a process that is gone (`EofOfTheGone`). `Alive` only
  shrinks, so what is well formed stays so when another process stops (`LiftsLog`,
  `LiftsMessage`, `LiftsGood`).

`SyncProofs` proves, with the same parameters:

- `SyncInvariant`: `SyncInv` holds while `conns = 0` and `drops = 0`;
- `SyncsNeverFail`: so does `SyncsHold`;
- `TruncationSafe`: so does `TruncatesLearned`.

That nobody truncates what another has not learned rests on a protocol of three
messages, each of which may be in flight when a sync is given up, a proposer crashes or
another takes over. `SyncInv` says what they mean and why an answer is never taken for
another one.

- `Told`, of a message in flight: a sync and a prepare are of their sender, and number
  syncs that the sender has begun; an answer is below the hole of who answered, and
  what a truncation names is below everybody's hole. Holes never go back (`Calm`), so that
  what was told stays true.
- `Round`, of a sync that is under way: there are the participants that were asked,
  `ps_total` of them with the proposer, and those that are done, `ps_acks` of them with the
  proposer; for everybody else at most one question or answer with the number of this
  sync is in flight (`Asks`, `Pending`), and none for who is done. The least
  answer, `ps_last`, is below the holes of the done. So when `ps_acks` reaches `ps_total`
  everybody has answered, and `ps_last` is below all holes.
- `Based`, of a session: its base is below everybody's hole, and its ballot is one of the
  participant it takes for the proposer or of one before that (`Follows`), so that the
  answer to a sync goes to who has asked, not to a later proposer.
- `Awaits`, of a session: who is not the proposer has no sync; as long as a question or an
  answer with the number of the latest sync is in flight, that sync is under way; the
  answers in flight, and the least of those counted, are not below the base. So
  `proposer_ack_last` finds `pax->sync`, and the assertion of `proposer_truncate` holds.
  The base may rise under a sync only by a truncation of another proposer, whose reader
  is not a proposer (`Ranked`) and so has no sync.

The proof needs, of every C function outside `paxos_sync.c`, that it leaves the sync and
the base alone, sends no message of a sync and does not take the hole back: `Calm` in
`SessionHandlers`, one lemma per function. `Turn` is what a turn of a loop does to the
other sessions and to what is in flight; one lemma per handler of `paxos_sync.c` then
shows that its turn keeps `SyncInv`.

TLC checked `Inv` on the bounds of `session_crash`, `session_partition` and
`session_join` before the proof was written.

The hypotheses are not a convenience: after a new connection the code breaks
`LiveCountAccurate`, `PromisesKept` and `OneProposer` (above), and a broken connection
does part somebody who is there, who then does not hear of the syncs of the others. A
connect may be attempted and fail, and connections may break, under `conns = 0`;
processes may crash under `drops = 0`, and what they had written may be lost with
them.

Only model-checked:

- liveness (`CatchesUp`, `ChatsLearned`, `Reliability`, `CrashedAreParted`,
  `NewcomersGetIn`, `HearsAgain`), which is out of the prover's reach, as is reasoning
  about `ENABLED`;
- everything that involves a new connection: `session_reconnect`, and of
  `session_join` what happens after the welcome (`MembersAgree`, `PeersAreAcceptors`,
  and `TruncatesLearned` and `SyncsHold` for newcomers);
- `LogStartsAtBase`: that nothing is inserted below the base depends on `pp_istart`,
  which a truncation during a prepare does not update;
- agreement: `LogsAgree`, `CommitsAgree`, `OneValuePerBallot`, `LogsWellFormed`,
  `NoOtherAbort`. `AckCommit` and `AckRecommit` store the value of a
  commit under whatever ballot the instance has, so that votes of a ballot do not
  determine its value and the usual invariant of Paxos is not one of this code.
  `LogsWellFormed` and `NoOtherAbort` are false for five participants
  (`PaxosSession_swap.cfg`, `PaxosSession_rank.cfg`), so that there is no theorem for
  every `N`;
- `PeerOutlivesHandler` and `PreparedProposerStays`, which hold for the instances
  checked and not for all: with more participants a late resend of a crashed
  originator makes the reader learn the part of that originator; the failing
  continuation of a redirect may prepare once more after the prepare has succeeded.

## Not modelled

- Serialisation (`paxos_msgpack.c`, most of `session_local.c`): field-by-field
  wrappers; what packing an instance drops is `Packed` and `Unpacked`.
- Containers and hashing: the list macros are functions and sets here; the hash
  table serves a connection table that the protocol does not use; murmurhash is
  vendored.
- Tracing (`paxos_print.c`), the demo client (`main.c`) and the Ruby harness.
- Plume's queries (`getAllFriendStatuses`, `getUserStatus`, `serverGetStatus`),
  which change nothing; `userDisc`, which nothing calls; `server.py`, sockets and
  queues; `cryptomot.py`, a wrapper around a cryptography library.
- The Pidgin plugin (`turquoise`): it fills structures of libpurple, whose state
  machine is not in the repository, and is in the middle of a migration, with
  headers that do not exist; there is no behaviour of its own to be faithful to.
- Several sessions in one process, and a process that is invited again after it
  left.

## Plan

1. Learner, its abstract specification and proofs (done).
2. Session with crashes and reconnection (done).
3. Joining, the sync round, peer I/O as a refinement of the channel, discovery (done).
4. Proofs: discovery, peer I/O as a refinement, the session until a connection is
   made anew (done).
5. Proofs: `OneProposer` and `OnlyTheGoneAreParted` until a connection is made anew
   (done).
6. Proofs: `TruncatesLearned` and `SyncsHold` until a connection is made anew (done).
7. Proofs: what of `Inv` survives new connections. `PreparedOwnsBallot` does on every
   instance checked; it needs `Good` without its counts, for connections and messages
   (hello, welcome) that do not exist while `conns = 0`.
