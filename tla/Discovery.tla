------------------------------- MODULE Discovery -------------------------------
(***************************************************************************)
(* The discovery servers (plume): every domain has a server that keeps the *)
(* friends of its users in a table of rows <<userName, friend>> with an    *)
(* `accepted' bit, and knows which of its users are connected.             *)
(*                                                                         *)
(* A request runs in a greenlet of its own (rpc.py), without interruption  *)
(* up to the call that it makes to the server of a friend in another       *)
(* domain (sqlite3 blocks and does not yield).  Other requests run while   *)
(* it waits for the answer, about the same users too.  The call may fail,  *)
(* before or after the other server has done its part; that server may do  *)
(* it long after the failure.                                              *)
(*                                                                         *)
(* conn.domain and conn.connTbl, which motmot.py uses and server.py does   *)
(* not define, are taken to be the server's domain and its table of        *)
(* connected users.  Nothing calls userDisc, so nobody leaves the table.   *)
(***************************************************************************)
EXTENDS Integers, Sequences, FiniteSets

CONSTANTS
  Name,        \* user names, with and without a user behind them
  Domain,      \* domains
  Home,        \* the domain part of every name
  Registered,  \* names in the users table of their domain
  MaxOps,      \* bound: requests
  MaxFails     \* bound: calls between servers that fail

ASSUME DomainAssumption == Cardinality(Domain) = 2
ASSUME HomeAssumption == Home \in [Name -> Domain]
ASSUME RegisteredAssumption == Registered \subseteq Name
ASSUME BoundsAssumption == {MaxOps, MaxFails} \subseteq Nat

VARIABLES
  rows,    \* the friends table of every domain: the `accepted' bits of each pair
  stat,    \* the status of every user; "unknown" if it is not connected
  pushed,  \* what was pushed to every user
  calls,   \* requests to other servers: waiting, or failed and not yet arrived
  unsure,  \* pairs whose registrations have failed or crossed (auxiliary)
  odd,     \* pairs about which any request has failed or crossed (auxiliary)
  ops, fails  \* how many requests and failures there have been

vars == <<rows, stat, pushed, calls, unsure, odd, ops, fails>>

Online(u) == stat[u] # "unknown"

(* Does server d, or rather its table r, have a row for u and f? *)
Has(r, u, f) == r[<<u, f>>] # <<>>

(* Mutant: the row is inserted unchecked. *)
InsertAlways(r, u, f) == [r EXCEPT ![<<u, f>>] = Append(@, FALSE)]

(* The queries of registerFriend, unregisterFriend and acceptFriend. *)
Insert(r, u, f) == IF Has(r, u, f) THEN r ELSE [r EXCEPT ![<<u, f>>] = <<FALSE>>]
Delete(r, u, f) == [r EXCEPT ![<<u, f>>] = <<>>]
SetAccepted(r, u, f) == [r EXCEPT ![<<u, f>>] = [k \in DOMAIN @ |-> TRUE]]

(* Those whose rows with u are accepted in table r, by either column. *)
AcceptedBy(r, u) == {f \in Name : Has(r, u, f) /\ r[<<u, f>>][1]}
Followers(r, u) == {f \in Name : Has(r, f, u) /\ r[<<f, u>>][1]}

Push(to, what) == [f \in Name |-> IF f \in to /\ Online(f) THEN pushed[f] \union {what} ELSE pushed[f]]

(***************************************************************************)
(* Requests of different kinds that cross: they are about the same users,  *)
(* op being made while c is under way.  Whether there are rows depends on  *)
(* the order in which a register and an unregister are done; whether they  *)
(* are accepted, on that of a register and an accept as well.              *)
(***************************************************************************)
About(u, f) == {c \in calls : {c.from, c.to} = {u, f}}
CrossesRow(c, op) == {c.op, op} = {"register", "unregister"}
CrossesBit(c, op) == CrossesRow(c, op) \/ {c.op, op} = {"register", "accept"}

(***************************************************************************)
(* The request goes to the server of friend f, on a connection of its own. *)
(* In `alone' we note whether no other has crossed it (auxiliary).         *)
(***************************************************************************)
Call(op, u, f, new, later) ==
  LET crossed == {c \in About(u, f) : CrossesRow(c, op)}
  IN  calls' = {[c EXCEPT !.alone = @ /\ c \notin crossed] : c \in calls} \union
               {[id |-> ops, op |-> op, from |-> u, to |-> f, new |-> new, later |-> later,
                 reply |-> "none", lost |-> FALSE, alone |-> crossed = {}]}

-----------------------------------------------------------------------------
Init ==
  /\ rows = [d \in Domain |-> [p \in Name \X Name |-> <<>>]]
  /\ stat = [u \in Name |-> "unknown"]
  /\ pushed = [u \in Name |-> {}]
  /\ calls = {} /\ unsure = {} /\ odd = {}
  /\ ops = 0 /\ fails = 0

(* A request of a connected user u about another name f. *)
Request(op, u, f) ==
  /\ Online(u) /\ u # f
  /\ Home[u] = Home[f] => f \in Registered
  /\ ops < MaxOps
  /\ ops' = ops + 1
  /\ unsure' = unsure \union {{c.from, c.to} : c \in {b \in About(u, f) : CrossesRow(b, op)}}
  /\ odd' = odd \union {{c.from, c.to} : c \in {b \in About(u, f) : CrossesBit(b, op)}}
  /\ UNCHANGED <<stat, fails>>

(* registerFriend, for a client. *)
RegisterFriend(u, f) ==
  LET r == Insert(rows[Home[u]], u, f)
  IN  /\ Request("register", u, f)
      /\ IF Home[f] # Home[u]
         THEN /\ rows' = [rows EXCEPT ![Home[u]] = r]
              /\ Call("register", u, f, stat[u], {})
              /\ UNCHANGED pushed
         ELSE /\ rows' = [rows EXCEPT ![Home[u]] = Insert(r, f, u)]
              /\ pushed' = IF Has(r, f, u) THEN pushed ELSE Push({f}, <<"request", u>>)
              /\ UNCHANGED calls

(* unregisterFriend, for a client. *)
UnregisterFriend(u, f) ==
  /\ Request("unregister", u, f)
  /\ rows' = [rows EXCEPT ![Home[u]] = Delete(Delete(@, u, f), f, u)]
  /\ IF Home[f] # Home[u] THEN Call("unregister", u, f, stat[u], {}) ELSE UNCHANGED calls
  /\ UNCHANGED pushed

(* acceptFriend *)
AcceptFriend(u, f) ==
  LET r == SetAccepted(rows[Home[u]], u, f)
  IN  /\ Request("accept", u, f)
      /\ IF Home[f] # Home[u]
         THEN /\ rows' = [rows EXCEPT ![Home[u]] = r]
              /\ Call("accept", u, f, stat[u], {})
              /\ UNCHANGED pushed
         ELSE /\ rows' = [rows EXCEPT ![Home[u]] = SetAccepted(r, f, u)]
              /\ pushed' = Push({f}, <<"accept", u>>)
              /\ UNCHANGED calls

(***************************************************************************)
(* The friends of u are told its new status in the order of their rows;    *)
(* those whose rows come behind that of a friend in another domain are     *)
(* told when that domain has answered.                                     *)
(***************************************************************************)
TellFriends(u, new) ==
  LET friends == AcceptedBy(rows[Home[u]], u)
      local   == {f \in friends : Home[f] = Home[u]}
  IN  /\ ops < MaxOps
      /\ ops' = ops + 1
      /\ stat' = [stat EXCEPT ![u] = new]
      /\ IF local = friends
         THEN pushed' = Push(local, <<u, new>>) /\ UNCHANGED calls
         ELSE \E f \in friends \ local, before \in SUBSET local :
                /\ pushed' = Push(before, <<u, new>>)
                /\ Call("status", u, f, new, local \ before)
      /\ UNCHANGED <<rows, unsure, odd, fails>>

(* doAuth, with the right password. *)
DoAuth(u) == u \in Registered /\ TellFriends(u, "online")

(* statusChanged *)
StatusChanged(u, new) == Online(u) /\ TellFriends(u, new)

-----------------------------------------------------------------------------
(* Server of c.to has done c; nobody waits for the answer if c has failed. *)
Answer(c, reply) ==
  calls' = (calls \ {c}) \union (IF c.lost THEN {} ELSE {[c EXCEPT !.reply = reply]})

(* registerFriend, for the server of c.from; the names change places. *)
ServerSendFriend(c) ==
  LET d == Home[c.to]
  IN  /\ c.op = "register" /\ c.reply = "none"
      /\ IF c.to \notin Registered
         THEN Answer(c, "user not found") /\ UNCHANGED <<rows, pushed>>
         ELSE /\ rows' = [rows EXCEPT ![d] = Insert(@, c.to, c.from)]
              /\ pushed' = Push({c.to}, <<"request", c.from>>)
              /\ Answer(c, "success")
      /\ UNCHANGED <<stat, unsure, odd, ops, fails>>

(* unregisterFriend, for the server of c.from. *)
ServerSendUnfriend(c) ==
  /\ c.op = "unregister" /\ c.reply = "none"
  /\ rows' = [rows EXCEPT ![Home[c.to]] = Delete(Delete(@, c.to, c.from), c.from, c.to)]
  /\ Answer(c, "success")
  /\ UNCHANGED <<stat, pushed, unsure, odd, ops, fails>>

(* Mutant: the friend is told and its row is left alone. *)
ServerAcceptFriendPushes(c) ==
  /\ c.op = "accept" /\ c.reply = "none"
  /\ pushed' = Push({c.to}, <<"accept", c.from>>)
  /\ Answer(c, "success")
  /\ UNCHANGED <<rows, stat, unsure, odd, ops, fails>>

(* serverAcceptFriend *)
ServerAcceptFriend(c) ==
  /\ c.op = "accept" /\ c.reply = "none"
  /\ IF c.to \notin Registered
     THEN Answer(c, "user not found") /\ UNCHANGED <<rows, pushed>>
     ELSE /\ rows' = [rows EXCEPT ![Home[c.to]] = SetAccepted(@, c.to, c.from)]
          /\ pushed' = Push({c.to}, <<"accept", c.from>>)
          /\ Answer(c, "success")
  /\ UNCHANGED <<stat, unsure, odd, ops, fails>>

(***************************************************************************)
(* serverStatusChange.  It indexes the Connection of the first user that   *)
(* is online, which raises an AttributeError: no push is made, and the     *)
(* answer is the empty list that writeback starts with.                    *)
(***************************************************************************)
ServerStatusChange(c) ==
  LET told == {f \in Followers(rows[Home[c.to]], c.from) : Online(f) /\ Home[f] = Home[c.to]}
  IN  /\ c.op = "status" /\ c.reply = "none"
      /\ Answer(c, IF told = {} THEN "success" ELSE "nothing")
      /\ UNCHANGED <<rows, stat, pushed, unsure, odd, ops, fails>>

(* Request c, which no other has crossed, ends what was unsure about its users. *)
Reconciles(c, kinds) == c.alone /\ c.op \in kinds

(* Mutant: the row of a friend that does not exist is kept. *)
ReturnsKeeps(c) ==
  /\ c.reply # "none"
  /\ calls' = calls \ {c}
  /\ pushed' = IF c.op = "status" /\ c.reply = "success"
               THEN Push(c.later, <<c.from, c.new>>) ELSE pushed
  /\ unsure' = IF Reconciles(c, {"register", "unregister"}) THEN unsure \ {{c.from, c.to}} ELSE unsure
  /\ odd' = IF Reconciles(c, {"unregister"}) THEN odd \ {{c.from, c.to}} ELSE odd
  /\ UNCHANGED <<rows, stat, ops, fails>>

(***************************************************************************)
(* The other server has answered: registerFriend takes its row back if the *)
(* friend does not exist; statusChanged tells the friends that are left,   *)
(* unless it got no answer to look at.                                     *)
(***************************************************************************)
Returns(c) ==
  /\ c.reply # "none"
  /\ calls' = calls \ {c}
  /\ rows' = IF c.op = "register" /\ c.reply = "user not found"
             THEN [rows EXCEPT ![Home[c.from]] = Delete(@, c.from, c.to)] ELSE rows
  /\ pushed' = IF c.op = "status" /\ c.reply = "success"
               THEN Push(c.later, <<c.from, c.new>>) ELSE pushed
  /\ unsure' = IF Reconciles(c, {"register", "unregister"}) THEN unsure \ {{c.from, c.to}} ELSE unsure
  /\ odd' = IF Reconciles(c, {"unregister"}) THEN odd \ {{c.from, c.to}} ELSE odd
  /\ UNCHANGED <<stat, ops, fails>>

(***************************************************************************)
(* The call fails: writeback answers FRIEND_SERVER_DOWN, and that is all.  *)
(* What was sent may still be on its way to the other server.              *)
(***************************************************************************)
CallFails(c) ==
  /\ ~c.lost
  /\ fails < MaxFails
  /\ fails' = fails + 1
  /\ \/ calls' = calls \ {c}
     \/ c.reply = "none" /\ calls' = (calls \ {c}) \union {[c EXCEPT !.lost = TRUE]}
  /\ unsure' = IF c.op \in {"register", "unregister"} THEN unsure \union {{c.from, c.to}} ELSE unsure
  /\ odd' = IF c.op # "status" THEN odd \union {{c.from, c.to}} ELSE odd
  /\ UNCHANGED <<rows, stat, pushed, ops>>

-----------------------------------------------------------------------------
Next ==
  \/ \E u, f \in Name : RegisterFriend(u, f) \/ UnregisterFriend(u, f) \/ AcceptFriend(u, f)
  \/ \E u \in Name : DoAuth(u) \/ StatusChanged(u, "busy")
  \/ \E c \in calls : ServerSendFriend(c) \/ ServerSendUnfriend(c) \/ ServerAcceptFriend(c)
  \/ \E c \in calls : ServerStatusChange(c) \/ Returns(c) \/ CallFails(c)

Spec == Init /\ [][Next]_vars

-----------------------------------------------------------------------------
(***************************************************************************)
(* The shape of the tables: a server has rows of its own users only, and   *)
(* never two of one pair, in whichever order two servers register the same *)
(* friendship: "make sure the friend request doesn't already exist before  *)
(* inserting" (motmot.py:196).                                             *)
(***************************************************************************)
TypeOK ==
  /\ \A d \in Domain : \A u, f \in Name :
       /\ rows[d][<<u, f>>] \in {<<>>, <<FALSE>>, <<TRUE>>}
       /\ Has(rows[d], u, f) => Home[u] = d
  /\ \A u \in Name : Online(u) => u \in Registered
  /\ ops \in 0 .. MaxOps /\ fails \in 0 .. MaxFails

(* Nobody waits for the answer to a request of these kinds about u and f. *)
Settled(u, f, kinds) == \A c \in About(u, f) : c.op \in kinds => c.lost

(***************************************************************************)
(* "since friends are bi-directional" (motmot.py:244): when neither user   *)
(* waits for a request about the other, their servers agree that they are  *)
(* friends or that they are not.  A register and an unregister that cross, *)
(* of one user or both, or one that fails, may leave them at odds; the     *)
(* next of either that is answered and that no other has crossed, a late   *)
(* one included, makes them agree again.  An accept does not matter.       *)
(***************************************************************************)
Bidirectional ==
  \A u, f \in Name :
    Settled(u, f, {"register", "unregister"}) /\ {u, f} \notin unsure =>
      (Has(rows[Home[u]], u, f) <=> Has(rows[Home[f]], f, u))

(***************************************************************************)
(* They also agree on whether the friendship is accepted, unless a request *)
(* has failed or a register was crossed by an accept or an unregister      *)
(* since the last unregister that was answered and that no register has    *)
(* crossed.                                                                *)
(***************************************************************************)
AcceptedByBoth ==
  \A u, f \in Name :
    Settled(u, f, {"register", "unregister", "accept"}) /\ {u, f} \notin odd =>
      rows[Home[u]][<<u, f>>] = rows[Home[f]][<<f, u>>]

(***************************************************************************)
(* motmot.py:244 as it stands: whenever no request about two users is      *)
(* under way and none has failed, their servers agree.                     *)
(***************************************************************************)
AlwaysBidirectional ==
  \A u, f \in Name :
    fails = 0 /\ About(u, f) = {} =>
      (Has(rows[Home[u]], u, f) <=> Has(rows[Home[f]], f, u))

(***************************************************************************)
(* "if user is online, push the update out" (motmot.py:517): when another  *)
(* server has answered, the friends there that are online know.            *)
(***************************************************************************)
StatusReachesFriends ==
  \A c \in calls : c.op = "status" /\ c.reply # "none" =>
    \A f \in Followers(rows[Home[c.to]], c.from) :
      Online(f) => <<c.from, c.new>> \in pushed[f]

=============================================================================
