---------------------------- MODULE DiscoveryProofs ----------------------------
(***************************************************************************)
(* Proofs about Discovery, for every set of names and domains, every bound *)
(* and whichever calls between servers fail, are late or cross: the shape  *)
(* of the tables, and the agreement of the two servers that have a row for *)
(* a pair of users.                                                        *)
(***************************************************************************)
EXTENDS Discovery, TLAPS

(* A row of friends: absent, invited, accepted. *)
Rows == {<<>>, <<FALSE>>, <<TRUE>>}

(* What the server of u has about u and f. *)
RowOf(u, f) == rows[Home[u]][<<u, f>>]

(* What acceptFriend makes of a row. *)
Accepted(row) == [k \in DOMAIN row |-> TRUE]

(***************************************************************************)
(* The inductive invariant.  The tables hold rows of users of their domain *)
(* that exist; the calls lead to another domain.                           *)
(***************************************************************************)
Table == [Name \X Name -> Rows]

(* The tables are typed. *)
TablesInv ==
  /\ rows \in [Domain -> Table]
  /\ \A d \in Domain : \A u, f \in Name : Home[u] # d => rows[d][<<u, f>>] = <<>>
  /\ \A u, f \in Name : RowOf(u, f) # <<>> => u \in Registered
  /\ stat \in [Name -> {"unknown", "online", "busy"}]
  /\ \A u \in Name : Online(u) => u \in Registered
  /\ ops \in 0 .. MaxOps /\ fails \in 0 .. MaxFails

(* The calls to other servers. *)
Calls ==
  [id : Nat, op : {"register", "unregister", "accept", "status"}, from : Name, to : Name,
   new : {"unknown", "online", "busy"}, later : SUBSET Name,
   reply : {"none", "success", "user not found", "nothing"}, lost : BOOLEAN, alone : BOOLEAN]

(* What is under way is typed, and comes from a user that exists. *)
CallsInv ==
  /\ calls \subseteq Calls
  /\ \A c \in calls :
       /\ Home[c.from] # Home[c.to]
       /\ c.op # "status" => c.from \in Registered
       /\ c.lost => c.reply = "none"
       /\ c.op = "register" =>
            \/ c.reply = "none"
            \/ c.reply = "success" /\ c.to \in Registered
            \/ c.reply = "user not found" /\ c.to \notin Registered

(* Whether call c is about the friendship of u and f; whether it makes or ends it. *)
Changes(c, u, f) == c.op # "status" /\ {c.from, c.to} = {u, f}
Moves(c, u, f) == c.op \in {"register", "unregister"} /\ {c.from, c.to} = {u, f}

(***************************************************************************)
(* How far a call has got, as far as the servers agree that there is a row *)
(* at all: the first table has been changed when it is made, the second    *)
(* when it is answered.  A friend that does not exist has no row.          *)
(***************************************************************************)
HalfDone(c) ==
  /\ c.op = "register" /\ c.to \in Registered =>
       /\ RowOf(c.from, c.to) # <<>>
       /\ c.reply = "success" => RowOf(c.to, c.from) # <<>>
  /\ c.op = "unregister" =>
       /\ RowOf(c.from, c.to) = <<>>
       /\ c.reply # "none" => RowOf(c.to, c.from) = <<>>

(***************************************************************************)
(* A call that no other has crossed, and every call about a pair that is   *)
(* not unsure, has got as far as it says, and all that make or end this    *)
(* friendship do the same.                                                 *)
(***************************************************************************)
OneSide(u, f) ==
  \A c \in calls : Moves(c, u, f) /\ (c.alone \/ {u, f} \notin unsure) =>
    /\ HalfDone(c)
    /\ \A b \in calls : Moves(b, u, f) => b.op = c.op

(* Nobody waits for an answer: u has a row with f if f has one with u. *)
Agree(u, f) ==
  {u, f} \notin unsure /\ (\A c \in calls : Moves(c, u, f) => c.lost) =>
    (RowOf(u, f) = <<>> <=> RowOf(f, u) = <<>>)

(***************************************************************************)
(* About a pair that is not odd, no register is under way together with    *)
(* another request, and whoever has accepted has no invitation left.       *)
(***************************************************************************)
OneKind(u, f) ==
  {u, f} \notin odd =>
    \A c \in calls : Changes(c, u, f) =>
      /\ \A b \in calls : Changes(b, u, f) => (b.op = "register" <=> c.op = "register")
      /\ c.op = "accept" => RowOf(c.from, c.to) # <<FALSE>>

(* The row of f about u is behind that of u about f, by a call u waits for. *)
BehindBy(c, u, f) ==
  /\ c.from = u /\ c.to = f /\ ~c.lost
  /\ \/ c.op = "register" /\ c.reply # "success" /\ RowOf(u, f) = <<FALSE>> /\ RowOf(f, u) = <<>>
     \/ c.op = "accept" /\ c.reply = "none" /\ RowOf(u, f) = <<TRUE>> /\ RowOf(f, u) = <<FALSE>>
     \/ c.op = "unregister" /\ c.reply = "none" /\ RowOf(u, f) = <<>>
Behind(u, f) == \E c \in calls : BehindBy(c, u, f)

(* The rows of a pair that is not odd are the same, up to a call under way. *)
Shared(u, f) == {u, f} \notin odd => RowOf(u, f) = RowOf(f, u) \/ Behind(u, f) \/ Behind(f, u)

(* All that for one pair. *)
Pair(u, f) == OneSide(u, f) /\ Agree(u, f) /\ OneKind(u, f) /\ Shared(u, f)

-----------------------------------------------------------------------------
(* Two pairs of names are the same set if they are equal up to their order. *)
LEMMA SamePair ==
  ASSUME NEW a, NEW b, NEW u, NEW f
  PROVE  {a, b} = {u, f} <=> (a = u /\ b = f) \/ (a = f /\ b = u)
OBVIOUS

(* The rows of a table and what the queries of motmot.py make of them. *)
LEMMA RowFacts ==
  /\ <<>> \in Rows /\ <<FALSE>> \in Rows /\ <<TRUE>> \in Rows
  /\ <<FALSE>> # <<>> /\ <<TRUE>> # <<>> /\ <<TRUE>> # <<FALSE>>
  /\ Accepted(<<>>) = <<>> /\ Accepted(<<FALSE>>) = <<TRUE>> /\ Accepted(<<TRUE>>) = <<TRUE>>
<1>1. <<FALSE>>[1] = FALSE /\ <<TRUE>>[1] = TRUE /\ Len(<<>>) = 0 /\ Len(<<TRUE>>) = 1 /\ Len(<<FALSE>>) = 1
  OBVIOUS
<1>2. Accepted(<<>>) = <<>>
  BY DEF Accepted
<1>3. Accepted(<<FALSE>>) = <<TRUE>> /\ Accepted(<<TRUE>>) = <<TRUE>>
  <2>1. ASSUME NEW x PROVE <<x>> = [k \in 1 .. 1 |-> x]
    OBVIOUS
  <2>2. DOMAIN <<FALSE>> = 1 .. 1 /\ DOMAIN <<TRUE>> = 1 .. 1
    OBVIOUS
  <2>3. <<TRUE>> = [k \in 1 .. 1 |-> TRUE]
    BY <2>1, Zenon
  <2> QED BY <2>2, <2>3 DEF Accepted
<1> QED BY <1>1, <1>2, <1>3 DEF Rows

(* When a row is accepted. *)
LEMMA AcceptedRow ==
  ASSUME NEW row \in Rows
  PROVE  Accepted(row) \in Rows /\ (Accepted(row) = <<>> <=> row = <<>>)
BY RowFacts DEF Rows

(* INSERT OR IGNORE of an invitation. *)
Inserted(row) == IF row = <<>> THEN <<FALSE>> ELSE row

(* What a table has about v and g. *)
Cell(r, v, g) == r[<<v, g>>]

(* Table t differs from table s at most in the row of u and f, which is x. *)
Differs(t, s, u, f, x) ==
  \A v, g \in Name : Cell(t, v, g) = IF v = u /\ g = f THEN x ELSE Cell(s, v, g)

(* A query changes the row it names and no other. *)
LEMMA InsertCell ==
  ASSUME NEW r \in Table, NEW u \in Name, NEW f \in Name
  PROVE  Insert(r, u, f) \in Table /\ Differs(Insert(r, u, f), r, u, f, Inserted(Cell(r, u, f)))
<1>1. CASE Has(r, u, f)
  <2>1. Insert(r, u, f) = r /\ Inserted(Cell(r, u, f)) = Cell(r, u, f)
    BY <1>1 DEF Insert, Has, Inserted, Cell
  <2> QED BY <2>1 DEF Differs
<1>2. CASE ~Has(r, u, f)
  <2>1. Insert(r, u, f) = [r EXCEPT ![<<u, f>>] = <<FALSE>>] /\ Inserted(Cell(r, u, f)) = <<FALSE>>
    BY <1>2 DEF Insert, Has, Inserted, Cell
  <2>2. <<FALSE>> \in Rows
    BY RowFacts
  <2> QED BY <2>1, <2>2 DEF Table, Cell, Differs
<1> QED BY <1>1, <1>2

(* A deletion empties one row. *)
LEMMA DeleteCell ==
  ASSUME NEW r \in Table, NEW u \in Name, NEW f \in Name
  PROVE  Delete(r, u, f) \in Table /\ Differs(Delete(r, u, f), r, u, f, <<>>)
<1>1. <<>> \in Rows
  BY RowFacts
<1> QED BY <1>1 DEF Table, Cell, Delete, Differs

(* An acceptance sets one row. *)
LEMMA AcceptCell ==
  ASSUME NEW r \in Table, NEW u \in Name, NEW f \in Name
  PROVE  /\ SetAccepted(r, u, f) \in Table
         /\ Differs(SetAccepted(r, u, f), r, u, f, Accepted(Cell(r, u, f)))
<1>1. Cell(r, u, f) \in Rows
  BY DEF Cell, Table
<1>2. SetAccepted(r, u, f) = [r EXCEPT ![<<u, f>>] = Accepted(Cell(r, u, f))]
  BY DEF SetAccepted, Accepted, Cell
<1>3. Accepted(Cell(r, u, f)) \in Rows
  BY <1>1, AcceptedRow
<1> QED BY <1>2, <1>3 DEF Table, Cell, Differs

-----------------------------------------------------------------------------
(***************************************************************************)
(* A step that leaves x as the row of u about f, y as that of f about u,   *)
(* and every other row as it was.                                          *)
(***************************************************************************)
SetsRows(u, f, x, y) ==
  /\ rows' \in [Domain -> Table]
  /\ \A d \in Domain : \A v, g \in Name : Home[v] # d => rows'[d][<<v, g>>] = <<>>
  /\ RowOf(u, f)' = x /\ RowOf(f, u)' = y
  /\ \A v, g \in Name : {v, g} # {u, f} => RowOf(v, g)' = RowOf(v, g)

(* Such a step keeps the shape of the tables if only users that exist get rows. *)
LEMMA SetsRowsKeeps ==
  ASSUME TablesInv, NEW u \in Name, NEW f \in Name, NEW x, NEW y, SetsRows(u, f, x, y),
         x # <<>> => u \in Registered, y # <<>> => f \in Registered
  PROVE  /\ rows' \in [Domain -> Table]
         /\ \A d \in Domain : \A v, g \in Name : Home[v] # d => rows'[d][<<v, g>>] = <<>>
         /\ \A v, g \in Name : RowOf(v, g)' # <<>> => v \in Registered
<1>1. ASSUME NEW v \in Name, NEW g \in Name, RowOf(v, g)' # <<>> PROVE v \in Registered
  <2>1. CASE {v, g} # {u, f}
    BY <1>1, <2>1 DEF SetsRows, TablesInv
  <2>2. CASE {v, g} = {u, f}
    <3>1. (v = u /\ g = f) \/ (v = f /\ g = u)
      BY <2>2, SamePair
    <3> QED BY <1>1, <3>1 DEF SetsRows
  <2> QED BY <2>1, <2>2
<1> QED BY <1>1 DEF SetsRows

(* Rows that no step has touched. *)
LEMMA SameRows ==
  ASSUME TablesInv, UNCHANGED rows, NEW u \in Name, NEW f \in Name
  PROVE  SetsRows(u, f, RowOf(u, f), RowOf(f, u))
BY DEF SetsRows, RowOf, TablesInv

(* A changed table is a table. *)
LEMMA NewTable ==
  ASSUME TablesInv, NEW d \in Domain, NEW t \in Table, rows' = [rows EXCEPT ![d] = t],
         \A v, g \in Name : Home[v] # d => Cell(t, v, g) = <<>>
  PROVE  /\ rows' \in [Domain -> Table]
         /\ \A e \in Domain : \A v, g \in Name : Home[v] # e => rows'[e][<<v, g>>] = <<>>
         /\ \A v, g \in Name :
              RowOf(v, g)' = IF Home[v] = d THEN Cell(t, v, g) ELSE RowOf(v, g)
<1>1. rows' \in [Domain -> Table] /\ rows'[d] = t /\ \A e \in Domain : e # d => rows'[e] = rows[e]
  BY DEF TablesInv
<1>2. \A v \in Name : Home[v] \in Domain
  BY HomeAssumption
<1>3. \A v, g \in Name : RowOf(v, g)' = IF Home[v] = d THEN Cell(t, v, g) ELSE RowOf(v, g)
  BY <1>1, <1>2 DEF RowOf, Cell
<1> QED BY <1>1, <1>3 DEF TablesInv, Cell

(* The tables a query is run on. *)
LEMMA TableOf ==
  ASSUME TablesInv, NEW u \in Name
  PROVE  /\ Home[u] \in Domain /\ rows[Home[u]] \in Table
         /\ \A v, g \in Name :
              Cell(rows[Home[u]], v, g) = IF Home[v] = Home[u] THEN RowOf(v, g) ELSE <<>>
         /\ \A g \in Name : RowOf(u, g) \in Rows
<1>1. Home[u] \in Domain
  BY HomeAssumption
<1>2. rows[Home[u]] \in Table
  BY <1>1 DEF TablesInv
<1> QED BY <1>1, <1>2 DEF TablesInv, RowOf, Table, Cell

(* The table of server d becomes t. *)
Replaces(d, t) == rows' = [rows EXCEPT ![d] = t]

(***************************************************************************)
(* A step that changes the row of u about f in the table of u's domain,    *)
(* where f is of another domain or its row about u is changed as well,     *)
(* changes no others.                                                      *)
(***************************************************************************)
LEMMA ChangeTable ==
  ASSUME TablesInv, NEW u \in Name, NEW f \in Name, NEW t \in Table, NEW x, NEW y,
         u # f, Replaces(Home[u], t),
         Cell(t, u, f) = x,
         Home[f] = Home[u] => Cell(t, f, u) = y,
         Home[f] # Home[u] => Cell(t, f, u) = <<>> /\ y = RowOf(f, u),
         \A v, g \in Name : {v, g} # {u, f} => Cell(t, v, g) = Cell(rows[Home[u]], v, g)
  PROVE  SetsRows(u, f, x, y)
<1>1. /\ Home[u] \in Domain
      /\ \A v, g \in Name :
           Cell(rows[Home[u]], v, g) = IF Home[v] = Home[u] THEN RowOf(v, g) ELSE <<>>
  BY TableOf
<1>2. ASSUME NEW v \in Name, NEW g \in Name, Home[v] # Home[u] PROVE Cell(t, v, g) = <<>>
  <2>1. CASE {v, g} # {u, f}
    BY <1>1, <1>2, <2>1
  <2>2. CASE {v, g} = {u, f}
    <3>1. v = f /\ g = u
      BY <1>2, <2>2, SamePair
    <3> QED BY <1>2, <3>1
  <2> QED BY <2>1, <2>2
<1>3. /\ rows' \in [Domain -> Table]
      /\ \A e \in Domain : \A v, g \in Name : Home[v] # e => rows'[e][<<v, g>>] = <<>>
      /\ \A v, g \in Name : RowOf(v, g)' = IF Home[v] = Home[u] THEN Cell(t, v, g) ELSE RowOf(v, g)
  BY <1>1, <1>2, NewTable DEF Replaces
<1>4. ASSUME NEW v \in Name, NEW g \in Name, {v, g} # {u, f} PROVE RowOf(v, g)' = RowOf(v, g)
  BY <1>1, <1>3, <1>4
<1> QED BY <1>3, <1>4 DEF SetsRows

(* One row is changed. *)
LEMMA OneCell ==
  ASSUME TablesInv, NEW u \in Name, NEW f \in Name, NEW t \in Table, NEW x,
         Home[f] # Home[u], Replaces(Home[u], t), Differs(t, rows[Home[u]], u, f, x)
  PROVE  SetsRows(u, f, x, RowOf(f, u))
<1>1. u # f
  OBVIOUS
<1>2. \A v, g \in Name :
        Cell(rows[Home[u]], v, g) = IF Home[v] = Home[u] THEN RowOf(v, g) ELSE <<>>
  BY TableOf
<1>3. \A v, g \in Name : {v, g} # {u, f} => v # u \/ g # f
  OBVIOUS
<1>4. /\ Cell(t, u, f) = x /\ Cell(t, f, u) = <<>>
      /\ \A v, g \in Name : {v, g} # {u, f} => Cell(t, v, g) = Cell(rows[Home[u]], v, g)
  BY <1>1, <1>2, <1>3 DEF Differs
<1> QED BY <1>1, <1>4, ChangeTable

(* Two rows are changed. *)
LEMMA TwoCells ==
  ASSUME TablesInv, NEW u \in Name, NEW f \in Name, NEW r \in Table, NEW t \in Table, NEW x, NEW y,
         u # f, Replaces(Home[u], t),
         Differs(r, rows[Home[u]], u, f, x), Differs(t, r, f, u, y),
         Home[f] # Home[u] => y = <<>>
  PROVE  SetsRows(u, f, x, IF Home[f] = Home[u] THEN y ELSE RowOf(f, u))
<1>1. \A v, g \in Name : {v, g} # {u, f} => (v # u \/ g # f) /\ (v # f \/ g # u)
  OBVIOUS
<1>2. /\ Cell(t, u, f) = x /\ Cell(t, f, u) = y
      /\ \A v, g \in Name : {v, g} # {u, f} => Cell(t, v, g) = Cell(rows[Home[u]], v, g)
  BY <1>1 DEF Differs
<1> QED BY <1>2, ChangeTable

-----------------------------------------------------------------------------
(* What registerFriend does to the tables: both rows if both users are ours. *)
LEMMA RegisterRows ==
  ASSUME TablesInv, NEW u \in Name, NEW f \in Name, RegisterFriend(u, f)
  PROVE  SetsRows(u, f, Inserted(RowOf(u, f)),
                  IF Home[f] = Home[u] THEN Inserted(RowOf(f, u)) ELSE RowOf(f, u))
<1>1. PICK t : t = rows[Home[u]]
  OBVIOUS
<1>2. PICK r : r = Insert(t, u, f)
  OBVIOUS
<1>3. u # f /\ t \in Table /\ Cell(t, u, f) = RowOf(u, f)
  BY <1>1, TableOf DEF RegisterFriend, Request
<1>4. r \in Table /\ Differs(r, t, u, f, Inserted(RowOf(u, f)))
  BY <1>2, <1>3, InsertCell
<1>5. CASE Home[f] # Home[u]
  <2>1. Replaces(Home[u], r)
    BY <1>1, <1>2, <1>5 DEF RegisterFriend, Replaces
  <2> QED BY <1>1, <1>4, <1>5, <2>1, OneCell
<1>6. CASE Home[f] = Home[u]
  <2>1. Insert(r, f, u) \in Table /\ Differs(Insert(r, f, u), r, f, u, Inserted(Cell(r, f, u)))
    BY <1>4, InsertCell
  <2>2. Cell(r, f, u) = RowOf(f, u)
    BY <1>1, <1>3, <1>4, <1>6, TableOf DEF Differs
  <2>3. Replaces(Home[u], Insert(r, f, u))
    BY <1>1, <1>2, <1>6 DEF RegisterFriend, Replaces
  <2> QED BY <1>1, <1>3, <1>4, <1>6, <2>1, <2>2, <2>3, TwoCells
<1> QED BY <1>5, <1>6

(* The two deletions of unregisterFriend, on the server of u. *)
LEMMA UnregisterRows ==
  ASSUME TablesInv, NEW u \in Name, NEW f \in Name, u # f,
         Replaces(Home[u], Delete(Delete(rows[Home[u]], u, f), f, u))
  PROVE  SetsRows(u, f, <<>>, IF Home[f] = Home[u] THEN <<>> ELSE RowOf(f, u))
<1>1. PICK t \in Table : t = rows[Home[u]]
  BY TableOf
<1>2. PICK r : r = Delete(t, u, f)
  OBVIOUS
<1>3. r \in Table /\ Differs(r, t, u, f, <<>>)
  BY <1>2, DeleteCell
<1>4. PICK q : q = Delete(r, f, u)
  OBVIOUS
<1>5. q \in Table /\ Differs(q, r, f, u, <<>>)
  BY <1>3, <1>4, DeleteCell
<1>6. Replaces(Home[u], q)
  BY <1>1, <1>2, <1>4
<1> QED BY <1>1, <1>3, <1>5, <1>6, TwoCells

(* The update of acceptFriend. *)
LEMMA AcceptRows ==
  ASSUME TablesInv, NEW u \in Name, NEW f \in Name, AcceptFriend(u, f)
  PROVE  SetsRows(u, f, Accepted(RowOf(u, f)),
                  IF Home[f] = Home[u] THEN Accepted(RowOf(f, u)) ELSE RowOf(f, u))
<1>1. PICK t : t = rows[Home[u]]
  OBVIOUS
<1>2. PICK r : r = SetAccepted(t, u, f)
  OBVIOUS
<1>3. u # f /\ t \in Table /\ Cell(t, u, f) = RowOf(u, f)
  BY <1>1, TableOf DEF AcceptFriend, Request
<1>4. r \in Table /\ Differs(r, t, u, f, Accepted(RowOf(u, f)))
  BY <1>2, <1>3, AcceptCell
<1>5. CASE Home[f] # Home[u]
  <2>1. Replaces(Home[u], r)
    BY <1>1, <1>2, <1>5 DEF AcceptFriend, Replaces
  <2> QED BY <1>1, <1>4, <1>5, <2>1, OneCell
<1>6. CASE Home[f] = Home[u]
  <2>1. SetAccepted(r, f, u) \in Table /\ Differs(SetAccepted(r, f, u), r, f, u, Accepted(Cell(r, f, u)))
    BY <1>4, AcceptCell
  <2>2. Cell(r, f, u) = RowOf(f, u)
    BY <1>1, <1>3, <1>4, <1>6, TableOf DEF Differs
  <2>3. Replaces(Home[u], SetAccepted(r, f, u))
    BY <1>1, <1>2, <1>6 DEF AcceptFriend, Replaces
  <2> QED BY <1>1, <1>3, <1>4, <1>6, <2>1, <2>2, <2>3, TwoCells
<1> QED BY <1>5, <1>6

(***************************************************************************)
(* The answers of another server, and what registerFriend does with them.  *)
(***************************************************************************)
LEMMA AnswerRows ==
  ASSUME TablesInv, CallsInv, NEW c \in calls
  PROVE  /\ ServerSendFriend(c) =>
              SetsRows(c.to, c.from,
                       IF c.to \in Registered THEN Inserted(RowOf(c.to, c.from)) ELSE RowOf(c.to, c.from),
                       RowOf(c.from, c.to))
         /\ ServerSendUnfriend(c) => SetsRows(c.to, c.from, <<>>, RowOf(c.from, c.to))
         /\ ServerAcceptFriend(c) =>
              SetsRows(c.to, c.from,
                       IF c.to \in Registered THEN Accepted(RowOf(c.to, c.from)) ELSE RowOf(c.to, c.from),
                       RowOf(c.from, c.to))
         /\ Returns(c) =>
              SetsRows(c.from, c.to,
                       IF c.op = "register" /\ c.reply = "user not found" THEN <<>> ELSE RowOf(c.from, c.to),
                       RowOf(c.to, c.from))
<1>1. PICK u, f \in Name : u = c.from /\ f = c.to /\ Home[u] # Home[f] /\ u # f
  BY DEF CallsInv, Calls
<1>2. PICK t \in Table : t = rows[Home[f]] /\ Cell(t, f, u) = RowOf(f, u)
  BY TableOf
<1>3. PICK s \in Table : s = rows[Home[u]] /\ Cell(s, u, f) = RowOf(u, f)
  BY TableOf
<1>4. ASSUME ServerSendFriend(c)
      PROVE  SetsRows(f, u, IF f \in Registered THEN Inserted(RowOf(f, u)) ELSE RowOf(f, u), RowOf(u, f))
  <2>1. CASE f \notin Registered
    BY <1>1, <1>4, <2>1, SameRows DEF ServerSendFriend
  <2>2. CASE f \in Registered
    <3>1. PICK r : r = Insert(t, f, u)
      OBVIOUS
    <3>2. r \in Table /\ Differs(r, t, f, u, Inserted(RowOf(f, u)))
      BY <1>2, <3>1, InsertCell
    <3>3. Replaces(Home[f], r)
      BY <1>1, <1>2, <1>4, <2>2, <3>1 DEF ServerSendFriend, Replaces
    <3> QED BY <1>1, <1>2, <2>2, <3>2, <3>3, OneCell
  <2> QED BY <2>1, <2>2
<1>5. ASSUME ServerSendUnfriend(c) PROVE SetsRows(f, u, <<>>, RowOf(u, f))
  <2>1. Replaces(Home[f], Delete(Delete(rows[Home[f]], f, u), u, f))
    BY <1>1, <1>5 DEF ServerSendUnfriend, Replaces
  <2> QED BY <1>1, <2>1, UnregisterRows
<1>6. ASSUME ServerAcceptFriend(c)
      PROVE  SetsRows(f, u, IF f \in Registered THEN Accepted(RowOf(f, u)) ELSE RowOf(f, u), RowOf(u, f))
  <2>1. CASE f \notin Registered
    BY <1>1, <1>6, <2>1, SameRows DEF ServerAcceptFriend
  <2>2. CASE f \in Registered
    <3>1. PICK r : r = SetAccepted(t, f, u)
      OBVIOUS
    <3>2. r \in Table /\ Differs(r, t, f, u, Accepted(RowOf(f, u)))
      BY <1>2, <3>1, AcceptCell
    <3>3. Replaces(Home[f], r)
      BY <1>1, <1>2, <1>6, <2>2, <3>1 DEF ServerAcceptFriend, Replaces
    <3> QED BY <1>1, <1>2, <2>2, <3>2, <3>3, OneCell
  <2> QED BY <2>1, <2>2
<1>7. ASSUME Returns(c)
      PROVE  SetsRows(u, f, IF c.op = "register" /\ c.reply = "user not found" THEN <<>> ELSE RowOf(u, f),
                      RowOf(f, u))
  <2>1. CASE ~(c.op = "register" /\ c.reply = "user not found")
    BY <1>7, <2>1, SameRows DEF Returns
  <2>2. CASE c.op = "register" /\ c.reply = "user not found"
    <3>1. PICK r : r = Delete(s, u, f)
      OBVIOUS
    <3>2. r \in Table /\ Differs(r, s, u, f, <<>>)
      BY <3>1, DeleteCell
    <3>3. Replaces(Home[u], r)
      BY <1>1, <1>3, <1>7, <2>2, <3>1 DEF Returns, Replaces
    <3> QED BY <1>1, <1>3, <2>2, <3>2, <3>3, OneCell
  <2> QED BY <2>1, <2>2
<1> QED BY <1>1, <1>4, <1>5, <1>6, <1>7

-----------------------------------------------------------------------------
(***************************************************************************)
(* The shape of tables and calls: every action keeps it.                   *)
(***************************************************************************)
TypeInv == TablesInv /\ CallsInv

(* The types hold at first. *)
LEMMA InitTypeInv == Init => TypeInv
<1> SUFFICES ASSUME Init PROVE TypeInv
  OBVIOUS
<1>1. rows \in [Domain -> Table]
  BY RowFacts DEF Init, Table
<1>2. \A d \in Domain : \A u, f \in Name : rows[d][<<u, f>>] = <<>>
  BY DEF Init
<1>3. \A u, f \in Name : RowOf(u, f) = <<>>
  BY <1>2, HomeAssumption DEF RowOf
<1> QED BY <1>1, <1>2, <1>3, BoundsAssumption DEF Init, TypeInv, TablesInv, CallsInv, Online

(***************************************************************************)
(* What a request does to the calls: those that it crosses are no longer   *)
(* alone, the others stay as they are, and it adds its own.                *)
(***************************************************************************)
Same(b, c) == b.op = c.op /\ b.from = c.from /\ b.to = c.to /\ b.reply = c.reply /\ b.lost = c.lost

NewCall(n, op, u, f) ==
  /\ n \in Calls
  /\ n.op = op /\ n.from = u /\ n.to = f /\ n.reply = "none" /\ ~n.lost
  /\ n.alone <=> \A c \in calls : {c.from, c.to} = {u, f} => ~CrossesRow(c, op)
  /\ \A b \in calls' : b = n \/ \E c \in calls :
       /\ b \in Calls /\ Same(b, c)
       /\ b.alone <=> c.alone /\ ({c.from, c.to} = {u, f} => ~CrossesRow(c, op))
  /\ \A c \in calls : \E b \in calls' : Same(b, c)
  /\ \A b \in calls' : b = n \/ b \in calls \/ ({b.from, b.to} = {u, f} /\ CrossesRow(b, op))
  /\ \A c \in calls : c \in calls' \/ ({c.from, c.to} = {u, f} /\ CrossesRow(c, op))

LEMMA CallMade ==
  ASSUME TypeInv, NEW u \in Name, NEW f \in Name,
         NEW op \in {"register", "unregister", "accept", "status"},
         NEW new \in {"unknown", "online", "busy"}, NEW later \in SUBSET Name,
         Call(op, u, f, new, later)
  PROVE  \E n \in calls' : NewCall(n, op, u, f)
<1> DEFINE crossed == {c \in About(u, f) : CrossesRow(c, op)}
           was(c) == [c EXCEPT !.alone = @ /\ c \notin crossed]
           n == [id |-> ops, op |-> op, from |-> u, to |-> f, new |-> new, later |-> later,
                 reply |-> "none", lost |-> FALSE, alone |-> crossed = {}]
<1>1. calls' = {was(c) : c \in calls} \union {n}
  BY DEF Call
<1>2. n \in Calls
  BY BoundsAssumption DEF TypeInv, TablesInv, Calls
<1>3. ASSUME NEW c \in calls
      PROVE  /\ was(c) \in Calls /\ Same(was(c), c) /\ (was(c).alone <=> c.alone /\ c \notin crossed)
             /\ c \notin crossed => was(c) = c
  <2>1. c \in Calls
    BY DEF TypeInv, CallsInv
  <2>2. was(c) \in Calls /\ Same(was(c), c) /\ was(c).alone = (c.alone /\ c \notin crossed)
    BY <2>1 DEF Calls, Same
  <2>3. ASSUME c \notin crossed PROVE was(c) = c
    <3>1. (c.alone /\ c \notin crossed) = c.alone
      BY <2>1, <2>3 DEF Calls
    <3>2. was(c) = [c EXCEPT !.alone = c.alone]
      BY <3>1
    <3>3. [c EXCEPT !.alone = c.alone] = c
      BY <2>1 DEF Calls
    <3> QED BY <3>2, <3>3
  <2> QED BY <2>2, <2>3
<1>4. \A c \in calls : c \in crossed <=> {c.from, c.to} = {u, f} /\ CrossesRow(c, op)
  BY DEF About
<1>5. \A b, c : Same(b, c) => (CrossesRow(b, op) <=> CrossesRow(c, op))
  BY DEF Same, CrossesRow
<1>6. n.op = op /\ n.from = u /\ n.to = f /\ n.reply = "none" /\ ~n.lost /\ (n.alone <=> crossed = {})
  OBVIOUS
<1>7. crossed \subseteq calls
  BY DEF About
<1> HIDE DEF n, was, crossed
<1>8. n.alone <=> \A c \in calls : {c.from, c.to} = {u, f} => ~CrossesRow(c, op)
  BY <1>4, <1>6, <1>7
<1>9. ASSUME NEW b \in calls', b # n
      PROVE  \E c \in calls :
               /\ b \in Calls /\ Same(b, c)
               /\ b.alone <=> c.alone /\ ({c.from, c.to} = {u, f} => ~CrossesRow(c, op))
  <2>1. PICK c \in calls : b = was(c)
    BY <1>1, <1>9
  <2> QED BY <1>3, <1>4, <2>1
<1>10. ASSUME NEW c \in calls PROVE \E b \in calls' : Same(b, c)
  BY <1>1, <1>3
<1>11. ASSUME NEW b \in calls', b # n, b \notin calls PROVE {b.from, b.to} = {u, f} /\ CrossesRow(b, op)
  <2>1. PICK c \in calls : b = was(c)
    BY <1>1, <1>11
  <2>2. c \in crossed
    BY <1>3, <1>11, <2>1
  <2> QED BY <1>3, <1>4, <1>5, <2>1, <2>2 DEF Same
<1>12. ASSUME NEW c \in calls, c \notin calls' PROVE {c.from, c.to} = {u, f} /\ CrossesRow(c, op)
  <2>1. c \in crossed
    BY <1>1, <1>3, <1>12
  <2> QED BY <1>4, <1>5, <2>1
<1>13. n \in calls'
  BY <1>1
<1> QED BY <1>2, <1>6, <1>8, <1>9, <1>10, <1>11, <1>12, <1>13 DEF NewCall

(* A call that a request makes is a call, and so are those it crosses. *)
LEMMA CallTyped ==
  ASSUME TypeInv, NEW u \in Name, NEW f \in Name, Home[f] # Home[u],
         NEW op \in {"register", "unregister", "accept", "status"},
         op # "status" => u \in Registered,
         NEW new \in {"unknown", "online", "busy"}, NEW later \in SUBSET Name,
         Call(op, u, f, new, later)
  PROVE  CallsInv'
<1>1. PICK n \in calls' :
        /\ n \in Calls
        /\ n.op = op /\ n.from = u /\ n.to = f /\ n.reply = "none" /\ ~n.lost
        /\ \A b \in calls' : b = n \/ \E c \in calls : b \in Calls /\ Same(b, c)
  <2>1. PICK n \in calls' : NewCall(n, op, u, f)
    BY CallMade
  <2> QED BY <2>1 DEF NewCall
<1> DEFINE Typed(b) ==
             /\ b \in Calls
             /\ Home[b.from] # Home[b.to]
             /\ b.op # "status" => b.from \in Registered
             /\ b.lost => b.reply = "none"
             /\ b.op = "register" =>
                  \/ b.reply = "none"
                  \/ b.reply = "success" /\ b.to \in Registered
                  \/ b.reply = "user not found" /\ b.to \notin Registered
<1>2. ASSUME NEW b \in calls' PROVE Typed(b)
  <2>1. CASE b = n
    BY <1>1, <2>1
  <2>2. ASSUME NEW c \in calls, b \in Calls, Same(b, c) PROVE Typed(b)
    BY <2>2 DEF TypeInv, CallsInv, Same
  <2> QED BY <1>1, <2>1, <2>2
<1> QED BY <1>2 DEF CallsInv

(* An answer is typed. *)
LEMMA AnswerTyped ==
  ASSUME TypeInv, NEW c \in calls, NEW reply \in {"none", "success", "user not found", "nothing"},
         Answer(c, reply),
         c.op = "register" =>
           \/ reply = "success" /\ c.to \in Registered
           \/ reply = "user not found" /\ c.to \notin Registered
  PROVE  CallsInv'
<1> DEFINE a == [c EXCEPT !.reply = reply]
<1>1. c \in Calls
  BY DEF TypeInv, CallsInv
<1>2. a \in Calls /\ a.op = c.op /\ a.from = c.from /\ a.to = c.to /\ a.reply = reply /\ a.lost = c.lost
  BY <1>1 DEF Calls
<1>3. calls' = (calls \ {c}) \union (IF c.lost THEN {} ELSE {a})
  BY DEF Answer
<1> HIDE DEF a
<1>4. CASE c.lost
  <2>1. calls' \subseteq calls
    BY <1>3, <1>4
  <2> QED BY <2>1 DEF TypeInv, CallsInv
<1>5. CASE ~c.lost
  <2>1. \A b \in calls' : b \in calls \/ b = a
    BY <1>3, <1>5
  <2> QED BY <1>2, <1>5, <2>1 DEF TypeInv, CallsInv
<1> QED BY <1>4, <1>5

(* The call c that has failed, when the other server may still do it. *)
Lost(a, c) ==
  /\ a.op = c.op /\ a.from = c.from /\ a.to = c.to /\ a.reply = "none"
  /\ a.lost /\ (a.alone <=> c.alone)

(* A call that fails is gone or lost, and is typed. *)
LEMMA FailedCall ==
  ASSUME TypeInv, NEW c \in calls, CallFails(c)
  PROVE  \E a \in Calls : Lost(a, c) /\ calls' \in {calls \ {c}, (calls \ {c}) \union {a}}
<1> DEFINE a == [c EXCEPT !.reply = "none", !.lost = TRUE]
<1>1. c \in Calls
  BY DEF TypeInv, CallsInv
<1>2. a \in Calls /\ Lost(a, c)
  BY <1>1 DEF Calls, Lost
<1>3. ASSUME c.reply = "none" PROVE [c EXCEPT !.lost = TRUE] = a
  BY <1>1, <1>3 DEF Calls
<1>4. calls' = calls \ {c} \/ (c.reply = "none" /\ calls' = (calls \ {c}) \union {[c EXCEPT !.lost = TRUE]})
  BY DEF CallFails
<1> HIDE DEF a
<1> QED BY <1>2, <1>3, <1>4

(* A request is typed. *)
LEMMA RequestTyped ==
  ASSUME TypeInv, NEW op, NEW u \in Name, NEW f \in Name, Request(op, u, f),
         NEW x, NEW y, SetsRows(u, f, x, y),
         y # <<>> => y = RowOf(f, u) \/ Home[f] = Home[u]
  PROVE  TablesInv'
<1>1. u \in Registered /\ (y # <<>> => f \in Registered)
  BY DEF Request, TypeInv, TablesInv
<1>2. /\ rows' \in [Domain -> Table]
      /\ \A d \in Domain : \A v, g \in Name : Home[v] # d => rows'[d][<<v, g>>] = <<>>
      /\ \A v, g \in Name : RowOf(v, g)' # <<>> => v \in Registered
  BY <1>1, SetsRowsKeeps DEF TypeInv
<1>3. ops' \in 0 .. MaxOps /\ fails' \in 0 .. MaxFails
  BY BoundsAssumption DEF Request, TypeInv, TablesInv
<1> QED BY <1>2, <1>3 DEF Request, TypeInv, TablesInv, Online

(* Every step keeps the types. *)
LEMMA NextTypeInv == TypeInv /\ [Next]_vars => TypeInv'
<1> SUFFICES ASSUME TypeInv, [Next]_vars PROVE TypeInv'
  OBVIOUS
<1> USE DEF TypeInv
<1>1. ASSUME NEW u \in Name, NEW f \in Name, RegisterFriend(u, f) PROVE TypeInv'
  <2>1. TablesInv'
    BY <1>1, RegisterRows, RequestTyped DEF RegisterFriend
  <2>2. CASE Home[f] # Home[u]
    <3>1. /\ Call("register", u, f, stat[u], {}) /\ stat[u] \in {"unknown", "online", "busy"}
          /\ u \in Registered
      BY <1>1, <2>2 DEF RegisterFriend, Request, TablesInv
    <3> QED BY <2>1, <2>2, <3>1, CallTyped
  <2>3. CASE Home[f] = Home[u]
    BY <1>1, <2>1, <2>3 DEF RegisterFriend, CallsInv
  <2> QED BY <2>2, <2>3
<1>2. ASSUME NEW u \in Name, NEW f \in Name, UnregisterFriend(u, f) PROVE TypeInv'
  <2>1. TablesInv'
    <3>1. u # f /\ Replaces(Home[u], Delete(Delete(rows[Home[u]], u, f), f, u))
      BY <1>2 DEF UnregisterFriend, Request, Replaces
    <3>2. SetsRows(u, f, <<>>, IF Home[f] = Home[u] THEN <<>> ELSE RowOf(f, u))
      BY <3>1, UnregisterRows
    <3> QED BY <1>2, <3>2, RequestTyped DEF UnregisterFriend
  <2>2. CASE Home[f] # Home[u]
    <3>1. /\ Call("unregister", u, f, stat[u], {}) /\ stat[u] \in {"unknown", "online", "busy"}
          /\ u \in Registered
      BY <1>2, <2>2 DEF UnregisterFriend, Request, TablesInv
    <3> QED BY <2>1, <2>2, <3>1, CallTyped
  <2>3. CASE Home[f] = Home[u]
    BY <1>2, <2>1, <2>3 DEF UnregisterFriend, CallsInv
  <2> QED BY <2>2, <2>3
<1>3. ASSUME NEW u \in Name, NEW f \in Name, AcceptFriend(u, f) PROVE TypeInv'
  <2>1. TablesInv'
    BY <1>3, AcceptRows, RequestTyped DEF AcceptFriend
  <2>2. CASE Home[f] # Home[u]
    <3>1. /\ Call("accept", u, f, stat[u], {}) /\ stat[u] \in {"unknown", "online", "busy"}
          /\ u \in Registered
      BY <1>3, <2>2 DEF AcceptFriend, Request, TablesInv
    <3> QED BY <2>1, <2>2, <3>1, CallTyped
  <2>3. CASE Home[f] = Home[u]
    BY <1>3, <2>1, <2>3 DEF AcceptFriend, CallsInv
  <2> QED BY <2>2, <2>3
<1>4. ASSUME NEW u \in Name, NEW new \in {"online", "busy"}, u \in Registered, TellFriends(u, new)
      PROVE  TypeInv'
  <2>1. TablesInv'
    <3>1. rows' = rows /\ stat' = [stat EXCEPT ![u] = new] /\ ops' \in 0 .. MaxOps /\ fails' = fails
      BY <1>4, BoundsAssumption DEF TellFriends, TablesInv
    <3>2. \A v, g \in Name : RowOf(v, g)' = RowOf(v, g)
      BY <3>1 DEF RowOf
    <3> QED BY <1>4, <3>1, <3>2 DEF TablesInv, Online
  <2>2. CASE UNCHANGED calls
    BY <2>1, <2>2 DEF CallsInv
  <2>3. ASSUME NEW f \in Name, NEW later \in SUBSET Name, Home[f] # Home[u],
               Call("status", u, f, new, later)
        PROVE  TypeInv'
    BY <2>1, <2>3, CallTyped
  <2>4. UNCHANGED calls \/ \E f \in Name, later \in SUBSET Name :
          Home[f] # Home[u] /\ Call("status", u, f, new, later)
    <3> DEFINE friends == AcceptedBy(rows[Home[u]], u)
               local == {f \in friends : Home[f] = Home[u]}
    <3>1. friends \subseteq Name
      BY DEF AcceptedBy
    <3>2. CASE local = friends
      BY <1>4, <3>2 DEF TellFriends
    <3>3. CASE local # friends
      <4>1. PICK f \in friends \ local, before \in SUBSET local : Call("status", u, f, new, local \ before)
        BY <1>4, <3>3 DEF TellFriends
      <4>2. f \in Name /\ Home[f] # Home[u] /\ local \ before \in SUBSET Name
        BY <3>1
      <4> QED BY <4>1, <4>2
    <3> QED BY <3>2, <3>3
  <2> QED BY <2>2, <2>3, <2>4
<1>5. ASSUME NEW u \in Name, DoAuth(u) PROVE TypeInv'
  BY <1>4, <1>5 DEF DoAuth
<1>6. ASSUME NEW u \in Name, StatusChanged(u, "busy") PROVE TypeInv'
  BY <1>4, <1>6 DEF StatusChanged, TablesInv
<1>7. ASSUME NEW c \in calls, NEW x, NEW y, SetsRows(c.to, c.from, x, y),
             x # <<>> => c.to \in Registered, y = RowOf(c.from, c.to),
             UNCHANGED <<stat, ops, fails>>
      PROVE  TablesInv'
  <2>1. c.from \in Name /\ c.to \in Name
    BY DEF CallsInv, Calls
  <2>2. y # <<>> => c.from \in Registered
    BY <1>7, <2>1 DEF TablesInv
  <2>3. /\ rows' \in [Domain -> Table]
        /\ \A d \in Domain : \A v, g \in Name : Home[v] # d => rows'[d][<<v, g>>] = <<>>
        /\ \A v, g \in Name : RowOf(v, g)' # <<>> => v \in Registered
    BY <1>7, <2>1, <2>2, SetsRowsKeeps
  <2> QED BY <1>7, <2>3 DEF TablesInv, Online
<1>8. ASSUME NEW c \in calls PROVE RowOf(c.to, c.from) # <<>> => c.to \in Registered
  <2>1. c.from \in Name /\ c.to \in Name
    BY DEF CallsInv, Calls
  <2> QED BY <2>1 DEF TablesInv
<1>9. ASSUME NEW c \in calls, ServerSendFriend(c) PROVE TypeInv'
  <2>1. TablesInv'
    BY <1>7, <1>8, <1>9, AnswerRows DEF ServerSendFriend
  <2>2. CallsInv'
    BY <1>9, AnswerTyped DEF ServerSendFriend
  <2> QED BY <2>1, <2>2
<1>10. ASSUME NEW c \in calls, ServerSendUnfriend(c) PROVE TypeInv'
  <2>1. TablesInv'
    BY <1>7, <1>10, AnswerRows DEF ServerSendUnfriend
  <2>2. CallsInv'
    BY <1>10, AnswerTyped DEF ServerSendUnfriend
  <2> QED BY <2>1, <2>2
<1>11. ASSUME NEW c \in calls, ServerAcceptFriend(c) PROVE TypeInv'
  <2>1. TablesInv'
    BY <1>7, <1>8, <1>11, AnswerRows DEF ServerAcceptFriend
  <2>2. CallsInv'
    BY <1>11, AnswerTyped DEF ServerAcceptFriend
  <2> QED BY <2>1, <2>2
<1>12. ASSUME NEW c \in calls, ServerStatusChange(c) PROVE TypeInv'
  <2>1. /\ UNCHANGED <<rows, stat, ops, fails>> /\ c.op = "status"
        /\ \E reply \in {"success", "nothing"} : Answer(c, reply)
    BY <1>12 DEF ServerStatusChange
  <2>2. TablesInv'
    BY <2>1 DEF TablesInv, Online, RowOf
  <2>3. CallsInv'
    BY <2>1, AnswerTyped
  <2> QED BY <2>2, <2>3
<1>13. ASSUME NEW c \in calls, Returns(c) PROVE TypeInv'
  <2>1. c.from \in Name /\ c.to \in Name
    BY DEF CallsInv, Calls
  <2>2. PICK x \in {<<>>, RowOf(c.from, c.to)} : SetsRows(c.from, c.to, x, RowOf(c.to, c.from))
    BY <1>13, AnswerRows
  <2>3. (x # <<>> => c.from \in Registered) /\ (RowOf(c.to, c.from) # <<>> => c.to \in Registered)
    BY <2>1 DEF TablesInv
  <2>4. /\ rows' \in [Domain -> Table]
        /\ \A d \in Domain : \A v, g \in Name : Home[v] # d => rows'[d][<<v, g>>] = <<>>
        /\ \A v, g \in Name : RowOf(v, g)' # <<>> => v \in Registered
    BY <2>1, <2>2, <2>3, SetsRowsKeeps
  <2> QED BY <1>13, <2>4 DEF Returns, TablesInv, CallsInv, Online
<1>14. ASSUME NEW c \in calls, CallFails(c) PROVE TypeInv'
  <2>1. fails' \in 0 .. MaxFails
    BY <1>14, BoundsAssumption DEF CallFails, TablesInv
  <2>2. TablesInv'
    BY <1>14, <2>1 DEF CallFails, TablesInv, Online, RowOf
  <2>3. PICK a \in Calls : Lost(a, c) /\ calls' \in {calls \ {c}, (calls \ {c}) \union {a}}
    BY <1>14, FailedCall
  <2>4. \A b \in calls' : b \in calls \/ b = a
    BY <2>3
  <2> QED BY <1>14, <2>2, <2>3, <2>4 DEF Lost, CallsInv
<1>15. ASSUME UNCHANGED vars PROVE TypeInv'
  BY <1>15 DEF vars, TablesInv, CallsInv, Online, RowOf
<1> QED BY <1>1, <1>2, <1>3, <1>5, <1>6, <1>9, <1>10, <1>11, <1>12, <1>13, <1>14, <1>15 DEF Next

(***************************************************************************)
(* The tables keep their shape: a server has rows of its own users only    *)
(* and never two of one pair, whatever requests overlap and whichever calls*)
(* fail.                                                                   *)
(***************************************************************************)
THEOREM TypeCorrect == Spec => []TypeOK
<1>1. TypeInv => TypeOK
  <2> SUFFICES ASSUME TypeInv PROVE TypeOK
    OBVIOUS
  <2>1. ASSUME NEW d \in Domain, NEW u \in Name, NEW f \in Name
        PROVE  rows[d][<<u, f>>] \in Rows /\ (Has(rows[d], u, f) => Home[u] = d)
    BY DEF TypeInv, TablesInv, Table, Has
  <2> QED BY <2>1 DEF TypeInv, TablesInv, TypeOK, Rows
<1> QED BY <1>1, InitTypeInv, NextTypeInv, PTL DEF Spec

-----------------------------------------------------------------------------
(***************************************************************************)
(* The agreement of two servers.                                           *)
(***************************************************************************)
PairInv == unsure \subseteq odd /\ \A u, f \in Name : Pair(u, f)

(* The calls about two users: from the one to the other, or back. *)
LEMMA BetweenThem ==
  ASSUME NEW u, NEW f, NEW c
  PROVE  /\ Changes(c, u, f) <=>
              c.op # "status" /\ ((c.from = u /\ c.to = f) \/ (c.from = f /\ c.to = u))
         /\ Moves(c, u, f) <=> Changes(c, u, f) /\ c.op \in {"register", "unregister"}
BY SamePair DEF Changes, Moves

(* A pair has no order. *)
LEMMA PairTurns ==
  ASSUME NEW u, NEW f, Pair(u, f) PROVE Pair(f, u)
<1>1. {f, u} = {u, f}
  OBVIOUS
<1>2. \A c : (Changes(c, f, u) <=> Changes(c, u, f)) /\ (Moves(c, f, u) <=> Moves(c, u, f))
  BY <1>1 DEF Changes, Moves
<1>3. OneSide(f, u)
  BY <1>1, <1>2 DEF Pair, OneSide
<1>4. Agree(f, u)
  BY <1>1, <1>2 DEF Pair, Agree
<1>5. OneKind(f, u)
  BY <1>1, <1>2 DEF Pair, OneKind
<1>6. Shared(f, u)
  BY <1>1 DEF Pair, Shared
<1> QED BY <1>3, <1>4, <1>5, <1>6 DEF Pair

(* The calls and marks of the pair v, g are as they were. *)
Untouched(v, g) ==
  /\ \A c \in calls' : Changes(c, v, g) => c \in calls
  /\ \A c \in calls : Changes(c, v, g) => c \in calls'
  /\ {v, g} \in unsure' <=> {v, g} \in unsure
  /\ {v, g} \in odd' <=> {v, g} \in odd

(* A step that leaves its rows alone as well keeps what is known of a pair. *)
LEMMA OtherPair ==
  ASSUME NEW v, NEW g, Untouched(v, g), Pair(v, g),
         RowOf(v, g)' = RowOf(v, g), RowOf(g, v)' = RowOf(g, v)
  PROVE  Pair(v, g)'
<1>1. ASSUME NEW c PROVE /\ Changes(c, v, g)' <=> Changes(c, v, g)
                         /\ Moves(c, v, g)' <=> Moves(c, v, g)
                         /\ Moves(c, v, g) => Changes(c, v, g)
                         /\ BehindBy(c, v, g)' <=> BehindBy(c, v, g)
                         /\ BehindBy(c, g, v)' <=> BehindBy(c, g, v)
                         /\ BehindBy(c, v, g) \/ BehindBy(c, g, v) => Changes(c, v, g)
  BY DEF Changes, Moves, BehindBy
<1>2. ASSUME NEW c, Changes(c, v, g)
      PROVE  /\ RowOf(c.from, c.to)' = RowOf(c.from, c.to)
             /\ HalfDone(c)' <=> HalfDone(c)
  <2>1. RowOf(c.from, c.to)' = RowOf(c.from, c.to) /\ RowOf(c.to, c.from)' = RowOf(c.to, c.from)
    BY <1>2, BetweenThem
  <2> QED BY <2>1 DEF HalfDone
<1>3. OneSide(v, g)'
  BY <1>1, <1>2 DEF Pair, OneSide, Untouched
<1>4. Agree(v, g)'
  BY <1>1 DEF Pair, Agree, Untouched
<1>5. OneKind(v, g)'
  BY <1>1, <1>2 DEF Pair, OneKind, Untouched
<1>6. Shared(v, g)'
  <2>1. Behind(v, g) => Behind(v, g)'
    BY <1>1 DEF Behind, Untouched
  <2>2. Behind(g, v) => Behind(g, v)'
    BY <1>1 DEF Behind, Untouched
  <2> QED BY <2>1, <2>2 DEF Pair, Shared, Untouched
<1> QED BY <1>3, <1>4, <1>5, <1>6 DEF Pair

(***************************************************************************)
(* What a step about u and f has to show to keep the invariant: that no    *)
(* other pair is concerned, and that theirs is kept.                       *)
(***************************************************************************)
LEMMA PairStep ==
  ASSUME PairInv, unsure' \subseteq odd',
         NEW u \in Name, NEW f \in Name, NEW x, NEW y, SetsRows(u, f, x, y),
         \A v, g \in Name : {v, g} # {u, f} => Untouched(v, g),
         Pair(u, f)'
  PROVE  PairInv'
<1>1. ASSUME NEW v \in Name, NEW g \in Name PROVE Pair(v, g)'
  <2>1. CASE {v, g} # {u, f}
    <3>1. {g, v} # {u, f}
      BY <2>1
    <3>2. RowOf(v, g)' = RowOf(v, g) /\ RowOf(g, v)' = RowOf(g, v)
      BY <2>1, <3>1 DEF SetsRows
    <3>3. Pair(v, g)
      BY DEF PairInv
    <3> QED BY <2>1, <3>2, <3>3, OtherPair
  <2>2. CASE v = u /\ g = f
    BY <2>2
  <2>3. CASE v = f /\ g = u
    <3>1. Pair(f, u)'
      BY PairTurns, PTL
    <3> QED BY <2>3, <3>1
  <2> QED BY <2>1, <2>2, <2>3, SamePair
<1> QED BY <1>1 DEF PairInv

(* The pairing holds at first. *)
LEMMA InitPairInv == Init => PairInv
<1> SUFFICES ASSUME Init PROVE PairInv
  OBVIOUS
<1>1. calls = {} /\ \A d \in Domain : \A u, f \in Name : rows[d][<<u, f>>] = <<>>
  BY DEF Init
<1>2. \A u, f \in Name : RowOf(u, f) = <<>>
  BY <1>1, HomeAssumption DEF RowOf
<1>3. unsure = {} /\ odd = {}
  BY DEF Init
<1> QED BY <1>1, <1>2, <1>3 DEF PairInv, Pair, OneSide, Agree, OneKind, Shared

(* A pair of one domain has no calls. *)
LEMMA LocalPair ==
  ASSUME CallsInv', NEW u \in Name, NEW f \in Name, Home[f] = Home[u],
         {u, f} \notin unsure' => (RowOf(u, f)' = <<>> <=> RowOf(f, u)' = <<>>),
         {u, f} \notin odd' => RowOf(u, f)' = RowOf(f, u)'
  PROVE  Pair(u, f)'
<1>1. ASSUME NEW c \in calls' PROVE ~Changes(c, u, f)' /\ ~Moves(c, u, f)'
  <2>1. Home[c.from] # Home[c.to]
    BY DEF CallsInv
  <2> QED BY <2>1, SamePair DEF Changes, Moves
<1>2. OneSide(u, f)'
  BY <1>1 DEF OneSide
<1>3. Agree(u, f)'
  BY DEF Agree
<1>4. OneKind(u, f)'
  BY <1>1 DEF OneKind
<1>5. Shared(u, f)'
  BY DEF Shared
<1> QED BY <1>2, <1>3, <1>4, <1>5 DEF Pair

(* The same of the state in which a request about such a pair is made. *)
LEMMA LocalRows ==
  ASSUME CallsInv, NEW u \in Name, NEW f \in Name, Home[f] = Home[u], Pair(u, f)
  PROVE  /\ \A c \in calls : {c.from, c.to} # {u, f}
         /\ {u, f} \notin unsure => (RowOf(u, f) = <<>> <=> RowOf(f, u) = <<>>)
         /\ {u, f} \notin odd => RowOf(u, f) = RowOf(f, u)
<1>1. ASSUME NEW c \in calls PROVE {c.from, c.to} # {u, f}
  <2>1. Home[c.from] # Home[c.to]
    BY DEF CallsInv
  <2> QED BY <2>1, SamePair
<1>2. \A c \in calls : ~Moves(c, u, f)
  BY <1>1 DEF Moves
<1>3. ~Behind(u, f) /\ ~Behind(f, u)
  BY <1>1 DEF Behind, BehindBy
<1> QED BY <1>1, <1>2, <1>3 DEF Pair, Agree, Shared

(* The marks of a request: those of its pair are set if it crosses a call. *)
LEMMA RequestMarks ==
  ASSUME NEW op, NEW u \in Name, NEW f \in Name, Request(op, u, f)
  PROVE  /\ {u, f} \in unsure' <=>
              {u, f} \in unsure \/ \E c \in calls : {c.from, c.to} = {u, f} /\ CrossesRow(c, op)
         /\ {u, f} \in odd' <=>
              {u, f} \in odd \/ \E c \in calls : {c.from, c.to} = {u, f} /\ CrossesBit(c, op)
         /\ unsure \subseteq odd => unsure' \subseteq odd'
BY DEF Request, About, CrossesBit

(* The marks of other pairs are left alone. *)
LEMMA OtherMarks ==
  ASSUME NEW op, NEW u \in Name, NEW f \in Name, Request(op, u, f),
         NEW p, p # {u, f}
  PROVE  (p \in unsure' <=> p \in unsure) /\ (p \in odd' <=> p \in odd)
BY DEF Request, About

(* A request about a friend of the same domain keeps the agreement. *)
LEMMA LocalRequest ==
  ASSUME TypeInv, CallsInv', PairInv,
         NEW op, NEW u \in Name, NEW f \in Name, Home[f] = Home[u], Request(op, u, f), UNCHANGED calls,
         NEW x, NEW y, SetsRows(u, f, x, y),
         (RowOf(u, f) = <<>> <=> RowOf(f, u) = <<>>) => (x = <<>> <=> y = <<>>),
         RowOf(u, f) = RowOf(f, u) => x = y
  PROVE  PairInv'
<1>1. RowOf(u, f)' = x /\ RowOf(f, u)' = y
  BY DEF SetsRows
<1>2. unsure \subseteq unsure' /\ odd \subseteq odd'
  BY DEF Request
<1>3. /\ {u, f} \notin unsure => (RowOf(u, f) = <<>> <=> RowOf(f, u) = <<>>)
      /\ {u, f} \notin odd => RowOf(u, f) = RowOf(f, u)
  BY LocalRows DEF PairInv, TypeInv
<1>4. Pair(u, f)'
  BY <1>1, <1>2, <1>3, LocalPair
<1>5. ASSUME NEW v \in Name, NEW g \in Name, {v, g} # {u, f} PROVE Untouched(v, g)
  <2>1. ({v, g} \in unsure' <=> {v, g} \in unsure) /\ ({v, g} \in odd' <=> {v, g} \in odd)
    BY <1>5, OtherMarks
  <2>2. calls' = calls
    OBVIOUS
  <2> QED BY <2>1, <2>2 DEF Untouched
<1>6. unsure' \subseteq odd'
  BY RequestMarks DEF PairInv
<1> QED BY <1>4, <1>5, <1>6, PairStep

(***************************************************************************)
(* A request about a friend in another domain: x is what it makes of the   *)
(* row of u about f.                                                       *)
(***************************************************************************)
Made(op, u, f, x) ==
  /\ op \in {"register", "unregister", "accept"}
  /\ Request(op, u, f) /\ Call(op, u, f, stat[u], {})
  /\ SetsRows(u, f, x, RowOf(f, u))
  /\ x = IF op = "register" THEN Inserted(RowOf(u, f))
         ELSE IF op = "unregister" THEN <<>> ELSE Accepted(RowOf(u, f))

(* The row that is changed. *)
NewRow(op, u, f, x) ==
  /\ RowOf(u, f)' = x /\ RowOf(f, u)' = RowOf(f, u)
  /\ RowOf(u, f) \in Rows /\ RowOf(f, u) \in Rows
  /\ op = "register" =>
       x # <<>> /\ (RowOf(u, f) # <<>> => x = RowOf(u, f)) /\ (RowOf(u, f) = <<>> => x = <<FALSE>>)
  /\ op = "unregister" => x = <<>>
  /\ op = "accept" =>
       x # <<FALSE>> /\ (x = <<>> <=> RowOf(u, f) = <<>>) /\ (RowOf(u, f) # <<>> => x = <<TRUE>>)

LEMMA MadeRow ==
  ASSUME TypeInv, NEW u \in Name, NEW f \in Name, NEW op, NEW x, Made(op, u, f, x)
  PROVE  NewRow(op, u, f, x)
<1>1. RowOf(u, f)' = x /\ RowOf(f, u)' = RowOf(f, u)
  BY DEF Made, SetsRows
<1>2. RowOf(u, f) \in Rows /\ RowOf(f, u) \in Rows
  BY TableOf DEF TypeInv
<1>3. \A row \in Rows : /\ Inserted(row) # <<>> /\ (row # <<>> => Inserted(row) = row)
                        /\ row = <<>> => Inserted(row) = <<FALSE>>
  BY RowFacts DEF Inserted
<1>4. \A row \in Rows : /\ Accepted(row) # <<FALSE>> /\ (Accepted(row) = <<>> <=> row = <<>>)
                        /\ row # <<>> => Accepted(row) = <<TRUE>>
  BY RowFacts DEF Rows
<1>5. CASE op = "register"
  BY <1>1, <1>2, <1>3, <1>5 DEF Made, NewRow
<1>6. CASE op = "unregister"
  BY <1>1, <1>2, <1>6 DEF Made, NewRow
<1>7. CASE op = "accept"
  BY <1>1, <1>2, <1>4, <1>7 DEF Made, NewRow
<1> QED BY <1>5, <1>6, <1>7 DEF Made

(* The calls about u and f after it, its own, n, among them. *)
NewCalls(n, op, u, f) ==
  /\ n.op = op /\ n.from = u /\ n.to = f /\ n.reply = "none" /\ ~n.lost
  /\ n.alone <=> \A c \in calls : Changes(c, u, f) => ~CrossesRow(c, op)
  /\ \A b \in calls' : Changes(b, u, f) => b = n \/ \E c \in calls :
       /\ Changes(c, u, f) /\ Same(b, c)
       /\ b.alone <=> c.alone /\ ~CrossesRow(c, op)
  /\ \A c \in calls : Changes(c, u, f) => \E b \in calls' : Changes(b, u, f) /\ Same(b, c)

LEMMA MadeCalls ==
  ASSUME TypeInv, NEW u \in Name, NEW f \in Name, NEW op, NEW x, Made(op, u, f, x)
  PROVE  \E n \in calls' : NewCalls(n, op, u, f)
<1>1. op \in {"register", "unregister", "accept"} /\ Call(op, u, f, stat[u], {})
      /\ stat[u] \in {"unknown", "online", "busy"} /\ {} \in SUBSET Name
  BY DEF Made, TypeInv, TablesInv
<1>2. \A c : CrossesRow(c, op) => c.op # "status"
  BY DEF CrossesRow
<1>3. PICK n \in calls' :
        /\ n.op = op /\ n.from = u /\ n.to = f /\ n.reply = "none" /\ ~n.lost
        /\ n.alone <=> \A c \in calls : {c.from, c.to} = {u, f} => ~CrossesRow(c, op)
        /\ \A b \in calls' : b = n \/ \E c \in calls :
             /\ Same(b, c)
             /\ b.alone <=> c.alone /\ ({c.from, c.to} = {u, f} => ~CrossesRow(c, op))
        /\ \A c \in calls : \E b \in calls' : Same(b, c)
  <2>1. PICK n \in calls' : NewCall(n, op, u, f)
    BY <1>1, CallMade
  <2> QED BY <2>1 DEF NewCall
<1>4. \A b, c : Same(b, c) => (Changes(b, u, f) <=> Changes(c, u, f))
  BY DEF Same, Changes
<1>5. n.alone <=> \A c \in calls : Changes(c, u, f) => ~CrossesRow(c, op)
  BY <1>2, <1>3 DEF Changes
<1>6. ASSUME NEW b \in calls', Changes(b, u, f), b # n
      PROVE  \E c \in calls : /\ Changes(c, u, f) /\ Same(b, c)
                              /\ b.alone <=> c.alone /\ ~CrossesRow(c, op)
  <2>1. PICK c \in calls :
          /\ Same(b, c)
          /\ b.alone <=> c.alone /\ ({c.from, c.to} = {u, f} => ~CrossesRow(c, op))
    BY <1>3, <1>6
  <2>2. Changes(c, u, f)
    BY <1>4, <1>6, <2>1
  <2> QED BY <2>1, <2>2 DEF Changes
<1>7. ASSUME NEW c \in calls, Changes(c, u, f) PROVE \E b \in calls' : Changes(b, u, f) /\ Same(b, c)
  BY <1>3, <1>4, <1>7
<1> QED BY <1>3, <1>5, <1>6, <1>7 DEF NewCalls

(* The marks of u and f after it. *)
LEMMA MadeMarks ==
  ASSUME NEW u \in Name, NEW f \in Name, NEW op, NEW x, Made(op, u, f, x)
  PROVE  /\ {u, f} \in unsure' <=>
              {u, f} \in unsure \/ \E c \in calls : Changes(c, u, f) /\ CrossesRow(c, op)
         /\ {u, f} \in odd' <=>
              {u, f} \in odd \/ \E c \in calls : Changes(c, u, f) /\ CrossesBit(c, op)
<1>1. \A c : CrossesRow(c, op) \/ CrossesBit(c, op) => c.op # "status"
  BY DEF CrossesRow, CrossesBit
<1>2. Request(op, u, f)
  BY DEF Made
<1>3. /\ {u, f} \in unsure' <=>
           {u, f} \in unsure \/ \E c \in calls : {c.from, c.to} = {u, f} /\ CrossesRow(c, op)
      /\ {u, f} \in odd' <=>
           {u, f} \in odd \/ \E c \in calls : {c.from, c.to} = {u, f} /\ CrossesBit(c, op)
  BY <1>2, RequestMarks
<1> QED BY <1>1, <1>3 DEF Changes

(* A request keeps OneSide: whatever it crosses is no longer alone. *)
LEMMA MadeOneSide ==
  ASSUME TypeInv, NEW u \in Name, NEW f \in Name, u # f, Pair(u, f), NEW op, NEW x, Made(op, u, f, x)
  PROVE  OneSide(u, f)'
<1>1. PICK n \in calls' : NewCalls(n, op, u, f)
  BY MadeCalls
<1>2. ASSUME NEW b \in calls', Moves(b, u, f), b.alone \/ {u, f} \notin unsure'
      PROVE  HalfDone(b)' /\ \A d \in calls' : Moves(d, u, f) => d.op = b.op
  <2>1. ASSUME b # n
        PROVE  \E c \in calls : /\ Moves(c, u, f) /\ Same(b, c) /\ HalfDone(c) /\ ~CrossesRow(c, op)
                                /\ \A d \in calls : Moves(d, u, f) => d.op = c.op
    <3>1. PICK c \in calls : /\ Changes(c, u, f) /\ Same(b, c)
                             /\ b.alone <=> c.alone /\ ~CrossesRow(c, op)
      BY <1>1, <1>2, <2>1, BetweenThem DEF NewCalls
    <3>2. Moves(c, u, f)
      BY <1>2, <3>1, BetweenThem DEF Same
    <3>3. (c.alone \/ {u, f} \notin unsure) /\ ~CrossesRow(c, op)
      BY <1>2, <3>1, MadeMarks
    <3> QED BY <3>1, <3>2, <3>3 DEF Pair, OneSide
  <2>2. \A c \in calls : Moves(c, u, f) => ~CrossesRow(c, op)
    <3>1. CASE b = n
      <4>1. n.alone => \A c \in calls : Changes(c, u, f) => ~CrossesRow(c, op)
        BY <1>1 DEF NewCalls
      <4>2. {u, f} \notin unsure' => \A c \in calls : Changes(c, u, f) => ~CrossesRow(c, op)
        BY MadeMarks
      <4> QED BY <1>2, <3>1, <4>1, <4>2, BetweenThem
    <3>2. CASE b # n
      BY <2>1, <3>2 DEF CrossesRow
    <3> QED BY <3>1, <3>2
  <2>3. \A d \in calls' : Moves(d, u, f) => d = n \/ \E c \in calls : Moves(c, u, f) /\ Same(d, c)
    BY <1>1, BetweenThem DEF NewCalls, Same
  <2>4. ASSUME NEW d \in calls', Moves(d, u, f) PROVE d.op = b.op
    <3>1. CASE b # n /\ d # n
      BY <2>1, <2>3, <2>4, <3>1 DEF Same
    <3>2. CASE b = n \/ d = n
      BY <1>1, <1>2, <2>2, <2>3, <2>4, <3>2, BetweenThem DEF NewCalls, Same, CrossesRow
    <3> QED BY <3>1, <3>2
  <2>5. HalfDone(b)'
    <3>1. CASE b = n
      <4>1. RowOf(u, f)' = x /\ (op = "register" => x # <<>>) /\ (op = "unregister" => x = <<>>)
        <5>1. NewRow(op, u, f, x)
          BY MadeRow
        <5> QED BY <5>1 DEF NewRow
      <4>2. b.op = op /\ b.from = u /\ b.to = f /\ b.reply = "none"
        BY <1>1, <3>1 DEF NewCalls
      <4>3. RowOf(b.from, b.to)' = x
        BY <4>1, <4>2
      <4> QED BY <4>1, <4>2, <4>3 DEF HalfDone
    <3>2. CASE b # n
      <4>1. PICK c \in calls : Moves(c, u, f) /\ Same(b, c) /\ HalfDone(c) /\ ~CrossesRow(c, op)
        BY <2>1, <3>2
      <4>2. c.op \in {"register", "unregister"} /\ ((c.from = u /\ c.to = f) \/ (c.from = f /\ c.to = u))
        BY <4>1, BetweenThem
      <4>3. /\ RowOf(u, f)' = x /\ RowOf(f, u)' = RowOf(f, u)
            /\ c.op = "register" => (RowOf(u, f) # <<>> => x # <<>>)
            /\ c.op = "unregister" => (RowOf(u, f) = <<>> => x = <<>>)
        BY <4>1, MadeRow DEF NewRow, CrossesRow, Made
      <4> QED BY <4>1, <4>2, <4>3 DEF HalfDone, Same
    <3> QED BY <3>1, <3>2
  <2> QED BY <2>4, <2>5
<1>3. \A c : Moves(c, u, f)' <=> Moves(c, u, f)
  BY DEF Moves
<1> QED BY <1>2, <1>3 DEF OneSide

(* It keeps Agree: one that makes or ends the friendship is waited for. *)
LEMMA MadeAgree ==
  ASSUME TypeInv, NEW u \in Name, NEW f \in Name, Pair(u, f), NEW op, NEW x, Made(op, u, f, x)
  PROVE  Agree(u, f)'
<1>1. PICK n \in calls' : NewCalls(n, op, u, f)
  BY MadeCalls
<1>2. NewRow(op, u, f, x)
  BY MadeRow
<1>3. \A c : Moves(c, u, f)' <=> Moves(c, u, f)
  BY DEF Moves
<1>4. CASE op # "accept"
  <2>1. Moves(n, u, f) /\ ~n.lost
    BY <1>1, <1>4, BetweenThem DEF Made, NewCalls
  <2> QED BY <1>3, <2>1 DEF Agree
<1>5. CASE op = "accept"
  <2> SUFFICES ASSUME {u, f} \notin unsure', \A b \in calls' : Moves(b, u, f) => b.lost
               PROVE  RowOf(u, f)' = <<>> <=> RowOf(f, u)' = <<>>
    BY <1>3 DEF Agree
  <2>1. {u, f} \notin unsure
    BY MadeMarks
  <2>2. ASSUME NEW c \in calls, Moves(c, u, f) PROVE c.lost
    <3>1. PICK b \in calls' : Changes(b, u, f) /\ Same(b, c)
      BY <1>1, <2>2, BetweenThem DEF NewCalls
    <3>2. Moves(b, u, f)
      BY <2>2, <3>1, BetweenThem DEF Same
    <3> QED BY <3>1, <3>2 DEF Same
  <2>3. RowOf(u, f) = <<>> <=> RowOf(f, u) = <<>>
    BY <2>1, <2>2 DEF Pair, Agree
  <2> QED BY <1>2, <1>5, <2>3 DEF NewRow
<1> QED BY <1>4, <1>5

(* A request that does not make the pair odd crosses calls of its own kind only. *)
LEMMA MadeKinds ==
  ASSUME TypeInv, NEW u \in Name, NEW f \in Name, NEW op, NEW x, Made(op, u, f, x), {u, f} \notin odd'
  PROVE  /\ {u, f} \notin odd
         /\ \A c \in calls : Changes(c, u, f) => (c.op = "register" <=> op = "register")
<1>1. {u, f} \notin odd /\ \A c \in calls : Changes(c, u, f) => ~CrossesBit(c, op)
  BY MadeMarks
<1>2. ASSUME NEW c \in calls, Changes(c, u, f), c.op \in {"register", "unregister", "accept"}
      PROVE  c.op = "register" <=> op = "register"
  BY <1>1, <1>2 DEF CrossesBit, CrossesRow, Made
<1>3. \A c \in calls : Changes(c, u, f) => c.op \in {"register", "unregister", "accept"}
  BY DEF TypeInv, CallsInv, Calls, Changes
<1> QED BY <1>1, <1>2, <1>3

(* It keeps OneKind. *)
LEMMA MadeOneKind ==
  ASSUME TypeInv, NEW u \in Name, NEW f \in Name, u # f, Pair(u, f), NEW op, NEW x, Made(op, u, f, x)
  PROVE  OneKind(u, f)'
<1>1. PICK n \in calls' : NewCalls(n, op, u, f)
  BY MadeCalls
<1>2. NewRow(op, u, f, x)
  BY MadeRow
<1>3. \A c : Changes(c, u, f)' <=> Changes(c, u, f)
  BY DEF Changes
<1> SUFFICES ASSUME {u, f} \notin odd', NEW b \in calls', Changes(b, u, f)
             PROVE  /\ b.op = "register" <=> op = "register"
                    /\ b.op = "accept" => RowOf(b.from, b.to)' # <<FALSE>>
  BY <1>3 DEF OneKind
<1>4. CASE b = n
  <2>1. RowOf(b.from, b.to)' = x /\ b.op = op
    BY <1>1, <1>2, <1>4 DEF NewCalls, NewRow
  <2> QED BY <1>2, <2>1 DEF NewRow
<1>5. CASE b # n
  <2>1. PICK c \in calls : Changes(c, u, f) /\ Same(b, c)
    BY <1>1, <1>5 DEF NewCalls
  <2>2. {u, f} \notin odd /\ (c.op = "register" <=> op = "register")
    BY <2>1, MadeKinds
  <2>3. c.op = "accept" => RowOf(c.from, c.to) # <<FALSE>>
    BY <2>1, <2>2 DEF Pair, OneKind
  <2>4. RowOf(u, f)' # <<FALSE>> \/ RowOf(u, f)' = RowOf(u, f) \/ op = "register"
    BY <1>2, RowFacts DEF NewRow, Made
  <2>5. (c.from = u /\ c.to = f) \/ (c.from = f /\ c.to = u)
    BY <2>1, BetweenThem
  <2>6. RowOf(f, u)' = RowOf(f, u)
    BY <1>2 DEF NewRow
  <2> QED BY <2>1, <2>2, <2>3, <2>4, <2>5, <2>6 DEF Same
<1> QED BY <1>4, <1>5

(* It keeps Shared: the other row is behind by the new call, or was before. *)
LEMMA MadeShared ==
  ASSUME TypeInv, NEW u \in Name, NEW f \in Name, u # f, Pair(u, f), NEW op, NEW x, Made(op, u, f, x)
  PROVE  Shared(u, f)'
<1>1. PICK n \in calls' : NewCalls(n, op, u, f)
  BY MadeCalls
<1>2. NewRow(op, u, f, x)
  BY MadeRow
<1> SUFFICES ASSUME {u, f} \notin odd'
             PROVE  RowOf(u, f)' = RowOf(f, u)' \/ Behind(u, f)' \/ Behind(f, u)'
  BY DEF Shared
<1>3. /\ {u, f} \notin odd
      /\ \A c \in calls : Changes(c, u, f) => (c.op = "register" <=> op = "register")
  BY MadeKinds
<1>4. n.op = op /\ n.from = u /\ n.to = f /\ n.reply = "none" /\ ~n.lost
  BY <1>1 DEF NewCalls
<1>5. RowOf(u, f)' = x /\ RowOf(f, u)' = RowOf(f, u) /\ RowOf(u, f) \in Rows /\ RowOf(f, u) \in Rows
  BY <1>2 DEF NewRow
<1>6. BehindBy(n, u, f)' => Behind(u, f)'
  BY DEF Behind
<1>7. ASSUME NEW c \in calls, BehindBy(c, u, f) \/ BehindBy(c, f, u)
      PROVE  /\ c.op = "register" <=> op = "register"
             /\ \E b \in calls' : Same(b, c)
  <2>1. Changes(c, u, f)
    <3>1. c.op # "status" /\ ((c.from = u /\ c.to = f) \/ (c.from = f /\ c.to = u))
      BY <1>7 DEF BehindBy
    <3> QED BY <3>1, BetweenThem
  <2> QED BY <1>1, <1>3, <2>1 DEF NewCalls
<1>8. CASE op = "unregister"
  <2>1. BehindBy(n, u, f)'
    BY <1>2, <1>4, <1>5, <1>8 DEF BehindBy, NewRow
  <2> QED BY <1>6, <2>1
<1>9. CASE op = "register"
  <2>1. x # <<>> /\ (RowOf(u, f) # <<>> => x = RowOf(u, f)) /\ (RowOf(u, f) = <<>> => x = <<FALSE>>)
    BY <1>2, <1>9 DEF NewRow
  <2>2. CASE RowOf(u, f) = RowOf(f, u)
    <3>1. CASE RowOf(u, f) # <<>>
      BY <1>5, <2>1, <2>2, <3>1
    <3>2. CASE RowOf(u, f) = <<>>
      <4>1. BehindBy(n, u, f)'
        BY <1>4, <1>5, <1>9, <2>1, <2>2, <3>2 DEF BehindBy
      <4> QED BY <1>6, <4>1
    <3> QED BY <3>1, <3>2
  <2>3. ASSUME NEW c \in calls, BehindBy(c, u, f) PROVE Behind(u, f)'
    <3>1. c.op = "register"
      BY <1>7, <1>9, <2>3
    <3>2. RowOf(u, f) = <<FALSE>> /\ RowOf(f, u) = <<>>
      BY <2>3, <3>1 DEF BehindBy
    <3>3. BehindBy(n, u, f)'
      BY <1>4, <1>5, <1>9, <2>1, <3>2, RowFacts DEF BehindBy
    <3> QED BY <1>6, <3>3
  <2>4. ASSUME NEW c \in calls, BehindBy(c, f, u) PROVE RowOf(u, f)' = RowOf(f, u)'
    <3>1. c.op = "register"
      BY <1>7, <1>9, <2>4
    <3>2. RowOf(f, u) = <<FALSE>> /\ RowOf(u, f) = <<>>
      BY <2>4, <3>1 DEF BehindBy
    <3> QED BY <1>5, <2>1, <3>2
  <2> QED BY <1>3, <2>2, <2>3, <2>4 DEF Pair, Shared, Behind
<1>10. CASE op = "accept"
  <2>1. /\ x # <<FALSE>> /\ (x = <<>> <=> RowOf(u, f) = <<>>)
        /\ RowOf(u, f) # <<>> => x = <<TRUE>>
    BY <1>2, <1>10 DEF NewRow
  <2>2. CASE RowOf(u, f) = RowOf(f, u)
    <3>1. CASE RowOf(u, f) = <<FALSE>>
      <4>1. x = <<TRUE>>
        BY <2>1, <3>1, RowFacts
      <4>2. BehindBy(n, u, f)'
        BY <1>4, <1>5, <1>10, <2>2, <3>1, <4>1 DEF BehindBy
      <4> QED BY <1>6, <4>2
    <3>2. CASE RowOf(u, f) # <<FALSE>>
      <4>1. x = RowOf(u, f)
        BY <1>5, <2>1, <3>2 DEF Rows
      <4> QED BY <1>5, <2>2, <4>1
    <3> QED BY <3>1, <3>2
  <2>3. ASSUME NEW c \in calls, BehindBy(c, u, f) PROVE Behind(u, f)'
    <3>1. PICK b \in calls' : Same(b, c)
      BY <1>7, <2>3
    <3>2. c.op # "register"
      BY <1>7, <1>10, <2>3
    <3>3. \/ c.op = "accept" /\ c.reply = "none" /\ RowOf(u, f) = <<TRUE>> /\ RowOf(f, u) = <<FALSE>>
          \/ c.op = "unregister" /\ c.reply = "none" /\ RowOf(u, f) = <<>>
      BY <2>3, <3>2 DEF BehindBy
    <3>4. x = RowOf(u, f)
      BY <2>1, <3>3, RowFacts
    <3>5. BehindBy(b, u, f)'
      BY <1>5, <2>3, <3>1, <3>3, <3>4 DEF BehindBy, Same
    <3> QED BY <3>5 DEF Behind
  <2>4. ASSUME NEW c \in calls, BehindBy(c, f, u)
        PROVE  RowOf(u, f)' = RowOf(f, u)' \/ Behind(f, u)'
    <3>1. PICK b \in calls' : Same(b, c)
      BY <1>7, <2>4
    <3>2. c.op # "register"
      BY <1>7, <1>10, <2>4
    <3>3. \/ c.op = "accept" /\ c.reply = "none" /\ RowOf(f, u) = <<TRUE>> /\ RowOf(u, f) = <<FALSE>>
          \/ c.op = "unregister" /\ c.reply = "none" /\ RowOf(f, u) = <<>>
      BY <2>4, <3>2 DEF BehindBy
    <3>4. CASE RowOf(f, u) = <<TRUE>> /\ RowOf(u, f) = <<FALSE>>
      BY <1>5, <2>1, <3>4, RowFacts
    <3>5. CASE c.op = "unregister" /\ c.reply = "none" /\ RowOf(f, u) = <<>>
      <4>1. BehindBy(b, f, u)'
        BY <1>5, <2>4, <3>1, <3>5 DEF BehindBy, Same
      <4> QED BY <4>1 DEF Behind
    <3> QED BY <3>3, <3>4, <3>5
  <2> QED BY <1>3, <2>2, <2>3, <2>4 DEF Pair, Shared, Behind
<1> QED BY <1>8, <1>9, <1>10 DEF Made

(* A request about a friend in another domain keeps the agreement. *)
LEMMA RemoteRequest ==
  ASSUME TypeInv, PairInv, NEW u \in Name, NEW f \in Name, u # f, NEW op, NEW x, Made(op, u, f, x)
  PROVE  PairInv'
<1>1. Pair(u, f)
  BY DEF PairInv
<1>2. Pair(u, f)'
  BY <1>1, MadeOneSide, MadeAgree, MadeOneKind, MadeShared DEF Pair
<1>3. Request(op, u, f) /\ SetsRows(u, f, x, RowOf(f, u))
  BY DEF Made
<1>4. /\ op \in {"register", "unregister", "accept"} /\ Call(op, u, f, stat[u], {})
      /\ stat[u] \in {"unknown", "online", "busy"} /\ {} \in SUBSET Name
  BY DEF Made, TypeInv, TablesInv
<1>5. PICK n \in calls' : NewCall(n, op, u, f)
  BY <1>4, CallMade
<1>6. ASSUME NEW v \in Name, NEW g \in Name, {v, g} # {u, f} PROVE Untouched(v, g)
  <2>1. ({v, g} \in unsure' <=> {v, g} \in unsure) /\ ({v, g} \in odd' <=> {v, g} \in odd)
    BY <1>3, <1>6, OtherMarks
  <2>2. \A c \in calls' : Changes(c, v, g) => c \in calls
    BY <1>5, <1>6 DEF NewCall, Changes
  <2>3. \A c \in calls : Changes(c, v, g) => c \in calls'
    BY <1>5, <1>6 DEF NewCall, Changes
  <2> QED BY <2>1, <2>2, <2>3 DEF Untouched
<1>7. unsure' \subseteq odd'
  BY <1>3, RequestMarks DEF PairInv
<1> QED BY <1>2, <1>3, <1>6, <1>7, PairStep

-----------------------------------------------------------------------------
(***************************************************************************)
(* The other server does c and answers reply: x is what it makes of the    *)
(* row of its user about the other.                                        *)
(***************************************************************************)
Done(c, reply, x) ==
  /\ c \in calls /\ c.reply = "none" /\ c.op \in {"register", "unregister", "accept"}
  /\ Answer(c, reply) /\ UNCHANGED <<unsure, odd>> /\ reply # "none"
  /\ SetsRows(c.to, c.from, x, RowOf(c.from, c.to))
  /\ c.op = "register" =>
       IF c.to \in Registered THEN x = Inserted(RowOf(c.to, c.from)) /\ reply = "success"
       ELSE x = RowOf(c.to, c.from) /\ reply = "user not found"
  /\ c.op = "unregister" => x = <<>>
  /\ c.op = "accept" =>
       x = IF c.to \in Registered THEN Accepted(RowOf(c.to, c.from)) ELSE RowOf(c.to, c.from)

(* The row that is changed. *)
DoneRow(c, reply, x) ==
  /\ RowOf(c.to, c.from)' = x /\ RowOf(c.from, c.to)' = RowOf(c.from, c.to)
  /\ RowOf(c.to, c.from) \in Rows /\ RowOf(c.from, c.to) \in Rows
  /\ c.op = "register" /\ c.to \in Registered =>
       /\ x # <<>> /\ (RowOf(c.to, c.from) # <<>> => x = RowOf(c.to, c.from))
       /\ RowOf(c.to, c.from) = <<>> => x = <<FALSE>>
       /\ reply = "success"
  /\ c.op = "register" /\ c.to \notin Registered =>
       x = RowOf(c.to, c.from) /\ reply = "user not found"
  /\ c.op = "unregister" => x = <<>>
  /\ c.op = "accept" =>
       /\ x # <<FALSE>> /\ (x = <<>> <=> RowOf(c.to, c.from) = <<>>)
       /\ RowOf(c.to, c.from) # <<>> => x = <<TRUE>>

LEMMA AnswerRow ==
  ASSUME TypeInv, NEW c \in calls, NEW reply, NEW x, Done(c, reply, x)
  PROVE  DoneRow(c, reply, x)
<1>1. c.from \in Name /\ c.to \in Name
  BY DEF TypeInv, CallsInv, Calls
<1>2. RowOf(c.to, c.from)' = x /\ RowOf(c.from, c.to)' = RowOf(c.from, c.to)
  BY DEF Done, SetsRows
<1>3. RowOf(c.to, c.from) \in Rows /\ RowOf(c.from, c.to) \in Rows
  BY <1>1, TableOf DEF TypeInv
<1>4. RowOf(c.to, c.from) # <<>> => c.to \in Registered
  BY <1>1 DEF TypeInv, TablesInv
<1>5. \A row \in Rows : /\ Inserted(row) # <<>> /\ (row # <<>> => Inserted(row) = row)
                        /\ row = <<>> => Inserted(row) = <<FALSE>>
  BY RowFacts DEF Inserted
<1>6. \A row \in Rows : /\ Accepted(row) # <<FALSE>> /\ (Accepted(row) = <<>> <=> row = <<>>)
                        /\ row # <<>> => Accepted(row) = <<TRUE>>
  BY RowFacts DEF Rows
<1>7. CASE c.op = "register"
  BY <1>2, <1>3, <1>5, <1>7 DEF Done, DoneRow
<1>8. CASE c.op = "unregister"
  BY <1>2, <1>3, <1>8 DEF Done, DoneRow
<1>9. CASE c.op = "accept"
  <2>1. x = Accepted(RowOf(c.to, c.from))
    BY <1>3, <1>4, <1>9, RowFacts DEF Done
  <2> QED BY <1>2, <1>3, <1>6, <1>9, <2>1 DEF DoneRow
<1> QED BY <1>7, <1>8, <1>9 DEF Done

(***************************************************************************)
(* The calls after it: a is what becomes of c.  Nobody waits for an answer *)
(* to a call that was lost.                                                *)
(***************************************************************************)
Becomes(a, c, reply) ==
  /\ a.op = c.op /\ a.from = c.from /\ a.to = c.to /\ a.reply = reply
  /\ (a.lost <=> c.lost) /\ (a.alone <=> c.alone)

LEMMA AnswerCalls ==
  ASSUME TypeInv, NEW c \in calls, NEW reply, Answer(c, reply)
  PROVE  \E a : /\ Becomes(a, c, reply)
                /\ calls' = (calls \ {c}) \union (IF c.lost THEN {} ELSE {a})
<1>1. PICK a : a = [c EXCEPT !.reply = reply]
  OBVIOUS
<1>2. Becomes(a, c, reply)
  BY <1>1 DEF TypeInv, CallsInv, Calls, Becomes
<1> QED BY <1>1, <1>2 DEF Answer

(* An answer keeps OneSide. *)
LEMMA DoneOneSide ==
  ASSUME TypeInv, NEW c \in calls, NEW u, NEW f, u = c.from, f = c.to, u # f, Pair(u, f),
         NEW reply, NEW x, Done(c, reply, x)
  PROVE  OneSide(u, f)'
<1>1. PICK a : /\ Becomes(a, c, reply)
               /\ calls' = (calls \ {c}) \union (IF c.lost THEN {} ELSE {a})
  BY AnswerCalls DEF Done
<1>2. DoneRow(c, reply, x)
  BY AnswerRow
<1>3. Changes(c, u, f) /\ (Moves(c, u, f) <=> c.op \in {"register", "unregister"})
      /\ (Moves(a, u, f) <=> Moves(c, u, f))
  BY <1>1 DEF Changes, Moves, Done, Becomes
<1>4. \A b \in calls' : b \in calls \/ b = a
  BY <1>1
<1>5. ASSUME NEW b \in calls', Moves(b, u, f), b.alone \/ {u, f} \notin unsure
      PROVE  HalfDone(b)' /\ \A d \in calls' : Moves(d, u, f) => d.op = b.op
  <2>1. PICK e \in calls : /\ Moves(e, u, f) /\ (e.alone \/ {u, f} \notin unsure) /\ e.op = b.op
                           /\ e.from = b.from /\ e.to = b.to
                           /\ e.reply = b.reply \/ (b = a /\ e = c)
    <3>1. CASE b \in calls
      BY <1>5, <3>1
    <3>2. CASE b = a
      BY <1>1, <1>3, <1>5, <3>2 DEF Becomes
    <3> QED BY <1>4, <3>1, <3>2
  <2>2. HalfDone(e) /\ \A d \in calls : Moves(d, u, f) => d.op = e.op
    BY <2>1 DEF Pair, OneSide
  <2>3. \A d \in calls' : Moves(d, u, f) => d.op = b.op
    BY <1>1, <1>3, <1>4, <2>1, <2>2 DEF Becomes
  <2>4. b.op \in {"register", "unregister"} /\ ((b.from = u /\ b.to = f) \/ (b.from = f /\ b.to = u))
    BY <1>5, BetweenThem
  <2>5. c.op = "accept" \/ c.op = b.op
    BY <1>3, <2>1, <2>2 DEF Done
  <2>6. RowOf(f, u)' = x /\ RowOf(u, f)' = RowOf(u, f)
    BY <1>2 DEF DoneRow
  <2>7. b = a => c.op = b.op /\ b.reply = reply /\ b.from = u /\ b.to = f
    BY <1>1, <2>4, <2>5 DEF Becomes
  <2>8. CASE b.op = "register"
    <3>1. RowOf(f, u) # <<>> => x # <<>>
      BY <1>2, <2>5, <2>8 DEF DoneRow
    <3>2. b = a /\ f \in Registered => x # <<>>
      BY <1>2, <2>7, <2>8 DEF DoneRow
    <3>3. b.to \in Registered =>
            RowOf(b.from, b.to) # <<>> /\ (e.reply = "success" => RowOf(b.to, b.from) # <<>>)
      BY <2>1, <2>2, <2>8 DEF HalfDone
    <3>4. b.to \in Registered => RowOf(b.from, b.to)' # <<>>
      BY <2>4, <2>6, <3>1, <3>3
    <3>5. b.to \in Registered /\ b.reply = "success" => RowOf(b.to, b.from)' # <<>>
      <4>1. CASE b = a
        BY <2>6, <2>7, <3>2, <4>1
      <4>2. CASE b # a
        BY <2>1, <2>4, <2>6, <3>1, <3>3, <4>2
      <4> QED BY <4>1, <4>2
    <3> QED BY <2>3, <2>8, <3>4, <3>5 DEF HalfDone
  <2>9. CASE b.op = "unregister"
    <3>1. RowOf(f, u) = <<>> => x = <<>>
      BY <1>2, <2>5, <2>9 DEF DoneRow
    <3>2. b = a => x = <<>>
      BY <1>2, <2>7, <2>9 DEF DoneRow
    <3>3. RowOf(b.from, b.to) = <<>> /\ (e.reply # "none" => RowOf(b.to, b.from) = <<>>)
      BY <2>1, <2>2, <2>9 DEF HalfDone
    <3>4. RowOf(b.from, b.to)' = <<>>
      BY <2>4, <2>6, <3>1, <3>3
    <3>5. b.reply # "none" => RowOf(b.to, b.from)' = <<>>
      <4>1. CASE b = a
        BY <2>6, <2>7, <3>2, <4>1
      <4>2. CASE b # a
        BY <2>1, <2>4, <2>6, <3>1, <3>3, <4>2
      <4> QED BY <4>1, <4>2
    <3> QED BY <2>3, <2>9, <3>4, <3>5 DEF HalfDone
  <2> QED BY <2>3, <2>4, <2>8, <2>9
<1>6. \A b : Moves(b, u, f)' <=> Moves(b, u, f)
  BY DEF Moves
<1>7. unsure' = unsure
  BY DEF Done
<1> QED BY <1>5, <1>6, <1>7 DEF OneSide

(* It keeps Agree: a call that was lost finds its work done. *)
LEMMA DoneAgree ==
  ASSUME TypeInv, NEW c \in calls, NEW u, NEW f, u = c.from, f = c.to, Pair(u, f),
         NEW reply, NEW x, Done(c, reply, x)
  PROVE  Agree(u, f)'
<1>1. PICK a : /\ Becomes(a, c, reply)
               /\ calls' = (calls \ {c}) \union (IF c.lost THEN {} ELSE {a})
  BY AnswerCalls DEF Done
<1>2. DoneRow(c, reply, x)
  BY AnswerRow
<1>3. (Moves(c, u, f) <=> c.op \in {"register", "unregister"}) /\ (Moves(a, u, f) <=> Moves(c, u, f))
  BY <1>1 DEF Moves, Becomes
<1>4. \A b : Moves(b, u, f)' <=> Moves(b, u, f)
  BY DEF Moves
<1>5. unsure' = unsure
  BY DEF Done
<1> SUFFICES ASSUME {u, f} \notin unsure, \A b \in calls' : Moves(b, u, f) => b.lost
             PROVE  RowOf(u, f)' = <<>> <=> RowOf(f, u)' = <<>>
  BY <1>4, <1>5 DEF Agree
<1>6. ASSUME NEW b \in calls, Moves(b, u, f) PROVE b.lost
  <2>1. CASE b \in calls'
    BY <1>6, <2>1
  <2>2. CASE b \notin calls'
    <3>1. b = c /\ (~c.lost => a \in calls')
      BY <1>1, <2>2
    <3> QED BY <1>1, <1>3, <1>6, <3>1 DEF Becomes
  <2> QED BY <2>1, <2>2
<1>7. RowOf(u, f) = <<>> <=> RowOf(f, u) = <<>>
  BY <1>6 DEF Pair, Agree
<1>8. RowOf(f, u)' = x /\ RowOf(u, f)' = RowOf(u, f)
  BY <1>2 DEF DoneRow
<1>9. c.op \in {"register", "unregister"} => HalfDone(c)
  BY <1>3 DEF Pair, OneSide
<1>10. CASE c.op = "register"
  <2>1. f \in Registered => RowOf(u, f) # <<>> /\ x # <<>>
    BY <1>2, <1>9, <1>10 DEF HalfDone, DoneRow
  <2>2. f \notin Registered => x = RowOf(f, u)
    BY <1>2, <1>10 DEF DoneRow
  <2> QED BY <1>7, <1>8, <2>1, <2>2
<1>11. CASE c.op = "unregister"
  BY <1>2, <1>8, <1>9, <1>11 DEF HalfDone, DoneRow
<1>12. CASE c.op = "accept"
  BY <1>2, <1>7, <1>8, <1>12 DEF DoneRow
<1> QED BY <1>10, <1>11, <1>12 DEF Done

(* It keeps OneKind. *)
LEMMA DoneOneKind ==
  ASSUME TypeInv, NEW c \in calls, NEW u, NEW f, u = c.from, f = c.to, u # f, Pair(u, f),
         NEW reply, NEW x, Done(c, reply, x)
  PROVE  OneKind(u, f)'
<1>1. PICK a : /\ Becomes(a, c, reply)
               /\ calls' = (calls \ {c}) \union (IF c.lost THEN {} ELSE {a})
  BY AnswerCalls DEF Done
<1>2. DoneRow(c, reply, x)
  BY AnswerRow
<1>3. Changes(c, u, f)
  BY DEF Changes, Done
<1>4. \A b : Changes(b, u, f)' <=> Changes(b, u, f)
  BY DEF Changes
<1>5. odd' = odd
  BY DEF Done
<1> SUFFICES ASSUME {u, f} \notin odd, NEW b \in calls', Changes(b, u, f)
             PROVE  /\ b.op = "register" <=> c.op = "register"
                    /\ b.op = "accept" => RowOf(b.from, b.to)' # <<FALSE>>
  BY <1>4, <1>5 DEF OneKind
<1>6. PICK e \in calls : Changes(e, u, f) /\ e.op = b.op /\ e.from = b.from /\ e.to = b.to
  <2>1. CASE b \in calls
    BY <2>1
  <2>2. CASE b \notin calls
    BY <1>1, <1>3, <2>2 DEF Becomes
  <2> QED BY <2>1, <2>2
<1>7. /\ b.op = "register" <=> c.op = "register"
      /\ b.op = "accept" => RowOf(b.from, b.to) # <<FALSE>>
  BY <1>3, <1>6 DEF Pair, OneKind
<1>8. RowOf(f, u)' = x /\ RowOf(u, f)' = RowOf(u, f)
  BY <1>2 DEF DoneRow
<1>9. c.op # "register" => x # <<FALSE>>
  BY <1>2, RowFacts DEF DoneRow, Done
<1>10. (b.from = u /\ b.to = f) \/ (b.from = f /\ b.to = u)
  BY BetweenThem
<1> QED BY <1>7, <1>8, <1>9, <1>10

(* It keeps Shared: the row that was behind has caught up. *)
LEMMA DoneShared ==
  ASSUME TypeInv, unsure \subseteq odd,
         NEW c \in calls, NEW u, NEW f, u = c.from, f = c.to, u # f, Pair(u, f),
         NEW reply, NEW x, Done(c, reply, x)
  PROVE  Shared(u, f)'
<1>1. PICK a : /\ Becomes(a, c, reply)
               /\ calls' = (calls \ {c}) \union (IF c.lost THEN {} ELSE {a})
  BY AnswerCalls DEF Done
<1>2. DoneRow(c, reply, x)
  BY AnswerRow
<1>3. odd' = odd
  BY DEF Done
<1> SUFFICES ASSUME {u, f} \notin odd
             PROVE  RowOf(u, f)' = RowOf(f, u)' \/ Behind(u, f)' \/ Behind(f, u)'
  BY <1>3 DEF Shared
<1>4. {u, f} \notin unsure
  OBVIOUS
<1>5. Changes(c, u, f) /\ (c.op \in {"register", "unregister"} => Moves(c, u, f))
  BY DEF Changes, Moves, Done
<1>6. c.op \in {"register", "unregister"} => HalfDone(c)
  BY <1>4, <1>5 DEF Pair, OneSide
<1>7. c.op = "accept" => RowOf(u, f) # <<FALSE>>
  BY <1>5 DEF Pair, OneKind
<1>8. ASSUME NEW d \in calls, BehindBy(d, u, f) \/ BehindBy(d, f, u)
      PROVE  d.op = "register" <=> c.op = "register"
  <2>1. d.op # "status" /\ ((d.from = u /\ d.to = f) \/ (d.from = f /\ d.to = u))
    BY <1>8 DEF BehindBy
  <2>2. Changes(d, u, f)
    BY <2>1, BetweenThem
  <2> QED BY <1>5, <2>2 DEF Pair, OneKind
<1>9. RowOf(f, u)' = x /\ RowOf(u, f)' = RowOf(u, f) /\ RowOf(u, f) \in Rows /\ RowOf(f, u) \in Rows
  BY <1>2 DEF DoneRow
<1>10. \A d \in calls : d # c => d \in calls'
  BY <1>1
<1>11. CASE c.op = "unregister"
  BY <1>2, <1>6, <1>9, <1>11 DEF HalfDone, DoneRow
<1>12. CASE c.op = "register" /\ f \in Registered
  <2>1. RowOf(u, f) # <<>> /\ x # <<>> /\ (RowOf(f, u) # <<>> => x = RowOf(f, u))
        /\ (RowOf(f, u) = <<>> => x = <<FALSE>>)
    BY <1>2, <1>6, <1>12 DEF HalfDone, DoneRow
  <2>2. CASE RowOf(u, f) = RowOf(f, u)
    BY <1>9, <2>1, <2>2
  <2>3. ASSUME NEW d \in calls, BehindBy(d, u, f) PROVE RowOf(u, f)' = RowOf(f, u)'
    <3>1. RowOf(u, f) = <<FALSE>> /\ RowOf(f, u) = <<>>
      BY <1>8, <1>12, <2>3 DEF BehindBy
    <3> QED BY <1>9, <2>1, <3>1
  <2>4. ASSUME NEW d \in calls, BehindBy(d, f, u) PROVE FALSE
    <3>1. RowOf(u, f) = <<>>
      BY <1>8, <1>12, <2>4 DEF BehindBy
    <3> QED BY <2>1, <3>1
  <2> QED BY <2>2, <2>3, <2>4 DEF Pair, Shared, Behind
<1>13. CASE c.op = "register" /\ f \notin Registered
  <2>1. x = RowOf(f, u) /\ reply = "user not found"
    BY <1>2, <1>13 DEF DoneRow
  <2>2. CASE RowOf(u, f) = RowOf(f, u)
    BY <1>9, <2>1, <2>2
  <2>3. ASSUME NEW d \in calls, BehindBy(d, u, f) PROVE Behind(u, f)'
    <3>1. d.op = "register" /\ RowOf(u, f) = <<FALSE>> /\ RowOf(f, u) = <<>>
      BY <1>8, <1>13, <2>3 DEF BehindBy
    <3>2. CASE d # c
      <4>1. BehindBy(d, u, f)'
        BY <1>9, <2>1, <2>3, <3>1 DEF BehindBy
      <4> QED BY <1>10, <3>2, <4>1 DEF Behind
    <3>3. CASE d = c
      <4>1. ~c.lost /\ a \in calls'
        BY <1>1, <2>3, <3>3 DEF BehindBy
      <4>2. BehindBy(a, u, f)'
        BY <1>1, <1>9, <1>13, <2>1, <3>1, <4>1 DEF BehindBy, Becomes
      <4> QED BY <4>1, <4>2 DEF Behind
    <3> QED BY <3>2, <3>3
  <2>4. ASSUME NEW d \in calls, BehindBy(d, f, u) PROVE Behind(f, u)'
    <3>1. d \in calls'
      BY <1>10, <2>4 DEF BehindBy
    <3>2. BehindBy(d, f, u)'
      BY <1>9, <2>1, <2>4 DEF BehindBy
    <3> QED BY <3>1, <3>2 DEF Behind
  <2> QED BY <2>2, <2>3, <2>4 DEF Pair, Shared, Behind
<1>14. CASE c.op = "accept"
  <2>1. (RowOf(f, u) = <<>> => x = <<>>) /\ (RowOf(f, u) # <<>> => x = <<TRUE>>)
    BY <1>2, <1>14 DEF DoneRow
  <2>2. CASE RowOf(u, f) = RowOf(f, u)
    BY <1>7, <1>9, <1>14, <2>1, <2>2 DEF Rows
  <2>3. ASSUME NEW d \in calls, BehindBy(d, u, f)
        PROVE  RowOf(u, f)' = RowOf(f, u)' \/ Behind(u, f)'
    <3>1. CASE RowOf(u, f) = <<TRUE>> /\ RowOf(f, u) = <<FALSE>>
      BY <1>9, <2>1, <3>1, RowFacts
    <3>2. CASE d.op = "unregister" /\ d.reply = "none" /\ RowOf(u, f) = <<>>
      <4>1. d \in calls'
        BY <1>10, <1>14, <3>2
      <4>2. BehindBy(d, u, f)'
        BY <1>9, <2>3, <3>2 DEF BehindBy
      <4> QED BY <4>1, <4>2 DEF Behind
    <3> QED BY <1>8, <1>14, <2>3, <3>1, <3>2 DEF BehindBy
  <2>4. ASSUME NEW d \in calls, BehindBy(d, f, u) PROVE Behind(f, u)'
    <3>1. d.op = "unregister" /\ d.reply = "none" /\ RowOf(f, u) = <<>>
      BY <1>7, <1>8, <1>14, <2>4 DEF BehindBy
    <3>2. d \in calls'
      BY <1>10, <1>14, <3>1
    <3>3. BehindBy(d, f, u)'
      BY <1>9, <2>1, <2>4, <3>1 DEF BehindBy
    <3> QED BY <3>2, <3>3 DEF Behind
  <2> QED BY <2>2, <2>3, <2>4 DEF Pair, Shared, Behind
<1> QED BY <1>11, <1>12, <1>13, <1>14 DEF Done

(* The answer of another server keeps the agreement. *)
LEMMA AnswerStep ==
  ASSUME TypeInv, PairInv, NEW c \in calls, NEW reply, NEW x, Done(c, reply, x)
  PROVE  PairInv'
<1>1. PICK u, f \in Name : u = c.from /\ f = c.to /\ u # f
  BY DEF TypeInv, CallsInv, Calls
<1>2. Pair(u, f) /\ unsure \subseteq odd
  BY DEF PairInv
<1>3. Pair(u, f)'
  BY <1>1, <1>2, DoneOneSide, DoneAgree, DoneOneKind, DoneShared DEF Pair
<1>4. PICK a : /\ Becomes(a, c, reply)
               /\ calls' = (calls \ {c}) \union (IF c.lost THEN {} ELSE {a})
  BY AnswerCalls DEF Done
<1>5. UNCHANGED <<unsure, odd>> /\ SetsRows(f, u, x, RowOf(u, f))
  BY <1>1 DEF Done
<1>6. ASSUME NEW v \in Name, NEW g \in Name, {v, g} # {f, u} PROVE Untouched(v, g)
  <2>1. ~Changes(c, v, g) /\ ~Changes(a, v, g)
    BY <1>1, <1>4, <1>6 DEF Changes, Becomes
  <2> QED BY <1>4, <1>5, <2>1 DEF Untouched
<1>7. Pair(f, u)'
  BY <1>3, PairTurns, PTL
<1> QED BY <1>2, <1>5, <1>6, <1>7, PairStep

-----------------------------------------------------------------------------
(***************************************************************************)
(* The answer to c arrives: x is what registerFriend leaves of its row.    *)
(***************************************************************************)
Back(c, x) ==
  /\ c \in calls /\ Returns(c) /\ c.op \in {"register", "unregister", "accept"}
  /\ SetsRows(c.from, c.to, x, RowOf(c.to, c.from))
  /\ x = IF c.op = "register" /\ c.reply = "user not found" THEN <<>> ELSE RowOf(c.from, c.to)

(***************************************************************************)
(* What is known of it then.  If it makes or ends the friendship, and none *)
(* has crossed it or the pair is not unsure, the rows agree.               *)
(***************************************************************************)
LEMMA BackRows ==
  ASSUME TypeInv, NEW c \in calls, NEW u, NEW f, u = c.from, f = c.to, Pair(u, f), NEW x, Back(c, x)
  PROVE  /\ RowOf(u, f)' = x /\ RowOf(f, u)' = RowOf(f, u)
         /\ x = RowOf(u, f)
              \/ (x = <<>> /\ RowOf(f, u) = <<>> /\ c.op = "register" /\ f \notin Registered)
         /\ Moves(c, u, f) /\ (c.alone \/ {u, f} \notin unsure) =>
              /\ x = <<>> <=> RowOf(f, u) = <<>>
              /\ c.op = "register" /\ f \in Registered => x # <<>>
              /\ c.op = "unregister" => x = <<>>
<1>1. RowOf(u, f)' = x /\ RowOf(f, u)' = RowOf(f, u)
  BY DEF Back, SetsRows
<1>2. c.from \in Name /\ c.to \in Name /\ c.reply # "none"
  BY DEF Back, Returns, TypeInv, CallsInv, Calls
<1>3. f \notin Registered => RowOf(f, u) = <<>>
  BY <1>2 DEF TypeInv, TablesInv
<1>4. c.op = "register" =>
        (c.reply = "success" /\ f \in Registered) \/ (c.reply = "user not found" /\ f \notin Registered)
  BY <1>2 DEF TypeInv, CallsInv
<1>5. \/ x = RowOf(u, f) /\ (c.op = "register" => c.reply = "success" /\ f \in Registered)
      \/ x = <<>> /\ RowOf(f, u) = <<>> /\ c.op = "register" /\ f \notin Registered
  BY <1>3, <1>4 DEF Back
<1>6. ASSUME Moves(c, u, f), c.alone \/ {u, f} \notin unsure
      PROVE  /\ x = <<>> <=> RowOf(f, u) = <<>>
             /\ c.op = "register" /\ f \in Registered => x # <<>>
             /\ c.op = "unregister" => x = <<>>
  <2>1. HalfDone(c)
    BY <1>6 DEF Pair, OneSide
  <2> QED BY <1>2, <1>5, <1>6, <2>1 DEF HalfDone, Moves
<1> QED BY <1>1, <1>5, <1>6

(* The marks that an answer removes. *)
LEMMA BackMarks ==
  ASSUME NEW c \in calls, NEW u, NEW f, u = c.from, f = c.to, NEW x, Back(c, x)
  PROVE  /\ {u, f} \notin unsure' => {u, f} \notin unsure \/ (Moves(c, u, f) /\ c.alone)
         /\ {u, f} \notin odd' => {u, f} \notin odd \/ (c.op = "unregister" /\ c.alone)
         /\ \A p : p # {u, f} => (p \in unsure' <=> p \in unsure) /\ (p \in odd' <=> p \in odd)
         /\ unsure \subseteq odd => unsure' \subseteq odd'
BY DEF Back, Returns, Reconciles, Moves

(* It keeps OneSide. *)
LEMMA BackOneSide ==
  ASSUME TypeInv, NEW c \in calls, NEW u, NEW f, u = c.from, f = c.to, u # f, Pair(u, f), NEW x, Back(c, x)
  PROVE  OneSide(u, f)'
<1>1. calls' = calls \ {c} /\ (Moves(c, u, f) <=> c.op \in {"register", "unregister"})
  BY DEF Back, Returns, Moves
<1>2. /\ RowOf(u, f)' = x /\ RowOf(f, u)' = RowOf(f, u)
      /\ x = RowOf(u, f)
           \/ (x = <<>> /\ RowOf(f, u) = <<>> /\ c.op = "register" /\ f \notin Registered)
      /\ Moves(c, u, f) /\ (c.alone \/ {u, f} \notin unsure) =>
           /\ x = <<>> <=> RowOf(f, u) = <<>>
           /\ c.op = "register" /\ f \in Registered => x # <<>>
           /\ c.op = "unregister" => x = <<>>
  BY BackRows
<1>3. ASSUME NEW b \in calls, b \in calls', Moves(b, u, f), b.alone \/ {u, f} \notin unsure'
      PROVE  HalfDone(b)' /\ \A d \in calls' : Moves(d, u, f) => d.op = b.op
  <2>1. /\ (Moves(c, u, f) /\ c.alone) \/ HalfDone(b)
        /\ \A d \in calls : Moves(d, u, f) => d.op = b.op
    <3>1. CASE b.alone \/ {u, f} \notin unsure
      BY <1>3, <3>1 DEF Pair, OneSide
    <3>2. CASE ~b.alone /\ {u, f} \in unsure
      <4>1. Moves(c, u, f) /\ c.alone
        BY <1>3, <3>2, BackMarks
      <4> QED BY <1>3, <4>1 DEF Pair, OneSide
    <3> QED BY <3>1, <3>2
  <2>2. b.op \in {"register", "unregister"} /\ ((b.from = u /\ b.to = f) \/ (b.from = f /\ b.to = u))
    BY <1>3, BetweenThem
  <2>3. b.from \in Registered
    BY <2>2 DEF TypeInv, CallsInv
  <2>4. Moves(c, u, f) => c.op = b.op
    BY <2>1
  <2>5. HalfDone(b)'
    <3>1. CASE Moves(c, u, f) /\ c.alone
      <4>1. (b.op = "register" /\ f \in Registered => x # <<>> /\ RowOf(f, u) # <<>>)
            /\ (b.op = "unregister" => x = <<>> /\ RowOf(f, u) = <<>>)
        BY <1>2, <2>4, <3>1
      <4>2. b.to \in Registered => f \in Registered
        BY <2>2, <2>3
      <4> QED BY <1>2, <2>2, <4>1, <4>2 DEF HalfDone
    <3>2. CASE HalfDone(b) /\ x = RowOf(u, f)
      <4>1. RowOf(b.from, b.to)' = RowOf(b.from, b.to) /\ RowOf(b.to, b.from)' = RowOf(b.to, b.from)
        BY <1>2, <2>2, <3>2
      <4> QED BY <3>2, <4>1 DEF HalfDone
    <3>3. CASE c.op = "register" /\ f \notin Registered
      <4>1. b.op = "register"
        BY <1>1, <2>4, <3>3
      <4>2. b.to \notin Registered
        BY <2>2, <2>3, <3>3
      <4> QED BY <4>1, <4>2 DEF HalfDone
    <3> QED BY <1>2, <2>1, <3>1, <3>2, <3>3
  <2> QED BY <1>1, <2>1, <2>5
<1>4. \A b : Moves(b, u, f)' <=> Moves(b, u, f)
  BY DEF Moves
<1> QED BY <1>1, <1>3, <1>4 DEF OneSide

(* It keeps the rest. *)
LEMMA BackPair ==
  ASSUME TypeInv, NEW c \in calls, NEW u, NEW f, u = c.from, f = c.to, u # f, Pair(u, f), NEW x, Back(c, x)
  PROVE  Pair(u, f)'
<1>1. /\ calls' = calls \ {c} /\ (Moves(c, u, f) <=> c.op \in {"register", "unregister"})
      /\ Changes(c, u, f) /\ c.reply # "none"
  BY DEF Back, Returns, Moves, Changes
<1>2. /\ RowOf(u, f)' = x /\ RowOf(f, u)' = RowOf(f, u)
      /\ x = RowOf(u, f)
           \/ (x = <<>> /\ RowOf(f, u) = <<>> /\ c.op = "register" /\ f \notin Registered)
      /\ Moves(c, u, f) /\ (c.alone \/ {u, f} \notin unsure) =>
           /\ x = <<>> <=> RowOf(f, u) = <<>>
           /\ c.op = "register" /\ f \in Registered => x # <<>>
           /\ c.op = "unregister" => x = <<>>
  BY BackRows
<1>3. \A b : (Moves(b, u, f)' <=> Moves(b, u, f)) /\ (Changes(b, u, f)' <=> Changes(b, u, f))
  BY DEF Moves, Changes
<1>4. Agree(u, f)'
  <2> SUFFICES ASSUME {u, f} \notin unsure', \A b \in calls' : Moves(b, u, f) => b.lost
               PROVE  x = <<>> <=> RowOf(f, u) = <<>>
    BY <1>2, <1>3 DEF Agree
  <2>1. CASE Moves(c, u, f)
    BY <1>2, <2>1, BackMarks
  <2>2. CASE ~Moves(c, u, f)
    <3>1. {u, f} \notin unsure /\ \A b \in calls : Moves(b, u, f) => b.lost
      BY <1>1, <2>2, BackMarks
    <3>2. RowOf(u, f) = <<>> <=> RowOf(f, u) = <<>>
      BY <3>1 DEF Pair, Agree
    <3> QED BY <1>1, <1>2, <2>2, <3>2
  <2> QED BY <2>1, <2>2
<1>5. ASSUME c.op = "unregister", c.alone
      PROVE  /\ x = <<>> /\ RowOf(f, u) = <<>>
             /\ \A b \in calls : Changes(b, u, f) => b.op # "register"
  <2>1. Moves(c, u, f)
    BY <1>1, <1>5
  <2>2. \A b \in calls : Moves(b, u, f) => b.op = c.op
    BY <1>5, <2>1 DEF Pair, OneSide
  <2>3. x = <<>> /\ RowOf(f, u) = <<>>
    BY <1>2, <1>5, <2>1
  <2> QED BY <1>5, <2>2, <2>3 DEF Moves, Changes
<1>6. OneKind(u, f)'
  <2> SUFFICES ASSUME {u, f} \notin odd', NEW b \in calls, b \in calls', Changes(b, u, f)
               PROVE  /\ b.op = "register" <=> c.op = "register"
                      /\ b.op = "accept" => RowOf(b.from, b.to)' # <<FALSE>>
    BY <1>1, <1>3 DEF OneKind
  <2>1. (b.from = u /\ b.to = f) \/ (b.from = f /\ b.to = u)
    BY BetweenThem
  <2>2. CASE c.op = "unregister" /\ c.alone
    <3>1. x = <<>> /\ RowOf(f, u) = <<>> /\ b.op # "register"
      BY <1>5, <2>2
    <3>2. RowOf(b.from, b.to)' = <<>>
      BY <1>2, <2>1, <3>1
    <3> QED BY <2>2, <3>1, <3>2, RowFacts
  <2>3. CASE {u, f} \notin odd
    <3>1. /\ b.op = "register" <=> c.op = "register"
          /\ b.op = "accept" => RowOf(b.from, b.to) # <<FALSE>>
      BY <1>1, <2>3 DEF Pair, OneKind
    <3> QED BY <1>2, <2>1, <3>1
  <2> QED BY <2>2, <2>3, BackMarks
<1>7. Shared(u, f)'
  <2> SUFFICES ASSUME {u, f} \notin odd'
               PROVE  RowOf(u, f)' = RowOf(f, u)' \/ Behind(u, f)' \/ Behind(f, u)'
    BY DEF Shared
  <2>1. CASE c.op = "unregister" /\ c.alone
    BY <1>2, <1>5, <2>1
  <2>2. CASE x = <<>> /\ RowOf(f, u) = <<>>
    BY <1>2, <2>2
  <2>3. CASE {u, f} \notin odd /\ x = RowOf(u, f) /\ ~(x = <<>> /\ RowOf(f, u) = <<>>)
    <3>1. ASSUME c.op = "register" PROVE c.reply = "success"
      <4>1. f \in Registered \/ (c.reply = "user not found" /\ x = <<>>)
        BY <1>1, <3>1 DEF TypeInv, CallsInv, Back
      <4>2. f \notin Registered => RowOf(f, u) = <<>>
        BY DEF TypeInv, TablesInv, CallsInv, Calls
      <4> QED BY <1>1, <2>3, <3>1, <4>1, <4>2 DEF TypeInv, CallsInv
    <3>2. ASSUME NEW d \in calls, BehindBy(d, u, f) PROVE Behind(u, f)'
      <4>1. d # c
        BY <1>1, <3>1, <3>2 DEF BehindBy
      <4>2. BehindBy(d, u, f)'
        BY <1>2, <2>3, <3>2 DEF BehindBy
      <4> QED BY <1>1, <4>1, <4>2 DEF Behind
    <3>3. ASSUME NEW d \in calls, BehindBy(d, f, u) PROVE Behind(f, u)'
      <4>1. d # c
        BY <3>3 DEF BehindBy
      <4>2. BehindBy(d, f, u)'
        BY <1>2, <2>3, <3>3 DEF BehindBy
      <4> QED BY <1>1, <4>1, <4>2 DEF Behind
    <3> QED BY <1>2, <2>3, <3>2, <3>3 DEF Pair, Shared, Behind
  <2> QED BY <1>2, <2>1, <2>2, <2>3, BackMarks
<1> QED BY <1>4, <1>6, <1>7, BackOneSide DEF Pair

(* An answer that arrives keeps the agreement. *)
LEMMA ReturnsStep ==
  ASSUME TypeInv, PairInv, NEW c \in calls, NEW x, Back(c, x)
  PROVE  PairInv'
<1>1. PICK u, f \in Name : u = c.from /\ f = c.to /\ u # f
  BY DEF TypeInv, CallsInv, Calls
<1>2. Pair(u, f) /\ unsure \subseteq odd
  BY DEF PairInv
<1>3. Pair(u, f)'
  BY <1>1, <1>2, BackPair
<1>4. calls' = calls \ {c} /\ SetsRows(u, f, x, RowOf(f, u))
  BY <1>1 DEF Back, Returns
<1>5. ASSUME NEW v \in Name, NEW g \in Name, {v, g} # {u, f} PROVE Untouched(v, g)
  <2>1. ~Changes(c, v, g)
    BY <1>1, <1>5 DEF Changes
  <2>2. ({v, g} \in unsure' <=> {v, g} \in unsure) /\ ({v, g} \in odd' <=> {v, g} \in odd)
    BY <1>1, <1>5, BackMarks
  <2> QED BY <1>4, <2>1, <2>2 DEF Untouched
<1>6. unsure' \subseteq odd'
  BY <1>1, <1>2, BackMarks
<1> QED BY <1>3, <1>4, <1>5, <1>6, PairStep

(* A call that fails keeps the agreement: its pair is marked. *)
LEMMA FailsStep ==
  ASSUME TypeInv, PairInv, NEW c \in calls, c.op # "status", CallFails(c)
  PROVE  PairInv'
<1>1. PICK u, f \in Name : u = c.from /\ f = c.to /\ u # f
  BY DEF TypeInv, CallsInv, Calls
<1>2. PICK a \in Calls : Lost(a, c) /\ calls' \in {calls \ {c}, (calls \ {c}) \union {a}}
  BY FailedCall
<1>3. /\ UNCHANGED rows
      /\ {u, f} \in odd' /\ (c.op \in {"register", "unregister"} => {u, f} \in unsure')
      /\ c.op \notin {"register", "unregister"} => unsure' = unsure
      /\ \A p : p # {u, f} => (p \in unsure' <=> p \in unsure) /\ (p \in odd' <=> p \in odd)
      /\ unsure \subseteq unsure'
  BY <1>1 DEF CallFails
<1>4. RowOf(u, f)' = RowOf(u, f) /\ RowOf(f, u)' = RowOf(f, u) /\ SetsRows(u, f, RowOf(u, f), RowOf(f, u))
  BY <1>3, SameRows DEF TypeInv, RowOf
<1>5. Pair(u, f) /\ unsure \subseteq odd
  BY DEF PairInv
<1>6. \A b : (Moves(b, u, f)' <=> Moves(b, u, f)) /\ (Changes(b, u, f)' <=> Changes(b, u, f))
  BY DEF Moves, Changes
<1>7. \A b \in calls' : \E e \in calls : /\ e.op = b.op /\ e.from = b.from /\ e.to = b.to
                                         /\ (b.alone <=> e.alone) /\ (e.reply = b.reply \/ b.reply = "none")
  BY <1>2 DEF Lost
<1>8. OneSide(u, f)'
  <2>1. ASSUME NEW b \in calls', Moves(b, u, f), b.alone \/ {u, f} \notin unsure'
        PROVE  HalfDone(b)' /\ \A d \in calls' : Moves(d, u, f) => d.op = b.op
    <3>1. PICK e \in calls : /\ e.op = b.op /\ e.from = b.from /\ e.to = b.to
                             /\ (b.alone <=> e.alone) /\ (e.reply = b.reply \/ b.reply = "none")
      BY <1>7
    <3>2. Moves(e, u, f) /\ (e.alone \/ {u, f} \notin unsure)
      BY <1>3, <2>1, <3>1 DEF Moves
    <3>3. HalfDone(e) /\ \A d \in calls : Moves(d, u, f) => d.op = e.op
      BY <1>5, <3>2 DEF Pair, OneSide
    <3>4. \A d \in calls' : Moves(d, u, f) => d.op = b.op
      BY <1>7, <3>1, <3>3 DEF Moves
    <3>5. (b.from = u /\ b.to = f) \/ (b.from = f /\ b.to = u)
      BY <2>1, BetweenThem
    <3>6. RowOf(b.from, b.to)' = RowOf(b.from, b.to) /\ RowOf(b.to, b.from)' = RowOf(b.to, b.from)
      BY <1>4, <3>5
    <3>7. HalfDone(b)'
      BY <3>1, <3>3, <3>6 DEF HalfDone
    <3> QED BY <3>4, <3>7
  <2> QED BY <1>6, <2>1 DEF OneSide
<1>9. Agree(u, f)'
  <2>1. CASE c.op \in {"register", "unregister"}
    BY <1>3, <2>1 DEF Agree
  <2>2. CASE c.op \notin {"register", "unregister"}
    <3>1. \A b \in calls : Moves(b, u, f) => b \in calls'
      BY <1>2, <2>2 DEF Moves
    <3> QED BY <1>3, <1>4, <1>5, <1>6, <2>2, <3>1 DEF Pair, Agree
  <2> QED BY <2>1, <2>2
<1>10. OneKind(u, f)' /\ Shared(u, f)'
  BY <1>3 DEF OneKind, Shared
<1>11. ASSUME NEW v \in Name, NEW g \in Name, {v, g} # {u, f} PROVE Untouched(v, g)
  <2>1. ~Changes(c, v, g) /\ ~Changes(a, v, g)
    BY <1>1, <1>2, <1>11 DEF Changes, Lost
  <2>2. ({v, g} \in unsure' <=> {v, g} \in unsure) /\ ({v, g} \in odd' <=> {v, g} \in odd)
    BY <1>3, <1>11
  <2> QED BY <1>2, <2>1, <2>2 DEF Untouched
<1>12. unsure' \subseteq odd'
  BY <1>3, <1>5
<1>13. Pair(u, f)'
  BY <1>8, <1>9, <1>10 DEF Pair
<1> QED BY <1>4, <1>11, <1>12, <1>13, PairStep

(* Steps about the status of a user concern no rows. *)
LEMMA StatusStep ==
  ASSUME PairInv, UNCHANGED <<rows, unsure, odd>>,
         \A c \in calls' : c.op # "status" => c \in calls,
         \A c \in calls : c.op # "status" => c \in calls'
  PROVE  PairInv'
<1>1. ASSUME NEW v \in Name, NEW g \in Name PROVE Pair(v, g)'
  <2>1. Untouched(v, g)
    BY DEF Untouched, Changes
  <2>2. RowOf(v, g)' = RowOf(v, g) /\ RowOf(g, v)' = RowOf(g, v)
    BY DEF RowOf
  <2>3. Pair(v, g)
    BY DEF PairInv
  <2> QED BY <2>1, <2>2, <2>3, OtherPair
<1> QED BY <1>1 DEF PairInv

(***************************************************************************)
(* Every step keeps the agreement.                                         *)
(***************************************************************************)
LEMMA NextPairInv ==
  ASSUME TypeInv, TypeInv', PairInv, [Next]_vars PROVE PairInv'
<1> USE DEF TypeInv
<1>1. ASSUME NEW u \in Name, NEW f \in Name, RegisterFriend(u, f) PROVE PairInv'
  <2>1. Request("register", u, f) /\ u # f
    BY <1>1 DEF RegisterFriend, Request
  <2>2. CASE Home[f] = Home[u]
    <3>1. SetsRows(u, f, Inserted(RowOf(u, f)), Inserted(RowOf(f, u)))
      BY <1>1, <2>2, RegisterRows
    <3>2. \A row : Inserted(row) # <<>>
      BY RowFacts DEF Inserted
    <3>3. UNCHANGED calls
      BY <1>1, <2>2 DEF RegisterFriend
    <3> QED BY <2>1, <2>2, <3>1, <3>2, <3>3, LocalRequest
  <2>3. CASE Home[f] # Home[u]
    <3>1. SetsRows(u, f, Inserted(RowOf(u, f)), RowOf(f, u))
      BY <1>1, <2>3, RegisterRows
    <3>2. Call("register", u, f, stat[u], {})
      BY <1>1, <2>3 DEF RegisterFriend
    <3>3. Made("register", u, f, Inserted(RowOf(u, f)))
      BY <2>1, <3>1, <3>2 DEF Made
    <3> QED BY <2>1, <3>3, RemoteRequest
  <2> QED BY <2>2, <2>3
<1>2. ASSUME NEW u \in Name, NEW f \in Name, UnregisterFriend(u, f) PROVE PairInv'
  <2>1. Request("unregister", u, f) /\ u # f
    BY <1>2 DEF UnregisterFriend, Request
  <2>2. Replaces(Home[u], Delete(Delete(rows[Home[u]], u, f), f, u))
    BY <1>2 DEF UnregisterFriend, Replaces
  <2>3. CASE Home[f] = Home[u]
    <3>1. SetsRows(u, f, <<>>, <<>>)
      BY <2>1, <2>2, <2>3, UnregisterRows
    <3>2. UNCHANGED calls
      BY <1>2, <2>3 DEF UnregisterFriend
    <3> QED BY <2>1, <2>3, <3>1, <3>2, LocalRequest
  <2>4. CASE Home[f] # Home[u]
    <3>1. SetsRows(u, f, <<>>, RowOf(f, u))
      BY <2>1, <2>2, <2>4, UnregisterRows
    <3>2. Call("unregister", u, f, stat[u], {})
      BY <1>2, <2>4 DEF UnregisterFriend
    <3>3. Made("unregister", u, f, <<>>)
      BY <2>1, <3>1, <3>2 DEF Made
    <3> QED BY <2>1, <3>3, RemoteRequest
  <2> QED BY <2>3, <2>4
<1>3. ASSUME NEW u \in Name, NEW f \in Name, AcceptFriend(u, f) PROVE PairInv'
  <2>1. Request("accept", u, f) /\ u # f
    BY <1>3 DEF AcceptFriend, Request
  <2>2. CASE Home[f] = Home[u]
    <3>1. SetsRows(u, f, Accepted(RowOf(u, f)), Accepted(RowOf(f, u)))
      BY <1>3, <2>2, AcceptRows
    <3>2. UNCHANGED calls
      BY <1>3, <2>2 DEF AcceptFriend
    <3>3. \A row \in Rows : Accepted(row) = <<>> <=> row = <<>>
      BY AcceptedRow
    <3>4. RowOf(u, f) \in Rows /\ RowOf(f, u) \in Rows
      BY TableOf
    <3>5. (RowOf(u, f) = <<>> <=> RowOf(f, u) = <<>>) =>
            (Accepted(RowOf(u, f)) = <<>> <=> Accepted(RowOf(f, u)) = <<>>)
      BY <3>3, <3>4
    <3> QED BY <2>1, <2>2, <3>1, <3>2, <3>5, LocalRequest
  <2>3. CASE Home[f] # Home[u]
    <3>1. SetsRows(u, f, Accepted(RowOf(u, f)), RowOf(f, u))
      BY <1>3, <2>3, AcceptRows
    <3>2. Call("accept", u, f, stat[u], {})
      BY <1>3, <2>3 DEF AcceptFriend
    <3>3. Made("accept", u, f, Accepted(RowOf(u, f)))
      BY <2>1, <3>1, <3>2 DEF Made
    <3> QED BY <2>1, <3>3, RemoteRequest
  <2> QED BY <2>2, <2>3
<1>4. ASSUME NEW u \in Name, NEW new \in {"online", "busy"}, TellFriends(u, new) PROVE PairInv'
  <2>1. UNCHANGED <<rows, unsure, odd>>
    BY <1>4 DEF TellFriends
  <2>2. calls' = calls \/ \E f \in Name : \E later \in SUBSET Name : Call("status", u, f, new, later)
    BY <1>4 DEF TellFriends, AcceptedBy
  <2>3. /\ \A c \in calls' : c.op # "status" => c \in calls
        /\ \A c \in calls : c.op # "status" => c \in calls'
    <3>1. CASE calls' = calls
      BY <3>1
    <3>2. ASSUME NEW f \in Name, NEW later \in SUBSET Name, Call("status", u, f, new, later) PROVE <2>3
      <4>1. PICK n \in calls' : NewCall(n, "status", u, f)
        BY <3>2, CallMade
      <4>2. \A c : ~CrossesRow(c, "status")
        BY DEF CrossesRow
      <4> QED BY <3>2, <4>1, <4>2 DEF NewCall
    <3> QED BY <2>2, <3>1, <3>2
  <2> QED BY <2>1, <2>3, StatusStep
<1>5. ASSUME NEW c \in calls, ServerSendFriend(c) PROVE PairInv'
  <2>1. c.op = "register" /\ c.reply = "none" /\ UNCHANGED <<unsure, odd>>
    BY <1>5 DEF ServerSendFriend
  <2>2. CASE c.to \in Registered
    <3>1. SetsRows(c.to, c.from, Inserted(RowOf(c.to, c.from)), RowOf(c.from, c.to))
      BY <1>5, <2>2, AnswerRows
    <3>2. Answer(c, "success")
      BY <1>5, <2>2 DEF ServerSendFriend
    <3>3. Done(c, "success", Inserted(RowOf(c.to, c.from)))
      BY <2>1, <2>2, <3>1, <3>2 DEF Done
    <3> QED BY <3>3, AnswerStep
  <2>3. CASE c.to \notin Registered
    <3>1. SetsRows(c.to, c.from, RowOf(c.to, c.from), RowOf(c.from, c.to))
      BY <1>5, <2>3, AnswerRows
    <3>2. Answer(c, "user not found")
      BY <1>5, <2>3 DEF ServerSendFriend
    <3>3. Done(c, "user not found", RowOf(c.to, c.from))
      BY <2>1, <2>3, <3>1, <3>2 DEF Done
    <3> QED BY <3>3, AnswerStep
  <2> QED BY <2>2, <2>3
<1>6. ASSUME NEW c \in calls, ServerSendUnfriend(c) PROVE PairInv'
  <2>1. c.op = "unregister" /\ c.reply = "none" /\ UNCHANGED <<unsure, odd>> /\ Answer(c, "success")
    BY <1>6 DEF ServerSendUnfriend
  <2>2. SetsRows(c.to, c.from, <<>>, RowOf(c.from, c.to))
    BY <1>6, AnswerRows
  <2>3. Done(c, "success", <<>>)
    BY <2>1, <2>2 DEF Done
  <2> QED BY <2>3, AnswerStep
<1>7. ASSUME NEW c \in calls, ServerAcceptFriend(c) PROVE PairInv'
  <2>1. c.op = "accept" /\ c.reply = "none" /\ UNCHANGED <<unsure, odd>>
    BY <1>7 DEF ServerAcceptFriend
  <2>2. PICK reply : reply # "none" /\ Answer(c, reply)
    BY <1>7 DEF ServerAcceptFriend
  <2>3. PICK x : /\ SetsRows(c.to, c.from, x, RowOf(c.from, c.to))
                 /\ x = IF c.to \in Registered THEN Accepted(RowOf(c.to, c.from)) ELSE RowOf(c.to, c.from)
    BY <1>7, AnswerRows
  <2>4. Done(c, reply, x)
    BY <2>1, <2>2, <2>3 DEF Done
  <2> QED BY <2>4, AnswerStep
<1>8. ASSUME NEW c \in calls, c.op = "status",
             ServerStatusChange(c) \/ Returns(c) \/ CallFails(c)
      PROVE  PairInv'
  <2>1. c \in Calls
    BY DEF CallsInv
  <2>2. UNCHANGED <<rows, unsure, odd>>
    BY <1>8 DEF ServerStatusChange, Returns, CallFails, Reconciles
  <2>3. \E a : a.op = "status" /\ calls' \in {calls \ {c}, (calls \ {c}) \union {a}}
    <3>1. ASSUME NEW reply, Answer(c, reply) PROVE <2>3
      <4>1. PICK a : Becomes(a, c, reply) /\ calls' = (calls \ {c}) \union (IF c.lost THEN {} ELSE {a})
        BY <3>1, AnswerCalls
      <4> QED BY <1>8, <4>1 DEF Becomes
    <3>2. ASSUME CallFails(c) PROVE <2>3
      BY <1>8, <3>2, FailedCall DEF Lost
    <3>3. ASSUME Returns(c) PROVE <2>3
      BY <1>8, <3>3 DEF Returns
    <3>4. (\E reply : Answer(c, reply)) \/ Returns(c) \/ CallFails(c)
      BY <1>8 DEF ServerStatusChange
    <3> QED BY <3>1, <3>2, <3>3, <3>4
  <2>4. /\ \A b \in calls' : b.op # "status" => b \in calls
        /\ \A b \in calls : b.op # "status" => b \in calls'
    BY <1>8, <2>3
  <2> QED BY <2>2, <2>4, StatusStep
<1>9. ASSUME NEW c \in calls, ServerStatusChange(c) \/ Returns(c) \/ CallFails(c) PROVE PairInv'
  <2>1. CASE c.op = "status"
    BY <1>8, <1>9, <2>1
  <2>2. ASSUME c.op # "status", Returns(c) PROVE PairInv'
    <3>1. PICK x : /\ SetsRows(c.from, c.to, x, RowOf(c.to, c.from))
                   /\ x = IF c.op = "register" /\ c.reply = "user not found" THEN <<>> ELSE RowOf(c.from, c.to)
      BY <2>2, AnswerRows
    <3>2. c.op \in {"register", "unregister", "accept"}
      BY <2>2 DEF CallsInv, Calls
    <3>3. Back(c, x)
      BY <2>2, <3>1, <3>2 DEF Back
    <3> QED BY <3>3, ReturnsStep
  <2>3. ASSUME c.op # "status", CallFails(c) PROVE PairInv'
    BY <2>3, FailsStep
  <2> QED BY <1>9, <2>1, <2>2, <2>3 DEF ServerStatusChange
<1>10. ASSUME UNCHANGED vars PROVE PairInv'
  <2>1. UNCHANGED <<rows, calls, unsure, odd>>
    BY <1>10 DEF vars
  <2> QED BY <2>1, StatusStep
<1> QED BY <1>1, <1>2, <1>3, <1>4, <1>5, <1>6, <1>7, <1>9, <1>10 DEF Next, DoAuth, StatusChanged

(***************************************************************************)
(* The servers of two users agree that they are friends or that they are   *)
(* not (motmot.py:244) whenever nobody waits for a request that makes or   *)
(* ends the friendship, unless such requests have failed or crossed and    *)
(* none has been answered since that no other had crossed.                 *)
(***************************************************************************)
THEOREM FriendsAreBidirectional == Spec => []Bidirectional
<1>1. TypeInv /\ PairInv => Bidirectional
  <2> SUFFICES ASSUME PairInv, NEW u \in Name, NEW f \in Name,
                      Settled(u, f, {"register", "unregister"}), {u, f} \notin unsure
               PROVE  Has(rows[Home[u]], u, f) <=> Has(rows[Home[f]], f, u)
    BY DEF Bidirectional
  <2>1. \A c \in calls : Moves(c, u, f) => c.lost
    BY DEF Settled, About, Moves
  <2>2. RowOf(u, f) = <<>> <=> RowOf(f, u) = <<>>
    BY <2>1 DEF PairInv, Pair, Agree
  <2> QED BY <2>2 DEF RowOf, Has
<1> QED BY <1>1, InitTypeInv, NextTypeInv, InitPairInv, NextPairInv, PTL DEF Spec

(***************************************************************************)
(* They also agree on whether it was accepted, unless requests about them  *)
(* have failed or crossed since they last were no friends.                 *)
(***************************************************************************)
THEOREM AcceptanceIsShared == Spec => []AcceptedByBoth
<1>1. TypeInv /\ PairInv => AcceptedByBoth
  <2> SUFFICES ASSUME PairInv, NEW u \in Name, NEW f \in Name,
                      Settled(u, f, {"register", "unregister", "accept"}), {u, f} \notin odd
               PROVE  rows[Home[u]][<<u, f>>] = rows[Home[f]][<<f, u>>]
    BY DEF AcceptedByBoth
  <2>1. \A c \in calls : c.op \in {"register", "unregister", "accept"} /\ {c.from, c.to} = {u, f} => c.lost
    BY DEF Settled, About
  <2>2. {f, u} = {u, f}
    OBVIOUS
  <2>3. ~Behind(u, f) /\ ~Behind(f, u)
    BY <2>1, <2>2 DEF Behind, BehindBy
  <2>4. RowOf(u, f) = RowOf(f, u)
    BY <2>3 DEF PairInv, Pair, Shared
  <2> QED BY <2>4 DEF RowOf
<1> QED BY <1>1, InitTypeInv, NextTypeInv, InitPairInv, NextPairInv, PTL DEF Spec

=============================================================================
