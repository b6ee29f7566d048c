------------------------------ MODULE PeerIOProofs ------------------------------
(***************************************************************************)
(* Proofs about PeerIO, for every size of messages, channels and sockets   *)
(* and every number of sends, failed dispatches and closed ends: there is  *)
(* one write watch while there is something to write and none otherwise,   *)
(* and both directions of the connection implement Channel.                *)
(*                                                                         *)
(* The argument is about positions.  The bytes that an end sends in all of *)
(* its life are numbered.  Every buffer between the sender and the unpacker*)
(* holds consecutive bytes, the next buffer going on where it ends, and    *)
(* the unpacker begins right behind the last message that was dispatched.  *)
(* Two such buffers with the same first byte and the same length are equal,*)
(* so that what a step does to the stream is a matter of its lengths.      *)
(***************************************************************************)
EXTENDS PeerIO, TLAPS

(* A byte on its way: the message it is of, and its place in that. *)
Byte == (Nat \ {0}) \X (1 .. Size)

(* The number of a byte among those that an end sends. *)
Nth(b) == (b[1] - 1) * Size + b[2]

(* s holds the bytes behind the p-th up to the q-th. *)
Piece(s, p, q) ==
  /\ s \in Seq(Byte) /\ p <= q /\ Len(s) = q - p
  /\ \A i \in 1 .. (q - p) : Nth(s[i]) = p + i

-----------------------------------------------------------------------------
(* The constants are numbers, and no size is zero. *)
LEMMA SizeFacts == /\ Size \in Nat \ {0} /\ ChanSize \in Nat \ {0} /\ SockSize \in Nat \ {0}
                   /\ MaxSends \in Nat /\ MaxFails \in Nat /\ MaxCloses \in Nat
BY SizesAssumption, BoundsAssumption

(* What is written at once is bounded by both of its bounds. *)
LEMMA SmallerFacts ==
  ASSUME NEW a \in Nat, NEW b \in Nat
  PROVE  Smaller(a, b) \in Nat /\ Smaller(a, b) <= a /\ Smaller(a, b) <= b
BY DEF Smaller

(* How many whole messages there are in a bytes. *)
LEMMA Whole ==
  ASSUME NEW a \in Nat
  PROVE  a \div Size \in Nat /\ (a \div Size) * Size <= a /\ a < (a \div Size) * Size + Size
BY SizeFacts

(* The number of whole messages is the only one with that property. *)
LEMMA WholeUnique ==
  ASSUME NEW a \in Nat, NEW q \in Nat, q * Size <= a, a < q * Size + Size
  PROVE  a \div Size = q
BY SizeFacts

(* More messages take at least one message more of bytes. *)
LEMMA MoreMessages ==
  ASSUME NEW m \in Nat, NEW n \in Nat, m < n
  PROVE  m * Size + Size <= n * Size
BY SizeFacts

(* The number of a byte determines it. *)
LEMMA NthDetermines ==
  ASSUME NEW b \in Byte, NEW c \in Byte, Nth(b) = Nth(c)
  PROVE  b = c
<1>1. PICK m \in Nat, k \in 1 .. Size : b = <<m + 1, k>> /\ Nth(b) = m * Size + k
  <2>1. PICK m \in Nat \ {0}, k \in 1 .. Size : b = <<m, k>>
    BY DEF Byte
  <2>2. m - 1 \in Nat /\ m = (m - 1) + 1
    BY <2>1
  <2> QED BY <2>1, <2>2 DEF Nth
<1>2. PICK n \in Nat, l \in 1 .. Size : c = <<n + 1, l>> /\ Nth(c) = n * Size + l
  <2>1. PICK n \in Nat \ {0}, l \in 1 .. Size : c = <<n, l>>
    BY DEF Byte
  <2>2. n - 1 \in Nat /\ n = (n - 1) + 1
    BY <2>1
  <2> QED BY <2>1, <2>2 DEF Nth
<1>3. PICK x \in Nat : x = m * Size
  BY SizeFacts
<1>4. PICK y \in Nat : y = n * Size
  BY SizeFacts
<1>5. x + k = y + l
  BY <1>1, <1>2, <1>3, <1>4
<1>6. (m < n => x + Size <= y) /\ (n < m => y + Size <= x) /\ (m = n => x = y)
  BY <1>3, <1>4, MoreMessages
<1>7. m = n /\ k = l
  BY <1>5, <1>6, SizeFacts
<1> QED BY <1>1, <1>2, <1>7

(* So its place determines a piece. *)
LEMMA PieceUnique ==
  ASSUME NEW s, NEW t, NEW p \in Nat, NEW q \in Nat, Piece(s, p, q), Piece(t, p, q)
  PROVE  s = t
<1>1. s \in Seq(Byte) /\ t \in Seq(Byte) /\ Len(s) = q - p /\ Len(t) = q - p
  BY DEF Piece
<1>2. ASSUME NEW i \in 1 .. Len(s) PROVE s[i] = t[i]
  <2>1. s[i] \in Byte /\ t[i] \in Byte /\ Nth(s[i]) = Nth(t[i])
    BY <1>1, <1>2 DEF Piece
  <2> QED BY <2>1, NthDetermines
<1> QED BY <1>1, <1>2

(* An empty buffer is a piece at every place. *)
LEMMA PieceEmpty == ASSUME NEW p \in Nat PROVE Piece(<<>>, p, p)
BY DEF Piece

(* Only the empty piece ends where it begins. *)
LEMMA PieceLen ==
  ASSUME NEW s, NEW p \in Nat, NEW q \in Nat, Piece(s, p, q)
  PROVE  s \in Seq(Byte) /\ p <= q /\ Len(s) = q - p /\ Len(s) \in Nat
BY DEF Piece

(* Two adjacent pieces are one. *)
LEMMA PieceConcat ==
  ASSUME NEW s, NEW t, NEW p \in Nat, NEW q \in Nat, NEW r \in Nat, Piece(s, p, q), Piece(t, q, r)
  PROVE  Piece(s \o t, p, r)
<1>1. s \in Seq(Byte) /\ t \in Seq(Byte) /\ Len(s) = q - p /\ Len(t) = r - q /\ p <= q /\ q <= r
  BY DEF Piece
<1>2. s \o t \in Seq(Byte) /\ Len(s \o t) = r - p
  BY <1>1
<1>3. ASSUME NEW i \in 1 .. (r - p) PROVE Nth((s \o t)[i]) = p + i
  <2>1. CASE i <= q - p
    <3>1. (s \o t)[i] = s[i] /\ i \in 1 .. (q - p)
      BY <1>1, <1>2, <1>3, <2>1
    <3> QED BY <3>1 DEF Piece
  <2>2. CASE i > q - p
    <3>1. i - (q - p) \in 1 .. (r - q) /\ (s \o t)[i] = t[i - (q - p)]
      BY <1>1, <1>2, <1>3, <2>2
    <3>2. Nth(t[i - (q - p)]) = q + (i - (q - p))
      BY <3>1 DEF Piece
    <3> QED BY <1>1, <1>2, <1>3, <3>1, <3>2
  <2> QED BY <1>1, <1>2, <1>3, <2>1, <2>2
<1> QED BY <1>1, <1>2, <1>3 DEF Piece

(* A part of a piece is a piece. *)
LEMMA PieceSub ==
  ASSUME NEW s, NEW p \in Nat, NEW r \in Nat, Piece(s, p, r), NEW a \in Nat, NEW b \in Nat, a <= b, b <= r - p
  PROVE  Piece(SubSeq(s, a + 1, b), p + a, p + b)
<1>1. s \in Seq(Byte) /\ Len(s) = r - p
  BY DEF Piece
<1>2. /\ SubSeq(s, a + 1, b) \in Seq(Byte) /\ Len(SubSeq(s, a + 1, b)) = b - a
      /\ \A i \in 1 .. (b - a) : SubSeq(s, a + 1, b)[i] = s[a + i]
  BY <1>1
<1>3. ASSUME NEW i \in 1 .. (b - a) PROVE Nth(SubSeq(s, a + 1, b)[i]) = (p + a) + i
  <2>1. a + i \in 1 .. (r - p) /\ SubSeq(s, a + 1, b)[i] = s[a + i]
    BY <1>1, <1>2, <1>3
  <2>2. Nth(s[a + i]) = p + (a + i)
    BY <2>1 DEF Piece
  <2> QED BY <2>1, <2>2, <1>3
<1>4. (p + b) - (p + a) = b - a /\ p + a <= p + b
  OBVIOUS
<1> QED BY <1>2, <1>3, <1>4 DEF Piece

(* What is taken off a piece and what is left are pieces. *)
LEMMA PieceTake ==
  ASSUME NEW s, NEW p \in Nat, NEW r \in Nat, Piece(s, p, r), NEW n \in Nat, n <= r - p
  PROVE  Piece(Take(s, n), p, p + n) /\ Piece(Drop(s, n), p + n, r)
<1>1. PICK l \in Nat : l = r - p /\ Len(s) = l /\ p + l = r /\ n <= l /\ l <= r - p
  BY DEF Piece
<1>2. PICK z \in Nat : z = 0 /\ z + 1 = 1 /\ p + z = p /\ z <= n
  OBVIOUS
<1>3. Piece(SubSeq(s, z + 1, n), p + z, p + n)
  BY <1>2, PieceSub
<1>4. Piece(SubSeq(s, n + 1, l), p + n, p + l)
  BY <1>1, PieceSub
<1> QED BY <1>1, <1>2, <1>3, <1>4 DEF Take, Drop

(* The bytes of a message. *)
LEMMA BytesPiece ==
  ASSUME NEW m \in Nat
  PROVE  Piece(Bytes(m + 1), m * Size, m * Size + Size)
<1>1. Bytes(m + 1) \in Seq(Byte) /\ Len(Bytes(m + 1)) = Size
  BY SizeFacts DEF Bytes, Byte
<1>2. ASSUME NEW i \in 1 .. Size PROVE Nth(Bytes(m + 1)[i]) = m * Size + i
  <2>1. Bytes(m + 1)[i] = <<m + 1, i>> /\ (m + 1) - 1 = m
    BY <1>2 DEF Bytes
  <2> QED BY <2>1 DEF Nth
<1>3. PICK x \in Nat : x = m * Size
  BY SizeFacts
<1>4. (x + Size) - x = Size /\ x <= x + Size
  BY SizeFacts
<1> QED BY <1>1, <1>2, <1>3, <1>4 DEF Piece

(* What msgpack_unpacker_next finds behind the first m messages. *)
Following(m, n) == [j \in 1 .. n |-> m + j]

(* The messages that the unpacker finds in a piece follow each other. *)
LEMMA MessagesPiece ==
  ASSUME NEW m \in Nat, NEW n \in Nat, NEW s, NEW q \in Nat, Piece(s, m * Size, q), m * Size + n * Size <= q
  PROVE  NextMessages(s, n) = Following(m, n)
<1>1. ASSUME NEW j \in 1 .. n
      PROVE  Unpacked(SubSeq(s, (j - 1) * Size + 1, j * Size)) = m + j
  <2>1. PICK i \in Nat : j = i + 1 /\ i < n
    BY <1>1
  <2>2. PICK p \in Nat, a \in Nat, x \in Nat :
          p = m * Size /\ a = i * Size /\ x = n * Size /\ (m + i) * Size = p + a
    BY SizeFacts
  <2>3. PICK b \in Nat : b = a + Size /\ b = j * Size /\ a <= b /\ b <= q - p
    <3>1. a + Size <= x
      BY <2>1, <2>2, MoreMessages
    <3>2. a + Size = j * Size
      BY <2>1, <2>2, SizeFacts
    <3>3. p + x <= q
      BY <2>2
    <3> QED BY <3>1, <3>2, <3>3, SizeFacts
  <2>4. PICK t : t = SubSeq(s, a + 1, b)
    OBVIOUS
  <2>5. Piece(t, p + a, p + b)
    <3>1. Piece(s, p, q)
      BY <2>2
    <3> QED BY <2>3, <2>4, <3>1, PieceSub
  <2>6. t = Bytes((m + i) + 1)
    <3>1. m + i \in Nat /\ p + a \in Nat /\ p + b \in Nat /\ p + b = (p + a) + Size
      BY <2>3, SizeFacts
    <3>2. Piece(Bytes((m + i) + 1), p + a, p + b)
      BY <2>2, <3>1, BytesPiece
    <3> QED BY <2>5, <3>1, <3>2, PieceUnique
  <2>7. t[1][1] = (m + i) + 1
    BY <2>6, SizeFacts DEF Bytes
  <2>8. Unpacked(t) = (m + i) + 1
    BY <2>6, <2>7 DEF Unpacked
  <2>9. (j - 1) * Size + 1 = a + 1 /\ j * Size = b /\ m + j = (m + i) + 1
    BY <2>1, <2>2, <2>3
  <2> QED BY <2>4, <2>8, <2>9
<1> QED BY <1>1 DEF NextMessages, Following

-----------------------------------------------------------------------------
(***************************************************************************)
(* One direction of the connection: n messages have been dispatched, u is  *)
(* in the unpacker, s in the socket, c in the channel and w in the write   *)
(* buffer, up to the f-th byte.                                            *)
(***************************************************************************)
Laid(n, u, s, c, w, f) ==
  \E b, d, e \in Nat : Piece(u, n * Size, b) /\ Piece(s, b, d) /\ Piece(c, d, e) /\ Piece(w, e, f)

(* All buffers are empty at first. *)
LEMMA LaidInit == Laid(0, <<>>, <<>>, <<>>, <<>>, 0)
<1>1. 0 * Size = 0 /\ Piece(<<>>, 0, 0)
  BY SizeFacts, PieceEmpty
<1> QED BY <1>1 DEF Laid

(* A message goes into the write buffer. *)
LEMMA LaidSend ==
  ASSUME NEW n \in Nat, NEW m \in Nat, NEW u, NEW s, NEW c, NEW w, Laid(n, u, s, c, w, m * Size)
  PROVE  Laid(n, u, s, c, w \o Bytes(m + 1), m * Size + Size)
<1>1. PICK z \in Nat, y \in Nat : z = m * Size /\ y = z + Size
  BY SizeFacts
<1>2. PICK b, d, e \in Nat : Piece(u, n * Size, b) /\ Piece(s, b, d) /\ Piece(c, d, e) /\ Piece(w, e, z)
  BY <1>1 DEF Laid
<1>3. PICK t : t = Bytes(m + 1) /\ Piece(t, z, y)
  BY <1>1, BytesPiece
<1>4. Piece(w \o t, e, y)
  BY <1>2, <1>3, PieceConcat
<1> QED BY <1>1, <1>2, <1>3, <1>4 DEF Laid

(***************************************************************************)
(* Bytes move from the channel and the write buffer towards the socket: of *)
(* the bytes t of both, j go into the socket and k stay in the channel.    *)
(***************************************************************************)
Moves(c, w, t, j, k) == t = c \o w /\ j \in Nat /\ k \in Nat /\ j + k <= Len(t)

(* Moving bytes from one buffer to the next leaves the stream laid out. *)
LEMMA LaidMove ==
  ASSUME NEW n \in Nat, NEW f \in Nat, NEW u, NEW s, NEW c, NEW w, Laid(n, u, s, c, w, f),
         NEW t, NEW j, NEW k, Moves(c, w, t, j, k)
  PROVE  /\ Laid(n, u, s \o Take(t, j), SubSeq(t, j + 1, j + k), Drop(t, j + k), f)
         /\ Len(s \o Take(t, j)) = Len(s) + j /\ Len(SubSeq(t, j + 1, j + k)) = k
<1>1. PICK b, d, e \in Nat : Piece(u, n * Size, b) /\ Piece(s, b, d) /\ Piece(c, d, e) /\ Piece(w, e, f)
  BY DEF Laid
<1>2. Piece(t, d, f)
  BY <1>1, PieceConcat DEF Moves
<1>3. j \in Nat /\ k \in Nat /\ j + k \in Nat /\ j + k <= f - d /\ j <= f - d /\ j <= j + k
  <2>1. Len(t) = f - d /\ d <= f
    BY <1>2, PieceLen
  <2>2. j + k <= f - d /\ j \in Nat /\ k \in Nat
    BY <2>1 DEF Moves
  <2> QED BY <2>1, <2>2
<1>4. Piece(Take(t, j), d, d + j)
  BY <1>2, <1>3, PieceTake
<1>5. Piece(SubSeq(t, j + 1, j + k), d + j, d + (j + k))
  BY <1>2, <1>3, PieceSub
<1>6. Piece(Drop(t, j + k), d + (j + k), f)
  BY <1>2, <1>3, PieceTake
<1>7. d + j \in Nat /\ d + (j + k) \in Nat
  BY <1>3
<1>8. Piece(s \o Take(t, j), b, d + j)
  BY <1>1, <1>4, <1>7, PieceConcat
<1>9. Len(s \o Take(t, j)) = (d + j) - b /\ Len(s) = d - b /\ Len(SubSeq(t, j + 1, j + k)) = (d + (j + k)) - (d + j)
  BY <1>1, <1>5, <1>7, <1>8, PieceLen
<1>10. (d + j) - b = (d - b) + j /\ (d + (j + k)) - (d + j) = k
  BY <1>3
<1> QED BY <1>1, <1>5, <1>6, <1>7, <1>8, <1>9, <1>10 DEF Laid

(* k bytes are read behind those in the unpacker, and q messages dispatched. *)
Reads(u, s, t, k, q) ==
  /\ k \in Nat /\ q \in Nat /\ t = u \o Take(s, k)
  /\ k <= Len(s) /\ q * Size <= Len(u) + k

(* A read dispatches the messages that follow those dispatched before. *)
LEMMA LaidRead ==
  ASSUME NEW n \in Nat, NEW f \in Nat, NEW u, NEW s, NEW c, NEW w, Laid(n, u, s, c, w, f),
         NEW t, NEW k, NEW q, Reads(u, s, t, k, q)
  PROVE  /\ Laid(n + q, Drop(t, q * Size), Drop(s, k), c, w, f)
         /\ NextMessages(t, q) = Following(n, q)
         /\ Len(Drop(t, q * Size)) = (Len(u) + k) - q * Size
         /\ Len(Drop(s, k)) = Len(s) - k
<1>1. PICK b, d, e \in Nat : Piece(u, n * Size, b) /\ Piece(s, b, d) /\ Piece(c, d, e) /\ Piece(w, e, f)
  BY DEF Laid
<1> k \in Nat /\ q \in Nat
  BY DEF Reads
<1>2. PICK a \in Nat, x \in Nat : a = n * Size /\ x = q * Size /\ (n + q) * Size = a + x
  BY SizeFacts
<1>3. Piece(u, a, b) /\ Len(u) = b - a /\ Len(s) = d - b /\ k <= d - b /\ x <= (b - a) + k /\ a <= b
  BY <1>1, <1>2, PieceLen DEF Reads
<1>4. Piece(Take(s, k), b, b + k) /\ Piece(Drop(s, k), b + k, d) /\ b + k \in Nat
  BY <1>1, <1>3, PieceTake
<1>5. Piece(t, a, b + k)
  BY <1>3, <1>4, PieceConcat DEF Reads
<1>6. x <= (b + k) - a /\ a + x \in Nat
  BY <1>3
<1>7. Piece(Drop(t, x), a + x, b + k)
  BY <1>4, <1>5, <1>6, PieceTake
<1>8. Laid(n + q, Drop(t, x), Drop(s, k), c, w, f)
  BY <1>1, <1>2, <1>4, <1>7 DEF Laid
<1>9. NextMessages(t, q) = Following(n, q)
  <2>1. a + x <= b + k
    BY <1>3
  <2> QED BY <1>2, <1>4, <1>5, <2>1, MessagesPiece
<1>10. Len(Drop(t, x)) = (b + k) - (a + x) /\ Len(Drop(s, k)) = d - (b + k)
  BY <1>4, <1>6, <1>7, PieceLen
<1>11. (b + k) - (a + x) = ((b - a) + k) - x /\ d - (b + k) = (d - b) - k
  OBVIOUS
<1> QED BY <1>2, <1>3, <1>8, <1>9, <1>10, <1>11

(* The buffers of a laid-out stream are sequences of bytes. *)
LEMMA LaidSeqs ==
  ASSUME NEW n, NEW f, NEW u, NEW s, NEW c, NEW w, Laid(n, u, s, c, w, f)
  PROVE  u \in Seq(Byte) /\ s \in Seq(Byte) /\ c \in Seq(Byte) /\ w \in Seq(Byte)
BY DEF Laid, Piece

(* The sender is gone, and the socket has got what was in the channel, or not. *)
LEMMA LaidClose ==
  ASSUME NEW n \in Nat, NEW f \in Nat, NEW u, NEW s, NEW c, NEW w, Laid(n, u, s, c, w, f),
         NEW last \in {<<>>, c}
  PROVE  \E g \in Nat : g <= f /\ Laid(n, u, s \o last, <<>>, <<>>, g)
<1>1. PICK b, d, e \in Nat : Piece(u, n * Size, b) /\ Piece(s, b, d) /\ Piece(c, d, e) /\ Piece(w, e, f)
  BY DEF Laid
<1>2. d <= e /\ e <= f
  BY <1>1, PieceLen
<1>3. PICK g \in Nat : Piece(last, d, g) /\ g <= f
  <2>1. CASE last = <<>>
    BY <1>1, <1>2, <2>1, PieceEmpty
  <2>2. CASE last = c
    BY <1>1, <1>2, <2>2
  <2> QED BY <2>1, <2>2
<1>4. Piece(s \o last, b, g) /\ Piece(<<>>, g, g)
  BY <1>1, <1>3, PieceConcat, PieceEmpty
<1> QED BY <1>1, <1>3, <1>4 DEF Laid

(***************************************************************************)
(* The messages on the way are those that follow the n dispatched, as many *)
(* as there are bytes for.                                                 *)
(***************************************************************************)
LEMMA LaidMessages ==
  ASSUME NEW n \in Nat, NEW f \in Nat, NEW u, NEW s, NEW c, NEW w, Laid(n, u, s, c, w, f)
  PROVE  /\ f \div Size \in Nat /\ n <= f \div Size
         /\ NextMessages(u \o s \o c \o w, Len(u \o s \o c \o w) \div Size) = Following(n, f \div Size - n)
<1>1. PICK b, d, e \in Nat : Piece(u, n * Size, b) /\ Piece(s, b, d) /\ Piece(c, d, e) /\ Piece(w, e, f)
  BY DEF Laid
<1>2. PICK a \in Nat : a = n * Size
  BY SizeFacts
<1>3. Piece(u, a, b)
  BY <1>1, <1>2
<1>4. Piece(u \o s, a, d)
  BY <1>1, <1>3, PieceConcat
<1>5. Piece(u \o s \o c, a, e)
  BY <1>1, <1>4, PieceConcat
<1>6. PICK t : t = u \o s \o c \o w /\ Piece(t, a, f)
  BY <1>1, <1>5, PieceConcat
<1>7. PICK l \in Nat : l = Len(t) /\ l = f - a
  BY <1>6, PieceLen
<1>8. PICK q \in Nat : q = l \div Size /\ q * Size <= l /\ l < q * Size + Size
  BY <1>7, Whole
<1>9. PICK x \in Nat : x = q * Size /\ (n + q) * Size = a + x
  BY <1>2, SizeFacts
<1>10. a + x <= f /\ f < (a + x) + Size
  BY <1>7, <1>8, <1>9, SizeFacts
<1>11. NextMessages(t, q) = Following(n, q)
  BY <1>2, <1>6, <1>9, <1>10, MessagesPiece
<1>12. f \div Size = n + q
  BY <1>9, <1>10, WholeUnique
<1> QED BY <1>6, <1>7, <1>8, <1>11, <1>12

-----------------------------------------------------------------------------
(***************************************************************************)
(* The inductive invariant.  The shape of the state, what is known of an   *)
(* end, and, for each direction, where its bytes lie: those that were sent *)
(* end with the f-th, and none of them is lost while the sender lives.     *)
(***************************************************************************)
Peers ==
  [alive : BOOLEAN, wbuf : Seq(Byte), chan : Seq(Byte), unpk : Seq(Byte), in : BOOLEAN, out : Nat]

(* The state is typed. *)
StateInv ==
  /\ peer \in [End -> Peers] /\ sock \in [End -> Seq(Byte)]
  /\ got \in [End -> Seq(Nat)] /\ sends \in [End -> 0 .. MaxSends]
  /\ fails \in 0 .. MaxFails /\ closes \in 0 .. MaxCloses

(* The write watches that go with what is in the write buffer. *)
Watching(w) == IF w = <<>> THEN 0 ELSE 1

(* What holds at one end. *)
EndInv(e) ==
  /\ peer[e].out = Watching(peer[e].wbuf)
  /\ ~peer[e].alive => peer[e] = Gone /\ sock[e] = <<>>
  /\ peer[e].alive /\ peer[Other(e)].alive /\ ~peer[e].in => fails > 0
  /\ Len(peer[e].unpk) < Size \/ fails > 0
  /\ Len(peer[e].chan) <= ChanSize
  /\ Len(sock[e]) <= SockSize + ChanSize
  /\ peer[Other(e)].alive => Len(sock[e]) <= SockSize

(* The stream to end e is laid out, f bytes of it having been accepted. *)
Wire(e, f) ==
  /\ Laid(Len(got[e]), peer[e].unpk, sock[e], peer[Other(e)].chan, peer[Other(e)].wbuf, f)
  /\ f <= sends[Other(e)] * Size
  /\ peer[Other(e)].alive => f = sends[Other(e)] * Size

(* What was dispatched at e are the first messages sent; the rest is on the wire. *)
WireInv(e) ==
  /\ got[e] = Following(0, Len(got[e]))
  /\ Len(got[e]) <= sends[Other(e)]
  /\ peer[e].alive => \E f \in Nat : Wire(e, f)

(* The inductive invariant. *)
Inv == StateInv /\ \A e \in End : EndInv(e) /\ WireInv(e)

(* There are two ends. *)
LEMMA EndFacts ==
  ASSUME NEW e \in End
  PROVE  /\ Other(e) \in End /\ Other(e) # e /\ Other(Other(e)) = e
         /\ \A d \in End : d = e \/ d = Other(e)
         /\ BothAlive <=> peer[e].alive /\ peer[Other(e)].alive
         /\ BothAlive' <=> peer'[e].alive /\ peer'[Other(e)].alive
BY DEF End, Other, BothAlive

(***************************************************************************)
(* What a step can do in direction d: dispatch k messages, send one, lose  *)
(* bytes at the end, or destroy the receiver.                              *)
(***************************************************************************)
Goes(d) ==
  \/ ~peer'[d].alive /\ got'[d] = got[d]
  \/ /\ peer[d].alive /\ peer'[d].alive
     /\ \E f, g \in Nat :
          /\ Wire(d, f) /\ Wire(d, g)'
          /\ \/ /\ g = f /\ (BothAlive' <=> BothAlive)
                /\ \E k \in Nat : got'[d] = Following(0, Len(got[d]) + k)
             \/ g = f + Size /\ got'[d] = got[d] /\ BothAlive /\ BothAlive'
             \/ g <= f /\ got'[d] = got[d] /\ ~BothAlive'

(* A step that does not concern direction d. *)
LEMMA Unmoved ==
  ASSUME Inv, NEW d \in End,
         UNCHANGED <<peer[d].alive, peer[d].unpk, sock[d], got[d], sends[Other(d)]>>,
         UNCHANGED <<peer[Other(d)].alive, peer[Other(d)].chan, peer[Other(d)].wbuf>>
  PROVE  Goes(d)
<1>1. CASE ~peer[d].alive
  BY <1>1 DEF Goes
<1>2. CASE peer[d].alive
  <2>1. PICK f \in Nat : Wire(d, f)
    BY <1>2 DEF Inv, WireInv
  <2>2. Wire(d, f)'
    BY <2>1 DEF Wire
  <2>3. BothAlive' <=> BothAlive
    BY EndFacts
  <2>4. Len(got[d]) \in Nat /\ got[d] = Following(0, Len(got[d]))
    BY DEF Inv, StateInv, WireInv
  <2>5. got'[d] = Following(0, Len(got[d]) + 0) /\ 0 \in Nat
    BY <2>4
  <2> QED BY <1>2, <2>1, <2>2, <2>3, <2>5 DEF Goes
<1> QED BY <1>1, <1>2

(* A send keeps the invariant. *)
LEMMA SendStep ==
  ASSUME Inv, NEW e \in End, PaxosPeerSend(e)
  PROVE  StateInv' /\ \A d \in End : EndInv(d)' /\ Goes(d)
<1>1. PICK o \in End : o = Other(e) /\ o # e /\ Other(o) = e /\ \A d \in End : d = e \/ d = o
  BY EndFacts
<1>2. PICK m \in Nat : m = sends[e] /\ m < MaxSends /\ sends'[e] = m + 1 /\ sends'[o] = sends[o]
  BY <1>1, SizeFacts DEF PaxosPeerSend, Inv, StateInv
<1>3. PICK w \in Seq(Byte) : w = peer[e].wbuf /\ w \o Bytes(m + 1) \in Seq(Byte) /\ w \o Bytes(m + 1) # <<>>
  <2>1. Bytes(m + 1) \in Seq(Byte) /\ Len(Bytes(m + 1)) = Size
    BY SizeFacts DEF Bytes, Byte
  <2>2. peer[e].wbuf \in Seq(Byte)
    BY DEF Inv, StateInv, Peers
  <2> QED BY <2>1, <2>2, SizeFacts
<1>4. PICK p : p = [peer[e] EXCEPT !.wbuf = w \o Bytes(m + 1), !.out = 1]
  OBVIOUS
<1>5. peer[e] \in Peers /\ peer[e].alive /\ peer[e].out = Watching(w)
  BY <1>3 DEF Inv, StateInv, EndInv, PaxosPeerSend
<1>6. peer'[e] = p /\ peer'[o] = peer[o] /\ peer' = [peer EXCEPT ![e] = p]
  <2>1. PICK x : x = IF w = <<>> THEN peer[e].out + 1 ELSE peer[e].out
    OBVIOUS
  <2>2. peer' = [peer EXCEPT ![e] = [peer[e] EXCEPT !.wbuf = w \o Bytes(m + 1), !.out = x]]
    BY <1>2, <1>3, <1>5, <2>1 DEF PaxosPeerSend, Inv, StateInv
  <2>3. x = 1
    BY <1>5, <2>1 DEF Watching
  <2> QED BY <1>1, <1>4, <2>2, <2>3 DEF Inv, StateInv
<1>7. /\ p \in Peers /\ p.alive /\ p.wbuf = w \o Bytes(m + 1) /\ p.out = Watching(p.wbuf)
      /\ p.chan = peer[e].chan /\ p.unpk = peer[e].unpk /\ p.in = peer[e].in /\ p.alive = peer[e].alive
  BY <1>3, <1>4, <1>5 DEF Peers, Watching
<1>8. UNCHANGED <<sock, got, fails, closes>>
  BY DEF PaxosPeerSend
<1>9. StateInv'
  <2>1. sends' \in [End -> 0 .. MaxSends]
    BY <1>2, SizeFacts DEF PaxosPeerSend, Inv, StateInv
  <2> QED BY <1>6, <1>7, <1>8, <2>1 DEF Inv, StateInv
<1>10. EndInv(e)' /\ EndInv(o)'
  BY <1>1, <1>3, <1>6, <1>7, <1>8 DEF Inv, EndInv
<1>11. Goes(e)
  BY <1>1, <1>2, <1>6, <1>7, <1>8, Unmoved
<1>12. Goes(o)
  <2>1. CASE ~peer[o].alive
    BY <1>6, <1>8, <2>1 DEF Goes
  <2>2. CASE peer[o].alive
    <3>1. PICK n \in Nat : n = Len(got[o])
      BY DEF Inv, StateInv
    <3>2. PICK f \in Nat : Wire(o, f) /\ f = m * Size
      BY <1>1, <1>2, <1>5, <2>2 DEF Inv, WireInv, Wire
    <3>3. Laid(n, peer[o].unpk, sock[o], peer[e].chan, w, m * Size)
      BY <1>1, <1>3, <3>1, <3>2 DEF Wire
    <3>4. Laid(n, peer[o].unpk, sock[o], peer[e].chan, w \o Bytes(m + 1), m * Size + Size)
      BY <1>3, <3>1, <3>3, LaidSend
    <3>5. f + Size \in Nat /\ f + Size = (m + 1) * Size
      BY <3>2, SizeFacts
    <3>6. Wire(o, f + Size)'
      BY <1>1, <1>2, <1>6, <1>7, <1>8, <3>1, <3>2, <3>4, <3>5 DEF Wire
    <3>7. BothAlive /\ BothAlive'
      BY <1>1, <1>5, <1>6, <1>7, <2>2, EndFacts
    <3> QED BY <1>6, <1>8, <2>2, <3>2, <3>5, <3>6, <3>7 DEF Goes
  <2> QED BY <2>1, <2>2
<1> QED BY <1>1, <1>9, <1>10, <1>11, <1>12

(* The parts of a sequence of bytes, and their lengths. *)
LEMMA PartsOf ==
  ASSUME NEW c \in Seq(Byte), NEW w \in Seq(Byte), NEW l \in Nat, Len(c \o w) = l,
         NEW j \in Nat, NEW k \in Nat, j + k <= l
  PROVE  /\ c \o w \in Seq(Byte)
         /\ SubSeq(c \o w, j + 1, j + k) \in Seq(Byte) /\ Len(SubSeq(c \o w, j + 1, j + k)) = k
         /\ Take(c \o w, j) \in Seq(Byte) /\ Len(Take(c \o w, j)) = j
         /\ Drop(c \o w, j + k) \in Seq(Byte)
<1>1. PICK t : t = c \o w /\ t \in Seq(Byte) /\ Len(t) = l
  <2>1. c \o w \in Seq(Byte)
    OBVIOUS
  <2>2. PICK t : t = c \o w
    OBVIOUS
  <2> QED BY <2>1, <2>2
<1>2. SubSeq(t, j + 1, j + k) \in Seq(Byte) /\ Len(SubSeq(t, j + 1, j + k)) = k
  BY <1>1
<1>3. Take(t, j) \in Seq(Byte) /\ Len(Take(t, j)) = j
  BY <1>1 DEF Take
<1>4. Drop(t, j + k) \in Seq(Byte)
  BY <1>1 DEF Drop
<1> QED BY <1>1, <1>2, <1>3, <1>4

(* A write keeps the invariant. *)
LEMMA WriteStep ==
  ASSUME Inv, NEW e \in End, PaxosPeerWrite(e)
  PROVE  StateInv' /\ \A d \in End : EndInv(d)' /\ Goes(d)
<1>1. PICK o \in End : o = Other(e) /\ o # e /\ Other(o) = e /\ \A d \in End : d = e \/ d = o
  BY EndFacts
<1>2. /\ peer[e] \in Peers /\ peer[e].chan \in Seq(Byte) /\ peer[e].wbuf \in Seq(Byte) /\ sock[o] \in Seq(Byte)
      /\ peer[e].alive /\ peer[e].out = Watching(peer[e].wbuf) /\ peer[e].wbuf # <<>>
  BY <1>1 DEF Inv, StateInv, Peers, EndInv, PaxosPeerWrite
<1>3. PICK c, w, t, s, u : /\ c = peer[e].chan /\ w = peer[e].wbuf /\ t = c \o w
                          /\ s = sock[o] /\ u = peer[o].unpk
  OBVIOUS
<1>4. PICK l, r \in Nat : l = Len(t) /\ r = Len(sock[o]) /\ r < SockSize
  <2>1. Len(sock[o]) < SockSize /\ Len(sock[o]) \in Nat
    BY <1>1, <1>2 DEF PaxosPeerWrite
  <2>2. c \in Seq(Byte) /\ w \in Seq(Byte)
    BY <1>2, <1>3
  <2>3. Len(c \o w) \in Nat
    BY <2>2
  <2> QED BY <1>3, <2>1, <2>3
<1>5. PICK j \in Nat : j = Smaller(l, SockSize - r) /\ j <= l /\ r + j <= SockSize
  <2>1. PICK room \in Nat : room = SockSize - r
    BY <1>4, SizeFacts
  <2>2. Smaller(l, room) \in Nat /\ Smaller(l, room) <= l /\ Smaller(l, room) <= room
    BY SmallerFacts
  <2> QED BY <2>1, <2>2, SizeFacts
<1>6. PICK k \in Nat : k = Smaller(l - j, ChanSize) /\ j + k <= l /\ k <= ChanSize
  <2>1. PICK left \in Nat : left = l - j
    BY <1>5
  <2>2. Smaller(left, ChanSize) \in Nat /\ Smaller(left, ChanSize) <= left /\ Smaller(left, ChanSize) <= ChanSize
    BY SmallerFacts, SizeFacts
  <2> QED BY <2>1, <2>2, SizeFacts
<1>7. PICK rest, chan, sent, full :
        rest = Drop(t, j + k) /\ chan = SubSeq(t, j + 1, j + k) /\ sent = Take(t, j) /\ full = s \o sent
  OBVIOUS
<1>8. PICK n \in Nat : n = Len(got[o]) /\ got[o] = Following(0, n + 0)
  BY DEF Inv, StateInv, WireInv
<1>9. /\ t \in Seq(Byte) /\ chan \in Seq(Byte) /\ rest \in Seq(Byte) /\ sent \in Seq(Byte)
      /\ Len(chan) = k /\ Len(sent) = j
  <2>1. c \in Seq(Byte) /\ w \in Seq(Byte) /\ t = c \o w /\ Len(c \o w) = l /\ j + k <= l
    BY <1>2, <1>3, <1>4, <1>6
  <2>2. /\ c \o w \in Seq(Byte)
        /\ SubSeq(c \o w, j + 1, j + k) \in Seq(Byte) /\ Len(SubSeq(c \o w, j + 1, j + k)) = k
        /\ Take(c \o w, j) \in Seq(Byte) /\ Len(Take(c \o w, j)) = j
        /\ Drop(c \o w, j + k) \in Seq(Byte)
    BY <2>1, PartsOf
  <2> QED BY <1>7, <2>1, <2>2
<1>10. full \in Seq(Byte) /\ Len(full) = r + j
  <2>1. s \in Seq(Byte) /\ Len(s) = r
    BY <1>2, <1>3, <1>4
  <2>2. PICK v \in Seq(Byte) : v = sent /\ Len(v) = j
    BY <1>9
  <2>3. s \o v \in Seq(Byte) /\ Len(s \o v) = Len(s) + Len(v)
    BY <2>1
  <2> QED BY <1>7, <2>1, <2>2, <2>3
<1>11. Moves(c, w, t, j, k)
  BY <1>3, <1>4, <1>6 DEF Moves
<1>12. ASSUME NEW f \in Nat, Wire(o, f) PROVE Laid(n, u, full, chan, rest, f)
  <2>1. Laid(n, u, s, c, w, f)
    BY <1>1, <1>3, <1>8, <1>12 DEF Wire
  <2>2. Laid(n, u, s \o Take(t, j), SubSeq(t, j + 1, j + k), Drop(t, j + k), f)
    BY <1>11, <2>1, LaidMove
  <2> QED BY <1>7, <2>2
<1>13. PICK y : y = (IF peer[o].alive THEN full ELSE s) /\ y \in Seq(Byte)
  BY <1>2, <1>3, <1>10
<1>14. Written(e, t) = [sock |-> sent, chan |-> chan, rest |-> rest]
  BY <1>1, <1>4, <1>5, <1>6, <1>7 DEF Written
<1>15. PICK p : p = Watches([peer[e] EXCEPT !.wbuf = rest, !.chan = chan], rest)
  OBVIOUS
<1>16. /\ p \in Peers /\ p.wbuf = rest /\ p.chan = chan /\ p.unpk = peer[e].unpk /\ p.alive = peer[e].alive
       /\ p.out = Watching(rest)
       /\ p.in = TRUE \/ p.in = peer[e].in
  <2>1. CASE rest = <<>>
    BY <1>2, <1>9, <1>15, <2>1 DEF Peers, Watches, Watching
  <2>2. CASE rest # <<>>
    BY <1>2, <1>9, <1>15, <2>2 DEF Peers, Watches, Watching
  <2> QED BY <2>1, <2>2
<1>17. /\ peer' = [peer EXCEPT ![e] = p] /\ sock' = [sock EXCEPT ![o] = y]
       /\ UNCHANGED <<got, sends, fails, closes>>
  <2>1. PICK v : v = Written(e, t) /\ v.sock = sent /\ v.chan = chan /\ v.rest = rest
    BY <1>14
  <2>2. /\ peer' = [peer EXCEPT ![e] = Watches([peer[e] EXCEPT !.wbuf = v.rest, !.chan = v.chan], v.rest)]
        /\ Arrives(o, v.sock) /\ UNCHANGED <<got, sends, fails, closes>>
    BY <1>1, <1>3, <2>1 DEF PaxosPeerWrite, Inv, StateInv
  <2>3. sock' = [sock EXCEPT ![o] = y]
    BY <1>3, <1>7, <1>13, <2>1, <2>2 DEF Arrives, Inv, StateInv
  <2> QED BY <1>15, <2>1, <2>2, <2>3
<1>18. peer'[e] = p /\ peer'[o] = peer[o] /\ sock'[e] = sock[e] /\ sock'[o] = y
  BY <1>1, <1>17 DEF Inv, StateInv
<1>19. StateInv'
  BY <1>13, <1>16, <1>17 DEF Inv, StateInv
<1>20. EndInv(e)'
  <2>1. Len(peer[e].unpk) < Size \/ fails > 0
    BY <1>1, <1>2 DEF Inv, EndInv
  <2>2. p.alive /\ peer[o].alive /\ ~p.in => fails > 0
    BY <1>1, <1>2, <1>16 DEF Inv, EndInv, Peers
  <2>3. Len(p.chan) <= ChanSize
    BY <1>6, <1>9, <1>16
  <2>4. Len(sock[e]) <= SockSize + ChanSize /\ (peer[o].alive => Len(sock[e]) <= SockSize)
    BY <1>1 DEF Inv, EndInv
  <2>5. Len(p.unpk) < Size \/ fails > 0
    BY <1>16, <2>1
  <2>6. p.out = Watching(p.wbuf) /\ p.alive
    BY <1>2, <1>16
  <2>7. peer'[Other(e)] = peer[o] /\ fails' = fails
    BY <1>1, <1>17, <1>18
  <2> QED BY <1>18, <2>2, <2>3, <2>4, <2>5, <2>6, <2>7 DEF EndInv
<1>21. EndInv(o)'
  <2>1. peer[o].alive => Len(y) <= SockSize /\ Len(y) <= SockSize + ChanSize
    BY <1>5, <1>10, <1>13, SizeFacts
  <2>2. ~peer[o].alive => y = <<>> /\ Len(y) <= SockSize + ChanSize
    BY <1>1, <1>3, <1>13, SizeFacts DEF Inv, EndInv
  <2> QED BY <1>1, <1>2, <1>16, <1>17, <1>18, <2>1, <2>2 DEF Inv, EndInv
<1>22. Goes(e)
  BY <1>1, <1>16, <1>17, <1>18, Unmoved
<1>23. Goes(o)
  <2>1. CASE ~peer[o].alive
    BY <1>17, <1>18, <2>1 DEF Goes
  <2>2. CASE peer[o].alive
    <3>1. PICK f \in Nat : Wire(o, f)
      BY <2>2 DEF Inv, WireInv
    <3>2. Laid(n, u, full, chan, rest, f) /\ y = full
      BY <1>12, <1>13, <2>2, <3>1
    <3>3. Wire(o, f)'
      BY <1>1, <1>3, <1>8, <1>16, <1>17, <1>18, <3>1, <3>2 DEF Wire
    <3>4. BothAlive' <=> BothAlive
      BY <1>1, <1>16, <1>18, EndFacts
    <3>5. got'[o] = Following(0, Len(got[o]) + 0) /\ 0 \in Nat
      BY <1>8, <1>17
    <3> QED BY <1>18, <2>2, <3>1, <3>3, <3>4, <3>5 DEF Goes
  <2> QED BY <2>1, <2>2
<1> QED BY <1>1, <1>19, <1>20, <1>21, <1>22, <1>23

(* Following messages are a sequence of numbers. *)
LEMMA FollowingSeq ==
  ASSUME NEW m \in Nat, NEW n \in Nat
  PROVE  Following(m, n) \in Seq(Nat) /\ Len(Following(m, n)) = n
BY DEF Following

(* A sequence that counts is determined by its length. *)
LEMMA Counting ==
  ASSUME NEW s \in Seq(Nat), NEW m \in Nat, NEW n \in Nat, Len(s) = n, \A i \in 1 .. n : s[i] = m + i
  PROVE  s = Following(m, n)
<1>1. \A i \in 1 .. n : Following(m, n)[i] = m + i
  BY DEF Following
<1>2. Following(m, n) \in Seq(Nat) /\ Len(Following(m, n)) = n
  BY FollowingSeq
<1> QED BY <1>1, <1>2

(* Concatenated sequences of numbers, and their lengths. *)
LEMMA ConcatNats ==
  ASSUME NEW s \in Seq(Nat), NEW t \in Seq(Nat), NEW m \in Nat, NEW n \in Nat, Len(s) = m, Len(t) = n
  PROVE  s \o t \in Seq(Nat) /\ Len(s \o t) = m + n
OBVIOUS

(* Messages behind the first m are appended to those. *)
LEMMA FollowingConcat ==
  ASSUME NEW l \in Nat, NEW m \in Nat, NEW n \in Nat
  PROVE  Following(l, m) \o Following(l + m, n) = Following(l, m + n)
<1>1. PICK s, t : s = Following(l, m) /\ t = Following(l + m, n)
  OBVIOUS
<1>2. s \in Seq(Nat) /\ Len(s) = m /\ t \in Seq(Nat) /\ Len(t) = n
  BY <1>1, FollowingSeq
<1>3. s \o t \in Seq(Nat) /\ Len(s \o t) = m + n
  BY <1>2, ConcatNats
<1>4. ASSUME NEW i \in 1 .. (m + n) PROVE (s \o t)[i] = l + i
  <2>1. CASE i <= m
    <3>1. (s \o t)[i] = s[i]
      BY <1>2, <2>1
    <3> QED BY <1>1, <2>1, <3>1 DEF Following
  <2>2. CASE i > m
    <3>1. i - m \in 1 .. n /\ (s \o t)[i] = t[i - m]
      BY <1>2, <2>2
    <3>2. t[i - m] = (l + m) + (i - m)
      BY <1>1, <3>1 DEF Following
    <3> QED BY <3>1, <3>2
  <2>3. i <= m \/ i > m
    OBVIOUS
  <2> QED BY <2>1, <2>2, <2>3
<1>5. m + n \in Nat
  OBVIOUS
<1> QED BY <1>1, <1>3, <1>4, <1>5, Counting

(* Both outcomes of paxos_peer_read. *)
LEMMA ReadStep ==
  ASSUME Inv, NEW e \in End, peer[e].alive, peer[e].in,
         NEW k \in 1 .. Len(sock[e]), NEW q \in 0 .. Complete(e, k), NEW watch \in BOOLEAN,
         ReadAndDispatch(e, k, q, watch), UNCHANGED <<sends, closes>>,
         \/ watch /\ q = Complete(e, k) /\ UNCHANGED fails
         \/ ~watch /\ fails < MaxFails /\ fails' = fails + 1
  PROVE  StateInv' /\ \A d \in End : EndInv(d)' /\ Goes(d)
<1>1. PICK o \in End : o = Other(e) /\ o # e /\ Other(o) = e /\ \A d \in End : d = e \/ d = o
  BY EndFacts
<1>2. /\ peer[e] \in Peers /\ peer[e].unpk \in Seq(Byte) /\ sock[e] \in Seq(Byte) /\ got[e] \in Seq(Nat)
  BY DEF Inv, StateInv, Peers
<1>3. PICK n \in Nat : n = Len(got[e]) /\ got[e] = Following(0, n)
  BY <1>2 DEF Inv, WireInv
<1>4. PICK b, s, u : b = peer[e].unpk /\ s = sock[e] /\ u = b \o Take(s, k)
  OBVIOUS
<1>5. PICK l \in Nat : l = Len(peer[e].unpk)
  BY <1>2
<1>6. k \in Nat /\ k <= Len(sock[e]) /\ l + k \in Nat
  BY <1>2
<1>7. PICK c \in Nat : c = Complete(e, k) /\ c * Size <= l + k /\ l + k < c * Size + Size
  BY <1>5, <1>6, Whole DEF Complete
<1>8. q \in Nat /\ q <= c /\ q * Size <= l + k
  <2>1. q \in Nat /\ q <= c
    BY <1>7
  <2>2. PICK x \in Nat, y \in Nat : x = q * Size /\ y = c * Size
    BY <2>1, SizeFacts
  <2>3. x <= y
    <3>1. CASE q = c
      BY <2>2, <3>1
    <3>2. CASE q < c
      <4>1. x + Size <= y
        BY <2>1, <2>2, <3>2, MoreMessages
      <4> QED BY <4>1, SizeFacts
    <3> QED BY <2>1, <3>1, <3>2
  <2> QED BY <1>7, <2>1, <2>2, <2>3
<1>9. PICK f \in Nat : Wire(e, f)
  BY DEF Inv, WireInv
<1>10. PICK h, w : h = peer[o].chan /\ w = peer[o].wbuf /\ Laid(n, b, s, h, w, f)
  BY <1>1, <1>3, <1>4, <1>9 DEF Wire
<1>11. PICK v, z : v = Drop(u, q * Size) /\ z = Drop(sock[e], k)
  OBVIOUS
<1>12. /\ Laid(n + q, v, z, h, w, f)
       /\ NextMessages(u, q) = Following(n, q)
       /\ Len(v) = (l + k) - q * Size /\ Len(z) = Len(sock[e]) - k
  <2>1. Reads(b, s, u, k, q)
    BY <1>4, <1>5, <1>6, <1>8 DEF Reads
  <2>2. /\ Laid(n + q, Drop(u, q * Size), Drop(s, k), h, w, f)
        /\ NextMessages(u, q) = Following(n, q)
        /\ Len(Drop(u, q * Size)) = (Len(b) + k) - q * Size
        /\ Len(Drop(s, k)) = Len(s) - k
    BY <1>10, <2>1, LaidRead
  <2> QED BY <1>4, <1>5, <1>11, <2>2
<1>13. v \in Seq(Byte) /\ z \in Seq(Byte)
  BY <1>12, LaidSeqs
<1>14. Len(z) <= Len(sock[e]) /\ Len(z) \in Nat
  <2>1. Len(sock[e]) \in Nat
    BY <1>2
  <2> QED BY <1>6, <1>12, <1>13, <2>1
<1>15. PICK p : p = [peer[e] EXCEPT !.unpk = v, !.in = watch]
  OBVIOUS
<1>16. /\ p \in Peers /\ p.unpk = v /\ p.in = watch /\ p.alive = peer[e].alive
       /\ p.out = peer[e].out /\ p.wbuf = peer[e].wbuf /\ p.chan = peer[e].chan
  BY <1>2, <1>13, <1>15 DEF Peers
<1>17. /\ peer' = [peer EXCEPT ![e] = p] /\ sock' = [sock EXCEPT ![e] = z]
       /\ got' = [got EXCEPT ![e] = got[e] \o NextMessages(u, q)]
  BY <1>4, <1>11, <1>15 DEF ReadAndDispatch, Inv, StateInv
<1>18. got[e] \o NextMessages(u, q) = Following(0, n + q)
       /\ Following(0, n + q) \in Seq(Nat) /\ Len(Following(0, n + q)) = n + q
  <2>1. Following(0, n) \o Following(n, q) = Following(0, n + q)
    <3>1. PICK x \in Nat : x = 0 /\ x + n = n
      OBVIOUS
    <3>2. Following(x, n) \o Following(x + n, q) = Following(x, n + q)
      BY <1>8, FollowingConcat
    <3> QED BY <3>1, <3>2
  <2>2. Following(0, n + q) \in Seq(Nat) /\ Len(Following(0, n + q)) = n + q
    <3>1. n + q \in Nat /\ 0 \in Nat
      BY <1>8
    <3> QED BY <3>1, FollowingSeq
  <2> QED BY <1>3, <1>12, <2>1, <2>2
<1>19. /\ peer'[e] = p /\ peer'[o] = peer[o] /\ sock'[e] = z /\ sock'[o] = sock[o]
       /\ got'[e] = Following(0, n + q) /\ got'[o] = got[o]
  BY <1>1, <1>17, <1>18 DEF Inv, StateInv
<1>20. StateInv'
  <2>1. fails' \in 0 .. MaxFails
    BY SizeFacts DEF Inv, StateInv
  <2> QED BY <1>13, <1>16, <1>17, <1>18, <2>1 DEF Inv, StateInv
<1>21. EndInv(e)'
  <2>1. Len(v) < Size \/ ~watch
    <3>1. PICK x \in Nat : x = c * Size
      BY <1>7, SizeFacts
    <3>2. CASE watch
      <4>1. Len(v) = (l + k) - x
        BY <1>7, <1>12, <3>1, <3>2
      <4> QED BY <1>7, <3>1, <4>1, SizeFacts
    <3> QED BY <3>2
  <2>2. watch \/ fails' > 0
    BY SizeFacts DEF Inv, StateInv
  <2>3. Len(z) <= SockSize + ChanSize /\ (peer[o].alive => Len(z) <= SockSize)
    <3>1. Len(sock[e]) \in Nat /\ Len(sock[e]) <= SockSize + ChanSize /\ (peer[o].alive => Len(sock[e]) <= SockSize)
      BY <1>1, <1>2 DEF Inv, EndInv
    <3> QED BY <1>14, <3>1, SizeFacts
  <2> QED BY <1>1, <1>16, <1>19, <2>1, <2>2, <2>3 DEF Inv, EndInv
<1>22. EndInv(o)'
  <2>1. fails > 0 => fails' > 0
    BY DEF Inv, StateInv
  <2> QED BY <1>1, <1>16, <1>19, <2>1 DEF Inv, EndInv
<1>23. Goes(o)
  BY <1>1, <1>16, <1>19, Unmoved
<1>24. Goes(e)
  <2>1. Wire(e, f)'
    BY <1>1, <1>9, <1>10, <1>12, <1>16, <1>18, <1>19 DEF Wire
  <2>2. BothAlive' <=> BothAlive
    BY <1>1, <1>16, <1>19, EndFacts
  <2> QED BY <1>3, <1>8, <1>9, <1>16, <1>19, <2>1, <2>2 DEF Goes
<1> QED BY <1>1, <1>20, <1>21, <1>22, <1>23, <1>24

(* A read that dispatches all it has unpacked keeps the invariant. *)
LEMMA PaxosPeerReadStep ==
  ASSUME Inv, NEW e \in End, PaxosPeerRead(e)
  PROVE  StateInv' /\ \A d \in End : EndInv(d)' /\ Goes(d)
<1>1. PICK k \in 1 .. Len(sock[e]) : ReadAndDispatch(e, k, Complete(e, k), TRUE)
  BY DEF PaxosPeerRead
<1>2. Complete(e, k) \in 0 .. Complete(e, k)
  <2>1. peer[e].unpk \in Seq(Byte) /\ sock[e] \in Seq(Byte)
    BY DEF Inv, StateInv, Peers
  <2>2. PICK a \in Nat : a = Len(peer[e].unpk) + k
    BY <2>1
  <2>3. a \div Size \in Nat
    BY Whole
  <2> QED BY <2>2, <2>3 DEF Complete
<1>3. peer[e].alive /\ peer[e].in /\ UNCHANGED <<sends, closes>> /\ UNCHANGED fails
  BY DEF PaxosPeerRead
<1> QED BY <1>1, <1>2, <1>3, ReadStep

(* A read of which one dispatch fails keeps the invariant. *)
LEMMA DispatchFailsStep ==
  ASSUME Inv, NEW e \in End, DispatchFails(e)
  PROVE  StateInv' /\ \A d \in End : EndInv(d)' /\ Goes(d)
<1>1. PICK k \in 1 .. Len(sock[e]) : \E n \in 1 .. Complete(e, k) : ReadAndDispatch(e, k, n, FALSE)
  BY DEF DispatchFails
<1>3. PICK n \in 1 .. Complete(e, k) : ReadAndDispatch(e, k, n, FALSE)
  BY <1>1
<1>4. n \in 0 .. Complete(e, k)
  BY <1>3
<1>2. peer[e].alive /\ peer[e].in /\ UNCHANGED <<sends, closes>> /\ fails < MaxFails /\ fails' = fails + 1
  BY DEF DispatchFails
<1> QED BY <1>2, <1>3, <1>4, ReadStep

(* A peer that is gone has nothing left. *)
LEMMA GoneFacts ==
  /\ Gone \in Peers /\ ~Gone.alive /\ ~Gone.in /\ Gone.out = 0
  /\ Gone.wbuf = <<>> /\ Gone.chan = <<>> /\ Gone.unpk = <<>>
<1>1. PICK p : p = PaxosPeerInit
  OBVIOUS
<1>2. p \in Peers /\ p.out = 0 /\ p.wbuf = <<>> /\ p.chan = <<>> /\ p.unpk = <<>>
  <2>1. <<>> \in Seq(Byte)
    OBVIOUS
  <2> QED BY <1>1, <2>1 DEF PaxosPeerInit, Peers
<1>3. Gone = [p EXCEPT !.alive = FALSE, !.in = FALSE]
  BY <1>1 DEF Gone
<1> QED BY <1>2, <1>3 DEF Peers

(* At the end of file the other end is gone, and with it the other direction. *)
LEMMA EofStep ==
  ASSUME Inv, NEW e \in End, Eof(e)
  PROVE  StateInv' /\ \A d \in End : EndInv(d)' /\ Goes(d)
<1>1. PICK o \in End : o = Other(e) /\ o # e /\ Other(o) = e /\ \A d \in End : d = e \/ d = o
  BY EndFacts
<1>2. /\ peer[e] \in Peers /\ peer[e].alive /\ peer[e].in /\ ~peer[o].alive /\ sock[e] = <<>>
      /\ UNCHANGED <<sock, got, sends, fails, closes>>
  BY <1>1 DEF Eof, Inv, StateInv
<1>3. PICK p : /\ p = Gone \/ p = [peer[e] EXCEPT !.in = FALSE]
               /\ peer' = [peer EXCEPT ![e] = p]
  BY DEF Eof, Inv, StateInv
<1>4. p \in Peers /\ ~p.in /\ p.out = Watching(p.wbuf) /\ Len(p.chan) <= ChanSize /\ (~p.alive => p = Gone)
  <2>1. CASE p = Gone
    BY <2>1, GoneFacts, SizeFacts DEF Watching
  <2>2. CASE p = [peer[e] EXCEPT !.in = FALSE]
    <3>1. /\ p \in Peers /\ ~p.in /\ p.out = peer[e].out /\ p.wbuf = peer[e].wbuf /\ p.chan = peer[e].chan
          /\ p.alive = peer[e].alive
      BY <1>2, <2>2 DEF Peers
    <3> QED BY <1>2, <3>1 DEF Inv, EndInv
  <2> QED BY <1>3, <2>1, <2>2
<1>5. peer'[e] = p /\ peer'[o] = peer[o]
  BY <1>1, <1>3 DEF Inv, StateInv
<1>6. StateInv'
  BY <1>2, <1>3, <1>4 DEF Inv, StateInv
<1>7. EndInv(e)'
  <2>1. Len(p.unpk) < Size \/ fails > 0
    <3>1. CASE p = Gone
      BY <3>1, GoneFacts, SizeFacts
    <3>2. CASE p = [peer[e] EXCEPT !.in = FALSE]
      <4>1. p.unpk = peer[e].unpk
        BY <1>2, <3>2 DEF Peers
      <4> QED BY <4>1 DEF Inv, EndInv
    <3> QED BY <1>3, <3>1, <3>2
  <2> QED BY <1>1, <1>2, <1>4, <1>5, <2>1 DEF Inv, EndInv
<1>8. EndInv(o)'
  <2>1. Len(sock[o]) <= SockSize
    BY <1>1, <1>2 DEF Inv, EndInv
  <2> QED BY <1>1, <1>2, <1>5, <2>1 DEF Inv, EndInv
<1>9. Goes(o)
  BY <1>1, <1>2, <1>5 DEF Goes
<1>10. Goes(e)
  <2>1. CASE p = Gone
    BY <1>2, <1>5, <2>1, GoneFacts DEF Goes
  <2>2. CASE p = [peer[e] EXCEPT !.in = FALSE]
    <3>1. p.alive = peer[e].alive /\ p.unpk = peer[e].unpk
      BY <1>2, <2>2 DEF Peers
    <3> QED BY <1>1, <1>2, <1>5, <3>1, Unmoved
  <2> QED BY <1>3, <2>1, <2>2
<1> QED BY <1>1, <1>6, <1>7, <1>8, <1>9, <1>10

(* The end of a peer keeps the invariant. *)
LEMMA DestroyStep ==
  ASSUME Inv, NEW e \in End, PaxosPeerDestroy(e)
  PROVE  StateInv' /\ \A d \in End : EndInv(d)' /\ Goes(d)
<1>1. PICK o \in End : o = Other(e) /\ o # e /\ Other(o) = e /\ \A d \in End : d = e \/ d = o
  BY EndFacts
<1>2. /\ peer[e] \in Peers /\ peer[e].alive /\ peer[e].chan \in Seq(Byte) /\ sock[o] \in Seq(Byte)
      /\ UNCHANGED <<got, sends, fails>> /\ peer' = [peer EXCEPT ![e] = Gone]
      /\ closes' \in 0 .. MaxCloses
  <2>1. /\ peer[e].alive /\ closes < MaxCloses /\ closes' = closes + 1
        /\ UNCHANGED <<got, sends, fails>> /\ peer' = [peer EXCEPT ![e] = Gone]
    BY DEF PaxosPeerDestroy
  <2>2. peer[e] \in Peers /\ peer[e].chan \in Seq(Byte) /\ sock[o] \in Seq(Byte) /\ closes \in 0 .. MaxCloses
    BY DEF Inv, StateInv, Peers
  <2> QED BY <2>1, <2>2, SizeFacts
<1>3. PICK last \in {<<>>, peer[e].chan} :
        sock' = [d \in End |-> IF d = e THEN <<>> ELSE IF peer[d].alive THEN sock[d] \o last ELSE sock[d]]
  BY DEF PaxosPeerDestroy
<1>4. PICK c, s, x : c = peer[e].chan /\ s = sock[o] /\ x = s \o last
  OBVIOUS
<1>5. x \in Seq(Byte) /\ Len(x) <= SockSize + ChanSize
  <2>1. c \in Seq(Byte) /\ s \in Seq(Byte) /\ Len(c) <= ChanSize /\ Len(s) <= SockSize
    BY <1>1, <1>2, <1>4 DEF Inv, EndInv
  <2>2. last \in Seq(Byte) /\ Len(last) <= ChanSize
    <3>1. CASE last = <<>>
      BY <3>1, SizeFacts
    <3>2. CASE last = c
      BY <2>1, <3>2
    <3> QED BY <1>3, <1>4, <3>1, <3>2
  <2>3. s \o last \in Seq(Byte) /\ Len(s \o last) = Len(s) + Len(last) /\ Len(s) \in Nat /\ Len(last) \in Nat
    BY <2>1, <2>2
  <2> QED BY <1>4, <2>1, <2>2, <2>3, SizeFacts
<1>6. /\ peer'[e] = Gone /\ peer'[o] = peer[o] /\ sock'[e] = <<>>
      /\ sock'[o] = IF peer[o].alive THEN x ELSE sock[o]
  BY <1>1, <1>2, <1>3, <1>4 DEF Inv, StateInv
<1>7. sock' \in [End -> Seq(Byte)]
  <2>1. sock'[e] \in Seq(Byte) /\ sock'[o] \in Seq(Byte)
    BY <1>2, <1>5, <1>6
  <2> QED BY <1>1, <1>3, <2>1
<1>8. StateInv'
  BY <1>2, <1>7, GoneFacts DEF Inv, StateInv
<1>9. EndInv(e)'
  BY <1>1, <1>6, GoneFacts, SizeFacts DEF EndInv, Watching
<1>10. EndInv(o)'
  <2>1. Len(sock'[o]) <= SockSize + ChanSize
    BY <1>1, <1>5, <1>6 DEF Inv, EndInv
  <2> QED BY <1>1, <1>2, <1>6, <2>1, GoneFacts DEF Inv, EndInv
<1>11. Goes(e)
  BY <1>2, <1>6, GoneFacts DEF Goes
<1>12. Goes(o)
  <2>1. CASE ~peer[o].alive
    BY <1>2, <1>6, <2>1 DEF Goes
  <2>2. CASE peer[o].alive
    <3>1. PICK n \in Nat : n = Len(got[o])
      BY DEF Inv, StateInv
    <3>2. PICK f \in Nat : Wire(o, f)
      BY <2>2 DEF Inv, WireInv
    <3>3. PICK u, w : u = peer[o].unpk /\ w = peer[e].wbuf /\ Laid(n, u, s, c, w, f)
      BY <1>1, <1>4, <3>1, <3>2 DEF Wire
    <3>4. PICK g \in Nat : g <= f /\ Laid(n, u, x, <<>>, <<>>, g)
      BY <1>3, <1>4, <3>3, LaidClose
    <3>5. g <= sends[e] * Size
      <4>1. PICK z \in Nat : z = sends[e] * Size
        BY SizeFacts DEF Inv, StateInv
      <4>2. f <= z
        BY <1>1, <3>2, <4>1 DEF Wire
      <4> QED BY <3>4, <4>1, <4>2
    <3>6. Wire(o, g)'
      BY <1>1, <1>2, <1>6, <2>2, <3>1, <3>3, <3>4, <3>5, GoneFacts DEF Wire
    <3>7. ~BothAlive'
      BY <1>1, <1>6, GoneFacts, EndFacts
    <3> QED BY <1>2, <1>6, <2>2, <3>2, <3>4, <3>6, <3>7 DEF Goes
  <2> QED BY <2>1, <2>2
<1> QED BY <1>1, <1>8, <1>9, <1>10, <1>11, <1>12

-----------------------------------------------------------------------------
(* Every step keeps the invariant. *)
LEMMA NextStep ==
  ASSUME Inv, Next
  PROVE  StateInv' /\ \A d \in End : EndInv(d)' /\ Goes(d)
<1>1. PICK e \in End : \/ PaxosPeerSend(e) \/ PaxosPeerWrite(e)
                       \/ PaxosPeerRead(e) \/ DispatchFails(e)
                       \/ Eof(e) \/ PaxosPeerDestroy(e)
  BY DEF Next
<1> QED BY <1>1, SendStep, WriteStep, PaxosPeerReadStep, DispatchFailsStep, EofStep, DestroyStep

(* The invariant holds at first. *)
LEMMA InitInv == Init => Inv
<1> SUFFICES ASSUME Init PROVE Inv
  OBVIOUS
<1>1. /\ PaxosPeerInit \in Peers /\ PaxosPeerInit.alive /\ PaxosPeerInit.in /\ PaxosPeerInit.out = 0
      /\ PaxosPeerInit.wbuf = <<>> /\ PaxosPeerInit.chan = <<>> /\ PaxosPeerInit.unpk = <<>>
  <2>1. <<>> \in Seq(Byte)
    OBVIOUS
  <2> QED BY <2>1 DEF PaxosPeerInit, Peers
<1>2. StateInv
  <2>1. <<>> \in Seq(Byte) /\ <<>> \in Seq(Nat)
    OBVIOUS
  <2> QED BY <1>1, <2>1, SizeFacts DEF Init, StateInv
<1>3. ASSUME NEW e \in End PROVE EndInv(e) /\ WireInv(e)
  <2>1. PICK o \in End : o = Other(e)
    BY EndFacts
  <2>2. /\ peer[e] = PaxosPeerInit /\ peer[o] = PaxosPeerInit /\ sock[e] = <<>> /\ got[e] = <<>>
        /\ sends[o] = 0 /\ fails = 0
    BY DEF Init
  <2>3. Len(<<>>) = 0
    OBVIOUS
  <2>4. EndInv(e)
    BY <1>1, <2>1, <2>2, <2>3, SizeFacts DEF EndInv, Watching
  <2>5. 0 * Size = 0 /\ 0 \in Nat
    BY SizeFacts
  <2>6. Wire(e, 0)
    BY <1>1, <2>1, <2>2, <2>3, <2>5, LaidInit DEF Wire
  <2>7. Following(0, 0) = <<>>
    BY DEF Following
  <2> QED BY <2>1, <2>2, <2>3, <2>4, <2>5, <2>6, <2>7 DEF WireInv
<1> QED BY <1>2, <1>3 DEF Inv

(* Never are more messages dispatched than there are bytes of. *)
LEMMA WireBound ==
  ASSUME NEW n \in Nat, NEW m \in Nat, NEW f \in Nat, NEW u, NEW s, NEW c, NEW w,
         Laid(n, u, s, c, w, f), f <= m * Size
  PROVE  n <= m
<1>1. PICK q \in Nat : q = f \div Size /\ n <= q /\ q * Size <= f
  BY LaidMessages, Whole
<1>2. PICK x, z \in Nat : x = q * Size /\ z = m * Size
  BY SizeFacts
<1>3. m < q => z + Size <= x
  BY <1>2, MoreMessages
<1>4. x <= f /\ f <= z
  BY <1>1, <1>2
<1> QED BY <1>1, <1>3, <1>4, SizeFacts

(* Where a step leaves the stream of a direction, the stream is laid out. *)
LEMMA GoesKeepsWire ==
  ASSUME Inv, StateInv', NEW d \in End, Goes(d), sends'[Other(d)] >= sends[Other(d)]
  PROVE  WireInv(d)'
<1>1. PICK o \in End : o = Other(d)
  BY EndFacts
<1>2. PICK n, m, l \in Nat : n = Len(got[d]) /\ m = sends[o] /\ l = sends'[o] /\ n <= m /\ m <= l
  BY <1>1, SizeFacts DEF Inv, StateInv, WireInv
<1>3. got[d] = Following(0, n)
  BY <1>2 DEF Inv, WireInv
<1>4. CASE got'[d] = got[d] /\ (peer'[d].alive => \E g \in Nat : Wire(d, g)')
  BY <1>1, <1>2, <1>3, <1>4 DEF WireInv
<1>5. ASSUME NEW g \in Nat, Wire(d, g)', NEW k \in Nat, got'[d] = Following(0, Len(got[d]) + k)
      PROVE  WireInv(d)'
  <2>1. PICK j \in Nat : j = n + k /\ got'[d] = Following(0, j)
    BY <1>2, <1>5
  <2>2. Len(got'[d]) = j
    BY <2>1, FollowingSeq
  <2>3. PICK u, s, c, w : Laid(j, u, s, c, w, g) /\ g <= l * Size
    BY <1>1, <1>2, <1>5, <2>2 DEF Wire
  <2>4. j <= l
    BY <2>3, WireBound
  <2> QED BY <1>1, <1>2, <1>5, <2>1, <2>2, <2>4 DEF WireInv
<1> QED BY <1>4, <1>5 DEF Goes

(* The invariant is inductive. *)
LEMMA NextInv == Inv /\ [Next]_vars => Inv'
<1> SUFFICES ASSUME Inv, [Next]_vars PROVE Inv'
  OBVIOUS
<1>1. CASE Next
  <2>1. StateInv' /\ \A d \in End : EndInv(d)' /\ Goes(d)
    BY <1>1, NextStep
  <2>2. ASSUME NEW d \in End PROVE sends'[d] >= sends[d]
    <3>1. UNCHANGED sends \/ \E e \in End : sends' = [sends EXCEPT ![e] = @ + 1]
      BY <1>1 DEF Next, PaxosPeerSend, PaxosPeerWrite, PaxosPeerRead, DispatchFails, Eof, PaxosPeerDestroy
    <3>2. sends \in [End -> 0 .. MaxSends]
      BY DEF Inv, StateInv
    <3> QED BY <3>1, <3>2, SizeFacts
  <2>3. ASSUME NEW d \in End PROVE WireInv(d)'
    BY <2>1, <2>2, EndFacts, GoesKeepsWire
  <2> QED BY <2>1, <2>3 DEF Inv
<1>2. CASE UNCHANGED vars
  BY <1>2 DEF vars, Inv, StateInv, EndInv, WireInv, Wire
<1> QED BY <1>1, <1>2

(* In every state of the two peers the bytes between them are laid out in order. *)
THEOREM PeerInvariant == Spec => []Inv
BY InitInv, NextInv, PTL DEF Spec

(***************************************************************************)
(* Socket and channel stay in their bounds, the unpacker keeps less than a *)
(* message unless a dispatch has failed, and what is dispatched are        *)
(* messages, never parts of two.                                           *)
(***************************************************************************)
THEOREM PeerTypes == Spec => []TypeOK
<1>1. Inv => TypeOK
  <2> SUFFICES ASSUME Inv PROVE TypeOK
    OBVIOUS
  <2>1. ASSUME NEW e \in End PROVE got[e] \in Seq(Message)
    <3>1. PICK n \in Nat : got[e] = Following(0, n) /\ n <= MaxSends
      <4>1. PICK o \in End : o = Other(e)
        BY EndFacts
      <4>2. Len(got[e]) \in Nat /\ sends[o] \in 0 .. MaxSends
        BY DEF Inv, StateInv
      <4>3. got[e] = Following(0, Len(got[e])) /\ Len(got[e]) <= sends[o]
        BY <4>1 DEF Inv, WireInv
      <4> QED BY <4>2, <4>3, SizeFacts
    <3>2. \A j \in 1 .. n : 0 + j \in Message
      BY <3>1, SizeFacts DEF Message
    <3>3. [j \in 1 .. n |-> 0 + j] \in [1 .. n -> Message]
      BY <3>2
    <3> QED BY <3>1, <3>3 DEF Following
  <2>2. ASSUME NEW e \in End
        PROVE  /\ peer[e].alive \in BOOLEAN /\ peer[e].in \in BOOLEAN /\ peer[e].out \in Nat
               /\ Len(peer[e].unpk) < Size \/ fails > 0
               /\ Len(peer[e].chan) <= ChanSize
               /\ Len(sock[e]) <= SockSize + ChanSize
    BY DEF Inv, StateInv, EndInv, Peers
  <2> QED BY <2>1, <2>2 DEF TypeOK, Inv, StateInv
<1> QED BY <1>1, PeerInvariant, PTL

(***************************************************************************)
(* There is one write watch while there is something to write, and none    *)
(* otherwise (paxos_io.c:199-201).                                         *)
(***************************************************************************)
THEOREM WritesAreWatched == Spec => []WriteWatched
<1>1. Inv => WriteWatched
  BY DEF Inv, EndInv, WriteWatched, Watching
<1> QED BY <1>1, PeerInvariant, PTL

(* The premise of the lemmas on parts of a sequence, kept folded for the provers. *)
AtMost(a, b) == a <= b

-----------------------------------------------------------------------------
(***************************************************************************)
(* The refinement.  In either direction the queue of the channel is the    *)
(* messages that follow the ones dispatched, up to the last whole one.     *)
(***************************************************************************)
LEMMA FollowingSub ==
  ASSUME NEW l \in Nat, NEW n \in Nat, NEW a \in Nat, NEW b \in Nat,
         AtMost(a, b), AtMost(b, n)
  PROVE  SubSeq(Following(l, n), a + 1, b) = Following(l + a, b - a)
<1>1. PICK s : s = Following(l, n)
  OBVIOUS
<1>0. a <= b /\ b <= n
  BY DEF AtMost
<1>2. s \in Seq(Nat) /\ Len(s) = n
  BY <1>1, FollowingSeq
<1>3. PICK t : t = SubSeq(s, a + 1, b)
  OBVIOUS
<1>4. t \in Seq(Nat) /\ Len(t) = b - a /\ \A i \in 1 .. (b - a) : t[i] = s[a + i]
  <2>1. s \in Seq(Nat) /\ Len(s) = n /\ a <= b /\ b <= n
    BY <1>0, <1>2
  <2>2. t = SubSeq(s, a + 1, b)
    BY <1>3
  <2>3. t \in Seq(Nat) /\ Len(t) = b - a
    BY <2>1, <2>2
  <2>4. ASSUME NEW i \in 1 .. (b - a) PROVE t[i] = s[a + i]
    BY <2>1, <2>2
  <2> QED BY <2>3, <2>4
<1>5. ASSUME NEW i \in 1 .. (b - a) PROVE t[i] = (l + a) + i
  <2>1. a + i \in 1 .. n /\ t[i] = s[a + i]
    BY <1>0, <1>4
  <2>2. s[a + i] = l + (a + i)
    BY <1>1, <2>1 DEF Following
  <2> QED BY <2>1, <2>2
<1>6. l + a \in Nat /\ b - a \in Nat
  BY <1>0
<1> QED BY <1>1, <1>3, <1>4, <1>5, <1>6, Counting

(* The first a of n following messages, and the ones after those. *)
LEMMA FollowingFirst ==
  ASSUME NEW l \in Nat, NEW n \in Nat, NEW a \in Nat, AtMost(a, n)
  PROVE  SubSeq(Following(l, n), 1, a) = Following(l, a)
<1>1. PICK z \in Nat : z = 0 /\ z + 1 = 1 /\ l + z = l /\ a - z = a /\ z <= a
  OBVIOUS
<1>2. AtMost(z, a)
  BY <1>1 DEF AtMost
<1>3. SubSeq(Following(l, n), z + 1, a) = Following(l + z, a - z)
  BY <1>1, <1>2, FollowingSub
<1> QED BY <1>1, <1>3

(* The messages after the first a of n following ones. *)
LEMMA FollowingRest ==
  ASSUME NEW l \in Nat, NEW n \in Nat, NEW a \in Nat, AtMost(a, n)
  PROVE  SubSeq(Following(l, n), a + 1, n) = Following(l + a, n - a)
<1>1. AtMost(n, n)
  BY DEF AtMost
<1> QED BY <1>1, FollowingSub

(* One more message. *)
LEMMA FollowingAppend ==
  ASSUME NEW l \in Nat, NEW n \in Nat
  PROVE  Append(Following(l, n), l + (n + 1)) = Following(l, n + 1)
<1>1. PICK s : s = Following(l, n)
  OBVIOUS
<1>2. s \in Seq(Nat) /\ Len(s) = n /\ l + (n + 1) \in Nat
  BY <1>1, FollowingSeq
<1>3. PICK t : t = Append(s, l + (n + 1))
  OBVIOUS
<1>4. t \in Seq(Nat) /\ Len(t) = n + 1 /\ t[n + 1] = l + (n + 1) /\ \A i \in 1 .. n : t[i] = s[i]
  BY <1>2, <1>3
<1>5. ASSUME NEW i \in 1 .. (n + 1) PROVE t[i] = l + i
  <2>1. CASE i \in 1 .. n
    <3>1. t[i] = s[i]
      BY <1>4, <2>1
    <3> QED BY <1>1, <2>1, <3>1 DEF Following
  <2>2. CASE i = n + 1
    BY <1>4, <2>2
  <2>3. i \in 1 .. n \/ i = n + 1
    OBVIOUS
  <2> QED BY <2>1, <2>2, <2>3
<1>6. n + 1 \in Nat
  OBVIOUS
<1> QED BY <1>1, <1>3, <1>4, <1>5, <1>6, Counting

(* The number of whole messages grows with the number of bytes. *)
LEMMA WholeBound ==
  ASSUME NEW f \in Nat, NEW m \in Nat, f < m * Size + Size
  PROVE  f \div Size <= m
<1>1. PICK q \in Nat : q = f \div Size /\ q * Size <= f
  BY Whole
<1>2. PICK x, z \in Nat : x = q * Size /\ z = m * Size
  BY SizeFacts
<1>3. m < q => z + Size <= x
  BY <1>2, MoreMessages
<1>4. x <= f /\ f < z + Size
  BY <1>1, <1>2
<1> QED BY <1>1, <1>3, <1>4, SizeFacts

(* What the channel holds: the messages that were accepted and not dispatched. *)
LEMMA QueueIs ==
  ASSUME StateInv, NEW d \in End, peer[d].alive, NEW f \in Nat, Wire(d, f)
  PROVE  /\ f \div Size \in Nat /\ Len(got[d]) \in Nat /\ Len(got[d]) <= f \div Size
         /\ OnTheWay(d) = Following(Len(got[d]), f \div Size - Len(got[d]))
<1>1. PICK u, s, c, w : /\ u = peer[d].unpk /\ s = sock[d]
                        /\ c = peer[Other(d)].chan /\ w = peer[Other(d)].wbuf
  OBVIOUS
<1>2. PICK n \in Nat : n = Len(got[d])
  BY DEF StateInv
<1>3. Laid(n, u, s, c, w, f)
  BY <1>1, <1>2 DEF Wire
<1>4. /\ f \div Size \in Nat /\ n <= f \div Size
      /\ NextMessages(u \o s \o c \o w, Len(u \o s \o c \o w) \div Size) = Following(n, f \div Size - n)
  BY <1>3, LaidMessages
<1>5. Stream(d) = u \o s \o c \o w
  BY <1>1 DEF Stream
<1> QED BY <1>2, <1>4, <1>5 DEF OnTheWay

(* The same in the state after a step. *)
LEMMA QueueWillBe ==
  ASSUME StateInv', NEW d \in End, peer'[d].alive, NEW f \in Nat, Wire(d, f)'
  PROVE  /\ f \div Size \in Nat /\ Len(got'[d]) \in Nat /\ Len(got'[d]) <= f \div Size
         /\ OnTheWay(d)' = Following(Len(got'[d]), f \div Size - Len(got'[d]))
<1>1. PICK u, s, c, w : /\ u = peer'[d].unpk /\ s = sock'[d]
                        /\ c = peer'[Other(d)].chan /\ w = peer'[Other(d)].wbuf
  OBVIOUS
<1>2. PICK n \in Nat : n = Len(got'[d])
  BY DEF StateInv
<1>3. Laid(n, u, s, c, w, f)
  BY <1>1, <1>2 DEF Wire
<1>4. /\ f \div Size \in Nat /\ n <= f \div Size
      /\ NextMessages(u \o s \o c \o w, Len(u \o s \o c \o w) \div Size) = Following(n, f \div Size - n)
  BY <1>3, LaidMessages
<1>5. Stream(d)' = u \o s \o c \o w
  BY <1>1 DEF Stream
<1> QED BY <1>2, <1>4, <1>5 DEF OnTheWay

(***************************************************************************)
(* What the channel of direction d does in a step: the actions of Channel. *)
(***************************************************************************)
ChannelSends(d, m) ==
  BothAlive /\ BothAlive' /\ OnTheWay(d)' = Append(OnTheWay(d), m) /\ got'[d] = got[d]

(* k messages are dispatched. *)
ChannelReceives(d, k) ==
  /\ OnTheWay(d)' = SubSeq(OnTheWay(d), k + 1, Len(OnTheWay(d)))
  /\ got'[d] = got[d] \o SubSeq(OnTheWay(d), 1, k)
  /\ BothAlive' <=> BothAlive

(* All but the first k messages are lost. *)
ChannelCut(d, k) ==
  ~BothAlive' /\ OnTheWay(d)' = SubSeq(OnTheWay(d), 1, k) /\ got'[d] = got[d]

(* A step of the channel, or a stutter. *)
ChannelStep(d) ==
  \/ \E m \in Message : ChannelSends(d, m)
  \/ \E k \in 1 .. Len(OnTheWay(d)) : ChannelReceives(d, k)
  \/ \E k \in 0 .. Len(OnTheWay(d)) : ChannelCut(d, k)
  \/ OnTheWay(d)' = OnTheWay(d) /\ got'[d] = got[d] /\ (BothAlive' <=> BothAlive)

(* What a step does to the stream of a direction is a step of its channel. *)
LEMMA GoesImplements ==
  ASSUME Inv, Inv', NEW d \in End, Goes(d)
  PROVE  ChannelStep(d)
<1>1. CASE ~peer'[d].alive /\ got'[d] = got[d]
  <2>1. ~BothAlive' /\ OnTheWay(d)' = <<>>
    BY <1>1, EndFacts DEF OnTheWay
  <2>2. PICK l, n \in Nat : OnTheWay(d) = Following(l, n)
    <3>1. CASE ~peer[d].alive
      <4>1. OnTheWay(d) = <<>>
        BY <3>1 DEF OnTheWay
      <4>2. Following(0, 0) = <<>> /\ 0 \in Nat
        BY DEF Following
      <4> QED BY <4>1, <4>2
    <3>2. CASE peer[d].alive
      <4>1. PICK f \in Nat : Wire(d, f)
        BY <3>2 DEF Inv, WireInv
      <4>2. PICK q, n \in Nat : q = f \div Size /\ n = Len(got[d]) /\ n <= q /\ OnTheWay(d) = Following(n, q - n)
        BY <3>2, <4>1, QueueIs DEF Inv
      <4>3. q - n \in Nat
        BY <4>2
      <4> QED BY <4>2, <4>3
    <3> QED BY <3>1, <3>2
  <2>3. Len(OnTheWay(d)) \in Nat /\ OnTheWay(d) \in Seq(Nat)
    BY <2>2, FollowingSeq
  <2>4. SubSeq(OnTheWay(d), 1, 0) = <<>> /\ 0 \in 0 .. Len(OnTheWay(d))
    BY <2>3
  <2>5. ChannelCut(d, 0)
    BY <1>1, <2>1, <2>4 DEF ChannelCut
  <2> QED BY <2>4, <2>5 DEF ChannelStep
<1>2. ASSUME peer[d].alive, peer'[d].alive, NEW f \in Nat, NEW g \in Nat, Wire(d, f), Wire(d, g)',
             \/ /\ g = f /\ (BothAlive' <=> BothAlive)
                /\ \E k \in Nat : got'[d] = Following(0, Len(got[d]) + k)
             \/ g = f + Size /\ got'[d] = got[d] /\ BothAlive /\ BothAlive'
             \/ g <= f /\ got'[d] = got[d] /\ ~BothAlive'
      PROVE  ChannelStep(d)
  <2>1. PICK q, n \in Nat : q = f \div Size /\ n = Len(got[d]) /\ n <= q /\ OnTheWay(d) = Following(n, q - n)
    BY <1>2, QueueIs DEF Inv
  <2>2. PICK r, o \in Nat : r = g \div Size /\ o = Len(got'[d]) /\ o <= r /\ OnTheWay(d)' = Following(o, r - o)
    BY <1>2, QueueWillBe DEF Inv
  <2>3. PICK j, i \in Nat : j = q - n /\ i = r - o
    BY <2>1, <2>2
  <2>4. OnTheWay(d) = Following(n, j) /\ OnTheWay(d)' = Following(o, i) /\ Len(OnTheWay(d)) = j
    <3>1. OnTheWay(d) = Following(n, j)
      BY <2>1, <2>3
    <3>2. OnTheWay(d)' = Following(o, i)
      BY <2>2, <2>3
    <3>3. Len(Following(n, j)) = j
      BY FollowingSeq
    <3> QED BY <3>1, <3>2, <3>3
  <2>5. got[d] = Following(0, n)
    BY <2>1 DEF Inv, WireInv
  <2>6. CASE /\ g = f /\ (BothAlive' <=> BothAlive)
             /\ \E k \in Nat : got'[d] = Following(0, Len(got[d]) + k)
    <3>1. PICK k \in Nat : got'[d] = Following(0, n + k) /\ o = n + k
      <4>1. PICK k \in Nat : got'[d] = Following(0, Len(got[d]) + k)
        BY <2>6
      <4>2. PICK x \in Nat : x = n + k /\ got'[d] = Following(0, x)
        BY <2>1, <4>1
      <4>3. Len(Following(0, x)) = x
        BY FollowingSeq
      <4> QED BY <2>2, <4>2, <4>3
    <3>2. r = q /\ k <= j /\ i = j - k
      BY <2>1, <2>2, <2>3, <2>6, <3>1
    <3>3. CASE k = 0
      BY <2>4, <2>5, <2>6, <3>1, <3>2, <3>3 DEF ChannelStep
    <3>4. CASE k # 0
      <4> AtMost(k, j)
        BY <3>2 DEF AtMost
      <4>1. SubSeq(Following(n, j), k + 1, j) = Following(n + k, j - k)
        BY FollowingRest
      <4>2. SubSeq(Following(n, j), 1, k) = Following(n, k)
        BY FollowingFirst
      <4>3. Following(0, n) \o Following(n, k) = Following(0, n + k)
        <5>1. PICK z \in Nat : z = 0 /\ z + n = n
          OBVIOUS
        <5>2. Following(z, n) \o Following(z + n, k) = Following(z, n + k)
          BY FollowingConcat
        <5> QED BY <5>1, <5>2
      <4>4. ChannelReceives(d, k)
        BY <2>4, <2>5, <2>6, <3>1, <3>2, <4>1, <4>2, <4>3 DEF ChannelReceives
      <4>5. k \in 1 .. Len(OnTheWay(d))
        BY <2>4, <3>2, <3>4
      <4> QED BY <4>4, <4>5 DEF ChannelStep
    <3> QED BY <3>3, <3>4
  <2>7. CASE g = f + Size /\ got'[d] = got[d] /\ BothAlive /\ BothAlive'
    <3>1. o = n
      BY <2>1, <2>2, <2>7
    <3>2. r = q + 1
      <4>1. PICK x \in Nat : x = q * Size /\ x <= f /\ f < x + Size /\ (q + 1) * Size = x + Size
        BY <2>1, Whole, SizeFacts
      <4>2. x + Size <= g /\ g < (x + Size) + Size /\ q + 1 \in Nat
        BY <2>7, <4>1, SizeFacts
      <4>3. g \div Size = q + 1
        BY <4>1, <4>2, WholeUnique
      <4> QED BY <2>2, <4>3
    <3>3. i = j + 1 /\ n + (j + 1) = r
      BY <2>1, <2>2, <2>3, <3>1, <3>2
    <3>4. Append(Following(n, j), n + (j + 1)) = Following(n, j + 1)
      BY FollowingAppend
    <3>5. r \in Message
      <4>1. PICK m \in Nat : m <= MaxSends /\ g <= m * Size
        <5>1. Other(d) \in End
          BY EndFacts
        <5>2. sends'[Other(d)] \in 0 .. MaxSends
          BY <5>1 DEF Inv, StateInv
        <5>3. g <= sends'[Other(d)] * Size
          BY <1>2 DEF Wire
        <5> QED BY <5>2, <5>3, SizeFacts
      <4>2. PICK z \in Nat : z = m * Size
        BY SizeFacts
      <4>3. g < z + Size
        BY <4>1, <4>2, SizeFacts
      <4>4. r <= m
        BY <2>2, <4>2, <4>3, WholeBound
      <4> QED BY <3>2, <4>1, <4>4, SizeFacts DEF Message
    <3>6. ChannelSends(d, r)
      BY <2>4, <2>7, <3>1, <3>3, <3>4 DEF ChannelSends
    <3> QED BY <3>5, <3>6 DEF ChannelStep
  <2>8. CASE g <= f /\ got'[d] = got[d] /\ ~BothAlive'
    <3>1. o = n
      BY <2>1, <2>2, <2>8
    <3>2. r <= q
      <4>1. PICK x \in Nat : x = q * Size /\ f < x + Size
        BY <2>1, Whole, SizeFacts
      <4>2. g < x + Size
        BY <2>8, <4>1, SizeFacts
      <4> QED BY <2>2, <4>1, <4>2, WholeBound
    <3>3. i <= j
      BY <2>1, <2>2, <2>3, <3>1, <3>2
    <3>4. SubSeq(Following(n, j), 1, i) = Following(n, i)
      <4>1. AtMost(i, j)
        BY <3>3 DEF AtMost
      <4> QED BY <4>1, FollowingFirst
    <3>5. ChannelCut(d, i) /\ i \in 0 .. Len(OnTheWay(d))
      BY <2>4, <2>8, <3>1, <3>3, <3>4 DEF ChannelCut
    <3> QED BY <3>5 DEF ChannelStep
  <2> QED BY <1>2, <2>6, <2>7, <2>8
<1> QED BY <1>1, <1>2 DEF Goes

(***************************************************************************)
(* A step of the two peers is a step, or a stutter, of each direction's    *)
(* channel.                                                                *)
(***************************************************************************)
LEMMA StepImplements ==
  ASSUME Inv, Inv', Next, NEW d \in End
  PROVE  ChannelStep(d)
BY NextStep, GoesImplements DEF End

(* The channel to end 1 makes the step. *)
LEMMA ToOne ==
  ASSUME ChannelStep(1)
  PROVE  [WireTo1!Next]_<<OnTheWay(1), got[1], BothAlive>>
<1>1. CASE \E m \in Message : ChannelSends(1, m)
  <2>1. PICK m \in Message : ChannelSends(1, m)
    BY <1>1
  <2>2. WireTo1!Send(m)
    BY <2>1 DEF ChannelSends, WireTo1!Send
  <2> QED BY <2>2 DEF WireTo1!Next
<1>2. CASE \E k \in 1 .. Len(OnTheWay(1)) : ChannelReceives(1, k)
  <2>1. PICK k \in 1 .. Len(OnTheWay(1)) : ChannelReceives(1, k)
    BY <1>2
  <2>2. WireTo1!Receive(k)
    BY <2>1 DEF ChannelReceives, WireTo1!Receive
  <2> QED BY <2>2 DEF WireTo1!Next
<1>3. CASE \E k \in 0 .. Len(OnTheWay(1)) : ChannelCut(1, k)
  <2>1. PICK k \in 0 .. Len(OnTheWay(1)) : ChannelCut(1, k)
    BY <1>3
  <2>2. WireTo1!Cut(k)
    BY <2>1 DEF ChannelCut, WireTo1!Cut
  <2> QED BY <2>2 DEF WireTo1!Next
<1>4. CASE OnTheWay(1)' = OnTheWay(1) /\ got'[1] = got[1] /\ (BothAlive' <=> BothAlive)
  BY <1>4
<1> QED BY <1>1, <1>2, <1>3, <1>4 DEF ChannelStep

(* The channel to end 2 makes the step. *)
LEMMA ToTwo ==
  ASSUME ChannelStep(2)
  PROVE  [WireTo2!Next]_<<OnTheWay(2), got[2], BothAlive>>
<1>1. CASE \E m \in Message : ChannelSends(2, m)
  <2>1. PICK m \in Message : ChannelSends(2, m)
    BY <1>1
  <2>2. WireTo2!Send(m)
    BY <2>1 DEF ChannelSends, WireTo2!Send
  <2> QED BY <2>2 DEF WireTo2!Next
<1>2. CASE \E k \in 1 .. Len(OnTheWay(2)) : ChannelReceives(2, k)
  <2>1. PICK k \in 1 .. Len(OnTheWay(2)) : ChannelReceives(2, k)
    BY <1>2
  <2>2. WireTo2!Receive(k)
    BY <2>1 DEF ChannelReceives, WireTo2!Receive
  <2> QED BY <2>2 DEF WireTo2!Next
<1>3. CASE \E k \in 0 .. Len(OnTheWay(2)) : ChannelCut(2, k)
  <2>1. PICK k \in 0 .. Len(OnTheWay(2)) : ChannelCut(2, k)
    BY <1>3
  <2>2. WireTo2!Cut(k)
    BY <2>1 DEF ChannelCut, WireTo2!Cut
  <2> QED BY <2>2 DEF WireTo2!Next
<1>4. CASE OnTheWay(2)' = OnTheWay(2) /\ got'[2] = got[2] /\ (BothAlive' <=> BothAlive)
  BY <1>4
<1> QED BY <1>1, <1>2, <1>3, <1>4 DEF ChannelStep

(***************************************************************************)
(* "Paxos reliable IO" (paxos_io.c:2): each direction of a connection      *)
(* implements Channel.  Whatever the portions in which bytes are written   *)
(* and read, whichever dispatches fail and whenever an end closes, the     *)
(* messages dispatched are those sent, in order, each once and whole, and  *)
(* a cut loses them only from the end.                                     *)
(***************************************************************************)
THEOREM PeersImplementChannel == Spec => ReliableIO
<1>1. Init => WireTo1!Init /\ WireTo2!Init
  <2> SUFFICES ASSUME Init PROVE WireTo1!Init /\ WireTo2!Init
    OBVIOUS
  <2>1. Inv /\ BothAlive
    BY InitInv DEF Init, PaxosPeerInit, BothAlive, End
  <2>2. ASSUME NEW d \in End PROVE OnTheWay(d) = <<>> /\ got[d] = <<>>
    <3>1. got[d] = <<>> /\ Len(<<>>) = 0 /\ <<>> \o <<>> = <<>> /\ 0 \div Size = 0
      BY SizeFacts DEF Init
    <3>2. Stream(d) = <<>>
      BY EndFacts, <3>1 DEF Init, PaxosPeerInit, Stream
    <3>3. NextMessages(<<>>, 0) = <<>>
      BY DEF NextMessages
    <3> QED BY <3>1, <3>2, <3>3 DEF OnTheWay
  <2> QED BY <2>1, <2>2 DEF WireTo1!Init, WireTo2!Init, End
<1>2. Inv /\ Inv' /\ [Next]_vars => /\ [WireTo1!Next]_<<OnTheWay(1), got[1], BothAlive>>
                                   /\ [WireTo2!Next]_<<OnTheWay(2), got[2], BothAlive>>
  <2>1. CASE Inv /\ Inv' /\ Next
    <3>1. ChannelStep(1) /\ ChannelStep(2)
      BY <2>1, StepImplements DEF End
    <3> QED BY <3>1, ToOne, ToTwo
  <2>2. CASE UNCHANGED vars
    BY <2>2 DEF vars, OnTheWay, BothAlive, Stream
  <2> QED BY <2>1, <2>2
<1>3. Spec => WireTo1!Spec
  BY <1>1, <1>2, PeerInvariant, PTL DEF Spec, WireTo1!Spec
<1>4. Spec => WireTo2!Spec
  BY <1>1, <1>2, PeerInvariant, PTL DEF Spec, WireTo2!Spec
<1> QED BY <1>3, <1>4 DEF ReliableIO

=============================================================================
