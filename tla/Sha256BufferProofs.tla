------------------------- MODULE Sha256BufferProofs -------------------------
(***************************************************************************)
(* Sha256Buffer for every size of chunks, of the length field and of       *)
(* messages.  What the code multiplies and divides by the size of a chunk  *)
(* is arithmetic the provers find only when told where to look: the        *)
(* lemmas of the first part tell them.                                     *)
(***************************************************************************)
EXTENDS Sha256Buffer, TLAPS, SequenceTheorems

LEMMA DivisionFacts ==
  ASSUME NEW a \in Nat, NEW b \in Nat, b > 0
  PROVE  /\ a \div b \in Nat
         /\ (a \div b) * b <= a
         /\ a < (a \div b) * b + b
  OBVIOUS

\* The quotient is the only number that a lies that close above.
LEMMA QuotientUnique ==
  ASSUME NEW a \in Nat, NEW b \in Nat, b > 0, NEW q \in Nat, q * b <= a, a < q * b + b
  PROVE  a \div b = q
  BY DivisionFacts

LEMMA ProductMonotone ==
  ASSUME NEW b \in Nat, NEW i \in Int, NEW j \in Int, i <= j
  PROVE  i * b <= j * b
  OBVIOUS

LEMMA InChunk ==
  ASSUME NEW c \in Nat, c > 0
  PROVE  /\ c * Block \in Nat
         /\ (c - 1) * Block \in Nat
         /\ (c - 1) * Block + Block = c * Block
  BY SizesAssumption
-----------------------------------------------------------------------------
(***************************************************************************)
(* Pieces of the message: consecutive ones make a piece, and what is cut   *)
(* out of a piece is one.                                                  *)
(***************************************************************************)
MessageBytes == {Data(i) : i \in Nat}

LEMMA PieceFacts ==
  ASSUME NEW from \in Nat, NEW n \in Nat
  PROVE  /\ Piece(from, n) \in Seq(MessageBytes)
         /\ Len(Piece(from, n)) = n
         /\ \A i \in 1..n : Piece(from, n)[i] = Data(from + i)
<1>1. \A i \in 1..n : Data(from + i) \in MessageBytes
  BY DEF MessageBytes
<1> QED
  BY <1>1 DEF Piece

LEMMA PiecesJoin ==
  ASSUME NEW from \in Nat, NEW m \in Nat, NEW n \in Nat
  PROVE  Piece(from, m) \o Piece(from + m, n) = Piece(from, m + n)
<1> DEFINE a == Piece(from, m)
           b == Piece(from + m, n)
           both == Piece(from, m + n)
           joined == a \o b
<1>1. /\ a \in Seq(MessageBytes) /\ Len(a) = m
      /\ \A i \in 1..m : a[i] = Data(from + i)
  BY PieceFacts
<1>2. /\ b \in Seq(MessageBytes) /\ Len(b) = n
      /\ \A i \in 1..n : b[i] = Data((from + m) + i)
  <2>1. from + m \in Nat
    OBVIOUS
  <2> QED
    BY <2>1, PieceFacts
<1>3. /\ both \in Seq(MessageBytes) /\ Len(both) = m + n
      /\ \A i \in 1..(m + n) : both[i] = Data(from + i)
  BY PieceFacts
<1> HIDE DEF a, b, both
<1>4. /\ joined \in Seq(MessageBytes) /\ Len(joined) = m + n
      /\ \A i \in 1..(m + n) : joined[i] = IF i <= m THEN a[i] ELSE b[i - m]
  BY <1>1, <1>2, ConcatProperties
<1> HIDE DEF joined
<1>5. ASSUME NEW i \in 1..(m + n)
      PROVE  joined[i] = both[i]
  <2>1. CASE i <= m
    BY <1>1, <1>3, <1>4, <2>1
  <2>2. CASE i > m
    <3>1. i - m \in 1..n /\ (from + m) + (i - m) = from + i
      BY <2>2
    <3>2. b[i - m] = Data(from + i)
      BY <1>2, <3>1
    <3> QED
      BY <1>3, <1>4, <2>2, <3>2
  <2> QED
    BY <2>1, <2>2
<1> QED
  BY <1>3, <1>4, <1>5, SeqEqual DEF joined, a, b, both

\* Bytes i+1 to j of a piece.
Cut(from, n, i, j) == SubSeq(Piece(from, n), i + 1, j)

LEMMA PieceOfPiece ==
  ASSUME NEW from \in Nat, NEW n \in Nat, NEW i \in Nat, NEW k \in Nat, i + k <= n
  PROVE  Cut(from, n, i, i + k) = Piece(from + i, k)
<1> DEFINE a == Piece(from, n)
           b == Piece(from + i, k)
           cut == SubSeq(a, i + 1, i + k)
<1>1. /\ a \in Seq(MessageBytes) /\ Len(a) = n
      /\ \A m \in 1..n : a[m] = Data(from + m)
  BY PieceFacts
<1>2. /\ b \in Seq(MessageBytes) /\ Len(b) = k
      /\ \A m \in 1..k : b[m] = Data((from + i) + m)
  <2>1. from + i \in Nat
    OBVIOUS
  <2> QED
    BY <2>1, PieceFacts
<1> HIDE DEF a, b
<1>3. /\ cut \in Seq(MessageBytes)
      /\ Len(cut) = IF i + 1 <= i + k THEN (i + k) - (i + 1) + 1 ELSE 0
      /\ \A m \in 1..((i + k) - (i + 1) + 1) : cut[m] = a[(i + 1) + m - 1]
  <2>1. \A m \in (i + 1)..(i + k) : a[m] \in MessageBytes
    BY <1>1, ElementOfSeq
  <2> QED
    BY <2>1, SubSeqProperties
<1> HIDE DEF cut
<1>4. Len(cut) = k
  BY <1>3
<1>5. ASSUME NEW m \in 1..k
      PROVE  cut[m] = b[m]
  <2>1. /\ m \in 1..((i + k) - (i + 1) + 1) /\ (i + 1) + m - 1 = i + m /\ i + m \in 1..n
        /\ (from + i) + m = from + (i + m)
    OBVIOUS
  <2>2. cut[m] = a[i + m]
    BY <1>3, <2>1
  <2> QED
    BY <1>1, <1>2, <2>1, <2>2
<1> QED
  BY <1>2, <1>3, <1>4, <1>5, SeqEqual DEF Cut, cut, a, b

LEMMA ChunkOfPiece ==
  ASSUME NEW from \in Nat, NEW n \in Nat, NEW c \in Nat, c > 0, c * Block <= n
  PROVE  SubSeq(Piece(from, n), (c - 1) * Block + 1, c * Block) = Piece(from + (c - 1) * Block, Block)
<1> DEFINE i == (c - 1) * Block
           j == c * Block
<1>1. i \in Nat /\ j \in Nat /\ i + Block = j /\ j <= n /\ Block \in Nat
  BY InChunk, SizesAssumption
<1> HIDE DEF i, j
<1>2. i + Block <= n
  BY <1>1
<1>3. Cut(from, n, i, i + Block) = Piece(from + i, Block)
  BY <1>1, <1>2, PieceOfPiece
<1> QED
  BY <1>1, <1>3 DEF Cut, i, j
-----------------------------------------------------------------------------
(***************************************************************************)
(* The invariant: TypeOK and NothingLost are inductive together.           *)
(***************************************************************************)
IInv == TypeOK /\ NothingLost

LEMMA BytesAreBytes ==
  /\ \A i \in 1..MaxSize : Data(i) \in Byte
  /\ Mark \in Byte /\ Zero \in Byte /\ Garbage \in Byte
  /\ \A n \in 0..MaxSize, i \in 1..Field : LengthByte(n, i) \in Byte
  BY DEF Byte

LEMMA PieceType ==
  ASSUME NEW from \in Nat, from + Block <= MaxSize
  PROVE  Piece(from, Block) \in Chunk
<1>1. \A i \in 1..Block : from + i \in 1..MaxSize
  BY SizesAssumption
<1> QED
  BY <1>1, BytesAreBytes DEF Piece, Chunk

LEMMA InitInv == Init => IInv
<1> SUFFICES ASSUME Init
             PROVE  IInv
  OBVIOUS
<1>1. SubSeq(last_chunk, 1, 0) = <<>> /\ Piece(0, 0) = <<>>
  BY SubSeqEmpty, PieceFacts, EmptySeq
<1>2. Len(h) = 0 /\ h \in Seq(Chunk) /\ 0 * Block = 0
  BY EmptySeq, SizesAssumption DEF Init
<1>3. TypeOK
  BY <1>2, SizesAssumption, BytesAreBytes DEF Init, TypeOK, Chunk
<1>4. NothingLost
  <2>1. data_size = 0 /\ chunk_size = 0
    BY DEF Init
  <2>2. SubSeq(last_chunk, 1, chunk_size) = Piece(Len(h) * Block, chunk_size)
    BY <1>1, <1>2, <2>1
  <2> QED
    BY <1>2, <2>1, <2>2, SizesAssumption DEF NothingLost
<1> QED
  BY <1>3, <1>4 DEF IInv

LEMMA UpdateInv ==
  ASSUME IInv, NEW n \in 0..(MaxSize - data_size), Update(n)
  PROVE  IInv'
<1> DEFINE base == Len(h) * Block
           size == chunk_size + n
           full == size \div Block
           taken == full * Block
           whole == [c \in 1..full |-> SubSeq(Piece(base, size), (c - 1) * Block + 1, c * Block)]
           rest == SubSeq(Piece(base, size), taken + 1, size)
           left == size - taken
<1>1. /\ Block \in Nat /\ Block > 0
      /\ data_size \in Nat /\ chunk_size \in Nat /\ n \in Nat /\ chunk_size < Block
      /\ Len(h) \in Nat /\ base \in Nat /\ data_size = base + chunk_size
      /\ size \in Nat /\ base + size = data_size + n /\ data_size + n <= MaxSize
      /\ h \in Seq(Chunk) /\ last_chunk \in Chunk
  BY SizesAssumption DEF IInv, TypeOK, NothingLost
<1>2. /\ full \in Nat /\ taken \in Nat /\ left \in Nat /\ left < Block
      /\ taken + left = size
  <2>1. full \in Nat /\ taken <= size /\ size < taken + Block
    BY <1>1, DivisionFacts
  <2>2. taken \in Nat
    BY <1>1, <2>1
  <2> HIDE DEF size, full, taken
  <2> QED
    BY <1>1, <2>1, <2>2
<1>3. /\ data_size' = data_size + n
      /\ h' = h \o whole
      /\ last_chunk' = [i \in 1..Block |-> IF i \in 1..Len(rest) THEN rest[i] ELSE last_chunk[i]]
      /\ chunk_size' = Len(rest)
  <2>1. SubSeq(last_chunk, 1, chunk_size) \o Piece(data_size, n) = Piece(base, size)
    <3>1. SubSeq(last_chunk, 1, chunk_size) = Piece(base, chunk_size)
      BY DEF IInv, NothingLost
    <3>2. base \in Nat /\ chunk_size \in Nat /\ n \in Nat /\ data_size = base + chunk_size
      BY <1>1
    <3> HIDE DEF base
    <3>3. Piece(base, chunk_size) \o Piece(base + chunk_size, n) = Piece(base, chunk_size + n)
      BY <3>2, PiecesJoin
    <3> QED
      BY <3>1, <3>2, <3>3
  <2>2. Len(Piece(base, size)) = size
    BY <1>1, PieceFacts
  <2> QED
    BY <2>1, <2>2 DEF Update
<1> HIDE DEF base, size, full, taken
<1>4. \A c \in 1..full : whole[c] = Piece(base + (c - 1) * Block, Block)
  <2> SUFFICES ASSUME NEW c \in 1..full
               PROVE  whole[c] = Piece(base + (c - 1) * Block, Block)
    OBVIOUS
  <2>1. c * Block <= taken
    BY <1>1, <1>2, ProductMonotone DEF taken
  <2>2. base \in Nat /\ size \in Nat /\ c \in Nat /\ c > 0 /\ c * Block <= size
    <3>1. c * Block \in Int
      BY <1>1, <1>2
    <3> QED
      BY <1>1, <1>2, <2>1, <3>1
  <2> QED
    BY <2>2, ChunkOfPiece
<1>5. rest = Piece(base + taken, left)
  <2>1. /\ base \in Nat /\ size \in Nat /\ taken \in Nat /\ left \in Nat
        /\ taken + left <= size /\ taken + left = size
    BY <1>1, <1>2
  <2> HIDE DEF left
  <2>2. Cut(base, size, taken, taken + left) = Piece(base + taken, left)
    BY <2>1, PieceOfPiece
  <2> QED
    BY <2>1, <2>2 DEF Cut
<1> HIDE DEF rest, left
<1>6. /\ Len(rest) = left
      /\ \A i \in 1..left : rest[i] = Data((base + taken) + i) /\ rest[i] \in MessageBytes
  <2>1. base + taken \in Nat
    BY <1>1, <1>2
  <2> QED
    BY <1>2, <1>5, <2>1, PieceFacts, ElementOfSeq
<1>7. \A c \in 1..full : Piece(base + (c - 1) * Block, Block) \in Chunk
  <2> SUFFICES ASSUME NEW c \in 1..full
               PROVE  Piece(base + (c - 1) * Block, Block) \in Chunk
    OBVIOUS
  <2>1. c * Block <= taken
    BY <1>1, <1>2, ProductMonotone DEF taken
  <2>2. (c - 1) * Block \in Nat /\ (c - 1) * Block + Block = c * Block
    BY <1>2, InChunk
  <2>3. base + (c - 1) * Block \in Nat /\ (base + (c - 1) * Block) + Block <= MaxSize
    BY <1>1, <1>2, <2>1, <2>2, SizesAssumption
  <2> QED
    BY <2>3, PieceType
<1>8. whole \in Seq(Chunk) /\ Len(whole) = full
  <2>1. \A c \in 1..full : whole[c] \in Chunk
    BY <1>4, <1>7
  <2>2. whole = [c \in 1..full |-> whole[c]]
    OBVIOUS
  <2> HIDE DEF whole
  <2> QED
    BY <1>2, <2>1, <2>2
<1> HIDE DEF whole
<1>9. /\ h' \in Seq(Chunk) /\ Len(h') = Len(h) + full
      /\ \A c \in 1..(Len(h) + full) : h'[c] = IF c <= Len(h) THEN h[c] ELSE whole[c - Len(h)]
  BY <1>1, <1>2, <1>3, <1>8, ConcatProperties
<1>10. Len(h') * Block = base + taken
  BY <1>1, <1>2, <1>9 DEF base, taken
<1>11. TypeOK'
  <2>1. data_size' \in 0..MaxSize /\ chunk_size' \in 0..(Block - 1)
    BY <1>1, <1>2, <1>3, <1>6, SizesAssumption
  <2>2. \A i \in 1..left : rest[i] \in Byte
    <3> SUFFICES ASSUME NEW i \in 1..left
                 PROVE  rest[i] \in Byte
      OBVIOUS
    <3>1. (base + taken) + i \in 1..MaxSize
      BY <1>1, <1>2, SizesAssumption
    <3> QED
      BY <1>6, <3>1, BytesAreBytes
  <2>3. last_chunk' \in Chunk
    BY <1>1, <1>3, <1>6, <2>2 DEF Chunk
  <2> QED
    BY <1>9, <2>1, <2>3 DEF TypeOK
<1>12. NothingLost'
  <2>1. data_size' = Len(h') * Block + chunk_size' /\ chunk_size' < Block
    <3>1. /\ base \in Nat /\ taken \in Nat /\ left \in Nat /\ data_size + n = base + size
          /\ taken + left = size /\ left < Block
      BY <1>1, <1>2
    <3> QED
      BY <1>3, <1>6, <1>10, <3>1
  <2>2. ASSUME NEW c \in 1..Len(h')
        PROVE  h'[c] = Piece((c - 1) * Block, Block)
    <3>1. CASE c <= Len(h)
      <4>1. c \in 1..Len(h)
        BY <1>1, <3>1
      <4>2. h[c] = Piece((c - 1) * Block, Block)
        BY <4>1 DEF IInv, NothingLost
      <4> QED
        BY <1>9, <3>1, <4>2
    <3>2. CASE c > Len(h)
      <4>1. c - Len(h) \in 1..full
        BY <1>1, <1>2, <1>9, <3>2
      <4>2. base + ((c - Len(h)) - 1) * Block = (c - 1) * Block
        BY <1>1, <1>9 DEF base
      <4> QED
        BY <1>1, <1>4, <1>9, <3>2, <4>1, <4>2
    <3> QED
      BY <1>1, <1>2, <1>9, <3>1, <3>2
  <2>3. SubSeq(last_chunk', 1, chunk_size') = Piece(Len(h') * Block, chunk_size')
    <3> DEFINE saved == SubSeq(last_chunk', 1, left)
    <3>1. \A i \in 1..left : last_chunk'[i] = rest[i]
      BY <1>1, <1>2, <1>3, <1>6
    <3>2. /\ saved \in Seq(MessageBytes)
          /\ Len(saved) = IF 1 <= left THEN left - 1 + 1 ELSE 0
          /\ \A i \in 1..(left - 1 + 1) : saved[i] = last_chunk'[1 + i - 1]
      <4>1. \A i \in 1..left : last_chunk'[i] \in MessageBytes
        BY <1>6, <3>1
      <4> QED
        BY <1>2, <4>1, SubSeqProperties
    <3> HIDE DEF saved
    <3>3. Len(saved) = left /\ \A i \in 1..left : saved[i] = rest[i]
      BY <1>2, <3>1, <3>2
    <3>4. rest \in Seq(MessageBytes)
      <4>1. base + taken \in Nat
        BY <1>1, <1>2
      <4> QED
        BY <1>2, <1>5, <4>1, PieceFacts
    <3>5. saved = rest
      BY <1>6, <3>2, <3>3, <3>4, SeqEqual
    <3> QED
      BY <1>3, <1>5, <1>6, <1>10, <3>5 DEF saved
  <2> QED
    BY <2>1, <2>2, <2>3 DEF NothingLost
<1> QED
  BY <1>11, <1>12 DEF IInv
-----------------------------------------------------------------------------
(***************************************************************************)
(* The padding: the last chunk, or the last two, are those of the standard *)
(* because of NothingLost, whatever last_chunk holds behind chunk_size.    *)
(***************************************************************************)
\* How many chunks the standard makes, in terms of the buffer.
LEMMA ChunksOfBuffer ==
  ASSUME IInv
  PROVE  Chunks(data_size) = Len(h) + (IF chunk_size + 1 > Block - Field THEN 2 ELSE 1)
<1> DEFINE base == Len(h) * Block
           total == data_size + 1 + Field + Block - 1
           more == IF chunk_size + 1 > Block - Field THEN 2 ELSE 1
           count == Len(h) + more
<1>1. /\ Block \in Nat /\ Field \in Nat /\ 0 < Field /\ Field < Block
      /\ chunk_size \in Nat /\ chunk_size < Block /\ Len(h) \in Nat
      /\ base \in Nat /\ data_size = base + chunk_size
  BY SizesAssumption DEF IInv, TypeOK, NothingLost
<1>2. /\ more \in {1, 2} /\ count \in Nat
      /\ count * Block = base + more * Block
  BY <1>1
<1> HIDE DEF base, count
<1>3. /\ total \in Nat
      /\ count * Block <= total
      /\ total < count * Block + Block
  BY <1>1, <1>2
<1> HIDE DEF total, more
<1>4. total \div Block = count
  BY <1>1, <1>2, <1>3, QuotientUnique
<1> QED
  BY <1>4 DEF Chunks, total, count, more

\* Chunks is what it is meant to be: k chunks hold the message, the mark and the
\* length just when there are no fewer than Chunks(n) of them.
LEMMA FewestChunks ==
  ASSUME NEW n \in Nat, NEW k \in Nat
  PROVE  n + 1 + Field <= k * Block <=> Chunks(n) <= k
<1> DEFINE total == n + 1 + Field + Block - 1
           count == total \div Block
<1>1. Block \in Nat /\ Block > 0 /\ Field \in Nat /\ total \in Nat /\ k * Block \in Nat
  BY SizesAssumption
<1>2. count \in Nat /\ count * Block <= total /\ total < count * Block + Block
  <2> HIDE DEF total
  <2> QED
    BY <1>1, DivisionFacts
<1> HIDE DEF count
<1>3. ASSUME count <= k
      PROVE  n + 1 + Field <= k * Block
  <2>1. count * Block <= k * Block
    BY <1>1, <1>2, <1>3, ProductMonotone
  <2>2. count * Block \in Int
    BY <1>1, <1>2
  <2> QED
    BY <1>1, <1>2, <2>1, <2>2
<1>4. ASSUME ~(count <= k)
      PROVE  ~(n + 1 + Field <= k * Block)
  <2>1. (k + 1) * Block <= count * Block
    <3>1. k + 1 \in Int /\ k + 1 <= count
      BY <1>2, <1>4
    <3> QED
      BY <1>1, <1>2, <3>1, ProductMonotone
  <2>2. (k + 1) * Block = k * Block + Block /\ count * Block \in Int
    BY <1>1, <1>2
  <2> QED
    BY <1>1, <1>2, <2>1, <2>2
<1> QED
  BY <1>3, <1>4 DEF Chunks, count, total

LEMMA FinalChunksType ==
  ASSUME IInv
  PROVE  /\ FinalChunks \in Seq(Chunk)
         /\ Len(FinalChunks) = IF chunk_size + 1 > Block - Field THEN 2 ELSE 1
<1> DEFINE marked == [i \in 1..Block |-> IF i <= chunk_size THEN last_chunk[i]
                                         ELSE IF i = chunk_size + 1 THEN Mark ELSE Zero]
           empty == [i \in 1..Block |-> Zero]
<1>1. marked \in Chunk /\ empty \in Chunk
  BY BytesAreBytes DEF IInv, TypeOK, Chunk
<1>2. ASSUME NEW chunk \in Chunk
      PROVE  WithLength(chunk) \in Chunk
  <2>1. \A i \in 1..Block : i > Block - Field => i - (Block - Field) \in 1..Field
    BY SizesAssumption
  <2>2. \A i \in 1..Block : i > Block - Field => LengthByte(data_size, i - (Block - Field)) \in Byte
    BY <2>1, BytesAreBytes DEF IInv, TypeOK
  <2> QED
    BY <2>2 DEF WithLength, Chunk
<1> HIDE DEF marked, empty
<1> QED
  BY <1>1, <1>2 DEF FinalChunks, marked, empty

\* Chunk c of the standard's, byte by byte.
PaddedChunk(n) == [1..Block -> {PaddedByte(n, p) : p \in Nat}]

LEMMA PaddedFacts ==
  ASSUME NEW n \in Nat, Chunks(n) \in Nat
  PROVE  /\ Padded(n) \in Seq(PaddedChunk(n))
         /\ Len(Padded(n)) = Chunks(n)
         /\ \A c \in 1..Chunks(n) :
              /\ (c - 1) * Block \in Nat
              /\ Padded(n)[c] = [i \in 1..Block |-> PaddedByte(n, (c - 1) * Block + i)]
<1> DEFINE chunk(c) == [i \in 1..Block |-> PaddedByte(n, (c - 1) * Block + i)]
<1>1. \A c \in 1..Chunks(n) : (c - 1) * Block \in Nat
  BY InChunk
<1>2. \A c \in 1..Chunks(n) : chunk(c) \in PaddedChunk(n)
  <2> SUFFICES ASSUME NEW c \in 1..Chunks(n), NEW i \in 1..Block
               PROVE  (c - 1) * Block + i \in Nat
    BY DEF PaddedChunk
  <2> QED
    BY <1>1, SizesAssumption
<1>3. Padded(n) = [c \in 1..Chunks(n) |-> chunk(c)]
  BY DEF Padded
<1> HIDE DEF chunk
<1>4. /\ Padded(n) \in Seq(PaddedChunk(n))
      /\ Len(Padded(n)) = Chunks(n)
      /\ \A c \in 1..Chunks(n) : Padded(n)[c] = chunk(c)
  BY <1>2, <1>3
<1> QED
  BY <1>1, <1>4 DEF chunk

LEMMA PaddedFromBuffer == IInv => PaddedAsStandard
<1> SUFFICES ASSUME IInv
             PROVE  PaddedAsStandard
  OBVIOUS
<1> DEFINE n == data_size
           base == Len(h) * Block
           two == chunk_size + 1 > Block - Field
           more == IF two THEN 2 ELSE 1
           all == h \o FinalChunks
           end == Chunks(n) * Block - Field
<1>1. /\ Block \in Nat /\ Field \in Nat /\ 0 < Field /\ Field < Block
      /\ chunk_size \in Nat /\ chunk_size < Block /\ Len(h) \in Nat
      /\ base \in Nat /\ n \in Nat /\ n = base + chunk_size
      /\ h \in Seq(Chunk) /\ last_chunk \in Chunk
  BY SizesAssumption DEF IInv, TypeOK, NothingLost
<1>2. /\ more \in {1, 2}
      /\ Chunks(n) = Len(h) + more
      /\ Chunks(n) \in Nat
      /\ end = base + more * Block - Field
  <2>1. Chunks(n) = Len(h) + more
    BY ChunksOfBuffer
  <2> QED
    BY <1>1, <2>1
<1>3. FinalChunks \in Seq(Chunk) /\ Len(FinalChunks) = more
  BY FinalChunksType
<1>4. /\ all \in Seq(Chunk)
      /\ Len(all) = Len(h) + more
      /\ \A c \in 1..(Len(h) + more) :
           all[c] = IF c <= Len(h) THEN h[c] ELSE FinalChunks[c - Len(h)]
  <2> HIDE DEF base, more, two, end
  <2> QED
    BY <1>1, <1>3, ConcatProperties
<1>5. \A i \in 1..chunk_size : last_chunk[i] = Data(base + i)
  <2> DEFINE waiting == SubSeq(last_chunk, 1, chunk_size)
  <2>1. waiting = Piece(base, chunk_size)
    BY DEF IInv, NothingLost
  <2>2. \A i \in 1..(chunk_size - 1 + 1) : waiting[i] = last_chunk[1 + i - 1]
    <3>1. \A i \in 1..chunk_size : last_chunk[i] \in Byte
      BY <1>1 DEF Chunk
    <3> QED
      BY <1>1, <3>1, SubSeqProperties
  <2>3. \A i \in 1..chunk_size : Piece(base, chunk_size)[i] = Data(base + i)
    BY <1>1, PieceFacts
  <2> HIDE DEF waiting, base
  <2> QED
    BY <1>1, <2>1, <2>2, <2>3
<1> DEFINE standard == Padded(n)
<1>6. /\ standard \in Seq(PaddedChunk(n))
      /\ Len(standard) = Len(h) + more
      /\ \A c \in 1..(Len(h) + more) :
           /\ (c - 1) * Block \in Nat
           /\ standard[c] = [i \in 1..Block |-> PaddedByte(n, (c - 1) * Block + i)]
  <2> HIDE DEF base, more, two, end, n
  <2> QED
    BY <1>1, <1>2, PaddedFacts
<1> HIDE DEF base, end, standard
<1>7. ASSUME NEW c \in 1..Len(h)
      PROVE  h[c] = standard[c]
  <2>1. /\ (c - 1) * Block \in Nat
        /\ standard[c] = [i \in 1..Block |-> PaddedByte(n, (c - 1) * Block + i)]
    <3>1. c \in 1..(Len(h) + more)
      BY <1>1, <1>2
    <3> HIDE DEF more, n
    <3> QED
      BY <1>6, <3>1
  <2>2. h[c] = [i \in 1..Block |-> Data((c - 1) * Block + i)]
    BY DEF IInv, NothingLost, Piece
  <2>3. c * Block <= base /\ (c - 1) * Block + Block = c * Block /\ c * Block \in Nat
    BY <1>1, ProductMonotone, InChunk DEF base
  <2>4. \A i \in 1..Block : PaddedByte(n, (c - 1) * Block + i) = Data((c - 1) * Block + i)
    BY <1>1, <2>1, <2>3 DEF PaddedByte
  <2> QED
    BY <2>1, <2>2, <2>4
<1>8. standard[Len(h) + 1] = [i \in 1..Block |-> PaddedByte(n, base + i)]
  <2>1. Len(h) + 1 \in 1..Chunks(n) /\ (Len(h) + 1) - 1 = Len(h)
    BY <1>1, <1>2
  <2> QED
    BY <1>1, <1>2, <1>6, <2>1 DEF base
<1>9. ASSUME \A c \in 1..(Len(h) + more) : all[c] = standard[c]
      PROVE  PaddedAsStandard
  <2> HIDE DEF all, more
  <2>1. \A c \in 1..Len(standard) : standard[c] \in Chunk
    BY <1>4, <1>9, <1>6, ElementOfSeq
  <2>2. standard \in Seq(Chunk)
    BY <1>6, <2>1
  <2>3. all = standard
    BY <1>4, <1>9, <1>6, <2>2, SeqEqual
  <2> QED
    BY <2>3 DEF PaddedAsStandard, all, standard
<1>10. CASE ~two
  <2>1. FinalChunks[1] = [i \in 1..Block |-> IF i > Block - Field THEN LengthByte(n, i - (Block - Field))
                                             ELSE IF i <= chunk_size THEN last_chunk[i]
                                             ELSE IF i = chunk_size + 1 THEN Mark ELSE Zero]
    BY <1>10 DEF FinalChunks, WithLength
  <2>2. end = base + (Block - Field) /\ more = 1
    BY <1>1, <1>2, <1>10
  <2>3. ASSUME NEW i \in 1..Block
        PROVE  FinalChunks[1][i] = PaddedByte(n, base + i)
    <3>1. CASE i > Block - Field
      <4>1. base + i > end /\ ~(base + i <= n) /\ base + i # n + 1
            /\ (base + i) - end = i - (Block - Field)
        BY <1>1, <1>10, <2>2, <3>1
      <4> QED
        BY <2>1, <3>1, <4>1 DEF PaddedByte, end
    <3>2. CASE i <= chunk_size
      <4>1. base + i <= n /\ ~(i > Block - Field)
        BY <1>1, <1>10, <3>2
      <4> QED
        BY <1>1, <1>5, <2>1, <3>2, <4>1 DEF PaddedByte
    <3>3. CASE i > chunk_size /\ ~(i > Block - Field)
      <4>1. ~(base + i <= n) /\ ~(base + i > end) /\ (base + i = n + 1 <=> i = chunk_size + 1)
            /\ ~(i <= chunk_size)
        BY <1>1, <2>2, <3>3
      <4> QED
        BY <2>1, <3>3, <4>1 DEF PaddedByte, end
    <3> QED
      BY <1>1, <3>1, <3>2, <3>3
  <2>4. FinalChunks[1] = standard[Len(h) + 1]
    BY <1>8, <2>1, <2>3
  <2>5. ASSUME NEW c \in 1..(Len(h) + more)
        PROVE  all[c] = standard[c]
    <3>1. c \in 1..Len(h) \/ (c = Len(h) + 1 /\ ~(c <= Len(h)) /\ c - Len(h) = 1)
      BY <1>1, <2>2
    <3> QED
      BY <1>4, <1>7, <2>4, <3>1
  <2> QED
    BY <1>9, <2>5
<1>11. CASE two
  <2>1. /\ FinalChunks[1] = [i \in 1..Block |-> IF i <= chunk_size THEN last_chunk[i]
                                               ELSE IF i = chunk_size + 1 THEN Mark ELSE Zero]
        /\ FinalChunks[2] = [i \in 1..Block |-> IF i > Block - Field THEN LengthByte(n, i - (Block - Field))
                                               ELSE Zero]
    BY <1>11 DEF FinalChunks, WithLength
  <2>2. end = base + Block + (Block - Field) /\ more = 2
    BY <1>1, <1>2, <1>11
  <2>3. ASSUME NEW i \in 1..Block
        PROVE  FinalChunks[1][i] = PaddedByte(n, base + i)
    <3>1. CASE i <= chunk_size
      <4>1. base + i <= n
        BY <1>1, <3>1
      <4> QED
        BY <1>1, <1>5, <2>1, <3>1, <4>1 DEF PaddedByte
    <3>2. CASE ~(i <= chunk_size)
      <4>1. ~(base + i <= n) /\ ~(base + i > end) /\ (base + i = n + 1 <=> i = chunk_size + 1)
        BY <1>1, <2>2, <3>2
      <4> QED
        BY <2>1, <3>2, <4>1 DEF PaddedByte, end
    <3> QED
      BY <3>1, <3>2
  <2>4. FinalChunks[1] = standard[Len(h) + 1]
    BY <1>8, <2>1, <2>3
  <2>5. standard[Len(h) + 2] = [i \in 1..Block |-> PaddedByte(n, (base + Block) + i)]
    <3>1. /\ Len(h) + 2 \in 1..(Len(h) + more) /\ (Len(h) + 2) - 1 = Len(h) + 1
          /\ (Len(h) + 1) * Block = base + Block
      BY <1>1, <2>2 DEF base
    <3> QED
      BY <1>6, <3>1
  <2>6. ASSUME NEW i \in 1..Block
        PROVE  FinalChunks[2][i] = PaddedByte(n, (base + Block) + i)
    <3>1. /\ ~((base + Block) + i <= n) /\ (base + Block) + i # n + 1
          /\ (base + Block) + i > end <=> i > Block - Field
          /\ ((base + Block) + i) - end = i - (Block - Field)
      BY <1>1, <2>2
    <3> QED
      BY <2>1, <3>1 DEF PaddedByte, end
  <2>7. FinalChunks[2] = standard[Len(h) + 2]
    BY <2>1, <2>5, <2>6
  <2>8. ASSUME NEW c \in 1..(Len(h) + more)
        PROVE  all[c] = standard[c]
    <3>1. \/ c \in 1..Len(h)
          \/ c = Len(h) + 1 /\ ~(c <= Len(h)) /\ c - Len(h) = 1
          \/ c = Len(h) + 2 /\ ~(c <= Len(h)) /\ c - Len(h) = 2
      BY <1>1, <2>2
    <3> QED
      BY <1>4, <1>7, <2>4, <2>7, <3>1
  <2> QED
    BY <1>9, <2>8
<1> QED
  BY <1>10, <1>11

LEMMA FinishInv == IInv /\ Finish => IInv'
<1> SUFFICES ASSUME IInv, Finish
             PROVE  IInv'
  OBVIOUS
<1>1. data_size' = 0 /\ h' = <<>> /\ last_chunk' = Last(FinalChunks) /\ chunk_size' = 0
  BY DEF Finish
<1>2. Last(FinalChunks) \in Chunk
  <2>1. /\ FinalChunks \in Seq(Chunk) /\ Len(FinalChunks) \in Nat /\ Len(FinalChunks) > 0
        /\ Last(FinalChunks) = FinalChunks[Len(FinalChunks)]
    BY FinalChunksType DEF Last
  <2> QED
    BY <2>1, ElementOfSeq
<1>3. SubSeq(last_chunk', 1, 0) = <<>> /\ Piece(0, 0) = <<>>
  BY SubSeqEmpty, PieceFacts, EmptySeq
<1>4. Len(h') = 0 /\ h' \in Seq(Chunk) /\ 0 * Block = 0
  BY <1>1, EmptySeq, SizesAssumption
<1>5. TypeOK'
  BY <1>1, <1>2, <1>4, SizesAssumption DEF TypeOK
<1>6. NothingLost'
  <2>1. SubSeq(last_chunk', 1, chunk_size') = Piece(Len(h') * Block, chunk_size')
    BY <1>1, <1>3, <1>4
  <2> QED
    BY <1>1, <1>4, <2>1, SizesAssumption DEF NothingLost
<1> QED
  BY <1>5, <1>6 DEF IInv

LEMMA InvHolds == Spec => []IInv
<1>1. IInv /\ [Next]_vars => IInv'
  <2> SUFFICES ASSUME IInv, [Next]_vars
               PROVE  IInv'
    OBVIOUS
  <2>1. ASSUME NEW n \in 0..(MaxSize - data_size), Update(n)
        PROVE  IInv'
    BY <2>1, UpdateInv
  <2>2. CASE Finish
    BY <2>2, FinishInv
  <2>3. CASE UNCHANGED vars
    BY <2>3 DEF IInv, TypeOK, NothingLost, vars
  <2> QED
    BY <2>1, <2>2, <2>3 DEF Next
<1> QED
  BY <1>1, InitInv, PTL DEF Spec

\* The buffer and the chunks compressed keep their type: last_chunk always holds
\* a whole chunk of bytes (uint8_t last_chunk[64], sha256.h), chunk_size stays
\* within it and data_size within the bound.
THEOREM TypeCorrect == Spec => []TypeOK
<1>1. IInv => TypeOK
  BY DEF IInv
<1> QED
  BY <1>1, InvHolds, PTL

\* However sha256_update is handed the message, every byte is in the chunk and
\* the place it belongs to, or waits in the buffer, in order.
THEOREM NothingLostCorrect == Spec => []NothingLost
<1>1. IInv => NothingLost
  BY DEF IInv
<1> QED
  BY <1>1, InvHolds, PTL

\* Whenever sha256_finalize is called, the chunks compressed in all are those of
\* the padded message, for every size of chunks and of the length field.
THEOREM PaddedAsStandardCorrect == Spec => []PaddedAsStandard
  BY InvHolds, PaddedFromBuffer, PTL
=============================================================================
