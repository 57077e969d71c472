---------------------------- MODULE Sha256Buffer ----------------------------
(***************************************************************************)
(* The buffering and padding of the SHA-256 that Hash::hashToken uses:     *)
(* data arrives in pieces of any size, is compressed in chunks, and the    *)
(* last chunks get the padding the standard prescribes.  One buffer hashes *)
(* several messages, one after the other (class SHA256).                   *)
(*                                                                         *)
(* The compression function is left out: h stands for the sequence of      *)
(* chunks compressed so far, of which every digest is a function.  A byte  *)
(* of a message is known by its position.                                  *)
(***************************************************************************)
EXTENDS Integers, Sequences, SequencesExt

CONSTANTS
  Block,   \* the bytes of a chunk: 64
  Field,   \* the bytes of the length at the end: 8
  MaxSize  \* bound on the length of a message

ASSUME SizesAssumption ==
  Block \in Nat /\ Field \in Nat /\ MaxSize \in Nat /\ Field > 0 /\ Field < Block

VARIABLES
  data_size,   \* the bytes of the message so far
  h,           \* the chunks compressed so far
  last_chunk,  \* the buffer, a sequence of Block bytes
  chunk_size   \* how many of them wait to be compressed

vars == <<data_size, h, last_chunk, chunk_size>>

Data(i) == [kind |-> "data", value |-> i]
Mark == [kind |-> "mark", value |-> 128]
Zero == [kind |-> "zero", value |-> 0]
Garbage == [kind |-> "garbage", value |-> 0]

\* Byte i of the length of n bytes, in bits, as a big-endian integer.
LengthByte(n, i) == [kind |-> "length", value |-> ((n * 8) \div 256^(Field - i)) % 256]

\* The n bytes of the message behind its first "from".
Piece(from, n) == [i \in 1..n |-> Data(from + i)]

\* sha256_init leaves last_chunk as it is, at first uninitialized.
Init ==
  /\ data_size = 0
  /\ h = <<>>
  /\ last_chunk = [i \in 1..Block |-> Garbage]
  /\ chunk_size = 0

(***************************************************************************)
(* Mutated forms precede the definition they change.                       *)
(***************************************************************************)
\* Mutated form: the rest is saved at the start of the buffer.
UpdateAtStart(n) ==
  LET new == Piece(data_size, n)
      stream == SubSeq(last_chunk, 1, chunk_size) \o new
      full == Len(stream) \div Block
      rest == IF full = 0 THEN new ELSE SubSeq(stream, full * Block + 1, Len(stream))
  IN /\ data_size' = data_size + n
     /\ h' = h \o [c \in 1..full |-> SubSeq(stream, (c - 1) * Block + 1, c * Block)]
     /\ last_chunk' = [i \in 1..Block |-> IF i \in 1..Len(rest) THEN rest[i] ELSE last_chunk[i]]
     /\ chunk_size' = Len(stream) % Block

\* sha256_update: the buffer and the new bytes are compressed chunk by chunk,
\* and the rest is saved; the old contents stay behind it.
Update(n) ==
  LET new == Piece(data_size, n)
      stream == SubSeq(last_chunk, 1, chunk_size) \o new
      full == Len(stream) \div Block
      rest == SubSeq(stream, full * Block + 1, Len(stream))
  IN /\ data_size' = data_size + n
     /\ h' = h \o [c \in 1..full |-> SubSeq(stream, (c - 1) * Block + 1, c * Block)]
     /\ last_chunk' = [i \in 1..Block |-> IF i \in 1..Len(rest) THEN rest[i] ELSE last_chunk[i]]
     /\ chunk_size' = Len(rest)

\* The length goes over the end of the chunk.
WithLength(chunk) ==
  [i \in 1..Block |-> IF i > Block - Field THEN LengthByte(data_size, i - (Block - Field))
                      ELSE chunk[i]]

\* Mutated form: the space is compared before the mark is counted.
FinalChunksEarly ==
  LET marked == [i \in 1..Block |-> IF i <= chunk_size THEN last_chunk[i]
                                    ELSE IF i = chunk_size + 1 THEN Mark ELSE Zero]
      empty == [i \in 1..Block |-> Zero]
  IN IF chunk_size > Block - Field THEN <<marked, WithLength(empty)>> ELSE <<WithLength(marked)>>

\* What sha256_finalize compresses: the mark, zeros, and the length, in a chunk
\* of its own if the mark leaves too little space.
FinalChunks ==
  LET marked == [i \in 1..Block |-> IF i <= chunk_size THEN last_chunk[i]
                                    ELSE IF i = chunk_size + 1 THEN Mark ELSE Zero]
      empty == [i \in 1..Block |-> Zero]
  IN IF chunk_size + 1 > Block - Field THEN <<marked, WithLength(empty)>>
     ELSE <<WithLength(marked)>>

\* SHA256::hash(): sha256_finalize and sha256_init.
Finish ==
  /\ data_size' = 0
  /\ h' = <<>>
  /\ last_chunk' = Last(FinalChunks)
  /\ chunk_size' = 0

Next ==
  \/ \E n \in 0..(MaxSize - data_size) : Update(n)
  \/ Finish

Spec == Init /\ [][Next]_vars
-----------------------------------------------------------------------------
Byte == {Data(i) : i \in 1..MaxSize} \cup {Mark, Zero, Garbage}
        \cup {LengthByte(n, i) : n \in 0..MaxSize, i \in 1..Field}
Chunk == [1..Block -> Byte]

TypeOK ==
  /\ data_size \in 0..MaxSize
  /\ h \in Seq(Chunk)
  /\ last_chunk \in Chunk
  /\ chunk_size \in 0..(Block - 1)

\* Byte p of the message is in its place: however the message was cut into
\* pieces, nothing of it is lost, repeated or out of order between the chunks
\* compressed, all of them whole, and the buffer; the buffer has room for the mark,
\* which is written before it is compared with anything.
NothingLost ==
  /\ data_size = Len(h) * Block + chunk_size
  /\ chunk_size < Block
  /\ \A c \in 1..Len(h) : h[c] = Piece((c - 1) * Block, Block)
  /\ SubSeq(last_chunk, 1, chunk_size) = Piece(Len(h) * Block, chunk_size)

\* The padding of the standard: the message, a mark, and the length at the end of
\* the fewest chunks that hold them, with zeros between.
Chunks(n) == (n + 1 + Field + Block - 1) \div Block

PaddedByte(n, p) ==
  IF p <= n THEN Data(p)
  ELSE IF p = n + 1 THEN Mark
  ELSE IF p > Chunks(n) * Block - Field THEN LengthByte(n, p - (Chunks(n) * Block - Field))
  ELSE Zero

Padded(n) == [c \in 1..Chunks(n) |-> [i \in 1..Block |-> PaddedByte(n, (c - 1) * Block + i)]]

\* A digest taken now is that of the message alone: no length of it, and nothing
\* the buffer held before (an earlier message, its padding, uninitialized bytes),
\* gets into the padding or is missing from it.
PaddedAsStandard == h \o FinalChunks = Padded(data_size)
=============================================================================
