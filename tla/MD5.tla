---------------------------------- MODULE MD5 -----------------------------------
(***************************************************************************)
(* MD5: a message is fed in pieces of any length, from memory or from a     *)
(* stream, and becomes blocks; finish() pads it and appends its length.     *)
(* What the compression of processBlock() computes is left out: the state   *)
(* of the digest is the sequence of the blocks it was given.  The bytes of  *)
(* a message are numbered.                                                  *)
(***************************************************************************)
EXTENDS Integers, Sequences, SequencesExt

CONSTANTS
  BlockSize,      \* 64
  WordRange,      \* 2^32, what a word of the bit count holds; a multiple of 8 blocks
  ChunkSize,      \* 1024, what fromStream() reads at a time
  MaxMessage      \* bound

ASSUME MD5Assumption ==
  /\ BlockSize \in Nat /\ BlockSize > 2 /\ ChunkSize \in Nat \ {0} /\ MaxMessage \in Nat
  /\ WordRange \in Nat \ {0} /\ WordRange % (8 * BlockSize) = 0

VARIABLES
  md,         \* [low, high, accum, blocks]: _count, _accum and the state of the digest
  valid,      \* _valid
  message     \* how many bytes were fed since reset()

md5Vars == <<md, valid, message>>

LengthSize == 2     \* the eight bytes of the length, here one for each word

Fresh(accum) == [low |-> 0, high |-> 0, accum |-> accum, blocks |-> <<>>]

MD5Init ==
  /\ md = Fresh([i \in 1..BlockSize |-> 0]) /\ valid = FALSE /\ message = 0

(* reset() leaves the accumulator as it is. *)
Reset == md' = Fresh(md.accum) /\ valid' = FALSE /\ message' = 0

ProcessBlock(m, block) == [m EXCEPT !.blocks = Append(@, block)]

Offset(m) == (m.low \div 8) % BlockSize

(* Mutant: the carry out of the low word is lost. *)
BitCountUncarried(m, n) ==
  [m EXCEPT !.low = (@ + 8 * n) % WordRange, !.high = @ + (8 * n) \div WordRange]

BitCount(m, n) ==
  LET bits == (8 * n) % WordRange
      low == (m.low + bits) % WordRange
  IN  [m EXCEPT !.low = low,
                !.high = @ + (8 * n) \div WordRange + (IF low < bits THEN 1 ELSE 0)]

(* memcpy() into the accumulator from position i on *)
Accumulated(m, i, bytes) ==
  [m EXCEPT !.accum = [k \in 1..BlockSize |->
                         IF k - i \in DOMAIN bytes THEN bytes[k - i] ELSE @[k]]]

(* Full blocks are processed where they are; the rest goes to the front of    *)
(* the accumulator.                                                           *)
FullBlocks(m, bytes) ==
  LET n == Len(bytes) \div BlockSize
      block(k) == SubSeq(bytes, (k - 1) * BlockSize + 1, k * BlockSize)
  IN  Accumulated([m EXCEPT !.blocks = @ \o [k \in 1..n |-> block(k)]],
                  0, SubSeq(bytes, n * BlockSize + 1, Len(bytes)))

(* fromMem(): a partial block is completed first, if there is enough for it. *)
Fed(m, bytes) ==
  LET o == Offset(m)
      n == Len(bytes)
      copy == IF o + n > BlockSize THEN BlockSize - o ELSE n
      c == BitCount(m, n)
      a == Accumulated(c, o, SubSeq(bytes, 1, copy))
  IN  IF n = 0 THEN m
      ELSE IF o = 0 THEN FullBlocks(c, bytes)
      ELSE IF o + copy < BlockSize THEN a
      ELSE FullBlocks(ProcessBlock(a, a.accum), SubSeq(bytes, copy + 1, n))

Bytes(n) == [i \in 1..n |-> message + i]
Feed(m, n) == md' = m /\ message' = message + n /\ UNCHANGED valid

FromMem(n) == ~valid /\ Feed(Fed(md, Bytes(n)), n)

(* fromStream() and fromFile(): all the stream has, or the next n bytes. *)
FromStream(n) ==
  LET chunks == (n + ChunkSize - 1) \div ChunkSize
      chunk(k) == SubSeq(Bytes(n), (k - 1) * ChunkSize + 1, IF k < chunks THEN k * ChunkSize ELSE n)
  IN  ~valid /\ Feed(FoldLeft(Fed, md, [k \in 1..chunks |-> chunk(k)]), n)

Pad == [i \in 1..BlockSize |-> IF i = 1 THEN -1 ELSE 0]
PadLength(m) == ((BlockSize - LengthSize - 1 - m.low \div 8) % BlockSize) + 1
LengthOf(m) == <<1000 + m.low, 2000 + m.high>>

(* finish(), which operator () calls: the length is taken before the padding. *)
Finish ==
  /\ ~valid /\ valid' = TRUE
  /\ md' = Fed(Fed(md, SubSeq(Pad, 1, PadLength(md))), LengthOf(md))
  /\ UNCHANGED message

MD5Next ==
  \/ Reset \/ Finish
  \/ \E n \in 0..(MaxMessage - message) : FromMem(n) \/ FromStream(n)

Text == [i \in 1..message |-> i]
Zeros(n) == [i \in 1..n |-> 0]

(* However the message is cut into pieces, the digest is that of the message  *)
(* padded once to whole blocks with its own length in bits, also when the     *)
(* count leaves its low word; until then the blocks and the accumulator hold  *)
(* the message and nothing of the one before the reset.                       *)
DigestsTheMessage ==
  LET done == FlattenSeq(md.blocks)
      bits == 8 * message
  IN  IF ~valid THEN done \o SubSeq(md.accum, 1, Offset(md)) = Text
      ELSE /\ \E z \in 0..(BlockSize - 1) :
                done = Text \o <<-1>> \o Zeros(z)
                         \o <<1000 + (bits % WordRange), 2000 + bits \div WordRange>>
           /\ Len(done) % BlockSize = 0
================================================================================
