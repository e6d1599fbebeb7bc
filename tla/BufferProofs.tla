---------------------------- MODULE BufferProofs ----------------------------
(***************************************************************************)
(* Proofs about Buffer, for every size of a block, every width of a byte   *)
(* and of a number, and every data written.                                *)
(*                                                                         *)
(* Each operation of a buffer gets a lemma that says what it does to a     *)
(* well-formed buffer in terms of ByteAt(b, i), the byte at an offset, so  *)
(* that blocks appear in those lemmas alone.  BufferInv (the buffer is     *)
(* well-formed) is inductive by them; it is stronger than TypeOK and       *)
(* CursorInPlace, and under it each call is a step of FlatBuffer.          *)
(* The recursive functions of the model are loops: a lemma per loop        *)
(* (PowerLoop, HostLoop, VarintLoop, LoadedFacts, SavedFacts) unrolls it   *)
(* with Loop and CountingUp of SequenceFacts.                              *)
(***************************************************************************)
EXTENDS Buffer, SequenceFacts

-----------------------------------------------------------------------------
(* Arithmetic *)

IsPowers(p, a, n) == p[0] = 1 /\ \A i \in 1..n : p[i] = a * p[i - 1]

LEMMA PowerLoop ==
  ASSUME NEW a \in Nat \ {0}, NEW n \in Nat
  PROVE  \E p \in [0..n -> Nat \ {0}] : IsPowers(p, a, n) /\ Power(a, n) = p[n]
<1> DEFINE X == Nat \ {0}
           F == [i \in 1..n |-> [x \in X |-> a * x]]
<1>1. F \in [1..n -> [X -> X]] /\ 1 \in X
  OBVIOUS
<1>2. PICK f \in [0..n -> X] : f[0] = 1 /\ \A i \in 1..n : f[i] = F[i][f[i - 1]]
  <2> HIDE DEF F, X
  <2>1. \E f \in [0..n -> X] : Goes(f, n, 1, F)
    BY <1>1, Loop
  <2> QED
    BY <2>1 DEF Goes
<1>3. ASSUME NEW i \in 1..n PROVE f[i] = a * f[i - 1]
  <2>1. f[i - 1] \in X
    BY <1>2
  <2>2. F[i][f[i - 1]] = a * f[i - 1]
    BY <2>1
  <2> QED
    BY <1>2, <2>2
<1>4. f = [i \in 0..n |-> IF i = 0 THEN 1 ELSE a * f[i - 1]]
  BY <1>2, <1>3
<1> DEFINE p[i \in 0..n] == IF i = 0 THEN 1 ELSE a * p[i - 1]
<1>5. p = [i \in 0..n |-> IF i = 0 THEN 1 ELSE a * p[i - 1]]
  BY <1>4, Zenon
<1>6. Power(a, n) = p[n]
  BY Zenon DEF Power
<1> HIDE DEF p
<1>7. p[0] = 1 /\ \A i \in 1..n : p[i] = a * p[i - 1]
  BY <1>5
<1>8. p \in [0..n -> X]
  <2> DEFINE S == {i \in 0..n : p[i] \in X}
  <2>1. \A i \in 0..n : i \in S
    <3>1. 0 \in S
      BY <1>7
    <3>2. \A i \in 1..n : i - 1 \in S => i \in S
      BY <1>7
    <3> HIDE DEF S
    <3> QED
      BY <3>1, <3>2, CountingUp
  <2> QED
    BY <1>5, <2>1
<1> QED
  BY <1>6, <1>7, <1>8 DEF IsPowers

LEMMA PowerFacts ==
  ASSUME NEW a \in Nat \ {0}
  PROVE  /\ Power(a, 0) = 1
         /\ \A n \in Nat : Power(a, n) \in Nat \ {0} /\ Power(a, n + 1) = a * Power(a, n)
<1>1. Power(a, 0) = 1
  BY PowerLoop DEF IsPowers
<1>2. ASSUME NEW n \in Nat PROVE Power(a, n) \in Nat \ {0} /\ Power(a, n + 1) = a * Power(a, n)
  <2>1. PICK p \in [0..n -> Nat \ {0}] : IsPowers(p, a, n) /\ Power(a, n) = p[n]
    BY PowerLoop
  <2>2. PICK q \in [0..(n + 1) -> Nat \ {0}] :
          IsPowers(q, a, n + 1) /\ Power(a, n + 1) = q[n + 1]
    <3>1. n + 1 \in Nat
      OBVIOUS
    <3> QED
      BY <3>1, PowerLoop
  <2> DEFINE S == {i \in 0..n : p[i] = q[i]}
  <2>3. 0 \in S
    BY <2>1, <2>2 DEF IsPowers
  <2>4. ASSUME NEW i \in 1..n, i - 1 \in S PROVE i \in S
    BY <2>1, <2>2, <2>4 DEF IsPowers
  <2>5. \A i \in 0..n : i \in S
    <3> HIDE DEF S
    <3> QED
      BY <2>3, <2>4, CountingUp
  <2>6. p[n] = q[n] /\ q[n + 1] = a * q[(n + 1) - 1] /\ (n + 1) - 1 = n
    BY <2>2, <2>5 DEF IsPowers
  <2> QED
    BY <2>1, <2>2, <2>6
<1> QED
  BY <1>1, <1>2

LEMMA Numerals == Group \in Nat \ {0} /\ Half \in Nat \ {0}
<1>1. GroupBits \in Nat /\ WidthBits - 1 \in Nat /\ 2 \in Nat \ {0}
  BY BufferAssumption
<1> QED
  BY <1>1, PowerFacts DEF Group, Half

(* Where an offset of the buffer is. *)
LEMMA DivMod ==
  ASSUME NEW B \in Nat \ {0}, NEW p \in Nat
  PROVE  /\ p \div B \in Nat /\ p % B \in 0..B - 1
         /\ p = B * (p \div B) + (p % B)
  OBVIOUS

LEMMA DivModUnique ==
  ASSUME NEW B \in Nat \ {0}, NEW q \in Nat, NEW r \in 0..B - 1
  PROVE  (B * q + r) \div B = q /\ (B * q + r) % B = r
  OBVIOUS

LEMMA DivModPlus ==
  ASSUME NEW B \in Nat \ {0}, NEW p \in Nat, NEW n \in Nat
  PROVE  /\ (p + n) \div B = p \div B + ((p % B) + n) \div B
         /\ (p + n) % B = ((p % B) + n) % B
  OBVIOUS

LEMMA DivBound ==
  ASSUME NEW B \in Nat \ {0}, NEW p \in Nat, NEW n \in Nat
  PROVE  p < B * n <=> p \div B < n
  OBVIOUS

-----------------------------------------------------------------------------
(* Blocks and cursor *)

Block == [0..BaseSize - 1 -> Byte]
BufferRecord == [blocks : Seq(Block), pos : Nat, size : Nat, cap : Nat, cur : Nat,
                 little : BOOLEAN]

(* The capacity of l blocks, and the cursor for offset p. *)
Capacity(l) == BaseSize * l
CursorOf(l, p) == IF p = Capacity(l) THEN 0 ELSE p \div BaseSize + 1

(* What every call leaves behind: the sizes fit into each other, and cur_  *)
(* is the block of position_.                                              *)
WellFormed(b) ==
  /\ b \in BufferRecord
  /\ Len(b.blocks) >= 1 /\ b.cap = Capacity(Len(b.blocks))
  /\ b.pos <= b.size /\ b.size <= b.cap
  /\ b.cur = CursorOf(Len(b.blocks), b.pos)

(* The byte at offset i, whatever its block. *)
ByteAt(b, i) == b.blocks[i \div BaseSize + 1][i % BaseSize]

(* Where c and npos are the block of offset p and the place in it.         *)
LEMMA CellOf ==
  ASSUME NEW p \in Nat, NEW k \in Nat
  PROVE  Cell(p \div BaseSize + 1, p % BaseSize, k)
           = [block |-> (p + k) \div BaseSize + 1, offset |-> (p + k) % BaseSize]
<1>1. BaseSize \in Nat \ {0}
  BY BufferAssumption
<1>2. /\ (p + k) \div BaseSize = p \div BaseSize + ((p % BaseSize) + k) \div BaseSize
      /\ (p + k) % BaseSize = ((p % BaseSize) + k) % BaseSize
  BY <1>1, DivModPlus
<1>3. /\ p \div BaseSize \in Nat /\ p % BaseSize \in Nat
      /\ ((p % BaseSize) + k) \div BaseSize \in Nat
  BY <1>1, DivMod
<1> QED
  BY <1>2, <1>3 DEF Cell

LEMMA GatherFacts ==
  ASSUME NEW b, NEW p \in Nat, NEW n \in Nat
  PROVE  Gather(b, p \div BaseSize + 1, p % BaseSize, n) = [k \in 1..n |-> ByteAt(b, p + k - 1)]
<1>1. ASSUME NEW k \in 1..n
      PROVE  LET x == Cell(p \div BaseSize + 1, p % BaseSize, k - 1)
             IN b.blocks[x.block][x.offset] = ByteAt(b, p + k - 1)
  <2>1. k - 1 \in Nat /\ p + (k - 1) = p + k - 1
    OBVIOUS
  <2>2. Cell(p \div BaseSize + 1, p % BaseSize, k - 1)
          = [block |-> (p + k - 1) \div BaseSize + 1, offset |-> (p + k - 1) % BaseSize]
    BY <2>1, CellOf
  <2> QED
    BY <2>2 DEF ByteAt
<1> QED
  BY <1>1 DEF Gather

(* An offset that has a block is one of a byte. *)
LEMMA ByteAtType ==
  ASSUME NEW b, WellFormed(b), NEW i \in 0..b.cap - 1
  PROVE  /\ i \div BaseSize + 1 \in 1..Len(b.blocks) /\ i % BaseSize \in 0..BaseSize - 1
         /\ ByteAt(b, i) \in Byte
<1>1. /\ BaseSize \in Nat \ {0} /\ Len(b.blocks) \in Nat /\ b.blocks \in Seq(Block)
      /\ b.cap = BaseSize * Len(b.blocks) /\ i \in Nat /\ i < b.cap
  BY BufferAssumption DEF WellFormed, BufferRecord, Capacity
<1>2. i \div BaseSize \in Nat /\ i % BaseSize \in 0..BaseSize - 1
  BY <1>1, DivMod
<1>3. i \div BaseSize < Len(b.blocks)
  BY <1>1, DivBound
<1>4. i \div BaseSize + 1 \in 1..Len(b.blocks)
  BY <1>1, <1>2, <1>3
<1>5. b.blocks[i \div BaseSize + 1] \in Block
  BY <1>1, <1>4
<1> QED
  BY <1>2, <1>4, <1>5 DEF ByteAt, Block

LEMMA TakenFacts ==
  ASSUME NEW b, WellFormed(b), NEW n \in 0..readSize(b)
  PROVE  taken(b, n) \in Seq(Byte) /\ taken(b, n) = [k \in 1..n |-> ByteAt(b, b.pos + k - 1)]
<1>1. /\ b.pos \in Nat /\ b.size \in Nat /\ b.cap \in Nat /\ n \in Nat /\ b.pos + n <= b.cap
      /\ b.cur = IF b.pos = b.cap THEN 0 ELSE b.pos \div BaseSize + 1
  BY DEF WellFormed, BufferRecord, readSize, CursorOf
<1>2. taken(b, n) = [k \in 1..n |-> ByteAt(b, b.pos + k - 1)]
  <2>1. CASE b.pos = b.cap
    <3>1. 1..n = {}
      BY <1>1, <2>1
    <3> QED
      BY <3>1 DEF taken, Gather
  <2>2. CASE b.pos # b.cap
    BY <1>1, <2>2, GatherFacts DEF taken
  <2> QED
    BY <2>1, <2>2
<1>3. ASSUME NEW k \in 1..n PROVE ByteAt(b, b.pos + k - 1) \in Byte
  <2>1. b.pos + k - 1 \in 0..b.cap - 1
    BY <1>1
  <2> QED
    BY <2>1, ByteAtType
<1> QED
  BY <1>1, <1>2, <1>3

LEMMA CursorFacts ==
  ASSUME NEW l \in Nat \ {0}, NEW p \in 0..Capacity(l)
  PROVE  CursorOf(l, p) \in 0..l /\ Capacity(l) \in Nat
<1>1. BaseSize \in Nat \ {0} /\ BaseSize * l \in Nat
  BY BufferAssumption
<1>2. p \in Nat /\ p <= BaseSize * l
  BY <1>1 DEF Capacity
<1>3. p \div BaseSize \in Nat
  BY <1>1, <1>2, DivMod
<1>4. p < BaseSize * l <=> p \div BaseSize < l
  BY <1>1, <1>2, DivBound
<1>5. (IF p = BaseSize * l THEN 0 ELSE p \div BaseSize + 1) \in 0..l
  BY <1>1, <1>2, <1>3, <1>4
<1> QED
  BY <1>1, <1>5 DEF CursorOf, Capacity

(* The block of the cursor after n more bytes, counted from its block.     *)
LEMMA NextCursor ==
  ASSUME NEW l \in Nat \ {0}, NEW p \in Nat, NEW n \in Nat, p + n <= Capacity(l),
         NEW d, d = CursorOf(l, p) + ((p % BaseSize) + n) \div BaseSize
  PROVE  (IF d <= l THEN d ELSE 0) = CursorOf(l, p + n)
<1> DEFINE B == BaseSize
           cap == B * l
<1>1. B \in Nat \ {0} /\ cap \in Nat /\ p + n <= cap
  BY BufferAssumption DEF Capacity
<1>2. d = (IF p = cap THEN 0 ELSE p \div B + 1) + ((p % B) + n) \div B
  BY DEF CursorOf, Capacity
<1>3. p + n < cap <=> (p + n) \div B < l
  <2>1. p + n \in Nat
    OBVIOUS
  <2> HIDE DEF B
  <2> QED
    BY <1>1, <2>1, DivBound
<1>4. cap % B = 0 /\ 0 \div B = 0
  <2> HIDE DEF B
  <2>1. (B * l + 0) % B = 0 /\ (B * 0 + 0) \div B = 0
    BY <1>1, DivModUnique
  <2> QED
    BY <1>1, <2>1
<1>5. (p + n) \div B = p \div B + ((p % B) + n) \div B
  <2> HIDE DEF B
  <2> QED
    BY <1>1, DivModPlus
<1>6. p \div B \in Nat /\ (p + n) \div B \in Nat /\ (p % B) \in Nat /\ ((p % B) + n) \div B \in Nat
  <2> HIDE DEF B
  <2>1. p \div B \in Nat /\ p % B \in 0..B - 1
    BY <1>1, DivMod
  <2>2. p % B \in Nat /\ (p % B) + n \in Nat
    BY <1>1, <2>1
  <2>3. ((p % B) + n) \div B \in Nat
    BY <1>1, <2>2, DivMod
  <2>4. p + n \in Nat
    OBVIOUS
  <2>5. (p + n) \div B \in Nat
    BY <1>1, <2>4, DivMod
  <2> QED
    BY <2>1, <2>2, <2>3, <2>5
<1>7. (IF d <= l THEN d ELSE 0) = IF p + n = cap THEN 0 ELSE (p + n) \div B + 1
  <2> HIDE DEF cap, B
  <2>1. CASE p = cap
    <3>1. n = 0 /\ ((p % B) + n) \div B = 0
      BY <1>1, <1>4, <2>1
    <3> QED
      BY <1>1, <1>2, <2>1, <3>1
  <2>2. CASE p # cap
    BY <1>1, <1>2, <1>3, <1>5, <1>6, <2>2
  <2> QED
    BY <2>1, <2>2
<1> QED
  BY <1>7 DEF CursorOf, Capacity

LEMMA FieldTypes ==
  ASSUME NEW b, WellFormed(b)
  PROVE  /\ b \in BufferRecord
         /\ Len(b.blocks) \in Nat \ {0} /\ b.blocks \in Seq(Block)
         /\ b.pos \in Nat /\ b.size \in Nat /\ b.cap \in Nat /\ b.little \in BOOLEAN
         /\ b.pos <= b.size /\ b.size <= b.cap /\ b.cap = Capacity(Len(b.blocks))
         /\ b.cur = CursorOf(Len(b.blocks), b.pos)
  BY DEF WellFormed, BufferRecord

LEMMA AdvanceFacts ==
  ASSUME NEW b, WellFormed(b), NEW n \in 0..readSize(b)
  PROVE  /\ WellFormed(advance(b, n))
         /\ advance(b, n).blocks = b.blocks
         /\ advance(b, n).pos = b.pos + n /\ advance(b, n).size = b.size
         /\ advance(b, n).cap = b.cap /\ advance(b, n).little = b.little
<1> DEFINE c == b.cur + ((b.pos % BaseSize) + n) \div BaseSize
           new == IF c <= Len(b.blocks) THEN c ELSE 0
           pos == b.pos + n
<1>1. b.pos \in Nat /\ b.size \in Nat /\ n \in Nat /\ pos <= b.size /\ pos <= b.cap /\ pos \in Nat
  BY FieldTypes DEF readSize
<1>2. new = CursorOf(Len(b.blocks), pos)
  BY <1>1, FieldTypes, NextCursor
<1>3. new \in Nat
  BY <1>1, <1>2, FieldTypes, CursorFacts
<1>4. advance(b, n) = [b EXCEPT !.pos = pos, !.cur = new]
  BY DEF advance
<1> HIDE DEF new, pos
<1>5. /\ advance(b, n) \in BufferRecord
      /\ advance(b, n).blocks = b.blocks
      /\ advance(b, n).pos = pos /\ advance(b, n).size = b.size
      /\ advance(b, n).cap = b.cap /\ advance(b, n).little = b.little
      /\ advance(b, n).cur = new
  BY <1>1, <1>3, <1>4 DEF WellFormed, BufferRecord
<1>6. WellFormed(advance(b, n))
  BY <1>1, <1>2, <1>5 DEF WellFormed
<1> QED
  BY <1>5, <1>6 DEF pos

LEMMA CapacityPlus ==
  ASSUME NEW l \in Nat, NEW k \in Nat
  PROVE  /\ Capacity(l + k) = Capacity(l) + k * BaseSize
         /\ Capacity(l) \in Nat /\ Capacity(l) \div BaseSize = l
<1>1. BaseSize \in Nat \ {0}
  BY BufferAssumption
<1>2. BaseSize * (l + k) = BaseSize * l + k * BaseSize /\ BaseSize * l \in Nat
  BY <1>1
<1>3. (BaseSize * l + 0) \div BaseSize = l
  BY <1>1, DivModUnique
<1> QED
  BY <1>2, <1>3 DEF Capacity

(* Rounding up to whole blocks. *)
LEMMA RoundUp ==
  ASSUME NEW B \in Nat \ {0}, NEW m \in Nat \ {0}
  PROVE  /\ (m + B - 1) \div B \in Nat \ {0}
         /\ ((m + B - 1) \div B) * B >= m
         /\ ((m + B - 1) \div B) * B < m + B
<1> DEFINE x == m + B - 1
           c == x \div B
<1>1. x \in Nat
  OBVIOUS
<1>2. c \in Nat /\ x % B \in 0..B - 1 /\ x = B * c + (x % B)
  BY <1>1, DivMod
<1>3. B * c >= m /\ B * c < m + B
  <2> HIDE DEF c
  <2>1. B * c \in Nat
    BY <1>2
  <2> QED
    BY <1>2, <2>1
<1>4. c # 0
  BY <1>3
<1> HIDE DEF c
<1>5. B * c = c * B
  BY <1>2
<1> QED
  BY <1>2, <1>3, <1>4, <1>5 DEF c

(***************************************************************************)
(* addCapacity leaves room for n bytes behind the cursor, which points to  *)
(* a block then; the bytes that are there stay where they are.             *)
(***************************************************************************)
LEMMA AddCapacityFacts ==
  ASSUME NEW b, WellFormed(b), NEW n \in Nat, NEW g \in Byte
  PROVE  LET a == addCapacity(b, n, g)
         IN /\ WellFormed(a)
            /\ a.pos = b.pos /\ a.size = b.size /\ a.little = b.little
            /\ b.cap <= a.cap /\ b.pos + n <= a.cap
            /\ \A i \in 0..b.cap - 1 : ByteAt(a, i) = ByteAt(b, i)
<1> DEFINE a == addCapacity(b, n, g)
           old == b.cap - b.pos
           l == Len(b.blocks)
<1>1. /\ l \in Nat \ {0} /\ b.blocks \in Seq(Block) /\ b \in BufferRecord
      /\ b.pos \in Nat /\ b.size \in Nat /\ b.cap \in Nat
      /\ b.pos <= b.size /\ b.size <= b.cap /\ b.cap = Capacity(l) /\ b.cur = CursorOf(l, b.pos)
      /\ old \in Nat
  BY FieldTypes
<1>2. CASE n = 0 \/ old >= n
  <2>1. a = b
    BY <1>2 DEF addCapacity
  <2>2. b.pos + n <= b.cap
    BY <1>1, <1>2
  <2> QED
    BY <1>1, <2>1, <2>2
<1>3. CASE ~(n = 0 \/ old >= n)
  <2> DEFINE count == (n - old + BaseSize - 1) \div BaseSize
             block == [o \in 0..BaseSize - 1 |-> g]
             fresh == [i \in 1..count |-> block]
             cur == IF old = 0 THEN l + 1 ELSE b.cur
             blocks == b.blocks \o fresh
             cap == b.cap + count * BaseSize
  <2>1. /\ BaseSize \in Nat \ {0} /\ n - old \in Nat \ {0}
    BY <1>1, <1>3, BufferAssumption
  <2>2. /\ count \in Nat \ {0} /\ count * BaseSize >= n - old
    <3> DEFINE m == n - old
    <3> HIDE DEF m, old
    <3>1. count = (m + BaseSize - 1) \div BaseSize
      BY DEF m
    <3>2. m \in Nat \ {0}
      BY <2>1 DEF m
    <3>3. /\ (m + BaseSize - 1) \div BaseSize \in Nat \ {0}
          /\ ((m + BaseSize - 1) \div BaseSize) * BaseSize >= m
      BY <2>1, <3>2, RoundUp
    <3> QED
      BY <3>1, <3>3 DEF m
  <2>3. a = [b EXCEPT !.blocks = blocks, !.cap = cap, !.cur = cur]
    BY <1>3 DEF addCapacity
  <2> HIDE DEF count
  <2>4. /\ fresh \in Seq(Block) /\ Len(fresh) = count
    <3>1. block \in Block
      BY DEF Block
    <3> HIDE DEF block
    <3> QED
      BY <2>2, <3>1
  <2>5. /\ blocks \in Seq(Block) /\ Len(blocks) = l + count
        /\ \A i \in 1..l : blocks[i] = b.blocks[i]
    <3> DEFINE bs == b.blocks
    <3>1. bs \in Seq(Block) /\ Len(bs) = l /\ l \in Nat /\ count \in Nat
      BY <1>1, <2>2
    <3> HIDE DEF fresh, bs, l
    <3>2. /\ bs \o fresh \in Seq(Block) /\ Len(bs \o fresh) = l + count
          /\ \A i \in 1..l + count : (bs \o fresh)[i] = IF i <= l THEN bs[i] ELSE fresh[i - l]
      BY <2>4, <3>1, ConcatProperties
    <3>3. \A i \in 1..l : (bs \o fresh)[i] = bs[i]
      BY <3>1, <3>2
    <3> QED
      BY <3>2, <3>3 DEF bs
  <2>6. cap = Capacity(l + count) /\ cap \in Nat /\ b.cap < cap /\ b.pos + n <= cap
    <3>1. cap = Capacity(l + count)
      <4>1. l \in Nat /\ count \in Nat
        BY <1>1, <2>2
      <4>2. Capacity(l + count) = Capacity(l) + count * BaseSize
        BY <4>1, CapacityPlus
      <4> QED
        BY <1>1, <4>2
    <3>2. count * BaseSize \in Nat /\ count * BaseSize >= n - old
      BY <2>1, <2>2
    <3> QED
      BY SMTT(60), <1>1, <1>3, <2>1, <3>1, <3>2
  <2>7. cur = CursorOf(l + count, b.pos)
    <3>1. CASE old = 0
      <4>1. b.pos = Capacity(l)
        BY <1>1, <3>1
      <4>3. l \in Nat
        BY <1>1
      <4>4. Capacity(l) \div BaseSize = l
        BY <4>3, CapacityPlus
      <4>2. b.pos # Capacity(l + count)
        BY <1>1, <2>6, <3>1
      <4> QED
        BY <3>1, <4>1, <4>2, <4>4 DEF CursorOf
    <3>2. CASE old # 0
      <4>1. b.pos # Capacity(l) /\ b.pos # Capacity(l + count)
        BY <1>1, <2>6, <3>2
      <4> QED
        BY <1>1, <3>2, <4>1 DEF CursorOf
    <3> QED
      BY <3>1, <3>2
  <2>8. cur \in Nat
    <3>1. l + count \in Nat \ {0} /\ b.pos \in 0..Capacity(l + count)
      BY SMTT(60), <1>1, <2>2, <2>6
    <3> QED
      BY <2>7, <3>1, CursorFacts
  <2> HIDE DEF cur, cap, blocks
  <2>9. /\ a \in BufferRecord /\ a.blocks = blocks /\ a.pos = b.pos /\ a.size = b.size
        /\ a.cap = cap /\ a.cur = cur /\ a.little = b.little
    BY <1>1, <2>3, <2>5, <2>6, <2>8 DEF BufferRecord
  <2>10. WellFormed(a)
    BY SMTT(60), <1>1, <2>2, <2>5, <2>6, <2>7, <2>9 DEF WellFormed
  <2>11. ASSUME NEW i \in 0..b.cap - 1 PROVE ByteAt(a, i) = ByteAt(b, i)
    <3>1. i \div BaseSize + 1 \in 1..l
      BY ByteAtType
    <3> QED
      BY <2>5, <2>9, <3>1 DEF ByteAt
  <2> QED
    BY <1>1, <2>6, <2>9, <2>10, <2>11
<1> QED
  BY <1>2, <1>3

(***************************************************************************)
(* memcpy to the cells of offset p and the following ones.                 *)
(***************************************************************************)
LEMMA ScatterFacts ==
  ASSUME NEW b, WellFormed(b), NEW p \in Nat, NEW d \in Seq(Byte), p + Len(d) <= b.cap
  PROVE  LET s == Scatter(b, p \div BaseSize + 1, p % BaseSize, d)
         IN /\ WellFormed(s) /\ Len(s.blocks) = Len(b.blocks)
            /\ s.pos = b.pos /\ s.size = b.size /\ s.cap = b.cap /\ s.cur = b.cur
            /\ s.little = b.little
            /\ \A i \in 0..b.cap - 1 :
                 ByteAt(s, i) = IF i \in p..p + Len(d) - 1 THEN d[i - p + 1] ELSE ByteAt(b, i)
<1> DEFINE c == p \div BaseSize + 1
           npos == p % BaseSize
           s == Scatter(b, c, npos, d)
           at(i, o) == (i - c) * BaseSize + o - npos + 1
           block(i) == [o \in 0..BaseSize - 1 |->
                          IF at(i, o) \in DOMAIN d THEN d[at(i, o)] ELSE b.blocks[i][o]]
           blocks == [i \in DOMAIN b.blocks |-> block(i)]
<1>1. /\ BaseSize \in Nat \ {0} /\ b.blocks \in Seq(Block) /\ b \in BufferRecord /\ b.cap \in Nat
      /\ Len(b.blocks) \in Nat \ {0}
  BY BufferAssumption, FieldTypes
<1>2. c \in Nat /\ npos \in 0..BaseSize - 1 /\ p = BaseSize * (p \div BaseSize) + npos
      /\ p \div BaseSize \in Nat
  <2>1. BaseSize \in Nat \ {0}
    BY <1>1
  <2>2. /\ p \div BaseSize \in Nat /\ p % BaseSize \in 0..BaseSize - 1
        /\ p = BaseSize * (p \div BaseSize) + (p % BaseSize)
    BY <2>1, DivMod
  <2> QED
    BY <2>2
<1>3. s = [b EXCEPT !.blocks = blocks]
  BY DEF Scatter
<1>4. ASSUME NEW i \in 1..Len(b.blocks) PROVE block(i) \in Block
  <2>1. b.blocks[i] \in Block
    BY <1>1
  <2>2. \A o \in 0..BaseSize - 1 : b.blocks[i][o] \in Byte
    BY <2>1 DEF Block
  <2> HIDE DEF at
  <2>3. \A o \in 0..BaseSize - 1 :
          (IF at(i, o) \in DOMAIN d THEN d[at(i, o)] ELSE b.blocks[i][o]) \in Byte
    BY <2>2
  <2> QED
    BY <2>3 DEF Block
<1>5. blocks \in Seq(Block) /\ Len(blocks) = Len(b.blocks)
  <2>1. DOMAIN b.blocks = 1..Len(b.blocks)
    BY <1>1
  <2> HIDE DEF block
  <2> QED
    BY <1>1, <1>4, <2>1
<1>6. /\ s \in BufferRecord /\ s.blocks = blocks
      /\ s.pos = b.pos /\ s.size = b.size /\ s.cap = b.cap /\ s.cur = b.cur
      /\ s.little = b.little
  <2> HIDE DEF blocks
  <2> QED
    BY <1>1, <1>3, <1>5 DEF BufferRecord
<1> HIDE DEF s
<1>7. WellFormed(s)
  BY <1>5, <1>6 DEF WellFormed
<1>8. ASSUME NEW i \in 0..b.cap - 1
      PROVE  ByteAt(s, i) = IF i \in p..p + Len(d) - 1 THEN d[i - p + 1] ELSE ByteAt(b, i)
  <2> DEFINE q == i \div BaseSize
             r == i % BaseSize
             u == p \div BaseSize
             B == BaseSize
  <2>1. q + 1 \in 1..Len(b.blocks) /\ r \in 0..BaseSize - 1
    BY ByteAtType
  <2>2. i \in Nat /\ q \in Nat /\ i = BaseSize * q + r /\ r \in Nat
    <3>1. i \in Nat /\ BaseSize \in Nat \ {0}
      BY <1>1
    <3>2. q \in Nat /\ r \in 0..BaseSize - 1 /\ i = BaseSize * q + r
      BY <3>1, DivMod
    <3> QED
      BY <3>1, <3>2
  <2>3. at(q + 1, r) = i - p + 1
    <3>1. u \in Nat /\ c = u + 1 /\ npos \in Int /\ p = B * u + npos /\ B \in Nat /\ p \in Nat
      BY <1>1, <1>2
    <3>2. i \in Nat /\ q \in Nat /\ i = B * q + r /\ r \in Nat
      BY <2>2
    <3> HIDE DEF q, r, u, c, npos
    <3> HIDE DEF B
    <3>4. (q + 1) - c = q - u
      BY <3>1, <3>2
    <3>5. (q - u) * B = B * q - B * u /\ B * q \in Int /\ B * u \in Int
      BY <3>1, <3>2
    <3> QED
      BY <3>1, <3>2, <3>4, <3>5 DEF B
  <2>4. ByteAt(s, i) = IF at(q + 1, r) \in DOMAIN d THEN d[at(q + 1, r)] ELSE b.blocks[q + 1][r]
    <3>1. s.blocks[q + 1] = block(q + 1)
      <4>1. q + 1 \in DOMAIN b.blocks
        BY <1>1, <2>1
      <4> HIDE DEF block, q
      <4> QED
        BY <1>6, <4>1
    <3>2. ByteAt(s, i) = s.blocks[q + 1][r]
      BY DEF ByteAt
    <3> HIDE DEF at, q, r
    <3> QED
      BY <2>1, <3>1, <3>2
  <2>5. i - p + 1 \in DOMAIN d <=> i \in p..p + Len(d) - 1
    BY <2>2
  <2> HIDE DEF at
  <2> QED
    BY <2>3, <2>4, <2>5 DEF ByteAt
<1> QED
  BY <1>5, <1>6, <1>7, <1>8 DEF s

(* w is b after the bytes s have been stored behind its cursor.            *)
Stores(b, w, s) ==
  /\ WellFormed(w) /\ w.little = b.little
  /\ w.pos = b.pos + Len(s) /\ w.size = Greatest(b.size, w.pos)
  /\ \A i \in 0..w.size - 1 :
       ByteAt(w, i) = IF b.pos <= i /\ i < w.pos THEN s[i - b.pos + 1] ELSE ByteAt(b, i)

(* What write() stores of d: no more than the block of the cursor holds.   *)
Part(b, d) == SubSeq(d, 1, Least(BaseSize - (b.pos % BaseSize), Len(d)))

LEMMA PartFacts ==
  ASSUME NEW b, WellFormed(b), NEW d \in Seq(Byte)
  PROVE  /\ Part(b, d) \in Seq(Byte)
         /\ Len(Part(b, d)) = Least(BaseSize - (b.pos % BaseSize), Len(d))
         /\ Len(Part(b, d)) \in 0..Len(d) /\ (b.pos % BaseSize) + Len(Part(b, d)) <= BaseSize
         /\ Part(b, d) = <<>> <=> d = <<>>
         /\ \A i \in 1..Len(Part(b, d)) : Part(b, d)[i] = d[i]
<1> DEFINE npos == b.pos % BaseSize
           n == Least(BaseSize - npos, Len(d))
<1>1. BaseSize \in Nat \ {0} /\ b.pos \in Nat /\ Len(d) \in Nat
  BY BufferAssumption, FieldTypes
<1>2. npos \in 0..BaseSize - 1
  BY <1>1, DivMod
<1> HIDE DEF npos
<1>3. n \in 0..Len(d) /\ npos + n <= BaseSize /\ (n = 0 <=> Len(d) = 0)
  BY <1>1, <1>2 DEF Least
<1> HIDE DEF n
<1>4. /\ SubSeq(d, 1, n) \in Seq(Byte) /\ Len(SubSeq(d, 1, n)) = n
      /\ \A i \in 1..n : SubSeq(d, 1, n)[i] = d[i]
  BY <1>1, <1>3
<1>5. SubSeq(d, 1, n) = <<>> <=> d = <<>>
  BY <1>3, <1>4, EmptySeq
<1> QED
  BY <1>3, <1>4, <1>5 DEF Part, n, npos

LEMMA WriteFacts ==
  ASSUME NEW b, WellFormed(b), NEW d \in Seq(Byte), NEW g \in Byte
  PROVE  Stores(b, write(b, d, g), Part(b, d))
<1> DEFINE s == Part(b, d)
           n == Len(s)
           a == addCapacity(b, Len(d), g)
           npos == b.pos % BaseSize
           l == Len(a.blocks)
           w == write(b, d, g)
           z == Scatter(a, b.pos \div BaseSize + 1, npos, s)
<1>1. /\ BaseSize \in Nat \ {0} /\ b.pos \in Nat /\ b.size \in Nat /\ b.cap \in Nat /\ Len(d) \in Nat
      /\ b.pos <= b.size /\ b.size <= b.cap
  BY BufferAssumption, FieldTypes
<1>2. /\ s \in Seq(Byte) /\ n = Least(BaseSize - npos, Len(d)) /\ n \in 0..Len(d)
      /\ npos + n <= BaseSize
  BY PartFacts
<1>3. CASE d = <<>>
  <2>1. w = b /\ s = <<>> /\ Len(s) = 0
    BY <1>3, PartFacts DEF write
  <2>2. Greatest(b.size, b.pos + 0) = b.size /\ b.pos + 0 = b.pos
    BY <1>1 DEF Greatest
  <2>3. \A i \in 0..b.size - 1 : ~ (b.pos <= i /\ i < b.pos)
    BY <1>1
  <2> QED
    BY <1>1, <2>1, <2>2, <2>3 DEF Stores
<1>4. CASE d # <<>>
  <2>1. /\ WellFormed(a)
        /\ a.pos = b.pos /\ a.size = b.size /\ a.little = b.little
        /\ b.cap <= a.cap /\ b.pos + Len(d) <= a.cap
        /\ \A i \in 0..b.cap - 1 : ByteAt(a, i) = ByteAt(b, i)
    BY <1>1, AddCapacityFacts
  <2> HIDE DEF a
  <2>2. /\ l \in Nat \ {0} /\ a.cap \in Nat /\ a.cap = Capacity(l) /\ a.cur = CursorOf(l, b.pos)
    BY <2>1, FieldTypes
  <2>3. Len(d) # 0 /\ n # 0
    <3>1. Len(d) # 0
      BY <1>4, EmptySeq
    <3>2. npos \in 0..BaseSize - 1
      BY <1>1, DivMod
    <3> QED
      BY <1>1, <1>2, <3>1, <3>2 DEF Least
  <2>4. b.pos + n <= a.cap /\ b.pos < a.cap
    BY <1>1, <1>2, <2>1, <2>2, <2>3
  <2>5. a.cur = b.pos \div BaseSize + 1
    BY <1>1, <2>2, <2>4 DEF CursorOf
  <2> DEFINE cur == IF npos + n = BaseSize THEN NextBlock(a, a.cur) ELSE a.cur
             pos == b.pos + n
             size == Greatest(b.size, pos)
  <2>6. w = [z EXCEPT !.cur = cur, !.pos = pos, !.size = size]
    BY <1>2, <1>4, <2>1, <2>5 DEF write, Part, a
  <2>7. /\ WellFormed(z) /\ Len(z.blocks) = l
        /\ z.pos = b.pos /\ z.size = b.size /\ z.cap = a.cap /\ z.cur = a.cur
        /\ z.little = b.little
        /\ \A i \in 0..a.cap - 1 :
             ByteAt(z, i) = IF i \in b.pos..b.pos + n - 1 THEN s[i - b.pos + 1] ELSE ByteAt(a, i)
    <3>1. b.pos + Len(s) <= a.cap
      BY <2>4
    <3> HIDE DEF s
    <3>2. /\ WellFormed(z) /\ Len(z.blocks) = Len(a.blocks)
          /\ z.pos = a.pos /\ z.size = a.size /\ z.cap = a.cap /\ z.cur = a.cur
          /\ z.little = a.little
          /\ \A i \in 0..a.cap - 1 :
               ByteAt(z, i) = IF i \in b.pos..b.pos + Len(s) - 1 THEN s[i - b.pos + 1]
                              ELSE ByteAt(a, i)
      BY ZenonT(60), <1>1, <1>2, <2>1, <3>1, ScatterFacts
    <3> HIDE DEF z
    <3> QED
      BY <2>1, <3>2
  <2>8. cur = CursorOf(l, pos)
    <3> DEFINE c == CursorOf(l, b.pos) + (npos + n) \div BaseSize
    <3>1. (IF c <= l THEN c ELSE 0) = CursorOf(l, pos)
      <4>1. n \in Nat /\ pos <= Capacity(l)
        BY <1>1, <1>2, <2>2, <2>4
      <4>2. c = CursorOf(l, b.pos) + ((b.pos % BaseSize) + n) \div BaseSize
        OBVIOUS
      <4> HIDE DEF l, n, c
      <4>3. b.pos + n <= Capacity(l)
        BY <4>1
      <4> QED
        <5>1. b.pos \in Nat /\ l \in Nat \ {0} /\ n \in Nat
          BY <1>1, <2>2, <4>1
        <5> HIDE DEF npos, pos
        <5>2. (IF c <= l THEN c ELSE 0) = CursorOf(l, b.pos + n)
          BY <4>2, <4>3, <5>1, NextCursor
        <5> QED
          BY <5>2 DEF pos
    <3>2. a.cur \in 1..l
      <4>1. b.pos \in 0..Capacity(l)
        BY <1>1, <2>2, <2>4
      <4>2. CursorOf(l, b.pos) \in 0..l
        BY <2>2, <4>1, CursorFacts
      <4>3. a.cur # 0
        <5>1. b.pos \div BaseSize \in Nat
          BY <1>1, DivMod
        <5> QED
          BY <2>5, <5>1
      <4> QED
        BY <2>2, <4>2, <4>3
    <3>3. (npos + n) \div BaseSize = IF npos + n = BaseSize THEN 1 ELSE 0
      <4> DEFINE m == npos + n
      <4>1. m \in 0..BaseSize /\ BaseSize \in Nat \ {0}
        <5>1. npos \in 0..BaseSize - 1
          BY <1>1, DivMod
        <5> QED
          BY <1>1, <1>2, <5>1
      <4> HIDE DEF m
      <4>2. m \div BaseSize = IF m = BaseSize THEN 1 ELSE 0
        <5>1. CASE m = BaseSize
          BY <4>1, <5>1
        <5>2. CASE m < BaseSize
          BY <4>1, <5>2
        <5> QED
          BY <4>1, <5>1, <5>2
      <4> QED
        BY <4>2 DEF m
    <3> HIDE DEF l, n, npos
    <3>4. cur = IF c <= l THEN c ELSE 0
      BY <2>2, <3>2, <3>3 DEF NextBlock, l
    <3> QED
      BY <3>1, <3>4
  <2>9. /\ pos \in Nat /\ size \in Nat /\ pos <= size /\ size <= a.cap /\ pos \in 0..a.cap
        /\ size = pos \/ size = b.size
    BY SMTT(60), <1>1, <1>2, <2>1, <2>2, <2>4 DEF Greatest
  <2>10. cur \in Nat
    <3> HIDE DEF cur, pos
    <3>1. CursorOf(l, pos) \in 0..l
      BY <2>2, <2>9, CursorFacts
    <3> QED
      BY <2>2, <2>8, <3>1
  <2> HIDE DEF cur, pos, size, z
  <2>11. /\ w \in BufferRecord /\ w.blocks = z.blocks /\ w.pos = pos /\ w.size = size
         /\ w.cap = a.cap /\ w.cur = cur /\ w.little = b.little
    BY <2>6, <2>7, <2>9, <2>10 DEF WellFormed, BufferRecord
  <2> HIDE DEF w
  <2>12. WellFormed(w)
    BY <2>2, <2>7, <2>8, <2>9, <2>11 DEF WellFormed
  <2>13. ASSUME NEW i \in 0..size - 1
         PROVE  ByteAt(w, i) = IF b.pos <= i /\ i < pos THEN s[i - b.pos + 1] ELSE ByteAt(b, i)
    <3>1. ByteAt(w, i) = ByteAt(z, i)
      BY <2>11 DEF ByteAt
    <3>2. i \in 0..a.cap - 1 /\ i \in Nat
      BY <2>2, <2>9
    <3>3. i \in b.pos..b.pos + n - 1 <=> b.pos <= i /\ i < pos
      BY <1>1, <1>2, <3>2 DEF pos
    <3>4. ~ (b.pos <= i /\ i < pos) => i \in 0..b.cap - 1
      BY <1>1, <2>9, <3>2
    <3> HIDE DEF s
    <3> QED
      BY <2>1, <2>7, <3>1, <3>2, <3>3, <3>4
  <2> QED
    BY <2>11, <2>12, <2>13 DEF Stores, pos, size, w
<1> QED
  BY <1>3, <1>4

LEMMA Shift ==
  ASSUME NEW p \in Nat, NEW m \in Nat, NEW n \in Nat, NEW i \in Nat
  PROVE  /\ (p + m <= i /\ i < p + m + n) =>
              /\ i - p + 1 \in 1..m + n /\ ~ (i - p + 1 <= m)
              /\ (i - p + 1) - m = i - (p + m) + 1 /\ p <= i
         /\ (p <= i /\ i < p + m) =>
              /\ i - p + 1 \in 1..m + n /\ i - p + 1 <= m /\ i < p + m + n
  OBVIOUS

LEMMA StoresTwice ==
  ASSUME NEW b, NEW w, NEW x, NEW s \in Seq(Byte), NEW t \in Seq(Byte),
         WellFormed(b), Stores(b, w, s), Stores(w, x, t)
  PROVE  Stores(b, x, s \o t)
<1>1. /\ b.pos \in Nat /\ b.size \in Nat /\ w.pos \in Nat /\ w.size \in Nat
      /\ x.pos \in Nat /\ x.size \in Nat /\ Len(s) \in Nat /\ Len(t) \in Nat
      /\ WellFormed(x) /\ x.little = b.little
      /\ w.pos = b.pos + Len(s) /\ x.pos = w.pos + Len(t)
      /\ w.size = Greatest(b.size, w.pos) /\ x.size = Greatest(w.size, x.pos)
  BY FieldTypes DEF Stores
<1>2. /\ Len(s \o t) = Len(s) + Len(t)
      /\ \A i \in 1..Len(s) + Len(t) : (s \o t)[i] = IF i <= Len(s) THEN s[i] ELSE t[i - Len(s)]
  BY ConcatProperties
<1>3. x.pos = b.pos + Len(s \o t) /\ x.size = Greatest(b.size, x.pos)
  BY <1>1, <1>2 DEF Greatest
<1>5. x.pos = b.pos + Len(s) + Len(t) /\ \A i \in 0..x.size - 1 : i \in Nat
  BY <1>1
<1>4. ASSUME NEW i \in 0..x.size - 1
      PROVE  ByteAt(x, i) = IF b.pos <= i /\ i < x.pos THEN (s \o t)[i - b.pos + 1]
                            ELSE ByteAt(b, i)
  <2>1. ByteAt(x, i) = IF w.pos <= i /\ i < x.pos THEN t[i - w.pos + 1] ELSE ByteAt(w, i)
    BY DEF Stores
  <2>4. i \in Nat /\ b.pos \in Nat /\ Len(s) \in Nat /\ Len(t) \in Nat
    BY <1>1, <1>5
  <2>5. /\ (b.pos + Len(s) <= i /\ i < b.pos + Len(s) + Len(t)) =>
               /\ i - b.pos + 1 \in 1..Len(s) + Len(t) /\ ~ (i - b.pos + 1 <= Len(s))
               /\ (i - b.pos + 1) - Len(s) = i - (b.pos + Len(s)) + 1 /\ b.pos <= i
        /\ (b.pos <= i /\ i < b.pos + Len(s)) =>
               /\ i - b.pos + 1 \in 1..Len(s) + Len(t) /\ i - b.pos + 1 <= Len(s)
               /\ i < b.pos + Len(s) + Len(t)
    BY <2>4, Shift
  <2>6. w.pos = b.pos + Len(s) /\ x.pos = b.pos + Len(s) + Len(t)
    BY <1>1, <1>5
  <2>2. CASE w.pos <= i /\ i < x.pos
    <3>1. /\ i - b.pos + 1 \in 1..Len(s) + Len(t) /\ ~ (i - b.pos + 1 <= Len(s))
          /\ (i - b.pos + 1) - Len(s) = i - w.pos + 1 /\ b.pos <= i
      BY <2>2, <2>5, <2>6
    <3> QED
      <4>1. (s \o t)[i - b.pos + 1] = t[(i - b.pos + 1) - Len(s)]
        BY <1>2, <3>1
      <4> QED
        BY <2>1, <2>2, <3>1, <4>1
  <2>3. CASE ~ (w.pos <= i /\ i < x.pos)
    <3>1. i \in 0..w.size - 1
      BY SMTT(60), <1>1, <2>3 DEF Greatest
    <3>2. ByteAt(w, i) = IF b.pos <= i /\ i < w.pos THEN s[i - b.pos + 1] ELSE ByteAt(b, i)
      BY <3>1 DEF Stores
    <3>3. (b.pos <= i /\ i < w.pos) => /\ i - b.pos + 1 \in 1..Len(s) + Len(t)
                                       /\ i - b.pos + 1 <= Len(s) /\ i < x.pos
      BY <2>5, <2>6
    <3>4. (b.pos <= i /\ i < w.pos) <=> (b.pos <= i /\ i < x.pos)
      BY SMTT(60), <1>1, <2>3
    <3> QED
      <4>1. (b.pos <= i /\ i < w.pos) => (s \o t)[i - b.pos + 1] = s[i - b.pos + 1]
        BY <1>2, <3>3
      <4> QED
        BY <2>1, <2>3, <3>2, <3>4, <4>1
  <2> QED
    BY <2>2, <2>3
<1> QED
  BY <1>1, <1>3, <1>4 DEF Stores

LEMMA SetPositionFacts ==
  ASSUME NEW b, WellFormed(b), NEW v \in 0..b.cap
  PROVE  LET s == setPosition(b, v)
         IN /\ WellFormed(s) /\ s.blocks = b.blocks /\ s.pos = v /\ s.cap = b.cap
            /\ s.size = Greatest(b.size, v) /\ s.little = b.little
<1> DEFINE l == Len(b.blocks)
           size == Greatest(b.size, v)
           cur == IF v \div BaseSize < l THEN v \div BaseSize + 1 ELSE 0
           s == setPosition(b, v)
<1>1. /\ BaseSize \in Nat \ {0} /\ b \in BufferRecord /\ l \in Nat \ {0} /\ b.pos \in Nat
      /\ b.size \in Nat /\ b.cap \in Nat /\ b.size <= b.cap /\ b.cap = Capacity(l)
  BY BufferAssumption, FieldTypes
<1>2. v \in Nat /\ size \in Nat /\ v <= size /\ size <= b.cap
  BY <1>1 DEF Greatest
<1>3. cur = CursorOf(l, v)
  <2>1. v < BaseSize * l <=> v \div BaseSize < l
    BY <1>1, <1>2, DivBound
  <2>2. v < b.cap \/ v = b.cap
    BY <1>1, <1>2
  <2>3. b.cap = BaseSize * l
    BY <1>1 DEF Capacity
  <2> HIDE DEF l
  <2> QED
    BY <1>1, <1>2, <2>1, <2>2, <2>3 DEF CursorOf, Capacity
<1>4. cur \in Nat
  <2>1. v \div BaseSize \in Nat
    BY <1>1, <1>2, DivMod
  <2> QED
    BY <2>1
<1>5. s = [b EXCEPT !.pos = v, !.size = size, !.cur = cur]
  BY DEF setPosition
<1> HIDE DEF cur, size
<1>6. /\ s \in BufferRecord /\ s.blocks = b.blocks /\ s.pos = v /\ s.cap = b.cap
      /\ s.size = size /\ s.cur = cur /\ s.little = b.little
  BY <1>1, <1>2, <1>4, <1>5 DEF BufferRecord
<1> HIDE DEF s
<1>7. WellFormed(s)
  BY <1>1, <1>2, <1>3, <1>6 DEF WellFormed
<1> QED
  BY <1>6, <1>7 DEF s, size

(* An empty block, or the caller's memory: what the constructors make, and *)
(* what clear() leaves.                                                    *)
LEMMA OneBlock ==
  ASSUME NEW b \in BufferRecord, Len(b.blocks) = 1, b.pos = 0, b.size \in 0..BaseSize,
         b.cap = BaseSize, b.cur = 1
  PROVE  WellFormed(b)
<1>1. BaseSize \in Nat \ {0}
  BY BufferAssumption
<1>2. Capacity(1) = BaseSize
  BY <1>1 DEF Capacity
<1>3. 0 \div BaseSize = 0
  <2>1. (BaseSize * 0 + 0) \div BaseSize = 0
    BY <1>1, DivModUnique
  <2> QED
    BY <1>1, <2>1
<1>4. CursorOf(1, 0) = 1
  BY <1>1, <1>2, <1>3 DEF CursorOf
<1> QED
  BY <1>1, <1>2, <1>4 DEF WellFormed

LEMMA ClearFacts ==
  ASSUME NEW b, WellFormed(b)
  PROVE  /\ WellFormed(clear(b)) /\ clear(b).pos = 0 /\ clear(b).size = 0
         /\ clear(b).little = b.little /\ Len(clear(b).blocks) = 1
<1> DEFINE blocks == SubSeq(b.blocks, 1, 1)
<1>1. b.blocks \in Seq(Block) /\ Len(b.blocks) \in Nat \ {0} /\ b \in BufferRecord
  BY FieldTypes
<1>2. blocks \in Seq(Block) /\ Len(blocks) = 1
  BY <1>1
<1>3. clear(b) = [b EXCEPT !.blocks = blocks, !.pos = 0, !.size = 0, !.cap = BaseSize, !.cur = 1]
  BY DEF clear
<1> HIDE DEF blocks
<1>4. /\ clear(b) \in BufferRecord /\ clear(b).blocks = blocks /\ clear(b).pos = 0
      /\ clear(b).size = 0 /\ clear(b).cap = BaseSize /\ clear(b).cur = 1
      /\ clear(b).little = b.little
  <2>1. BaseSize \in Nat
    BY BufferAssumption
  <2> DEFINE e == [b EXCEPT !.blocks = blocks, !.pos = 0, !.size = 0]
  <2>2. /\ e \in BufferRecord /\ e.blocks = blocks /\ e.pos = 0 /\ e.size = 0
        /\ e.little = b.little
    BY <1>1, <1>2 DEF BufferRecord
  <2> HIDE DEF e
  <2>3. clear(b) = [e EXCEPT !.cap = BaseSize, !.cur = 1]
    BY <1>3, Zenon DEF e
  <2>4. clear(b) \in BufferRecord
    <3> DEFINE one == 1
    <3>1. one \in Nat /\ clear(b) = [e EXCEPT !.cap = BaseSize, !.cur = one]
      BY <2>3
    <3> HIDE DEF one
    <3> QED
      BY <2>1, <2>2, <3>1 DEF BufferRecord
  <2>5. /\ clear(b).blocks = e.blocks /\ clear(b).pos = e.pos /\ clear(b).size = e.size
        /\ clear(b).little = e.little
    BY <2>2, <2>3 DEF BufferRecord
  <2>6. clear(b).cap = BaseSize /\ clear(b).cur = 1
    BY <2>2, <2>3 DEF BufferRecord
  <2> QED
    BY <2>2, <2>4, <2>5, <2>6
<1>5. 0 \in 0..BaseSize
  BY BufferAssumption
<1> QED
  <2>1. Len(clear(b).blocks) = 1 /\ clear(b).size \in 0..BaseSize
    BY <1>2, <1>4, <1>5
  <2>2. WellFormed(clear(b))
    BY <1>4, <2>1, OneBlock
  <2> QED
    BY <1>4, <2>1, <2>2

LEMMA RootFacts ==
  ASSUME NEW block \in Block, NEW n \in 0..BaseSize
  PROVE  WellFormed(RootOnly(block, n))
<1> DEFINE b == RootOnly(block, n)
<1>1. /\ b \in BufferRecord /\ b.blocks = <<block>> /\ b.pos = 0 /\ b.size = n
      /\ b.cap = BaseSize /\ b.cur = 1
  BY BufferAssumption DEF RootOnly, BufferRecord
<1>2. Len(b.blocks) = 1
  BY <1>1
<1> HIDE DEF b
<1>3. WellFormed(b)
  BY <1>1, <1>2, OneBlock
<1> QED
  BY <1>3 DEF b

-----------------------------------------------------------------------------
(* The bytes of numbers *)

ByteWeight(i) == Power(2 * Group, i - 1)
GroupWeight(i) == Power(Group, i - 1)

LEMMA Weights ==
  ASSUME NEW i \in Nat \ {0}
  PROVE  /\ ByteWeight(i) \in Nat \ {0} /\ ByteWeight(i + 1) = (2 * Group) * ByteWeight(i)
         /\ GroupWeight(i) \in Nat \ {0} /\ GroupWeight(i + 1) = Group * GroupWeight(i)
         /\ ByteWeight(1) = 1 /\ GroupWeight(1) = 1
<1>1. Group \in Nat \ {0} /\ 2 * Group \in Nat \ {0}
  BY Numerals
<1>2. i - 1 \in Nat /\ (i - 1) + 1 = i /\ (i + 1) - 1 = i /\ 1 - 1 = 0
  OBVIOUS
<1> DEFINE j == i - 1
<1> HIDE DEF j
<1>3. /\ Power(Group, 0) = 1 /\ Power(2 * Group, 0) = 1
      /\ \A n \in Nat : /\ Power(Group, n) \in Nat \ {0}
                        /\ Power(Group, n + 1) = Group * Power(Group, n)
      /\ \A n \in Nat : /\ Power(2 * Group, n) \in Nat \ {0}
                        /\ Power(2 * Group, n + 1) = (2 * Group) * Power(2 * Group, n)
  BY <1>1, PowerFacts
<1>4. j \in Nat /\ j + 1 = i
  BY <1>2 DEF j
<1>5. /\ Power(Group, j) \in Nat \ {0} /\ Power(Group, i) = Group * Power(Group, j)
      /\ Power(2 * Group, j) \in Nat \ {0}
      /\ Power(2 * Group, i) = (2 * Group) * Power(2 * Group, j)
  BY <1>3, <1>4
<1> QED
  BY <1>2, <1>3, <1>5 DEF ByteWeight, GroupWeight, j

(* The loop of HostValue. *)
HostSums(h, s) == h[0] = 0 /\ \A i \in 1..Len(s) : h[i] = h[i - 1] + s[i] * ByteWeight(i)

LEMMA HostLoop ==
  ASSUME NEW s \in Seq(Byte)
  PROVE  \E h \in [0..Len(s) -> Nat] : HostSums(h, s) /\ HostValue(s) = h[Len(s)]
<1> DEFINE n == Len(s)
           F == [i \in 1..n |-> [x \in Nat |-> x + s[i] * ByteWeight(i)]]
<1>1. \A i \in 1..n : s[i] * ByteWeight(i) \in Nat
  <2>1. \A i \in 1..n : s[i] \in Byte /\ i \in Nat \ {0}
    OBVIOUS
  <2>2. \A x \in Byte : x \in Nat
    BY Numerals DEF Byte
  <2>3. \A i \in Nat \ {0} : ByteWeight(i) \in Nat
    BY Weights
  <2> HIDE DEF n
  <2>4. \A x, y \in Nat : x * y \in Nat
    OBVIOUS
  <2> QED
    BY <2>1, <2>2, <2>3, <2>4
<1>2. F \in [1..n -> [Nat -> Nat]]
  <2>1. ASSUME NEW i \in 1..n, NEW x \in Nat PROVE x + s[i] * ByteWeight(i) \in Nat
    BY <1>1
  <2> QED
    BY <2>1
<1>3. PICK f \in [0..n -> Nat] : f[0] = 0 /\ \A i \in 1..n : f[i] = F[i][f[i - 1]]
  <2>1. n \in Nat /\ 0 \in Nat
    OBVIOUS
  <2> HIDE DEF F, n
  <2>2. \E f \in [0..n -> Nat] : Goes(f, n, 0, F)
    BY <1>2, <2>1, Loop
  <2> QED
    BY <2>2 DEF Goes
<1>4. ASSUME NEW i \in 1..n PROVE f[i] = f[i - 1] + s[i] * ByteWeight(i)
  <2>1. f[i - 1] \in Nat
    BY <1>3
  <2>2. F[i][f[i - 1]] = f[i - 1] + s[i] * ByteWeight(i)
    BY <2>1
  <2> QED
    BY <1>3, <2>2
<1>5. f = [i \in 0..n |-> IF i = 0 THEN 0 ELSE f[i - 1] + s[i] * Power(2 * Group, i - 1)]
  BY <1>3, <1>4 DEF ByteWeight
<1> DEFINE sum[i \in 0..Len(s)] ==
             IF i = 0 THEN 0 ELSE sum[i - 1] + s[i] * Power(2 * Group, i - 1)
<1>6. sum = [i \in 0..Len(s) |-> IF i = 0 THEN 0 ELSE sum[i - 1] + s[i] * Power(2 * Group, i - 1)]
  BY <1>5, Zenon
<1>7. HostValue(s) = sum[Len(s)]
  BY Zenon DEF HostValue
<1> HIDE DEF sum
<1>8. sum[0] = 0 /\ \A i \in 1..n : sum[i] = sum[i - 1] + s[i] * ByteWeight(i)
  BY <1>6 DEF ByteWeight
<1>9. sum \in [0..n -> Nat]
  <2> DEFINE S == {i \in 0..n : sum[i] \in Nat}
  <2>1. 0 \in S
    BY <1>8
  <2>2. ASSUME NEW i \in 1..n, i - 1 \in S PROVE i \in S
    BY <1>1, <1>8, <2>2
  <2>3. n \in Nat
    OBVIOUS
  <2> HIDE DEF S, n
  <2>4. \A i \in 0..n : i \in S
    BY <2>1, <2>2, <2>3, CountingUp
  <2> QED
    BY <1>6, <2>4 DEF S, n
<1> QED
  BY <1>7, <1>8, <1>9 DEF HostSums

(* The loop of readUint32 and readUint64. *)
VarintSums(h, s) ==
  /\ h[0] = 0
  /\ \A i \in 1..Len(s) : h[i] = (h[i - 1] + (s[i] % Group) * GroupWeight(i)) % (2 * Half)

LEMMA Remainder ==
  ASSUME NEW m \in Nat \ {0}, NEW x \in Nat
  PROVE  x % m \in 0..m - 1
  OBVIOUS

LEMMA VarintLoop ==
  ASSUME NEW s \in Seq(Byte)
  PROVE  \E h \in [0..Len(s) -> Word] : VarintSums(h, s) /\ DecodeVarint(s) = h[Len(s)]
<1> DEFINE n == Len(s)
           G(i, x) == (x + (s[i] % Group) * GroupWeight(i)) % (2 * Half)
           F == [i \in 1..n |-> [x \in Word |-> G(i, x)]]
<1>1. ASSUME NEW i \in 1..n, NEW x \in Word PROVE G(i, x) \in Word
  <2>1. s[i] \in Byte /\ i \in Nat \ {0} /\ x \in Nat
    BY Numerals DEF Word
  <2>2. s[i] \in Nat
    BY <2>1, Numerals DEF Byte
  <2>3. s[i] % Group \in Nat
    <3>1. Group \in Nat \ {0}
      BY Numerals
    <3>2. s[i] % Group \in 0..Group - 1
      BY <2>2, <3>1, Remainder
    <3> QED
      BY <3>1, <3>2
  <2>4. GroupWeight(i) \in Nat
    BY <2>1, Weights
  <2>5. 2 * Half \in Nat \ {0}
    BY Numerals
  <2> DEFINE y == x + (s[i] % Group) * GroupWeight(i)
  <2>6. y \in Nat
    <3>1. \A u, v \in Nat : x + u * v \in Nat
      BY <2>1
    <3> QED
      BY <2>3, <2>4, <3>1
  <2> HIDE DEF y
  <2>7. y % (2 * Half) \in 0..2 * Half - 1
    BY <2>5, <2>6, Remainder
  <2> QED
    BY <2>7 DEF y, Word
<1>2. F \in [1..n -> [Word -> Word]]
  <2> HIDE DEF G
  <2> QED
    BY <1>1
<1>3. 0 \in Word
  BY Numerals DEF Word
<1>4. PICK f \in [0..n -> Word] : f[0] = 0 /\ \A i \in 1..n : f[i] = F[i][f[i - 1]]
  <2>1. n \in Nat
    OBVIOUS
  <2> HIDE DEF F, n
  <2>2. \E f \in [0..n -> Word] : Goes(f, n, 0, F)
    BY <1>2, <1>3, <2>1, Loop
  <2> QED
    BY <2>2 DEF Goes
<1>5. ASSUME NEW i \in 1..n PROVE f[i] = G(i, f[i - 1])
  <2>1. f[i - 1] \in Word
    BY <1>4
  <2> HIDE DEF G
  <2>2. F[i][f[i - 1]] = G(i, f[i - 1])
    BY <2>1
  <2> QED
    BY <1>4, <2>2
<1>6. f = [i \in 0..n |-> IF i = 0 THEN 0
                          ELSE (f[i - 1] + (s[i] % Group) * Power(Group, i - 1)) % (2 * Half)]
  <2> DEFINE R(i) == IF i = 0 THEN 0 ELSE G(i, f[i - 1])
  <2>1. \A i \in 0..n : i = 0 \/ i \in 1..n
    OBVIOUS
  <2> HIDE DEF n, G
  <2>2. \A i \in 0..n : f[i] = R(i)
    BY <1>4, <1>5, <2>1
  <2>3. f = [i \in 0..n |-> f[i]]
    BY <1>4
  <2> HIDE DEF R
  <2>4. f = [i \in 0..n |-> R(i)]
    BY <2>2, <2>3, Zenon
  <2> QED
    BY <2>4 DEF GroupWeight, R, G, n
<1> DEFINE sum[i \in 0..Len(s)] ==
             IF i = 0 THEN 0
             ELSE (sum[i - 1] + (s[i] % Group) * Power(Group, i - 1)) % (2 * Half)
<1>7. sum = [i \in 0..Len(s) |->
              IF i = 0 THEN 0
              ELSE (sum[i - 1] + (s[i] % Group) * Power(Group, i - 1)) % (2 * Half)]
  BY <1>6, Zenon
<1>8. DecodeVarint(s) = sum[Len(s)]
  BY Zenon DEF DecodeVarint
<1> HIDE DEF sum
<1>9. sum[0] = 0 /\ \A i \in 1..n : sum[i] = G(i, sum[i - 1])
  BY <1>7 DEF GroupWeight
<1>10. sum \in [0..n -> Word]
  <2> DEFINE S == {i \in 0..n : sum[i] \in Word}
  <2> HIDE DEF G
  <2>1. 0 \in S
    BY <1>3, <1>9
  <2>2. ASSUME NEW i \in 1..n, i - 1 \in S PROVE i \in S
    BY <1>1, <1>9, <2>2
  <2>3. n \in Nat
    OBVIOUS
  <2> HIDE DEF S, n
  <2>4. \A i \in 0..n : i \in S
    BY <2>1, <2>2, <2>3, CountingUp
  <2> QED
    BY <1>7, <2>4 DEF S, n
<1> QED
  BY <1>8, <1>9, <1>10 DEF VarintSums

(* The powers of a bigger number are bigger. *)
LEMMA PowerMonotone ==
  ASSUME NEW a \in Nat \ {0}, NEW c \in Nat \ {0}, a <= c, NEW n \in Nat
  PROVE  Power(a, n) <= Power(c, n)
<1> DEFINE S == {i \in 0..n : Power(a, i) <= Power(c, i)}
<1>1. 0 \in S
  BY PowerFacts
<1>2. ASSUME NEW i \in 1..n, i - 1 \in S PROVE i \in S
  <2> DEFINE j == i - 1
  <2>1. j \in Nat /\ j + 1 = i /\ Power(a, j) <= Power(c, j)
    BY <1>2
  <2> HIDE DEF j
  <2>2. /\ Power(a, j) \in Nat /\ Power(c, j) \in Nat
        /\ Power(a, j + 1) = a * Power(a, j) /\ Power(c, j + 1) = c * Power(c, j)
    BY <2>1, PowerFacts
  <2>3. \A x, y \in Nat : x <= y => a * x <= c * y
    <3>1. ASSUME NEW x \in Nat, NEW y \in Nat, x <= y PROVE a * x <= c * y
      <4>1. a * x <= a * y
        BY <3>1
      <4>2. a * y <= c * y
        OBVIOUS
      <4> QED
        BY <4>1, <4>2
    <3> QED
      BY <3>1
  <2>4. Power(a, j + 1) <= Power(c, j + 1)
    BY <2>1, <2>2, <2>3
  <2> QED
    BY <2>1, <2>4
<1>3. \A i \in 0..n : i \in S
  <2> HIDE DEF S
  <2> QED
    BY <1>1, <1>2, CountingUp
<1> QED
  BY <1>3

LEMMA GroupsFacts ==
  ASSUME NEW v \in Word
  PROVE  /\ Groups(v) \in 1..WidthBits
         /\ v < Power(Group, Groups(v))
         /\ \A k \in 1..Groups(v) - 1 : v >= Power(Group, k)
<1> DEFINE P(n) == v < Power(Group, n) /\ \A k \in 1..n - 1 : v >= Power(Group, k)
           S == {n \in 1..WidthBits : v < Power(Group, n)}
<1>1. WidthBits \in Nat \ {0} /\ GroupBits \in Nat \ {0} /\ Group \in Nat \ {0} /\ v \in Nat
  BY BufferAssumption, Numerals DEF Word
<1>2. WidthBits \in S
  <2>1. 2 <= Group
    <3> DEFINE j == GroupBits - 1
    <3>1. j \in Nat /\ GroupBits = j + 1
      BY <1>1
    <3> HIDE DEF j
    <3>2. Power(2, j + 1) = 2 * Power(2, j) /\ Power(2, j) \in Nat \ {0}
      BY <3>1, PowerFacts
    <3> QED
      BY <3>1, <3>2 DEF Group
  <2>2. Power(2, WidthBits) <= Power(Group, WidthBits)
    BY <1>1, <2>1, PowerMonotone
  <2>3. Power(2, WidthBits) = 2 * Half
    <3> DEFINE j == WidthBits - 1
    <3>1. j \in Nat /\ WidthBits = j + 1
      BY <1>1
    <3>2. Half = Power(2, j)
      BY DEF Half
    <3> HIDE DEF j
    <3>3. Power(2, j + 1) = 2 * Power(2, j)
      BY <3>1, PowerFacts
    <3> QED
      BY <3>1, <3>2, <3>3
  <2>4. v < 2 * Half
    BY Numerals DEF Word
  <2>5. Power(Group, WidthBits) \in Nat
    BY <1>1, PowerFacts
  <2>6. 2 * Half \in Nat
    BY Numerals
  <2> QED
    BY <1>1, <2>2, <2>3, <2>4, <2>5, <2>6
<1>3. PICK n \in S : \A k \in S : n <= k
  <2>1. S \in SUBSET Nat
    OBVIOUS
  <2> HIDE DEF S
  <2> QED
    BY <1>2, <2>1, LeastElement
<1>4. P(n)
  <2>1. ASSUME NEW k \in 1..n - 1 PROVE v >= Power(Group, k)
    <3>1. k \in 1..WidthBits /\ ~ (n <= k) /\ k \in Nat
      BY <1>1
    <3>2. k \notin S
      BY <1>3, <3>1
    <3>3. Power(Group, k) \in Nat
      BY <1>1, <3>1, PowerFacts
    <3> QED
      BY <1>1, <3>1, <3>2, <3>3
  <2> QED
    BY <2>1
<1>5. n \in 1..WidthBits
  OBVIOUS
<1>6. Groups(v) = CHOOSE m \in 1..WidthBits : P(m)
  BY DEF Groups
<1> HIDE DEF P
<1>7. Groups(v) \in 1..WidthBits /\ P(Groups(v))
  BY <1>4, <1>5, <1>6, Zenon
<1> QED
  BY <1>7 DEF P

LEMMA ByteRange ==
  ASSUME NEW x \in Nat
  PROVE  /\ x % Group \in Byte /\ (x % Group) + Group \in Byte /\ x % (2 * Group) \in Byte
<1>1. Group \in Nat \ {0} /\ 2 * Group \in Nat \ {0}
  BY Numerals
<1>2. x % Group \in 0..Group - 1 /\ x % (2 * Group) \in 0..2 * Group - 1
  BY <1>1, Remainder
<1> QED
  BY <1>1, <1>2 DEF Byte

LEMMA EncodeVarintType ==
  ASSUME NEW v \in Word
  PROVE  EncodeVarint(v) \in Seq(Byte) /\ Len(EncodeVarint(v)) = Groups(v)
<1> DEFINE n == Groups(v)
           at(i) == ((v \div Power(Group, i - 1)) % Group) + (IF i < n THEN Group ELSE 0)
<1>1. n \in Nat /\ v \in Nat
  BY GroupsFacts, Numerals, BufferAssumption DEF Word
<1>2. ASSUME NEW i \in 1..n PROVE at(i) \in Byte
  <2> DEFINE x == v \div Power(Group, i - 1)
  <2>1. x \in Nat
    <3>1. i \in Nat \ {0}
      BY <1>1
    <3>2. GroupWeight(i) \in Nat \ {0}
      BY <3>1, Weights
    <3> QED
      BY <1>1, <3>2, DivMod DEF GroupWeight
  <2> HIDE DEF x, n
  <2>2. x % Group \in Byte /\ (x % Group) + Group \in Byte /\ (x % Group) + 0 = x % Group
    <3>1. x % Group \in Nat
      BY <2>1, Numerals, Remainder
    <3> QED
      BY <2>1, <3>1, ByteRange
  <2> QED
    BY <2>2 DEF x
<1>3. EncodeVarint(v) = [i \in 1..n |-> at(i)]
  BY DEF EncodeVarint
<1> HIDE DEF n, at
<1>4. EncodeVarint(v) \in Seq(Byte) /\ Len(EncodeVarint(v)) = n
  BY <1>1, <1>2, <1>3
<1> QED
  BY <1>4 DEF n

LEMMA ReversedType ==
  ASSUME NEW s \in Seq(Byte)
  PROVE  /\ Reversed(s) \in Seq(Byte) /\ Len(Reversed(s)) = Len(s)
         /\ Reversed(Reversed(s)) = s
<1>1. DOMAIN s = 1..Len(s) /\ Len(s) \in Nat
  OBVIOUS
<1>2. \A i \in 1..Len(s) : s[Len(s) + 1 - i] \in Byte
  OBVIOUS
<1>3. Reversed(s) = [i \in 1..Len(s) |-> s[Len(s) + 1 - i]]
  BY <1>1 DEF Reversed
<1>4. Reversed(s) \in Seq(Byte) /\ Len(Reversed(s)) = Len(s) /\ DOMAIN Reversed(s) = 1..Len(s)
  BY <1>1, <1>2, <1>3
<1>5. Reversed(Reversed(s)) = [i \in 1..Len(s) |-> Reversed(s)[Len(s) + 1 - i]]
  BY <1>4 DEF Reversed
<1>6. ASSUME NEW i \in 1..Len(s) PROVE Reversed(s)[Len(s) + 1 - i] = s[i]
  <2>1. Len(s) + 1 - i \in 1..Len(s) /\ Len(s) + 1 - (Len(s) + 1 - i) = i
    BY <1>1
  <2> QED
    BY <1>3, <2>1
<1>7. s = [i \in 1..Len(s) |-> s[i]]
  BY <1>1
<1> QED
  BY <1>4, <1>5, <1>6, <1>7

LEMMA HostBytesType ==
  ASSUME NEW v \in Nat, NEW n \in Nat
  PROVE  /\ HostBytes(v, n) \in Seq(Byte) /\ Len(HostBytes(v, n)) = n
<1> DEFINE at(i) == (v \div Power(2 * Group, i - 1)) % (2 * Group)
<1>1. ASSUME NEW i \in 1..n PROVE at(i) \in Byte
  <2> DEFINE x == v \div Power(2 * Group, i - 1)
  <2>1. x \in Nat
    <3>1. i \in Nat \ {0}
      OBVIOUS
    <3>2. ByteWeight(i) \in Nat \ {0}
      BY <3>1, Weights
    <3> QED
      BY <3>2, DivMod DEF ByteWeight
  <2> HIDE DEF x
  <2>2. x % (2 * Group) \in Byte
    BY <2>1, ByteRange
  <2> QED
    BY <2>2 DEF x
<1>2. HostBytes(v, n) = [i \in 1..n |-> at(i)]
  BY DEF HostBytes
<1> HIDE DEF at
<1> QED
  BY <1>1, <1>2

LEMMA FixedBytesType ==
  ASSUME NEW b, NEW v \in Nat, NEW n \in Nat
  PROVE  FixedBytes(b, v, n) \in Seq(Byte) /\ Len(FixedBytes(b, v, n)) = n
  BY HostBytesType, ReversedType DEF FixedBytes

LEMMA ReadNumbers ==
  ASSUME NEW b, NEW s \in Seq(Byte)
  PROVE  DecodeVarint(s) \in Nat /\ FixedValue(b, s) \in Nat
<1>1. DecodeVarint(s) \in Nat
  <2>1. DecodeVarint(s) \in Word
    <3>1. Len(s) \in 0..Len(s)
      OBVIOUS
    <3> QED
      BY <3>1, VarintLoop
  <2> QED
    BY <2>1, Numerals DEF Word
<1>2. \A q \in Seq(Byte) : HostValue(q) \in Nat
  <2>1. ASSUME NEW q \in Seq(Byte) PROVE HostValue(q) \in Nat
    <3>1. Len(q) \in 0..Len(q)
      OBVIOUS
    <3> QED
      BY <3>1, HostLoop
  <2> QED
    BY <2>1
<1> QED
  BY <1>1, <1>2, ReversedType DEF FixedValue

-----------------------------------------------------------------------------
(* The loops *)

(* The bytes a varint read takes are the next ones. *)
LEMMA VarintBytesFacts ==
  ASSUME NEW b, WellFormed(b)
  PROVE  /\ varintBytes(b) \in Seq(Byte) /\ Len(varintBytes(b)) \in 0..readSize(b)
         /\ varintBytes(b) = taken(b, Len(varintBytes(b)))
<1> DEFINE m == Least(readSize(b), MaxGroups)
           left == taken(b, m)
           ends == {i \in DOMAIN left : left[i] < Group}
           first == CHOOSE i \in ends : \A j \in ends : i <= j
           n == IF ends = {} THEN Len(left) ELSE first
           s == varintBytes(b)
<1>1. b.pos \in Nat /\ readSize(b) \in Nat
  BY FieldTypes DEF readSize
<1>2. MaxGroups \in Nat
  <2>1. GroupBits \in Nat \ {0} /\ WidthBits + GroupBits - 1 \in Nat
    BY BufferAssumption
  <2> QED
    BY <2>1, DivMod DEF MaxGroups
<1>3. m \in 0..readSize(b) /\ m \in Nat
  BY <1>1, <1>2 DEF Least
<1> HIDE DEF m
<1>4. left \in Seq(Byte) /\ left = [k \in 1..m |-> ByteAt(b, b.pos + k - 1)]
  BY <1>3, TakenFacts
<1>5. Len(left) = m /\ DOMAIN left = 1..m /\ \A k \in 1..m : left[k] = ByteAt(b, b.pos + k - 1)
  BY <1>3, <1>4
<1> HIDE DEF left
<1>6. ends # {} => first \in ends
  <2>1. ends \in SUBSET Nat
    BY <1>5
  <2> HIDE DEF ends
  <2> QED
    BY <2>1, LeastElement
<1>7. n \in 0..m
  <2>1. \A i \in ends : i \in 0..m
    BY <1>5
  <2> HIDE DEF ends, first
  <2> QED
    BY <1>3, <1>5, <1>6, <2>1
<1>8. s = SubSeq(left, 1, n)
  BY DEF varintBytes, left, m
<1> HIDE DEF n, s
<1>9. /\ s \in Seq(Byte) /\ Len(s) = n
      /\ \A k \in 1..n : s[k] = left[k]
  BY <1>3, <1>4, <1>5, <1>7, <1>8
<1>10. n \in 0..readSize(b) /\ \A k \in 1..n : k \in 1..m
  BY <1>1, <1>3, <1>7
<1>11. s = [k \in 1..n |-> ByteAt(b, b.pos + k - 1)]
  <2>1. DOMAIN s = 1..n
    BY <1>9
  <2>2. \A k \in 1..n : s[k] = ByteAt(b, b.pos + k - 1)
    BY <1>5, <1>9, <1>10
  <2>3. s = [k \in DOMAIN s |-> s[k]]
    BY <1>9
  <2> QED
    BY <2>1, <2>2, <2>3, Zenon
<1>12. taken(b, n) = [k \in 1..n |-> ByteAt(b, b.pos + k - 1)]
  BY <1>10, TakenFacts
<1> QED
  BY <1>9, <1>10, <1>11, <1>12 DEF s

(* A system call that stores d where getWriteBuffers says. *)
Filled(b, d, g) ==
  LET a == addCapacity(b, Len(d), g)
  IN IF d = <<>> THEN b ELSE Scatter(a, a.cur, a.pos % BaseSize, d)

LEMMA FilledFacts ==
  ASSUME NEW b, WellFormed(b), NEW d \in Seq(Byte), NEW g \in Byte
  PROVE  LET f == Filled(b, d, g)
         IN /\ WellFormed(f) /\ f.pos = b.pos /\ f.size = b.size /\ f.little = b.little
            /\ \A i \in 0..b.size - 1 :
                 ByteAt(f, i) = IF b.pos <= i /\ i < b.pos + Len(d) THEN d[i - b.pos + 1]
                                ELSE ByteAt(b, i)
<1> DEFINE a == addCapacity(b, Len(d), g)
           f == Filled(b, d, g)
           z == Scatter(a, b.pos \div BaseSize + 1, b.pos % BaseSize, d)
<1>1. /\ BaseSize \in Nat \ {0} /\ b.pos \in Nat /\ b.size \in Nat /\ b.cap \in Nat
      /\ Len(d) \in Nat /\ b.pos <= b.size /\ b.size <= b.cap
  BY BufferAssumption, FieldTypes
<1>2. CASE d = <<>>
  <2>1. f = b /\ Len(d) = 0
    BY <1>2 DEF Filled
  <2>2. \A i \in 0..b.size - 1 : ~ (b.pos <= i /\ i < b.pos + Len(d))
    BY <1>1, <2>1
  <2> QED
    BY <2>1, <2>2
<1>3. CASE d # <<>>
  <2>1. /\ WellFormed(a)
        /\ a.pos = b.pos /\ a.size = b.size /\ a.little = b.little
        /\ b.cap <= a.cap /\ b.pos + Len(d) <= a.cap
        /\ \A i \in 0..b.cap - 1 : ByteAt(a, i) = ByteAt(b, i)
    BY <1>1, AddCapacityFacts
  <2> HIDE DEF a
  <2>2. a.cap \in Nat /\ a.cap = Capacity(Len(a.blocks)) /\ a.cur = CursorOf(Len(a.blocks), b.pos)
    BY <2>1, FieldTypes
  <2>3. Len(d) # 0
    BY <1>3, EmptySeq
  <2>4. a.cur = b.pos \div BaseSize + 1
    BY <1>1, <2>1, <2>2, <2>3 DEF CursorOf
  <2>5. f = z
    BY <1>3, <2>1, <2>4 DEF Filled, a
  <2>6. /\ WellFormed(z)
        /\ z.pos = a.pos /\ z.size = a.size /\ z.little = a.little
        /\ \A i \in 0..a.cap - 1 :
             ByteAt(z, i) = IF i \in b.pos..b.pos + Len(d) - 1 THEN d[i - b.pos + 1]
                            ELSE ByteAt(a, i)
    BY ZenonT(60), <1>1, <2>1, ScatterFacts
  <2> HIDE DEF z, f
  <2>7. ASSUME NEW i \in 0..b.size - 1
        PROVE  ByteAt(z, i) = IF b.pos <= i /\ i < b.pos + Len(d) THEN d[i - b.pos + 1]
                              ELSE ByteAt(b, i)
    <3>1. i \in 0..a.cap - 1 /\ i \in 0..b.cap - 1
      BY <1>1, <2>1, <2>2
    <3>2. i \in b.pos..b.pos + Len(d) - 1 <=> (b.pos <= i /\ i < b.pos + Len(d))
      BY <1>1
    <3> QED
      BY <2>1, <2>6, <3>1, <3>2
  <2> QED
    BY <2>1, <2>5, <2>6, <2>7 DEF f
<1> QED
  BY <1>2, <1>3

(* The chunks a file is read in. *)
LEMMA ChunkFacts ==
  ASSUME NEW d \in Seq(Byte)
  PROVE  /\ Chunks(d) \in Nat
         /\ \A i \in 1..Chunks(d) :
              /\ Chunk(d, i) \in Seq(Byte)
              /\ Len(Chunk(d, i)) = Least(i * BaseSize, Len(d)) - (i - 1) * BaseSize
              /\ (i - 1) * BaseSize <= Len(d) /\ (i - 1) * BaseSize \in Nat
<1> DEFINE n == Chunks(d)
<1>1. BaseSize \in Nat \ {0} /\ Len(d) \in Nat
  BY BufferAssumption
<1>2. n \in Nat /\ \A k \in Nat : k < n => k * BaseSize <= Len(d) /\ k * BaseSize \in Nat
  <2>1. CASE Len(d) = 0
    <3>1. (BaseSize * 0 + (BaseSize - 1)) \div BaseSize = 0
      BY <1>1, DivModUnique
    <3>2. n = 0
      BY <1>1, <2>1, <3>1 DEF Chunks
    <3> QED
      BY <3>2
  <2>2. CASE Len(d) # 0
    <3>1. n \in Nat /\ n * BaseSize < Len(d) + BaseSize
      BY <1>1, <2>2, RoundUp DEF Chunks
    <3> HIDE DEF n
    <3>2. ASSUME NEW k \in Nat, k < n PROVE k * BaseSize <= Len(d) /\ k * BaseSize \in Nat
      <4>1. \A x, y \in Nat : x <= y => x * BaseSize <= y * BaseSize
        BY <1>1
      <4>2. (k + 1) * BaseSize <= n * BaseSize
        BY <3>1, <3>2, <4>1
      <4>3. (k + 1) * BaseSize = k * BaseSize + BaseSize /\ k * BaseSize \in Nat /\ n * BaseSize \in Nat
        BY <1>1, <3>1
      <4> QED
        BY <1>1, <3>1, <4>2, <4>3
    <3> QED
      BY <3>1, <3>2
  <2> QED
    BY <1>1, <2>1, <2>2
<1>3. ASSUME NEW i \in 1..n
      PROVE  /\ Chunk(d, i) \in Seq(Byte)
             /\ Len(Chunk(d, i)) = Least(i * BaseSize, Len(d)) - (i - 1) * BaseSize
             /\ (i - 1) * BaseSize <= Len(d) /\ (i - 1) * BaseSize \in Nat
  <2> DEFINE p == (i - 1) * BaseSize
             q == Least(i * BaseSize, Len(d))
  <2>1. i - 1 \in Nat /\ i - 1 < n
    BY <1>2
  <2>2. p <= Len(d) /\ p \in Nat
    BY <1>2, <2>1
  <2>3. i * BaseSize = p + BaseSize
    BY <1>1, <1>2
  <2> HIDE DEF p
  <2>4. q \in p..Len(d)
    BY <1>1, <2>2, <2>3 DEF Least
  <2>5. Chunk(d, i) = SubSeq(d, p + 1, q)
    BY DEF Chunk, p
  <2> HIDE DEF q
  <2>6. SubSeq(d, p + 1, q) \in Seq(Byte) /\ Len(SubSeq(d, p + 1, q)) = q - p
    BY <1>1, <2>2, <2>4
  <2> QED
    BY <2>2, <2>5, <2>6 DEF p, q
<1> QED
  BY <1>2, <1>3

(***************************************************************************)
(* readFromFile: every chunk is stored, perhaps in part, behind the one    *)
(* before it.                                                              *)
(***************************************************************************)
LEMMA LoadedFacts ==
  ASSUME NEW b, WellFormed(b), NEW d \in Seq(Byte), NEW g \in Byte
  PROVE  \E s \in Seq(Byte) : Len(s) <= Len(d) /\ Stores(b, Loaded(b, d, g), s)
<1> DEFINE X == {r \in BufferRecord : WellFormed(r)}
           n == Chunks(d)
           F == [i \in 1..n |-> [r \in X |-> write(r, Chunk(d, i), g)]]
           max(i) == Least(i * BaseSize, Len(d))
<1>1. /\ n \in Nat /\ b \in X /\ BaseSize \in Nat \ {0} /\ Len(d) \in Nat
      /\ \A i \in 1..n : /\ Chunk(d, i) \in Seq(Byte)
                         /\ Len(Chunk(d, i)) = max(i) - (i - 1) * BaseSize
                         /\ (i - 1) * BaseSize <= Len(d) /\ (i - 1) * BaseSize \in Nat
  BY ChunkFacts, FieldTypes, BufferAssumption
<1> HIDE DEF n
<1>2. ASSUME NEW i \in 1..n, NEW r \in X
      PROVE  Stores(r, write(r, Chunk(d, i), g), Part(r, Chunk(d, i)))
  BY <1>1, WriteFacts
<1>3. ASSUME NEW i \in 1..n, NEW r \in X PROVE write(r, Chunk(d, i), g) \in X
  BY <1>2 DEF Stores, WellFormed
<1>4. F \in [1..n -> [X -> X]]
  <2> HIDE DEF X
  <2> QED
    BY <1>3
<1>5. PICK f \in [0..n -> X] : f[0] = b /\ \A i \in 1..n : f[i] = F[i][f[i - 1]]
  <2> HIDE DEF F, X
  <2>1. \E f \in [0..n -> X] : Goes(f, n, b, F)
    BY <1>1, <1>4, Loop
  <2> QED
    BY <2>1 DEF Goes
<1>6. f = [i \in 0..n |-> IF i = 0 THEN b ELSE write(f[i - 1], Chunk(d, i), g)]
  <2> DEFINE R(i) == IF i = 0 THEN b ELSE write(f[i - 1], Chunk(d, i), g)
  <2>1. ASSUME NEW i \in 1..n PROVE f[i] = R(i)
    <3>1. f[i - 1] \in X
      BY <1>1, <1>5
    <3>2. F[i][f[i - 1]] = write(f[i - 1], Chunk(d, i), g)
      BY <3>1
    <3>3. i # 0
      BY <1>1
    <3> QED
      BY <1>5, <3>2, <3>3
  <2>2. \A i \in 0..n : i = 0 \/ i \in 1..n
    BY <1>1
  <2>3. f[0] = R(0)
    BY <1>5
  <2>4. f = [i \in 0..n |-> f[i]]
    BY <1>5
  <2> HIDE DEF R
  <2>5. f = [i \in 0..n |-> R(i)]
    BY <2>1, <2>2, <2>3, <2>4, Zenon
  <2> QED
    BY <2>5 DEF R
<1> DEFINE after[i \in 0..Chunks(d)] ==
             IF i = 0 THEN b ELSE write(after[i - 1], Chunk(d, i), g)
<1>7. after = [i \in 0..Chunks(d) |-> IF i = 0 THEN b ELSE write(after[i - 1], Chunk(d, i), g)]
  BY <1>6, Zenon DEF n
<1>8. Loaded(b, d, g) = after[Chunks(d)]
  BY Zenon DEF Loaded
<1> HIDE DEF after
<1>9. after[0] = b /\ \A i \in 1..n : after[i] = write(after[i - 1], Chunk(d, i), g)
  <2>1. /\ \A i \in 0..n : after[i] = IF i = 0 THEN b ELSE write(after[i - 1], Chunk(d, i), g)
    BY <1>7, Zenon DEF n
  <2>2. 0 \in 0..n /\ \A i \in 1..n : i \in 0..n /\ i # 0
    BY <1>1
  <2> QED
    BY <2>1, <2>2, Zenon
<1> DEFINE S == {i \in 0..n : \E s \in Seq(Byte) : Len(s) <= max(i) /\ Stores(b, after[i], s)}
<1>10. 0 \in S
  <2>1. /\ <<>> \in Seq(Byte) /\ Len(<<>>) = 0 /\ 0 * BaseSize = 0
    BY <1>1
  <2>2. Len(<<>>) <= max(0)
    BY <1>1, <2>1 DEF Least
  <2>3. Stores(b, b, <<>>)
    <3>1. Greatest(b.size, b.pos) = b.size /\ b.pos + 0 = b.pos
          /\ \A i \in 0..b.size - 1 : ~ (b.pos <= i /\ i < b.pos)
      BY FieldTypes DEF Greatest
    <3> QED
      BY <2>1, <3>1 DEF Stores
  <2> QED
    <3>1. 0 \in 0..n /\ Stores(b, after[0], <<>>)
      BY <1>1, <1>9, <2>3
    <3> HIDE DEF max
    <3> QED
      BY <2>1, <2>2, <3>1
<1>11. ASSUME NEW i \in 1..n, i - 1 \in S PROVE i \in S
  <2>1. PICK s \in Seq(Byte) : Len(s) <= max(i - 1) /\ Stores(b, after[i - 1], s)
    BY <1>11
  <2> DEFINE r == after[i - 1]
             t == Part(r, Chunk(d, i))
  <2>2. r \in X
    BY <2>1 DEF Stores, WellFormed
  <2>3. after[i] = write(r, Chunk(d, i), g)
    BY <1>9
  <2>4. Stores(r, after[i], t)
    <3> HIDE DEF r, X
    <3> QED
      BY <1>2, <2>2, <2>3
  <2>5. t \in Seq(Byte) /\ Len(t) \in 0..Len(Chunk(d, i))
    BY <1>1, <2>2, PartFacts
  <2> HIDE DEF t, r
  <2>6. Stores(b, r, s)
    BY <2>1 DEF r
  <2>7. Stores(b, after[i], s \o t)
    BY <2>4, <2>5, <2>6, StoresTwice
  <2>8. s \o t \in Seq(Byte) /\ Len(s \o t) = Len(s) + Len(t)
    BY <2>5, ConcatProperties
  <2>9. Len(s \o t) <= max(i)
    <3>1. /\ (i - 1) * BaseSize <= Len(d) /\ (i - 1) * BaseSize \in Nat
          /\ Len(Chunk(d, i)) = max(i) - (i - 1) * BaseSize /\ Len(Chunk(d, i)) \in Nat
      BY <1>1
    <3>2. max(i - 1) = (i - 1) * BaseSize
      BY <1>1, <3>1 DEF Least
    <3>3. i * BaseSize \in Nat
      BY <1>1
    <3>4. max(i) \in Nat
      BY <1>1, <3>3 DEF Least
    <3> HIDE DEF max
    <3> DEFINE p == (i - 1) * BaseSize
    <3>5. p \in Nat /\ Len(Chunk(d, i)) = max(i) - p /\ Len(s) <= p
      BY <2>1, <3>1, <3>2
    <3> HIDE DEF p
    <3> QED
      BY <2>5, <2>8, <3>1, <3>4, <3>5
  <2>10. i \in 0..n
    BY <1>1
  <2> QED
    BY <2>7, <2>8, <2>9, <2>10
<1>12. \A i \in 0..n : i \in S
  <2> HIDE DEF S
  <2> QED
    BY <1>1, <1>10, <1>11, CountingUp
<1>13. PICK s \in Seq(Byte) : Len(s) <= max(n) /\ Stores(b, after[n], s)
  <2>1. n \in 0..n
    BY <1>1
  <2> QED
    BY <1>12, <2>1
<1>14. max(n) <= Len(d)
  <2>1. n * BaseSize \in Nat
    BY <1>1
  <2> QED
    BY <1>1, <2>1 DEF Least
<1>15. Len(s) <= Len(d)
  <2>1. max(n) \in Nat
    <3>1. n * BaseSize \in Nat
      BY <1>1
    <3> QED
      BY <1>1, <3>1 DEF Least
  <2> QED
    BY <1>1, <1>13, <1>14, <2>1
<1> QED
  BY <1>8, <1>13, <1>15 DEF n

-----------------------------------------------------------------------------
(* The calls *)

(* x is b after the next n bytes have been read.                           *)
Advanced(b, x, n) ==
  /\ n \in 0..readSize(b)
  /\ WellFormed(x) /\ x.blocks = b.blocks /\ x.pos = b.pos + n /\ x.size = b.size

LEMMA AdvancedOnce ==
  ASSUME NEW b, WellFormed(b), NEW n \in 0..readSize(b)
  PROVE  Advanced(b, advance(b, n), n)
  BY AdvanceFacts DEF Advanced

LEMMA AdvancedNot ==
  ASSUME NEW b, WellFormed(b)
  PROVE  Advanced(b, b, 0)
<1>1. 0 \in 0..readSize(b) /\ b.pos + 0 = b.pos
  BY FieldTypes DEF readSize
<1> QED
  BY <1>1 DEF Advanced

LEMMA AdvancedTwice ==
  ASSUME NEW b, WellFormed(b), NEW h \in 0..readSize(b), NEW x, x = advance(b, h),
         NEW n \in 0..readSize(x)
  PROVE  Advanced(b, advance(x, n), h + n)
<1>1. WellFormed(x) /\ x.blocks = b.blocks /\ x.pos = b.pos + h /\ x.size = b.size
  BY AdvanceFacts
<1>2. /\ WellFormed(advance(x, n)) /\ advance(x, n).blocks = x.blocks
      /\ advance(x, n).pos = x.pos + n /\ advance(x, n).size = x.size
  BY <1>1, AdvanceFacts
<1>3. b.pos \in Nat /\ b.size \in Nat
  BY FieldTypes
<1>4. h + n \in 0..readSize(b) /\ b.pos + (h + n) = (b.pos + h) + n
  BY <1>1, <1>3 DEF readSize
<1> QED
  BY <1>1, <1>2, <1>4 DEF Advanced

(* How the calls that take bytes end. *)
Took(n) == Advanced(buf, buf', n) /\ out' = Gave(taken(buf, n)) /\ UNCHANGED trapped
Failed(n) == Advanced(buf, buf', n) /\ out' = Thrown /\ UNCHANGED trapped

LEMMA AtTheEnd ==
  ASSUME NEW b, WellFormed(b), b.cur = 0
  PROVE  b.pos = b.size /\ readSize(b) = 0
<1>1. /\ b.pos \in Nat /\ b.size \in Nat /\ b.pos <= b.size /\ b.size <= Capacity(Len(b.blocks))
      /\ CursorOf(Len(b.blocks), b.pos) = 0
  BY FieldTypes
<1>2. b.pos \div BaseSize \in Nat
  BY <1>1, BufferAssumption, DivMod
<1>3. b.pos = Capacity(Len(b.blocks))
  BY <1>1, <1>2 DEF CursorOf
<1> QED
  BY <1>1, <1>3 DEF readSize

LEMMA ReadStep ==
  ASSUME WellFormed(buf), read
  PROVE  /\ call'.op = "read" /\ call'.n \in Nat
         /\ \/ Took(call'.n)
            \/ call'.n > readSize(buf) /\ Failed(0)
            \/ call'.n = 0 /\ buf.pos = buf.size /\ Traps
<1>1. PICK n \in Sizes :
        /\ call' = [op |-> "read", n |-> n]
        /\ IF n > readSize(buf) THEN Throws(buf)
           ELSE \/ Gives(advance(buf, n), taken(buf, n))
                \/ buf.cur = 0 /\ Traps
  BY DEF read
<1>2. call'.op = "read" /\ call'.n = n
  BY <1>1
<1>3. n \in Nat /\ readSize(buf) \in Nat
  BY BufferAssumption, FieldTypes DEF Sizes, readSize
<1>4. CASE n > readSize(buf)
  BY <1>1, <1>2, <1>3, <1>4, AdvancedNot DEF Throws, Failed
<1>5. CASE ~ (n > readSize(buf)) /\ Gives(advance(buf, n), taken(buf, n))
  <2>1. n \in 0..readSize(buf)
    BY <1>3, <1>5
  <2> QED
    BY <1>2, <1>3, <1>5, <2>1, AdvancedOnce DEF Gives, Took
<1>6. CASE ~ (n > readSize(buf)) /\ buf.cur = 0 /\ Traps
  <2>1. buf.pos = buf.size /\ readSize(buf) = 0
    BY <1>6, AtTheEnd
  <2>2. n = 0
    BY <1>3, <1>6, <2>1
  <2> QED
    BY <1>2, <1>6, <2>1, <2>2
<1> QED
  BY <1>1, <1>4, <1>5, <1>6

LEMMA VarintStep ==
  ASSUME WellFormed(buf), readVarint
  PROVE  /\ call'.op = "varint"
         /\ \E n \in Nat : Took(n) \/ Failed(n)
<1> DEFINE s == varintBytes(buf)
           n == Len(s)
<1>1. s \in Seq(Byte) /\ n \in 0..readSize(buf) /\ s = taken(buf, n)
  BY VarintBytesFacts
<1>2. n \in Nat
  BY <1>1
<1> HIDE DEF s
<1>3. /\ call' = [op |-> "varint"]
      /\ \/ Gives(advance(buf, n), s)
         \/ Throws(advance(buf, n))
  BY DEF readVarint, s
<1>4. Advanced(buf, advance(buf, n), n)
  BY <1>1, AdvancedOnce
<1>5. Took(n) \/ Failed(n)
  BY <1>1, <1>3, <1>4 DEF Gives, Throws, Took, Failed
<1>6. call'.op = "varint"
  BY <1>3
<1> QED
  BY <1>2, <1>5, <1>6

LEMMA BodyStep ==
  ASSUME WellFormed(buf), NEW h \in 0..readSize(buf), NEW n \in Nat, readBody(h, n)
  PROVE  (\E k \in Nat : Took(k) \/ Failed(k)) \/ Traps
<1> DEFINE b == advance(buf, h)
<1>1. WellFormed(b) /\ Advanced(buf, b, h)
  BY AdvancedOnce DEF Advanced
<1>2. h \in Nat /\ readSize(buf) \in Nat /\ readSize(b) \in Nat
  BY <1>1, FieldTypes DEF readSize
<1>3. IF n > readSize(b) THEN Throws(b)
      ELSE \/ Gives(advance(b, n), taken(buf, h + n))
           \/ b.cur = 0 /\ Traps
  BY DEF readBody
<1> DEFINE x == b
<1>4. CASE n > readSize(b)
  <2>1. Failed(h)
    BY <1>1, <1>3, <1>4 DEF Throws, Failed
  <2> QED
    BY <1>2, <2>1
<1>5. CASE ~ (n > readSize(b)) /\ Gives(advance(b, n), taken(buf, h + n))
  <2>1. n \in 0..readSize(b)
    BY <1>2, <1>5
  <2>2. Advanced(buf, advance(b, n), h + n)
    BY <2>1, AdvancedTwice
  <2>3. Took(h + n)
    BY <1>5, <2>2 DEF Gives, Took
  <2> QED
    BY <1>2, <2>3
<1> QED
  BY <1>3, <1>4, <1>5

LEMMA StringStep ==
  ASSUME WellFormed(buf), readStringF \/ readStringVint
  PROVE  /\ call'.op = "string"
         /\ (\E n \in Nat : Took(n) \/ Failed(n)) \/ Traps
<1>1. readSize(buf) \in Nat
  BY FieldTypes DEF readSize
<1>2. CASE readStringF
  <2>1. PICK n \in FieldSizes :
          /\ call' = [op |-> "string"]
          /\ IF n > readSize(buf) THEN Throws(buf)
             ELSE readBody(n, FixedValue(buf, taken(buf, n)))
    BY <1>2 DEF readStringF
  <2>2. n \in Nat /\ 0 \in Nat
    BY BufferAssumption
  <2>3. CASE n > readSize(buf)
    <3>1. Failed(0)
      BY <2>1, <2>3, AdvancedNot DEF Throws, Failed
    <3> QED
      BY <2>1, <2>2, <3>1
  <2>4. CASE ~ (n > readSize(buf))
    <3>1. n \in 0..readSize(buf)
      BY <1>1, <2>2, <2>4
    <3>2. FixedValue(buf, taken(buf, n)) \in Nat
      BY <3>1, TakenFacts, ReadNumbers
    <3>3. readBody(n, FixedValue(buf, taken(buf, n)))
      BY <2>1, <2>4
    <3>4. (\E k \in Nat : Took(k) \/ Failed(k)) \/ Traps
      BY <3>1, <3>2, <3>3, BodyStep
    <3> QED
      BY <2>1, <3>4
  <2> QED
    BY <2>3, <2>4
<1>3. CASE readStringVint
  <2> DEFINE s == varintBytes(buf)
             n == Len(s)
  <2>1. s \in Seq(Byte) /\ n \in 0..readSize(buf) /\ n \in Nat
    BY VarintBytesFacts
  <2>2. /\ call' = [op |-> "string"]
        /\ readBody(n, DecodeVarint(s)) \/ Throws(advance(buf, n))
    BY <1>3 DEF readStringVint
  <2> HIDE DEF s
  <2>3. DecodeVarint(s) \in Nat
    BY <2>1, ReadNumbers
  <2>4. CASE readBody(n, DecodeVarint(s))
    <3>1. (\E k \in Nat : Took(k) \/ Failed(k)) \/ Traps
      BY <2>1, <2>3, <2>4, BodyStep
    <3> QED
      BY <2>2, <3>1
  <2>5. CASE Throws(advance(buf, n))
    <3>1. Failed(n)
      BY <2>1, <2>5, AdvancedOnce DEF Throws, Failed
    <3> QED
      BY <2>1, <2>2, <3>1
  <2> QED
    BY <2>2, <2>4, <2>5
<1> QED
  BY <1>2, <1>3

LEMMA PartBegins ==
  ASSUME NEW b, WellFormed(b), NEW d \in Seq(Byte)
  PROVE  Part(b, d) \in Flat!Beginnings(d)
<1> DEFINE n == Least(BaseSize - (b.pos % BaseSize), Len(d))
<1>1. Len(Part(b, d)) = n /\ n \in 0..Len(d) /\ (Part(b, d) = <<>> <=> d = <<>>)
  BY PartFacts
<1>2. Part(b, d) = SubSeq(d, 1, n)
  BY DEF Part
<1>3. CASE d = <<>>
  BY <1>1, <1>3 DEF Flat!Beginnings
<1>4. CASE d # <<>>
  <2>1. n # 0
    BY <1>1, <1>4, PartFacts, EmptySeq
  <2> HIDE DEF n
  <2>2. n \in 1..Len(d)
    BY <1>1, <2>1
  <2> QED
    BY <1>2, <2>2 DEF Flat!Beginnings
<1> QED
  BY <1>3, <1>4

LEMMA PutStep ==
  ASSUME WellFormed(buf), NEW head \in Seq(Byte), NEW data \in Seq(Byte), Put(head, data)
  PROVE  /\ call'.op = "write" /\ call'.head = head /\ call'.data = data
         /\ Fits(buf') /\ out' = Gave(<<>>) /\ UNCHANGED trapped
         /\ \E a \in Flat!Beginnings(head), d \in Flat!Beginnings(data) :
              a \in Seq(Byte) /\ d \in Seq(Byte) /\ Stores(buf, buf', a \o d)
<1>1. PICK g \in Heap :
        /\ call' = [op |-> "write", head |-> head, data |-> data]
        /\ buf' = write(write(buf, head, g), data, g)
        /\ Fits(buf')
        /\ out' = Gave(<<>>)
        /\ UNCHANGED trapped
  BY DEF Put
<1> DEFINE w == write(buf, head, g)
           a == Part(buf, head)
           d == Part(w, data)
<1>2. g \in Byte
  BY BufferAssumption
<1>3. Stores(buf, w, a)
  BY <1>2, WriteFacts
<1>4. WellFormed(w)
  BY <1>3 DEF Stores
<1> HIDE DEF w
<1>5. Stores(w, buf', d)
  BY <1>1, <1>2, <1>4, WriteFacts DEF w
<1>6. /\ a \in Seq(Byte) /\ a \in Flat!Beginnings(head)
      /\ d \in Seq(Byte) /\ d \in Flat!Beginnings(data)
  BY <1>4, PartFacts, PartBegins
<1> HIDE DEF a, d
<1>7. Stores(buf, buf', a \o d)
  BY <1>3, <1>5, <1>6, StoresTwice
<1>8. call'.op = "write" /\ call'.head = head /\ call'.data = data
  BY <1>1
<1> QED
  BY <1>1, <1>6, <1>7, <1>8

LEMMA WriteStep ==
  ASSUME WriteBytes \/ WriteVarint \/ WriteFixed \/ WriteString
  PROVE  \E head \in Seq(Byte), data \in Seq(Byte) : Put(head, data)
<1>1. /\ <<>> \in Seq(Byte) /\ Datas \subseteq Seq(Byte) /\ \A d \in Datas : Len(d) \in Word
      /\ Numbers \subseteq Word /\ FieldSizes \subseteq Nat
  BY BufferAssumption
<1>2. \A v \in Word : v \in Nat /\ EncodeVarint(v) \in Seq(Byte)
  BY Numerals, EncodeVarintType DEF Word
<1>3. \A v \in Word, n \in FieldSizes : FixedBytes(buf, v, n) \in Seq(Byte)
  BY <1>1, <1>2, FixedBytesType
<1>4. CASE WriteBytes
  BY <1>1, <1>4 DEF WriteBytes
<1>5. CASE WriteVarint
  BY <1>1, <1>2, <1>5 DEF WriteVarint
<1>6. CASE WriteFixed
  BY <1>1, <1>3, <1>6 DEF WriteFixed
<1>7. CASE WriteString
  BY <1>1, <1>2, <1>3, <1>7 DEF WriteString
<1> QED
  BY <1>4, <1>5, <1>6, <1>7

LEMMA LoadStep ==
  ASSUME WellFormed(buf), readFromFile
  PROVE  /\ call'.op = "load" /\ Fits(buf') /\ out' = Gave(<<>>) /\ UNCHANGED trapped
         /\ \E s \in Seq(Byte) : Len(s) <= Len(call'.data) /\ Stores(buf, buf', s)
         /\ Len(call'.data) \in Nat
<1>1. PICK d \in Datas, g \in Heap :
        /\ call' = [op |-> "load", data |-> d]
        /\ buf' = Loaded(buf, d, g)
        /\ Fits(buf')
        /\ out' = Gave(<<>>)
        /\ UNCHANGED trapped
  BY DEF readFromFile
<1>2. call'.op = "load" /\ call'.data = d
  BY <1>1
<1>3. d \in Seq(Byte) /\ g \in Byte
  BY BufferAssumption
<1>4. \E s \in Seq(Byte) : Len(s) <= Len(d) /\ Stores(buf, buf', s)
  BY <1>1, <1>3, LoadedFacts
<1> QED
  BY <1>1, <1>2, <1>3, <1>4

LEMMA FillStep ==
  ASSUME WellFormed(buf), getWriteBuffers
  PROVE  /\ call'.op = "fill" /\ Fits(buf') /\ out' = Gave(<<>>) /\ UNCHANGED trapped
         /\ call'.data \in Seq(Byte)
         /\ WellFormed(buf') /\ buf'.pos = buf.pos /\ buf'.size = buf.size
         /\ \A i \in 0..buf.size - 1 :
              ByteAt(buf', i) = IF buf.pos <= i /\ i < buf.pos + Len(call'.data)
                                THEN call'.data[i - buf.pos + 1] ELSE ByteAt(buf, i)
<1>1. PICK d \in Datas, g \in Heap :
        /\ call' = [op |-> "fill", data |-> d]
        /\ buf' = Filled(buf, d, g)
        /\ Fits(buf')
        /\ out' = Gave(<<>>)
        /\ UNCHANGED trapped
  BY Zenon DEF getWriteBuffers, Filled
<1>2. call'.op = "fill" /\ call'.data = d
  BY <1>1
<1>3. d \in Seq(Byte) /\ g \in Byte
  BY BufferAssumption
<1>4. /\ WellFormed(buf') /\ buf'.pos = buf.pos /\ buf'.size = buf.size
      /\ \A i \in 0..buf.size - 1 :
           ByteAt(buf', i) = IF buf.pos <= i /\ i < buf.pos + Len(d) THEN d[i - buf.pos + 1]
                             ELSE ByteAt(buf, i)
  BY <1>1, <1>3, FilledFacts
<1> QED
  BY <1>1, <1>2, <1>3, <1>4

LEMMA SeekStep ==
  ASSUME WellFormed(buf), SetPosition
  PROVE  /\ call'.op = "seek" /\ call'.n \in Nat /\ UNCHANGED trapped
         /\ \/ call'.n > buf.cap /\ Throws(buf)
            \/ /\ call'.n \in 0..buf.cap /\ out' = Gave(<<>>)
               /\ WellFormed(buf') /\ buf'.blocks = buf.blocks /\ buf'.pos = call'.n
               /\ buf'.size = Greatest(buf.size, call'.n)
<1>1. PICK v \in 0..BaseSize * MaxBlocks + 1 :
        /\ call' = [op |-> "seek", n |-> v]
        /\ IF v > buf.cap THEN Throws(buf)
           ELSE buf' = setPosition(buf, v) /\ out' = Gave(<<>>) /\ UNCHANGED trapped
  BY DEF SetPosition
<1>2. call'.op = "seek" /\ call'.n = v
  BY <1>1
<1>3. v \in Nat /\ buf.cap \in Nat
  BY BufferAssumption, FieldTypes
<1>4. CASE v > buf.cap
  BY <1>1, <1>2, <1>3, <1>4 DEF Throws
<1>5. CASE ~ (v > buf.cap)
  <2>1. v \in 0..buf.cap
    BY <1>3, <1>5
  <2>2. /\ WellFormed(buf') /\ buf'.blocks = buf.blocks /\ buf'.pos = v
        /\ buf'.size = Greatest(buf.size, v)
    BY <1>1, <1>5, <2>1, SetPositionFacts
  <2> QED
    BY <1>1, <1>2, <1>3, <1>5, <2>1, <2>2
<1> QED
  BY <1>4, <1>5

LEMMA OrderStep ==
  ASSUME WellFormed(buf), setIsLittleEndian
  PROVE  /\ call'.op = "endian" /\ out' = Gave(<<>>) /\ UNCHANGED trapped
         /\ WellFormed(buf') /\ buf'.blocks = buf.blocks /\ buf'.pos = buf.pos
         /\ buf'.size = buf.size
<1>1. PICK e \in BOOLEAN : buf' = [buf EXCEPT !.little = e]
  BY DEF setIsLittleEndian
<1>2. buf \in BufferRecord
  BY FieldTypes
<1>3. /\ buf' \in BufferRecord /\ buf'.blocks = buf.blocks /\ buf'.pos = buf.pos
      /\ buf'.size = buf.size /\ buf'.cap = buf.cap /\ buf'.cur = buf.cur
  BY <1>1, <1>2 DEF BufferRecord
<1>4. WellFormed(buf')
  BY <1>3 DEF WellFormed
<1>5. call'.op = "endian" /\ out' = Gave(<<>>) /\ UNCHANGED trapped
  BY DEF setIsLittleEndian
<1> QED
  BY <1>3, <1>4, <1>5

LEMMA PeekStep ==
  ASSUME getReadBuffers \/ getReadBuffersAt \/ readAt \/ writeToFile
  PROVE  UNCHANGED buf /\ (UNCHANGED trapped \/ trapped' = TRUE)
<1> USE DEF Gives, Throws, Traps
<1>1. CASE getReadBuffers
  BY <1>1 DEF getReadBuffers
<1>2. CASE getReadBuffersAt
  BY <1>2 DEF getReadBuffersAt
<1>3. CASE readAt
  BY <1>3 DEF readAt
<1>4. CASE writeToFile
  BY <1>4 DEF writeToFile
<1> QED
  BY <1>1, <1>2, <1>3, <1>4

-----------------------------------------------------------------------------
(***************************************************************************)
(* The inductive invariant.  CursorInPlace is not inductive without the    *)
(* sizes: write() rounds the capacity up from the position, and a cursor   *)
(* in its place is one only for a position inside the blocks.              *)
(***************************************************************************)
BufferInv ==
  /\ WellFormed(buf)
  /\ Fits(buf)
  /\ trapped \in BOOLEAN

LEMMA InvInit == Init => BufferInv
<1> SUFFICES ASSUME Init PROVE BufferInv
  OBVIOUS
<1>1. BaseSize \in Nat \ {0} /\ MaxBlocks \in Nat \ {0} /\ Datas \subseteq Seq(Byte) /\ Heap \subseteq Byte
  BY BufferAssumption
<1>2. \E block \in Block, n \in 0..BaseSize : buf = RootOnly(block, n)
  <2>1. CASE \E g \in Heap : buf = RootOnly([o \in 0..BaseSize - 1 |-> g], 0)
    <3>1. PICK g \in Heap : buf = RootOnly([o \in 0..BaseSize - 1 |-> g], 0)
      BY <2>1
    <3>2. [o \in 0..BaseSize - 1 |-> g] \in Block /\ 0 \in 0..BaseSize
      BY <1>1 DEF Block
    <3> QED
      BY <3>1, <3>2
  <2>2. CASE \E d \in {d \in Datas : Len(d) = BaseSize} :
               buf = RootOnly([o \in 0..BaseSize - 1 |-> d[o + 1]], BaseSize)
    <3>1. PICK d \in Datas : /\ Len(d) = BaseSize
                             /\ buf = RootOnly([o \in 0..BaseSize - 1 |-> d[o + 1]], BaseSize)
      BY <2>2
    <3>2. d \in Seq(Byte)
      BY <1>1
    <3>3. \A o \in 0..BaseSize - 1 : d[o + 1] \in Byte
      <4>1. \A o \in 0..BaseSize - 1 : o + 1 \in 1..Len(d)
        BY <1>1, <3>1
      <4> QED
        BY <3>2, <4>1
    <3>4. [o \in 0..BaseSize - 1 |-> d[o + 1]] \in Block /\ BaseSize \in 0..BaseSize
      BY <1>1, <3>3 DEF Block
    <3> QED
      BY <3>1, <3>4
  <2> QED
    BY <2>1, <2>2 DEF Init
<1>3. PICK block \in Block, n \in 0..BaseSize : buf = RootOnly(block, n)
  BY <1>2
<1>4. WellFormed(buf)
  BY <1>3, RootFacts
<1>5. Fits(buf)
  <2>1. Len(buf.blocks) = 1
    BY <1>3 DEF RootOnly
  <2> QED
    BY <1>1, <2>1 DEF Fits
<1>6. trapped \in BOOLEAN
  BY DEF Init
<1> QED
  BY <1>4, <1>5, <1>6 DEF BufferInv

LEMMA AdvancedFits ==
  ASSUME NEW n, Fits(buf), Advanced(buf, buf', n)
  PROVE  WellFormed(buf') /\ Fits(buf')
  BY DEF Advanced, Fits

LEMMA InvNext == BufferInv /\ [Next]_vars => BufferInv'
<1> SUFFICES ASSUME BufferInv, [Next]_vars PROVE BufferInv'
  OBVIOUS
<1>1. WellFormed(buf) /\ Fits(buf) /\ trapped \in BOOLEAN
  BY DEF BufferInv
<1>2. SUFFICES WellFormed(buf') /\ Fits(buf') /\ trapped' \in BOOLEAN
  BY DEF BufferInv, Fits, WellFormed, Capacity, CursorOf, BufferRecord, Block
<1>3. CASE WriteBytes \/ WriteVarint \/ WriteFixed \/ WriteString
  <2>1. PICK head \in Seq(Byte), data \in Seq(Byte) : Put(head, data)
    BY <1>3, WriteStep
  <2> QED
    BY <1>1, <2>1, PutStep DEF Stores
<1>4. CASE readFromFile
  BY <1>1, <1>4, LoadStep DEF Stores
<1>5. CASE getWriteBuffers
  BY <1>1, <1>5, FillStep
<1>6. CASE read
  BY <1>1, <1>6, ReadStep, AdvancedFits DEF Took, Failed, Traps
<1>7. CASE readVarint
  BY <1>1, <1>7, VarintStep, AdvancedFits DEF Took, Failed
<1>8. CASE readStringF \/ readStringVint
  BY <1>1, <1>8, StringStep, AdvancedFits DEF Took, Failed, Traps
<1>9. CASE getReadBuffers \/ getReadBuffersAt \/ readAt \/ writeToFile
  BY <1>1, <1>9, PeekStep
<1>10. CASE SetPosition
  BY <1>1, <1>10, SeekStep DEF Throws, Fits
<1>11. CASE Clear
  <2>1. buf' = clear(buf) /\ UNCHANGED trapped
    BY <1>11 DEF Clear
  <2>2. WellFormed(buf') /\ Len(buf'.blocks) = 1
    BY <1>1, <2>1, ClearFacts
  <2>3. Fits(buf')
    BY <2>2, BufferAssumption DEF Fits
  <2> QED
    BY <1>1, <2>1, <2>2, <2>3
<1>12. CASE setIsLittleEndian
  BY <1>1, <1>12, OrderStep DEF Fits
<1>13. CASE UNCHANGED vars
  BY <1>1, <1>13 DEF vars
<1> QED
  BY <1>3, <1>4, <1>5, <1>6, <1>7, <1>8, <1>9, <1>10, <1>11, <1>12, <1>13 DEF Next, Dead

LEMMA InvCorrect == Spec => []BufferInv
<1> QED
  BY InvInit, InvNext, PTL DEF Spec

LEMMA InvTypes == BufferInv => TypeOK /\ CursorInPlace
<1> SUFFICES ASSUME BufferInv PROVE TypeOK /\ CursorInPlace
  OBVIOUS
<1> DEFINE l == Len(buf.blocks)
<1>1. /\ buf \in BufferRecord /\ l \in Nat \ {0} /\ buf.blocks \in Seq(Block)
      /\ buf.pos \in Nat /\ buf.size \in Nat /\ buf.cap \in Nat /\ buf.little \in BOOLEAN
      /\ buf.pos <= buf.size /\ buf.size <= buf.cap /\ buf.cap = Capacity(l)
      /\ buf.cur = CursorOf(l, buf.pos) /\ trapped \in BOOLEAN
  BY FieldTypes DEF BufferInv
<1>2. buf.cur \in 0..l
  <2>1. buf.pos \in 0..Capacity(l)
    BY <1>1
  <2> HIDE DEF l
  <2> QED
    BY <1>1, <2>1, CursorFacts
<1>3. CursorInPlace
  BY <1>1 DEF CursorInPlace, CursorOf, Capacity
<1>4. TypeOK
  BY <1>1, <1>2 DEF TypeOK, Block
<1> QED
  BY <1>3, <1>4

(***************************************************************************)
(* position_ <= size_ <= capacity_ whatever calls are made, so readSize()  *)
(* and getCapacity() do not wrap around.                                   *)
(***************************************************************************)
THEOREM TypeCorrect == Spec => []TypeOK
  BY InvCorrect, InvTypes, PTL

(***************************************************************************)
(* cur_, which six calls move on their own, is always the block of         *)
(* position_, and null exactly behind the last block: the next write or    *)
(* read starts in the right place.                                         *)
(***************************************************************************)
THEOREM CursorCorrect == Spec => []CursorInPlace
  BY InvCorrect, InvTypes, PTL

-----------------------------------------------------------------------------
(* The buffer as a byte stream *)

Contents(b) == Gather(b, 1, 0, b.size)

LEMMA ContentsFacts ==
  ASSUME NEW b, WellFormed(b)
  PROVE  /\ Contents(b) \in Seq(Byte) /\ Len(Contents(b)) = b.size
         /\ Contents(b) = [k \in 1..b.size |-> ByteAt(b, k - 1)]
<1>1. /\ BaseSize \in Nat \ {0} /\ b.size \in Nat /\ b.cap \in Nat /\ b.size <= b.cap
  BY BufferAssumption, FieldTypes
<1>2. 0 \div BaseSize + 1 = 1 /\ 0 % BaseSize = 0
  <2>1. (BaseSize * 0 + 0) \div BaseSize = 0 /\ (BaseSize * 0 + 0) % BaseSize = 0
    BY <1>1, DivModUnique
  <2> QED
    BY <1>1, <2>1
<1>3. Gather(b, 0 \div BaseSize + 1, 0 % BaseSize, b.size)
        = [k \in 1..b.size |-> ByteAt(b, 0 + k - 1)]
  <2> DEFINE zero == 0
             n == b.size
  <2>1. zero \in Nat /\ n \in Nat
    BY <1>1
  <2> HIDE DEF zero, n
  <2>2. Gather(b, zero \div BaseSize + 1, zero % BaseSize, n)
          = [k \in 1..n |-> ByteAt(b, zero + k - 1)]
    BY <2>1, GatherFacts
  <2> QED
    BY <2>2, Zenon DEF zero, n
<1>4. Contents(b) = [k \in 1..b.size |-> ByteAt(b, 0 + k - 1)]
  BY <1>2, <1>3 DEF Contents
<1>5. \A k \in 1..b.size : 0 + k - 1 = k - 1 /\ k - 1 \in 0..b.cap - 1
  BY <1>1
<1>6. \A k \in 1..b.size : ByteAt(b, k - 1) \in Byte
  BY <1>5, ByteAtType
<1>7. Contents(b) = [k \in 1..b.size |-> ByteAt(b, k - 1)]
  BY <1>4, <1>5
<1> QED
  BY <1>1, <1>6, <1>7

LEMMA SameContents ==
  ASSUME NEW b, NEW c, b.blocks = c.blocks, b.size = c.size
  PROVE  Contents(b) = Contents(c)
  BY DEF Contents, Gather

(* What has been read is a part of the contents. *)
LEMMA TakenContents ==
  ASSUME NEW b, WellFormed(b), NEW n \in 0..readSize(b)
  PROVE  taken(b, n) = SubSeq(Contents(b), b.pos + 1, b.pos + n)
<1> DEFINE c == Contents(b)
           s == SubSeq(c, b.pos + 1, b.pos + n)
<1>1. /\ c \in Seq(Byte) /\ Len(c) = b.size /\ \A k \in 1..b.size : c[k] = ByteAt(b, k - 1)
  BY ContentsFacts
<1>2. b.pos \in Nat /\ b.size \in Nat /\ n \in Nat /\ b.pos + n <= b.size
  BY FieldTypes DEF readSize
<1> HIDE DEF c
<1>3. s = [k \in 1..n |-> c[b.pos + k]]
  BY SMTT(60), <1>1, <1>2
<1>4. \A k \in 1..n : b.pos + k \in 1..b.size /\ (b.pos + k) - 1 = b.pos + k - 1
  BY <1>2
<1>5. \A k \in 1..n : c[b.pos + k] = ByteAt(b, b.pos + k - 1)
  BY <1>1, <1>4
<1>6. s = [k \in 1..n |-> ByteAt(b, b.pos + k - 1)]
  BY <1>3, <1>5
<1>7. taken(b, n) = [k \in 1..n |-> ByteAt(b, b.pos + k - 1)]
  BY TakenFacts
<1> QED
  BY <1>6, <1>7 DEF c

LEMMA SubSeqPart ==
  ASSUME NEW e \in Seq(Byte), NEW p \in Nat, NEW n \in Nat, p + n <= Len(e)
  PROVE  SubSeq(e, p + 1, p + n) = [k \in 1..n |-> e[p + k]]
  OBVIOUS

LEMMA StoredContents ==
  ASSUME NEW b, NEW w, WellFormed(b), NEW s \in Seq(Byte), Stores(b, w, s)
  PROVE  /\ Contents(w) = Flat!Stored(Contents(b), b.pos, s)
         /\ s = SubSeq(Contents(w), b.pos + 1, w.pos)
<1> DEFINE c == Contents(b)
           e == Contents(w)
           n == IF b.pos + Len(s) > Len(c) THEN b.pos + Len(s) ELSE Len(c)
<1>1. /\ WellFormed(w) /\ w.pos = b.pos + Len(s) /\ w.size = Greatest(b.size, w.pos)
      /\ \A i \in 0..w.size - 1 :
           ByteAt(w, i) = IF b.pos <= i /\ i < w.pos THEN s[i - b.pos + 1] ELSE ByteAt(b, i)
  BY DEF Stores
<1>2. /\ c \in Seq(Byte) /\ Len(c) = b.size /\ \A k \in 1..b.size : c[k] = ByteAt(b, k - 1)
      /\ e \in Seq(Byte) /\ Len(e) = w.size /\ e = [k \in 1..w.size |-> ByteAt(w, k - 1)]
  BY <1>1, ContentsFacts
<1>3. b.pos \in Nat /\ b.size \in Nat /\ w.pos \in Nat /\ w.size \in Nat /\ Len(s) \in Nat
  BY <1>1, FieldTypes
<1> HIDE DEF c, e
<1>4. n = w.size
  BY <1>1, <1>2, <1>3 DEF Greatest
<1>5. ASSUME NEW k \in 1..w.size
      PROVE  ByteAt(w, k - 1) = IF k \in b.pos + 1..b.pos + Len(s) THEN s[k - b.pos] ELSE c[k]
  <2>1. /\ k - 1 \in 0..w.size - 1 /\ (k - 1) - b.pos + 1 = k - b.pos
        /\ (k \in b.pos + 1..b.pos + Len(s) <=> (b.pos <= k - 1 /\ k - 1 < w.pos))
    BY SMTT(60), <1>1, <1>3
  <2>2. k \notin b.pos + 1..b.pos + Len(s) => k \in 1..b.size
    <3>1. w.pos = b.pos + Len(s) /\ (w.size = w.pos \/ w.size = b.size)
      BY <1>1 DEF Greatest
    <3>2. b.pos <= b.size /\ k \in 1..w.size
      BY FieldTypes
    <3> QED
      BY <1>3, <3>1, <3>2
  <2> QED
    BY <1>1, <1>2, <2>1, <2>2
<1>6. e = [k \in 1..n |-> IF k \in b.pos + 1..b.pos + Len(s) THEN s[k - b.pos] ELSE c[k]]
  BY <1>2, <1>4, <1>5
<1>7. e = Flat!Stored(c, b.pos, s)
  BY <1>6 DEF Flat!Stored
<1>8. s = SubSeq(e, b.pos + 1, w.pos)
  <2>1. b.pos + Len(s) <= w.size
    BY <1>1, <1>3 DEF Greatest
  <2> DEFINE q == SubSeq(e, b.pos + 1, w.pos)
  <2>2. q = [k \in 1..Len(s) |-> e[b.pos + k]]
    <3>1. w.pos = b.pos + Len(s) /\ b.pos + Len(s) <= Len(e) /\ e \in Seq(Byte)
      BY <1>1, <1>2, <2>1
    <3> QED
      <4>1. SubSeq(e, b.pos + 1, b.pos + Len(s)) = [k \in 1..Len(s) |-> e[b.pos + k]]
        BY <1>3, <3>1, SubSeqPart, Zenon
      <4> QED
        BY <3>1, <4>1, Zenon
  <2>3. ASSUME NEW k \in 1..Len(s) PROVE e[b.pos + k] = s[k]
    <3>1. b.pos + k \in 1..w.size /\ b.pos + k \in b.pos + 1..b.pos + Len(s) /\ (b.pos + k) - b.pos = k
      BY <1>3, <2>1
    <3> QED
      BY <1>4, <1>6, <3>1
  <2>4. s = [k \in 1..Len(s) |-> s[k]]
    OBVIOUS
  <2> HIDE DEF q
  <2>5. q = s
    BY <2>2, <2>3, <2>4
  <2> QED
    BY <2>5 DEF q
<1> QED
  BY <1>7, <1>8 DEF c, e

-----------------------------------------------------------------------------
(* The loop of writeToFile *)

(* The n bytes from offset p on. *)
Span(b, p, n) == [k \in 1..n |-> ByteAt(b, p + k - 1)]

LEMMA SpanType ==
  ASSUME NEW b, WellFormed(b), NEW p \in Nat, NEW n \in Nat, p + n <= b.cap
  PROVE  Span(b, p, n) \in Seq(Byte) /\ Len(Span(b, p, n)) = n
<1>1. ASSUME NEW k \in 1..n PROVE ByteAt(b, p + k - 1) \in Byte
  <2>1. p + k - 1 \in 0..b.cap - 1
    BY FieldTypes
  <2> QED
    BY <2>1, ByteAtType
<1> QED
  BY <1>1 DEF Span

LEMMA SpanConcat ==
  ASSUME NEW b, WellFormed(b), NEW p \in Nat, NEW m \in Nat, NEW n \in Nat, p + m + n <= b.cap
  PROVE  Span(b, p, m) \o Span(b, p + m, n) = Span(b, p, m + n)
<1> DEFINE s == Span(b, p, m)
           t == Span(b, p + m, n)
           u == Span(b, p, m + n)
<1>1. b.cap \in Nat /\ p + m \in Nat /\ m + n \in Nat /\ p + m <= b.cap
      /\ p + (m + n) <= b.cap /\ (p + m) + n <= b.cap
  BY FieldTypes
<1>2. /\ s \in Seq(Byte) /\ Len(s) = m /\ t \in Seq(Byte) /\ Len(t) = n
      /\ u \in Seq(Byte) /\ Len(u) = m + n
  BY <1>1, SpanType
<1>3. /\ \A k \in 1..m : s[k] = ByteAt(b, p + k - 1)
      /\ \A k \in 1..n : t[k] = ByteAt(b, p + m + k - 1)
      /\ \A k \in 1..m + n : u[k] = ByteAt(b, p + k - 1)
  BY DEF Span
<1> HIDE DEF s, t, u
<1>4. /\ s \o t \in Seq(Byte) /\ Len(s \o t) = m + n
      /\ \A k \in 1..m + n : (s \o t)[k] = IF k <= m THEN s[k] ELSE t[k - m]
  BY <1>2, ConcatProperties
<1>5. ASSUME NEW k \in 1..m + n PROVE (s \o t)[k] = u[k]
  <2>1. CASE k <= m
    <3>1. k \in 1..m
      BY <2>1
    <3> QED
      BY <1>3, <1>4, <2>1, <3>1
  <2>2. CASE ~ (k <= m)
    <3>1. k - m \in 1..n /\ p + m + (k - m) - 1 = p + k - 1
      BY <2>2
    <3> QED
      BY <1>3, <1>4, <2>2, <3>1
  <2> QED
    BY <2>1, <2>2
<1>6. s \o t = u
  <2> DEFINE v == s \o t
  <2>1. v \in Seq(Byte) /\ Len(v) = Len(u) /\ \A k \in 1..Len(v) : v[k] = u[k]
    BY <1>2, <1>4, <1>5
  <2> HIDE DEF v
  <2>2. v = u
    BY <1>2, <2>1, SeqEqual
  <2> QED
    BY <2>2 DEF v
<1> QED
  BY <1>6 DEF s, t, u

SaveState == [cur : Nat, pos : Nat, left : Nat, data : Seq(Byte), bad : BOOLEAN]

(* One round of the loop. *)
SaveRound(b, x) ==
  LET diff == x.pos % BaseSize
      len == Least(x.left, BaseSize) - diff
  IN IF x.left = 0 \/ x.bad THEN x
     ELSE IF x.cur = 0 \/ len < 0 THEN [x EXCEPT !.bad = TRUE]
     ELSE [cur |-> NextBlock(b, x.cur), pos |-> x.pos + len,
           left |-> x.left - len, bad |-> FALSE,
           data |-> x.data \o Gather(b, x.cur, diff, len)]

(***************************************************************************)
(* What has been written so far is what was to be read.  The last line is  *)
(* why: the block is the one of the position, or it will be of no use any  *)
(* more, as the offset eats up all that is left.                           *)
(***************************************************************************)
SaveInv(b, x) ==
  /\ x \in SaveState /\ x.cur \in 0..Len(b.blocks)
  /\ x.pos \in b.pos..b.size /\ x.left = b.size - x.pos
  /\ x.data = Span(b, b.pos, x.pos - b.pos)
  /\ x.bad \/ x.left = 0 \/ x.cur = CursorOf(Len(b.blocks), x.pos) \/ x.left <= x.pos % BaseSize

LEMMA SaveLength ==
  ASSUME NEW B \in Nat \ {0}, NEW left \in Nat, NEW diff \in 0..B - 1,
         NEW len, len = Least(left, B) - diff
  PROVE  /\ len \in Int /\ len <= left
         /\ left <= diff /\ ~ (len < 0) => len = 0
         /\ ~ (left <= diff) /\ left < B => len = left - diff
         /\ ~ (left < B) => diff + len = B
  BY DEF Least

LEMMA SaveRoundInv ==
  ASSUME NEW b, WellFormed(b), NEW x, SaveInv(b, x)
  PROVE  /\ SaveInv(b, SaveRound(b, x))
         /\ LET y == SaveRound(b, x)
            IN ~ y.bad /\ y.left # 0 =>
                 ~ x.bad /\ x.left # 0 /\ x.cur # 0 /\ y.cur = NextBlock(b, x.cur)
<1> DEFINE l == Len(b.blocks)
           diff == x.pos % BaseSize
           len == Least(x.left, BaseSize) - diff
           y == SaveRound(b, x)
           next == NextBlock(b, x.cur)
           data == x.data \o Gather(b, x.cur, diff, len)
<1>1. /\ BaseSize \in Nat \ {0} /\ l \in Nat \ {0} /\ b.pos \in Nat /\ b.size \in Nat /\ b.cap \in Nat
      /\ b.pos <= b.size /\ b.size <= b.cap /\ b.cap = Capacity(l)
  BY BufferAssumption, FieldTypes
<1>2. /\ x \in SaveState /\ x.cur \in 0..l /\ x.cur \in Nat
      /\ x.pos \in b.pos..b.size /\ x.pos \in Nat /\ x.left = b.size - x.pos /\ x.left \in Nat
      /\ x.data = Span(b, b.pos, x.pos - b.pos) /\ x.data \in Seq(Byte) /\ x.bad \in BOOLEAN
      /\ x.bad \/ x.left = 0 \/ x.cur = CursorOf(l, x.pos) \/ x.left <= diff
  BY <1>1 DEF SaveInv, SaveState
<1>3. diff \in 0..BaseSize - 1 /\ x.pos \div BaseSize \in Nat
      /\ x.pos = BaseSize * (x.pos \div BaseSize) + diff
  BY <1>1, <1>2, DivMod
<1>7. /\ len \in Int /\ len <= x.left
      /\ x.left <= diff /\ ~ (len < 0) => len = 0
      /\ ~ (x.left <= diff) /\ x.left < BaseSize => len = x.left - diff
      /\ ~ (x.left < BaseSize) => diff + len = BaseSize
  <2> DEFINE B == BaseSize
  <2>1. B \in Nat \ {0} /\ x.left \in Nat /\ diff \in 0..B - 1 /\ len = Least(x.left, B) - diff
    BY <1>1, <1>2, <1>3
  <2> HIDE DEF len, diff, B
  <2>2. /\ len \in Int /\ len <= x.left
        /\ x.left <= diff /\ ~ (len < 0) => len = 0
        /\ ~ (x.left <= diff) /\ x.left < B => len = x.left - diff
        /\ ~ (x.left < B) => diff + len = B
    BY <2>1, SaveLength
  <2> QED
    BY <2>2 DEF B
<1>4. CASE x.left = 0 \/ x.bad
  <2>1. y = x
    BY <1>4 DEF SaveRound
  <2> QED
    BY <1>4, <2>1
<1>5. CASE ~ (x.left = 0 \/ x.bad) /\ (x.cur = 0 \/ len < 0)
  <2>1. y = [x EXCEPT !.bad = TRUE]
    BY <1>5 DEF SaveRound
  <2>2. /\ y \in SaveState /\ y.cur = x.cur /\ y.pos = x.pos /\ y.left = x.left
        /\ y.data = x.data /\ y.bad = TRUE
    BY <1>2, <2>1 DEF SaveState
  <2> HIDE DEF y
  <2>3. SaveInv(b, y)
    BY <1>1, <1>2, <2>2 DEF SaveInv
  <2> QED
    BY <2>2, <2>3 DEF y
<1>6. CASE ~ (x.left = 0 \/ x.bad) /\ ~ (x.cur = 0 \/ len < 0)
  <2>1. y = [cur |-> next, pos |-> x.pos + len, left |-> x.left - len, bad |-> FALSE, data |-> data]
    BY <1>6 DEF SaveRound
  <2> HIDE DEF diff, len
  <2>2. len \in Nat /\ len <= x.left /\ x.pos + len \in b.pos..b.size /\ x.pos + len <= b.cap
        /\ x.pos + len \in Nat /\ x.left - len \in Nat /\ x.left - len = b.size - (x.pos + len)
    <3>1. ~ (len < 0)
      BY <1>6
    <3> QED
      BY SMTT(60), <1>1, <1>2, <1>7, <3>1
  <2>3. next \in 0..l /\ next \in Nat
    BY <1>1, <1>2 DEF NextBlock
  <2>4. data = Span(b, b.pos, (x.pos + len) - b.pos) /\ data \in Seq(Byte)
    <3>1. Gather(b, x.cur, diff, len) = Span(b, x.pos, len)
      <4>1. CASE x.cur = CursorOf(l, x.pos)
        <5>1. x.cur = x.pos \div BaseSize + 1
          BY <1>6, <4>1 DEF CursorOf
        <5> HIDE DEF len
        <5>2. Gather(b, x.pos \div BaseSize + 1, x.pos % BaseSize, len)
                = [k \in 1..len |-> ByteAt(b, x.pos + k - 1)]
          <6> DEFINE p == x.pos
          <6>1. p \in Nat /\ len \in Nat
            BY <1>2, <2>2
          <6> HIDE DEF p
          <6>2. Gather(b, p \div BaseSize + 1, p % BaseSize, len)
                  = [k \in 1..len |-> ByteAt(b, p + k - 1)]
            BY <6>1, GatherFacts
          <6> QED
            BY <6>2, Zenon DEF p
        <5> QED
          BY <5>1, <5>2, Zenon DEF Span, diff
      <4>2. CASE x.cur # CursorOf(l, x.pos)
        <5>1. x.left <= diff
          BY <1>2, <1>6, <4>2
        <5>2. len = 0
          BY <1>6, <1>7, <5>1
        <5>3. 1..len = {}
          BY <5>2
        <5> QED
          BY <5>3 DEF Gather, Span
      <4> QED
        BY <4>1, <4>2
    <3> DEFINE m == x.pos - b.pos
    <3>2. m \in Nat /\ b.pos + m = x.pos /\ b.pos + m + len <= b.cap /\ m + len = (x.pos + len) - b.pos
      <4> DEFINE p == x.pos
                 a == b.pos
      <4>1. p \in Nat /\ a \in Nat /\ a <= p /\ p + len <= b.cap /\ len \in Nat /\ m = p - a /\ b.cap \in Nat
        BY <1>1, <1>2, <2>2
      <4> HIDE DEF p, a, m
      <4>2. m \in Nat /\ a + m = p /\ a + m + len <= b.cap /\ m + len = (p + len) - a
        BY <4>1
      <4> QED
        BY <4>2 DEF p, a
    <3> HIDE DEF m
    <3>3. Span(b, b.pos, m) \o Span(b, b.pos + m, len) = Span(b, b.pos, m + len)
      <4>1. b.pos \in Nat /\ m \in Nat /\ len \in Nat /\ b.pos + m + len <= b.cap
        BY <1>1, <2>2, <3>2
      <4> QED
        BY <4>1, SpanConcat
    <3>4. Span(b, b.pos, m + len) \in Seq(Byte)
      <4>1. m + len \in Nat /\ b.pos + (m + len) <= b.cap
        BY <1>1, <2>2, <3>2
      <4> QED
        BY <1>1, <4>1, SpanType
    <3>5. x.data = Span(b, b.pos, m)
      BY <1>2 DEF m
    <3> QED
      BY <3>1, <3>2, <3>3, <3>4, <3>5
  <2>5. \/ x.left - len = 0 \/ next = CursorOf(l, x.pos + len)
        \/ x.left - len <= (x.pos + len) % BaseSize
    <3>1. CASE x.left <= diff
      <4>1. len = 0
        BY <1>6, <1>7, <3>1
      <4>2. x.left - len = x.left /\ x.pos + len = x.pos
        BY <1>2, <4>1
      <4> QED
        BY <3>1, <4>2 DEF diff
    <3>2. CASE ~ (x.left <= diff) /\ x.left < BaseSize
      <4>1. len = x.left - diff
        BY <1>7, <3>2
      <4> DEFINE u == x.pos \div BaseSize
                 B == BaseSize
      <4>2. u \in Nat /\ B * u \in Int /\ x.pos = B * u + diff /\ B \in Nat \ {0}
        BY <1>1, <1>3
      <4> HIDE DEF len, u, B
      <4>3. x.pos + len = B * u + x.left /\ x.left \in 0..B - 1
        BY SMTT(60), <1>2, <1>3, <3>2, <4>1, <4>2 DEF B
      <4>4. (B * u + x.left) % B = x.left
        BY <4>2, <4>3, DivModUnique
      <4>5. x.left - len = diff
        BY <1>2, <1>3, <4>1
      <4>6. (x.pos + len) % BaseSize = x.left
        BY <4>3, <4>4 DEF B
      <4> QED
        BY <1>2, <1>3, <3>2, <4>5, <4>6
    <3>3. CASE ~ (x.left <= diff) /\ ~ (x.left < BaseSize)
      <4>1. diff + len = BaseSize /\ x.cur = CursorOf(l, x.pos)
        BY <1>2, <1>6, <1>7, <3>3
      <4> DEFINE c == CursorOf(l, x.pos) + ((x.pos % BaseSize) + len) \div BaseSize
      <4>2. BaseSize \div BaseSize = 1
        <5>1. (BaseSize * 1 + 0) \div BaseSize = 1
          BY <1>1, DivModUnique
        <5> QED
          BY <1>1, <5>1
      <4>3. c = x.cur + 1
        <5> HIDE DEF len
        <5> QED
          BY <4>1, <4>2 DEF diff
      <4> DEFINE p == x.pos
                 d == x.cur + 1
      <4>4. /\ p \in Nat /\ len \in Nat /\ l \in Nat \ {0} /\ p + len <= Capacity(l)
            /\ d = CursorOf(l, p) + ((p % BaseSize) + len) \div BaseSize
        BY <1>1, <1>2, <2>2, <4>3
      <4>5. (IF d <= l THEN d ELSE 0) = next
        BY <1>1, <1>2 DEF NextBlock
      <4> HIDE DEF len, l, p, d, next
      <4>6. (IF d <= l THEN d ELSE 0) = CursorOf(l, p + len)
        BY <4>4, NextCursor
      <4> QED
        BY <4>5, <4>6 DEF p
    <3> QED
      BY <3>1, <3>2, <3>3
  <2> HIDE DEF next, data, len
  <2>6. /\ y \in SaveState /\ y.cur = next /\ y.pos = x.pos + len /\ y.left = x.left - len
        /\ y.data = data /\ y.bad = FALSE
    BY <2>1, <2>2, <2>3, <2>4 DEF SaveState
  <2> HIDE DEF y
  <2>7. SaveInv(b, y)
    BY <2>2, <2>3, <2>4, <2>5, <2>6 DEF SaveInv
  <2> QED
    BY <1>2, <1>6, <2>6, <2>7 DEF y, next
<1> QED
  BY <1>4, <1>5, <1>6

LEMMA SavedFacts ==
  ASSUME NEW b, WellFormed(b), Fits(b)
  PROVE  Saved(b).bad \/ Saved(b).data = taken(b, readSize(b))
<1> DEFINE X == {x \in SaveState : SaveInv(b, x)}
           n == MaxBlocks + 2
           x0 == [cur |-> b.cur, pos |-> b.pos, left |-> readSize(b), data |-> <<>>, bad |-> FALSE]
           F == [i \in 1..n |-> [x \in X |-> SaveRound(b, x)]]
           l == Len(b.blocks)
<1>1. /\ n \in Nat /\ l \in Nat \ {0} /\ l <= n - 2 /\ b.pos \in Nat /\ b.size \in Nat /\ b.cap \in Nat
      /\ b.pos <= b.size /\ b.size <= b.cap /\ b.cap = Capacity(l) /\ b.cur = CursorOf(l, b.pos)
  BY BufferAssumption, FieldTypes DEF Fits
<1>2. b.cur \in 0..l
  <2>1. b.pos \in 0..Capacity(l)
    BY <1>1
  <2> HIDE DEF l
  <2> QED
    BY <1>1, <2>1, CursorFacts
<1>3. x0 \in X
  <2>1. Span(b, b.pos, 0) = <<>>
    BY DEF Span
  <2>2. readSize(b) \in Nat /\ readSize(b) = b.size - b.pos /\ b.pos - b.pos = 0
    BY <1>1 DEF readSize
  <2>3. b.pos \in b.pos..b.size /\ b.cur \in Nat
    BY <1>1, <1>2
  <2>4. x0 \in SaveState
    BY <1>1, <2>2, <2>3 DEF SaveState
  <2>5. /\ x0.cur = b.cur /\ x0.pos = b.pos /\ x0.left = b.size - b.pos /\ x0.data = <<>>
    BY <2>2
  <2> HIDE DEF x0
  <2>6. SaveInv(b, x0)
    BY <1>1, <1>2, <2>1, <2>2, <2>3, <2>4, <2>5 DEF SaveInv
  <2> QED
    BY <2>4, <2>6
<1> HIDE DEF x0
<1>4. ASSUME NEW x \in X PROVE SaveRound(b, x) \in X
  BY SaveRoundInv DEF SaveInv
<1>5. F \in [1..n -> [X -> X]]
  <2> HIDE DEF X, n
  <2> QED
    BY <1>4
<1>6. PICK f \in [0..n -> X] : f[0] = x0 /\ \A i \in 1..n : f[i] = F[i][f[i - 1]]
  <2> HIDE DEF F, X, n
  <2>1. \E f \in [0..n -> X] : Goes(f, n, x0, F)
    BY <1>1, <1>3, <1>5, Loop
  <2> QED
    BY <2>1 DEF Goes
<1>7. ASSUME NEW i \in 1..n PROVE f[i] = SaveRound(b, f[i - 1])
  <2>1. f[i - 1] \in X
    BY <1>1, <1>6
  <2>2. F[i][f[i - 1]] = SaveRound(b, f[i - 1])
    BY <2>1
  <2> QED
    BY <1>6, <2>2
<1>8. f = [i \in 0..n |-> IF i = 0 THEN x0 ELSE SaveRound(b, f[i - 1])]
  <2> DEFINE R(i) == IF i = 0 THEN x0 ELSE SaveRound(b, f[i - 1])
  <2> HIDE DEF n
  <2>1. /\ \A i \in 0..n : i = 0 \/ i \in 1..n
        /\ \A i \in 1..n : i # 0
    BY <1>1
  <2>2. \A i \in 0..n : f[i] = R(i)
    BY <1>6, <1>7, <2>1, Zenon
  <2>3. f = [i \in 0..n |-> f[i]]
    BY <1>6
  <2> HIDE DEF R
  <2>4. f = [i \in 0..n |-> R(i)]
    BY <2>2, <2>3, Zenon
  <2> QED
    BY <2>4 DEF R
<1> DEFINE file[k \in 0..n] == IF k = 0 THEN x0 ELSE SaveRound(b, file[k - 1])
<1>9. file = [k \in 0..n |-> IF k = 0 THEN x0 ELSE SaveRound(b, file[k - 1])]
  <2> HIDE DEF n
  <2> QED
    BY <1>8, Zenon
<1>10. Saved(b) = file[n]
  BY Zenon DEF Saved, SaveRound, x0
<1> HIDE DEF file
<1>11. file[0] = x0 /\ \A i \in 1..n : file[i] = SaveRound(b, file[i - 1])
  <2>1. \A i \in 0..n : file[i] = IF i = 0 THEN x0 ELSE SaveRound(b, file[i - 1])
    BY <1>9, Zenon
  <2>2. 0 \in 0..n /\ \A i \in 1..n : i \in 0..n /\ i # 0
    BY <1>1
  <2> HIDE DEF n
  <2> QED
    BY <2>1, <2>2, Zenon
<1> DEFINE Early(k, x) == ~ x.bad /\ x.left # 0 => k <= l /\ (x.cur = 0 \/ x.cur > k)
           S == {k \in 0..n : SaveInv(b, file[k]) /\ Early(k, file[k])}
<1>12. 0 \in S
  <2>1. SaveInv(b, file[0])
    BY <1>3, <1>11
  <2>2. file[0].cur \in 0..l
    BY <2>1 DEF SaveInv
  <2>3. Early(0, file[0])
    BY <1>1, <2>2
  <2> QED
    BY <1>1, <2>1, <2>3
<1>13. ASSUME NEW i \in 1..n, i - 1 \in S PROVE i \in S
  <2> DEFINE x == file[i - 1]
             y == file[i]
  <2>1. SaveInv(b, x) /\ Early(i - 1, x)
    BY <1>13
  <2>2. y = SaveRound(b, x)
    BY <1>11
  <2> HIDE DEF x, y
  <2>3. /\ SaveInv(b, y)
        /\ ~ y.bad /\ y.left # 0 =>
             ~ x.bad /\ x.left # 0 /\ x.cur # 0 /\ y.cur = NextBlock(b, x.cur)
    BY <2>1, <2>2, SaveRoundInv
  <2>4. x.cur \in 0..l
    BY <2>1 DEF SaveInv
  <2>5. Early(i, y)
    <3> SUFFICES ASSUME ~ y.bad, y.left # 0 PROVE i <= l /\ (y.cur = 0 \/ y.cur > i)
      OBVIOUS
    <3>1. x.cur > i - 1 /\ y.cur = NextBlock(b, x.cur)
      BY <2>1, <2>3
    <3> HIDE DEF n
    <3> QED
      BY <1>1, <2>4, <3>1 DEF NextBlock
  <2>6. i \in 0..n
    BY <1>1
  <2> QED
    BY <2>3, <2>5, <2>6 DEF y
<1>14. n \in S
  <2> HIDE DEF S, n
  <2>1. \A i \in 0..n : i \in S
    BY <1>1, <1>12, <1>13, CountingUp
  <2>2. n \in 0..n
    BY <1>1
  <2> QED
    BY <2>1, <2>2
<1> DEFINE z == file[n]
<1>15. SaveInv(b, z) /\ (z.bad \/ z.left = 0)
  <2>1. SaveInv(b, z) /\ Early(n, z)
    BY <1>14
  <2> HIDE DEF n, z
  <2> QED
    BY <1>1, <2>1
<1> HIDE DEF z
<1>16. CASE ~ z.bad
  <2>1. z.pos \in b.pos..b.size /\ z.left = b.size - z.pos /\ z.data = Span(b, b.pos, z.pos - b.pos)
    BY <1>15 DEF SaveInv
  <2>2. z.pos - b.pos = readSize(b) /\ readSize(b) \in 0..readSize(b)
    BY SMTT(60), <1>1, <1>15, <1>16, <2>1 DEF readSize
  <2>3. taken(b, readSize(b)) = Span(b, b.pos, readSize(b))
    BY <2>2, TakenFacts DEF Span
  <2> QED
    BY <1>10, <2>1, <2>2, <2>3 DEF z
<1> QED
  BY <1>10, <1>16 DEF z

-----------------------------------------------------------------------------
(* Every call is one of the byte stream *)

LEMMA WriteRefines ==
  ASSUME BufferInv, WriteBytes \/ WriteVarint \/ WriteFixed \/ WriteString
  PROVE  Flat!Write
<1>1. WellFormed(buf)
  BY DEF BufferInv
<1>2. PICK head \in Seq(Byte), data \in Seq(Byte) : Put(head, data)
  BY WriteStep
<1>3. /\ call'.op = "write" /\ call'.head = head /\ call'.data = data
      /\ out' = Gave(<<>>) /\ UNCHANGED trapped
      /\ \E a \in Flat!Beginnings(head), d \in Flat!Beginnings(data) :
           a \in Seq(Byte) /\ d \in Seq(Byte) /\ Stores(buf, buf', a \o d)
  BY <1>1, <1>2, PutStep
<1>4. PICK a \in Flat!Beginnings(head), d \in Flat!Beginnings(data) :
        a \in Seq(Byte) /\ d \in Seq(Byte) /\ Stores(buf, buf', a \o d)
  BY <1>3
<1>5. a \o d \in Seq(Byte) /\ Len(a \o d) = Len(a) + Len(d)
  BY <1>4, ConcatProperties
<1>6. Contents(buf') = Flat!Stored(Contents(buf), buf.pos, a \o d)
  BY <1>1, <1>4, <1>5, StoredContents
<1>7. buf'.pos = buf.pos + Len(a) + Len(d)
  <2>1. buf'.pos = buf.pos + Len(a \o d)
    BY <1>4 DEF Stores
  <2>2. buf.pos \in Nat /\ Len(a) \in Nat /\ Len(d) \in Nat
    BY <1>1, <1>4, FieldTypes
  <2> QED
    BY <1>5, <2>1, <2>2
<1>8. \E x \in Flat!Beginnings(call'.head), y \in Flat!Beginnings(call'.data) :
        /\ Contents(buf') = Flat!Stored(Contents(buf), buf.pos, x \o y)
        /\ buf'.pos = buf.pos + Len(x) + Len(y)
  BY <1>3, <1>6, <1>7, Zenon
<1> QED
  BY <1>3, <1>8, Zenon DEF Flat!Write, Contents, Gave, Flat!Gave

LEMMA LoadRefines ==
  ASSUME BufferInv, readFromFile
  PROVE  Flat!Load
<1>1. WellFormed(buf)
  BY DEF BufferInv
<1>2. /\ call'.op = "load" /\ out' = Gave(<<>>) /\ UNCHANGED trapped /\ Len(call'.data) \in Nat
      /\ \E s \in Seq(Byte) : Len(s) <= Len(call'.data) /\ Stores(buf, buf', s)
  BY <1>1, LoadStep
<1>3. PICK s \in Seq(Byte) : Len(s) <= Len(call'.data) /\ Stores(buf, buf', s)
  BY <1>2
<1>4. /\ Contents(buf') = Flat!Stored(Contents(buf), buf.pos, s)
      /\ s = SubSeq(Contents(buf'), buf.pos + 1, buf'.pos)
  BY <1>1, <1>3, StoredContents
<1>5. buf'.pos \in buf.pos..buf.pos + Len(call'.data)
  <2>1. buf'.pos = buf.pos + Len(s) /\ Len(s) \in Nat /\ buf.pos \in Nat
    BY <1>1, <1>3, FieldTypes DEF Stores
  <2> QED
    BY <1>2, <1>3, <2>1
<1>6. Contents(buf') = Flat!Stored(Contents(buf), buf.pos, SubSeq(Contents(buf'), buf.pos + 1, buf'.pos))
  BY <1>4, Zenon
<1> QED
  BY <1>2, <1>5, <1>6, Zenon DEF Flat!Load, Contents, Gave, Flat!Gave

LEMMA FillRefines ==
  ASSUME BufferInv, getWriteBuffers
  PROVE  Flat!Fill
<1>1. WellFormed(buf)
  BY DEF BufferInv
<1> DEFINE d == call'.data
           c == Contents(buf)
           e == Contents(buf')
           n == IF buf.pos + Len(d) > Len(c) THEN buf.pos + Len(d) ELSE Len(c)
           at(i) == IF i \in buf.pos + 1..buf.pos + Len(d) THEN d[i - buf.pos] ELSE c[i]
           s == Flat!Stored(c, buf.pos, d)
<1>2. /\ call'.op = "fill" /\ out' = Gave(<<>>) /\ UNCHANGED trapped
      /\ d \in Seq(Byte)
      /\ WellFormed(buf') /\ buf'.pos = buf.pos /\ buf'.size = buf.size
      /\ \A i \in 0..buf.size - 1 :
           ByteAt(buf', i) = IF buf.pos <= i /\ i < buf.pos + Len(d)
                             THEN d[i - buf.pos + 1] ELSE ByteAt(buf, i)
  BY <1>1, FillStep
<1>3. /\ c \in Seq(Byte) /\ Len(c) = buf.size /\ \A k \in 1..buf.size : c[k] = ByteAt(buf, k - 1)
      /\ e \in Seq(Byte) /\ Len(e) = buf.size
      /\ e = [k \in 1..buf.size |-> ByteAt(buf', k - 1)]
  BY <1>1, <1>2, ContentsFacts
<1>4. buf.pos \in Nat /\ buf.size \in Nat /\ Len(d) \in Nat
  BY <1>1, <1>2, FieldTypes
<1>5. s = [i \in 1..n |-> at(i)]
  BY DEF Flat!Stored
<1> HIDE DEF d, c, e, s
<1>6. ASSUME NEW k \in 1..buf.size PROVE ByteAt(buf', k - 1) = at(k)
  <2>1. /\ k - 1 \in 0..buf.size - 1 /\ (k - 1) - buf.pos + 1 = k - buf.pos
        /\ (k \in buf.pos + 1..buf.pos + Len(d)
              <=> (buf.pos <= k - 1 /\ k - 1 < buf.pos + Len(d)))
    BY <1>4
  <2> QED
    BY <1>2, <1>3, <2>1
<1>7. SubSeq(s, 1, buf.size) = e
  <2>1. n \in Nat /\ buf.size <= n
    BY <1>3, <1>4
  <2> HIDE DEF n, at
  <2>2. SubSeq(s, 1, buf.size) = [k \in 1..buf.size |-> at(k)]
    <3>1. \A k \in 1..buf.size : k \in 1..n
      BY <1>4, <2>1
    <3>2. SubSeq(s, 1, buf.size) = [k \in 1..buf.size |-> s[k]]
      BY <1>4, <1>5, <2>1
    <3>3. \A k \in 1..buf.size : s[k] = at(k)
      BY <1>5, <3>1
    <3> QED
      BY <3>2, <3>3
  <2> QED
    BY <1>3, <1>6, <2>2
<1>8. e = SubSeq(s, 1, Len(c))
  BY <1>3, <1>7
<1>9. Contents(buf') = SubSeq(Flat!Stored(Contents(buf), buf.pos, call'.data), 1, Len(Contents(buf)))
  BY <1>8, Zenon DEF c, d, e, s
<1> QED
  BY <1>2, <1>9, Zenon DEF Flat!Fill, Contents, Gave, Flat!Gave

LEMMA ReadRefines ==
  ASSUME BufferInv, read \/ readVarint \/ readStringF \/ readStringVint
  PROVE  Flat!Read \/ Flat!Throw \/ Flat!Trap
<1>1. WellFormed(buf)
  BY DEF BufferInv
<1>2. buf.pos \in Nat /\ buf.size \in Nat /\ readSize(buf) \in Nat /\ readSize(buf) = buf.size - buf.pos
  BY <1>1, FieldTypes DEF readSize
<1>3. Len(Contents(buf)) = buf.size
  BY <1>1, ContentsFacts
<1>4. ASSUME NEW n, Took(n), call'.op \in {"read", "varint", "string"}, call'.op = "read" => n = call'.n
      PROVE  Flat!Read
  <2>1. /\ n \in 0..readSize(buf) /\ buf'.pos = buf.pos + n
        /\ Contents(buf') = Contents(buf) /\ UNCHANGED trapped
        /\ out' = Gave(SubSeq(Contents(buf), buf.pos + 1, buf.pos + n))
    BY <1>1, <1>4, SameContents, TakenContents DEF Took, Advanced
  <2>2. buf'.pos \in buf.pos..Len(Contents(buf))
    BY <1>2, <1>3, <2>1
  <2>3. call'.op = "read" => buf'.pos = buf.pos + call'.n
    BY <1>4, <2>1
  <2>4. out' = Gave(SubSeq(Contents(buf), buf.pos + 1, buf'.pos))
    BY <2>1
  <2> QED
    BY <1>4, <2>1, <2>2, <2>3, <2>4, Zenon DEF Flat!Read, Contents, Gave, Flat!Gave
<1>5. ASSUME NEW n, Failed(n),
             \/ call'.op \in {"varint", "string"}
             \/ call'.op = "read" /\ n = 0 /\ call'.n > readSize(buf)
      PROVE  Flat!Throw
  <2>1. /\ n \in 0..readSize(buf) /\ buf'.pos = buf.pos + n
        /\ Contents(buf') = Contents(buf) /\ UNCHANGED trapped
        /\ out' = Thrown
    BY <1>1, <1>5, SameContents DEF Failed, Advanced
  <2>2. buf'.pos \in buf.pos..Len(Contents(buf))
    BY <1>2, <1>3, <2>1
  <2>3. \/ call'.op \in {"varint", "string"}
        \/ call'.op = "read" /\ call'.n > Len(Contents(buf)) - buf.pos /\ buf'.pos = buf.pos
    BY <1>2, <1>3, <1>5, <2>1
  <2> QED
    BY <2>1, <2>2, <2>3, Zenon DEF Flat!Throw, Contents, Thrown, Flat!Thrown
<1>6. CASE read
  <2>1. /\ call'.op = "read" /\ call'.n \in Nat
        /\ \/ Took(call'.n)
           \/ call'.n > readSize(buf) /\ Failed(0)
           \/ call'.n = 0 /\ buf.pos = buf.size /\ Traps
    BY <1>1, <1>6, ReadStep
  <2>2. CASE Took(call'.n)
    BY <1>4, <2>1, <2>2
  <2>3. CASE call'.n > readSize(buf) /\ Failed(0)
    BY <1>5, <2>1, <2>3
  <2>4. CASE call'.n = 0 /\ buf.pos = buf.size /\ Traps
    BY <1>3, <2>1, <2>4 DEF Flat!Trap, Contents, Traps
  <2> QED
    BY <2>1, <2>2, <2>3, <2>4
<1>7. CASE readVarint
  <2>1. call'.op = "varint" /\ \E n \in Nat : Took(n) \/ Failed(n)
    BY <1>1, <1>7, VarintStep
  <2> QED
    BY <1>4, <1>5, <2>1
<1>8. CASE readStringF \/ readStringVint
  <2>1. call'.op = "string" /\ ((\E n \in Nat : Took(n) \/ Failed(n)) \/ Traps)
    BY <1>1, <1>8, StringStep
  <2>2. CASE Traps
    BY <2>1, <2>2 DEF Flat!Trap, Traps
  <2> QED
    BY <1>4, <1>5, <2>1, <2>2
<1> QED
  BY <1>6, <1>7, <1>8

(* The blocks of what is left exist, so following next_ is safe.           *)
LEMMA LeftReachable ==
  ASSUME NEW b, WellFormed(b), NEW n \in 1..readSize(b)
  PROVE  /\ b.cur = b.pos \div BaseSize + 1
         /\ Reachable(b, b.cur, b.pos % BaseSize, n)
<1>1. /\ b.pos \in Nat /\ b.size \in Nat /\ b.cap \in Nat /\ b.size <= b.cap
      /\ b.cap = Capacity(Len(b.blocks)) /\ b.cur = CursorOf(Len(b.blocks), b.pos)
  BY FieldTypes
<1>2. n \in Nat /\ n # 0 /\ b.pos < b.cap /\ b.pos + (n - 1) \in 0..b.cap - 1
  BY <1>1 DEF readSize
<1>3. b.cur = b.pos \div BaseSize + 1
  BY <1>1, <1>2 DEF CursorOf
<1>4. b.cur # 0
  <2>1. b.pos \div BaseSize \in Nat
    BY <1>1, BufferAssumption, DivMod
  <2> QED
    BY <1>3, <2>1
<1>5. Cell(b.cur, b.pos % BaseSize, n - 1).block = (b.pos + (n - 1)) \div BaseSize + 1
  <2> DEFINE p == b.pos
             k == n - 1
  <2>1. p \in Nat /\ k \in Nat
    BY <1>1, <1>2
  <2> HIDE DEF p, k
  <2>2. Cell(p \div BaseSize + 1, p % BaseSize, k)
          = [block |-> (p + k) \div BaseSize + 1, offset |-> (p + k) % BaseSize]
    BY <2>1, CellOf
  <2>3. Cell(p \div BaseSize + 1, p % BaseSize, k).block = (p + k) \div BaseSize + 1
    BY <2>2
  <2> QED
    BY <1>3, <2>3, Zenon DEF p, k
<1>6. (b.pos + (n - 1)) \div BaseSize + 1 \in 1..Len(b.blocks)
  <2> DEFINE i == b.pos + (n - 1)
  <2>1. i \in 0..b.cap - 1
    BY <1>2
  <2> HIDE DEF i
  <2>2. i \div BaseSize + 1 \in 1..Len(b.blocks)
    BY <2>1, ByteAtType
  <2> QED
    BY <2>2 DEF i
<1>7. Len(b.blocks) \in Nat
  BY FieldTypes
<1>8. Reachable(b, b.cur, b.pos % BaseSize, n)
  <2> DEFINE q == Cell(b.cur, b.pos % BaseSize, n - 1).block
  <2>1. q <= Len(b.blocks)
    BY <1>5, <1>6, <1>7
  <2> QED
    BY <1>4, <2>1 DEF Reachable
<1> QED
  BY <1>3, <1>8

LEMMA PeekRefines ==
  ASSUME BufferInv, getReadBuffers \/ getReadBuffersAt \/ readAt \/ writeToFile
  PROVE  Flat!Peek \/ Flat!Throw \/ Flat!Trap
<1> DEFINE c == Contents(buf)
           left == readSize(buf)
<1>1. WellFormed(buf) /\ Fits(buf)
  BY DEF BufferInv
<1>2. /\ buf.pos \in Nat /\ buf.size \in Nat /\ left \in Nat /\ left = Len(c) - buf.pos
      /\ Len(c) = buf.size /\ c \in Seq(Byte) /\ buf.pos + left = Len(c) /\ BaseSize \in Nat \ {0}
      /\ Sizes \subseteq Nat
  <2>1. BaseSize * MaxBlocks \in Nat
    BY BufferAssumption
  <2> QED
    BY <1>1, <2>1, FieldTypes, ContentsFacts, BufferAssumption DEF readSize, Sizes
<1>3. ASSUME NEW n \in 0..left PROVE taken(buf, n) = SubSeq(c, buf.pos + 1, buf.pos + n)
  BY <1>1, <1>3, TakenContents
<1>4. ASSUME NEW n \in Nat,
             \/ call'.op = "peek"
             \/ call'.op \in {"peekAt", "readAt"} /\ call'.p = buf.pos,
             call'.n = n, Gives(buf, taken(buf, Least(n, left)))
      PROVE  Flat!Peek
  <2>1. Least(n, left) \in 0..left /\ Least(n, left) = IF n < left THEN n ELSE left
    BY <1>2 DEF Least
  <2>2. out' = Gave(SubSeq(c, buf.pos + 1, buf.pos + Least(n, left)))
    BY <1>3, <1>4, <2>1 DEF Gives
  <2>3. out' = Gave(SubSeq(c, buf.pos + 1,
                            buf.pos + IF n < Len(c) - buf.pos THEN n ELSE Len(c) - buf.pos))
    BY <1>2, <2>1, <2>2
  <2>4. UNCHANGED <<buf, trapped>>
    BY <1>4 DEF Gives
  <2>5. Contents(buf') = Contents(buf) /\ buf'.pos = buf.pos
    BY <2>4
  <2> QED
    BY <1>4, <2>3, <2>4, <2>5, Zenon DEF Flat!Peek, Contents, Gave, Flat!Gave
<1>5. ASSUME call'.op \in {"peekAt", "readAt"}, call'.p # buf.pos, UNCHANGED buf, UNCHANGED trapped
      PROVE  Flat!Peek
  <2>1. Contents(buf') = Contents(buf) /\ buf'.pos = buf.pos
    BY <1>5
  <2> QED
    BY <1>5, <2>1, Zenon DEF Flat!Peek, Contents
<1>6. CASE getReadBuffers
  <2>1. PICK n \in Sizes :
          /\ call' = [op |-> "peek", n |-> n]
          /\ Gives(buf, IF Least(n, left) = 0 THEN <<>> ELSE taken(buf, Least(n, left)))
    BY <1>6 DEF getReadBuffers
  <2>2. taken(buf, 0) = <<>>
    BY DEF taken, Gather
  <2>3. Gives(buf, taken(buf, Least(n, left))) /\ n \in Nat /\ call'.op = "peek" /\ call'.n = n
    BY <1>2, <2>1, <2>2
  <2> HIDE DEF c, left
  <2> QED
    BY <1>4, <2>3
<1>7. CASE getReadBuffersAt
  <2>1. PICK n \in Sizes, p \in Sizes :
          LET len == Least(n, left)
              b == p \div BaseSize + 1
          IN /\ call' = [op |-> "peekAt", n |-> n, p |-> p]
             /\ IF len = 0 THEN Gives(buf, <<>>)
                ELSE IF Reachable(buf, b, p % BaseSize, len)
                     THEN Gives(buf, Gather(buf, b, p % BaseSize, len))
                ELSE Traps
    BY <1>7 DEF getReadBuffersAt
  <2>2. call'.op = "peekAt" /\ call'.n = n /\ call'.p = p /\ n \in Nat
    BY <1>2, <2>1
  <2>3. CASE p # buf.pos
    BY <1>5, <2>1, <2>2, <2>3 DEF Flat!Trap, Gives, Traps
  <2>4. CASE p = buf.pos /\ Least(n, left) = 0
    <3>1. taken(buf, 0) = <<>>
      BY DEF taken, Gather
    <3>2. Gives(buf, taken(buf, Least(n, left)))
      BY <2>1, <2>4, <3>1
    <3> HIDE DEF c, left
    <3> QED
      BY <1>4, <2>2, <2>4, <3>2
  <2>5. CASE p = buf.pos /\ Least(n, left) # 0
    <3>1. Least(n, left) \in 1..left
      BY <1>2, <2>2, <2>5 DEF Least
    <3>2. buf.cur = p \div BaseSize + 1 /\ Reachable(buf, buf.cur, p % BaseSize, Least(n, left))
      BY <1>1, <2>5, <3>1, LeftReachable
    <3>3. Gives(buf, Gather(buf, buf.cur, p % BaseSize, Least(n, left)))
      BY <2>1, <2>5, <3>2
    <3>4. Gives(buf, taken(buf, Least(n, left)))
      BY <2>5, <3>3 DEF taken
    <3> HIDE DEF c, left
    <3> QED
      BY <1>4, <2>2, <2>5, <3>4
  <2> QED
    BY <2>3, <2>4, <2>5
<1>8. CASE readAt
  <2>1. PICK n \in Sizes, p \in Sizes :
          /\ call' = [op |-> "readAt", n |-> n, p |-> p]
          /\ IF n > left THEN Throws(buf)
             ELSE \/ /\ n = 0 \/ Reachable(buf, buf.cur, p % BaseSize, n)
                     /\ Gives(buf, Gather(buf, buf.cur, p % BaseSize, n))
                  \/ /\ ~Reachable(buf, buf.cur, p % BaseSize, n)
                     /\ Traps
    BY <1>8 DEF readAt
  <2>2. call'.op = "readAt" /\ call'.n = n /\ call'.p = p /\ n \in Nat
    BY <1>2, <2>1
  <2>3. CASE n > left
    <3>1. out' = Thrown /\ UNCHANGED <<buf, trapped>>
      BY <2>1, <2>3 DEF Throws
    <3>2. Contents(buf') = Contents(buf) /\ buf'.pos = buf.pos
      BY <3>1
    <3>3. call'.n > Len(c) - buf.pos
      BY <1>2, <2>2, <2>3
    <3> QED
      BY <2>2, <3>1, <3>2, <3>3, Zenon DEF Flat!Throw, Contents, Thrown, Flat!Thrown
  <2>4. CASE ~ (n > left) /\ p # buf.pos
    BY <1>5, <2>1, <2>2, <2>4 DEF Flat!Trap, Gives, Traps
  <2>5. CASE ~ (n > left) /\ p = buf.pos /\ Gives(buf, Gather(buf, buf.cur, p % BaseSize, n))
    <3>1. n = Least(n, left)
      BY <1>2, <2>2, <2>5 DEF Least
    <3>2. Gives(buf, taken(buf, n))
      BY <2>5 DEF taken
    <3>3. Gives(buf, taken(buf, Least(n, left)))
      BY <3>1, <3>2
    <3> HIDE DEF c, left
    <3> QED
      BY <1>4, <2>2, <2>5, <3>3
  <2>6. CASE ~ (n > left) /\ p = buf.pos /\ ~Reachable(buf, buf.cur, p % BaseSize, n) /\ Traps
    <3>1. n = 0
      <4>1. n \in 1..left => Reachable(buf, buf.cur, p % BaseSize, n)
        BY <1>1, <2>6, LeftReachable
      <4> QED
        BY <1>2, <2>2, <2>6, <4>1
    <3>2. buf.cur = 0
      BY <2>6, <3>1 DEF Reachable
    <3>3. buf.pos = Len(c)
      BY <1>1, <1>2, <3>2, AtTheEnd
    <3> QED
      BY <2>2, <2>6, <3>1, <3>3, Zenon DEF Flat!Trap, Contents, Traps
  <2> QED
    BY <2>1, <2>3, <2>4, <2>5, <2>6
<1>9. CASE writeToFile
  <2>1. /\ call'.op = "save"
        /\ IF Saved(buf).bad THEN Traps ELSE Gives(buf, Saved(buf).data)
    BY <1>9 DEF writeToFile
  <2>2. CASE Saved(buf).bad
    BY <2>1, <2>2 DEF Flat!Trap, Traps
  <2>3. CASE ~ Saved(buf).bad
    <3>1. Saved(buf).data = taken(buf, left)
      BY <1>1, <2>3, SavedFacts
    <3>2. taken(buf, left) = SubSeq(c, buf.pos + 1, Len(c))
      <4>1. left \in 0..left
        BY <1>2
      <4>2. taken(buf, left) = SubSeq(c, buf.pos + 1, buf.pos + left)
        BY <1>3, <4>1
      <4> QED
        BY <1>2, <4>2
    <3>3. out' = Gave(SubSeq(c, buf.pos + 1, Len(c))) /\ UNCHANGED <<buf, trapped>>
      BY <2>1, <2>3, <3>1, <3>2 DEF Gives
    <3>4. Contents(buf') = Contents(buf) /\ buf'.pos = buf.pos
      BY <3>3
    <3> QED
      BY <2>1, <3>3, <3>4, Zenon DEF Flat!Peek, Contents, Gave, Flat!Gave
  <2> QED
    BY <2>2, <2>3
<1> QED
  BY <1>6, <1>7, <1>8, <1>9

LEMMA SeekRefines ==
  ASSUME BufferInv, SetPosition
  PROVE  Flat!Seek \/ Flat!Throw
<1> DEFINE c == Contents(buf)
           e == Contents(buf')
<1>1. WellFormed(buf)
  BY DEF BufferInv
<1>2. /\ buf.pos \in Nat /\ buf.size \in Nat /\ buf.cap \in Nat /\ buf.size <= buf.cap
      /\ c \in Seq(Byte) /\ Len(c) = buf.size /\ \A k \in 1..buf.size : c[k] = ByteAt(buf, k - 1)
  BY <1>1, FieldTypes, ContentsFacts
<1>3. /\ call'.op = "seek" /\ call'.n \in Nat /\ UNCHANGED trapped
      /\ \/ call'.n > buf.cap /\ Throws(buf)
         \/ /\ call'.n \in 0..buf.cap /\ out' = Gave(<<>>)
            /\ WellFormed(buf') /\ buf'.blocks = buf.blocks /\ buf'.pos = call'.n
            /\ buf'.size = Greatest(buf.size, call'.n)
  BY <1>1, SeekStep
<1>4. CASE call'.n > buf.cap /\ Throws(buf)
  <2>1. out' = Thrown /\ UNCHANGED <<buf, trapped>>
    BY <1>4 DEF Throws
  <2>2. Contents(buf') = Contents(buf) /\ buf'.pos = buf.pos
    BY <2>1
  <2>3. call'.n > Len(c)
    BY <1>2, <1>3, <1>4
  <2> QED
    BY <1>3, <2>1, <2>2, <2>3, Zenon DEF Flat!Throw, Contents, Thrown, Flat!Thrown
<1>5. CASE /\ call'.n \in 0..buf.cap /\ out' = Gave(<<>>)
           /\ WellFormed(buf') /\ buf'.blocks = buf.blocks /\ buf'.pos = call'.n
           /\ buf'.size = Greatest(buf.size, call'.n)
  <2>1. /\ e \in Seq(Byte) /\ Len(e) = buf'.size
        /\ \A k \in 1..buf'.size : e[k] = ByteAt(buf', k - 1)
    BY <1>5, ContentsFacts
  <2>2. buf'.size \in Nat /\ buf.size <= buf'.size
        /\ buf'.size = IF buf'.pos > Len(c) THEN buf'.pos ELSE Len(c)
    BY <1>2, <1>3, <1>5 DEF Greatest
  <2>3. \A k \in 1..buf.size : e[k] = c[k]
    <3>1. \A k \in 1..buf.size : k \in 1..buf'.size
      BY <1>2, <2>2
    <3>2. \A i : ByteAt(buf', i) = ByteAt(buf, i)
      BY <1>5 DEF ByteAt
    <3> QED
      BY <1>2, <2>1, <3>1, <3>2
  <2>4. SubSeq(e, 1, Len(c)) = c
    <3> DEFINE s == SubSeq(e, 1, Len(c))
    <3> HIDE DEF c, e
    <3>1. s = [k \in 1..Len(c) |-> e[k]]
      BY <1>2, <2>1, <2>2
    <3>2. c = [k \in 1..Len(c) |-> c[k]]
      BY <1>2
    <3>3. s = c
      BY <1>2, <2>3, <3>1, <3>2
    <3> QED
      BY <3>3
  <2>5. Len(e) = IF buf'.pos > Len(c) THEN buf'.pos ELSE Len(c)
    BY <2>1, <2>2
  <2> QED
    BY <1>3, <1>5, <2>1, <2>4, <2>5, Zenon DEF Flat!Seek, Contents, Gave, Flat!Gave
<1> QED
  BY <1>3, <1>4, <1>5

LEMMA ClearRefines ==
  ASSUME BufferInv, Clear
  PROVE  Flat!Clear
<1>1. WellFormed(buf)
  BY DEF BufferInv
<1>2. /\ call' = [op |-> "clear"] /\ buf' = clear(buf) /\ out' = Gave(<<>>) /\ UNCHANGED trapped
  BY DEF Clear
<1>3. buf'.pos = 0 /\ buf'.size = 0
  BY <1>1, <1>2, ClearFacts
<1>4. Contents(buf') = <<>>
  BY <1>3 DEF Contents, Gather
<1>5. call'.op = "clear"
  BY <1>2
<1> QED
  BY <1>2, <1>3, <1>4, <1>5, Zenon DEF Flat!Clear, Contents, Gave, Flat!Gave

LEMMA OrderRefines ==
  ASSUME BufferInv, setIsLittleEndian
  PROVE  Flat!Order
<1>1. WellFormed(buf)
  BY DEF BufferInv
<1>2. /\ call'.op = "endian" /\ out' = Gave(<<>>) /\ UNCHANGED trapped
      /\ buf'.blocks = buf.blocks /\ buf'.pos = buf.pos /\ buf'.size = buf.size
  BY <1>1, OrderStep
<1>3. Contents(buf') = Contents(buf)
  BY <1>2, SameContents
<1> QED
  BY <1>2, <1>3, Zenon DEF Flat!Order, Contents, Gave, Flat!Gave

LEMMA InitRefines == Init => Flat!Init
<1> SUFFICES ASSUME Init PROVE Flat!Init
  OBVIOUS
<1>1. WellFormed(buf)
  BY InvInit DEF BufferInv
<1>2. Contents(buf) \in Seq(Byte)
  BY <1>1, ContentsFacts
<1>3. buf.pos = 0
  <2>1. \A block, n : RootOnly(block, n).pos = 0
    BY DEF RootOnly
  <2> HIDE DEF RootOnly
  <2> QED
    BY <2>1, Zenon DEF Init
<1>4. call = [op |-> "none"] /\ out = Gave(<<>>) /\ trapped = FALSE
  BY DEF Init
<1> QED
  BY <1>2, <1>3, <1>4, Zenon DEF Flat!Init, Contents, Gave, Flat!Gave

LEMMA StutterRefines == UNCHANGED vars => UNCHANGED Flat!vars
<1> SUFFICES ASSUME UNCHANGED vars PROVE UNCHANGED Flat!vars
  OBVIOUS
<1>1. /\ buf' = buf /\ call' = call /\ out' = out /\ trapped' = trapped
  BY DEF vars
<1>2. Contents(buf') = Contents(buf) /\ buf'.pos = buf.pos
  BY <1>1
<1> QED
  BY <1>1, <1>2, Zenon DEF Flat!vars, Contents

LEMMA NextRefines == BufferInv /\ [Next]_vars => [Flat!Next]_(Flat!vars)
<1> SUFFICES ASSUME BufferInv, [Next]_vars PROVE [Flat!Next]_(Flat!vars)
  OBVIOUS
<1>1. UNCHANGED vars => UNCHANGED Flat!vars
  BY StutterRefines
<1>2. CASE UNCHANGED vars
  BY <1>1, <1>2
<1>3. CASE Dead
  BY <1>1, <1>3 DEF Dead
<1>4. CASE ~ trapped /\ Next /\ ~ Dead
  <2>1. ASSUME \/ Flat!Write \/ Flat!Load \/ Flat!Fill \/ Flat!Read \/ Flat!Peek \/ Flat!Seek
               \/ Flat!Clear \/ Flat!Order \/ Flat!Throw \/ Flat!Trap
        PROVE  Flat!Next
    BY <1>4, <2>1 DEF Flat!Next
  <2>2. CASE WriteBytes \/ WriteVarint \/ WriteFixed \/ WriteString
    BY <2>1, <2>2, WriteRefines
  <2>3. CASE readFromFile
    BY <2>1, <2>3, LoadRefines
  <2>4. CASE getWriteBuffers
    BY <2>1, <2>4, FillRefines
  <2>5. CASE read \/ readVarint \/ readStringF \/ readStringVint
    BY <2>1, <2>5, ReadRefines
  <2>6. CASE getReadBuffers \/ getReadBuffersAt \/ readAt \/ writeToFile
    BY <2>1, <2>6, PeekRefines
  <2>7. CASE SetPosition
    BY <2>1, <2>7, SeekRefines
  <2>8. CASE Clear
    BY <2>1, <2>8, ClearRefines
  <2>9. CASE setIsLittleEndian
    BY <2>1, <2>9, OrderRefines
  <2> QED
    BY <1>4, <2>2, <2>3, <2>4, <2>5, <2>6, <2>7, <2>8, <2>9 DEF Next
<1> QED
  BY <1>2, <1>3, <1>4 DEF Next

(***************************************************************************)
(* The blocks, their growth and the cursor into them cannot be told from   *)
(* one sequence of bytes with an offset: every call of the code does to    *)
(* its blocks what the call of the byte stream does to the bytes.          *)
(***************************************************************************)
THEOREM Implements == Spec => Refines
  BY InitRefines, NextRefines, InvCorrect, PTL DEF Spec, Refines, Flat!Spec

-----------------------------------------------------------------------------
(* Numbers are read back *)

(* One more digit, in base B, of the number that P counts the lower ones of. *)
LEMMA Digit ==
  ASSUME NEW v \in Nat, NEW B \in Nat \ {0}, NEW P \in Nat \ {0}
  PROVE  (v % P) + ((v \div P) % B) * P = v % (B * P)
<1> DEFINE r == v % P
           q == v \div P
           d == q % B
           t == q \div B
<1>1. r \in 0..P - 1 /\ q \in Nat /\ v = P * q + r
  BY DivMod
<1> HIDE DEF r, q
<1>2. d \in 0..B - 1 /\ t \in Nat /\ q = B * t + d
  BY <1>1, DivMod
<1> HIDE DEF d, t
<1>3. v = (B * P) * t + (d * P + r)
  <2>1. P * (B * t + d) = (B * P) * t + d * P
    BY <1>2
  <2>2. d * P \in Int /\ (B * P) * t \in Int
    BY <1>2
  <2> QED
    BY <1>1, <1>2, <2>1, <2>2
<1>4. B * P \in Nat \ {0} /\ d * P + r \in 0..B * P - 1
  <2> DEFINE e == B - 1 - d
  <2>1. e \in Nat /\ d = B - 1 - e
    BY <1>2
  <2> HIDE DEF e
  <2>2. d * P = B * P - P - e * P /\ e * P \in Nat /\ d * P \in Nat /\ B * P \in Nat
    BY <1>2, <2>1
  <2> DEFINE x == d * P
             y == e * P
             z == B * P
  <2>3. x = z - P - y /\ y \in Nat /\ x \in Nat /\ z \in Nat
    BY <2>2
  <2> HIDE DEF x, y, z
  <2>4. z \in Nat \ {0} /\ x + r \in 0..z - 1
    BY <1>1, <2>3
  <2> QED
    BY <2>4 DEF x, z
<1>5. ((B * P) * t + (d * P + r)) % (B * P) = d * P + r
  <2> DEFINE x == d * P + r
             z == B * P
  <2>1. z \in Nat \ {0} /\ x \in 0..z - 1
    BY <1>4
  <2> HIDE DEF x, z
  <2>2. (z * t + x) % z = x
    BY <1>2, <2>1, DivModUnique
  <2> QED
    BY <2>2 DEF x, z
<1>6. v % (B * P) = d * P + r
  BY <1>3, <1>5
<1>7. r + d * P = d * P + r
  <2>1. d * P \in Int
    BY <1>2
  <2> QED
    BY <1>1, <2>1
<1> QED
  BY <1>6, <1>7 DEF r, d, q

LEMMA SmallRemainder ==
  ASSUME NEW m \in Nat \ {0}, NEW x \in Nat
  PROVE  /\ x % m <= x /\ x % m \in Nat
         /\ x < m => x % m = x
         /\ x % 1 = 0
  OBVIOUS

(* Seen as a number, n bytes of a number hold its value modulo their range. *)
LEMMA HostRoundTrip ==
  ASSUME NEW v \in Nat, NEW n \in Nat
  PROVE  HostValue(HostBytes(v, n)) = v % Power(2 * Group, n)
<1> DEFINE s == HostBytes(v, n)
<1>1. s \in Seq(Byte) /\ Len(s) = n
  BY HostBytesType
<1>2. \A i \in 1..n : s[i] = (v \div ByteWeight(i)) % (2 * Group)
  BY DEF HostBytes, ByteWeight
<1> HIDE DEF s
<1>3. PICK h \in [0..n -> Nat] : HostSums(h, s) /\ HostValue(s) = h[n]
  BY <1>1, HostLoop
<1>4. h[0] = 0 /\ \A i \in 1..n : h[i] = h[i - 1] + s[i] * ByteWeight(i)
  BY <1>1, <1>3 DEF HostSums
<1> DEFINE S == {i \in 0..n : h[i] = v % ByteWeight(i + 1)}
<1>5. 0 \in S
  <2>1. ByteWeight(1) = 1 /\ 0 + 1 = 1
    BY Weights
  <2>2. v % 1 = 0
    BY SmallRemainder
  <2>3. h[0] = v % ByteWeight(0 + 1)
    BY <1>4, <2>1, <2>2
  <2> QED
    BY <2>3
<1>6. ASSUME NEW i \in 1..n, i - 1 \in S PROVE i \in S
  <2> DEFINE P == ByteWeight(i)
             B == 2 * Group
  <2>1. i \in Nat \ {0} /\ (i - 1) + 1 = i
    OBVIOUS
  <2>2. P \in Nat \ {0} /\ ByteWeight(i + 1) = B * P /\ B \in Nat \ {0}
    <3>1. B \in Nat \ {0}
      BY Numerals
    <3>2. P \in Nat \ {0} /\ ByteWeight(i + 1) = B * P
      BY <2>1, Weights, Zenon
    <3> QED
      BY <3>1, <3>2
  <2>3. h[i - 1] = v % P
    BY <1>6, <2>1
  <2>4. h[i] = h[i - 1] + ((v \div P) % B) * P
    BY <1>2, <1>4
  <2> HIDE DEF P, B
  <2>5. (v % P) + ((v \div P) % B) * P = v % (B * P)
    BY <2>2, Digit
  <2>6. h[i] = v % ByteWeight(i + 1)
    BY <2>2, <2>3, <2>4, <2>5
  <2> QED
    BY <2>6
<1>7. n \in S
  <2> HIDE DEF S
  <2>1. \A i \in 0..n : i \in S
    BY <1>5, <1>6, CountingUp
  <2> QED
    BY <2>1
<1>8. ByteWeight(n + 1) = Power(2 * Group, n)
  <2>1. (n + 1) - 1 = n
    OBVIOUS
  <2> QED
    BY <2>1 DEF ByteWeight
<1> QED
  BY <1>3, <1>7, <1>8 DEF s

(* A number is what its varint code is decoded to. *)
LEMMA VarintRoundTrip ==
  ASSUME NEW v \in Word
  PROVE  DecodeVarint(EncodeVarint(v)) = v
<1> DEFINE s == EncodeVarint(v)
           n == Groups(v)
<1>1. s \in Seq(Byte) /\ Len(s) = n /\ n \in Nat /\ v \in Nat /\ v < 2 * Half
      /\ Group \in Nat \ {0} /\ 2 * Half \in Nat \ {0}
  BY EncodeVarintType, GroupsFacts, Numerals, BufferAssumption DEF Word
<1>2. ASSUME NEW i \in 1..n PROVE s[i] % Group = (v \div GroupWeight(i)) % Group
  <2> DEFINE x == v \div GroupWeight(i)
             y == x % Group
  <2>1. x \in Nat
    <3>1. i \in Nat \ {0}
      BY <1>1
    <3>2. GroupWeight(i) \in Nat \ {0}
      BY <3>1, Weights
    <3> QED
      BY <1>1, <3>2, DivMod
  <2>2. s[i] = y \/ s[i] = y + Group
    <3>1. s[i] = y + (IF i < n THEN Group ELSE 0)
      BY DEF EncodeVarint, GroupWeight
    <3> HIDE DEF s, x, n
    <3>2. y \in Nat
      BY <1>1, <2>1, Remainder
    <3> HIDE DEF y
    <3> QED
      BY <3>1, <3>2
  <2> HIDE DEF x, s
  <2>3. y \in 0..Group - 1
    BY <1>1, <2>1, Remainder
  <2> DEFINE B == Group
  <2>4. B \in Nat \ {0} /\ y \in 0..B - 1 /\ (s[i] = y \/ s[i] = y + B)
    BY <1>1, <2>2, <2>3
  <2> HIDE DEF y, B
  <2>5. (B * 0 + y) % B = y /\ (B * 1 + y) % B = y
    BY <2>4, DivModUnique
  <2>6. B * 0 + y = y /\ B * 1 + y = y + B
    BY <2>4
  <2>7. s[i] % B = y
    BY <2>4, <2>5, <2>6
  <2> QED
    BY <2>7 DEF y, x, B
<1> HIDE DEF s
<1>3. PICK h \in [0..n -> Word] : VarintSums(h, s) /\ DecodeVarint(s) = h[n]
  BY <1>1, VarintLoop
<1>4. h[0] = 0 /\ \A i \in 1..n :
        h[i] = (h[i - 1] + ((v \div GroupWeight(i)) % Group) * GroupWeight(i)) % (2 * Half)
  BY <1>1, <1>2, <1>3 DEF VarintSums
<1> HIDE DEF n
<1> DEFINE S == {i \in 0..n : h[i] = v % GroupWeight(i + 1)}
<1>5. 0 \in S
  <2>1. GroupWeight(1) = 1 /\ 0 + 1 = 1
    BY Weights
  <2>2. v % 1 = 0
    BY <1>1, SmallRemainder
  <2>3. h[0] = v % GroupWeight(0 + 1)
    BY <1>4, <2>1, <2>2
  <2> QED
    BY <1>1, <2>3
<1>6. ASSUME NEW i \in 1..n, i - 1 \in S PROVE i \in S
  <2> DEFINE P == GroupWeight(i)
             B == Group
             m == 2 * Half
  <2>1. i \in Nat \ {0} /\ (i - 1) + 1 = i
    BY <1>1
  <2>2. P \in Nat \ {0} /\ GroupWeight(i + 1) = B * P /\ B \in Nat \ {0} /\ B * P \in Nat \ {0}
        /\ m \in Nat \ {0} /\ v < m
    <3>1. P \in Nat \ {0} /\ GroupWeight(i + 1) = B * P
      BY <2>1, Weights, Zenon
    <3>2. i + 1 \in Nat \ {0}
      BY <2>1
    <3>3. GroupWeight(i + 1) \in Nat \ {0}
      BY <3>2, Weights
    <3>4. B * P \in Nat \ {0}
      BY <3>1, <3>3
    <3> QED
      BY <1>1, <3>1, <3>4
  <2>3. h[i - 1] = v % P
    BY <1>6, <2>1
  <2>4. h[i] = (h[i - 1] + ((v \div P) % B) * P) % m
    BY <1>4
  <2> HIDE DEF P, B, m
  <2>5. (v % P) + ((v \div P) % B) * P = v % (B * P)
    BY <1>1, <2>2, Digit
  <2>6. h[i] = (v % (B * P)) % m
    BY <2>3, <2>4, <2>5
  <2> DEFINE x == v % (B * P)
  <2>7. x <= v /\ x \in Nat
    BY <1>1, <2>2, SmallRemainder
  <2> HIDE DEF x
  <2>8. x % m = x
    BY <1>1, <2>2, <2>7, SmallRemainder
  <2>9. h[i] = v % GroupWeight(i + 1)
    BY <2>2, <2>6, <2>8 DEF x
  <2> QED
    BY <2>9
<1>7. n \in S
  <2> HIDE DEF S
  <2>1. \A i \in 0..n : i \in S
    BY <1>1, <1>5, <1>6, CountingUp
  <2> QED
    BY <1>1, <2>1
<1>8. GroupWeight(n + 1) = Power(Group, n)
  <2>1. (n + 1) - 1 = n
    BY <1>1
  <2> QED
    BY <2>1 DEF GroupWeight
<1>9. v % Power(Group, n) = v
  <2> DEFINE m == Power(Group, n)
  <2>1. m \in Nat \ {0} /\ v < m
    BY <1>1, GroupsFacts, PowerFacts DEF n
  <2> HIDE DEF m
  <2>2. v % m = v
    BY <1>1, <2>1, SmallRemainder
  <2> QED
    BY <2>2 DEF m
<1> QED
  BY <1>3, <1>7, <1>8, <1>9 DEF s

(* The zigzag code is a word, and every signed word is decoded from it. *)
LEMMA ZigzagRoundTrip ==
  ASSUME NEW v \in SignedWord
  PROVE  EncodeZigzag(v) \in Word /\ DecodeZigzag(EncodeZigzag(v)) = v
<1> DEFINE H == Half
<1>1. H \in Nat \ {0} /\ v \in -H..H - 1 /\ v \in Int
  BY Numerals DEF SignedWord
<1>2. ASSUME NEW x \in 0..2 * H - 1 PROVE x % (2 * H) = x
  <2> DEFINE m == 2 * H
  <2>1. m \in Nat \ {0} /\ x \in Nat /\ x < m
    BY <1>1
  <2> HIDE DEF m
  <2>2. x % m = x
    BY <2>1, SmallRemainder
  <2> QED
    BY <2>2 DEF m
<1>3. CASE v < 0
  <2> DEFINE k == -v
  <2>1. k \in 1..H /\ v = -k /\ k \in 0..2 * H - 1 /\ 2 * k - 1 \in 0..2 * H - 1
    BY <1>1, <1>3
  <2>2. EncodeZigzag(v) = 2 * k - 1
    <3>1. EncodeZigzag(v) = (2 * (k % (2 * H)) - 1) % (2 * H)
      BY <1>3 DEF EncodeZigzag
    <3>2. k % (2 * H) = k
      BY <1>2, <2>1
    <3> HIDE DEF k
    <3> DEFINE x == 2 * k - 1
    <3>3. x \in 0..2 * H - 1
      BY <2>1
    <3> HIDE DEF x
    <3>4. x % (2 * H) = x
      BY <1>2, <3>3
    <3> QED
      BY <3>1, <3>2, <3>4 DEF x
  <2> HIDE DEF k
  <2>3. (2 * k - 1) \div 2 = k - 1 /\ (2 * k - 1) % 2 = 1
    BY <2>1
  <2>4. DecodeZigzag(2 * k - 1) = (2 * H - 1 - (k - 1)) - 2 * H
    <3>1. 2 * H - 1 - (k - 1) >= H
      BY <1>1, <2>1
    <3> QED
      BY <2>3, <3>1 DEF DecodeZigzag
  <2>5. (2 * H - 1 - (k - 1)) - 2 * H = v
    BY <1>1, <2>1
  <2> QED
    BY <2>1, <2>2, <2>4, <2>5 DEF Word
<1>4. CASE ~ (v < 0)
  <2>1. v \in 0..H - 1 /\ v * 2 \in 0..2 * H - 1
    BY <1>1, <1>4
  <2> DEFINE x == v * 2
  <2>2. EncodeZigzag(v) = x % (2 * H)
    BY <1>4 DEF EncodeZigzag
  <2>3. x \in 0..2 * H - 1
    BY <2>1
  <2> HIDE DEF x
  <2>4. EncodeZigzag(v) = x
    BY <1>2, <2>2, <2>3
  <2>5. x \div 2 = v /\ x % 2 = 0
    BY <2>1 DEF x
  <2>6. DecodeZigzag(x) = v
    <3>1. ~ (v >= H)
      BY <1>1, <2>1
    <3> QED
      BY <2>5, <3>1 DEF DecodeZigzag
  <2> QED
    BY <2>3, <2>4, <2>6 DEF Word
<1> QED
  BY <1>3, <1>4

LEMMA PowerPlus ==
  ASSUME NEW a \in Nat \ {0}, NEW m \in Nat, NEW n \in Nat
  PROVE  Power(a, m + n) = Power(a, m) * Power(a, n)
<1> DEFINE S == {i \in 0..n : Power(a, m + i) = Power(a, m) * Power(a, i)}
<1>1. Power(a, 0) = 1 /\ \A i \in Nat : Power(a, i) \in Nat \ {0} /\ Power(a, i + 1) = a * Power(a, i)
  BY PowerFacts
<1>2. 0 \in S
  <2>1. Power(a, m) \in Nat /\ m + 0 = m
    BY <1>1
  <2>2. Power(a, m + 0) = Power(a, m) * Power(a, 0)
    BY <1>1, <2>1
  <2> QED
    BY <2>2
<1>3. ASSUME NEW i \in 1..n, i - 1 \in S PROVE i \in S
  <2> DEFINE j == i - 1
  <2>1. j \in Nat /\ i = j + 1 /\ m + i = (m + j) + 1 /\ m + j \in Nat
    BY <1>3
  <2>2. Power(a, m + j) = Power(a, m) * Power(a, j)
    BY <1>3
  <2> HIDE DEF j
  <2>3. Power(a, m + i) = a * (Power(a, m) * Power(a, j)) /\ Power(a, i) = a * Power(a, j)
    BY <1>1, <2>1, <2>2
  <2>4. \A x, y \in Nat : a * (x * y) = x * (a * y)
    OBVIOUS
  <2>5. Power(a, m) \in Nat /\ Power(a, j) \in Nat
    BY <1>1, <2>1
  <2>6. Power(a, m + i) = Power(a, m) * Power(a, i)
    BY <2>3, <2>4, <2>5
  <2> QED
    BY <2>6
<1>4. n \in S
  <2> HIDE DEF S
  <2>1. \A i \in 0..n : i \in S
    BY <1>2, <1>3, CountingUp
  <2> QED
    BY <2>1
<1> QED
  BY <1>4

LEMMA PowerTimes ==
  ASSUME NEW a \in Nat \ {0}, NEW g \in Nat, NEW n \in Nat
  PROVE  Power(Power(a, g), n) = Power(a, g * n)
<1> DEFINE c == Power(a, g)
           S == {i \in 0..n : Power(c, i) = Power(a, g * i)}
<1>1. c \in Nat \ {0} /\ Power(a, 0) = 1
  BY PowerFacts
<1> HIDE DEF c
<1>2. Power(c, 0) = 1 /\ \A i \in Nat : Power(c, i + 1) = c * Power(c, i)
  BY <1>1, PowerFacts
<1>3. 0 \in S
  <2>1. g * 0 = 0
    OBVIOUS
  <2> QED
    BY <1>1, <1>2, <2>1
<1>4. ASSUME NEW i \in 1..n, i - 1 \in S PROVE i \in S
  <2> DEFINE j == i - 1
  <2>1. j \in Nat /\ i = j + 1
    BY <1>4
  <2>2. Power(c, j) = Power(a, g * j)
    BY <1>4
  <2> HIDE DEF j
  <2>3. Power(c, i) = c * Power(c, j)
    BY <1>2, <2>1
  <2>4. g * i = g + g * j /\ g * j \in Nat
    BY <2>1
  <2>5. Power(a, g + g * j) = Power(a, g) * Power(a, g * j)
    BY <2>4, PowerPlus
  <2>6. Power(c, i) = Power(a, g * i)
    BY <2>2, <2>3, <2>4, <2>5 DEF c
  <2> QED
    BY <2>6
<1>5. n \in S
  <2> HIDE DEF S
  <2>1. \A i \in 0..n : i \in S
    BY <1>3, <1>4, CountingUp
  <2> QED
    BY <2>1
<1> QED
  BY <1>5 DEF c

(* The loop of readUint32 goes far enough for every number.                *)
LEMMA GroupsBound ==
  ASSUME NEW v \in Word
  PROVE  Groups(v) \in 1..MaxGroups /\ MaxGroups \in Nat
<1> DEFINE W == WidthBits
           g == GroupBits
           M == MaxGroups
<1>1. W \in Nat \ {0} /\ g \in Nat \ {0} /\ v \in Nat /\ 2 \in Nat \ {0}
  BY BufferAssumption, Numerals DEF Word
<1>2. M \in Nat \ {0} /\ M * g >= W
  <2>1. M = (W + g - 1) \div g
    BY DEF MaxGroups
  <2> HIDE DEF W, g, M
  <2>2. (W + g - 1) \div g \in Nat \ {0} /\ ((W + g - 1) \div g) * g >= W
    BY <1>1, RoundUp
  <2> QED
    BY <2>1, <2>2
<1>3. Power(Group, M) = Power(2, g * M)
  BY <1>1, <1>2, PowerTimes DEF Group
<1>4. Power(2, W) <= Power(2, g * M)
  <2> DEFINE e == g * M - W
  <2>1. e \in Nat /\ g * M = W + e
    <3>1. g * M = M * g
      BY <1>1, <1>2
    <3>2. M * g \in Nat
      BY <1>1, <1>2
    <3> DEFINE x == M * g
    <3>3. x \in Nat /\ x >= W /\ e = x - W
      BY <1>2, <3>1, <3>2
    <3> HIDE DEF x, W, g, M, e
    <3>4. e \in Nat /\ x = W + e
      BY <1>1, <3>3
    <3> QED
      BY <3>1, <3>4 DEF x
  <2> HIDE DEF e
  <2>2. Power(2, W + e) = Power(2, W) * Power(2, e)
    BY <1>1, <2>1, PowerPlus
  <2>3. Power(2, W) \in Nat \ {0} /\ Power(2, e) \in Nat \ {0}
    BY <1>1, <2>1, PowerFacts
  <2>4. \A x, y \in Nat \ {0} : x <= x * y
    <3>1. ASSUME NEW x \in Nat \ {0}, NEW y \in Nat \ {0} PROVE x <= x * y
      <4> DEFINE z == y - 1
      <4>1. z \in Nat /\ y = z + 1
        OBVIOUS
      <4> HIDE DEF z
      <4>2. x * (z + 1) = x * z + x /\ x * z \in Nat
        BY <4>1
      <4> QED
        BY <4>1, <4>2
    <3> QED
      BY <3>1
  <2>5. Power(2, W) <= Power(2, W) * Power(2, e)
    BY <2>3, <2>4
  <2> QED
    BY <2>1, <2>2, <2>5
<1>5. Power(2, W) = 2 * Half
  <2> DEFINE j == W - 1
  <2>1. j \in Nat /\ W = j + 1
    BY <1>1
  <2>2. Half = Power(2, j)
    BY DEF Half
  <2> HIDE DEF j
  <2>3. Power(2, j + 1) = 2 * Power(2, j)
    BY <1>1, <2>1, PowerFacts
  <2> QED
    BY <2>1, <2>2, <2>3
<1>6. v < Power(Group, M)
  <2>1. 2 * Half \in Nat /\ v < 2 * Half
    BY Numerals DEF Word
  <2>2. Power(Group, M) \in Nat
    BY <1>2, Numerals, PowerFacts
  <2> QED
    BY <1>1, <1>3, <1>4, <1>5, <2>1, <2>2
<1>7. /\ Groups(v) \in 1..WidthBits
      /\ \A k \in 1..Groups(v) - 1 : v >= Power(Group, k)
  BY GroupsFacts
<1>8. M \notin 1..Groups(v) - 1
  <2>1. Power(Group, M) \in Nat
    BY <1>2, Numerals, PowerFacts
  <2> QED
    BY <1>1, <1>6, <1>7, <2>1
<1> QED
  BY <1>1, <1>2, <1>7, <1>8

(* What was written without being cut off is what is taken.                *)
LEMMA BackFacts ==
  ASSUME BufferInv, NEW s \in Seq(Byte), Len(s) <= Room
  PROVE  LET b == Back(s)
         IN /\ WellFormed(b) /\ Len(s) \in 0..readSize(b) /\ taken(b, Len(s)) = s
            /\ \A k \in 1..Len(s) : ByteAt(b, b.pos + k - 1) = s[k]
<1> DEFINE g == CHOOSE g \in Heap : TRUE
           w == write(buf, s, g)
           b == Back(s)
           n == Len(s)
<1>1. WellFormed(buf) /\ g \in Byte /\ BaseSize \in Nat \ {0}
  BY BufferAssumption DEF BufferInv
<1>2. buf.pos \in Nat /\ buf.size \in Nat /\ n \in Nat /\ buf.pos % BaseSize \in 0..BaseSize - 1
  <2>1. buf.pos \in Nat /\ buf.size \in Nat /\ n \in Nat
    BY <1>1, FieldTypes
  <2> QED
    BY <1>1, <2>1, DivMod
<1>3. Part(buf, s) = s
  <2>1. /\ Part(buf, s) \in Seq(Byte)
        /\ Len(Part(buf, s)) = Least(BaseSize - (buf.pos % BaseSize), n)
        /\ \A i \in 1..Len(Part(buf, s)) : Part(buf, s)[i] = s[i]
    BY <1>1, PartFacts
  <2>2. Least(BaseSize - (buf.pos % BaseSize), n) = n
    BY <1>1, <1>2 DEF Least, Room
  <2> DEFINE p == Part(buf, s)
  <2>3. p \in Seq(Byte) /\ Len(p) = Len(s) /\ \A i \in 1..Len(p) : p[i] = s[i]
    BY <2>1, <2>2
  <2> HIDE DEF p
  <2>4. p = s
    BY <2>3, SeqEqual
  <2> QED
    BY <2>4 DEF p
<1> HIDE DEF g
<1>4. Stores(buf, w, s)
  <2>1. Stores(buf, w, Part(buf, s))
    BY <1>1, WriteFacts
  <2> QED
    BY <1>3, <2>1
<1> HIDE DEF w
<1>5. /\ WellFormed(w) /\ w.pos = buf.pos + n /\ w.size = Greatest(buf.size, w.pos)
      /\ \A i \in 0..w.size - 1 :
           ByteAt(w, i) = IF buf.pos <= i /\ i < w.pos THEN s[i - buf.pos + 1] ELSE ByteAt(buf, i)
  BY <1>4 DEF Stores
<1>6. b = setPosition(w, buf.pos)
  BY DEF Back, w, g
<1>7. w.size \in Nat /\ w.cap \in Nat /\ w.size <= w.cap /\ buf.pos + n <= w.size
  BY <1>2, <1>5, FieldTypes DEF Greatest
<1>8. buf.pos \in 0..w.cap
  BY <1>2, <1>7
<1>9. /\ WellFormed(setPosition(w, buf.pos)) /\ setPosition(w, buf.pos).blocks = w.blocks
      /\ setPosition(w, buf.pos).pos = buf.pos
      /\ setPosition(w, buf.pos).size = Greatest(w.size, buf.pos)
  BY <1>5, <1>8, SetPositionFacts
<1> HIDE DEF b
<1>10. /\ WellFormed(b) /\ b.blocks = w.blocks /\ b.pos = buf.pos /\ b.size = w.size
  <2>1. Greatest(w.size, buf.pos) = w.size
    BY <1>2, <1>7 DEF Greatest
  <2> QED
    BY <1>6, <1>9, <2>1
<1>11. n \in 0..readSize(b)
  BY <1>2, <1>7, <1>10 DEF readSize
<1>12. ASSUME NEW k \in 1..n PROVE ByteAt(b, b.pos + k - 1) = s[k]
  <2>1. buf.pos + k - 1 \in 0..w.size - 1 /\ buf.pos <= buf.pos + k - 1
        /\ buf.pos + k - 1 < w.pos /\ (buf.pos + k - 1) - buf.pos + 1 = k
    BY SMTT(60), <1>2, <1>5, <1>7
  <2>2. ByteAt(b, b.pos + k - 1) = ByteAt(w, buf.pos + k - 1)
    BY <1>10 DEF ByteAt
  <2> QED
    BY <1>5, <2>1, <2>2
<1>13. taken(b, n) = s
  <2>1. taken(b, n) = [k \in 1..n |-> ByteAt(b, b.pos + k - 1)]
    BY <1>10, <1>11, TakenFacts
  <2>2. s = [k \in 1..n |-> s[k]]
    OBVIOUS
  <2> HIDE DEF n
  <2> QED
    BY <1>12, <2>1, <2>2
<1> QED
  BY <1>10, <1>11, <1>12, <1>13 DEF b

(* The read loop stops behind the last byte of the code.                   *)
LEMMA VarintBack ==
  ASSUME BufferInv, NEW v \in Word, Len(EncodeVarint(v)) <= Room
  PROVE  varintBytes(Back(EncodeVarint(v))) = EncodeVarint(v)
<1> DEFINE s == EncodeVarint(v)
           b == Back(s)
           n == Len(s)
           m == Least(readSize(b), MaxGroups)
           left == taken(b, m)
           ends == {i \in DOMAIN left : left[i] < Group}
           first == CHOOSE i \in ends : \A j \in ends : i <= j
<1>1. /\ s \in Seq(Byte) /\ n = Groups(v) /\ n \in 1..MaxGroups /\ n <= Room
      /\ Group \in Nat \ {0} /\ MaxGroups \in Nat
  BY EncodeVarintType, GroupsBound, Numerals
<1>2. ASSUME NEW i \in 1..n
      PROVE  (i < n => ~ (s[i] < Group)) /\ (i = n => s[i] < Group)
  <2> DEFINE x == v \div GroupWeight(i)
             y == x % Group
  <2>1. x \in Nat
    <3>1. i \in Nat \ {0} /\ v \in Nat
      BY <1>1, Numerals DEF Word
    <3>2. GroupWeight(i) \in Nat \ {0}
      BY <3>1, Weights
    <3> QED
      BY <3>1, <3>2, DivMod
  <2>2. s[i] = y + (IF i < Groups(v) THEN Group ELSE 0)
    <3>1. i \in 1..Groups(v)
      BY <1>1
    <3> QED
      BY <3>1 DEF EncodeVarint, GroupWeight
  <2> HIDE DEF x, s, n
  <2>3. y \in 0..Group - 1
    BY <1>1, <2>1, Remainder
  <2> HIDE DEF y
  <2> QED
    BY <1>1, <2>2, <2>3
<1> HIDE DEF s
<1>3. /\ WellFormed(b) /\ n \in 0..readSize(b)
      /\ \A k \in 1..n : ByteAt(b, b.pos + k - 1) = s[k]
  BY <1>1, BackFacts
<1> HIDE DEF b
<1>4. readSize(b) \in Nat /\ m \in 0..readSize(b) /\ m \in Nat /\ n <= m /\ n \in Nat \ {0}
  <2>1. readSize(b) \in Nat
    BY <1>3, FieldTypes DEF readSize
  <2> HIDE DEF n
  <2> QED
    BY <1>1, <1>3, <2>1 DEF Least
<1>5. varintBytes(b) = SubSeq(left, 1, IF ends = {} THEN Len(left) ELSE first)
  BY DEF varintBytes
<1> HIDE DEF m
<1>6. left \in Seq(Byte) /\ left = [k \in 1..m |-> ByteAt(b, b.pos + k - 1)]
  BY <1>3, <1>4, TakenFacts
<1>7. DOMAIN left = 1..m /\ Len(left) = m /\ \A k \in 1..n : left[k] = s[k]
  <2>1. \A k \in 1..n : k \in 1..m
    BY <1>4
  <2> HIDE DEF left, n
  <2> QED
    BY <1>3, <1>4, <1>6, <2>1
<1> HIDE DEF left
<1>8. n \in ends /\ \A j \in ends : n <= j
  <2>1. n \in 1..m /\ n \in 1..n
    BY <1>4
  <2>2. n \in ends
    BY <1>2, <1>7, <2>1
  <2>3. ASSUME NEW j \in ends PROVE n <= j
    <3>1. j \in 1..m /\ left[j] < Group
      BY <1>7
    <3>2. j \in 1..n /\ j < n => ~ (left[j] < Group)
      BY <1>2, <1>7
    <3> HIDE DEF n
    <3> QED
      BY <1>4, <3>1, <3>2
  <2> QED
    BY <2>2, <2>3
<1>9. first = n
  <2>1. first \in ends /\ \A j \in ends : first <= j
    BY <1>8, Zenon
  <2>2. first \in Nat
    BY <1>4, <1>7, <2>1
  <2> HIDE DEF first
  <2>3. first <= n /\ n <= first
    BY <1>8, <2>1
  <2> HIDE DEF n
  <2> QED
    BY <1>4, <2>2, <2>3
<1>10. varintBytes(b) = SubSeq(left, 1, n)
  BY <1>5, <1>8, <1>9
<1> HIDE DEF ends, first
<1>11. SubSeq(left, 1, n) = s
  <2> DEFINE p == SubSeq(left, 1, n)
  <2>1. p \in Seq(Byte) /\ Len(p) = Len(s) /\ \A k \in 1..Len(p) : p[k] = s[k]
    <3>1. n = Len(s)
      OBVIOUS
    <3> HIDE DEF n
    <3>2. p \in Seq(Byte) /\ Len(p) = n /\ \A k \in 1..n : p[k] = left[k]
      BY <1>4, <1>6, <1>7
    <3> HIDE DEF p
    <3> QED
      BY <1>7, <3>1, <3>2
  <2> HIDE DEF p
  <2>2. p = s
    BY <1>1, <2>1, SeqEqual
  <2> QED
    BY <2>2 DEF p
<1> QED
  BY <1>10, <1>11 DEF b, s

LEMMA InvReadsBack == BufferInv => ReadBack
<1> SUFFICES ASSUME BufferInv PROVE ReadBack
  OBVIOUS
<1>1. ASSUME NEW v \in Word, Len(EncodeVarint(v)) <= Room
      PROVE  DecodeVarint(varintBytes(Back(EncodeVarint(v)))) = v
  BY <1>1, VarintBack, VarintRoundTrip
<1>2. ASSUME NEW v \in SignedWord
      PROVE  DecodeZigzag(DecodeVarint(EncodeVarint(EncodeZigzag(v)))) = v
  <2>1. EncodeZigzag(v) \in Word /\ DecodeZigzag(EncodeZigzag(v)) = v
    BY ZigzagRoundTrip
  <2>2. DecodeVarint(EncodeVarint(EncodeZigzag(v))) = EncodeZigzag(v)
    BY <2>1, VarintRoundTrip
  <2> QED
    BY <2>1, <2>2
<1>3. ASSUME NEW n \in FieldSizes, NEW v \in Word, n <= Room
      PROVE  FixedValue(buf, taken(Back(FixedBytes(buf, v, n)), n)) = v % Power(2 * Group, n)
  <2> DEFINE s == FixedBytes(buf, v, n)
  <2>1. n \in Nat /\ v \in Nat
    BY BufferAssumption, Numerals DEF Word
  <2>2. s \in Seq(Byte) /\ Len(s) = n
    BY <2>1, FixedBytesType
  <2>3. FixedValue(buf, s) = v % Power(2 * Group, n)
    <3>1. HostBytes(v, n) \in Seq(Byte)
      BY <2>1, HostBytesType
    <3>2. Reversed(Reversed(HostBytes(v, n))) = HostBytes(v, n)
      BY <3>1, ReversedType
    <3>3. HostValue(HostBytes(v, n)) = v % Power(2 * Group, n)
      BY <2>1, HostRoundTrip
    <3>4. CASE buf.little
      BY <3>3, <3>4 DEF FixedValue, FixedBytes
    <3>5. CASE ~ buf.little
      BY <3>2, <3>3, <3>5 DEF FixedValue, FixedBytes
    <3> QED
      BY <3>4, <3>5
  <2> HIDE DEF s
  <2>4. taken(Back(s), n) = s
    BY <1>3, <2>2, BackFacts
  <2> QED
    BY <2>3, <2>4 DEF s
<1> QED
  BY <1>1, <1>2, <1>3 DEF ReadBack

(***************************************************************************)
(* What writeUint32, writeInt32, writeFint16 and their like have put into  *)
(* a block is read back as the same number, in every state the calls can   *)
(* bring a buffer to, in both byte orders, for every width of the numbers, *)
(* of the bytes and of the blocks; the zigzag code loses no signed number. *)
(***************************************************************************)
THEOREM ReadBackCorrect == Spec => []ReadBack
  BY InvCorrect, InvReadsBack, PTL
=============================================================================
