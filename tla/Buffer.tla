------------------------------- MODULE Buffer -------------------------------
(***************************************************************************)
(* Buffer (net/Buffer.cc): a list of blocks with a cursor, on which bytes, *)
(* numbers and strings are written and read.  A Buffer is used by one      *)
(* fiber at a time, so a call is a step.                                   *)
(*                                                                         *)
(* A buffer is a record: `blocks` is the list from root_, each block a     *)
(* function from offsets; `cur` is the number of the block cur_ points to, *)
(* 0 for a null pointer; pos, size, cap and little are position_, size_,   *)
(* capacity_ and endian_.                                                  *)
(***************************************************************************)
EXTENDS Integers, Sequences

CONSTANTS
  BaseSize,    \* baseSize_
  GroupBits,   \* payload bits of a varint byte: 7 in the code
  WidthBits,   \* bits of the numbers written as varints: 32 and 64
  Datas,       \* sequences of bytes the user writes
  Numbers,     \* numbers the user writes
  FieldSizes,  \* bytes of a string's fixed length field: 2, 4 and 8
  Heap,        \* what fresh memory may be filled with
  MaxBlocks    \* bound on the number of blocks

(* a to the n-th *)
Power(a, n) ==
  LET p[i \in 0..n] == IF i = 0 THEN 1 ELSE a * p[i - 1]
  IN p[n]

Group == Power(2, GroupBits)
Byte == 0..2 * Group - 1
Half == Power(2, WidthBits - 1)
Word == 0..2 * Half - 1
SignedWord == -Half..Half - 1

ASSUME BufferAssumption ==
  /\ BaseSize \in Nat \ {0}
  /\ GroupBits \in Nat \ {0}
  /\ WidthBits \in Nat \ {0}
  /\ MaxBlocks \in Nat \ {0}
  /\ Datas \subseteq Seq(Byte) /\ \A d \in Datas : Len(d) \in Word
  /\ Numbers \subseteq Word
  /\ FieldSizes \subseteq Nat \ {0}
  /\ Heap \subseteq Byte /\ Heap # {}

Least(a, b) == IF a < b THEN a ELSE b
Greatest(a, b) == IF a > b THEN a ELSE b

-----------------------------------------------------------------------------
(* The bytes of numbers *)

(* The number of groups writeUint32's loop emits for v. *)
Groups(v) == CHOOSE n \in 1..WidthBits :
               v < Power(Group, n) /\ \A k \in 1..n - 1 : v >= Power(Group, k)

(* Mutant: the test of the loop is > 0x80. *)
EncodeVarint_offbyone(v) ==
  LET n == IF v = Group THEN 1 ELSE Groups(v)
  IN [i \in 1..n |-> ((v \div Power(Group, i - 1)) % Group)
                       + (IF i < n THEN Group ELSE 0)]

(* writeUint32, writeUint64: low groups first, all but the last one marked *)
EncodeVarint(v) ==
  [i \in 1..Groups(v) |-> ((v \div Power(Group, i - 1)) % Group)
                            + (IF i < Groups(v) THEN Group ELSE 0)]

(* The most bytes readUint32's loop reads. *)
MaxGroups == (WidthBits + GroupBits - 1) \div GroupBits

(* readUint32, readUint64, of the bytes they consumed; bits beyond the     *)
(* width are shifted out.                                                  *)
DecodeVarint(s) ==
  LET sum[i \in 0..Len(s)] ==
        IF i = 0 THEN 0
        ELSE (sum[i - 1] + (s[i] % Group) * Power(Group, i - 1)) % (2 * Half)
  IN sum[Len(s)]

(***************************************************************************)
(* EncodeZigzag32, EncodeZigzag64.  Negating the least number, and twice a *)
(* number beyond half the range, overflow a signed integer; the build's    *)
(* arithmetic wraps around.                                                *)
(***************************************************************************)
EncodeZigzag(v) ==
  IF v < 0 THEN (2 * ((-v) % (2 * Half)) - 1) % (2 * Half)
           ELSE (v * 2) % (2 * Half)

(* DecodeZigzag32, DecodeZigzag64: the exclusive or with -(v & 1) is the   *)
(* identity or the complement; the result is read as a signed number.      *)
DecodeZigzag(u) ==
  LET half == u \div 2
      word == IF u % 2 = 0 THEN half ELSE 2 * Half - 1 - half
  IN IF word >= Half THEN word - 2 * Half ELSE word

Reversed(s) == [i \in DOMAIN s |-> s[Len(s) + 1 - i]]

(* A number of n bytes as a little-endian host holds it in memory. *)
HostBytes(v, n) == [i \in 1..n |-> (v \div Power(2 * Group, i - 1)) % (2 * Group)]
HostValue(s) ==
  LET sum[i \in 0..Len(s)] ==
        IF i = 0 THEN 0 ELSE sum[i - 1] + s[i] * Power(2 * Group, i - 1)
  IN sum[Len(s)]

(* writeFint16 .. writeFuint64, writeFloat, writeDouble: byteswap() unless *)
(* endian_ is the byte order of the host.                                  *)
FixedBytes(b, v, n) ==
  IF b.little THEN HostBytes(v, n) ELSE Reversed(HostBytes(v, n))

(* readFint16 .. readFuint64, readFloat, readDouble, of the bytes read *)
FixedValue(b, s) == HostValue(IF b.little THEN s ELSE Reversed(s))

-----------------------------------------------------------------------------
(* Blocks and cursor *)

(* next_ of block c, 0 behind the last one. *)
NextBlock(b, c) == IF c < Len(b.blocks) THEN c + 1 ELSE 0

(***************************************************************************)
(* The loops of read, getReadBuffers and getWriteBuffers take the rest of  *)
(* the block they start in and go on with the following blocks, so the     *)
(* k-th byte they reach (from 0) is in this cell.  They follow a null      *)
(* pointer when the block does not exist.                                  *)
(***************************************************************************)
Cell(c, npos, k) == [block |-> c + (npos + k) \div BaseSize,
                     offset |-> (npos + k) % BaseSize]
Reachable(b, c, npos, n) ==
  c # 0 /\ (n = 0 \/ Cell(c, npos, n - 1).block <= Len(b.blocks))
Gather(b, c, npos, n) ==
  [k \in 1..n |-> LET x == Cell(c, npos, k - 1) IN b.blocks[x.block][x.offset]]

(* memcpy of d to the cells from c, npos on. *)
Scatter(b, c, npos, d) ==
  [b EXCEPT !.blocks =
     [i \in DOMAIN b.blocks |->
        [o \in 0..BaseSize - 1 |->
           LET k == (i - c) * BaseSize + o - npos + 1
           IN IF k \in DOMAIN d THEN d[k] ELSE b.blocks[i][o]]]]

(* Mutant: cur_ keeps pointing behind the last block. *)
addCapacity_keeps_cur(b, n, g) ==
  LET old == b.cap - b.pos
      count == (n - old + BaseSize - 1) \div BaseSize
      fresh == [i \in 1..count |-> [o \in 0..BaseSize - 1 |-> g]]
  IN IF n = 0 \/ old >= n THEN b
     ELSE [b EXCEPT !.blocks = b.blocks \o fresh,
                    !.cap = b.cap + count * BaseSize]

(* addCapacity: blocks for the bytes that do not fit, filled with g. *)
addCapacity(b, n, g) ==
  LET old == b.cap - b.pos
      count == (n - old + BaseSize - 1) \div BaseSize
      fresh == [i \in 1..count |-> [o \in 0..BaseSize - 1 |-> g]]
  IN IF n = 0 \/ old >= n THEN b
     ELSE [b EXCEPT !.blocks = b.blocks \o fresh,
                    !.cap = b.cap + count * BaseSize,
                    !.cur = IF old = 0 THEN Len(b.blocks) + 1 ELSE b.cur]

(* Mutant: size_ is updated only by a write that fits. *)
write_forgets_size(b, d, g) ==
  LET a == addCapacity(b, Len(d), g)
      npos == a.pos % BaseSize
      n == Least(BaseSize - npos, Len(d))
  IN IF d = <<>> THEN b
     ELSE [Scatter(a, a.cur, npos, SubSeq(d, 1, n))
             EXCEPT !.cur = IF npos + n = BaseSize THEN NextBlock(a, a.cur)
                                                   ELSE a.cur,
                    !.pos = a.pos + n,
                    !.size = IF n = Len(d) THEN Greatest(a.size, a.pos + n)
                                           ELSE a.size]

(***************************************************************************)
(* write(): the capacity is added for all of d, but only the part that     *)
(* fits into the current block is stored (the loop around this code is in  *)
(* the comment of line 399).                                               *)
(***************************************************************************)
write(b, d, g) ==
  LET a == addCapacity(b, Len(d), g)
      npos == a.pos % BaseSize
      n == Least(BaseSize - npos, Len(d))
  IN IF d = <<>> THEN b
     ELSE [Scatter(a, a.cur, npos, SubSeq(d, 1, n))
             EXCEPT !.cur = IF npos + n = BaseSize THEN NextBlock(a, a.cur)
                                                   ELSE a.cur,
                    !.pos = a.pos + n,
                    !.size = Greatest(a.size, a.pos + n)]

(* Mutant: cur_ is not moved when the block is read up to its end. *)
advance_stays(b, n) ==
  LET end == (b.pos % BaseSize) + n
  IN [b EXCEPT !.pos = b.pos + n,
               !.cur = b.cur + (IF end > 0 THEN end - 1 ELSE 0) \div BaseSize]

(* position_ and cur_ after read() took n bytes. *)
advance(b, n) ==
  LET end == (b.pos % BaseSize) + n
      c == b.cur + end \div BaseSize
  IN [b EXCEPT !.pos = b.pos + n,
               !.cur = IF c <= Len(b.blocks) THEN c ELSE 0]

readSize(b) == b.size - b.pos
taken(b, n) == Gather(b, b.cur, b.pos % BaseSize, n)

(* setPosition, for v <= capacity_ *)
setPosition(b, v) ==
  [b EXCEPT !.pos = v,
            !.size = Greatest(b.size, v),
            !.cur = IF v \div BaseSize < Len(b.blocks)
                    THEN v \div BaseSize + 1 ELSE 0]

(* The bytes a varint read consumes: up to the first one that is not       *)
(* marked, or MaxGroups of them.  Fewer when the buffer ends.              *)
varintBytes(b) ==
  LET left == taken(b, Least(readSize(b), MaxGroups))
      ends == {i \in DOMAIN left : left[i] < Group}
      n == IF ends = {} THEN Len(left)
           ELSE CHOOSE i \in ends : \A j \in ends : i <= j
  IN SubSeq(left, 1, n)
varintComplete(s) ==
  Len(s) = MaxGroups \/ (s # <<>> /\ s[Len(s)] < Group)

(* The blocks after clear(): only the root is left. *)
clear(b) == [b EXCEPT !.blocks = SubSeq(b.blocks, 1, 1), !.pos = 0,
                      !.size = 0, !.cap = BaseSize, !.cur = 1]

-----------------------------------------------------------------------------
(* The calls *)

VARIABLES buf, call, out, trapped

vars == <<buf, call, out, trapped>>

Gave(s) == [threw |-> FALSE, data |-> s]
Thrown == [threw |-> TRUE, data |-> <<>>]

RootOnly(block, size) ==
  [blocks |-> <<block>>, pos |-> 0, size |-> size, cap |-> BaseSize,
   cur |-> 1, little |-> FALSE]

(* Both constructors: an empty block, or the caller's memory. *)
Init ==
  /\ \/ \E g \in Heap : buf = RootOnly([o \in 0..BaseSize - 1 |-> g], 0)
     \/ \E d \in {d \in Datas : Len(d) = BaseSize} :
          buf = RootOnly([o \in 0..BaseSize - 1 |-> d[o + 1]], BaseSize)
  /\ call = [op |-> "none"]
  /\ out = Gave(<<>>)
  /\ trapped = FALSE

Fits(b) == Len(b.blocks) <= MaxBlocks

(* One write() after the other, of head and of data. *)
Put(head, data) ==
  \E g \in Heap :
    /\ call' = [op |-> "write", head |-> head, data |-> data]
    /\ buf' = write(write(buf, head, g), data, g)
    /\ Fits(buf')
    /\ out' = Gave(<<>>)
    /\ UNCHANGED trapped

(* write, writeStringWithoutLength *)
WriteBytes == \E d \in Datas : Put(<<>>, d)

(* writeInt32 and writeInt64 give writeUint32 and writeUint64 the zigzag   *)
(* code, which is one of the same numbers.                                 *)
WriteVarint == \E v \in Numbers : Put(<<>>, EncodeVarint(v))

WriteFixed == \E v \in Numbers, n \in FieldSizes : Put(<<>>, FixedBytes(buf, v, n))

(* writeStringF16, F32, F64 and Vint; the fixed field keeps the low bytes  *)
(* of the length.                                                          *)
WriteString ==
  \E d \in Datas :
    \/ \E n \in FieldSizes : Put(FixedBytes(buf, Len(d), n), d)
    \/ Put(EncodeVarint(Len(d)), d)

(* The loop of readFromFile: chunks of baseSize_ bytes, each given to      *)
(* write().                                                                *)
Chunks(d) == (Len(d) + BaseSize - 1) \div BaseSize
Chunk(d, i) == SubSeq(d, (i - 1) * BaseSize + 1, Least(i * BaseSize, Len(d)))
Loaded(b, d, g) ==
  LET after[i \in 0..Chunks(d)] ==
        IF i = 0 THEN b ELSE write(after[i - 1], Chunk(d, i), g)
  IN after[Chunks(d)]

readFromFile ==
  \E d \in Datas, g \in Heap :
    /\ call' = [op |-> "load", data |-> d]
    /\ buf' = Loaded(buf, d, g)
    /\ Fits(buf')
    /\ out' = Gave(<<>>)
    /\ UNCHANGED trapped

(* getWriteBuffers, and a system call that stores d there *)
getWriteBuffers ==
  \E d \in Datas, g \in Heap :
    LET a == addCapacity(buf, Len(d), g)
    IN /\ call' = [op |-> "fill", data |-> d]
       /\ buf' = IF d = <<>> THEN buf ELSE Scatter(a, a.cur, a.pos % BaseSize, d)
       /\ Fits(buf')
       /\ out' = Gave(<<>>)
       /\ UNCHANGED trapped

(* What a call that reads ends in. *)
Throws(b) == out' = Thrown /\ buf' = b /\ UNCHANGED trapped
Traps == trapped' = TRUE /\ UNCHANGED <<buf, out>>
Gives(b, s) == buf' = b /\ out' = Gave(s) /\ UNCHANGED trapped

Sizes == 0..BaseSize * MaxBlocks

(* read(buf, size), readFint8 .. readDouble.  With nothing left cur_ may   *)
(* be a null pointer: its size_ is looked at, and not used.                *)
read ==
  \E n \in Sizes :
    /\ call' = [op |-> "read", n |-> n]
    /\ IF n > readSize(buf) THEN Throws(buf)
       ELSE \/ Gives(advance(buf, n), taken(buf, n))
            \/ buf.cur = 0 /\ Traps

(* readUint32, readInt32, readUint64, readInt64, byte by byte *)
readVarint ==
  LET s == varintBytes(buf)
      b == advance(buf, Len(s))
  IN /\ call' = [op |-> "varint"]
     /\ IF varintComplete(s) THEN Gives(b, s) ELSE Throws(b)

(* The rest of a string whose length, n, has been read in h bytes. *)
readBody(h, n) ==
  LET b == advance(buf, h)
  IN IF n > readSize(b) THEN Throws(b)
     ELSE \/ Gives(advance(b, n), taken(buf, h + n))
          \/ b.cur = 0 /\ Traps

(* readStringF16, F32, F64 *)
readStringF ==
  \E n \in FieldSizes :
    /\ call' = [op |-> "string"]
    /\ IF n > readSize(buf) THEN Throws(buf)
       ELSE readBody(n, FixedValue(buf, taken(buf, n)))

readStringVint ==
  LET s == varintBytes(buf)
  IN /\ call' = [op |-> "string"]
     /\ IF varintComplete(s) THEN readBody(Len(s), DecodeVarint(s))
        ELSE Throws(advance(buf, Len(s)))

(* getReadBuffers(len) from the cursor, and toString of all that is left *)
getReadBuffers ==
  \E n \in Sizes :
    LET len == Least(n, readSize(buf))
    IN /\ call' = [op |-> "peek", n |-> n]
       /\ Gives(buf, IF len = 0 THEN <<>> ELSE taken(buf, len))

(* getReadBuffers(len, position): the bytes that are left are counted from *)
(* the cursor, the block is looked for from the root.                      *)
getReadBuffersAt ==
  \E n, p \in Sizes :
    LET len == Least(n, readSize(buf))
        c == p \div BaseSize + 1
    IN /\ call' = [op |-> "peekAt", n |-> n, p |-> p]
       /\ IF len = 0 THEN Gives(buf, <<>>)
          ELSE IF Reachable(buf, c, p % BaseSize, len)
               THEN Gives(buf, Gather(buf, c, p % BaseSize, len))
          ELSE Traps

(* read(buf, size, position): starts in the block of the cursor *)
readAt ==
  \E n, p \in Sizes :
    /\ call' = [op |-> "readAt", n |-> n, p |-> p]
    /\ IF n > readSize(buf) THEN Throws(buf)
       ELSE \/ /\ n = 0 \/ Reachable(buf, buf.cur, p % BaseSize, n)
               /\ Gives(buf, Gather(buf, buf.cur, p % BaseSize, n))
            \/ /\ ~Reachable(buf, buf.cur, p % BaseSize, n)
               /\ Traps

(* The loop of writeToFile.  The offset is taken off the rest when that is *)
(* less than a block; a negative length is undefined.                      *)
Saved(b) ==
  LET file[k \in 0..MaxBlocks + 2] ==
        IF k = 0 THEN [cur |-> b.cur, pos |-> b.pos, left |-> readSize(b),
                       data |-> <<>>, bad |-> FALSE]
        ELSE LET x == file[k - 1]
                 diff == x.pos % BaseSize
                 len == Least(x.left, BaseSize) - diff
             IN IF x.left = 0 \/ x.bad THEN x
                ELSE IF x.cur = 0 \/ len < 0 THEN [x EXCEPT !.bad = TRUE]
                ELSE [cur |-> NextBlock(b, x.cur), pos |-> x.pos + len,
                      left |-> x.left - len, bad |-> FALSE,
                      data |-> x.data \o Gather(b, x.cur, diff, len)]
  IN file[MaxBlocks + 2]

writeToFile ==
  /\ call' = [op |-> "save"]
  /\ IF Saved(buf).bad THEN Traps ELSE Gives(buf, Saved(buf).data)

SetPosition ==
  \E v \in 0..BaseSize * MaxBlocks + 1 :
    /\ call' = [op |-> "seek", n |-> v]
    /\ IF v > buf.cap THEN Throws(buf)
       ELSE buf' = setPosition(buf, v) /\ out' = Gave(<<>>) /\ UNCHANGED trapped

Clear ==
  /\ call' = [op |-> "clear"]
  /\ buf' = clear(buf)
  /\ out' = Gave(<<>>)
  /\ UNCHANGED trapped

setIsLittleEndian ==
  /\ call' = [op |-> "endian"]
  /\ \E e \in BOOLEAN : buf' = [buf EXCEPT !.little = e]
  /\ out' = Gave(<<>>)
  /\ UNCHANGED trapped

(* A null pointer has been followed: the program is gone. *)
Dead == trapped /\ UNCHANGED vars

Next ==
  \/ /\ ~trapped
     /\ \/ WriteBytes \/ WriteVarint \/ WriteFixed \/ WriteString
        \/ readFromFile \/ getWriteBuffers
        \/ read \/ readVarint \/ readStringF \/ readStringVint
        \/ getReadBuffers \/ getReadBuffersAt \/ readAt \/ writeToFile
        \/ SetPosition \/ Clear \/ setIsLittleEndian
  \/ Dead

Spec == Init /\ [][Next]_vars

-----------------------------------------------------------------------------
(* Properties *)

(***************************************************************************)
(* The sizes fit into each other: position_ <= size_ <= capacity_, so that *)
(* readSize() and getCapacity(), differences of unsigned numbers, do not   *)
(* wrap around whatever calls were made, failed and truncated ones too.    *)
(***************************************************************************)
TypeOK ==
  /\ buf.blocks \in Seq([0..BaseSize - 1 -> Byte])
  /\ buf.pos \in 0..buf.size /\ buf.size \in 0..buf.cap /\ buf.cap \in Nat
  /\ buf.cur \in 0..Len(buf.blocks)
  /\ buf.little \in BOOLEAN
  /\ trapped \in BOOLEAN

(***************************************************************************)
(* cur_ and position_, which write, read, setPosition, addCapacity and     *)
(* clear move separately, agree: cur_ is the block position_ lies in, and  *)
(* null exactly when position_ is behind the last block.                   *)
(***************************************************************************)
CursorInPlace ==
  /\ buf.cap = BaseSize * Len(buf.blocks)
  /\ buf.cur = IF buf.pos = buf.cap THEN 0 ELSE buf.pos \div BaseSize + 1

(* The buffer after s was written and the cursor set back before it. *)
Back(s) == setPosition(write(buf, s, CHOOSE g \in Heap : TRUE), buf.pos)
Room == BaseSize - (buf.pos % BaseSize)

(***************************************************************************)
(* A number of any kind that is written where its bytes fit into the       *)
(* current block (write() stores no more than that) and read again is the  *)
(* same number, in any buffer that can come about; every signed number     *)
(* survives the zigzag code, the least one too.                            *)
(***************************************************************************)
ReadBack ==
  /\ \A v \in Word :
       LET s == EncodeVarint(v)
       IN Len(s) <= Room => DecodeVarint(varintBytes(Back(s))) = v
  /\ \A v \in SignedWord :
       DecodeZigzag(DecodeVarint(EncodeVarint(EncodeZigzag(v)))) = v
  /\ \A n \in FieldSizes, v \in Word :
       n <= Room =>
         LET b == Back(FixedBytes(buf, v, n))
         IN FixedValue(buf, taken(b, n)) = v % Power(2 * Group, n)

(***************************************************************************)
(* The buffer is the byte stream it promises to be: blocks, growth and the *)
(* block cursor cannot be told from one sequence of bytes with an offset.  *)
(***************************************************************************)
Flat == INSTANCE FlatBuffer WITH
  Bytes <- Byte, bytes <- Gather(buf, 1, 0, buf.size), pos <- buf.pos

Refines == Flat!Spec
=============================================================================
