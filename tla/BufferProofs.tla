---------------------------- MODULE BufferProofs ----------------------------
(***************************************************************************)
(* For every size of its memory, of the pages and of what is written, read  *)
(* and dropped: the indices of a Buffer stay in order, and a Buffer that is  *)
(* not misused is a queue of bytes.                                         *)
(***************************************************************************)
EXTENDS Buffer, SequenceTheorems, TLAPS

(* A well-formed buffer: what the type invariant says of buf.               *)
WellFormed(b) ==
  /\ b \in [bytes : Seq(Byte), readIndex : Nat, writeIndex : Nat]
  /\ b.readIndex <= b.writeIndex /\ b.writeIndex <= Len(b.bytes)

-----------------------------------------------------------------------------
(* What the methods return for a well-formed buffer.                        *)

(* Overwriting keeps the bytes in Byte, and never shortens them.            *)
LEMMA OverwrittenBytes ==
  ASSUME NEW bytes \in Seq(Byte), NEW offset \in 0 .. Len(bytes), NEW s \in Seq(Byte)
  PROVE  /\ Overwritten(bytes, offset, s) \in Seq(Byte)
         /\ Len(Overwritten(bytes, offset, s)) >= Len(bytes)
         /\ Len(Overwritten(bytes, offset, s)) >= offset + Len(s)
<1> DEFINE front == SubSeq(bytes, 1, offset)
           back == SubSeq(bytes, offset + Len(s) + 1, Len(bytes))
<1>1. Len(bytes) \in Nat /\ Len(s) \in Nat
  BY LenProperties
<1>2. front \in Seq(Byte) /\ Len(front) = offset
  <2>1. \A i \in 1 .. offset : bytes[i] \in Byte
    BY <1>1, ElementOfSeq
  <2>2. front \in Seq(Byte) /\ Len(front) = IF 1 <= offset THEN offset - 1 + 1 ELSE 0
    BY <1>1, <2>1, SubSeqProperties
  <2> QED
    BY <1>1, <2>2
<1>3. /\ back \in Seq(Byte)
      /\ Len(back) = IF offset + Len(s) + 1 <= Len(bytes)
                       THEN Len(bytes) - (offset + Len(s) + 1) + 1 ELSE 0
  <2>1. \A i \in offset + Len(s) + 1 .. Len(bytes) : bytes[i] \in Byte
    BY <1>1, ElementOfSeq
  <2> QED
    BY <1>1, <2>1, SubSeqProperties
<1> HIDE DEF front, back
<1>4. front \o s \in Seq(Byte) /\ Len(front \o s) = offset + Len(s)
  BY <1>2, ConcatProperties
<1>5. /\ (front \o s) \o back \in Seq(Byte)
      /\ Len((front \o s) \o back) = offset + Len(s) + Len(back)
  BY <1>3, <1>4, ConcatProperties
<1>6. Overwritten(bytes, offset, s) = (front \o s) \o back
  BY DEF Overwritten, front, back
<1>7. Len(back) \in Nat /\ offset + Len(s) + Len(back) >= Len(bytes)
  <2>1. CASE offset + Len(s) + 1 <= Len(bytes)
    <3>1. Len(back) = Len(bytes) - (offset + Len(s) + 1) + 1
      BY <1>3, <2>1
    <3> QED
      BY <1>1, <2>1, <3>1
  <2>2. CASE ~(offset + Len(s) + 1 <= Len(bytes))
    <3>1. Len(back) = 0
      BY <1>3, <2>2
    <3> QED
      BY <1>1, <2>2, <3>1
  <2> QED
    BY <2>1, <2>2
<1> QED
  BY <1>1, <1>5, <1>6, <1>7

(* A stretch of a byte string is one.                                       *)
LEMMA Stretch ==
  ASSUME NEW bytes \in Seq(Byte), NEW m \in Nat \ {0}, NEW n \in Nat, n <= Len(bytes)
  PROVE  /\ SubSeq(bytes, m, n) \in Seq(Byte)
         /\ Len(SubSeq(bytes, m, n)) = IF m <= n THEN n - m + 1 ELSE 0
<1>1. \A i \in m .. n : bytes[i] \in Byte
  BY LenProperties, ElementOfSeq
<1> QED
  BY <1>1, SubSeqProperties

LEMMA ZerosBytes ==
  ASSUME NEW n \in Nat
  PROVE  Zeros(n) \in Seq(Byte) /\ Len(Zeros(n)) = n
<1>1. Zeros(n) \in [1 .. n -> Byte]
  BY BufferAssumption DEF Zeros
<1> QED
  BY <1>1, SeqDef DEF Zeros

LEMMA EmptyWellFormed ==
  ASSUME NEW size \in Nat
  PROVE  WellFormed(Empty(size))
BY ZerosBytes DEF Empty, WellFormed

(* Buffer(size_t) rounds up to whole pages.                                 *)
LEMMA NewWellFormed ==
  ASSUME NEW size \in Nat
  PROVE  WellFormed(New(size))
<1>1. size \div PageSize \in Nat
  BY BufferAssumption
<1>2. PageSize * (size \div PageSize + 1) \in Nat
  BY <1>1, BufferAssumption
<1> QED
  BY <1>2, EmptyWellFormed DEF New

LEMMA MoveForwardWellFormed ==
  ASSUME NEW b, WellFormed(b)
  PROVE  WellFormed(moveForward(b))
<1>1. b.bytes \in Seq(Byte) /\ Len(b.bytes) \in Nat /\ ReadableBytes(b) \in Nat
  BY LenProperties DEF WellFormed, ReadableBytes
<1>2. Contents(b) \in Seq(Byte) /\ Len(Contents(b)) = ReadableBytes(b)
  BY <1>1, Stretch DEF WellFormed, Contents, ReadableBytes
<1>3. /\ Overwritten(b.bytes, 0, Contents(b)) \in Seq(Byte)
      /\ Len(Overwritten(b.bytes, 0, Contents(b))) >= 0 + ReadableBytes(b)
  BY <1>1, <1>2, OverwrittenBytes
<1> QED
  BY <1>1, <1>3 DEF WellFormed, moveForward

LEMMA MadeRoomWellFormed ==
  ASSUME NEW b, WellFormed(b), NEW len
  PROVE  WellFormed(MadeRoom(b, len))
BY MoveForwardWellFormed DEF MadeRoom

(* Write, with or without growth.                                           *)
LEMMA WrittenWellFormed ==
  ASSUME NEW b, WellFormed(b), NEW s \in Seq(Byte)
  PROVE  WellFormed(Written(b, s))
<1> DEFINE c == MadeRoom(b, Len(s))
<1>1. WellFormed(c) /\ Len(s) \in Nat
  BY MadeRoomWellFormed, LenProperties
<1> HIDE DEF c
<1>2. c.bytes \in Seq(Byte) /\ Len(c.bytes) \in Nat /\ c.writeIndex \in 0 .. Len(c.bytes)
  BY <1>1, LenProperties DEF WellFormed
<1>3. /\ Overwritten(c.bytes, c.writeIndex, s) \in Seq(Byte)
      /\ Len(Overwritten(c.bytes, c.writeIndex, s)) >= c.writeIndex + Len(s)
  BY <1>2, OverwrittenBytes
<1>4. Written(b, s) = [bytes |-> Overwritten(c.bytes, c.writeIndex, s),
                       readIndex |-> c.readIndex, writeIndex |-> c.writeIndex + Len(s)]
  BY DEF Written, c
<1> QED
  BY <1>1, <1>2, <1>3, <1>4 DEF WellFormed

LEMMA WrittenNullWellFormed ==
  ASSUME NEW b, WellFormed(b), NEW len \in Nat
  PROVE  WellFormed(WrittenNull(b, len))
<1> DEFINE c == MadeRoom(b, len)
           more == IF WriteableBytes(c) < len THEN len - WriteableBytes(c) ELSE 0
<1>1. WellFormed(c)
  BY MadeRoomWellFormed
<1>2. WrittenNull(b, len) = [bytes |-> c.bytes \o Zeros(more),
                             readIndex |-> c.readIndex, writeIndex |-> c.writeIndex + len]
  BY DEF WrittenNull
<1> HIDE DEF c
<1>3. /\ c.bytes \in Seq(Byte) /\ Len(c.bytes) \in Nat
      /\ more \in Nat /\ c.writeIndex + len <= Len(c.bytes) + more
  BY <1>1, LenProperties DEF WellFormed, WriteableBytes
<1> HIDE DEF more
<1>4. Zeros(more) \in Seq(Byte) /\ Len(Zeros(more)) = more
  BY <1>3, ZerosBytes
<1>5. c.bytes \o Zeros(more) \in Seq(Byte) /\ Len(c.bytes \o Zeros(more)) = Len(c.bytes) + more
  BY <1>3, <1>4, ConcatProperties
<1> QED
  BY <1>1, <1>2, <1>3, <1>5 DEF WellFormed

LEMMA RecycledWellFormed ==
  ASSUME NEW b, WellFormed(b), NEW n \in Nat
  PROVE  WellFormed(Recycled(b, n))
<1>1. Len(b.bytes) \in Nat
  BY LenProperties DEF WellFormed
<1>2. CASE n < ReadableBytes(b)
  BY <1>2 DEF WellFormed, Recycled, ReadableBytes
<1>3. CASE ~(n < ReadableBytes(b))
  BY <1>1, <1>3, EmptyWellFormed DEF Recycled, InitAll
<1> QED
  BY <1>2, <1>3

-----------------------------------------------------------------------------
(* Every call keeps the indices in order.                                   *)
LEMMA TypesStep == BufferTypeOK /\ [BufferNext]_bufVars => BufferTypeOK'
<1> DEFINE Inv == BufferTypeOK
<1> SUFFICES ASSUME Inv, BufferNext PROVE Inv'
  BY DEF BufferTypeOK, bufVars
<1>1. /\ WellFormed(buf) /\ buf.bytes \in Seq(Byte) /\ Len(buf.bytes) \in Nat
      /\ buf.readIndex \in Nat /\ buf.writeIndex \in Nat
  BY LenProperties DEF BufferTypeOK, WellFormed
<1>0. misused' \in BOOLEAN
  BY DEF BufferNext, BufferTypeOK
<1>2. ASSUME NEW c, NEW b, NEW bytes \in Seq(Byte), WellFormed(b), Returns(c, b, bytes)
      PROVE  Inv'
  BY <1>0, <1>2 DEF Returns, WellFormed, BufferTypeOK
<1>3. ASSUME NEW c, Aborts(c) PROVE Inv'
  BY <1>0, <1>3, EmptySeq DEF Aborts, BufferTypeOK
<1>4. <<>> \in Seq(Byte)
  BY EmptySeq
<1>5. ASSUME NEW s \in Inputs, Write(s) PROVE Inv'
  <2>1. s \in Seq(Byte)
    BY BufferAssumption
  <2> QED
    BY <1>1, <1>2, <1>4, <1>5, <2>1, WrittenWellFormed DEF Write
<1>6. ASSUME NEW s \in Inputs, Readfd(s) PROVE Inv'
  <2> DEFINE room == WriteableBytes(buf)
             direct == IF Len(s) < room THEN Len(s) ELSE room
             filled == Written(buf, SubSeq(s, 1, direct))
             final == Written(filled, SubSeq(s, direct + 1, Len(s)))
  <2>1. s \in Seq(Byte) /\ Len(s) \in Nat
    BY BufferAssumption, LenProperties
  <2>2. direct \in Nat /\ direct <= Len(s)
    BY <1>1, <2>1 DEF WellFormed, WriteableBytes
  <2>3. Returns([op |-> "Write", bytes |-> s], final, <<>>)
    BY <1>6 DEF Readfd
  <2> HIDE DEF direct
  <2>4. SubSeq(s, 1, direct) \in Seq(Byte) /\ SubSeq(s, direct + 1, Len(s)) \in Seq(Byte)
    BY <2>1, <2>2, Stretch
  <2>5. WellFormed(filled)
    BY <1>1, <2>4, WrittenWellFormed
  <2> HIDE DEF filled
  <2>6. WellFormed(final)
    BY <2>4, <2>5, WrittenWellFormed
  <2> QED
    BY <1>2, <1>4, <2>3, <2>6
<1>7. ASSUME NEW s \in Inputs, AssignString(s) PROVE Inv'
  <2>1. s \in Seq(Byte) /\ WellFormed(Empty(InitSize))
    BY BufferAssumption, EmptyWellFormed
  <2> QED
    BY <1>2, <1>4, <1>7, <2>1, WrittenWellFormed DEF AssignString
<1>8. ASSUME NEW s \in Inputs, AssignPointer(s) PROVE Inv'
  <2> DEFINE b == [Empty(InitSize) EXCEPT !.writeIndex = Len(s)]
             c == [op |-> "Assign", bytes |-> s]
  <2>1. s \in Seq(Byte) /\ Len(s) \in Nat /\ InitSize \in Nat
    BY BufferAssumption, LenProperties
  <2>2. Len(s) <= InitSize => WellFormed(b)
    BY <2>1, ZerosBytes DEF Empty, WellFormed
  <2>3. \/ Len(s) <= InitSize /\ Returns(c, Written(b, s), <<>>)
        \/ Aborts(c)
    BY <1>8 DEF AssignPointer
  <2> HIDE DEF b, c
  <2> QED
    BY <1>2, <1>3, <1>4, <2>1, <2>2, <2>3, WrittenWellFormed
<1>9. ASSUME NEW n \in Lengths, WriteNull(n) PROVE Inv'
  BY <1>1, <1>2, <1>4, <1>9, BufferAssumption, WrittenNullWellFormed DEF WriteNull
<1>10. ASSUME NEW n \in Lengths, Recycle(n) PROVE Inv'
  BY <1>1, <1>2, <1>4, <1>10, BufferAssumption, RecycledWellFormed DEF Recycle
<1>11. ASSUME NEW n \in Lengths, AssignNew(n) PROVE Inv'
  BY <1>2, <1>4, <1>11, BufferAssumption, NewWellFormed DEF AssignNew
<1>12. ASSUME NEW n \in Nat, n <= ReadableBytes(buf)
       PROVE  WellFormed([buf EXCEPT !.readIndex = @ + n])
  BY <1>1, <1>12 DEF WellFormed, ReadableBytes
<1>13. ASSUME NEW n \in Lengths, Read(n) PROVE Inv'
  <2> DEFINE bytes == SubSeq(buf.bytes, buf.readIndex + 1, buf.readIndex + n)
             b == [buf EXCEPT !.readIndex = @ + n]
             c == [op |-> "Read", n |-> n]
  <2>1. n \in Nat
    BY BufferAssumption
  <2>2. n <= ReadableBytes(buf) => bytes \in Seq(Byte) /\ WellFormed(b)
    BY <1>1, <1>12, <2>1, Stretch DEF WellFormed, ReadableBytes
  <2>3. (ReadableBytes(buf) >= n /\ Returns(c, b, bytes)) \/ Aborts(c)
    BY <1>13 DEF Read
  <2>4. ReadableBytes(buf) \in Nat
    BY <1>1 DEF WellFormed, ReadableBytes
  <2> HIDE DEF b, c, bytes
  <2> QED
    BY <1>2, <1>3, <2>1, <2>2, <2>3, <2>4
<1>14. ASSUME ReadCString PROVE Inv'
  <2> DEFINE str(end) == SubSeq(buf.bytes, buf.readIndex + 1, end)
             len(index) == (index + SizeMod - buf.readIndex + 1) % SizeMod
             b(index) == [buf EXCEPT !.readIndex = @ + len(index)]
             c == [op |-> "ReadCString"]
  <2>1. PICK index \in Nat, end \in Nat :
          /\ end <= Len(buf.bytes)
          /\ \/ ReadableBytes(buf) >= len(index) /\ Returns(c, b(index), str(end))
             \/ Aborts(c)
    <3>1. CASE NulsAhead = {}
      BY <1>1, <1>14, <3>1 DEF ReadCString
    <3>2. CASE NulsAhead # {}
      <4>1. PICK i \in NulsAhead :
              \/ ReadableBytes(buf) >= len(i) /\ Returns(c, b(i), str(i))
              \/ Aborts(c)
        BY <1>14, <3>2 DEF ReadCString
      <4>2. i \in Nat /\ i <= Len(buf.bytes)
        BY <1>1 DEF NulsAhead
      <4> QED
        BY <4>1, <4>2
    <3> QED
      BY <3>1, <3>2
  <2>2. str(end) \in Seq(Byte)
    BY <1>1, <2>1, Stretch
  <2>3. len(index) \in Nat
    <3>1. SizeMod \in Nat /\ InitSize \in Nat /\ InitSize < SizeMod
      BY BufferAssumption
    <3>2. buf.readIndex \in Nat
      BY <1>1 DEF WellFormed
    <3>3. SizeMod \in Nat \ {0} /\ (index + SizeMod - buf.readIndex) + 1 \in Int
      BY <3>1, <3>2
    <3> QED
      BY <3>3
  <2>4. ReadableBytes(buf) \in Nat
    BY <1>1 DEF WellFormed, ReadableBytes
  <2> HIDE DEF len
  <2>5. ReadableBytes(buf) >= len(index) => WellFormed(b(index))
    BY <1>12, <2>3, <2>4
  <2> HIDE DEF b, c, str
  <2> QED
    BY <1>2, <1>3, <2>1, <2>2, <2>5
<1> QED
  BY <1>5, <1>6, <1>7, <1>8, <1>9, <1>10, <1>11, <1>13, <1>14 DEF BufferNext

(* Whatever is called, by callers of every discipline, the read index never *)
(* passes the write index, nor the write index the end of the vector, which *)
(* all asserts of the class rely on.                                        *)
THEOREM IndicesInOrder == BufferSpec => []BufferTypeOK
<1>1. BufferInit => BufferTypeOK
  BY NewWellFormed, BufferAssumption, EmptySeq DEF BufferInit, BufferTypeOK, WellFormed
<1> QED
  BY <1>1, TypesStep, PTL DEF BufferSpec

-----------------------------------------------------------------------------
(* What the methods do to the contents                                      *)

(* What lies between the indices, byte by byte.                             *)
LEMMA ContentsAt ==
  ASSUME NEW b, WellFormed(b)
  PROVE  /\ Contents(b) \in Seq(Byte) /\ ReadableBytes(b) \in Nat
         /\ Len(Contents(b)) = ReadableBytes(b)
         /\ \A i \in 1 .. ReadableBytes(b) : Contents(b)[i] = b.bytes[b.readIndex + i]
<1>1. /\ b.bytes \in Seq(Byte) /\ Len(b.bytes) \in Nat
      /\ b.readIndex \in Nat /\ b.writeIndex \in Nat
      /\ b.readIndex <= b.writeIndex /\ b.writeIndex <= Len(b.bytes)
  BY LenProperties DEF WellFormed
<1>2. \A i \in b.readIndex + 1 .. b.writeIndex : b.bytes[i] \in Byte
  BY <1>1, ElementOfSeq
<1>3. /\ Contents(b) \in Seq(Byte)
      /\ Len(Contents(b)) = IF b.readIndex + 1 <= b.writeIndex
                              THEN b.writeIndex - (b.readIndex + 1) + 1 ELSE 0
      /\ \A i \in 1 .. b.writeIndex - (b.readIndex + 1) + 1 :
           Contents(b)[i] = b.bytes[(b.readIndex + 1) + i - 1]
  <2>1. b.readIndex + 1 \in Int /\ b.writeIndex \in Int
    BY <1>1
  <2> QED
    BY <1>2, <2>1, SubSeqProperties DEF Contents
<1>4. Len(Contents(b)) = b.writeIndex - b.readIndex
  BY <1>1, <1>3
<1>5. ASSUME NEW i \in 1 .. b.writeIndex - b.readIndex
      PROVE  Contents(b)[i] = b.bytes[b.readIndex + i]
  <2>1. (b.readIndex + 1) + i - 1 = b.readIndex + i
    BY <1>1
  <2>2. i \in 1 .. b.writeIndex - (b.readIndex + 1) + 1
    BY <1>1
  <2> QED
    BY <1>3, <2>1, <2>2
<1> QED
  BY <1>1, <1>3, <1>4, <1>5 DEF ReadableBytes

(* Overwriting leaves what lies before, and puts the string there.          *)
LEMMA OverwrittenAt ==
  ASSUME NEW bytes \in Seq(Byte), NEW offset \in 0 .. Len(bytes), NEW s \in Seq(Byte)
  PROVE  /\ Len(Overwritten(bytes, offset, s)) =
              IF offset + Len(s) <= Len(bytes) THEN Len(bytes) ELSE offset + Len(s)
         /\ \A i \in 1 .. offset : Overwritten(bytes, offset, s)[i] = bytes[i]
         /\ \A i \in 1 .. Len(s) : Overwritten(bytes, offset, s)[offset + i] = s[i]
<1> DEFINE front == SubSeq(bytes, 1, offset)
           back == SubSeq(bytes, offset + Len(s) + 1, Len(bytes))
           fs == front \o s
<1>1. Len(bytes) \in Nat /\ Len(s) \in Nat /\ offset \in Nat /\ offset <= Len(bytes)
  BY LenProperties
<1>2. /\ front \in Seq(Byte) /\ Len(front) = offset
      /\ \A i \in 1 .. offset : front[i] = bytes[i]
  <2>1. \A i \in 1 .. offset : bytes[i] \in Byte
    BY <1>1, ElementOfSeq
  <2>2. /\ front \in Seq(Byte) /\ Len(front) = IF 1 <= offset THEN offset - 1 + 1 ELSE 0
        /\ \A i \in 1 .. offset - 1 + 1 : front[i] = bytes[1 + i - 1]
    BY <1>1, <2>1, SubSeqProperties
  <2> QED
    BY <1>1, <2>2
<1>3. /\ back \in Seq(Byte)
      /\ Len(back) = IF offset + Len(s) + 1 <= Len(bytes)
                       THEN Len(bytes) - (offset + Len(s) + 1) + 1 ELSE 0
  <2>1. offset + Len(s) + 1 \in Nat \ {0}
    BY <1>1
  <2> QED
    BY <1>1, <2>1, Stretch
<1> HIDE DEF front, back
<1>4. /\ fs \in Seq(Byte) /\ Len(fs) = offset + Len(s)
      /\ \A i \in 1 .. offset + Len(s) : fs[i] = IF i <= offset THEN front[i] ELSE s[i - offset]
  BY <1>1, <1>2, ConcatProperties
<1> HIDE DEF fs
<1>5. /\ Len(fs \o back) = offset + Len(s) + Len(back)
      /\ \A i \in 1 .. offset + Len(s) : (fs \o back)[i] = fs[i]
  <2>1. /\ Len(fs \o back) = Len(fs) + Len(back)
        /\ \A i \in 1 .. Len(fs) + Len(back) :
             (fs \o back)[i] = IF i <= Len(fs) THEN fs[i] ELSE back[i - Len(fs)]
    BY <1>3, <1>4, ConcatProperties
  <2>2. Len(back) \in Nat
    BY <1>3, LenProperties
  <2>3. \A i \in 1 .. offset + Len(s) : i \in 1 .. Len(fs) + Len(back) /\ i <= Len(fs)
    BY <1>1, <1>4, <2>2
  <2> QED
    BY <1>4, <2>1, <2>3
<1>6. Overwritten(bytes, offset, s) = fs \o back
  BY DEF Overwritten, front, back, fs
<1>7. offset + Len(s) + Len(back) =
        IF offset + Len(s) <= Len(bytes) THEN Len(bytes) ELSE offset + Len(s)
  <2>1. CASE offset + Len(s) + 1 <= Len(bytes)
    <3>1. Len(back) = Len(bytes) - (offset + Len(s) + 1) + 1
      BY <1>3, <2>1
    <3> QED
      BY <1>1, <2>1, <3>1
  <2>2. CASE ~(offset + Len(s) + 1 <= Len(bytes))
    <3>1. Len(back) = 0
      BY <1>3, <2>2
    <3> QED
      BY <1>1, <2>2, <3>1
  <2> QED
    BY <2>1, <2>2
<1>8. \A i \in 1 .. offset : i \in 1 .. offset + Len(s) /\ i <= offset
  BY <1>1
<1>9. \A i \in 1 .. Len(s) : /\ offset + i \in 1 .. offset + Len(s) /\ ~(offset + i <= offset)
                             /\ (offset + i) - offset = i
  BY <1>1
<1>10. \A i \in 1 .. offset : (fs \o back)[i] = bytes[i]
  BY <1>2, <1>4, <1>5, <1>8
<1>11. \A i \in 1 .. Len(s) : (fs \o back)[offset + i] = s[i]
  BY <1>4, <1>5, <1>9
<1> QED
  BY <1>5, <1>6, <1>7, <1>10, <1>11

(* Moving to the front, which overwrites what was read with what was not.   *)
LEMMA MoveForwardContents ==
  ASSUME NEW b, WellFormed(b)
  PROVE  /\ Contents(moveForward(b)) = Contents(b)
         /\ Len(moveForward(b).bytes) = Len(b.bytes)
<1> DEFINE m == moveForward(b)
           q == Contents(b)
<1>1. WellFormed(m) /\ b.bytes \in Seq(Byte) /\ Len(b.bytes) \in Nat
  BY MoveForwardWellFormed, LenProperties DEF WellFormed
<1>2. q \in Seq(Byte) /\ ReadableBytes(b) \in Nat /\ Len(q) = ReadableBytes(b)
  BY ContentsAt
<1>3. ReadableBytes(b) <= Len(b.bytes)
  BY <1>1 DEF WellFormed, ReadableBytes
<1>4. m.bytes = Overwritten(b.bytes, 0, q) /\ m.readIndex = 0 /\ m.writeIndex = ReadableBytes(b)
  BY DEF moveForward
<1> HIDE DEF m, q
<1>5. /\ Len(m.bytes) = IF 0 + Len(q) <= Len(b.bytes) THEN Len(b.bytes) ELSE 0 + Len(q)
      /\ \A i \in 1 .. Len(q) : m.bytes[0 + i] = q[i]
  <2>1. 0 \in 0 .. Len(b.bytes)
    BY <1>1
  <2>2. /\ Len(Overwritten(b.bytes, 0, q)) =
             IF 0 + Len(q) <= Len(b.bytes) THEN Len(b.bytes) ELSE 0 + Len(q)
        /\ \A i \in 1 .. Len(q) : Overwritten(b.bytes, 0, q)[0 + i] = q[i]
    BY <1>1, <1>2, <2>1, OverwrittenAt
  <2> QED
    BY <1>4, <2>2
<1>6. Len(m.bytes) = Len(b.bytes)
  BY <1>1, <1>2, <1>3, <1>5
<1>7. ReadableBytes(m) = Len(q)
  BY <1>2, <1>4 DEF ReadableBytes
<1>8. /\ Contents(m) \in Seq(Byte) /\ Len(Contents(m)) = Len(q)
      /\ \A i \in 1 .. Len(q) : Contents(m)[i] = m.bytes[0 + i]
  BY <1>1, <1>4, <1>7, ContentsAt
<1>9. Contents(m) = q
  BY <1>2, <1>5, <1>8, SeqEqual
<1> QED
  BY <1>6, <1>9 DEF m, q

LEMMA MadeRoomContents ==
  ASSUME NEW b, WellFormed(b), NEW len
  PROVE  /\ Contents(MadeRoom(b, len)) = Contents(b)
         /\ Len(MadeRoom(b, len).bytes) = Len(b.bytes)
BY MoveForwardContents DEF MadeRoom

(* The contents grow at their end by what comes to lie behind the write     *)
(* index, when the rest is left where it was.                               *)
LEMMA ContentsGrow ==
  ASSUME NEW c, WellFormed(c), NEW d, WellFormed(d), NEW s \in Seq(Byte),
         d.readIndex = c.readIndex, d.writeIndex = c.writeIndex + Len(s),
         \A i \in 1 .. c.writeIndex : d.bytes[i] = c.bytes[i],
         \A i \in 1 .. Len(s) : d.bytes[c.writeIndex + i] = s[i]
  PROVE  Contents(d) = Contents(c) \o s
<1> DEFINE n == ReadableBytes(c)
<1>1. /\ c.readIndex \in Nat /\ c.writeIndex \in Nat /\ c.readIndex <= c.writeIndex
      /\ Len(s) \in Nat /\ n \in Nat /\ c.writeIndex = c.readIndex + n
      /\ ReadableBytes(d) = n + Len(s)
  BY LenProperties DEF WellFormed, ReadableBytes
<1>2. /\ Contents(c) \in Seq(Byte) /\ Len(Contents(c)) = n
      /\ \A i \in 1 .. n : Contents(c)[i] = c.bytes[c.readIndex + i]
  BY ContentsAt
<1>3. /\ Contents(d) \in Seq(Byte) /\ Len(Contents(d)) = n + Len(s)
      /\ \A i \in 1 .. n + Len(s) : Contents(d)[i] = d.bytes[c.readIndex + i]
  <2>1. /\ Contents(d) \in Seq(Byte) /\ Len(Contents(d)) = ReadableBytes(d)
        /\ \A i \in 1 .. ReadableBytes(d) : Contents(d)[i] = d.bytes[d.readIndex + i]
    BY ContentsAt
  <2> QED
    BY <1>1, <2>1
<1> HIDE DEF n
<1>4. /\ Contents(c) \o s \in Seq(Byte) /\ Len(Contents(c) \o s) = n + Len(s)
      /\ \A i \in 1 .. n + Len(s) :
           (Contents(c) \o s)[i] = IF i <= n THEN Contents(c)[i] ELSE s[i - n]
  BY <1>2, ConcatProperties
<1>5. ASSUME NEW i \in 1 .. n + Len(s) PROVE Contents(d)[i] = (Contents(c) \o s)[i]
  <2>1. CASE i <= n
    <3>1. i \in 1 .. n /\ c.readIndex + i \in 1 .. c.writeIndex
      BY <1>1, <2>1
    <3> QED
      BY <1>2, <1>3, <1>4, <2>1, <3>1
  <2>2. CASE ~(i <= n)
    <3>1. i - n \in 1 .. Len(s) /\ c.readIndex + i = c.writeIndex + (i - n)
      BY <1>1, <2>2
    <3>2. d.bytes[c.readIndex + i] = s[i - n]
      BY <3>1
    <3> QED
      BY <1>3, <1>4, <2>2, <3>2
  <2> QED
    BY <2>1, <2>2
<1>6. Len(Contents(d)) = Len(Contents(c) \o s)
  BY <1>3, <1>4
<1>7. \A i \in 1 .. Len(Contents(d)) : Contents(d)[i] = (Contents(c) \o s)[i]
  BY <1>3, <1>5
<1> QED
  BY <1>3, <1>4, <1>6, <1>7, SeqEqual

(* A write appends, whether it finds room, makes it or grows the vector.    *)
LEMMA WrittenContents ==
  ASSUME NEW b, WellFormed(b), NEW s \in Seq(Byte)
  PROVE  /\ Contents(Written(b, s)) = Contents(b) \o s
         /\ Len(Written(b, s).bytes) <= Len(b.bytes) + Len(s)
<1> DEFINE c == MadeRoom(b, Len(s))
           d == Written(b, s)
<1>1. /\ WellFormed(c) /\ WellFormed(d) /\ Contents(c) = Contents(b)
      /\ Len(c.bytes) = Len(b.bytes)
  BY MadeRoomWellFormed, WrittenWellFormed, MadeRoomContents
<1>2. /\ d.bytes = Overwritten(c.bytes, c.writeIndex, s)
      /\ d.readIndex = c.readIndex /\ d.writeIndex = c.writeIndex + Len(s)
  BY DEF Written
<1> HIDE DEF c, d
<1>3. c.bytes \in Seq(Byte) /\ Len(c.bytes) \in Nat /\ c.writeIndex \in 0 .. Len(c.bytes)
      /\ Len(s) \in Nat
  BY <1>1, LenProperties DEF WellFormed
<1>4. /\ Len(d.bytes) = IF c.writeIndex + Len(s) <= Len(c.bytes) THEN Len(c.bytes)
                          ELSE c.writeIndex + Len(s)
      /\ \A i \in 1 .. c.writeIndex : d.bytes[i] = c.bytes[i]
      /\ \A i \in 1 .. Len(s) : d.bytes[c.writeIndex + i] = s[i]
  BY <1>2, <1>3, OverwrittenAt
<1>5. Contents(d) = Contents(c) \o s
  BY <1>1, <1>2, <1>4, ContentsGrow
<1>6. Len(d.bytes) <= Len(b.bytes) + Len(s)
  BY <1>1, <1>3, <1>4
<1> QED
  BY <1>1, <1>5, <1>6 DEF d

(* WriteNull appends bytes, whichever were there.                           *)
LEMMA WrittenNullContents ==
  ASSUME NEW b, WellFormed(b), NEW len \in Nat
  PROVE  \E t \in [1 .. len -> Byte] : Contents(WrittenNull(b, len)) = Contents(b) \o t
<1> DEFINE c == MadeRoom(b, len)
           d == WrittenNull(b, len)
           more == IF WriteableBytes(c) < len THEN len - WriteableBytes(c) ELSE 0
           t == [i \in 1 .. len |-> d.bytes[c.writeIndex + i]]
<1>1. WellFormed(c) /\ WellFormed(d) /\ Contents(c) = Contents(b)
  BY MadeRoomWellFormed, WrittenNullWellFormed, MadeRoomContents
<1>2. /\ d.bytes = c.bytes \o Zeros(more)
      /\ d.readIndex = c.readIndex /\ d.writeIndex = c.writeIndex + len
  BY DEF WrittenNull
<1> HIDE DEF c, d
<1>3. /\ c.bytes \in Seq(Byte) /\ Len(c.bytes) \in Nat /\ c.writeIndex \in Nat
      /\ c.writeIndex <= Len(c.bytes) /\ more \in Nat
      /\ d.bytes \in Seq(Byte) /\ Len(d.bytes) \in Nat
      /\ c.writeIndex + len <= Len(d.bytes)
  <2>1. /\ c.bytes \in Seq(Byte) /\ Len(c.bytes) \in Nat /\ c.writeIndex \in Nat
        /\ c.writeIndex <= Len(c.bytes)
    BY <1>1, LenProperties DEF WellFormed
  <2>2. d.bytes \in Seq(Byte) /\ Len(d.bytes) \in Nat /\ d.writeIndex <= Len(d.bytes)
    BY <1>1, LenProperties DEF WellFormed
  <2>3. more \in Nat
    BY <2>1 DEF WriteableBytes
  <2> QED
    BY <1>2, <2>1, <2>2, <2>3
<1> HIDE DEF more
<1>4. Zeros(more) \in Seq(Byte) /\ Len(Zeros(more)) = more
  BY <1>3, ZerosBytes
<1>5. ASSUME NEW i \in 1 .. c.writeIndex PROVE d.bytes[i] = c.bytes[i]
  <2>1. i \in 1 .. Len(c.bytes) + Len(Zeros(more)) /\ i <= Len(c.bytes)
    BY <1>3, <1>4
  <2> QED
    BY <1>2, <1>3, <1>4, <2>1, ConcatProperties
<1>6. \A i \in 1 .. len : d.bytes[c.writeIndex + i] \in Byte
  <2>1. \A i \in 1 .. len : c.writeIndex + i \in 1 .. Len(d.bytes)
    BY <1>3
  <2> QED
    BY <1>3, <2>1, ElementOfSeq
<1>7. t \in [1 .. len -> Byte] /\ \A i \in 1 .. len : t[i] = d.bytes[c.writeIndex + i]
  BY <1>6
<1> HIDE DEF t
<1>8. t \in Seq(Byte)
  BY <1>7, SeqDef
<1>9. Len(t) = len
  <2>1. DOMAIN t = 1 .. len /\ DOMAIN t = 1 .. Len(t) /\ Len(t) \in Nat
    BY <1>7, <1>8, LenProperties
  <2> QED
    BY <2>1
<1>10. Contents(d) = Contents(c) \o t
  BY <1>1, <1>2, <1>5, <1>7, <1>8, <1>9, ContentsGrow
<1> QED
  BY <1>1, <1>7, <1>10 DEF d

(* Moving the read index on takes from the front.                           *)
LEMMA TakenContents ==
  ASSUME NEW b, WellFormed(b), NEW n \in Nat, n <= ReadableBytes(b)
  PROVE  /\ Contents([b EXCEPT !.readIndex = @ + n]) = SubSeq(Contents(b), n + 1, Len(Contents(b)))
         /\ SubSeq(b.bytes, b.readIndex + 1, b.readIndex + n) = SubSeq(Contents(b), 1, n)
<1> DEFINE q == Contents(b)
           r == ReadableBytes(b)
           d == [b EXCEPT !.readIndex = @ + n]
           rest == SubSeq(q, n + 1, Len(q))
           taken == SubSeq(q, 1, n)
           bytes == SubSeq(b.bytes, b.readIndex + 1, b.readIndex + n)
<1>1. /\ b.bytes \in Seq(Byte) /\ Len(b.bytes) \in Nat
      /\ b.readIndex \in Nat /\ b.writeIndex \in Nat
      /\ b.writeIndex = b.readIndex + r /\ b.writeIndex <= Len(b.bytes) /\ r \in Nat /\ n <= r
  BY LenProperties DEF WellFormed, ReadableBytes
<1>2. /\ WellFormed(d) /\ d.bytes = b.bytes /\ d.readIndex = b.readIndex + n
      /\ d.writeIndex = b.writeIndex /\ ReadableBytes(d) = r - n
  <2>1. /\ d.bytes = b.bytes /\ d.readIndex = b.readIndex + n /\ d.writeIndex = b.writeIndex
        /\ d \in [bytes : Seq(Byte), readIndex : Nat, writeIndex : Nat]
    BY <1>1 DEF WellFormed
  <2> HIDE DEF d
  <2>2. d.readIndex <= d.writeIndex /\ d.writeIndex <= Len(d.bytes)
        /\ d.writeIndex - d.readIndex = r - n
    BY <1>1, <2>1
  <2> QED
    BY <2>1, <2>2 DEF WellFormed, ReadableBytes
<1>3. /\ q \in Seq(Byte) /\ Len(q) = r
      /\ \A i \in 1 .. r : q[i] = b.bytes[b.readIndex + i] /\ q[i] \in Byte
  BY ContentsAt, ElementOfSeq
<1>4. /\ Contents(d) \in Seq(Byte) /\ Len(Contents(d)) = r - n
      /\ \A i \in 1 .. r - n : Contents(d)[i] = b.bytes[(b.readIndex + n) + i]
  BY <1>2, ContentsAt
<1> HIDE DEF q, r, d
<1>5. /\ rest \in Seq(Byte) /\ Len(rest) = r - n
      /\ \A i \in 1 .. r - n : rest[i] = q[n + i]
  <2>1. \A i \in n + 1 .. Len(q) : q[i] \in Byte
    BY <1>1, <1>3
  <2>2. /\ rest \in Seq(Byte)
        /\ Len(rest) = IF n + 1 <= Len(q) THEN Len(q) - (n + 1) + 1 ELSE 0
        /\ \A i \in 1 .. Len(q) - (n + 1) + 1 : rest[i] = q[(n + 1) + i - 1]
    BY <1>1, <1>3, <2>1, SubSeqProperties
  <2>3. \A i \in 1 .. r - n : i \in 1 .. Len(q) - (n + 1) + 1 /\ (n + 1) + i - 1 = n + i
    BY <1>1, <1>3
  <2>4. Len(rest) = r - n
    BY <1>1, <1>3, <2>2
  <2> QED
    BY <2>2, <2>3, <2>4
<1>6. /\ taken \in Seq(Byte) /\ Len(taken) = n
      /\ \A i \in 1 .. n : taken[i] = q[i]
  <2>1. \A i \in 1 .. n : q[i] \in Byte
    BY <1>1, <1>3
  <2>2. /\ taken \in Seq(Byte) /\ Len(taken) = IF 1 <= n THEN n - 1 + 1 ELSE 0
        /\ \A i \in 1 .. n - 1 + 1 : taken[i] = q[1 + i - 1]
    BY <2>1, SubSeqProperties
  <2> QED
    BY <2>2
<1>7. /\ bytes \in Seq(Byte) /\ Len(bytes) = n
      /\ \A i \in 1 .. n : bytes[i] = b.bytes[b.readIndex + i]
  <2>1. \A i \in b.readIndex + 1 .. b.readIndex + n : b.bytes[i] \in Byte
    BY <1>1, ElementOfSeq
  <2>2. /\ bytes \in Seq(Byte)
        /\ Len(bytes) = IF b.readIndex + 1 <= b.readIndex + n
                          THEN (b.readIndex + n) - (b.readIndex + 1) + 1 ELSE 0
        /\ \A i \in 1 .. (b.readIndex + n) - (b.readIndex + 1) + 1 :
             bytes[i] = b.bytes[(b.readIndex + 1) + i - 1]
    <3>1. b.readIndex + 1 \in Int /\ b.readIndex + n \in Int
      BY <1>1
    <3> QED
      BY <2>1, <3>1, SubSeqProperties
  <2>3. \A i \in 1 .. n : /\ i \in 1 .. (b.readIndex + n) - (b.readIndex + 1) + 1
                          /\ (b.readIndex + 1) + i - 1 = b.readIndex + i
    BY <1>1
  <2>4. Len(bytes) = n
    BY <1>1, <2>2
  <2> QED
    BY <2>2, <2>3, <2>4
<1> HIDE DEF rest, taken, bytes
<1>8. Contents(d) = rest
  <2>1. \A i \in 1 .. r - n : n + i \in 1 .. r /\ (b.readIndex + n) + i = b.readIndex + (n + i)
    BY <1>1
  <2>2. \A i \in 1 .. r - n : Contents(d)[i] = rest[i]
    BY <1>3, <1>4, <1>5, <2>1
  <2> QED
    BY <1>4, <1>5, <2>2, SeqEqual
<1>9. bytes = taken
  <2>1. \A i \in 1 .. n : i \in 1 .. r
    BY <1>1
  <2>2. \A i \in 1 .. n : bytes[i] = taken[i]
    BY <1>3, <1>6, <1>7, <2>1
  <2> QED
    BY <1>6, <1>7, <2>2, SeqEqual
<1> QED
  BY <1>8, <1>9 DEF d, rest, q, bytes, taken

(* Dropping takes from the front too, and where all is dropped, the rest of *)
(* the memory is cleared.                                                   *)
LEMMA RecycledContents ==
  ASSUME NEW b, WellFormed(b), NEW n \in Nat
  PROVE  /\ Contents(Recycled(b, n)) = SubSeq(Contents(b), n + 1, Len(Contents(b)))
         /\ Len(Recycled(b, n).bytes) = Len(b.bytes)
<1>1. ReadableBytes(b) \in Nat /\ Len(Contents(b)) = ReadableBytes(b) /\ Len(b.bytes) \in Nat
  BY ContentsAt, LenProperties DEF WellFormed
<1>2. CASE n < ReadableBytes(b)
  <2>1. Recycled(b, n) = [b EXCEPT !.readIndex = @ + n]
    BY <1>2 DEF Recycled
  <2>2. n <= ReadableBytes(b)
    BY <1>1, <1>2
  <2>3. [b EXCEPT !.readIndex = @ + n].bytes = b.bytes
    BY DEF WellFormed
  <2> QED
    BY <2>1, <2>2, <2>3, TakenContents
<1>3. CASE ~(n < ReadableBytes(b))
  <2>1. Recycled(b, n) = Empty(Len(b.bytes))
    BY <1>3 DEF Recycled, InitAll
  <2>2. Contents(Empty(Len(b.bytes))) = <<>>
    BY SubSeqEmpty DEF Contents, Empty
  <2>3. SubSeq(Contents(b), n + 1, Len(Contents(b))) = <<>>
    BY <1>1, <1>3, SubSeqEmpty
  <2>4. Len(Empty(Len(b.bytes)).bytes) = Len(b.bytes)
    BY <1>1, ZerosBytes DEF Empty
  <2> QED
    BY <2>1, <2>2, <2>3, <2>4
<1> QED
  BY <1>2, <1>3

LEMMA NewContents ==
  ASSUME NEW size \in Nat
  PROVE  Contents(New(size)) = <<>>
BY SubSeqEmpty DEF Contents, New, Empty

LEMMA BytesAssociative ==
  ASSUME NEW p \in Seq(Byte), NEW s \in Seq(Byte), NEW t \in Seq(Byte)
  PROVE  (p \o s) \o t = p \o (s \o t)
BY ConcatAssociative

(* What readv spills is appended to what it reads.                          *)
LEMMA SpilledContents ==
  ASSUME NEW b, WellFormed(b), NEW s \in Seq(Byte), NEW n \in 0 .. Len(s)
  PROVE  Contents(Written(Written(b, SubSeq(s, 1, n)), SubSeq(s, n + 1, Len(s)))) = Contents(b) \o s
<1> DEFINE front == SubSeq(s, 1, n)
           back == SubSeq(s, n + 1, Len(s))
           c == Written(b, front)
<1>1. Len(s) \in Nat /\ n \in Nat /\ n <= Len(s)
  BY LenProperties
<1>2. front \in Seq(Byte) /\ back \in Seq(Byte)
  BY <1>1, Stretch
<1>3. front \o back = s
  <2>1. 1 \in 1 .. Len(s) + 1 /\ n \in 1 - 1 .. Len(s) /\ Len(s) \in n .. Len(s)
    BY <1>1
  <2>2. front \o back = SubSeq(s, 1, Len(s))
    BY <2>1, ConcatAdjacentSubSeq
  <2> QED
    BY <2>2, SubSeqFull
<1> HIDE DEF front, back
<1>4. WellFormed(c) /\ Contents(c) = Contents(b) \o front
  BY <1>2, WrittenWellFormed, WrittenContents
<1> HIDE DEF c
<1>5. Contents(Written(c, back)) = (Contents(b) \o front) \o back
  BY <1>2, <1>4, WrittenContents
<1>6. (Contents(b) \o front) \o back = Contents(b) \o (front \o back)
  <2>1. Contents(b) \in Seq(Byte)
    BY ContentsAt
  <2> QED
    BY <1>2, <2>1, BytesAssociative
<1> QED
  BY <1>3, <1>5, <1>6 DEF c, front, back

-----------------------------------------------------------------------------
(* A Buffer is a queue of bytes                                             *)

(* The sizes a size_t holds: the first buffer, and the strings callers give *)
(* a buffer that is made of one.                                            *)
Fits ==
  /\ <<>> \in Inputs
  /\ Len(New(InitSize).bytes) < SizeMod
  /\ \A s \in Inputs : InitSize + Len(s) < SizeMod

(* A vector of as many bytes as size_t has values has none: what ReadCString *)
(* asks for when it finds no NUL is then more than any buffer holds.        *)
QueueInv == BufferTypeOK /\ (~misused => Len(buf.bytes) < SizeMod)

(* The remainder ReadCString takes of the distance to the NUL it finds.     *)
LEMMA Wraps ==
  ASSUME NEW m \in Nat, NEW x \in 0 .. m - 1
  PROVE  (m + x) % m = x /\ x % m = x
<1>1. m \in Nat \ {0} /\ x \in Nat /\ x < m
  OBVIOUS
<1>2. x % m = x
  BY <1>1
<1>3. (m + x) % m = x
  BY <1>1
<1> QED
  BY <1>2, <1>3

LEMMA QueueInvInit == Fits /\ BufferInit => QueueInv
BY NewWellFormed, BufferAssumption, EmptySeq
   DEF Fits, BufferInit, QueueInv, BufferTypeOK, WellFormed

(* Every call is one of the queue's, or of a misused buffer.                *)
LEMMA QueueStep ==
  ASSUME Fits, QueueInv, BufferNext, ~misused, ~misused'
  PROVE  /\ Queue!Put \/ Queue!PutAny \/ Queue!Take \/ Queue!TakeString \/ Queue!Drop \/ Queue!Renew
         /\ Len(buf'.bytes) < SizeMod
<1> DEFINE q == Contents(buf)
           ri == buf.readIndex
           r == ReadableBytes(buf)
           L == Len(buf.bytes)
<1>1. /\ WellFormed(buf) /\ buf.bytes \in Seq(Byte) /\ L \in Nat
      /\ ri \in Nat /\ r \in Nat /\ ri + r <= L /\ L < SizeMod /\ SizeMod \in Nat
  BY BufferAssumption, LenProperties DEF QueueInv, BufferTypeOK, WellFormed, ReadableBytes
<1>2. q \in Seq(Byte) /\ Len(q) = r /\ \A i \in 1 .. r : q[i] = buf.bytes[ri + i]
  BY <1>1, ContentsAt
<1>3. MaxBytes \in Nat /\ SizeMod \in Nat /\ MaxBytes < SizeMod /\ InitSize \in Nat
  BY BufferAssumption
<1>4. ASSUME NEW s \in Inputs, Write(s) PROVE Queue!Put /\ Len(buf'.bytes) < SizeMod
  <2>1. s \in Seq(Byte) /\ WellFormed(Written(buf, s))
    BY <1>1, BufferAssumption, WrittenWellFormed
  <2>2. Len(Written(buf, s).bytes) <= MaxBytes /\ Len(Written(buf, s).bytes) \in Nat
    BY <1>4, <2>1, LenProperties DEF Write, WellFormed
  <2>3. Contents(Written(buf, s)) = q \o s
    BY <1>1, <2>1, WrittenContents
  <2>4. /\ buf' = Written(buf, s) /\ call' = [op |-> "Write", bytes |-> s]
        /\ out' = <<>> /\ aborted' = FALSE
    BY <1>4 DEF Write, Returns
  <2>5. Len(buf'.bytes) < SizeMod
    BY <1>3, <2>2, <2>4
  <2>6. Queue!Put
    BY <2>3, <2>4 DEF Queue!Put, Queue!Returns
  <2> QED
    BY <2>5, <2>6
<1>5. ASSUME NEW s \in Inputs, Readfd(s) PROVE Queue!Put /\ Len(buf'.bytes) < SizeMod
  <2> DEFINE room == WriteableBytes(buf)
             direct == IF Len(s) < room THEN Len(s) ELSE room
             filled == Written(buf, SubSeq(s, 1, direct))
             final == Written(filled, SubSeq(s, direct + 1, Len(s)))
  <2>1. s \in Seq(Byte) /\ Len(s) \in Nat
    BY BufferAssumption, LenProperties
  <2>2. direct \in 0 .. Len(s)
    BY <1>1, <2>1 DEF WellFormed, WriteableBytes
  <2>3. /\ buf' = final /\ call' = [op |-> "Write", bytes |-> s]
        /\ out' = <<>> /\ aborted' = FALSE /\ Len(final.bytes) <= MaxBytes
    BY <1>5 DEF Readfd, Returns
  <2> HIDE DEF direct
  <2>4. SubSeq(s, 1, direct) \in Seq(Byte) /\ SubSeq(s, direct + 1, Len(s)) \in Seq(Byte)
    BY <2>1, <2>2, Stretch
  <2>5. WellFormed(final)
    BY <1>1, <2>4, WrittenWellFormed
  <2>6. Contents(final) = q \o s
    BY <1>1, <2>1, <2>2, SpilledContents
  <2> HIDE DEF filled, final
  <2>7. Len(final.bytes) \in Nat
    BY <2>5, LenProperties DEF WellFormed
  <2>8. Len(buf'.bytes) < SizeMod
    BY <1>3, <2>3, <2>7
  <2>9. Queue!Put
    BY <2>3, <2>6 DEF Queue!Put, Queue!Returns
  <2> QED
    BY <2>8, <2>9
<1>6. ASSUME NEW n \in Lengths, WriteNull(n) PROVE Queue!PutAny /\ Len(buf'.bytes) < SizeMod
  <2>1. n \in Nat
    BY BufferAssumption
  <2>2. \E t \in [1 .. n -> Byte] : Contents(WrittenNull(buf, n)) = q \o t
    BY <1>1, <2>1, WrittenNullContents
  <2>3. /\ buf' = WrittenNull(buf, n) /\ call' = [op |-> "WriteNull", n |-> n]
        /\ out' = <<>> /\ aborted' = FALSE /\ Len(WrittenNull(buf, n).bytes) <= MaxBytes
    BY <1>6 DEF WriteNull, Returns
  <2>4. Len(WrittenNull(buf, n).bytes) \in Nat
    BY <1>1, <2>1, WrittenNullWellFormed, LenProperties DEF WellFormed
  <2>5. Len(buf'.bytes) < SizeMod
    BY <1>3, <2>3, <2>4
  <2>6. Queue!PutAny
    BY <2>2, <2>3 DEF Queue!PutAny, Queue!Returns
  <2> QED
    BY <2>5, <2>6
<1>7. ASSUME NEW c, Aborts(c) PROVE Queue!Fails(c) /\ Len(buf'.bytes) < SizeMod
  BY <1>1, <1>7 DEF Aborts, Queue!Fails
<1>8. ASSUME NEW n \in Lengths, Read(n) PROVE Queue!Take /\ Len(buf'.bytes) < SizeMod
  <2> DEFINE c == [op |-> "Read", n |-> n]
  <2>1. n \in Nat
    BY BufferAssumption
  <2>2. CASE r >= n /\ Returns(c, [buf EXCEPT !.readIndex = @ + n],
                                SubSeq(buf.bytes, ri + 1, ri + n))
    <3>1. /\ Contents([buf EXCEPT !.readIndex = @ + n]) = SubSeq(q, n + 1, Len(q))
          /\ SubSeq(buf.bytes, ri + 1, ri + n) = SubSeq(q, 1, n)
      BY <1>1, <2>1, <2>2, TakenContents
    <3>2. [buf EXCEPT !.readIndex = @ + n].bytes = buf.bytes
      BY <1>1 DEF WellFormed
    <3>3. /\ buf' = [buf EXCEPT !.readIndex = @ + n] /\ out' = SubSeq(q, 1, n)
          /\ call' = c /\ aborted' = FALSE
      BY <2>2, <3>1 DEF Returns
    <3>4. Len(buf'.bytes) < SizeMod
      BY <1>1, <3>2, <3>3
    <3>5. n <= Len(q)
      BY <1>1, <1>2, <2>1, <2>2
    <3> QED
      BY <3>1, <3>3, <3>4, <3>5 DEF Queue!Take, Queue!Returns
  <2>3. CASE r < n /\ Aborts(c)
    <3>1. n > Len(q)
      BY <1>1, <1>2, <2>1, <2>3
    <3> QED
      BY <1>7, <2>3, <3>1 DEF Queue!Take
  <2> QED
    BY <1>8, <2>2, <2>3 DEF Read
<1>9. ASSUME NEW n \in Lengths, Recycle(n) PROVE Queue!Drop /\ Len(buf'.bytes) < SizeMod
  <2>1. n \in Nat
    BY BufferAssumption
  <2>2. /\ Contents(Recycled(buf, n)) = SubSeq(q, n + 1, Len(q))
        /\ Len(Recycled(buf, n).bytes) = L
    BY <1>1, <2>1, RecycledContents
  <2>3. /\ buf' = Recycled(buf, n) /\ call' = [op |-> "Recycle", n |-> n]
        /\ out' = <<>> /\ aborted' = FALSE
    BY <1>9 DEF Recycle, Returns
  <2> QED
    BY <1>1, <2>2, <2>3 DEF Queue!Drop, Queue!Returns
<1>10. ASSUME NEW s \in Inputs, AssignString(s) PROVE Queue!Renew /\ Len(buf'.bytes) < SizeMod
  <2>1. s \in Seq(Byte) /\ Len(s) \in Nat /\ WellFormed(Empty(InitSize))
    BY BufferAssumption, EmptyWellFormed, LenProperties
  <2>2. Len(Empty(InitSize).bytes) = InitSize /\ Contents(Empty(InitSize)) = <<>>
    BY <1>3, ZerosBytes, SubSeqEmpty DEF Empty, Contents
  <2>3. /\ Contents(Written(Empty(InitSize), s)) = <<>> \o s
        /\ Len(Written(Empty(InitSize), s).bytes) <= InitSize + Len(s)
    BY <2>1, <2>2, WrittenContents
  <2>4. <<>> \o s = s
    BY <2>1, ConcatEmptySeq
  <2>5. Len(Written(Empty(InitSize), s).bytes) \in Nat
    BY <2>1, WrittenWellFormed, LenProperties DEF WellFormed
  <2>6. Len(Written(Empty(InitSize), s).bytes) < SizeMod
    BY <1>1, <1>3, <2>1, <2>3, <2>5 DEF Fits
  <2>7. /\ buf' = Written(Empty(InitSize), s) /\ call' = [op |-> "Assign", bytes |-> s]
        /\ out' = <<>> /\ aborted' = FALSE
    BY <1>10 DEF AssignString, Returns
  <2> QED
    BY <2>3, <2>4, <2>6, <2>7 DEF Queue!Renew, Queue!Returns
<1>11. ASSUME NEW n \in Lengths, AssignNew(n) PROVE Queue!Renew /\ Len(buf'.bytes) < SizeMod
  <2>1. n \in Nat /\ <<>> \in Inputs
    BY BufferAssumption DEF Fits
  <2>2. Contents(New(n)) = <<>> /\ Len(New(n).bytes) \in Nat
    BY <2>1, NewContents, NewWellFormed, LenProperties DEF WellFormed
  <2>3. /\ buf' = New(n) /\ call' = [op |-> "Assign", bytes |-> <<>>]
        /\ out' = <<>> /\ aborted' = FALSE /\ Len(New(n).bytes) <= MaxBytes
    BY <1>11 DEF AssignNew, Returns
  <2>4. Len(buf'.bytes) < SizeMod
    BY <1>3, <2>2, <2>3
  <2>5. Queue!Renew
    BY <2>1, <2>2, <2>3 DEF Queue!Renew, Queue!Returns
  <2> QED
    BY <2>4, <2>5
<1>12. ASSUME ReadCString, ~(NulsAhead = {} /\ ri < 2)
       PROVE  Queue!TakeString /\ Len(buf'.bytes) < SizeMod
  <2> DEFINE c == [op |-> "ReadCString"]
             len(index) == (index + SizeMod - ri + 1) % SizeMod
  <2>1. \A i \in 1 .. r : q[i] = NUL => (ri + i) - 1 \in NulsAhead
    <3>1. \A i \in 1 .. r : (ri + i) - 1 \in ri .. L - 1 /\ ((ri + i) - 1) + 1 = ri + i
      BY <1>1
    <3> QED
      BY <1>2, <3>1 DEF NulsAhead
  <2>2. ASSUME Aborts(c), \A i \in 1 .. r : q[i] # NUL
        PROVE  Queue!TakeString /\ Len(buf'.bytes) < SizeMod
    BY <1>2, <1>7, <2>2 DEF Queue!TakeString
  <2>3. CASE NulsAhead = {}
    <3>1. (SizeMod - ri) + 1 \in 0 .. SizeMod - 1
      BY <1>1, <1>12, <2>3
    <3>2. ((SizeMod - ri) + 1) % SizeMod = (SizeMod - ri) + 1
      BY <1>1, <3>1, Wraps
    <3>3. len(0) = (SizeMod - ri) + 1
      <4>1. 0 + SizeMod - ri + 1 = (SizeMod - ri) + 1
        BY <1>1
      <4> QED
        BY <3>2, <4>1
    <3>4. ~(r >= len(0))
      BY <1>1, <3>3
    <3>5. \/ r >= len(0) /\ buf' = [buf EXCEPT !.readIndex = @ + len(0)]
          \/ Aborts(c)
      BY <1>12, <2>3 DEF ReadCString, Returns
    <3> QED
      BY <2>1, <2>2, <2>3, <3>4, <3>5
  <2>4. CASE NulsAhead # {}
    <3>1. PICK i \in NulsAhead :
            /\ \A j \in NulsAhead : i <= j
            /\ \/ /\ r >= len(i)
                  /\ Returns(c, [buf EXCEPT !.readIndex = @ + len(i)], SubSeq(buf.bytes, ri + 1, i))
               \/ r < len(i) /\ Aborts(c)
      BY <1>12, <2>4 DEF ReadCString
    <3> DEFINE n == (i - ri) + 1
    <3>2. i \in Nat /\ ri <= i /\ i <= L - 1 /\ buf.bytes[i + 1] = NUL
      BY <1>1 DEF NulsAhead
    <3>3. n \in 0 .. SizeMod - 1 /\ n \in Nat /\ n >= 1 /\ i = ri + (n - 1) /\ i + 1 = ri + n
      <4>1. i \in Nat /\ ri \in Nat /\ L \in Nat /\ SizeMod \in Nat
            /\ ri <= i /\ i <= L - 1 /\ L < SizeMod
        BY <1>1, <3>2
      <4> HIDE DEF L, ri
      <4> QED
        BY <4>1
    <3>4. len(i) = n
      <4>1. i + SizeMod - ri + 1 = SizeMod + n
        BY <1>1, <3>2
      <4>2. (SizeMod + n) % SizeMod = n
        BY <1>1, <3>3, Wraps
      <4> QED
        BY <4>1, <4>2
    <3> HIDE DEF n, len
    <3>5. \A k \in 1 .. r : k < n => q[k] # NUL
      <4>1. \A k \in 1 .. r : k < n => ~(i <= (ri + k) - 1)
        BY <1>1, <3>2, <3>3
      <4> QED
        BY <2>1, <3>1, <4>1
    <3>6. CASE r >= n /\ Returns(c, [buf EXCEPT !.readIndex = @ + n], SubSeq(buf.bytes, ri + 1, i))
      <4>1. n \in 1 .. Len(q) /\ n <= r /\ n - 1 <= r /\ n - 1 \in Nat
        BY <1>1, <1>2, <3>3, <3>6
      <4>2. q[n] = NUL
        BY <1>2, <3>2, <3>3, <4>1
      <4>3. Contents([buf EXCEPT !.readIndex = @ + n]) = SubSeq(q, n + 1, Len(q))
        BY <1>1, <3>3, <4>1, TakenContents
      <4>4. SubSeq(buf.bytes, ri + 1, ri + (n - 1)) = SubSeq(q, 1, n - 1)
        BY <1>1, <4>1, TakenContents
      <4>5. \A k \in 1 .. n - 1 : q[k] # NUL
        <5>1. \A k \in 1 .. n - 1 : k \in 1 .. r /\ k < n
          BY <1>1, <4>1
        <5> QED
          BY <3>5, <5>1
      <4>6. [buf EXCEPT !.readIndex = @ + n].bytes = buf.bytes
        BY <1>1 DEF WellFormed
      <4>7. /\ buf' = [buf EXCEPT !.readIndex = @ + n] /\ out' = SubSeq(q, 1, n - 1)
            /\ call' = c /\ aborted' = FALSE
        BY <3>3, <3>6, <4>4 DEF Returns
      <4>8. Len(buf'.bytes) < SizeMod
        BY <1>1, <4>6, <4>7
      <4> QED
        BY <4>1, <4>2, <4>3, <4>5, <4>7, <4>8 DEF Queue!TakeString, Queue!Returns
    <3>7. CASE r < n /\ Aborts(c)
      <4>1. \A k \in 1 .. r : k < n
        BY <1>1, <3>3, <3>7
      <4> QED
        BY <2>2, <3>5, <3>7, <4>1
    <3> QED
      BY <3>1, <3>4, <3>6, <3>7
  <2> QED
    BY <2>3, <2>4
<1>13. \/ \E s \in Inputs : Write(s) \/ Readfd(s) \/ AssignString(s)
       \/ \E n \in Lengths : WriteNull(n) \/ Read(n) \/ Recycle(n) \/ AssignNew(n)
       \/ ReadCString /\ ~(NulsAhead = {} /\ ri < 2)
  BY DEF BufferNext
<1> QED
  BY <1>4, <1>5, <1>6, <1>8, <1>9, <1>10, <1>11, <1>12, <1>13

LEMMA QueueInvStep == Fits /\ QueueInv /\ [BufferNext]_bufVars => QueueInv'
<1> SUFFICES ASSUME Fits, QueueInv, [BufferNext]_bufVars PROVE QueueInv'
  OBVIOUS
<1>1. BufferTypeOK'
  BY TypesStep DEF QueueInv
<1>2. CASE UNCHANGED bufVars
  BY <1>1, <1>2 DEF QueueInv, bufVars
<1>3. CASE BufferNext /\ misused'
  BY <1>1, <1>3 DEF QueueInv
<1>4. CASE BufferNext /\ ~misused' /\ ~misused
  BY <1>1, <1>4, QueueStep DEF QueueInv
<1>5. CASE BufferNext /\ ~misused' /\ misused
  <2>1. SizeMod \in Nat /\ MaxBytes \in Nat /\ MaxBytes < SizeMod /\ InitSize \in Nat
    BY BufferAssumption
  <2>2. (\E s \in Inputs : AssignString(s)) \/ \E n \in Lengths : AssignNew(n)
    BY <1>5 DEF BufferNext
  <2>3. Len(buf'.bytes) \in Nat
    BY <1>1, LenProperties DEF BufferTypeOK
  <2>4. ASSUME NEW s \in Inputs, AssignString(s) PROVE Len(buf'.bytes) < SizeMod
    <3>1. s \in Seq(Byte) /\ Len(s) \in Nat /\ WellFormed(Empty(InitSize))
      BY BufferAssumption, EmptyWellFormed, LenProperties
    <3>2. Len(Empty(InitSize).bytes) = InitSize
      BY <2>1, ZerosBytes DEF Empty
    <3>3. Len(Written(Empty(InitSize), s).bytes) <= InitSize + Len(s)
      BY <3>1, <3>2, WrittenContents
    <3> QED
      BY <2>1, <2>3, <2>4, <3>1, <3>3 DEF AssignString, Returns, Fits
  <2>5. ASSUME NEW n \in Lengths, AssignNew(n) PROVE Len(buf'.bytes) < SizeMod
    BY <2>1, <2>3, <2>5 DEF AssignNew, Returns
  <2> QED
    BY <1>1, <2>2, <2>4, <2>5 DEF QueueInv
<1> QED
  BY <1>2, <1>3, <1>4, <1>5

(* For every size of the memory, of the pages, of readv's second buffer and *)
(* of what is written, read and dropped: a buffer that is not misused is a  *)
(* queue of bytes.  Moves to the front, growth, the bytes readv spills and  *)
(* stale bytes behind the write index lose, repeat and reorder nothing.     *)
THEOREM BufferIsAQueue ==
  ASSUME Fits
  PROVE  BufferSpec => ImplementsByteQueue
<1>1. BufferInit => Queue!QueueInit
  <2>1. Contents(New(InitSize)) = <<>>
    BY NewContents, BufferAssumption
  <2> QED
    BY <2>1 DEF BufferInit, Queue!QueueInit
<1>2. QueueInv /\ [BufferNext]_bufVars
        => [Queue!QueueNext]_<<Contents(buf), call, out, aborted, misused>>
  <2> SUFFICES ASSUME QueueInv, [BufferNext]_bufVars
               PROVE  Queue!QueueNext \/ UNCHANGED <<Contents(buf), call, out, aborted, misused>>
    OBVIOUS
  <2>1. CASE UNCHANGED bufVars
    BY <2>1 DEF bufVars, Contents
  <2>2. CASE misused \/ misused'
    BY <2>2 DEF Queue!QueueNext
  <2>3. CASE BufferNext /\ ~misused /\ ~misused'
    <3>1. ~aborted
      BY <2>3 DEF BufferNext
    <3> QED
      BY <2>3, <3>1, QueueStep DEF Queue!QueueNext
  <2> QED
    BY <2>1, <2>2, <2>3
<1> QED
  BY <1>1, <1>2, QueueInvInit, QueueInvStep, PTL DEF BufferSpec, ImplementsByteQueue, Queue!QueueSpec
=============================================================================
