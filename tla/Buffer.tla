------------------------------- MODULE Buffer -------------------------------
(***************************************************************************)
(* ybs::share::util::Buffer, which every packet is read from and written    *)
(* to: a vector of bytes with a read and a write index.  An action is a     *)
(* call of a method; a failed assert ends the program.                      *)
(*                                                                         *)
(* The integers of WriteInt32, ReadInt64 and so on are so many bytes.  The  *)
(* block malloc(index - _readIndex) gives ReadCString, one byte too short,  *)
(* is not modelled, nor what ReadString(std::string&) makes of the bytes it *)
(* has read, which no NUL ends; and memcpy is taken to copy overlapping     *)
(* ranges in order, as the C library of the build does.                     *)
(***************************************************************************)
EXTENDS Integers, Sequences

CONSTANTS
  Byte, NUL,
  PageSize,     \* getpagesize()
  InitSize,     \* Buffer::initSize
  ExtraSize,    \* the size of Readfd's extrabuf
  SizeMod,      \* modulus of size_t
  Inputs,       \* the byte strings callers write
  Lengths,      \* the lengths they ask for
  MaxBytes      \* bound on the vector's length in a run

ASSUME BufferAssumption ==
  /\ NUL \in Byte
  /\ PageSize \in Nat \ {0} /\ InitSize \in Nat /\ ExtraSize \in Nat
  /\ SizeMod \in Nat /\ MaxBytes \in Nat /\ InitSize < SizeMod /\ MaxBytes < SizeMod
  /\ Inputs \subseteq Seq(Byte) /\ Lengths \subseteq Nat

VARIABLES
  buf,     \* bytes, _readIndex and _writeIndex
  call,    \* the last call
  out,     \* what it gave its caller
  aborted, \* has an assertion failed?
  misused  \* history: was it made of a pointer, or a string read at its very
           \* front that was not there, since it was last assigned?

bufVars == <<buf, call, out, aborted, misused>>

Zeros(n) == [i \in 1 .. n |-> NUL]

Empty(size) == [bytes |-> Zeros(size), readIndex |-> 0, writeIndex |-> 0]

-----------------------------------------------------------------------------
(* Methods that compute something, as operators on a buffer.                *)

ReadableBytes(b)  == b.writeIndex - b.readIndex
WriteableBytes(b) == Len(b.bytes) - b.writeIndex

(* What lies between the indices.                                           *)
Contents(b) == SubSeq(b.bytes, b.readIndex + 1, b.writeIndex)

(* Buffer(size_t): whole pages.                                             *)
New(size) ==
  IF size % PageSize = 0 THEN Empty(size) ELSE Empty(PageSize * (size \div PageSize + 1))

(* bytes from offset on, overwritten by s and grown if need be.             *)
Overwritten(bytes, offset, s) ==
  SubSeq(bytes, 1, offset) \o s \o SubSeq(bytes, offset + Len(s) + 1, Len(bytes))

(* Mutant: the read index is reset before the bytes are moved.              *)
moveForwardReset(b) == [b EXCEPT !.readIndex = 0, !.writeIndex = ReadableBytes(b)]

moveForward(b) ==
  [bytes |-> Overwritten(b.bytes, 0, Contents(b)),
   readIndex |-> 0, writeIndex |-> ReadableBytes(b)]

(* Space is made at the front before the vector grows at the back.          *)
MadeRoom(b, len) == IF WriteableBytes(b) < len THEN moveForward(b) ELSE b

Written(b, s) ==
  LET c == MadeRoom(b, Len(s))
  IN  [bytes |-> Overwritten(c.bytes, c.writeIndex, s),
       readIndex |-> c.readIndex, writeIndex |-> c.writeIndex + Len(s)]

(* Mutant: the vector does not grow.                                        *)
WrittenNullInPlace(b, len) == [MadeRoom(b, len) EXCEPT !.writeIndex = @ + len]

(* The room there is keeps the bytes it holds.                              *)
WrittenNull(b, len) ==
  LET c == MadeRoom(b, len)
      more == IF WriteableBytes(c) < len THEN len - WriteableBytes(c) ELSE 0
  IN  [bytes |-> c.bytes \o Zeros(more),
       readIndex |-> c.readIndex, writeIndex |-> c.writeIndex + len]

InitAll(b) == Empty(Len(b.bytes))

Recycled(b, n) ==
  IF n < ReadableBytes(b) THEN [b EXCEPT !.readIndex = @ + n] ELSE InitAll(b)

-----------------------------------------------------------------------------

Returns(c, b, bytes) ==
  /\ call' = c /\ buf' = b /\ out' = bytes /\ aborted' = FALSE

Aborts(c) ==
  /\ call' = c /\ out' = <<>> /\ aborted' = TRUE
  /\ UNCHANGED buf

BufferInit ==
  /\ buf = New(InitSize)
  /\ call = [op |-> "Buffer"] /\ out = <<>> /\ aborted = FALSE
  /\ misused = FALSE

(* WriteInt64, WriteInt32, WriteInt16, WriteInt8 and both WriteStrings.     *)
Write(s) ==
  /\ Len(Written(buf, s).bytes) <= MaxBytes
  /\ Returns([op |-> "Write", bytes |-> s], Written(buf, s), <<>>)

WriteNull(n) ==
  /\ Len(WrittenNull(buf, n).bytes) <= MaxBytes
  /\ Returns([op |-> "WriteNull", n |-> n], WrittenNull(buf, n), <<>>)

(* readv fills the room there is and then extrabuf, which it is given only   *)
(* when the room is smaller than that; what landed there is written after.  *)
Readfd(s) ==
  LET room == WriteableBytes(buf)
      direct == IF Len(s) < room THEN Len(s) ELSE room
      filled == Written(buf, SubSeq(s, 1, direct))
      final == Written(filled, SubSeq(s, direct + 1, Len(s)))
  IN  /\ Len(s) <= (IF room < ExtraSize THEN room + ExtraSize ELSE room)
      /\ Len(final.bytes) <= MaxBytes
      /\ Returns([op |-> "Write", bytes |-> s], final, <<>>)

(* Read, under ReadInt64, ReadInt32, ReadInt16, ReadInt8 and ReadStrings.   *)
Read(n) ==
  LET c == [op |-> "Read", n |-> n]
  IN  \/ /\ ReadableBytes(buf) >= n
         /\ Returns(c, [buf EXCEPT !.readIndex = @ + n],
                    SubSeq(buf.bytes, buf.readIndex + 1, buf.readIndex + n))
      \/ ReadableBytes(buf) < n /\ Aborts(c)

NulsAhead == {i \in buf.readIndex .. Len(buf.bytes) - 1 : buf.bytes[i + 1] = NUL}

(* The search goes on to the end of the vector; where it finds no NUL the   *)
(* index stays 0, and the number of bytes to read is taken modulo size_t.   *)
ReadCString ==
  LET c == [op |-> "ReadCString"]
      nuls == NulsAhead
      str(end) == SubSeq(buf.bytes, buf.readIndex + 1, end)
      len(index) == (index + SizeMod - buf.readIndex + 1) % SizeMod
      Finish(index, end) ==
        \/ /\ ReadableBytes(buf) >= len(index)
           /\ Returns(c, [buf EXCEPT !.readIndex = @ + len(index)], str(end))
        \/ ReadableBytes(buf) < len(index) /\ Aborts(c)
  IN  \/ nuls = {} /\ Finish(0, Len(buf.bytes))
      \/ \E i \in nuls : (\A j \in nuls : i <= j) /\ Finish(i, i)

Recycle(n) == Returns([op |-> "Recycle", n |-> n], Recycled(buf, n), <<>>)

(* A new buffer takes the old one's place: buf = Buffer(size), Buffer(str). *)
AssignNew(size) ==
  /\ Len(New(size).bytes) <= MaxBytes
  /\ Returns([op |-> "Assign", bytes |-> <<>>], New(size), <<>>)

AssignString(s) ==
  Returns([op |-> "Assign", bytes |-> s], Written(Empty(InitSize), s), <<>>)

(* Buffer(begin, len) starts with _writeIndex at len, and then writes.      *)
AssignPointer(s) ==
  LET c == [op |-> "Assign", bytes |-> s]
      b == [Empty(InitSize) EXCEPT !.writeIndex = Len(s)]
  IN  \/ Len(s) <= InitSize /\ Returns(c, Written(b, s), <<>>)
      \/ Len(s) > InitSize /\ Aborts(c)

BufferNext ==
  /\ ~aborted
  /\ \/ /\ \/ \E s \in Inputs : Write(s) \/ Readfd(s)
           \/ \E n \in Lengths : WriteNull(n) \/ Read(n) \/ Recycle(n)
        /\ UNCHANGED misused
     \/ ReadCString /\ misused' = (misused \/ (NulsAhead = {} /\ buf.readIndex < 2))
     \/ /\ (\E s \in Inputs : AssignString(s)) \/ \E n \in Lengths : AssignNew(n)
        /\ misused' = FALSE
     \/ (\E s \in Inputs : AssignPointer(s)) /\ misused' = TRUE

BufferSpec == BufferInit /\ [][BufferNext]_bufVars

-----------------------------------------------------------------------------
(* Properties                                                               *)

(* Types, and the order of the indices that every assert relies on.         *)
BufferTypeOK ==
  /\ buf \in [bytes : Seq(Byte), readIndex : Nat, writeIndex : Nat]
  /\ buf.readIndex <= buf.writeIndex /\ buf.writeIndex <= Len(buf.bytes)
  /\ out \in Seq(Byte)
  /\ aborted \in BOOLEAN /\ misused \in BOOLEAN

Queue == INSTANCE ByteQueue WITH queue <- Contents(buf)

(* Through moves to the front, growth, stale bytes behind the write index   *)
(* and strings without an end, a buffer that is not misused gives back what *)
(* was written, in order and once, and ends the program only when asked for *)
(* more.                                                                    *)
ImplementsByteQueue == Queue!QueueSpec

-----------------------------------------------------------------------------
(* What comments say, and the code does not keep.                           *)

(* "读取一个c风格字符串" (reads one C string, buffer.hpp:65): the string is    *)
(* taken from the unread bytes.  Where the vector holds no NUL behind the   *)
(* read index, which is 0 or 1, the search's failure looks like a NUL at    *)
(* offset 0.                                                                *)
StringWasThere ==
  [][ call' = [op |-> "ReadCString"] /\ ~aborted' =>
        \E n \in 1 .. ReadableBytes(buf) :
          SubSeq(Contents(buf), 1, n) = Append(out', NUL) ]_bufVars

(* "可读 = 已写 - 已读" (readable = written - read, buffer.cc:85): a buffer     *)
(* made of len bytes has len readable ones.  Buffer(begin, len) counts them *)
(* twice.                                                                   *)
ReadableIsWritten ==
  call.op = "Assign" /\ ~aborted => ReadableBytes(buf) = Len(call.bytes)
=============================================================================
