----------------------------- MODULE ByteQueue -----------------------------
(***************************************************************************)
(* What a ybs::share::util::Buffer is for: a queue of bytes.  Whoever holds *)
(* it writes at one end and reads at the other; a read of more than there   *)
(* is ends the program, and nothing else does.                              *)
(***************************************************************************)
EXTENDS Naturals, Sequences

CONSTANTS
  Byte,   \* what a char may hold
  NUL,    \* the one that ends a C string
  Inputs, \* the byte strings callers write
  Lengths \* the lengths they ask for

VARIABLES
  queue,   \* the unread bytes
  call,    \* the last call
  out,     \* what it gave its caller
  aborted, \* has an assertion failed?
  misused  \* nothing is promised of a misused buffer, until it is assigned

Returns(c, bytes) ==
  /\ call' = c /\ out' = bytes /\ aborted' = FALSE

Fails(c) ==
  /\ call' = c /\ out' = <<>> /\ aborted' = TRUE
  /\ UNCHANGED queue

QueueInit ==
  /\ queue = <<>> /\ call = [op |-> "Buffer"] /\ out = <<>> /\ aborted = FALSE
  /\ misused = FALSE

Put ==
  \E s \in Inputs : queue' = queue \o s /\ Returns([op |-> "Write", bytes |-> s], <<>>)

(* So many bytes, it does not matter which. *)
PutAny ==
  \E n \in Lengths :
    /\ \E s \in [1 .. n -> Byte] : queue' = queue \o s
    /\ Returns([op |-> "WriteNull", n |-> n], <<>>)

Take ==
  \E n \in Lengths :
    LET c == [op |-> "Read", n |-> n]
    IN  \/ /\ n <= Len(queue)
           /\ queue' = SubSeq(queue, n + 1, Len(queue))
           /\ Returns(c, SubSeq(queue, 1, n))
        \/ n > Len(queue) /\ Fails(c)

(* The bytes before the first NUL, which goes with them.                    *)
TakeString ==
  LET c == [op |-> "ReadCString"]
  IN  \/ \E n \in 1 .. Len(queue) :
           /\ queue[n] = NUL /\ \A i \in 1 .. n - 1 : queue[i] # NUL
           /\ queue' = SubSeq(queue, n + 1, Len(queue))
           /\ Returns(c, SubSeq(queue, 1, n - 1))
      \/ (\A i \in 1 .. Len(queue) : queue[i] # NUL) /\ Fails(c)

Drop ==
  \E n \in Lengths :
    /\ queue' = SubSeq(queue, n + 1, Len(queue))
    /\ Returns([op |-> "Recycle", n |-> n], <<>>)

Renew ==
  \E s \in Inputs : queue' = s /\ Returns([op |-> "Assign", bytes |-> s], <<>>)

QueueNext ==
  \/ misused \/ misused'
  \/ ~aborted /\ (Put \/ PutAny \/ Take \/ TakeString \/ Drop \/ Renew)

QueueSpec == QueueInit /\ [][QueueNext]_<<queue, call, out, aborted, misused>>
=============================================================================
