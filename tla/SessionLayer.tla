---------------------------- MODULE SessionLayer ----------------------------
(***************************************************************************)
(* Server_Base and Session_Base, under both servers: one thread that        *)
(* accepts connections, receives packets, hands each to a handler and sends *)
(* what the handler answers.  A handler runs to its end between two         *)
(* receives; MainServer and SubServer say what it does.                     *)
(*                                                                         *)
(* A packet is an opcode of four bytes and, for most, a body, and TCP may    *)
(* cut it anywhere.  Packet k of a connection travels as four pieces: two   *)
(* halves of the opcode, each too short to be one, and two parts of the     *)
(* body.  Replies carry nothing that says which packet they answer.         *)
(***************************************************************************)
EXTENDS Integers, Sequences, FiniteSets

CONSTANTS
  Conns,       \* connections clients make
  NoConn,      \* what a failed accept gives the session instead of one
  FirstId,     \* 10001
  MaxFailures, \* bound on the failed accepts of a run
  MaxPackets,  \* bound on the packets of a connection
  Bare,        \* the packets with no body (3006, 3010 and 4001 read none)
  Polite,      \* the clients that wait for each answer
  Window,      \* how many packets another client has unanswered at a time
  SndBuf       \* how many replies a socket's send buffer takes

ASSUME SessionAssumption ==
  /\ NoConn \notin Conns
  /\ FirstId \in Nat /\ MaxFailures \in Nat /\ MaxPackets \in Nat
  /\ Bare \subseteq Nat
  /\ Polite \subseteq Conns
  /\ Window \in Nat \ {0} /\ SndBuf \in Nat \ {0}

VARIABLES
  alive,      \* is the process running?
  m_sessionmap, \* sessions by id: the connection each has
  m_sessionid,  \* the next id
  socket,     \* per connection, the server's end: none, backlog, open, closed
  receiving,  \* connections with an async_receive under way
  waiting,    \* per connection, how many async_sends wait for room
  stream,     \* pieces on their way to the server
  eof,        \* has the client closed its end?
  sndbuf,     \* replies in the socket's send buffer
  sent,       \* client: packets sent
  inbox,      \* client: replies read
  torn        \* history: the first packet a receive has ended inside of, or 0

sessionVars == <<alive, m_sessionmap, m_sessionid, socket, receiving, waiting>>
clientVars  == <<sent, inbox>>
layerVars   == <<sessionVars, stream, eof, sndbuf, clientVars, torn>>

Piece == [packet : 1 .. MaxPackets, part : {"op1", "op2", "body", "rest"}]

Size(k) == IF k \in Bare THEN 2 ELSE 4

Packet(k) == [i \in 1 .. Size(k) |->
                [packet |-> k, part |-> <<"op1", "op2", "body", "rest">>[i]]]

(* A reply is the number of the packet it answers; 0, when a handler was    *)
(* given something else; -1, when its bytes were not sent as they were; -2,  *)
(* when some of them were not sent at all.                                  *)
Stray  == 0
Spoilt == -1
Part   == -2
Reply  == {Part, Spoilt, Stray} \cup (1 .. MaxPackets)

LayerInit ==
  /\ alive = TRUE
  /\ m_sessionmap = <<>> /\ m_sessionid = FirstId
  /\ socket = [c \in Conns |-> "none"]
  /\ receiving = {} /\ waiting = [c \in Conns |-> 0]
  /\ stream = [c \in Conns |-> <<>>] /\ eof = [c \in Conns |-> FALSE]
  /\ sndbuf = [c \in Conns |-> <<>>]
  /\ sent = [c \in Conns |-> 0] /\ inbox = [c \in Conns |-> <<>>]
  /\ torn = [c \in Conns |-> 0]

-----------------------------------------------------------------------------
(* Clients                                                                  *)

ClientConnect(c) ==
  /\ alive /\ socket[c] = "none"
  /\ socket' = [socket EXCEPT ![c] = "backlog"]
  /\ UNCHANGED <<alive, m_sessionmap, m_sessionid, receiving, waiting, stream, eof, sndbuf,
                 clientVars, torn>>

(* A client that has as many packets unanswered as it may waits for an       *)
(* answer.                                                                  *)
ClientSend(c) ==
  /\ socket[c] \in {"backlog", "open"} /\ ~eof[c]
  /\ sent[c] < MaxPackets
  /\ sent[c] - Len(inbox[c]) < (IF c \in Polite THEN 1 ELSE Window)
  /\ sent' = [sent EXCEPT ![c] = @ + 1]
  /\ stream' = [stream EXCEPT ![c] = @ \o Packet(sent'[c])]
  /\ UNCHANGED <<sessionVars, eof, sndbuf, inbox, torn>>

ClientRecv(c) ==
  /\ sndbuf[c] # <<>> /\ ~eof[c]
  /\ inbox' = [inbox EXCEPT ![c] = Append(@, Head(sndbuf[c]))]
  /\ sndbuf' = [sndbuf EXCEPT ![c] = Tail(@)]
  /\ UNCHANGED <<sessionVars, stream, eof, sent, torn>>

(* A close delivers what was sent; a reset discards it.                     *)
ClientClose(c) ==
  /\ socket[c] \in {"backlog", "open"} /\ ~eof[c]
  /\ eof' = [eof EXCEPT ![c] = TRUE]
  /\ \E rest \in {stream[c], <<>>} : stream' = [stream EXCEPT ![c] = rest]
  /\ UNCHANGED <<sessionVars, sndbuf, clientVars, torn>>

-----------------------------------------------------------------------------
(* The server                                                               *)

(* The ids of a connection's sessions.                                      *)
Entries(c) == {i \in DOMAIN m_sessionmap : m_sessionmap[i] = c}

(* Mutant: the id is not counted up.                                        *)
Safe_AddSessionSameId(c) ==
  /\ m_sessionmap' = IF m_sessionid \in DOMAIN m_sessionmap THEN m_sessionmap
                     ELSE [i \in DOMAIN m_sessionmap \cup {m_sessionid} |->
                             IF i = m_sessionid THEN c ELSE m_sessionmap[i]]
  /\ UNCHANGED m_sessionid

(* insert does nothing for an id that is there; ids count up.               *)
Safe_AddSession(c) ==
  /\ m_sessionmap' = IF m_sessionid \in DOMAIN m_sessionmap THEN m_sessionmap
                     ELSE [i \in DOMAIN m_sessionmap \cup {m_sessionid} |->
                             IF i = m_sessionid THEN c ELSE m_sessionmap[i]]
  /\ m_sessionid' = m_sessionid + 1

(* Mutant: the session's constructor does not begin to receive.             *)
OnConnectionDeaf(c) ==
  /\ alive /\ socket[c] = "backlog"
  /\ Safe_AddSession(c)
  /\ socket' = [socket EXCEPT ![c] = "open"]
  /\ UNCHANGED <<alive, receiving, waiting, stream, eof, sndbuf, clientVars, torn>>

(* The session's constructor begins to receive.                             *)
OnConnection(c) ==
  /\ alive /\ socket[c] = "backlog"
  /\ Safe_AddSession(c)
  /\ socket' = [socket EXCEPT ![c] = "open"]
  /\ receiving' = receiving \cup {c}
  /\ UNCHANGED <<alive, waiting, stream, eof, sndbuf, clientVars, torn>>

(* After a failed accept the handler logs and goes on: a session with no    *)
(* connection joins the map, its receive fails at once, and it stays.       *)
OnConnectionFailed ==
  /\ alive /\ \E c \in Conns : socket[c] = "backlog"
  /\ Cardinality(Entries(NoConn)) < MaxFailures
  /\ Safe_AddSession(NoConn)
  /\ UNCHANGED <<alive, socket, receiving, waiting, stream, eof, sndbuf, clientVars, torn>>

(* async_send sends at once what there is room for, and is content: behind  *)
(* other replies that may be a part, and nothing sends the rest.  Where     *)
(* there is no room it waits, while the string to be sent ends with the call. *)
SendPacket(c, r) ==
  IF waiting[c] = 0 /\ Len(sndbuf[c]) < SndBuf
    THEN /\ \E reply \in {r} \cup (IF sndbuf[c] = <<>> THEN {} ELSE {Part}) :
              sndbuf' = [sndbuf EXCEPT ![c] = Append(@, reply)]
         /\ UNCHANGED waiting
    ELSE waiting' = [waiting EXCEPT ![c] = @ + 1] /\ UNCHANGED sndbuf

SendWaiting(c) ==
  /\ alive /\ waiting[c] > 0 /\ Len(sndbuf[c]) < SndBuf
  /\ waiting' = [waiting EXCEPT ![c] = @ - 1]
  /\ sndbuf' = [sndbuf EXCEPT ![c] = Append(@, Spoilt)]
  /\ UNCHANGED <<alive, m_sessionmap, m_sessionid, socket, receiving, stream, eof, clientVars,
                 torn>>

(* Close leaves the session in the map: CloseSession is never called.       *)
Close(c) ==
  /\ socket' = [socket EXCEPT ![c] = "closed"]
  /\ receiving' = receiving \ {c}
  /\ waiting' = [waiting EXCEPT ![c] = 0]
  /\ UNCHANGED <<alive, m_sessionmap, m_sessionid, sndbuf>>

(* A failed assert or an exception in a handler ends the process, and with  *)
(* it every connection.                                                     *)
Abort ==
  /\ alive' = FALSE
  /\ m_sessionmap' = <<>> /\ m_sessionid' = FirstId /\ receiving' = {}
  /\ socket' = [d \in Conns |-> IF socket[d] = "none" THEN "none" ELSE "closed"]
  /\ waiting' = [d \in Conns |-> 0]
  /\ UNCHANGED sndbuf

(* Dispatch on the first four bytes, then one reply for what was received:  *)
(* whatever follows the packet in the buffer is forgotten with it.  Without *)
(* its body a packet fails an assert; with a part of it the handler may     *)
(* read past what has come and answer all the same.  Four bytes from the    *)
(* middle of a packet are an opcode nobody has or, by chance, somebody      *)
(* else's.  Any handler may end the process (MainServer.Die, SubServer.SubDie). *)
Dispatch(c, pieces) ==
  LET known == pieces[1].part = "op1" /\ Len(pieces) >= 2
      whole == known /\ Len(pieces) >= Size(pieces[1].packet)
      rearmed == UNCHANGED <<alive, m_sessionmap, m_sessionid, socket, receiving>>
  IN  \/ Abort
      \/ whole /\ SendPacket(c, pieces[1].packet) /\ rearmed
      \/ ~whole /\ (known => Len(pieces) > 2) /\ SendPacket(c, Stray) /\ rearmed
      \/ ~known /\ UNCHANGED <<waiting, sndbuf>> /\ rearmed

(* Mutant: what was received is handled again with the next receive.        *)
LeftAll(pieces, n) == pieces

(* The next receive writes over what this one has put into m_recvbuffer.    *)
Left(pieces, n) == SubSeq(pieces, n + 1, Len(pieces))

(* Less than four bytes: the handler returns, and receives no more.         *)
OnRecvShort(c) ==
  /\ UNCHANGED <<alive, m_sessionmap, m_sessionid, socket, waiting, sndbuf>>
  /\ receiving' = receiving \ {c}

(* Mutant: four bytes are too few as well.                                  *)
MaybeShortFour(pieces) == Len(pieces) <= 2

(* Which pieces may be, and which must be, less than four bytes.            *)
MaybeShort(pieces) == Len(pieces) = 1

SurelyShort(pieces) == Len(pieces) = 1 /\ pieces[1].part \in {"op1", "op2"}

(* Does the packet of this piece end with it?                               *)
IsEnd(piece) == piece = Packet(piece.packet)[Size(piece.packet)]

(* A receive returns up to where TCP had got, which may be anywhere.        *)
OnRecv(c) ==
  /\ c \in receiving
  /\ \/ \E n \in 1 .. Len(stream[c]) :
          LET pieces == SubSeq(stream[c], 1, n)
          IN  /\ stream' = [stream EXCEPT ![c] = Left(@, n)]
              /\ torn' = [torn EXCEPT ![c] = IF @ = 0 /\ ~IsEnd(pieces[n])
                                               THEN pieces[n].packet ELSE @]
              /\ \/ MaybeShort(pieces) /\ OnRecvShort(c)
                 \/ ~SurelyShort(pieces) /\ Dispatch(c, pieces)
     \/ stream[c] = <<>> /\ eof[c] /\ Close(c) /\ UNCHANGED <<stream, torn>>
  /\ UNCHANGED <<eof, clientVars>>

(* Somebody starts the server again; clients have to connect anew.          *)
Restart ==
  /\ ~alive /\ alive' = TRUE
  /\ UNCHANGED <<m_sessionmap, m_sessionid, socket, receiving, waiting, stream, eof, sndbuf,
                 clientVars, torn>>

LayerNext ==
  \/ \E c \in Conns :
       \/ ClientConnect(c) \/ ClientSend(c) \/ ClientRecv(c) \/ ClientClose(c)
       \/ OnConnection(c) \/ OnRecv(c) \/ SendWaiting(c)
  \/ OnConnectionFailed
  \/ Restart

LayerSpec == LayerInit /\ [][LayerNext]_layerVars

(* The reactor calls back for what has arrived, and clients read.           *)
LayerFairness ==
  \A c \in Conns :
    /\ WF_layerVars(OnConnection(c)) /\ WF_layerVars(OnRecv(c))
    /\ WF_layerVars(SendWaiting(c)) /\ WF_layerVars(ClientRecv(c))

FairLayerSpec == LayerSpec /\ LayerFairness

-----------------------------------------------------------------------------
(* Properties                                                               *)

(* Types.  An open connection has one session in the map, so that the       *)
(* object its callbacks use is there, and only those receive.               *)
LayerTypeOK ==
  /\ alive \in BOOLEAN
  /\ DOMAIN m_sessionmap \subseteq FirstId .. m_sessionid - 1
  /\ \A i \in DOMAIN m_sessionmap : m_sessionmap[i] \in Conns \cup {NoConn}
  /\ socket \in [Conns -> {"none", "backlog", "open", "closed"}]
  /\ waiting \in [Conns -> Nat]
  /\ stream \in [Conns -> Seq(Piece)]
  /\ sndbuf \in [Conns -> Seq(Reply)] /\ inbox \in [Conns -> Seq(Reply)]
  /\ torn \in [Conns -> Nat]
  /\ \A c \in Conns :
       /\ socket[c] = "open" => Cardinality(Entries(c)) = 1
       /\ c \in receiving => socket[c] = "open"

(* The replies to a connection answer packets of that connection, each once *)
(* and in the order they were sent, wherever TCP cuts the stream.           *)
RepliesInOrder ==
  \A c \in Conns :
    LET replies == inbox[c] \o sndbuf[c]
    IN  \A i \in DOMAIN replies :
          /\ replies[i] <= sent[c]
          /\ \A j \in 1 .. i - 1 : replies[i] > 0 => replies[j] < replies[i]

(* The n-th reply answers the n-th packet, which is how a client tells what *)
(* a reply is about, for a client that waits for each answer: until one of  *)
(* its packets arrives in two receives, whatever the others send.  (No      *)
(* waiting keeps TCP from cutting a packet, and then the code answers parts *)
(* of it, or nothing.)                                                      *)
AnswersMatch ==
  \A c \in Polite : \A i \in DOMAIN inbox[c] :
    torn[c] = 0 \/ i < torn[c] => inbox[c][i] = i

(* A packet of such a client that is not answered yet is not stranded:      *)
(* the connection waits to be accepted, or a receive is under way for a     *)
(* packet that is there, or the reply is there to be read, or it was closed *)
(* - as long as no packet of the connection has arrived in two receives.    *)
PoliteNeverStranded ==
  \A c \in Polite : Len(inbox[c]) < sent[c] /\ ~eof[c] /\ torn[c] = 0 =>
    \/ alive /\ socket[c] = "backlog"
    \/ alive /\ socket[c] = "open" /\ c \in receiving /\ stream[c] # <<>>
    \/ sndbuf[c] # <<>>
    \/ socket[c] = "closed"

(* It gets the answer, unless one of its packets arrives in two receives or  *)
(* the process ends, of which a packet of any client's may be the cause.    *)
PacketsAnswered ==
  \A c \in Polite, k \in 1 .. MaxPackets :
    sent[c] = k ~> \/ Len(inbox[c]) >= k \/ eof[c] \/ socket[c] = "closed"
                   \/ torn[c] # 0

(* The one way an open connection, of any client, goes deaf, with no         *)
(* receive under way and nothing that would begin one: a receive has ended  *)
(* inside one of its packets.  A packet of four bytes, an opcode that needs *)
(* no body, is not taken for less than a packet.                            *)
DeafOnlyIfTorn ==
  \A c \in Conns : socket[c] = "open" /\ c \notin receiving => torn[c] # 0

-----------------------------------------------------------------------------
(* What comments say, and the code does not keep.                           *)

(* "将已经去除协议头的内容部分的比特流传递给对应的协议处理程序" (the content of a *)
(* packet is passed to its handler, base_session.hpp:19): no packet is      *)
(* passed over, on a connection whose packets have all arrived whole.  Of   *)
(* two that arrive together the second is.                                  *)
NoPacketSkipped ==
  \A c \in Conns : torn[c] = 0 =>
    LET replies == SelectSeq(inbox[c] \o sndbuf[c], LAMBDA r : r > 0)
    IN  \A i \in DOMAIN replies : replies[i] = i

(* "重新注册" (register again, base_session.cc:135): between two callbacks an *)
(* open connection has a receive under way.  Not after three bytes.         *)
OpenIsReceiving == \A c \in Conns : socket[c] = "open" => c \in receiving

(* "会将传入的packet识别为一个包，加上协议头后发送" (the packet is sent, after a   *)
(* header, base_session.hpp:49): its bytes reach the client.                *)
RepliesIntact == \A c \in Conns : \A i \in DOMAIN inbox[c] : inbox[c][i] \notin {Spoilt, Part}
=============================================================================
