------------------------ MODULE SessionLayerProofs ------------------------
(***************************************************************************)
(* Proofs about the session layer, for any number of connections and of     *)
(* packets, wherever TCP cuts the streams.                                  *)
(***************************************************************************)
EXTENDS SessionLayer, FiniteSetTheorems, SequenceTheorems, TLAPS

-----------------------------------------------------------------------------
(* The inductive invariants                                                 *)

(* A connection is in the map under one id from its acceptance on, and not  *)
(* before.                                                                  *)
MapInv ==
  /\ m_sessionid \in Nat /\ m_sessionid >= FirstId
  /\ DOMAIN m_sessionmap \subseteq FirstId .. m_sessionid - 1
  /\ \A i \in DOMAIN m_sessionmap : m_sessionmap[i] \in Conns \cup {NoConn}
  /\ \A c \in Conns :
       /\ socket[c] \in {"none", "backlog"} => Entries(c) = {}
       /\ socket[c] = "open" => \E i \in DOMAIN m_sessionmap : Entries(c) = {i}
  /\ receiving \subseteq {c \in Conns : socket[c] = "open"}

TypesInv ==
  /\ alive \in BOOLEAN
  /\ socket \in [Conns -> {"none", "backlog", "open", "closed"}]
  /\ waiting \in [Conns -> Nat]
  /\ stream \in [Conns -> Seq(Piece)] /\ eof \in [Conns -> BOOLEAN]
  /\ sndbuf \in [Conns -> Seq(Reply)] /\ inbox \in [Conns -> Seq(Reply)]
  /\ sent \in [Conns -> 0 .. MaxPackets] /\ torn \in [Conns -> Nat]

(* Of a connection with the pieces s still to come, the replies rs and n     *)
(* packets sent: the pieces are in the order they were sent, and so are the *)
(* replies, and no packet whose opcode is still to come has been answered.  *)
PiecesInOrder(s, n) ==
  \A j \in DOMAIN s :
    /\ s[j].packet <= n
    /\ s[j].part = "op1" => \A i \in 1 .. j - 1 : s[i].packet < s[j].packet

AnswersInOrder(rs, n) ==
  \A i \in DOMAIN rs :
    /\ rs[i] <= n
    /\ \A j \in 1 .. i - 1 : rs[i] > 0 => rs[j] < rs[i]

AnswersBefore(rs, s) ==
  \A i \in DOMAIN rs, j \in DOMAIN s : s[j].part = "op1" => rs[i] < s[j].packet

InOrder(s, rs, n) == PiecesInOrder(s, n) /\ AnswersInOrder(rs, n) /\ AnswersBefore(rs, s)

OrderInv(c) == InOrder(stream[c], inbox[c] \o sndbuf[c], sent[c])

(* Until a receive ends inside a packet of the connection, a packet is at   *)
(* the head of the stream; after the end of a packet the next one begins;   *)
(* and an open connection receives.                                         *)
FramesInv(c) ==
  /\ torn[c] = 0 /\ stream[c] # <<>> => stream[c][1].part = "op1"
  /\ \A j \in 2 .. Len(stream[c]) : IsEnd(stream[c][j - 1]) => stream[c][j].part = "op1"
  /\ torn[c] = 0 /\ socket[c] = "open" => c \in receiving

(* A polite client's packet is on its way, or its answer, or neither, until *)
(* a packet is torn; the answers to those before it were read by then.      *)
WholeInv(c) ==
  /\ sent[c] - Len(inbox[c]) \in {0, 1}
  /\ \A i \in DOMAIN inbox[c] : inbox[c][i] = i
  /\ waiting[c] = 0
  /\ stream[c] \in {<<>>, Packet(sent[c])} /\ sndbuf[c] \in {<<>>, <<sent[c]>>}
  /\ stream[c] # <<>> \/ sndbuf[c] # <<>> => sent[c] = Len(inbox[c]) + 1
  /\ stream[c] = <<>> \/ sndbuf[c] = <<>>

TornInv(c) ==
  /\ torn[c] <= Len(inbox[c]) + 1
  /\ \A i \in 1 .. torn[c] - 1 : inbox[c][i] = i

PoliteInv(c) == IF torn[c] = 0 THEN WholeInv(c) ELSE TornInv(c)

LayerInv ==
  /\ TypesInv /\ MapInv
  /\ \A c \in Conns : OrderInv(c) /\ FramesInv(c)
  /\ \A c \in Polite : PoliteInv(c)

-----------------------------------------------------------------------------
(* What sending, receiving and answering do to the order                    *)

(* A packet's pieces.                                                       *)
LEMMA PacketPieces ==
  ASSUME NEW k \in 1 .. MaxPackets
  PROVE  /\ Packet(k) \in Seq(Piece) /\ Len(Packet(k)) = Size(k)
         /\ Size(k) \in Nat /\ Size(k) >= 2
         /\ Packet(k)[1].part = "op1"
         /\ \A i \in 1 .. Size(k) : Packet(k)[i].packet = k
         /\ \A i \in 2 .. Size(k) : Packet(k)[i].part # "op1"
         /\ \A i \in 1 .. Size(k) : IsEnd(Packet(k)[i]) <=> i = Size(k)
<1> DEFINE parts == << "op1", "op2", "body", "rest" >>
<1>1. Size(k) = 2 \/ Size(k) = 4
  BY DEF Size
<1>2. /\ \A i \in 1 .. Size(k) : i = 1 \/ i = 2 \/ i = 3 \/ i = 4
      /\ \A i \in 2 .. Size(k) : i = 2 \/ i = 3 \/ i = 4
  BY <1>1
<1>3. \A i \in 1 .. Size(k) : parts[i] \in {"op1", "op2", "body", "rest"}
  BY <1>2
<1>4. \A i \in 1 .. Size(k) : [packet |-> k, part |-> parts[i]] \in Piece
  BY <1>3 DEF Piece
<1>5. Packet(k) \in [1 .. Size(k) -> Piece]
  BY <1>4 DEF Packet
<1>6. Packet(k) \in Seq(Piece)
  <2>1. \A m \in Nat : \A f \in [1 .. m -> Piece] : f \in Seq(Piece)
    OBVIOUS
  <2> QED
    BY <1>1, <1>5, <2>1
<1>7. Len(Packet(k)) = Size(k)
  <2>1. DOMAIN Packet(k) = 1 .. Size(k)
    BY DEF Packet
  <2>2. DOMAIN Packet(k) = 1 .. Len(Packet(k)) /\ Len(Packet(k)) \in Nat
    BY <1>6, LenProperties
  <2> QED
    BY <1>1, <2>1, <2>2
<1>8. \A i \in 1 .. Size(k) : Packet(k)[i] = [packet |-> k, part |-> parts[i]]
  BY DEF Packet
<1>9. 1 \in 1 .. Size(k) /\ Size(k) \in 1 .. Size(k) /\ \A i \in 2 .. Size(k) : i \in 1 .. Size(k)
  BY <1>1
<1>10. /\ parts[1] = "op1"
       /\ \A i \in 2 .. Size(k) : parts[i] # "op1"
       /\ \A i \in 1 .. Size(k) : parts[i] = parts[Size(k)] <=> i = Size(k)
  <2>1. parts[1] = "op1" /\ parts[2] = "op2" /\ parts[3] = "body" /\ parts[4] = "rest"
    OBVIOUS
  <2> HIDE DEF parts
  <2>2. CASE Size(k) = 2
    <3>1. \A i \in 1 .. Size(k) : i = 1 \/ i = 2
      BY <2>2
    <3>2. \A i \in 2 .. Size(k) : i = 2
      BY <2>2
    <3> QED
      BY <2>1, <2>2, <3>1, <3>2
  <2>3. CASE Size(k) = 4
    BY <1>2, <2>1, <2>3
  <2> QED
    BY <1>1, <2>2, <2>3
<1> HIDE DEF parts
<1>11. ASSUME NEW i \in 1 .. Size(k) PROVE IsEnd(Packet(k)[i]) <=> i = Size(k)
  <2>3. Packet(k)[i] = [packet |-> k, part |-> parts[i]]
    BY <1>8
  <2>1. Packet(k)[i].packet = k
    BY <2>3
  <2>2. Packet(k)[Size(k)] = [packet |-> k, part |-> parts[Size(k)]]
    BY <1>8, <1>9
  <2>4. IsEnd(Packet(k)[i]) <=> Packet(k)[i] = Packet(k)[Size(k)]
    BY <2>1 DEF IsEnd
  <2>5. Packet(k)[i] = Packet(k)[Size(k)] <=> parts[i] = parts[Size(k)]
    BY <2>2, <2>3
  <2> QED
    BY <1>10, <2>4, <2>5
<1> QED
  BY <1>1, <1>6, <1>7, <1>8, <1>9, <1>10, <1>11

LEMMA SendingKeepsOrder ==
  ASSUME NEW s \in Seq(Piece), NEW rs \in Seq(Reply), NEW n \in 0 .. MaxPackets,
         n + 1 \in 1 .. MaxPackets, InOrder(s, rs, n)
  PROVE  InOrder(s \o Packet(n + 1), rs, n + 1)
<1> DEFINE p == Packet(n + 1)
           t == s \o p
           z == Size(n + 1)
<1>1. /\ p \in Seq(Piece) /\ Len(p) = z /\ z \in Nat /\ z >= 2
      /\ \A i \in 1 .. z : p[i].packet = n + 1
      /\ p[1].part = "op1" /\ \A i \in 2 .. z : p[i].part # "op1"
  BY PacketPieces
<1> HIDE DEF p, z
<1>2. /\ t \in Seq(Piece) /\ Len(t) = Len(s) + z /\ DOMAIN t = 1 .. Len(s) + z
      /\ \A i \in 1 .. Len(s) : t[i] = s[i]
      /\ \A i \in 1 .. z : t[Len(s) + i] = p[i]
  <2>1. /\ t \in Seq(Piece) /\ Len(t) = Len(s) + Len(p)
        /\ \A i \in 1 .. Len(s) + Len(p) : t[i] = IF i <= Len(s) THEN s[i] ELSE p[i - Len(s)]
    <3>1. p \in Seq(Piece) /\ s \in Seq(Piece)
      BY <1>1
    <3> QED
      BY <3>1, ConcatProperties
  <2>2. Len(s) \in Nat
    OBVIOUS
  <2>3. \A i \in 1 .. z : /\ Len(s) + i \in 1 .. Len(s) + z /\ ~(Len(s) + i <= Len(s))
                          /\ (Len(s) + i) - Len(s) = i
    BY <1>1, <2>2
  <2>4. \A i \in 1 .. Len(s) : i \in 1 .. Len(s) + z /\ i <= Len(s)
    BY <1>1, <2>2
  <2> QED
    BY <1>1, <2>1, <2>2, <2>3, <2>4
<1> HIDE DEF t
<1>3. Len(s) \in Nat /\ DOMAIN s = 1 .. Len(s) /\ \A i \in 1 .. Len(s) : s[i] \in Piece
  BY LenProperties, ElementOfSeq
<1>4. DOMAIN rs = 1 .. Len(rs) /\ Len(rs) \in Nat /\ \A i \in DOMAIN rs : rs[i] \in Int
  <2>1. \A r \in Reply : r \in Int
    BY SessionAssumption DEF Reply, Part, Spoilt, Stray
  <2> QED
    BY <2>1, LenProperties, ElementOfSeq
<1>5. \A j \in DOMAIN t : j \in 1 .. Len(s) \/ j = Len(s) + 1 \/ \E i \in 2 .. z : j = Len(s) + i
  <2>1. Len(s) \in Nat /\ DOMAIN t = 1 .. Len(s) + z
    BY <1>2, <1>3
  <2>2. \A j \in DOMAIN t : j <= Len(s) + 1 \/ (j - Len(s) \in 2 .. z /\ j = Len(s) + (j - Len(s)))
    BY <1>1, <2>1
  <2> QED
    BY <2>1, <2>2
<1>6. \A j \in 1 .. Len(s) : t[j].packet = s[j].packet /\ s[j].packet <= n /\ s[j].packet \in Int
                             /\ t[j].part = s[j].part
  <2>1. \A x \in Piece : x.packet \in Int
    BY SessionAssumption DEF Piece
  <2> QED
    BY <1>2, <1>3, <2>1 DEF InOrder, PiecesInOrder
<1>7. /\ t[Len(s) + 1].packet = n + 1 /\ t[Len(s) + 1].part = "op1"
      /\ \A i \in 2 .. z : t[Len(s) + i].packet = n + 1 /\ t[Len(s) + i].part # "op1"
  <2>1. 1 \in 1 .. z /\ \A i \in 2 .. z : i \in 1 .. z
    BY <1>1
  <2>2. t[Len(s) + 1] = p[1] /\ \A i \in 2 .. z : t[Len(s) + i] = p[i]
    BY <1>2, <2>1
  <2>3. p[1].packet = n + 1 /\ \A i \in 2 .. z : p[i].packet = n + 1 /\ p[i].part # "op1"
    BY <1>1, <2>1
  <2> QED
    BY <1>1, <2>2, <2>3
<1>8. PiecesInOrder(t, n + 1)
  <2> SUFFICES ASSUME NEW j \in DOMAIN t
               PROVE  /\ t[j].packet <= n + 1
                      /\ t[j].part = "op1" => \A i \in 1 .. j - 1 : t[i].packet < t[j].packet
    BY DEF PiecesInOrder
  <2>1. CASE j \in 1 .. Len(s)
    <3>1. t[j].packet <= n + 1
      BY <1>6, <2>1
    <3>2. ASSUME t[j].part = "op1", NEW i \in 1 .. j - 1 PROVE t[i].packet < t[j].packet
      <4>1. i \in 1 .. Len(s)
        BY <1>3, <2>1
      <4>2. s[i].packet < s[j].packet
        BY <1>3, <1>6, <2>1, <3>2 DEF InOrder, PiecesInOrder
      <4> QED
        BY <1>6, <2>1, <4>1, <4>2
    <3> QED
      BY <3>1, <3>2
  <2>2. CASE j = Len(s) + 1
    <3>1. \A i \in 1 .. j - 1 : i \in 1 .. Len(s)
      BY <1>3, <2>2
    <3> QED
      BY <1>6, <1>7, <2>2, <3>1
  <2>3. CASE \E i \in 2 .. z : j = Len(s) + i
    BY <1>7, <2>3
  <2> QED
    BY <1>5, <2>1, <2>2, <2>3
<1>9. AnswersInOrder(rs, n + 1)
  BY <1>4 DEF InOrder, AnswersInOrder
<1>10. AnswersBefore(rs, t)
  <2> SUFFICES ASSUME NEW i \in DOMAIN rs, NEW j \in DOMAIN t, t[j].part = "op1"
               PROVE  rs[i] < t[j].packet
    BY DEF AnswersBefore
  <2>1. CASE j \in 1 .. Len(s)
    BY <1>3, <1>6, <2>1 DEF InOrder, AnswersBefore
  <2>2. CASE j = Len(s) + 1
    BY <1>4, <1>7, <2>2 DEF InOrder, AnswersInOrder
  <2> QED
    BY <1>5, <1>7, <2>1, <2>2
<1> QED
  BY <1>8, <1>9, <1>10 DEF InOrder, t, p

(* What is left of the pieces is in order.                                  *)
LEMMA LeftPieces ==
  ASSUME NEW s \in Seq(Piece), NEW m \in 1 .. Len(s)
  PROVE  /\ Left(s, m) \in Seq(Piece) /\ Len(Left(s, m)) = Len(s) - m
         /\ \A j \in 1 .. Len(s) - m : Left(s, m)[j] = s[m + j] /\ m + j \in 2 .. Len(s)
<1>1. Len(s) \in Nat /\ \A i \in 1 .. Len(s) : s[i] \in Piece
  BY LenProperties, ElementOfSeq
<1>2. \A i \in m + 1 .. Len(s) : s[i] \in Piece
  BY <1>1
<1>3. /\ SubSeq(s, m + 1, Len(s)) \in Seq(Piece)
      /\ Len(SubSeq(s, m + 1, Len(s))) = IF m + 1 <= Len(s) THEN Len(s) - (m + 1) + 1 ELSE 0
      /\ \A i \in 1 .. Len(s) - (m + 1) + 1 : SubSeq(s, m + 1, Len(s))[i] = s[(m + 1) + i - 1]
  BY <1>1, <1>2, SubSeqProperties, m + 1 \in Int, Len(s) \in Int
<1> QED
  BY <1>1, <1>3 DEF Left

LEMMA ReceivingKeepsOrder ==
  ASSUME NEW s \in Seq(Piece), NEW rs \in Seq(Reply), NEW n \in 0 .. MaxPackets,
         InOrder(s, rs, n), NEW m \in 1 .. Len(s)
  PROVE  InOrder(Left(s, m), rs, n)
<1> DEFINE t == Left(s, m)
<1>1. Len(s) \in Nat /\ DOMAIN s = 1 .. Len(s)
  BY LenProperties
<1>2. /\ t \in Seq(Piece) /\ Len(t) = Len(s) - m
      /\ \A j \in 1 .. Len(s) - m : t[j] = s[m + j] /\ m + j \in 2 .. Len(s)
  BY LeftPieces
<1> HIDE DEF t
<1>3. DOMAIN t = 1 .. Len(s) - m
  BY <1>2
<1>4. \A j \in DOMAIN t : m + j \in DOMAIN s /\ t[j] = s[m + j]
  BY <1>1, <1>2, <1>3
<1>5. PiecesInOrder(t, n)
  <2> SUFFICES ASSUME NEW j \in DOMAIN t
               PROVE  /\ t[j].packet <= n
                      /\ t[j].part = "op1" => \A i \in 1 .. j - 1 : t[i].packet < t[j].packet
    BY DEF PiecesInOrder
  <2>1. \A i \in 1 .. j - 1 : i \in DOMAIN t /\ m + i \in 1 .. (m + j) - 1
    BY <1>1, <1>3
  <2> QED
    BY <1>4, <2>1 DEF InOrder, PiecesInOrder
<1>6. AnswersBefore(rs, t)
  BY <1>4 DEF InOrder, AnswersBefore
<1> QED
  BY <1>5, <1>6 DEF InOrder, t

(* A reply that names no packet may come anywhere.                          *)
LEMMA StrayKeepsOrder ==
  ASSUME NEW s \in Seq(Piece), NEW rs \in Seq(Reply), NEW n \in 0 .. MaxPackets,
         InOrder(s, rs, n), NEW r \in Reply, r <= 0
  PROVE  InOrder(s, Append(rs, r), n)
<1>1. Len(rs) \in Nat /\ DOMAIN rs = 1 .. Len(rs) /\ DOMAIN Append(rs, r) = 1 .. Len(rs) + 1
  BY LenProperties
<1>2. \A i \in DOMAIN Append(rs, r) : i \in DOMAIN rs \/ i = Len(rs) + 1
  BY <1>1
<1>3. (\A i \in DOMAIN rs : Append(rs, r)[i] = rs[i]) /\ Append(rs, r)[Len(rs) + 1] = r
  BY <1>1, AppendProperties
<1>4. AnswersInOrder(Append(rs, r), n)
  <2> SUFFICES ASSUME NEW i \in DOMAIN Append(rs, r)
               PROVE  /\ Append(rs, r)[i] <= n
                      /\ \A j \in 1 .. i - 1 :
                           Append(rs, r)[i] > 0 => Append(rs, r)[j] < Append(rs, r)[i]
    BY DEF AnswersInOrder
  <2>1. CASE i \in DOMAIN rs
    <3>1. \A j \in 1 .. i - 1 : j \in DOMAIN rs
      BY <1>1, <2>1
    <3> QED
      BY <1>3, <2>1, <3>1 DEF InOrder, AnswersInOrder
  <2>2. CASE i = Len(rs) + 1
    <3>1. r \in Int
      BY SessionAssumption DEF Reply, Part, Spoilt, Stray
    <3> QED
      BY <1>3, <2>2, <3>1
  <2> QED
    BY <1>2, <2>1, <2>2
<1>5. AnswersBefore(Append(rs, r), s)
  <2> SUFFICES ASSUME NEW i \in DOMAIN Append(rs, r), NEW j \in DOMAIN s, s[j].part = "op1"
               PROVE  Append(rs, r)[i] < s[j].packet
    BY DEF AnswersBefore
  <2>1. CASE i \in DOMAIN rs
    BY <1>3, <2>1 DEF InOrder, AnswersBefore
  <2>2. CASE i = Len(rs) + 1
    <3>1. s[j] \in Piece /\ r \in Int
      BY LenProperties, ElementOfSeq, SessionAssumption DEF Reply, Part, Spoilt, Stray
    <3>2. s[j].packet \in Int /\ s[j].packet >= 1
      BY <3>1, SessionAssumption DEF Piece
    <3> QED
      BY <1>3, <2>2, <3>1, <3>2
  <2> QED
    BY <1>2, <2>1, <2>2
<1> QED
  BY <1>4, <1>5 DEF InOrder

(* The answer to the packet at the head of the stream comes next.           *)
LEMMA AnswerKeepsOrder ==
  ASSUME NEW s \in Seq(Piece), NEW rs \in Seq(Reply), NEW n \in 0 .. MaxPackets,
         InOrder(s, rs, n), NEW m \in 1 .. Len(s), s[1].part = "op1"
  PROVE  s[1].packet \in Reply /\ InOrder(Left(s, m), Append(rs, s[1].packet), n)
<1> DEFINE r == s[1].packet
           t == Left(s, m)
           q == Append(rs, r)
<1>1. Len(s) \in Nat /\ DOMAIN s = 1 .. Len(s) /\ 1 \in DOMAIN s /\ s[1] \in Piece
  BY LenProperties, ElementOfSeq
<1>2. r \in 1 .. MaxPackets /\ r \in Reply /\ r <= n
  BY <1>1, SessionAssumption DEF Piece, Reply, InOrder, PiecesInOrder
<1>3. Len(rs) \in Nat /\ DOMAIN rs = 1 .. Len(rs) /\ DOMAIN q = 1 .. Len(rs) + 1
  BY <1>2, LenProperties
<1>4. (\A i \in DOMAIN rs : q[i] = rs[i]) /\ q[Len(rs) + 1] = r
  BY <1>2, <1>3, AppendProperties
<1> HIDE DEF q
<1>5. \A i \in DOMAIN q : i \in DOMAIN rs \/ i = Len(rs) + 1
  BY <1>3
<1>6. \A i \in DOMAIN rs : rs[i] < r
  BY <1>1 DEF InOrder, AnswersBefore
<1>7. AnswersInOrder(q, n)
  <2> SUFFICES ASSUME NEW i \in DOMAIN q
               PROVE  /\ q[i] <= n
                      /\ \A j \in 1 .. i - 1 : q[i] > 0 => q[j] < q[i]
    BY DEF AnswersInOrder
  <2>1. \A j \in 1 .. i - 1 : j \in DOMAIN rs
    BY <1>3
  <2>2. CASE i \in DOMAIN rs
    BY <1>4, <2>1, <2>2 DEF InOrder, AnswersInOrder
  <2>3. CASE i = Len(rs) + 1
    BY <1>2, <1>4, <1>6, <2>1, <2>3
  <2> QED
    BY <1>5, <2>2, <2>3
<1>8. InOrder(t, rs, n)
  BY ReceivingKeepsOrder
<1>9. /\ t \in Seq(Piece) /\ Len(t) = Len(s) - m
      /\ \A j \in 1 .. Len(s) - m : t[j] = s[m + j] /\ m + j \in 2 .. Len(s)
  BY LeftPieces
<1> HIDE DEF t
<1>10. DOMAIN t = 1 .. Len(s) - m
  BY <1>9
<1>11. AnswersBefore(q, t)
  <2> SUFFICES ASSUME NEW i \in DOMAIN q, NEW j \in DOMAIN t, t[j].part = "op1"
               PROVE  q[i] < t[j].packet
    BY DEF AnswersBefore
  <2>1. CASE i \in DOMAIN rs
    BY <1>4, <1>8, <2>1 DEF InOrder, AnswersBefore
  <2>2. CASE i = Len(rs) + 1
    <3>1. t[j] = s[m + j] /\ m + j \in DOMAIN s /\ 1 \in 1 .. (m + j) - 1
      BY <1>1, <1>9, <1>10
    <3>2. r < t[j].packet
      BY <3>1 DEF InOrder, PiecesInOrder
    <3> QED
      BY <1>4, <2>2, <3>2
  <2> QED
    BY <1>5, <2>1, <2>2
<1> QED
  BY <1>2, <1>7, <1>8, <1>11 DEF InOrder, q, t

(* An answer joins the replies at their end, and moves to the client's side. *)
LEMMA RepliesGrow ==
  ASSUME NEW s \in Seq(Reply), NEW t \in Seq(Reply), NEW r \in Reply
  PROVE  s \o Append(t, r) = Append(s \o t, r)
<1>1. << r >> \in Seq(Reply) /\ s \o t \in Seq(Reply)
  BY ConcatProperties
<1>2. Append(t, r) = t \o << r >> /\ Append(s \o t, r) = (s \o t) \o << r >>
  BY <1>1, AppendIsConcat
<1>3. (s \o t) \o << r >> = s \o (t \o << r >>)
  BY <1>1, ConcatAssociative
<1> QED
  BY <1>2, <1>3

LEMMA RepliesMove ==
  ASSUME NEW s \in Seq(Reply), NEW t \in Seq(Reply), t # <<>>
  PROVE  /\ Append(s, Head(t)) \in Seq(Reply) /\ Tail(t) \in Seq(Reply)
         /\ Append(s, Head(t)) \o Tail(t) = s \o t
<1>1. Head(t) \in Reply /\ Tail(t) \in Seq(Reply) /\ << Head(t) >> \in Seq(Reply)
  BY HeadTailProperties
<1>2. Append(s, Head(t)) = s \o << Head(t) >> /\ Append(s, Head(t)) \in Seq(Reply)
  BY <1>1, AppendIsConcat, AppendProperties
<1>3. (s \o << Head(t) >>) \o Tail(t) = s \o (<< Head(t) >> \o Tail(t))
  BY <1>1, ConcatAssociative
<1>4. << Head(t) >> \o Tail(t) = t
  <2> DEFINE u == << Head(t) >> \o Tail(t)
  <2>1. /\ u \in Seq(Reply) /\ Len(u) = 1 + Len(Tail(t))
        /\ \A i \in 1 .. 1 + Len(Tail(t)) : u[i] = IF i <= 1 THEN << Head(t) >>[i] ELSE Tail(t)[i - 1]
    BY <1>1, ConcatProperties, Len(<< Head(t) >>) = 1
  <2>2. Len(t) \in Nat \ {0} /\ Len(Tail(t)) = Len(t) - 1 /\ Head(t) = t[1] /\ t # <<>>
        /\ \A i \in 1 .. Len(Tail(t)) : Tail(t)[i] = t[i + 1]
    BY HeadTailProperties, EmptySeq
  <2> HIDE DEF u
  <2>3. Len(u) = Len(t)
    BY <2>1, <2>2
  <2>4. ASSUME NEW i \in 1 .. Len(u) PROVE u[i] = t[i]
    <3>1. CASE i = 1
      BY <2>1, <2>2, <3>1
    <3>2. CASE i # 1
      <4>1. i - 1 \in 1 .. Len(Tail(t)) /\ ~(i <= 1) /\ (i - 1) + 1 = i /\ i \in 1 .. 1 + Len(Tail(t))
        BY <2>2, <2>3, <3>2
      <4> QED
        BY <2>1, <2>2, <4>1
    <3> QED
      BY <3>1, <3>2
  <2>5. u = t
    BY <2>1, <2>3, <2>4, SeqEqual
  <2> QED
    BY <2>5 DEF u
<1> QED
  BY <1>1, <1>2, <1>3, <1>4

-----------------------------------------------------------------------------
(* What a receive does                                                      *)

LEMMA SendEffect ==
  ASSUME TypesInv, NEW c \in Conns, NEW r \in Reply, SendPacket(c, r)
  PROVE  /\ waiting' \in [Conns -> Nat] /\ sndbuf' \in [Conns -> Seq(Reply)]
         /\ \A d \in Conns \ {c} : waiting'[d] = waiting[d] /\ sndbuf'[d] = sndbuf[d]
         /\ sndbuf'[c] = sndbuf[c] \/ \E q \in {r, Part} : sndbuf'[c] = Append(sndbuf[c], q)
<1>1. CASE waiting[c] = 0 /\ Len(sndbuf[c]) < SndBuf
  <2>1. PICK q \in {r} \cup (IF sndbuf[c] = <<>> THEN {} ELSE {Part}) :
               sndbuf' = [sndbuf EXCEPT ![c] = Append(sndbuf[c], q)]
    <3>1. \E q \in {r} \cup (IF sndbuf[c] = <<>> THEN {} ELSE {Part}) :
            sndbuf' = [sndbuf EXCEPT ![c] = Append(sndbuf[c], q)]
      BY <1>1, Zenon DEF SendPacket
    <3> QED
      BY <3>1, Zenon
  <2>2. q \in {r, Part} /\ q \in Reply
    BY DEF Reply
  <2>3. Append(sndbuf[c], q) \in Seq(Reply)
    BY <2>2, AppendProperties DEF TypesInv
  <2> QED
    BY <1>1, <2>1, <2>2, <2>3 DEF SendPacket, TypesInv
<1>2. CASE ~(waiting[c] = 0 /\ Len(sndbuf[c]) < SndBuf)
  <2>1. waiting' = [waiting EXCEPT ![c] = waiting[c] + 1] /\ sndbuf' = sndbuf
    BY <1>2, Zenon DEF SendPacket
  <2> QED
    BY <2>1 DEF TypesInv
<1> QED
  BY <1>1, <1>2

(* The packets and their replies, of the connection and of the others.      *)
Silent(c) == sndbuf'[c] = sndbuf[c]

Strays(c) == \E q \in {Stray, Part} : sndbuf'[c] = Append(sndbuf[c], q)

Answers(c) ==
  stream[c][1].part = "op1" /\ sndbuf'[c] = Append(sndbuf[c], stream[c][1].packet)

Takes(c) ==
  \/ stream'[c] = stream[c] /\ Silent(c)
  \/ \E n \in 1 .. Len(stream[c]) :
       stream'[c] = Left(stream[c], n) /\ (Silent(c) \/ Strays(c) \/ Answers(c))

(* The process and its connections.                                         *)
Stays(c) ==
  /\ UNCHANGED <<alive, m_sessionmap, m_sessionid, socket>>
  /\ receiving' \subseteq receiving /\ receiving \ {c} \subseteq receiving'

Ends ==
  /\ alive' = FALSE
  /\ m_sessionmap' = <<>> /\ m_sessionid' = FirstId /\ receiving' = {}
  /\ socket' = [d \in Conns |-> IF socket[d] = "none" THEN "none" ELSE "closed"]

Closes(c) ==
  /\ UNCHANGED <<alive, m_sessionmap, m_sessionid>>
  /\ socket' = [socket EXCEPT ![c] = "closed"] /\ receiving' = receiving \ {c}

LEMMA DispatchEffect ==
  ASSUME TypesInv, NEW c \in Conns, NEW n \in 1 .. Len(stream[c]),
         Dispatch(c, SubSeq(stream[c], 1, n))
  PROVE  /\ waiting' \in [Conns -> Nat] /\ sndbuf' \in [Conns -> Seq(Reply)]
         /\ \A d \in Conns \ {c} : waiting'[d] \in {waiting[d], 0} /\ sndbuf'[d] = sndbuf[d]
         /\ Silent(c) \/ Strays(c) \/ Answers(c)
         /\ Stays(c) \/ Ends
         /\ c \in receiving => c \in receiving' \/ Ends
<1> DEFINE pieces == SubSeq(stream[c], 1, n)
           known == pieces[1].part = "op1" /\ Len(pieces) >= 2
           whole == known /\ Len(pieces) >= Size(pieces[1].packet)
           rearmed == UNCHANGED <<alive, m_sessionmap, m_sessionid, socket, receiving>>
<1>1. stream[c] \in Seq(Piece) /\ Len(stream[c]) \in Nat /\ stream[c][1] \in Piece
      /\ \A i \in 1 .. n : stream[c][i] \in Piece
  <2>1. stream[c] \in Seq(Piece)
    BY DEF TypesInv
  <2>2. Len(stream[c]) \in Nat
    BY <2>1, LenProperties
  <2> QED
    BY <2>1, <2>2, ElementOfSeq
<1>2. pieces[1] = stream[c][1]
  BY <1>1, SubSeqProperties
<1>3. stream[c][1].packet \in Reply
  BY <1>1 DEF Piece, Reply
<1>4. Stray \in Reply
  BY DEF Reply
<1>5. \/ Abort
      \/ whole /\ SendPacket(c, pieces[1].packet) /\ rearmed
      \/ ~whole /\ (known => Len(pieces) > 2) /\ SendPacket(c, Stray) /\ rearmed
      \/ ~known /\ UNCHANGED <<waiting, sndbuf>> /\ rearmed
  BY DEF Dispatch
<1> HIDE DEF pieces
<1>6. CASE whole /\ SendPacket(c, pieces[1].packet) /\ rearmed
  <2>1. SendPacket(c, stream[c][1].packet) /\ stream[c][1].part = "op1"
    BY <1>2, <1>6
  <2> QED
    BY <1>3, <1>6, <2>1, SendEffect DEF Silent, Strays, Answers, Stays
<1>7. CASE SendPacket(c, Stray) /\ rearmed
  BY <1>4, <1>7, SendEffect DEF Silent, Strays, Stays
<1>8. CASE Abort
  BY <1>8 DEF Abort, Silent, Ends, TypesInv
<1>9. CASE UNCHANGED <<waiting, sndbuf>> /\ rearmed
  BY <1>9 DEF Silent, Stays, TypesInv
<1> QED
  BY <1>5, <1>6, <1>7, <1>8, <1>9

(* A receive that ends where no packet does leaves the first mark on torn.   *)
Marks(c) ==
  \E n \in 1 .. Len(stream[c]) :
    /\ stream'[c] = Left(stream[c], n)
    /\ torn'[c] = IF torn[c] = 0 /\ ~IsEnd(stream[c][n]) THEN stream[c][n].packet ELSE torn[c]
    /\ c \in receiving' \/ Ends \/ n = 1

LEMMA ReceiveEffect ==
  ASSUME TypesInv, NEW c \in Conns, OnRecv(c)
  PROVE  /\ UNCHANGED <<eof, sent, inbox>>
         /\ waiting' \in [Conns -> Nat] /\ sndbuf' \in [Conns -> Seq(Reply)]
         /\ stream' \in [Conns -> Seq(Piece)] /\ torn' \in [Conns -> Nat]
         /\ \A d \in Conns \ {c} : /\ waiting'[d] \in {waiting[d], 0}
                                   /\ sndbuf'[d] = sndbuf[d] /\ stream'[d] = stream[d]
                                   /\ torn'[d] = torn[d]
         /\ Takes(c)
         /\ Stays(c) \/ Ends \/ Closes(c)
         /\ (Closes(c) /\ UNCHANGED <<stream, torn>>) \/ Marks(c)
<1>1. UNCHANGED <<eof, sent, inbox>> /\ c \in receiving
  BY DEF OnRecv, clientVars
<1>2. ASSUME NEW n \in 1 .. Len(stream[c]),
             \/ MaybeShort(SubSeq(stream[c], 1, n)) /\ OnRecvShort(c)
             \/ Dispatch(c, SubSeq(stream[c], 1, n))
      PROVE  /\ waiting' \in [Conns -> Nat] /\ sndbuf' \in [Conns -> Seq(Reply)]
             /\ \A d \in Conns \ {c} : waiting'[d] \in {waiting[d], 0} /\ sndbuf'[d] = sndbuf[d]
             /\ Silent(c) \/ Strays(c) \/ Answers(c)
             /\ Stays(c) \/ Ends
             /\ c \in receiving' \/ Ends \/ n = 1
  <2>1. CASE MaybeShort(SubSeq(stream[c], 1, n)) /\ OnRecvShort(c)
    <3>1. n = 1
      <4>1. stream[c] \in Seq(Piece) /\ Len(stream[c]) \in Nat
        BY LenProperties DEF TypesInv
      <4>2. \A i \in 1 .. n : stream[c][i] \in Piece
        BY <4>1, ElementOfSeq
      <4>3. Len(SubSeq(stream[c], 1, n)) = n
        BY <4>1, <4>2, SubSeqProperties
      <4> QED
        BY <2>1, <4>3 DEF MaybeShort
    <3> QED
      BY <2>1, <3>1 DEF OnRecvShort, Silent, Stays, TypesInv
  <2>2. CASE Dispatch(c, SubSeq(stream[c], 1, n))
    BY <1>1, <2>2, DispatchEffect
  <2> QED
    BY <1>2, <2>1, <2>2
<1>3. ASSUME NEW n \in 1 .. Len(stream[c]), stream' = [stream EXCEPT ![c] = Left(@, n)],
             torn' = [torn EXCEPT ![c] = IF @ = 0 /\ ~IsEnd(SubSeq(stream[c], 1, n)[n])
                                          THEN SubSeq(stream[c], 1, n)[n].packet ELSE @]
      PROVE  /\ stream' \in [Conns -> Seq(Piece)] /\ stream'[c] = Left(stream[c], n)
             /\ torn' \in [Conns -> Nat]
             /\ torn'[c] = IF torn[c] = 0 /\ ~IsEnd(stream[c][n])
                             THEN stream[c][n].packet ELSE torn[c]
             /\ \A d \in Conns \ {c} : stream'[d] = stream[d] /\ torn'[d] = torn[d]
  <2>1. stream[c] \in Seq(Piece) /\ Len(stream[c]) \in Nat
    BY LenProperties DEF TypesInv
  <2>2. Left(stream[c], n) \in Seq(Piece)
    BY <2>1, LeftPieces
  <2>3. (\A i \in 1 .. n : stream[c][i] \in Piece) /\ n \in 1 .. n
    BY <2>1, ElementOfSeq
  <2>4. SubSeq(stream[c], 1, n)[n] = stream[c][n]
    BY <2>1, <2>3, SubSeqProperties
  <2>5. stream[c][n].packet \in Nat
    BY <2>3, SessionAssumption DEF Piece
  <2> DEFINE mark == IF torn[c] = 0 /\ ~IsEnd(stream[c][n])
                       THEN stream[c][n].packet ELSE torn[c]
  <2>6. mark \in Nat
    BY <2>5 DEF TypesInv
  <2>7. torn' = [torn EXCEPT ![c] = mark]
    BY <1>3, <2>4
  <2> HIDE DEF mark
  <2>8. /\ torn' \in [Conns -> Nat] /\ torn'[c] = mark
        /\ \A d \in Conns \ {c} : torn'[d] = torn[d]
    BY <2>6, <2>7 DEF TypesInv
  <2>9. /\ stream' \in [Conns -> Seq(Piece)] /\ stream'[c] = Left(stream[c], n)
        /\ \A d \in Conns \ {c} : stream'[d] = stream[d]
    BY <1>3, <2>2 DEF TypesInv
  <2> QED
    BY <2>8, <2>9 DEF mark
<1>4. CASE stream[c] = <<>> /\ eof[c] /\ Close(c) /\ UNCHANGED <<stream, torn>>
  BY <1>1, <1>4 DEF Close, Closes, Takes, Silent, TypesInv
<1>5. ASSUME NEW n \in 1 .. Len(stream[c]), stream' = [stream EXCEPT ![c] = Left(@, n)],
             torn' = [torn EXCEPT ![c] = IF @ = 0 /\ ~IsEnd(SubSeq(stream[c], 1, n)[n])
                                          THEN SubSeq(stream[c], 1, n)[n].packet ELSE @],
             \/ MaybeShort(SubSeq(stream[c], 1, n)) /\ OnRecvShort(c)
             \/ ~SurelyShort(SubSeq(stream[c], 1, n)) /\ Dispatch(c, SubSeq(stream[c], 1, n))
      PROVE  /\ waiting' \in [Conns -> Nat] /\ sndbuf' \in [Conns -> Seq(Reply)]
             /\ stream' \in [Conns -> Seq(Piece)] /\ torn' \in [Conns -> Nat]
             /\ \A d \in Conns \ {c} : /\ waiting'[d] \in {waiting[d], 0}
                                       /\ sndbuf'[d] = sndbuf[d] /\ stream'[d] = stream[d]
                                       /\ torn'[d] = torn[d]
             /\ Takes(c)
             /\ Stays(c) \/ Ends
             /\ Marks(c)
  <2>1. /\ waiting' \in [Conns -> Nat] /\ sndbuf' \in [Conns -> Seq(Reply)]
        /\ \A d \in Conns \ {c} : waiting'[d] \in {waiting[d], 0} /\ sndbuf'[d] = sndbuf[d]
        /\ Silent(c) \/ Strays(c) \/ Answers(c)
        /\ Stays(c) \/ Ends
        /\ c \in receiving' \/ Ends \/ n = 1
    BY <1>2, <1>5
  <2>2. /\ stream' \in [Conns -> Seq(Piece)] /\ stream'[c] = Left(stream[c], n)
        /\ torn' \in [Conns -> Nat]
        /\ torn'[c] = IF torn[c] = 0 /\ ~IsEnd(stream[c][n])
                        THEN stream[c][n].packet ELSE torn[c]
        /\ \A d \in Conns \ {c} : stream'[d] = stream[d] /\ torn'[d] = torn[d]
    BY <1>3, <1>5
  <2>3. Takes(c)
    BY <2>1, <2>2 DEF Takes
  <2>4. Marks(c)
    BY <2>1, <2>2 DEF Marks
  <2> QED
    BY <2>1, <2>2, <2>3, <2>4
<1> QED
  BY <1>1, <1>4, <1>5 DEF OnRecv

-----------------------------------------------------------------------------
(* Every step preserves the invariants                                      *)

LEMMA LayerInitiallyInv == LayerInit => LayerInv
<1> SUFFICES ASSUME LayerInit PROVE LayerInv
  OBVIOUS
<1>1. <<>> \in Seq(Piece) /\ <<>> \in Seq(Reply) /\ 0 \in 0 .. MaxPackets
  BY SessionAssumption
<1>2. TypesInv
  BY <1>1, SessionAssumption DEF LayerInit, TypesInv
<1>3. DOMAIN m_sessionmap = {}
  BY DEF LayerInit
<1>4. MapInv
  BY <1>3, SessionAssumption DEF LayerInit, MapInv, Entries
<1>5. ASSUME NEW c \in Conns PROVE OrderInv(c) /\ FramesInv(c)
  <2>1. stream[c] = <<>> /\ inbox[c] \o sndbuf[c] = <<>> /\ socket[c] = "none"
    BY <1>1, ConcatEmptySeq DEF LayerInit
  <2>2. \A j \in 2 .. Len(stream[c]) : FALSE
    BY <2>1
  <2> QED
    BY <2>1, <2>2 DEF OrderInv, InOrder, PiecesInOrder, AnswersInOrder, AnswersBefore, FramesInv
<1>6. ASSUME NEW c \in Polite PROVE PoliteInv(c)
  <2>1. c \in Conns
    BY SessionAssumption
  <2> QED
    BY <2>1 DEF LayerInit, PoliteInv, WholeInv
<1> QED
  BY <1>2, <1>4, <1>5, <1>6 DEF LayerInv

(* TLAPS needs the disjuncts of a step one by one.                          *)
LEMMA LayerSteps ==
  ASSUME [LayerNext]_layerVars
  PROVE  \/ \E c \in Conns :
              \/ ClientConnect(c) \/ ClientSend(c) \/ ClientRecv(c) \/ ClientClose(c)
              \/ OnConnection(c) \/ OnRecv(c) \/ SendWaiting(c)
         \/ OnConnectionFailed
         \/ Restart
         \/ UNCHANGED layerVars
BY DEF LayerNext

LEMMA TypesStep == TypesInv /\ [LayerNext]_layerVars => TypesInv'
<1> SUFFICES ASSUME TypesInv, [LayerNext]_layerVars PROVE TypesInv'
  OBVIOUS
<1>1. ASSUME NEW c \in Conns, ClientConnect(c) PROVE TypesInv'
  BY <1>1 DEF ClientConnect, clientVars, TypesInv
<1>2. ASSUME NEW c \in Conns, ClientSend(c) PROVE TypesInv'
  <2>1. sent[c] + 1 \in 1 .. MaxPackets /\ sent'[c] = sent[c] + 1
    BY <1>2, SessionAssumption DEF ClientSend, TypesInv
  <2>2. stream[c] \o Packet(sent'[c]) \in Seq(Piece)
    BY <2>1, PacketPieces, ConcatProperties DEF TypesInv
  <2> QED
    BY <1>2, <2>1, <2>2 DEF ClientSend, sessionVars, TypesInv
<1>3. ASSUME NEW c \in Conns, ClientRecv(c) PROVE TypesInv'
  <2>1. Append(inbox[c], Head(sndbuf[c])) \in Seq(Reply) /\ Tail(sndbuf[c]) \in Seq(Reply)
    BY <1>3, RepliesMove DEF ClientRecv, TypesInv
  <2> QED
    BY <1>3, <2>1 DEF ClientRecv, sessionVars, TypesInv
<1>4. ASSUME NEW c \in Conns, ClientClose(c) PROVE TypesInv'
  <2>1. PICK rest \in {stream[c], <<>>} : stream' = [stream EXCEPT ![c] = rest]
    BY <1>4 DEF ClientClose
  <2>2. rest \in Seq(Piece)
    <3>1. stream[c] \in Seq(Piece)
      BY DEF TypesInv
    <3>2. <<>> \in Seq(Piece)
      OBVIOUS
    <3> QED
      BY <3>1, <3>2
  <2> QED
    BY <1>4, <2>1, <2>2 DEF ClientClose, sessionVars, clientVars, TypesInv
<1>5. ASSUME NEW c \in Conns, OnConnection(c) PROVE TypesInv'
  BY <1>5 DEF OnConnection, clientVars, TypesInv
<1>6. ASSUME NEW c \in Conns, OnRecv(c) PROVE TypesInv'
  <2>1. /\ UNCHANGED <<eof, sent, inbox>>
        /\ waiting' \in [Conns -> Nat] /\ sndbuf' \in [Conns -> Seq(Reply)]
        /\ stream' \in [Conns -> Seq(Piece)] /\ torn' \in [Conns -> Nat]
        /\ Stays(c) \/ Ends \/ Closes(c)
    BY <1>6, ReceiveEffect
  <2>2. alive' \in BOOLEAN /\ socket' \in [Conns -> {"none", "backlog", "open", "closed"}]
    BY <2>1 DEF Stays, Ends, Closes, TypesInv
  <2> QED
    BY <2>1, <2>2 DEF TypesInv
<1>7. ASSUME NEW c \in Conns, SendWaiting(c) PROVE TypesInv'
  <2>1. waiting[c] - 1 \in Nat
    BY <1>7 DEF SendWaiting, TypesInv
  <2>2. Append(sndbuf[c], Spoilt) \in Seq(Reply)
    BY AppendProperties DEF Reply, TypesInv
  <2> QED
    BY <1>7, <2>1, <2>2 DEF SendWaiting, clientVars, TypesInv
<1>8. CASE OnConnectionFailed
  BY <1>8 DEF OnConnectionFailed, clientVars, TypesInv
<1>9. CASE Restart
  BY <1>9 DEF Restart, clientVars, TypesInv
<1>10. CASE UNCHANGED layerVars
  BY <1>10 DEF layerVars, sessionVars, clientVars, TypesInv
<1> QED
  BY LayerSteps, <1>1, <1>2, <1>3, <1>4, <1>5, <1>6, <1>7, <1>8, <1>9, <1>10

(* A new session takes an id no session has.                                *)
LEMMA SessionJoins ==
  ASSUME MapInv, NEW c \in Conns \cup {NoConn}, Safe_AddSession(c)
  PROVE  /\ m_sessionid' = m_sessionid + 1
         /\ DOMAIN m_sessionmap' \subseteq FirstId .. m_sessionid' - 1
         /\ \A i \in DOMAIN m_sessionmap' : m_sessionmap'[i] \in Conns \cup {NoConn}
         /\ Entries(c)' = Entries(c) \cup {m_sessionid}
         /\ \A d \in Conns : d # c => Entries(d)' = Entries(d)
<1>1. m_sessionid \in Nat /\ FirstId \in Nat /\ m_sessionid >= FirstId
      /\ DOMAIN m_sessionmap \subseteq FirstId .. m_sessionid - 1
  BY SessionAssumption DEF MapInv
<1>2. m_sessionid \notin DOMAIN m_sessionmap
  BY <1>1
<1>3. /\ m_sessionid' = m_sessionid + 1
      /\ m_sessionmap' = [i \in DOMAIN m_sessionmap \cup {m_sessionid} |->
                            IF i = m_sessionid THEN c ELSE m_sessionmap[i]]
  BY <1>2 DEF Safe_AddSession
<1>4. DOMAIN m_sessionmap' = DOMAIN m_sessionmap \cup {m_sessionid}
  BY <1>3
<1>5. /\ m_sessionmap'[m_sessionid] = c
      /\ \A i \in DOMAIN m_sessionmap : m_sessionmap'[i] = m_sessionmap[i]
  BY <1>2, <1>3
<1>6. DOMAIN m_sessionmap' \subseteq FirstId .. m_sessionid' - 1
  BY <1>1, <1>3, <1>4
<1>7. \A i \in DOMAIN m_sessionmap' : m_sessionmap'[i] \in Conns \cup {NoConn}
  BY <1>4, <1>5 DEF MapInv
<1>8. Entries(c)' = Entries(c) \cup {m_sessionid}
  BY <1>4, <1>5 DEF Entries
<1>9. \A d \in Conns : d # c => Entries(d)' = Entries(d)
  BY <1>4, <1>5 DEF Entries
<1> QED
  BY <1>3, <1>6, <1>7, <1>8, <1>9

LEMMA MapStep == TypesInv /\ MapInv /\ [LayerNext]_layerVars => MapInv'
<1> SUFFICES ASSUME TypesInv, MapInv, [LayerNext]_layerVars PROVE MapInv'
  OBVIOUS
<1>1. ASSUME NEW c \in Conns, ClientConnect(c) PROVE MapInv'
  <2>1. \A d \in Conns : socket'[d] = IF d = c THEN "backlog" ELSE socket[d]
    BY <1>1 DEF ClientConnect, TypesInv
  <2>2. socket[c] = "none" /\ UNCHANGED <<m_sessionmap, m_sessionid, receiving>>
    BY <1>1 DEF ClientConnect
  <2>3. \A d \in Conns : Entries(d)' = Entries(d)
    BY <2>2 DEF Entries
  <2> QED
    BY <2>1, <2>2, <2>3 DEF MapInv
<1>2. ASSUME UNCHANGED <<m_sessionmap, m_sessionid, socket, receiving>> PROVE MapInv'
  BY <1>2 DEF MapInv, Entries
<1>3. ASSUME NEW c \in Conns, OnConnection(c) PROVE MapInv'
  <2>1. /\ m_sessionid' = m_sessionid + 1
        /\ DOMAIN m_sessionmap' \subseteq FirstId .. m_sessionid' - 1
        /\ \A i \in DOMAIN m_sessionmap' : m_sessionmap'[i] \in Conns \cup {NoConn}
        /\ Entries(c)' = Entries(c) \cup {m_sessionid}
        /\ \A d \in Conns : d # c => Entries(d)' = Entries(d)
    BY <1>3, SessionJoins DEF OnConnection
  <2>2. Entries(c) = {}
    BY <1>3 DEF OnConnection, MapInv
  <2>3. socket'[c] = "open" /\ \A d \in Conns : d # c => socket'[d] = socket[d]
    BY <1>3 DEF OnConnection, TypesInv
  <2>4. Entries(c)' = {m_sessionid} /\ m_sessionid \in DOMAIN m_sessionmap'
    BY <2>1, <2>2 DEF Entries
  <2>5. ASSUME NEW d \in Conns
        PROVE  /\ socket'[d] \in {"none", "backlog"} => Entries(d)' = {}
               /\ socket'[d] = "open" => \E i \in DOMAIN m_sessionmap' : Entries(d)' = {i}
    <3>1. CASE d = c
      BY <2>3, <2>4, <3>1
    <3>2. CASE d # c
      <4>1. socket[d] = "open" => \E i \in Entries(d) : Entries(d) = {i}
        BY DEF MapInv
      <4>2. Entries(d)' \subseteq DOMAIN m_sessionmap'
        BY DEF Entries
      <4> QED
        BY <2>1, <2>3, <3>2, <4>1, <4>2 DEF MapInv
    <3> QED
      BY <3>1, <3>2
  <2>6. m_sessionid' \in Nat /\ m_sessionid' >= FirstId
    BY <2>1, SessionAssumption DEF MapInv
  <2>7. receiving' \subseteq {d \in Conns : socket'[d] = "open"}
    BY <1>3, <2>3 DEF OnConnection, MapInv
  <2> QED
    BY <2>1, <2>5, <2>6, <2>7 DEF MapInv
<1>4. CASE OnConnectionFailed
  <2>1. /\ m_sessionid' = m_sessionid + 1
        /\ DOMAIN m_sessionmap' \subseteq FirstId .. m_sessionid' - 1
        /\ \A i \in DOMAIN m_sessionmap' : m_sessionmap'[i] \in Conns \cup {NoConn}
        /\ \A d \in Conns : d # NoConn => Entries(d)' = Entries(d)
    BY <1>4, SessionJoins DEF OnConnectionFailed
  <2>2. \A d \in Conns : Entries(d)' = Entries(d)
    BY <2>1, SessionAssumption
  <2>3. UNCHANGED <<socket, receiving>>
    BY <1>4 DEF OnConnectionFailed
  <2>4. \A d \in Conns : Entries(d)' \subseteq DOMAIN m_sessionmap'
    BY DEF Entries
  <2>5. \A d \in Conns : socket[d] = "open" => \E i \in Entries(d) : Entries(d) = {i}
    BY DEF MapInv
  <2>6. \A d \in Conns :
          /\ socket'[d] \in {"none", "backlog"} => Entries(d)' = {}
          /\ socket'[d] = "open" => \E i \in DOMAIN m_sessionmap' : Entries(d)' = {i}
    BY <2>2, <2>3, <2>4, <2>5 DEF MapInv
  <2>7. m_sessionid' \in Nat /\ m_sessionid' >= FirstId
    BY <2>1, SessionAssumption DEF MapInv
  <2> QED
    BY <2>1, <2>3, <2>6, <2>7 DEF MapInv
<1>5. ASSUME NEW c \in Conns, OnRecv(c) PROVE MapInv'
  <2>1. Stays(c) \/ Ends \/ Closes(c)
    BY <1>5, ReceiveEffect
  <2>2. CASE Stays(c)
    BY <2>2 DEF Stays, MapInv, Entries
  <2>3. CASE Ends
    <3>1. DOMAIN m_sessionmap' = {} /\ m_sessionid' = FirstId /\ receiving' = {}
      BY <2>3 DEF Ends
    <3>2. \A d \in Conns : Entries(d)' = {} /\ socket'[d] # "open"
      BY <2>3, <3>1 DEF Ends, Entries
    <3> QED
      BY <3>1, <3>2, SessionAssumption DEF MapInv
  <2>4. CASE Closes(c)
    <3>1. \A d \in Conns : socket'[d] = IF d = c THEN "closed" ELSE socket[d]
      BY <2>4 DEF Closes, TypesInv
    <3> QED
      BY <2>4, <3>1 DEF Closes, MapInv, Entries
  <2> QED
    BY <2>1, <2>2, <2>3, <2>4
<1> QED
  BY LayerSteps, <1>1, <1>2, <1>3, <1>4, <1>5
     DEF ClientSend, ClientRecv, ClientClose, SendWaiting, Restart, sessionVars, layerVars

(* The order of a connection depends on its own pieces, replies and packets. *)
LEMMA OrderStep ==
  ASSUME TypesInv, TypesInv', [LayerNext]_layerVars, NEW d \in Conns, OrderInv(d)
  PROVE  OrderInv(d)'
<1> DEFINE s == stream[d]
           rs == inbox[d] \o sndbuf[d]
           n == sent[d]
<1>1. /\ s \in Seq(Piece) /\ inbox[d] \in Seq(Reply) /\ sndbuf[d] \in Seq(Reply)
      /\ rs \in Seq(Reply) /\ n \in 0 .. MaxPackets /\ InOrder(s, rs, n)
  BY ConcatProperties DEF TypesInv, OrderInv
<1>2. ASSUME stream'[d] = s, inbox'[d] = inbox[d], sndbuf'[d] = sndbuf[d], sent'[d] = n
      PROVE  OrderInv(d)'
  BY <1>1, <1>2 DEF OrderInv
<1>3. ASSUME NEW c \in Conns, ClientSend(c) PROVE OrderInv(d)'
  <2>1. CASE c = d
    <3>1. sent'[d] = n + 1 /\ n + 1 \in 1 .. MaxPackets
      BY <1>3, <2>1, SessionAssumption DEF ClientSend, TypesInv
    <3>2. stream'[d] = s \o Packet(n + 1) /\ UNCHANGED <<inbox, sndbuf>>
      BY <1>3, <2>1, <3>1 DEF ClientSend, TypesInv
    <3>3. InOrder(s \o Packet(n + 1), rs, n + 1)
      BY <1>1, <3>1, SendingKeepsOrder
    <3> QED
      BY <3>1, <3>2, <3>3 DEF OrderInv
  <2>2. CASE c # d
    BY <1>2, <1>3, <2>2 DEF ClientSend, TypesInv
  <2> QED
    BY <2>1, <2>2
<1>4. ASSUME NEW c \in Conns, ClientRecv(c) PROVE OrderInv(d)'
  <2>1. CASE c = d
    <3>1. /\ sndbuf[d] # <<>> /\ UNCHANGED <<stream, sent>>
          /\ inbox'[d] = Append(inbox[d], Head(sndbuf[d])) /\ sndbuf'[d] = Tail(sndbuf[d])
      BY <1>4, <2>1 DEF ClientRecv, TypesInv
    <3>2. inbox'[d] \o sndbuf'[d] = rs
      BY <1>1, <3>1, RepliesMove
    <3> QED
      BY <1>1, <3>1, <3>2 DEF OrderInv
  <2>2. CASE c # d
    BY <1>2, <1>4, <2>2 DEF ClientRecv, TypesInv
  <2> QED
    BY <2>1, <2>2
<1>5. ASSUME NEW c \in Conns, ClientClose(c) PROVE OrderInv(d)'
  <2>1. PICK rest \in {stream[c], <<>>} : stream' = [stream EXCEPT ![c] = rest]
    BY <1>5 DEF ClientClose
  <2>2. UNCHANGED <<inbox, sndbuf, sent>>
    BY <1>5 DEF ClientClose, clientVars
  <2>3. stream'[d] = s \/ stream'[d] = <<>>
    BY <2>1 DEF TypesInv
  <2>4. CASE stream'[d] = <<>>
    <3>1. InOrder(<<>>, rs, n)
      BY <1>1 DEF InOrder, PiecesInOrder, AnswersBefore
    <3> QED
      BY <2>2, <2>4, <3>1 DEF OrderInv
  <2> QED
    BY <1>2, <2>2, <2>3, <2>4
<1>6. ASSUME NEW c \in Conns, OnRecv(c) PROVE OrderInv(d)'
  <2>1. /\ UNCHANGED <<eof, sent, inbox>>
        /\ \A e \in Conns \ {c} : sndbuf'[e] = sndbuf[e] /\ stream'[e] = stream[e]
        /\ Takes(c)
    BY <1>6, ReceiveEffect
  <2>2. CASE c # d
    BY <1>2, <2>1, <2>2
  <2>3. CASE c = d /\ stream'[c] = stream[c] /\ Silent(c)
    BY <1>2, <2>1, <2>3 DEF Silent
  <2>4. ASSUME c = d, NEW m \in 1 .. Len(stream[c]), stream'[c] = Left(stream[c], m),
               Silent(c) \/ Strays(c) \/ Answers(c)
        PROVE  OrderInv(d)'
    <3>1. stream'[d] = Left(s, m) /\ InOrder(Left(s, m), rs, n) /\ Left(s, m) \in Seq(Piece)
      BY <1>1, <2>4, ReceivingKeepsOrder, LeftPieces
    <3>2. CASE Silent(c)
      BY <2>1, <2>4, <3>1, <3>2 DEF Silent, OrderInv
    <3>3. CASE Strays(c)
      <4>1. PICK q \in {Stray, Part} : sndbuf'[d] = Append(sndbuf[d], q)
        BY <2>4, <3>3 DEF Strays
      <4>2. q \in Reply /\ q <= 0
        BY DEF Reply, Stray, Part
      <4>3. inbox'[d] \o sndbuf'[d] = Append(rs, q)
        BY <1>1, <2>1, <4>1, <4>2, RepliesGrow
      <4>4. InOrder(Left(s, m), Append(rs, q), n)
        BY <1>1, <3>1, <4>2, StrayKeepsOrder
      <4> QED
        BY <2>1, <3>1, <4>3, <4>4 DEF OrderInv
    <3>4. CASE Answers(c)
      <4>1. s[1].part = "op1" /\ sndbuf'[d] = Append(sndbuf[d], s[1].packet)
        BY <2>4, <3>4 DEF Answers
      <4>2. s[1].packet \in Reply /\ InOrder(Left(s, m), Append(rs, s[1].packet), n)
        BY <1>1, <2>4, <4>1, AnswerKeepsOrder
      <4>3. inbox'[d] \o sndbuf'[d] = Append(rs, s[1].packet)
        <5>1. inbox'[d] = inbox[d] /\ inbox[d] \in Seq(Reply) /\ sndbuf[d] \in Seq(Reply)
          BY <1>1, <2>1
        <5> HIDE DEF s
        <5>2. inbox[d] \o Append(sndbuf[d], s[1].packet) = Append(rs, s[1].packet)
          BY <4>2, <5>1, RepliesGrow
        <5> QED
          BY <4>1, <5>1, <5>2
      <4> QED
        BY <2>1, <3>1, <4>2, <4>3 DEF OrderInv
    <3> QED
      BY <2>4, <3>2, <3>3, <3>4
  <2> QED
    BY <2>1, <2>2, <2>3, <2>4 DEF Takes
<1>7. ASSUME NEW c \in Conns, SendWaiting(c) PROVE OrderInv(d)'
  <2>1. CASE c = d
    <3>1. sndbuf'[d] = Append(sndbuf[d], Spoilt) /\ UNCHANGED <<stream, inbox, sent>>
      BY <1>7, <2>1 DEF SendWaiting, clientVars, TypesInv
    <3>2. Spoilt \in Reply /\ Spoilt <= 0
      BY DEF Reply, Spoilt
    <3>3. inbox'[d] \o sndbuf'[d] = Append(rs, Spoilt)
      <4>1. inbox[d] \o Append(sndbuf[d], Spoilt) = Append(rs, Spoilt)
        BY <1>1, <3>2, RepliesGrow
      <4> QED
        BY <3>1, <4>1
    <3>4. InOrder(s, Append(rs, Spoilt), n)
      BY <1>1, <3>2, StrayKeepsOrder
    <3> QED
      BY <3>1, <3>3, <3>4 DEF OrderInv
  <2>2. CASE c # d
    BY <1>2, <1>7, <2>2 DEF SendWaiting, clientVars, TypesInv
  <2> QED
    BY <2>1, <2>2
<1>8. ASSUME UNCHANGED <<stream, inbox, sndbuf, sent>> PROVE OrderInv(d)'
  BY <1>2, <1>8
<1> QED
  BY LayerSteps, <1>3, <1>4, <1>5, <1>6, <1>7, <1>8
     DEF ClientConnect, OnConnection, OnConnectionFailed, Restart, clientVars, layerVars

(* A packet joins whole, and what is left after a packet begins with one.   *)
LEMMA FramesStep ==
  ASSUME TypesInv, [LayerNext]_layerVars, NEW d \in Conns, FramesInv(d)
  PROVE  FramesInv(d)'
<1>1. stream[d] \in Seq(Piece) /\ Len(stream[d]) \in Nat
  BY LenProperties DEF TypesInv
<1>2. ASSUME stream'[d] = stream[d], torn'[d] = torn[d],
             socket'[d] = "open" => (socket[d] = "open" /\ (d \in receiving => d \in receiving'))
                                    \/ d \in receiving'
      PROVE  FramesInv(d)'
  BY <1>2 DEF FramesInv, IsEnd, Packet, Size
<1>3. ASSUME NEW c \in Conns, ClientSend(c) PROVE FramesInv(d)'
  <2>1. UNCHANGED <<socket, receiving, torn>>
    BY <1>3 DEF ClientSend, sessionVars
  <2>2. CASE c = d
    <3>1. sent[d] + 1 \in 1 .. MaxPackets /\ sent'[d] = sent[d] + 1
      BY <1>3, <2>2, SessionAssumption DEF ClientSend, TypesInv
    <3> DEFINE k == sent[d] + 1
               s == stream[d]
               p == Packet(k)
               t == s \o p
    <3>2. stream'[d] = t
      BY <1>3, <2>2, <3>1 DEF ClientSend, TypesInv
    <3>3. /\ p \in Seq(Piece) /\ Len(p) = Size(k) /\ Size(k) \in Nat /\ Size(k) >= 2
          /\ p[1].part = "op1"
          /\ \A i \in 1 .. Size(k) : IsEnd(p[i]) <=> i = Size(k)
      BY <3>1, PacketPieces
    <3>4. FramesInv(d) /\ s \in Seq(Piece) /\ Len(s) \in Nat
      BY <1>1
    <3> HIDE DEF k, p
    <3>5. /\ t \in Seq(Piece) /\ Len(t) = Len(s) + Size(k)
          /\ \A i \in 1 .. Len(s) + Size(k) : t[i] = IF i <= Len(s) THEN s[i] ELSE p[i - Len(s)]
      <4>1. s \in Seq(Piece) /\ p \in Seq(Piece) /\ Len(p) = Size(k)
        BY <3>3, <3>4
      <4>2. /\ t \in Seq(Piece) /\ Len(t) = Len(s) + Len(p)
            /\ \A i \in 1 .. Len(s) + Len(p) : t[i] = IF i <= Len(s) THEN s[i] ELSE p[i - Len(s)]
        BY <4>1, ConcatProperties
      <4> QED
        BY <4>1, <4>2
    <3> HIDE DEF t
    <3>6. ASSUME torn[d] = 0 PROVE t[1].part = "op1"
      <4>1. 1 \in 1 .. Len(s) + Size(k)
        BY <3>3, <3>4
      <4>2. CASE s = <<>>
        <5>1. Len(s) = 0
          BY <4>2
        <5> QED
          BY <3>3, <3>5, <4>1, <5>1
      <4>3. CASE s # <<>>
        <5>1. 1 <= Len(s)
          BY <3>4, <4>3, EmptySeq
        <5>2. s[1].part = "op1"
          BY <3>4, <3>6, <4>3 DEF FramesInv
        <5> QED
          BY <3>5, <4>1, <5>1, <5>2
      <4> QED
        BY <4>2, <4>3
    <3>7. ASSUME NEW j \in 2 .. Len(t), IsEnd(t[j - 1]) PROVE t[j].part = "op1"
      <4>1. j \in 1 .. Len(s) + Size(k) /\ j - 1 \in 1 .. Len(s) + Size(k)
        BY <3>3, <3>4, <3>5
      <4>2. CASE j <= Len(s)
        <5>1. t[j] = s[j] /\ t[j - 1] = s[j - 1] /\ j \in 2 .. Len(s)
          BY <3>4, <3>5, <4>1, <4>2
        <5> QED
          BY <3>4, <3>7, <5>1 DEF FramesInv
      <4>3. CASE j = Len(s) + 1
        <5>1. t[j] = p[1]
          BY <3>4, <3>5, <4>1, <4>3
        <5> QED
          BY <3>3, <5>1
      <4>4. CASE j > Len(s) + 1
        <5>1. /\ t[j - 1] = p[(j - 1) - Len(s)] /\ (j - 1) - Len(s) \in 1 .. Size(k)
              /\ (j - 1) - Len(s) # Size(k)
          <6>1. ~(j - 1 <= Len(s))
            BY <3>4, <4>1, <4>4
          <6>2. t[j - 1] = p[(j - 1) - Len(s)]
            BY <3>5, <4>1, <6>1
          <6>3. (j - 1) - Len(s) \in 1 .. Size(k) /\ (j - 1) - Len(s) # Size(k)
            <7>1. j \in Nat /\ j <= Len(s) + Size(k)
              BY <3>3, <3>4, <4>1
            <7>2. Size(k) \in Nat /\ Len(s) \in Nat
              BY <3>3, <3>4
            <7>3. \A x, y, z \in Nat : x > y + 1 /\ x <= y + z =>
                    (x - 1) - y \in 1 .. z /\ (x - 1) - y # z
              OBVIOUS
            <7> QED
              BY <4>4, <7>1, <7>2, <7>3
          <6> QED
            BY <6>2, <6>3
        <5> QED
          BY <3>3, <3>7, <5>1
      <4> QED
        BY <3>4, <4>1, <4>2, <4>3, <4>4
    <3>8. FramesInv(d)' = (/\ torn[d] = 0 /\ t # <<>> => t[1].part = "op1"
                           /\ \A j \in 2 .. Len(t) : IsEnd(t[j - 1]) => t[j].part = "op1"
                           /\ torn[d] = 0 /\ socket[d] = "open" => d \in receiving)
      BY <2>1, <3>2 DEF FramesInv, IsEnd, Packet, Size
    <3> QED
      BY <3>6, <3>7, <3>8 DEF FramesInv
  <2>3. CASE c # d
    BY <1>2, <1>3, <2>1, <2>3 DEF ClientSend, TypesInv
  <2> QED
    BY <2>2, <2>3
<1>4. ASSUME NEW c \in Conns, ClientClose(c) PROVE FramesInv(d)'
  <2>1. PICK rest \in {stream[c], <<>>} : stream' = [stream EXCEPT ![c] = rest]
    BY <1>4 DEF ClientClose
  <2>2. UNCHANGED <<socket, receiving, torn>>
    BY <1>4 DEF ClientClose, sessionVars
  <2>3. stream'[d] = stream[d] \/ stream'[d] = <<>>
    BY <2>1 DEF TypesInv
  <2>4. CASE stream'[d] = <<>>
    <3>1. \A j \in 2 .. Len(stream'[d]) : FALSE
      BY <2>4
    <3> QED
      BY <2>2, <2>4, <3>1 DEF FramesInv
  <2> QED
    BY <1>2, <2>2, <2>3, <2>4
<1>5. ASSUME NEW c \in Conns, OnRecv(c) PROVE FramesInv(d)'
  <2>1. /\ \A e \in Conns \ {c} : stream'[e] = stream[e] /\ torn'[e] = torn[e]
        /\ Stays(c) \/ Ends \/ Closes(c)
        /\ (Closes(c) /\ UNCHANGED <<stream, torn>>) \/ Marks(c)
    BY <1>5, ReceiveEffect
  <2>2. c \in receiving
    BY <1>5 DEF OnRecv
  <2>3. CASE c # d
    <3>1. CASE Stays(c)
      BY <1>2, <2>1, <2>3, <3>1 DEF Stays
    <3>2. CASE Ends
      BY <1>2, <2>1, <2>3, <3>2 DEF Ends
    <3>3. CASE Closes(c)
      BY <1>2, <2>1, <2>3, <3>3 DEF Closes, TypesInv
    <3> QED
      BY <2>1, <3>1, <3>2, <3>3
  <2>4. CASE c = d /\ Closes(c) /\ UNCHANGED <<stream, torn>>
    BY <1>2, <2>4 DEF Closes, TypesInv
  <2>5. CASE c = d /\ Marks(c)
    <3>1. PICK n \in 1 .. Len(stream[d]) :
            /\ stream'[d] = Left(stream[d], n)
            /\ torn'[d] = IF torn[d] = 0 /\ ~IsEnd(stream[d][n])
                            THEN stream[d][n].packet ELSE torn[d]
            /\ d \in receiving' \/ Ends \/ n = 1
      BY <2>5 DEF Marks
    <3> DEFINE s == stream[d]
               t == Left(s, n)
    <3>2. s \in Seq(Piece) /\ Len(s) \in Nat /\ n \in 1 .. Len(s) /\ FramesInv(d)
      BY <1>1, <3>1
    <3>3. s[n].packet # 0 /\ s # <<>>
      <4>1. s[n] \in Piece
        BY <3>2, ElementOfSeq
      <4>2. s # <<>>
        BY <3>2, EmptySeq
      <4> QED
        BY <4>1, <4>2, SessionAssumption DEF Piece
    <3>4. /\ t \in Seq(Piece) /\ Len(t) = Len(s) - n
          /\ \A j \in 1 .. Len(s) - n : t[j] = s[n + j] /\ n + j \in 2 .. Len(s)
      BY <3>2, LeftPieces
    <3> HIDE DEF t
    <3>5. ASSUME torn'[d] = 0 PROVE torn[d] = 0 /\ IsEnd(s[n])
      BY <3>1, <3>3, <3>5
    <3>6. ASSUME torn'[d] = 0, t # <<>> PROVE t[1].part = "op1"
      <4>1. Len(t) \in Nat /\ Len(t) # 0
        BY <3>4, <3>6, EmptySeq, LenProperties
      <4>2. 1 \in 1 .. Len(s) - n
        BY <3>2, <3>4, <4>1
      <4>3. t[1] = s[n + 1] /\ n + 1 \in 2 .. Len(s) /\ (n + 1) - 1 = n
        BY <3>2, <3>4, <4>2
      <4> QED
        BY <3>2, <3>5, <3>6, <4>3 DEF FramesInv
    <3>7. ASSUME NEW j \in 2 .. Len(t), IsEnd(t[j - 1]) PROVE t[j].part = "op1"
      <4>1. j \in 1 .. Len(s) - n /\ j - 1 \in 1 .. Len(s) - n
        BY <3>2, <3>4
      <4>2. t[j] = s[n + j] /\ t[j - 1] = s[n + (j - 1)] /\ n + j \in 2 .. Len(s)
            /\ n + (j - 1) = (n + j) - 1
        <5>1. t[j] = s[n + j] /\ t[j - 1] = s[n + (j - 1)] /\ n + j \in 2 .. Len(s)
          BY <3>4, <4>1
        <5>2. n + (j - 1) = (n + j) - 1
          BY <3>2, <4>1
        <5> QED
          BY <5>1, <5>2
      <4> QED
        BY <3>2, <3>7, <4>2 DEF FramesInv
    <3>8. ASSUME torn'[d] = 0, socket'[d] = "open" PROVE d \in receiving'
      <4>1. CASE Ends
        BY <3>8, <4>1 DEF Ends
      <4>2. CASE n = 1
        <5>1. s[1].part = "op1" /\ IsEnd(s[1]) /\ s[1] \in Piece
          BY <3>2, <3>3, <3>5, <3>8, <4>2, ElementOfSeq DEF FramesInv
        <5> DEFINE k == s[1].packet
        <5>2. k \in 1 .. MaxPackets
          BY <5>1 DEF Piece
        <5>3. s[1] = Packet(k)[Size(k)]
          BY <5>1 DEF IsEnd
        <5>4. Size(k) \in 2 .. Size(k)
          BY <5>2, PacketPieces
        <5> HIDE DEF k
        <5>5. Packet(k)[Size(k)].part # "op1"
          BY <5>2, <5>4, PacketPieces
        <5> QED
          BY <5>1, <5>3, <5>5
      <4> QED
        BY <3>1, <4>1, <4>2
    <3>9. FramesInv(d)' = (/\ torn'[d] = 0 /\ t # <<>> => t[1].part = "op1"
                           /\ \A j \in 2 .. Len(t) : IsEnd(t[j - 1]) => t[j].part = "op1"
                           /\ torn'[d] = 0 /\ socket'[d] = "open" => d \in receiving')
      BY <3>1 DEF FramesInv, IsEnd, Packet, Size, t
    <3> QED
      BY <3>6, <3>7, <3>8, <3>9
  <2> QED
    BY <2>1, <2>3, <2>4, <2>5
<1>6. ASSUME NEW c \in Conns, ClientConnect(c) PROVE FramesInv(d)'
  BY <1>2, <1>6 DEF ClientConnect, TypesInv
<1>7. ASSUME NEW c \in Conns, OnConnection(c) PROVE FramesInv(d)'
  BY <1>2, <1>7 DEF OnConnection, TypesInv
<1>8. ASSUME UNCHANGED <<socket, receiving, stream, torn>> PROVE FramesInv(d)'
  BY <1>2, <1>8
<1> QED
  BY LayerSteps, <1>3, <1>4, <1>5, <1>6, <1>7, <1>8
     DEF ClientRecv, SendWaiting, OnConnectionFailed, Restart, sessionVars, layerVars

(* A polite client's packet that is received whole is answered, unless the  *)
(* process ends; one that is not leaves its mark.                           *)
LEMMA PoliteReceive ==
  ASSUME TypesInv, NEW d \in Polite, WholeInv(d), torn[d] = 0, OnRecv(d), stream[d] # <<>>
  PROVE  /\ sent[d] = Len(inbox[d]) + 1 /\ sndbuf[d] = <<>>
         /\ \/ torn'[d] = sent[d]
            \/ /\ torn'[d] = 0 /\ stream'[d] = <<>>
               /\ sndbuf' = [sndbuf EXCEPT ![d] = << sent[d] >>] /\ waiting' = waiting
               /\ UNCHANGED <<alive, socket, receiving>>
            \/ /\ torn'[d] = 0 /\ stream'[d] = <<>>
               /\ sndbuf' = sndbuf /\ waiting'[d] = 0 /\ Ends
<1>1. d \in Conns /\ SndBuf > 0
  BY SessionAssumption
<1>2. /\ stream[d] = Packet(sent[d]) /\ sndbuf[d] = <<>> /\ waiting[d] = 0
      /\ sent[d] = Len(inbox[d]) + 1
  BY DEF WholeInv
<1>3. sent[d] \in 1 .. MaxPackets
  BY <1>1, <1>2, LenProperties DEF TypesInv
<1> DEFINE k == sent[d]
           z == Size(k)
<1>4. /\ Len(stream[d]) = z /\ stream[d] \in Seq(Piece) /\ z \in Nat /\ z >= 2
      /\ stream[d][1].part = "op1"
      /\ \A i \in 1 .. z : stream[d][i].packet = k /\ (IsEnd(stream[d][i]) <=> i = z)
  BY <1>2, <1>3, PacketPieces
<1>5. PICK n \in 1 .. Len(stream[d]) :
        LET pieces == SubSeq(stream[d], 1, n)
        IN  /\ stream' = [stream EXCEPT ![d] = Left(@, n)]
            /\ torn' = [torn EXCEPT ![d] = IF @ = 0 /\ ~IsEnd(pieces[n])
                                             THEN pieces[n].packet ELSE @]
            /\ \/ MaybeShort(pieces) /\ OnRecvShort(d)
               \/ ~SurelyShort(pieces) /\ Dispatch(d, pieces)
  <2>1. ~(stream[d] = <<>> /\ eof[d] /\ Close(d) /\ UNCHANGED <<stream, torn>>)
    OBVIOUS
  <2> QED
    BY <2>1, Zenon DEF OnRecv
<1> DEFINE pieces == SubSeq(stream[d], 1, n)
<1>6. /\ Len(pieces) = n /\ pieces[n] = stream[d][n] /\ pieces[1] = stream[d][1] /\ n \in 1 .. z
  <2>1. \A i \in 1 .. n : stream[d][i] \in Piece
    BY <1>4, ElementOfSeq
  <2>2. n \in 1 .. n /\ 1 \in 1 .. n
    BY <1>4
  <2>3. Len(pieces) = n /\ \A i \in 1 .. n : pieces[i] = stream[d][i]
    BY <1>4, <2>1, SubSeqProperties
  <2> QED
    BY <1>4, <2>2, <2>3
<1>7. stream'[d] = Left(stream[d], n)
  BY <1>1, <1>5 DEF TypesInv
<1>8. torn'[d] = IF n = z THEN 0 ELSE k
  <2>1. torn'[d] = IF torn[d] = 0 /\ ~IsEnd(pieces[n]) THEN pieces[n].packet ELSE torn[d]
    BY <1>1, <1>5 DEF TypesInv
  <2> QED
    BY <1>4, <1>6, <2>1
<1>9. /\ (MaybeShort(pieces) /\ OnRecvShort(d)) \/ Dispatch(d, pieces)
  BY <1>5
<1> HIDE DEF pieces, z
<1>10. CASE n # z
  BY <1>2, <1>8, <1>10
<1>11. CASE n = z
  <2>1. torn'[d] = 0
    BY <1>8, <1>11
  <2>2. stream'[d] = <<>>
    BY <1>4, <1>7, <1>11, SubSeqEmpty DEF Left
  <2>3. Dispatch(d, pieces)
    BY <1>4, <1>6, <1>9, <1>11 DEF MaybeShort
  <2>4. pieces[1].part = "op1" /\ Len(pieces) >= 2 /\ Len(pieces) >= Size(pieces[1].packet)
    <3>1. pieces[1].packet = k
      BY <1>4, <1>6
    <3> QED
      BY <1>4, <1>6, <1>11, <3>1 DEF z
  <2>5. Abort \/ (SendPacket(d, pieces[1].packet) /\ UNCHANGED <<alive, socket, receiving>>)
    BY <2>3, <2>4 DEF Dispatch
  <2>6. CASE Abort
    BY <1>1, <1>2, <2>1, <2>2, <2>6 DEF Abort, Ends
  <2>7. CASE SendPacket(d, pieces[1].packet) /\ UNCHANGED <<alive, socket, receiving>>
    <3>1. SendPacket(d, k)
      BY <1>4, <1>6, <2>7
    <3>2. /\ Len(sndbuf[d]) < SndBuf /\ Append(sndbuf[d], k) = << k >>
          /\ {k} \cup (IF sndbuf[d] = <<>> THEN {} ELSE {Part}) = {k}
      BY <1>1, <1>2
    <3>3. /\ waiting' = waiting
          /\ \E reply \in {k} : sndbuf' = [sndbuf EXCEPT ![d] = Append(sndbuf[d], reply)]
      BY <1>2, <3>1, <3>2, Zenon DEF SendPacket
    <3>4. sndbuf' = [sndbuf EXCEPT ![d] = << k >>]
      BY <3>2, <3>3
    <3> QED
      BY <1>2, <2>1, <2>2, <2>7, <3>3, <3>4
  <2> QED
    BY <2>5, <2>6, <2>7
<1> QED
  BY <1>10, <1>11

(* Once a packet is torn, the answers to those before it stay as they are.  *)
LEMMA TornStep ==
  ASSUME TypesInv, [LayerNext]_layerVars, NEW d \in Conns, torn[d] # 0, TornInv(d)
  PROVE  torn'[d] # 0 /\ TornInv(d)'
<1>1. /\ torn[d] \in Nat /\ inbox[d] \in Seq(Reply) /\ Len(inbox[d]) \in Nat
      /\ sndbuf[d] \in Seq(Reply)
  BY LenProperties DEF TypesInv
<1>2. ASSUME torn'[d] = torn[d], inbox'[d] = inbox[d] PROVE torn'[d] # 0 /\ TornInv(d)'
  BY <1>2 DEF TornInv
<1>3. ASSUME NEW c \in Conns, ClientRecv(c) PROVE torn'[d] # 0 /\ TornInv(d)'
  <2>1. torn' = torn /\ sndbuf[c] # <<>>
        /\ inbox' = [inbox EXCEPT ![c] = Append(inbox[c], Head(sndbuf[c]))]
    BY <1>3 DEF ClientRecv
  <2>2. CASE c = d
    <3>1. inbox'[d] = Append(inbox[d], Head(sndbuf[d])) /\ Head(sndbuf[d]) \in Reply
      BY <1>1, <2>1, <2>2, HeadTailProperties DEF TypesInv
    <3>2. /\ Len(inbox'[d]) = Len(inbox[d]) + 1
          /\ \A i \in 1 .. Len(inbox[d]) : inbox'[d][i] = inbox[d][i]
      BY <1>1, <3>1, AppendProperties
    <3>3. \A i \in 1 .. torn[d] - 1 : i \in 1 .. Len(inbox[d])
      BY <1>1 DEF TornInv
    <3> QED
      BY <1>1, <2>1, <3>2, <3>3 DEF TornInv
  <2>3. CASE c # d
    BY <1>2, <2>1, <2>3 DEF TypesInv
  <2> QED
    BY <2>2, <2>3
<1>4. ASSUME NEW c \in Conns, OnRecv(c) PROVE torn'[d] # 0 /\ TornInv(d)'
  <2>1. /\ inbox' = inbox /\ \A e \in Conns \ {c} : torn'[e] = torn[e]
        /\ (Closes(c) /\ UNCHANGED <<stream, torn>>) \/ Marks(c)
    BY <1>4, ReceiveEffect
  <2>2. torn'[d] = torn[d]
    BY <2>1 DEF Marks
  <2> QED
    BY <1>2, <2>1, <2>2
<1>5. ASSUME UNCHANGED <<inbox, torn>> PROVE torn'[d] # 0 /\ TornInv(d)'
  BY <1>2, <1>5
<1> QED
  BY LayerSteps, <1>3, <1>4, <1>5
     DEF ClientConnect, ClientSend, ClientClose, OnConnection, SendWaiting, OnConnectionFailed,
         Restart, clientVars, layerVars

LEMMA WholeStep ==
  ASSUME TypesInv, [LayerNext]_layerVars, NEW d \in Polite, torn[d] = 0, WholeInv(d)
  PROVE  PoliteInv(d)'
<1>1. /\ d \in Conns /\ stream[d] \in Seq(Piece) /\ inbox[d] \in Seq(Reply)
      /\ sndbuf[d] \in Seq(Reply) /\ sent[d] \in 0 .. MaxPackets
  BY SessionAssumption DEF TypesInv
<1>2. Len(inbox[d]) \in Nat /\ DOMAIN inbox[d] = 1 .. Len(inbox[d]) /\ sent[d] \in Nat
  BY <1>1, LenProperties, SessionAssumption
<1>3. ASSUME stream'[d] = stream[d], inbox'[d] = inbox[d], sndbuf'[d] = sndbuf[d],
             sent'[d] = sent[d], waiting'[d] \in {waiting[d], 0}
      PROVE  WholeInv(d)'
  BY <1>3 DEF WholeInv, Packet, Size
<1>4. ASSUME NEW c \in Conns, ClientSend(c) PROVE WholeInv(d)' /\ torn' = torn
  <2>1. CASE c = d
    <3>1. /\ sent[d] - Len(inbox[d]) < 1 /\ sent'[d] = sent[d] + 1
          /\ sent[d] + 1 \in 1 .. MaxPackets
          /\ UNCHANGED <<inbox, sndbuf, waiting, torn>>
      BY <1>1, <1>4, <2>1, SessionAssumption DEF ClientSend, sessionVars, TypesInv
    <3>2. sent[d] = Len(inbox[d]) /\ stream[d] = <<>> /\ sndbuf[d] = <<>>
      BY <1>2, <3>1 DEF WholeInv
    <3>3. stream'[d] = stream[d] \o Packet(sent'[d])
      BY <1>1, <1>4, <2>1 DEF ClientSend, TypesInv
    <3>4. stream'[d] = Packet(sent'[d])
      BY <3>1, <3>2, <3>3, PacketPieces, ConcatEmptySeq
    <3>5. sent'[d] - Len(inbox'[d]) = 1
      BY <1>2, <3>1, <3>2
    <3> QED
      BY <1>2, <3>1, <3>2, <3>4, <3>5 DEF WholeInv, Packet, Size
  <2>2. CASE c # d
    BY <1>1, <1>3, <1>4, <2>2 DEF ClientSend, sessionVars, TypesInv
  <2> QED
    BY <2>1, <2>2
<1>5. ASSUME NEW c \in Conns, ClientRecv(c) PROVE WholeInv(d)' /\ torn' = torn
  <2>1. CASE c = d
    <3>1. /\ sndbuf[d] # <<>> /\ UNCHANGED <<stream, sent, waiting, torn>>
          /\ inbox'[d] = Append(inbox[d], Head(sndbuf[d])) /\ sndbuf'[d] = Tail(sndbuf[d])
      BY <1>1, <1>5, <2>1 DEF ClientRecv, sessionVars, TypesInv
    <3>2. sndbuf[d] = << sent[d] >> /\ stream[d] = <<>> /\ sent[d] = Len(inbox[d]) + 1
      BY <3>1 DEF WholeInv
    <3>3. Head(sndbuf[d]) = sent[d] /\ Tail(sndbuf[d]) = <<>>
      BY <3>2
    <3>4. sent[d] \in Reply
      BY <1>1, <1>2, <3>2 DEF Reply
    <3>5. /\ Len(inbox'[d]) = sent[d] /\ inbox'[d] \in Seq(Reply)
          /\ \A i \in 1 .. Len(inbox[d]) : inbox'[d][i] = inbox[d][i]
          /\ inbox'[d][sent[d]] = sent[d]
      BY <1>1, <3>1, <3>2, <3>3, <3>4, AppendProperties
    <3>6. \A i \in DOMAIN inbox'[d] : i \in 1 .. Len(inbox[d]) \/ i = sent[d]
      BY <1>2, <3>2, <3>5, LenProperties
    <3>7. \A i \in DOMAIN inbox'[d] : inbox'[d][i] = i
      BY <1>2, <3>5, <3>6 DEF WholeInv
    <3>8. sent'[d] - Len(inbox'[d]) = 0
      BY <1>2, <3>1, <3>5
    <3>9. stream'[d] = <<>> /\ sndbuf'[d] = <<>> /\ waiting'[d] = 0
      BY <3>1, <3>2, <3>3 DEF WholeInv
    <3> QED
      BY <3>1, <3>7, <3>8, <3>9 DEF WholeInv
  <2>2. CASE c # d
    BY <1>1, <1>3, <1>5, <2>2 DEF ClientRecv, sessionVars, TypesInv
  <2> QED
    BY <2>1, <2>2
<1>6. ASSUME NEW c \in Conns, ClientClose(c) PROVE WholeInv(d)' /\ torn' = torn
  <2>1. PICK rest \in {stream[c], <<>>} : stream' = [stream EXCEPT ![c] = rest]
    BY <1>6 DEF ClientClose
  <2>2. UNCHANGED <<inbox, sndbuf, sent, waiting, torn>>
    BY <1>6 DEF ClientClose, sessionVars, clientVars
  <2>3. stream'[d] = stream[d] \/ stream'[d] = <<>>
    BY <1>1, <2>1 DEF TypesInv
  <2>4. CASE stream'[d] = <<>>
    BY <2>2, <2>4 DEF WholeInv
  <2> QED
    BY <1>3, <2>2, <2>3, <2>4
<1>7. ASSUME NEW c \in Conns, OnRecv(c) PROVE PoliteInv(d)'
  <2>1. /\ UNCHANGED <<eof, sent, inbox>> /\ waiting' \in [Conns -> Nat]
        /\ \A e \in Conns \ {c} : /\ waiting'[e] \in {waiting[e], 0}
                                  /\ sndbuf'[e] = sndbuf[e] /\ stream'[e] = stream[e]
                                  /\ torn'[e] = torn[e]
    BY <1>7, ReceiveEffect
  <2>2. CASE c # d
    BY <1>1, <1>3, <2>1, <2>2 DEF PoliteInv
  <2>3. CASE c = d /\ stream[d] # <<>>
    <3>1. /\ sent[d] = Len(inbox[d]) + 1 /\ sndbuf[d] = <<>>
          /\ \/ torn'[d] = sent[d]
             \/ /\ torn'[d] = 0 /\ stream'[d] = <<>>
                /\ sndbuf' = [sndbuf EXCEPT ![d] = << sent[d] >>] /\ waiting' = waiting
             \/ /\ torn'[d] = 0 /\ stream'[d] = <<>>
                /\ sndbuf' = sndbuf /\ waiting'[d] = 0
      BY <1>7, <2>3, PoliteReceive
    <3>2. CASE torn'[d] = sent[d]
      <4>1. torn'[d] # 0 /\ torn'[d] <= Len(inbox'[d]) + 1
        BY <1>2, <2>1, <3>1, <3>2
      <4>2. \A i \in 1 .. torn'[d] - 1 : i \in DOMAIN inbox[d]
        BY <1>2, <3>1, <3>2
      <4>3. \A i \in 1 .. torn'[d] - 1 : inbox'[d][i] = i
        BY <2>1, <4>2 DEF WholeInv
      <4> QED
        BY <4>1, <4>3 DEF PoliteInv, TornInv
    <3>3. CASE /\ torn'[d] = 0 /\ stream'[d] = <<>>
               /\ sndbuf' = [sndbuf EXCEPT ![d] = << sent[d] >>] /\ waiting' = waiting
      <4>1. sndbuf'[d] = << sent'[d] >>
        BY <1>1, <2>1, <3>3 DEF TypesInv
      <4>2. WholeInv(d)'
        BY <1>2, <2>1, <3>1, <3>3, <4>1 DEF WholeInv
      <4> QED
        BY <3>3, <4>2 DEF PoliteInv
    <3>4. CASE /\ torn'[d] = 0 /\ stream'[d] = <<>>
               /\ sndbuf' = sndbuf /\ waiting'[d] = 0
      <4>1. WholeInv(d)'
        BY <2>1, <3>1, <3>4 DEF WholeInv
      <4> QED
        BY <3>4, <4>1 DEF PoliteInv
    <3> QED
      BY <3>1, <3>2, <3>3, <3>4
  <2>4. CASE c = d /\ stream[d] = <<>>
    <3>1. \A n \in 1 .. Len(stream[d]) : FALSE
      BY <2>4
    <3>2. Close(d) /\ UNCHANGED <<stream, torn>>
      BY <1>7, <2>4, <3>1 DEF OnRecv
    <3>3. WholeInv(d)'
      BY <1>1, <1>3, <2>1, <3>2 DEF Close, TypesInv
    <3> QED
      BY <3>2, <3>3 DEF PoliteInv
  <2> QED
    BY <2>2, <2>3, <2>4
<1>8. ASSUME NEW c \in Conns, SendWaiting(c) PROVE WholeInv(d)' /\ torn' = torn
  <2>1. waiting[c] > 0 /\ waiting[d] = 0
    BY <1>8 DEF SendWaiting, WholeInv
  <2>2. c # d
    BY <2>1
  <2> QED
    BY <1>1, <1>3, <1>8, <2>2 DEF SendWaiting, clientVars, TypesInv
<1>9. ASSUME UNCHANGED <<stream, inbox, sndbuf, sent, waiting, torn>>
      PROVE WholeInv(d)' /\ torn' = torn
  BY <1>3, <1>9
<1>10. ASSUME WholeInv(d)', torn' = torn PROVE PoliteInv(d)'
  BY <1>10 DEF PoliteInv
<1> QED
  BY LayerSteps, <1>4, <1>5, <1>6, <1>7, <1>8, <1>9, <1>10
     DEF ClientConnect, OnConnection, OnConnectionFailed, Restart, sessionVars, clientVars, layerVars

LEMMA PoliteStep ==
  ASSUME TypesInv, [LayerNext]_layerVars, NEW d \in Polite, PoliteInv(d)
  PROVE  PoliteInv(d)'
<1>1. d \in Conns
  BY SessionAssumption
<1>2. CASE torn[d] = 0
  BY <1>2, WholeStep DEF PoliteInv
<1>3. CASE torn[d] # 0
  <2>1. torn'[d] # 0 /\ TornInv(d)'
    BY <1>1, <1>3, TornStep DEF PoliteInv
  <2> QED
    BY <2>1 DEF PoliteInv
<1> QED
  BY <1>2, <1>3

LEMMA LayerStep == LayerInv /\ [LayerNext]_layerVars => LayerInv'
<1> SUFFICES ASSUME LayerInv, [LayerNext]_layerVars PROVE LayerInv'
  OBVIOUS
<1>1. TypesInv /\ TypesInv' /\ MapInv'
  BY TypesStep, MapStep DEF LayerInv
<1>2. \A c \in Conns : OrderInv(c)' /\ FramesInv(c)'
  BY <1>1, OrderStep, FramesStep DEF LayerInv
<1>3. \A c \in Polite : PoliteInv(c)'
  BY <1>1, PoliteStep DEF LayerInv
<1> QED
  BY <1>1, <1>2, <1>3 DEF LayerInv

LEMMA LayerInvariant == LayerSpec => []LayerInv
BY LayerInitiallyInv, LayerStep, PTL DEF LayerSpec

-----------------------------------------------------------------------------
(* The theorems                                                             *)

(* Types, and: an open connection has exactly one session in the map, and   *)
(* only open connections receive, so that the object whose methods the      *)
(* callbacks call is there, however connections come, close and fail.       *)
THEOREM LayerTypesHold == LayerSpec => []LayerTypeOK
<1>1. ASSUME LayerInv PROVE LayerTypeOK
  <2>1. TypesInv /\ MapInv
    BY <1>1 DEF LayerInv
  <2>2. ASSUME NEW c \in Conns, socket[c] = "open" PROVE Cardinality(Entries(c)) = 1
    <3>1. PICK i \in DOMAIN m_sessionmap : Entries(c) = {i}
      BY <2>1, <2>2 DEF MapInv
    <3> QED
      BY <3>1, FS_Singleton
  <2> QED
    BY <2>1, <2>2 DEF TypesInv, MapInv, LayerTypeOK
<1> QED
  BY LayerInvariant, <1>1, PTL

(* Every reply answers a packet of its connection that was sent, each once, *)
(* and in the order they were sent: for any number of packets, of any       *)
(* clients, cut anywhere.                                                   *)
THEOREM RepliesStayInOrder == LayerSpec => []RepliesInOrder
<1>1. LayerInv => RepliesInOrder
  BY DEF LayerInv, OrderInv, InOrder, AnswersInOrder, RepliesInOrder
<1> QED
  BY LayerInvariant, <1>1, PTL

(* A client that waits for each answer can tell what a reply answers by     *)
(* counting, as long as each of its packets arrives in one receive, whatever *)
(* the others do and however theirs arrive.                                 *)
THEOREM PoliteAnswersMatch == LayerSpec => []AnswersMatch
<1>1. ASSUME LayerInv PROVE AnswersMatch
  <2>1. SUFFICES ASSUME NEW c \in Polite, NEW i \in DOMAIN inbox[c], torn[c] = 0 \/ i < torn[c]
                 PROVE  inbox[c][i] = i
    BY DEF AnswersMatch
  <2>2. PoliteInv(c) /\ c \in Conns /\ TypesInv
    BY <1>1, SessionAssumption DEF LayerInv
  <2>3. CASE torn[c] = 0
    BY <2>2, <2>3 DEF PoliteInv, WholeInv
  <2>4. CASE torn[c] # 0
    <3>1. i \in Nat /\ i >= 1 /\ torn[c] \in Nat
      BY <2>2, LenProperties DEF TypesInv
    <3>2. i \in 1 .. torn[c] - 1
      BY <2>1, <2>4, <3>1
    <3> QED
      BY <2>2, <2>4, <3>2 DEF PoliteInv, TornInv
  <2> QED
    BY <2>3, <2>4
<1> QED
  BY LayerInvariant, <1>1, PTL

(* Nobody's connection goes deaf but by a receive that ends inside one of   *)
(* its packets: pipelined packets, packets of an opcode alone, resets,      *)
(* failed accepts and restarts never leave an open connection unheard.      *)
THEOREM DeafWhenTornOnly == LayerSpec => []DeafOnlyIfTorn
<1>1. LayerInv => DeafOnlyIfTorn
  BY DEF LayerInv, FramesInv, DeafOnlyIfTorn
<1> QED
  BY LayerInvariant, <1>1, PTL

-----------------------------------------------------------------------------
(* Nobody polite is left waiting for nothing                                *)

(* A connection that is accepted, or waits to be, belongs to a process that *)
(* runs, and a packet that is not answered is on its way, or its answer, as *)
(* long as none was torn and the connection was not closed.                 *)
HeardInv(c) ==
  /\ ~alive => socket[c] \in {"none", "closed"}
  /\ sent[c] > 0 => socket[c] # "none"
  /\ torn[c] = 0 /\ ~eof[c] /\ Len(inbox[c]) < sent[c] =>
       stream[c] # <<>> \/ sndbuf[c] # <<>> \/ socket[c] = "closed"

LEMMA HeardClients ==
  ASSUME TypesInv, NEW d \in Polite, PoliteInv(d), HeardInv(d), NEW c \in Conns,
         ClientConnect(c) \/ ClientSend(c) \/ ClientRecv(c) \/ ClientClose(c)
  PROVE  HeardInv(d)'
<1>1. /\ d \in Conns /\ stream[d] \in Seq(Piece) /\ inbox[d] \in Seq(Reply)
      /\ sent[d] \in Nat /\ Len(inbox[d]) \in Nat
  BY LenProperties, SessionAssumption DEF TypesInv
<1>2. CASE ClientConnect(c)
  <2>1. /\ alive /\ UNCHANGED <<alive, stream, eof, sndbuf, sent, inbox, torn>>
        /\ socket'[d] = socket[d] \/ (socket[d] = "none" /\ socket'[d] = "backlog")
    BY <1>1, <1>2 DEF ClientConnect, clientVars, TypesInv
  <2> QED
    BY <2>1 DEF HeardInv
<1>3. CASE ClientSend(c)
  <2>1. /\ UNCHANGED <<alive, socket, eof, sndbuf, inbox, torn>>
        /\ socket[c] \in {"backlog", "open"}
    BY <1>3 DEF ClientSend, sessionVars
  <2>2. CASE c = d
    <3>1. sent[d] + 1 \in 1 .. MaxPackets /\ sent'[d] = sent[d] + 1
      BY <1>1, <1>3, <2>2, SessionAssumption DEF ClientSend, TypesInv
    <3>2. stream'[d] = stream[d] \o Packet(sent[d] + 1)
      BY <1>1, <1>3, <2>2, <3>1 DEF ClientSend, TypesInv
    <3>3. /\ Packet(sent[d] + 1) \in Seq(Piece) /\ Len(Packet(sent[d] + 1)) \in Nat \ {0, 1}
      BY <3>1, PacketPieces
    <3> DEFINE s == stream[d]
               p == Packet(sent[d] + 1)
    <3>4. s \in Seq(Piece) /\ p \in Seq(Piece) /\ Len(p) \in Nat \ {0, 1} /\ stream'[d] = s \o p
      BY <1>1, <3>2, <3>3
    <3> HIDE DEF s, p
    <3>5. stream'[d] # <<>>
      <4>1. s \o p \in Seq(Piece) /\ Len(s \o p) = Len(s) + Len(p) /\ Len(s) \in Nat
        BY <3>4, ConcatProperties, LenProperties
      <4>2. Len(s \o p) # 0
        BY <3>4, <4>1
      <4> QED
        BY <3>4, <4>1, <4>2, EmptySeq
    <3> QED
      BY <2>1, <2>2, <3>5 DEF HeardInv
  <2>3. CASE c # d
    <3>1. sent'[d] = sent[d] /\ stream'[d] = stream[d]
      BY <1>1, <1>3, <2>3 DEF ClientSend, TypesInv
    <3> QED
      BY <2>1, <3>1 DEF HeardInv
  <2> QED
    BY <2>2, <2>3
<1>4. CASE ClientRecv(c)
  <2>1. UNCHANGED <<alive, socket, stream, eof, sent, torn>>
    BY <1>4 DEF ClientRecv, sessionVars
  <2>2. CASE torn[d] # 0
    BY <2>1, <2>2 DEF HeardInv
  <2>3. CASE c = d /\ torn[d] = 0
    <3>1. sndbuf[d] # <<>> /\ inbox'[d] = Append(inbox[d], Head(sndbuf[d]))
      BY <1>1, <1>4, <2>3 DEF ClientRecv, TypesInv
    <3>2. sent[d] = Len(inbox[d]) + 1 /\ sndbuf[d] = << sent[d] >>
      BY <2>3, <3>1 DEF PoliteInv, WholeInv
    <3>3. Head(sndbuf[d]) \in Reply
      BY <1>1, <3>1, HeadTailProperties DEF TypesInv
    <3>4. Len(inbox'[d]) = sent[d]
      BY <1>1, <3>1, <3>2, <3>3, AppendProperties
    <3> QED
      BY <1>1, <2>1, <3>4 DEF HeardInv
  <2>4. CASE c # d
    <3>1. inbox'[d] = inbox[d] /\ sndbuf'[d] = sndbuf[d]
      BY <1>1, <1>4, <2>4 DEF ClientRecv, TypesInv
    <3> QED
      BY <2>1, <3>1 DEF HeardInv
  <2> QED
    BY <2>2, <2>3, <2>4
<1>5. CASE ClientClose(c)
  <2>1. /\ UNCHANGED <<alive, socket, sndbuf, sent, inbox, torn>>
        /\ eof' = [eof EXCEPT ![c] = TRUE]
        /\ \E rest \in {stream[c], <<>>} : stream' = [stream EXCEPT ![c] = rest]
    BY <1>5 DEF ClientClose, sessionVars, clientVars
  <2>2. CASE c = d
    <3>1. eof'[d]
      BY <1>1, <2>1, <2>2 DEF TypesInv
    <3> QED
      BY <2>1, <3>1 DEF HeardInv
  <2>3. CASE c # d
    <3>1. eof'[d] = eof[d] /\ stream'[d] = stream[d]
      BY <1>1, <2>1, <2>3 DEF TypesInv
    <3> QED
      BY <2>1, <3>1 DEF HeardInv
  <2> QED
    BY <2>2, <2>3
<1> QED
  BY <1>2, <1>3, <1>4, <1>5

LEMMA HeardReceive ==
  ASSUME TypesInv, NEW d \in Polite, PoliteInv(d), HeardInv(d), NEW c \in Conns, OnRecv(c)
  PROVE  HeardInv(d)'
<1>1. d \in Conns /\ (c # d => socket'[d] \in {socket[d], "closed"} \/ Ends)
  <2>1. d \in Conns /\ (Stays(c) \/ Ends \/ Closes(c))
    BY SessionAssumption, ReceiveEffect
  <2> QED
    BY <2>1 DEF Stays, Closes, TypesInv
<1>2. /\ UNCHANGED <<eof, sent, inbox>>
      /\ Stays(c) \/ Ends \/ Closes(c)
      /\ c # d => sndbuf'[d] = sndbuf[d] /\ stream'[d] = stream[d] /\ torn'[d] = torn[d]
  BY <1>1, ReceiveEffect
<1>3. /\ ~alive' => socket'[d] \in {"none", "closed"}
      /\ socket[d] # "none" => socket'[d] # "none"
      /\ socket[d] = "closed" => socket'[d] = "closed"
  <2>1. CASE Stays(c)
    BY <2>1 DEF Stays, HeardInv
  <2>2. CASE Ends
    <3>1. socket'[d] = (IF socket[d] = "none" THEN "none" ELSE "closed") /\ ~alive'
      BY <1>1, <2>2 DEF Ends
    <3> QED
      BY <3>1
  <2>3. CASE Closes(c)
    <3>1. socket'[d] \in {socket[d], "closed"} /\ alive' = alive
      BY <1>1, <2>3 DEF Closes, TypesInv
    <3>2. socket[d] = "closed" => socket'[d] = "closed"
      BY <1>1, <2>3 DEF Closes, TypesInv
    <3> QED
      BY <3>1, <3>2 DEF HeardInv
  <2> QED
    BY <1>2, <2>1, <2>2, <2>3
<1>4. CASE c # d
  BY <1>2, <1>3, <1>4 DEF HeardInv
<1>5. CASE c = d /\ torn[d] # 0
  <2>1. torn'[d] # 0
    <3>1. (Closes(c) /\ UNCHANGED <<stream, torn>>) \/ Marks(c)
      BY ReceiveEffect
    <3> QED
      BY <1>5, <3>1 DEF Marks
  <2> QED
    BY <1>2, <1>3, <2>1 DEF HeardInv
<1>6. CASE c = d /\ torn[d] = 0 /\ stream[d] # <<>>
  <2>1. /\ sent[d] = Len(inbox[d]) + 1
        /\ \/ torn'[d] = sent[d]
           \/ sndbuf' = [sndbuf EXCEPT ![d] = << sent[d] >>]
           \/ Ends
    BY <1>6, PoliteReceive DEF PoliteInv
  <2>2. sent[d] # 0 /\ socket[d] # "none"
    <3>1. inbox[d] \in Seq(Reply) /\ Len(inbox[d]) \in Nat
      BY <1>1, LenProperties DEF TypesInv
    <3> QED
      BY <2>1, <3>1 DEF HeardInv
  <2>3. torn'[d] # 0 \/ sndbuf'[d] # <<>> \/ socket'[d] = "closed"
    <3>1. CASE sndbuf' = [sndbuf EXCEPT ![d] = << sent[d] >>]
      <4>1. sndbuf'[d] = << sent[d] >>
        BY <1>1, <3>1 DEF TypesInv
      <4> QED
        BY <4>1
    <3>2. CASE Ends
      BY <1>1, <2>2, <3>2 DEF Ends
    <3> QED
      BY <2>1, <2>2, <3>1, <3>2
  <2> QED
    BY <1>2, <1>3, <2>3 DEF HeardInv
<1>7. CASE c = d /\ stream[d] = <<>>
  <2>1. \A n \in 1 .. Len(stream[d]) : FALSE
    BY <1>7
  <2>2. Close(d) /\ UNCHANGED stream /\ eof[d]
    BY <1>7, <2>1 DEF OnRecv
  <2> QED
    BY <1>2, <1>3, <2>2 DEF HeardInv
<1> QED
  BY <1>4, <1>5, <1>6, <1>7

LEMMA HeardStep ==
  ASSUME TypesInv, NEW d \in Polite, PoliteInv(d), HeardInv(d), [LayerNext]_layerVars
  PROVE  HeardInv(d)'
<1>0. d \in Conns
  BY SessionAssumption
<1>1. ASSUME NEW c \in Conns, OnConnection(c) PROVE HeardInv(d)'
  <2>1. /\ alive /\ UNCHANGED <<alive, stream, eof, sndbuf, sent, inbox, torn>>
        /\ socket[c] = "backlog"
        /\ IF c = d THEN socket'[d] = "open" ELSE socket'[d] = socket[d]
    BY <1>0, <1>1 DEF OnConnection, clientVars, TypesInv
  <2> QED
    BY <2>1 DEF HeardInv
<1>2. ASSUME NEW c \in Conns, SendWaiting(c) PROVE HeardInv(d)'
  <2>1. /\ UNCHANGED <<alive, socket, stream, eof, sent, inbox, torn>>
        /\ c # d => sndbuf'[d] = sndbuf[d]
    BY <1>0, <1>2 DEF SendWaiting, clientVars, TypesInv
  <2>2. torn[d] = 0 => c # d
    BY <1>2 DEF SendWaiting, PoliteInv, WholeInv
  <2> QED
    BY <2>1, <2>2 DEF HeardInv
<1>3. CASE OnConnectionFailed
  BY <1>3 DEF OnConnectionFailed, clientVars, HeardInv
<1>4. CASE Restart
  BY <1>4 DEF Restart, clientVars, HeardInv
<1>5. CASE UNCHANGED layerVars
  BY <1>5 DEF layerVars, sessionVars, clientVars, HeardInv
<1> QED
  BY LayerSteps, <1>1, <1>2, <1>3, <1>4, <1>5, HeardClients, HeardReceive

(* The safety half of "every packet is answered", for a client that waits   *)
(* for each answer and whose packets each arrive in one receive: a packet   *)
(* of its not answered yet is waited for, or its answer is there to be      *)
(* read, whatever other clients send and however theirs arrive and fail,    *)
(* unless the process has ended meanwhile.                                  *)
THEOREM PolitePacketsAreHeard == LayerSpec => []PoliteNeverStranded
<1> DEFINE Heard == \A c \in Polite : HeardInv(c)
<1>1. LayerInit => Heard
  BY SessionAssumption DEF LayerInit, HeardInv
<1>2. LayerInv /\ Heard /\ [LayerNext]_layerVars => Heard'
  BY HeardStep DEF LayerInv
<1>3. ASSUME LayerInv, Heard PROVE PoliteNeverStranded
  <2>1. SUFFICES ASSUME NEW c \in Polite, Len(inbox[c]) < sent[c], ~eof[c], torn[c] = 0
                 PROVE  \/ alive /\ socket[c] = "backlog"
                        \/ /\ alive /\ socket[c] = "open"
                           /\ c \in receiving /\ stream[c] # <<>>
                        \/ sndbuf[c] # <<>>
                        \/ socket[c] = "closed"
    BY DEF PoliteNeverStranded
  <2>2. /\ c \in Conns /\ inbox[c] \in Seq(Reply) /\ sent[c] \in Nat
        /\ socket[c] \in {"none", "backlog", "open", "closed"} /\ alive \in BOOLEAN
    BY <1>3, <2>1, SessionAssumption DEF LayerInv, TypesInv
  <2>3. sent[c] > 0
    BY <2>1, <2>2, LenProperties
  <2>4. HeardInv(c) /\ (socket[c] = "open" => c \in receiving)
    BY <1>3, <2>1, <2>2 DEF LayerInv, FramesInv
  <2> QED
    BY <2>1, <2>2, <2>3, <2>4 DEF HeardInv
<1> HIDE DEF Heard
<1> QED
  BY <1>1, <1>2, <1>3, LayerInvariant, LayerStep, LayerInitiallyInv, PTL DEF LayerSpec
=============================================================================
