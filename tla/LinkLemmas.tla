----------------------------- MODULE LinkLemmas ------------------------------
(***************************************************************************)
(* What the proofs about Link rest on: the shape of frames, the stream in  *)
(* which the calls of a client follow each other, and the parser, pack by  *)
(* pack, on the bytes of a call.                                           *)
(***************************************************************************)
EXTENDS Link, TLAPS, SequenceTheorems, WellFoundedInduction

(* What travels, and what is called. *)

WireBytes ==
    (0..(Radix - 1)) \cup [b : {"op", "len", "ext", "key", "data", "http", "101"},
                           v : Int \cup {"BINARY", "CLOSE"}, key : Nat]

CallSet == UNION {[op : {o}, args : Arguments[o]] : o \in DOMAIN Operations}

TCPBytes(c) == TCPCommands[c.op][c.args]

BytesOf(t, c) == IF t = "WEBSOCK" THEN WebSocketCommands[c.op][c.args] ELSE TCPBytes(c)

Goodbye == MaskedFrame("CLOSE", <<>>)

\* The bytes of a length that follow the second byte.
ExtOf(n) == IF n <= SMALL_STREAM THEN 0 ELSE IF n < Radix^2 THEN 2 ELSE 8

-----------------------------------------------------------------------------
(* Sequences of bytes *)

LEMMA Concat ==
  ASSUME NEW s \in Seq(WireBytes), NEW t \in Seq(WireBytes)
  PROVE  /\ s \o t \in Seq(WireBytes) /\ Len(s) \in Nat /\ Len(t) \in Nat
         /\ Len(s \o t) = Len(s) + Len(t)
         /\ \A i \in 1..Len(s) : (s \o t)[i] = s[i]
         /\ \A i \in 1..Len(t) : (s \o t)[Len(s) + i] = t[i]
<1>1. PICK u : u = s \o t
  OBVIOUS
<1>2. /\ u \in Seq(WireBytes) /\ Len(u) = Len(s) + Len(t) /\ Len(s) \in Nat /\ Len(t) \in Nat
      /\ \A i \in 1 .. Len(s) + Len(t) : u[i] = IF i <= Len(s) THEN s[i] ELSE t[i - Len(s)]
  BY <1>1, ConcatProperties, LenProperties, Zenon
<1>3. \A i \in 1..Len(s) : u[i] = s[i]
  BY <1>2
<1>4. \A i \in 1..Len(t) : u[Len(s) + i] = t[i]
  <2> TAKE i \in 1..Len(t)
  <2>1. Len(s) + i \in 1..(Len(s) + Len(t)) /\ ~(Len(s) + i <= Len(s)) /\ (Len(s) + i) - Len(s) = i
    BY <1>2
  <2> QED
    BY <1>2, <2>1
<1> QED
  BY <1>1, <1>2, <1>3, <1>4, Zenon

-----------------------------------------------------------------------------
(* Frames *)

LEMMA SizeOfLength == size_of("uint32_t") = 4
  BY DEF size_of

LEMMA CallSetMember ==
  ASSUME NEW o \in DOMAIN Operations, NEW args \in Arguments[o]
  PROVE  [op |-> o, args |-> args] \in CallSet
  BY DEF CallSet

\* What CodecAssumption says of a call.
LEMMA CallFacts ==
  ASSUME NEW c \in CallSet
  PROVE  /\ c.op \in DOMAIN Operations /\ c.args \in Arguments[c.op]
         /\ c = [op |-> c.op, args |-> c.args]
         /\ CallDecodes(c.op, c.args) /\ OperationParses(c.op)
<1>1. PICK o \in DOMAIN Operations : c \in [op : {o}, args : Arguments[o]]
  BY DEF CallSet
<1>2. c.op \in DOMAIN Operations /\ c.args \in Arguments[c.op] /\ c = [op |-> c.op, args |-> c.args]
  BY <1>1
<1> QED
  BY <1>2, CodecAssumption

\* The bytes of a call are digits, and there is a header.
LEMMA TCPBytesFacts ==
  ASSUME NEW c \in CallSet
  PROVE  /\ TCPBytes(c) \in Seq(0..(Radix - 1)) /\ TCPBytes(c) \in Seq(WireBytes)
         /\ Len(TCPBytes(c)) \in Nat /\ Len(TCPBytes(c)) >= 8 /\ LengthDecodes(Len(TCPBytes(c)))
<1>1. /\ TCPBytes(c) \in Seq(0..(Radix - 1)) /\ Len(TCPBytes(c)) >= 8
      /\ LengthDecodes(Len(TCPBytes(c)))
  BY CallFacts DEF CallDecodes, TCPBytes, S!HEADER_SIZE
<1>2. TCPBytes(c) \in Seq(WireBytes)
  <2>1. (0..(Radix - 1)) \subseteq WireBytes
    BY DEF WireBytes
  <2> QED
    BY <1>1, <2>1, SeqMonotonic
<1> QED
  BY <1>1, <1>2, LenProperties

LEMMA ByteType ==
  ASSUME NEW b \in {"op", "len", "ext", "key", "data", "http", "101"},
         NEW v \in Int \cup {"BINARY", "CLOSE"}
  PROVE  Byte(b, v) \in WireBytes /\ Byte(b, v).v = v /\ Byte(b, v).b = b /\ Byte(b, v).key = 0
  BY DEF Byte, WireBytes

\* The bytes of a length, written out.
LEMMA ExtShape ==
  ASSUME NEW n \in Nat, NEW k \in {2, 8}, ToBytes(k, n) \in Seq(0..(Radix - 1))
  PROVE  /\ Ext(k, n) \in Seq(WireBytes) /\ Len(Ext(k, n)) = k
         /\ \A i \in 1..k : Ext(k, n)[i].v = ToBytes(k, n)[i]
<1>1. Len(ToBytes(k, n)) = k
  BY DEF ToBytes
<1>2. \A i \in 1..k : ToBytes(k, n)[i] \in Int
  <2>1. \A i \in 1..k : ToBytes(k, n)[i] \in 0..(Radix - 1)
    BY <1>1, ElementOfSeq
  <2> QED
    BY <2>1, LinkAssumption
<1>3. \A i \in 1..k : Byte("ext", ToBytes(k, n)[i]) \in WireBytes /\ Byte("ext", ToBytes(k, n)[i]).v = ToBytes(k, n)[i]
  BY <1>2, ByteType
<1> QED
  BY <1>3 DEF Ext

\* The three forms of a length.
LEMMA FrameLengthShape ==
  ASSUME NEW n \in Nat, LengthDecodes(n)
  PROVE  LET e == ExtOf(n)
         IN  /\ e \in {0, 2, 8}
             /\ FrameLength(n) \in Seq(WireBytes) /\ Len(FrameLength(n)) = 1 + e
             /\ FrameLength(n)[1].v = IF e = 0 THEN n ELSE IF e = 2 THEN MEDIUM_STREAM ELSE BIG_STREAM
             /\ e = 0 <=> n <= SMALL_STREAM
             /\ e # 0 => /\ \A i \in 1..e : FrameLength(n)[1 + i].v = ToBytes(e, n)[i]
                         /\ ToBytes(e, n) \in Seq(0..(Radix - 1)) /\ FromBytes(ToBytes(e, n)) = n
<1>1. CASE n <= SMALL_STREAM
  <2>1. FrameLength(n) = <<Byte("len", n)>> /\ ExtOf(n) = 0
    BY <1>1 DEF FrameLength, ExtOf
  <2>2. Byte("len", n) \in WireBytes /\ Byte("len", n).v = n
    BY ByteType
  <2> QED
    BY <1>1, <2>1, <2>2
<1>2. ASSUME ~(n <= SMALL_STREAM), NEW k \in {2, 8}, NEW s,
             \/ n < Radix^2 /\ k = 2 /\ s = MEDIUM_STREAM
             \/ ~(n < Radix^2) /\ k = 8 /\ s = BIG_STREAM
      PROVE  /\ ExtOf(n) = k /\ FrameLength(n) = <<Byte("len", s)>> \o Ext(k, n)
             /\ FrameLength(n) \in Seq(WireBytes) /\ Len(FrameLength(n)) = 1 + k
             /\ FrameLength(n)[1].v = s
             /\ \A i \in 1..k : FrameLength(n)[1 + i].v = ToBytes(k, n)[i]
             /\ ToBytes(k, n) \in Seq(0..(Radix - 1)) /\ FromBytes(ToBytes(k, n)) = n
  <2>1. ToBytes(k, n) \in Seq(0..(Radix - 1)) /\ FromBytes(ToBytes(k, n)) = n
    BY <1>2 DEF LengthDecodes
  <2>2. /\ Ext(k, n) \in Seq(WireBytes) /\ Len(Ext(k, n)) = k
        /\ \A i \in 1..k : Ext(k, n)[i].v = ToBytes(k, n)[i]
    BY <2>1, ExtShape
  <2>3. Byte("len", s) \in WireBytes /\ Byte("len", s).v = s
    <3>1. s \in Int
      BY <1>2, LinkAssumption DEF MEDIUM_STREAM, BIG_STREAM
    <3> QED
      BY <3>1, ByteType
  <2>4. ExtOf(n) = k /\ FrameLength(n) = <<Byte("len", s)>> \o Ext(k, n)
    BY <1>2 DEF ExtOf, FrameLength
  <2>5. /\ FrameLength(n) \in Seq(WireBytes) /\ Len(FrameLength(n)) = 1 + k
        /\ FrameLength(n)[1] = Byte("len", s)
        /\ \A i \in 1..k : FrameLength(n)[1 + i] = Ext(k, n)[i]
    BY <2>2, <2>3, <2>4
  <2> QED
    BY <2>1, <2>2, <2>3, <2>4, <2>5
<1>3. CASE ~(n <= SMALL_STREAM) /\ n < Radix^2
  <2>1. 2 \in {2, 8} /\ (n < Radix^2 /\ 2 = 2 /\ MEDIUM_STREAM = MEDIUM_STREAM)
    BY <1>3
  <2>2. /\ ExtOf(n) = 2
        /\ FrameLength(n) \in Seq(WireBytes) /\ Len(FrameLength(n)) = 1 + 2
        /\ FrameLength(n)[1].v = MEDIUM_STREAM
        /\ \A i \in 1..2 : FrameLength(n)[1 + i].v = ToBytes(2, n)[i]
        /\ ToBytes(2, n) \in Seq(0..(Radix - 1)) /\ FromBytes(ToBytes(2, n)) = n
    BY <1>2, <1>3, <2>1, Zenon
  <2> QED
    BY <1>3, <2>2
<1>4. CASE ~(n <= SMALL_STREAM) /\ ~(n < Radix^2)
  <2>1. 8 \in {2, 8} /\ (~(n < Radix^2) /\ 8 = 8 /\ BIG_STREAM = BIG_STREAM)
    BY <1>4
  <2>2. /\ ExtOf(n) = 8
        /\ FrameLength(n) \in Seq(WireBytes) /\ Len(FrameLength(n)) = 1 + 8
        /\ FrameLength(n)[1].v = BIG_STREAM
        /\ \A i \in 1..8 : FrameLength(n)[1 + i].v = ToBytes(8, n)[i]
        /\ ToBytes(8, n) \in Seq(0..(Radix - 1)) /\ FromBytes(ToBytes(8, n)) = n
    BY <1>2, <1>4, <2>1, Zenon
  <2> QED
    BY <1>4, <2>2
<1> QED
  BY <1>1, <1>3, <1>4

LEMMA ZeroLength == LengthDecodes(0)
  BY LinkAssumption DEF LengthDecodes

\* What is where in a frame: the length, the key, and the data that was xored
\* with it.
LEMMA MaskedFrameShape ==
  ASSUME NEW opcode \in {"BINARY", "CLOSE"}, NEW data \in Seq(0..(Radix - 1)),
         LengthDecodes(Len(data))
  PROVE  LET F == MaskedFrame(opcode, data)
             n == Len(data)
             e == ExtOf(n)
         IN  /\ F \in Seq(WireBytes) /\ n \in Nat /\ e \in {0, 2, 8} /\ Len(F) = 6 + e + n
             /\ F[1].v = opcode
             /\ F[2].v = FrameLength(n)[1].v
             /\ \A i \in 1..e : F[2 + i].v = FrameLength(n)[1 + i].v
             /\ \A i \in 1..4 : F[2 + e + i] = Byte("key", i - 1)
             /\ \A i \in 1..n : F[6 + e + i] = [b |-> "data", v |-> data[i], key |-> (i - 1) % 4]
<1> DEFINE n == Len(data)
           e == ExtOf(n)
           FL == FrameLength(n)
           K == [i \in 1..4 |-> Byte("key", i - 1)]
           D == [i \in 1..n |-> [b |-> "data", v |-> data[i], key |-> (i - 1) % 4]]
<1>1. n \in Nat
  OBVIOUS
<1>2. e \in {0, 2, 8} /\ FL \in Seq(WireBytes) /\ Len(FL) = 1 + e
  BY <1>1, FrameLengthShape
<1>3. Byte("op", opcode) \in WireBytes /\ Byte("op", opcode).v = opcode
  BY ByteType
<1>4. K \in Seq(WireBytes) /\ Len(K) = 4 /\ \A i \in 1..4 : K[i] = Byte("key", i - 1)
  <2>1. \A i \in 1..4 : Byte("key", i - 1) \in WireBytes
    BY ByteType
  <2> QED
    BY <2>1
<1>5. D \in Seq(WireBytes) /\ Len(D) = n
  <2>1. \A i \in 1..n : [b |-> "data", v |-> data[i], key |-> (i - 1) % 4] \in WireBytes
    BY LinkAssumption DEF WireBytes
  <2> QED
    BY <1>1, <2>1
<1>6. MaskedFrame(opcode, data) = ((<<Byte("op", opcode)>> \o FL) \o K) \o D
  BY DEF MaskedFrame
<1> HIDE DEF n, e, FL, K
<1>7. PICK A : A = <<Byte("op", opcode)>> \o FL
  OBVIOUS
<1>8. /\ A \in Seq(WireBytes) /\ Len(A) = 2 + e /\ A[1] = Byte("op", opcode)
      /\ \A i \in 1..(1 + e) : A[1 + i] = FL[i]
  BY <1>2, <1>3, <1>7
<1>9. PICK B : B = A \o K
  OBVIOUS
<1>10. /\ B \in Seq(WireBytes) /\ Len(B) = 6 + e /\ \A i \in 1..(2 + e) : B[i] = A[i]
       /\ \A i \in 1..4 : B[2 + e + i] = K[i]
  <2>1. /\ B \in Seq(WireBytes) /\ Len(B) = Len(A) + Len(K) /\ \A i \in 1..Len(A) : B[i] = A[i]
        /\ \A i \in 1..Len(K) : B[Len(A) + i] = K[i]
    BY <1>4, <1>8, <1>9, Concat, Zenon
  <2> QED
    BY <1>2, <1>4, <1>8, <2>1
<1>11. PICK E : E = D
  OBVIOUS
<1>12. E \in Seq(WireBytes) /\ Len(E) = n
       /\ \A i \in 1..n : E[i] = [b |-> "data", v |-> data[i], key |-> (i - 1) % 4]
  BY <1>5, <1>11
<1>13. MaskedFrame(opcode, data) = B \o E
  BY <1>6, <1>7, <1>9, <1>11, Zenon
<1> HIDE DEF D
<1>14. PICK F : F = B \o E
  OBVIOUS
<1>15. /\ F \in Seq(WireBytes) /\ Len(F) = 6 + e + n
       /\ \A i \in 1..(6 + e) : F[i] = B[i]
       /\ \A i \in 1..n : F[6 + e + i] = E[i]
  <2>1. /\ F \in Seq(WireBytes) /\ Len(F) = Len(B) + Len(E) /\ \A i \in 1..Len(B) : F[i] = B[i]
        /\ \A i \in 1..Len(E) : F[Len(B) + i] = E[i]
    BY <1>10, <1>12, <1>14, Concat, Zenon
  <2> QED
    BY <1>1, <1>2, <1>10, <1>12, <2>1
<1>16. F[1] = Byte("op", opcode) /\ \A i \in 1..(1 + e) : F[1 + i] = FL[i]
  <2>1. 1 \in 1..(2 + e) /\ 1 \in 1..(6 + e)
    BY <1>2
  <2>2. \A i \in 1..(1 + e) : 1 + i \in 1..(2 + e) /\ 1 + i \in 1..(6 + e)
    BY <1>2
  <2> QED
    BY <1>8, <1>10, <1>15, <2>1, <2>2, Zenon
<1>17. F[2] = FL[1] /\ \A i \in 1..e : F[2 + i] = FL[1 + i]
  <2>1. \A i \in 1..e : 1 + i \in 1..(1 + e) /\ 1 + (1 + i) = 2 + i
    BY <1>2
  <2>2. 1 \in 1..(1 + e) /\ 1 + 1 = 2
    BY <1>2
  <2> QED
    BY <1>16, <2>1, <2>2
<1>18. \A i \in 1..4 : F[2 + e + i] = K[i]
  <2>1. \A i \in 1..4 : 2 + e + i \in 1..(6 + e)
    BY <1>2
  <2> QED
    BY <1>10, <1>15, <2>1, Zenon
<1>19. MaskedFrame(opcode, data) = F
  BY <1>13, <1>14, Zenon
<1>20. F[1].v = opcode
  BY <1>3, <1>16, Zenon
<1>21. F[2].v = FL[1].v /\ \A i \in 1..e : F[2 + i].v = FL[1 + i].v
  BY <1>17, Zenon
<1>22. \A i \in 1..4 : F[2 + e + i] = Byte("key", i - 1)
  BY <1>4, <1>18, Zenon
<1>23. \A i \in 1..n : F[6 + e + i] = [b |-> "data", v |-> data[i], key |-> (i - 1) % 4]
  BY <1>12, <1>15, Zenon
<1> QED
  BY <1>1, <1>2, <1>15, <1>19, <1>20, <1>21, <1>22, <1>23, Zenon DEF n, e, FL

\* A frame of the server has no key.
LEMMA UnmaskedFrameShape ==
  ASSUME NEW data \in Seq(0..(Radix - 1)), LengthDecodes(Len(data))
  PROVE  LET F == UnmaskedFrame(data)
             n == Len(data)
             e == ExtOf(n)
         IN  /\ F \in Seq(WireBytes) /\ n \in Nat /\ e \in {0, 2, 8} /\ Len(F) = 2 + e + n
             /\ F[2].v = FrameLength(n)[1].v
             /\ \A i \in 1..e : F[2 + i].v = FrameLength(n)[1 + i].v
             /\ \A i \in 1..n : F[2 + e + i].v = data[i]
<1> DEFINE n == Len(data)
           e == ExtOf(n)
           FL == FrameLength(n)
           D == [i \in DOMAIN data |-> Byte("data", data[i])]
<1>1. n \in Nat /\ DOMAIN data = 1..n
  OBVIOUS
<1>2. e \in {0, 2, 8} /\ FL \in Seq(WireBytes) /\ Len(FL) = 1 + e
  BY <1>1, FrameLengthShape
<1>3. Byte("op", "BINARY") \in WireBytes
  BY ByteType
<1>4. D \in Seq(WireBytes) /\ Len(D) = n /\ \A i \in 1..n : D[i].v = data[i]
  <2>1. \A i \in 1..n : data[i] \in Int
    BY LinkAssumption
  <2>2. \A i \in 1..n : Byte("data", data[i]) \in WireBytes /\ Byte("data", data[i]).v = data[i]
    BY <2>1, ByteType
  <2> QED
    BY <1>1, <2>2
<1>5. UnmaskedFrame(data) = (<<Byte("op", "BINARY")>> \o FL) \o D
  BY DEF UnmaskedFrame, set_send_header
<1> HIDE DEF n, e, FL, D
<1>6. PICK A : A = <<Byte("op", "BINARY")>> \o FL
  OBVIOUS
<1>7. /\ A \in Seq(WireBytes) /\ Len(A) = 2 + e /\ \A i \in 1..(1 + e) : A[1 + i] = FL[i]
  BY <1>2, <1>3, <1>6
<1>8. PICK F : F = A \o D
  OBVIOUS
<1>9. /\ F \in Seq(WireBytes) /\ Len(F) = 2 + e + n
      /\ \A i \in 1..(1 + e) : F[1 + i] = FL[i]
      /\ \A i \in 1..n : F[2 + e + i] = D[i]
  <2>1. /\ F \in Seq(WireBytes) /\ Len(F) = Len(A) + Len(D) /\ \A i \in 1..Len(A) : F[i] = A[i]
        /\ \A i \in 1..Len(D) : F[Len(A) + i] = D[i]
    BY <1>4, <1>7, <1>8, Concat, Zenon
  <2>2. \A i \in 1..(1 + e) : 1 + i \in 1..Len(A)
    BY <1>2, <1>7
  <2>3. \A i \in 1..(1 + e) : F[1 + i] = FL[i]
    BY <1>7, <2>1, <2>2, Zenon
  <2> QED
    BY <1>1, <1>2, <1>4, <1>7, <2>1, <2>3
<1>10. F[2] = FL[1] /\ \A i \in 1..e : F[2 + i] = FL[1 + i]
  <2>1. \A i \in 1..e : 1 + i \in 1..(1 + e) /\ 1 + (1 + i) = 2 + i
    BY <1>2
  <2>2. 1 \in 1..(1 + e) /\ 1 + 1 = 2
    BY <1>2
  <2> QED
    BY <1>9, <2>1, <2>2
<1> QED
  <2>1. \A i \in 1..n : F[2 + e + i].v = data[i]
    BY <1>4, <1>9, Zenon
  <2> QED
    BY <1>1, <1>2, <1>5, <1>6, <1>8, <1>9, <1>10, <2>1, Zenon DEF n, e, FL

\* The bytes of a call on either kind of socket.
LEMMA BytesFacts ==
  ASSUME NEW t \in {"TCP", "WEBSOCK"}, NEW c \in CallSet
  PROVE  /\ BytesOf(t, c) \in Seq(WireBytes) /\ Len(BytesOf(t, c)) \in Nat /\ Len(BytesOf(t, c)) >= 8
         /\ t = "WEBSOCK" => BytesOf(t, c) = MaskedFrame("BINARY", TCPBytes(c))
<1>1. WebSocketCommands[c.op][c.args] = MaskedFrame("BINARY", TCPBytes(c))
  BY CallFacts DEF WebSocketCommands, TCPBytes
<1>2. /\ MaskedFrame("BINARY", TCPBytes(c)) \in Seq(WireBytes)
      /\ Len(MaskedFrame("BINARY", TCPBytes(c))) = 6 + ExtOf(Len(TCPBytes(c))) + Len(TCPBytes(c))
      /\ ExtOf(Len(TCPBytes(c))) \in {0, 2, 8}
  BY TCPBytesFacts, MaskedFrameShape
<1> QED
  BY <1>1, <1>2, TCPBytesFacts DEF BytesOf

\* A close frame.
LEMMA GoodbyeShape ==
  Goodbye \in Seq(WireBytes) /\ Len(Goodbye) = 6 /\ Goodbye[1].v = "CLOSE"
<1>1. <<>> \in Seq(0..(Radix - 1)) /\ Len(<<>>) = 0
  OBVIOUS
<1>2. ExtOf(0) = 0
  BY LinkAssumption DEF ExtOf
<1>3. PICK d : d = <<>>
  OBVIOUS
<1>4. d \in Seq(0..(Radix - 1)) /\ Len(d) = 0 /\ Goodbye = MaskedFrame("CLOSE", d)
  BY <1>1, <1>3 DEF Goodbye
<1>5. /\ Goodbye \in Seq(WireBytes) /\ Len(Goodbye) = 6 + ExtOf(Len(d)) + Len(d)
      /\ Goodbye[1].v = "CLOSE"
  BY <1>4, ZeroLength, MaskedFrameShape, Zenon
<1>6. ExtOf(Len(d)) = 0 /\ Len(d) = 0 /\ Len(Goodbye) = 6 + ExtOf(Len(d)) + Len(d)
  BY <1>2, <1>4, <1>5, Zenon
<1>7. Len(Goodbye) = 6
  <2>1. Len(Goodbye) = 6 + 0 + 0
    BY <1>6, Zenon
  <2> QED
    BY <2>1
<1> QED
  BY <1>5, <1>7, Zenon

-----------------------------------------------------------------------------
(* Reading moves bytes from one sequence to the other *)

LEMMA Part ==
  ASSUME NEW s \in Seq(WireBytes), NEW a \in Nat, NEW b \in Nat, a <= b, b <= Len(s)
  PROVE  /\ SubSeq(s, a + 1, b) \in Seq(WireBytes) /\ Len(SubSeq(s, a + 1, b)) = b - a
         /\ \A i \in 1..(b - a) : SubSeq(s, a + 1, b)[i] = s[a + i]
<1>1. \A i \in (a + 1)..b : s[i] \in WireBytes
  <2>1. (a + 1)..b \subseteq 1..Len(s)
    BY LenProperties
  <2> QED
    BY <2>1, ElementOfSeq
<1>2. /\ SubSeq(s, a + 1, b) \in Seq(WireBytes)
      /\ Len(SubSeq(s, a + 1, b)) = IF a + 1 <= b THEN b - (a + 1) + 1 ELSE 0
      /\ \A i \in 1 .. b - (a + 1) + 1 : SubSeq(s, a + 1, b)[i] = s[(a + 1) + i - 1]
  BY <1>1, SubSeqProperties
<1>3. PICK u : u = SubSeq(s, a + 1, b)
  OBVIOUS
<1>4. /\ u \in Seq(WireBytes)
      /\ Len(u) = IF a + 1 <= b THEN b - (a + 1) + 1 ELSE 0
      /\ \A i \in 1 .. b - (a + 1) + 1 : u[i] = s[(a + 1) + i - 1]
  BY <1>2, <1>3, Zenon
<1>5. Len(u) = b - a
  BY <1>4
<1>6. \A i \in 1..(b - a) : u[i] = s[a + i]
  <2> TAKE i \in 1..(b - a)
  <2>1. i \in 1 .. b - (a + 1) + 1 /\ (a + 1) + i - 1 = a + i
    OBVIOUS
  <2> QED
    BY <1>4, <2>1, Zenon
<1> QED
  BY <1>3, <1>4, <1>5, <1>6, Zenon

LEMMA Prefix ==
  ASSUME NEW s \in Seq(WireBytes), NEW b \in Nat, b <= Len(s)
  PROVE  /\ SubSeq(s, 1, b) \in Seq(WireBytes) /\ Len(SubSeq(s, 1, b)) = b
         /\ \A i \in 1..b : SubSeq(s, 1, b)[i] = s[i]
<1>1. \A i \in 1..b : s[i] \in WireBytes
  <2>1. 1..b \subseteq 1..Len(s)
    BY LenProperties
  <2> QED
    BY <2>1, ElementOfSeq
<1>2. /\ SubSeq(s, 1, b) \in Seq(WireBytes) /\ Len(SubSeq(s, 1, b)) = IF 1 <= b THEN b - 1 + 1 ELSE 0
      /\ \A i \in 1 .. b - 1 + 1 : SubSeq(s, 1, b)[i] = s[1 + i - 1]
  BY <1>1, SubSeqProperties
<1>3. PICK u : u = SubSeq(s, 1, b)
  OBVIOUS
<1>4. /\ u \in Seq(WireBytes) /\ Len(u) = IF 1 <= b THEN b - 1 + 1 ELSE 0
      /\ \A i \in 1 .. b - 1 + 1 : u[i] = s[1 + i - 1]
  BY <1>2, <1>3, Zenon
<1>5. Len(u) = b
  BY <1>4
<1>6. \A i \in 1..b : i \in 1 .. b - 1 + 1 /\ 1 + i - 1 = i
  OBVIOUS
<1> QED
  BY <1>3, <1>4, <1>5, <1>6, Zenon

LEMMA SameBytes ==
  ASSUME NEW s \in Seq(WireBytes), NEW t \in Seq(WireBytes), Len(s) = Len(t),
         \A i \in 1..Len(s) : s[i] = t[i]
  PROVE  s = t
  BY SeqEqual

\* The part of a concatenation that begins where the second sequence does.
LEMMA DropFirst ==
  ASSUME NEW s \in Seq(WireBytes), NEW t \in Seq(WireBytes)
  PROVE  /\ SubSeq(s \o t, Len(s) + 1, Len(s \o t)) = t
         /\ SubSeq(s \o t, 1, Len(s)) = s
<1>1. PICK u : u = s \o t
  OBVIOUS
<1>2. /\ u \in Seq(WireBytes) /\ Len(s) \in Nat /\ Len(t) \in Nat /\ Len(u) = Len(s) + Len(t)
      /\ \A i \in 1..Len(s) : u[i] = s[i]
      /\ \A i \in 1..Len(t) : u[Len(s) + i] = t[i]
  BY <1>1, Concat, Zenon
<1>3. PICK v : v = SubSeq(u, Len(s) + 1, Len(u))
  OBVIOUS
<1>4. Len(s) <= Len(u) /\ Len(u) \in Nat /\ Len(u) <= Len(u)
  BY <1>2
<1>5. /\ v \in Seq(WireBytes) /\ Len(v) = Len(u) - Len(s)
      /\ \A i \in 1..(Len(u) - Len(s)) : v[i] = u[Len(s) + i]
  BY <1>2, <1>3, <1>4, Part, Zenon
<1>6. Len(u) - Len(s) = Len(t)
  BY <1>2
<1>7. v = t
  BY <1>2, <1>5, <1>6, SameBytes, Zenon
<1>8. PICK w : w = SubSeq(u, 1, Len(s))
  OBVIOUS
<1>9. w \in Seq(WireBytes) /\ Len(w) = Len(s) /\ \A i \in 1..Len(s) : w[i] = u[i]
  BY <1>2, <1>4, <1>8, Prefix, Zenon
<1>10. w = s
  BY <1>2, <1>9, SameBytes, Zenon
<1> QED
  BY <1>1, <1>3, <1>7, <1>8, <1>10, Zenon

\* Reading moves bytes from one end of the connection to the other.
LEMMA ReadMoves ==
  ASSUME NEW s \in Seq(WireBytes), NEW t \in Seq(WireBytes), NEW k \in Nat, k <= Len(t)
  PROVE  /\ SubSeq(t, 1, k) \in Seq(WireBytes) /\ Len(SubSeq(t, 1, k)) = k
         /\ SubSeq(t, k + 1, Len(t)) \in Seq(WireBytes) /\ Len(SubSeq(t, k + 1, Len(t))) = Len(t) - k
         /\ s \o SubSeq(t, 1, k) \in Seq(WireBytes) /\ Len(s \o SubSeq(t, 1, k)) = Len(s) + k
         /\ (s \o SubSeq(t, 1, k)) \o SubSeq(t, k + 1, Len(t)) = s \o t
<1>1. Len(t) \in Nat /\ Len(t) <= Len(t) /\ Len(s) \in Nat
  BY LenProperties
<1>2. /\ SubSeq(t, 1, k) \in Seq(WireBytes) /\ Len(SubSeq(t, 1, k)) = k
      /\ SubSeq(t, k + 1, Len(t)) \in Seq(WireBytes) /\ Len(SubSeq(t, k + 1, Len(t))) = Len(t) - k
  BY <1>1, Part, Prefix, Zenon
<1>3. SubSeq(t, 1, k) \o SubSeq(t, k + 1, Len(t)) = t
  <2>1. 1 \in 1 .. Len(t)+1 /\ k \in 1-1 .. Len(t) /\ Len(t) \in k .. Len(t)
    BY <1>1
  <2>2. SubSeq(t, 1, k) \o SubSeq(t, k + 1, Len(t)) = SubSeq(t, 1, Len(t))
    BY <2>1, ConcatAdjacentSubSeq, Zenon
  <2> QED
    BY <2>2, SubSeqFull, Zenon
<1>4. (s \o SubSeq(t, 1, k)) \o SubSeq(t, k + 1, Len(t))
         = s \o (SubSeq(t, 1, k) \o SubSeq(t, k + 1, Len(t)))
  <2>1. PICK p, q : p = SubSeq(t, 1, k) /\ q = SubSeq(t, k + 1, Len(t))
    OBVIOUS
  <2>2. p \in Seq(WireBytes) /\ q \in Seq(WireBytes)
    BY <1>2, <2>1, Zenon
  <2>3. (s \o p) \o q = s \o (p \o q)
    BY <2>2, ConcatAssociative
  <2> QED
    BY <2>1, <2>3, Zenon
<1>5. s \o SubSeq(t, 1, k) \in Seq(WireBytes) /\ Len(s \o SubSeq(t, 1, k)) = Len(s) + Len(SubSeq(t, 1, k))
  BY <1>2, Concat, Zenon
<1> QED
  BY <1>2, <1>3, <1>4, <1>5, Zenon

\* What is lost is lost at the end.
LEMMA LossAtEnd ==
  ASSUME NEW s \in Seq(WireBytes), NEW t \in Seq(WireBytes), NEW k \in Nat, k <= Len(t)
  PROVE  s \o SubSeq(t, 1, k) = SubSeq(s \o t, 1, Len(s) + k)
<1>1. PICK p : p = SubSeq(t, 1, k)
  OBVIOUS
<1>2. p \in Seq(WireBytes) /\ Len(p) = k /\ \A i \in 1..k : p[i] = t[i]
  BY <1>1, Prefix, Zenon
<1>3. PICK u : u = s \o t
  OBVIOUS
<1>4. /\ u \in Seq(WireBytes) /\ Len(s) \in Nat /\ Len(t) \in Nat /\ Len(u) = Len(s) + Len(t)
      /\ \A i \in 1..Len(s) : u[i] = s[i]
      /\ \A i \in 1..Len(t) : u[Len(s) + i] = t[i]
  BY <1>3, Concat, Zenon
<1>5. PICK q : q = s \o p
  OBVIOUS
<1>6. /\ q \in Seq(WireBytes) /\ Len(q) = Len(s) + Len(p)
      /\ \A i \in 1..Len(s) : q[i] = s[i]
      /\ \A i \in 1..Len(p) : q[Len(s) + i] = p[i]
  BY <1>2, <1>5, Concat, Zenon
<1>7. PICK v : v = SubSeq(u, 1, Len(s) + k)
  OBVIOUS
<1>8. Len(s) + k \in Nat /\ Len(s) + k <= Len(u)
  BY <1>4
<1>9. v \in Seq(WireBytes) /\ Len(v) = Len(s) + k /\ \A i \in 1..(Len(s) + k) : v[i] = u[i]
  BY <1>4, <1>7, <1>8, Prefix, Zenon
<1>10. Len(q) = Len(v)
  BY <1>2, <1>6, <1>9, Zenon
<1>11. \A i \in 1..Len(q) : q[i] = v[i]
  <2> TAKE i \in 1..Len(q)
  <2>1. v[i] = u[i]
    BY <1>9, <1>10, Zenon
  <2>2. CASE i <= Len(s)
    <3>1. i \in 1..Len(s)
      BY <1>2, <1>4, <1>6, <2>2
    <3> QED
      BY <1>4, <1>6, <2>1, <3>1, Zenon
  <2>3. CASE ~(i <= Len(s))
    <3> DEFINE j == i - Len(s)
    <3>1. j \in 1..k /\ j \in 1..Len(t) /\ i = Len(s) + j
      BY <1>2, <1>4, <1>6, <2>3
    <3> HIDE DEF j
    <3> QED
      BY <1>2, <1>4, <1>6, <2>1, <3>1, Zenon
  <2> QED
    BY <2>2, <2>3
<1> QED
  BY <1>1, <1>3, <1>5, <1>6, <1>7, <1>9, <1>10, <1>11, SameBytes, Zenon

-----------------------------------------------------------------------------
(* The stream of calls *)

\* w is what is left of the stream in which the calls c follow each other, the
\* i-th behind the first st[i] bytes, and then at most the farewell of a
\* browser.  st[i] is negative when the call or a part of it has been read.
Layout(t, st, w, c) ==
    /\ w \in Seq(WireBytes) /\ c \in Seq(CallSet) /\ st \in [1..(Len(c) + 1) -> Int]
    /\ \A i \in 1..Len(c) : st[i + 1] = st[i] + Len(BytesOf(t, c[i]))
    /\ \A i \in 1..Len(c) : st[i] <= st[Len(c)]
    /\ \A i \in 1..(Len(c) + 1) : st[i] <= st[Len(c) + 1]
    /\ \A i \in 1..Len(c) : \A j \in 1..Len(BytesOf(t, c[i])) :
          st[i] + j \in 1..Len(w) => w[st[i] + j] = BytesOf(t, c[i])[j]
    /\ \A j \in 1..Len(w) : j > st[Len(c) + 1] =>
          j - st[Len(c) + 1] \in 1..Len(Goodbye) /\ w[j] = Goodbye[j - st[Len(c) + 1]]

\* Bytes that are used up shift the places of all calls.
LEMMA LayoutConsume ==
  ASSUME NEW t \in {"TCP", "WEBSOCK"}, NEW st, NEW w, NEW c, Layout(t, st, w, c),
         NEW k \in Nat, k <= Len(w)
  PROVE  Layout(t, [i \in 1..(Len(c) + 1) |-> st[i] - k], SubSeq(w, k + 1, Len(w)), c)
<1> DEFINE su == [i \in 1..(Len(c) + 1) |-> st[i] - k]
<1>1. /\ w \in Seq(WireBytes) /\ c \in Seq(CallSet) /\ Len(w) \in Nat /\ Len(c) \in Nat
      /\ st \in [1..(Len(c) + 1) -> Int]
  BY LenProperties DEF Layout
<1>2. PICK v : v = SubSeq(w, k + 1, Len(w))
  OBVIOUS
<1>3. v \in Seq(WireBytes) /\ Len(v) = Len(w) - k /\ \A i \in 1..(Len(w) - k) : v[i] = w[k + i]
  <2>1. Len(w) <= Len(w)
    BY <1>1
  <2> QED
    BY <1>1, <1>2, <2>1, Part, Zenon
<1>4. su \in [1..(Len(c) + 1) -> Int] /\ \A i \in 1..(Len(c) + 1) : su[i] = st[i] - k /\ st[i] \in Int
  BY <1>1
<1> HIDE DEF su
<1>5. \A i \in 1..Len(c) : su[i + 1] = su[i] + Len(BytesOf(t, c[i]))
  <2> TAKE i \in 1..Len(c)
  <2>1. i \in 1..(Len(c) + 1) /\ i + 1 \in 1..(Len(c) + 1)
    BY <1>1
  <2>2. Len(BytesOf(t, c[i])) \in Nat
    BY <1>1, BytesFacts, ElementOfSeq
  <2>3. st[i + 1] = st[i] + Len(BytesOf(t, c[i]))
    BY DEF Layout
  <2> QED
    BY <1>4, <2>1, <2>2, <2>3
<1>6. /\ \A i \in 1..Len(c) : su[i] <= su[Len(c)]
      /\ \A i \in 1..(Len(c) + 1) : su[i] <= su[Len(c) + 1]
  <2>1. /\ \A i \in 1..Len(c) : st[i] <= st[Len(c)]
        /\ \A i \in 1..(Len(c) + 1) : st[i] <= st[Len(c) + 1]
    BY DEF Layout
  <2> QED
    BY <1>1, <1>4, <2>1
<1>7. \A i \in 1..Len(c) : \A j \in 1..Len(BytesOf(t, c[i])) :
         su[i] + j \in 1..Len(v) => v[su[i] + j] = BytesOf(t, c[i])[j]
  <2> SUFFICES ASSUME NEW i \in 1..Len(c), NEW j \in 1..Len(BytesOf(t, c[i])), su[i] + j \in 1..Len(v)
               PROVE  v[su[i] + j] = BytesOf(t, c[i])[j]
    OBVIOUS
  <2>1. Len(BytesOf(t, c[i])) \in Nat
    BY <1>1, BytesFacts, ElementOfSeq
  <2>2. /\ st[i] + j \in 1..Len(w) /\ su[i] + j \in 1..(Len(w) - k) /\ k + (su[i] + j) = st[i] + j
    BY <1>1, <1>3, <1>4, <2>1, SMTT(60)
  <2>3. w[st[i] + j] = BytesOf(t, c[i])[j]
    BY <2>2 DEF Layout
  <2> QED
    BY <1>3, <2>2, <2>3, Zenon
<1>8. \A j \in 1..Len(v) : j > su[Len(c) + 1] =>
         j - su[Len(c) + 1] \in 1..Len(Goodbye) /\ v[j] = Goodbye[j - su[Len(c) + 1]]
  <2> SUFFICES ASSUME NEW j \in 1..Len(v), j > su[Len(c) + 1]
               PROVE  j - su[Len(c) + 1] \in 1..Len(Goodbye) /\ v[j] = Goodbye[j - su[Len(c) + 1]]
    OBVIOUS
  <2>1. /\ k + j \in 1..Len(w) /\ k + j > st[Len(c) + 1] /\ (k + j) - st[Len(c) + 1] = j - su[Len(c) + 1]
        /\ j \in 1..(Len(w) - k)
    <3>1. Len(c) + 1 \in 1..(Len(c) + 1)
      BY <1>1
    <3>2. su[Len(c) + 1] = st[Len(c) + 1] - k /\ st[Len(c) + 1] \in Int
      BY <1>4, <3>1, Zenon
    <3> QED
      BY <1>1, <1>3, <3>2
  <2>2. /\ (k + j) - st[Len(c) + 1] \in 1..Len(Goodbye)
        /\ w[k + j] = Goodbye[(k + j) - st[Len(c) + 1]]
    BY <2>1 DEF Layout
  <2> QED
    BY <1>3, <2>1, <2>2, Zenon
<1> QED
  BY <1>1, <1>2, <1>3, <1>4, <1>5, <1>6, <1>7, <1>8, Zenon DEF Layout, su

\* What is left of a stream that is cut.
LEMMA LayoutPrefix ==
  ASSUME NEW t \in {"TCP", "WEBSOCK"}, NEW st, NEW w, NEW c, Layout(t, st, w, c),
         NEW k \in Nat, k <= Len(w)
  PROVE  Layout(t, st, SubSeq(w, 1, k), c)
<1>1. w \in Seq(WireBytes) /\ Len(w) \in Nat
  BY LenProperties DEF Layout
<1>2. PICK v : v = SubSeq(w, 1, k)
  OBVIOUS
<1>3. v \in Seq(WireBytes) /\ Len(v) = k /\ \A i \in 1..k : v[i] = w[i]
  BY <1>1, <1>2, Prefix, Zenon
<1>4. \A j \in 1..Len(v) : j \in 1..Len(w) /\ v[j] = w[j]
  BY <1>1, <1>3
<1> QED
  BY <1>2, <1>3, <1>4, Zenon DEF Layout

\* One more call at the end.
LEMMA LayoutAppend ==
  ASSUME NEW t \in {"TCP", "WEBSOCK"}, NEW st, NEW w, NEW c, Layout(t, st, w, c),
         NEW x \in CallSet, Len(w) = st[Len(c) + 1],
         NEW k \in Nat, k <= Len(BytesOf(t, x))
  PROVE  Layout(t, [i \in 1..(Len(c) + 2) |-> IF i <= Len(c) + 1 THEN st[i]
                                              ELSE st[Len(c) + 1] + Len(BytesOf(t, x))],
                w \o SubSeq(BytesOf(t, x), 1, k), Append(c, x))
<1> DEFINE L == Len(c)
           b == BytesOf(t, x)
           su == [i \in 1..(L + 2) |-> IF i <= L + 1 THEN st[i] ELSE st[L + 1] + Len(b)]
<1>1. /\ w \in Seq(WireBytes) /\ c \in Seq(CallSet) /\ Len(w) \in Nat /\ L \in Nat
      /\ st \in [1..(L + 1) -> Int]
  BY LenProperties DEF Layout
<1>2. b \in Seq(WireBytes) /\ Len(b) \in Nat
  BY BytesFacts
<1>3. PICK d : d = Append(c, x)
  OBVIOUS
<1>4. d \in Seq(CallSet) /\ Len(d) = L + 1 /\ \A i \in 1..L : d[i] = c[i] /\ d[L + 1] = x
  BY <1>1, <1>3
<1>5. PICK p : p = SubSeq(b, 1, k)
  OBVIOUS
<1>6. p \in Seq(WireBytes) /\ Len(p) = k /\ \A i \in 1..k : p[i] = b[i]
  BY <1>2, <1>5, Prefix, Zenon
<1>7. PICK v : v = w \o p
  OBVIOUS
<1>8. /\ v \in Seq(WireBytes) /\ Len(v) = Len(w) + Len(p)
      /\ \A i \in 1..Len(w) : v[i] = w[i]
      /\ \A i \in 1..Len(p) : v[Len(w) + i] = p[i]
  BY <1>1, <1>6, <1>7, Concat, Zenon
<1>9. /\ su \in [1..(L + 2) -> Int] /\ su[L + 2] = st[L + 1] + Len(b)
      /\ \A i \in 1..(L + 1) : su[i] = st[i] /\ st[i] \in Int
  <2>1. /\ \A i \in 1..(L + 1) : i \in 1..(L + 2) /\ i <= L + 1 /\ st[i] \in Int
        /\ L + 1 \in 1..(L + 1) /\ L + 2 \in 1..(L + 2) /\ ~(L + 2 <= L + 1)
    BY <1>1
  <2>2. st[L + 1] + Len(b) \in Int
    BY <1>2, <2>1
  <2>3. su[L + 2] = st[L + 1] + Len(b) /\ \A i \in 1..(L + 1) : su[i] = st[i]
    BY <2>1, Zenon
  <2>4. \A i \in 1..(L + 2) : (IF i <= L + 1 THEN st[i] ELSE st[L + 1] + Len(b)) \in Int
    <3>1. \A i \in 1..(L + 2) : i <= L + 1 => i \in 1..(L + 1)
      BY <1>1
    <3> QED
      BY <2>1, <2>2, <3>1, Zenon
  <2> QED
    BY <2>1, <2>3, <2>4, Zenon
<1>10. \A i \in 1..L : d[i] = c[i] /\ Len(BytesOf(t, c[i])) \in Nat
  BY <1>1, <1>4, BytesFacts, ElementOfSeq
<1>11. d[L + 1] = x
  BY <1>1, <1>3
<1>12. (L + 1) + 1 = L + 2 /\ L + 1 \in 1..(L + 1) /\ \A i \in 1..(L + 1) : i \in 1..L \/ i = L + 1
  BY <1>1
<1> HIDE DEF su, L, b
<1>13. \A i \in 1..(L + 1) : su[i + 1] = su[i] + Len(BytesOf(t, d[i]))
  <2>1. \A i \in 1..L : st[i + 1] = st[i] + Len(BytesOf(t, c[i])) /\ i + 1 \in 1..(L + 1) /\ i \in 1..(L + 1)
    BY <1>1 DEF Layout, L
  <2>2. su[(L + 1) + 1] = su[L + 1] + Len(BytesOf(t, d[L + 1]))
    BY <1>9, <1>11, <1>12, Zenon DEF b
  <2>3. \A i \in 1..L : su[i + 1] = su[i] + Len(BytesOf(t, d[i]))
    BY <1>9, <1>10, <2>1, Zenon
  <2> QED
    BY <1>12, <2>2, <2>3, Zenon
<1>14. /\ \A i \in 1..(L + 1) : su[i] <= su[L + 1]
       /\ \A i \in 1..(L + 2) : su[i] <= su[L + 2]
  <2>1. \A i \in 1..(L + 1) : st[i] <= st[L + 1]
    BY DEF Layout, L
  <2>2. \A i \in 1..(L + 1) : su[i] <= su[L + 1] /\ su[i] \in Int
    BY <1>9, <1>12, <2>1
  <2>3. su[L + 1] <= su[L + 2] /\ su[L + 2] <= su[L + 2] /\ su[L + 1] \in Int /\ su[L + 2] \in Int
    <3>1. su[L + 1] = st[L + 1] /\ st[L + 1] \in Int
      BY <1>9, <1>12, Zenon
    <3> QED
      BY <1>2, <1>9, <3>1
  <2>4. \A i \in 1..(L + 2) : i \in 1..(L + 1) \/ i = L + 2
    BY <1>1
  <2> QED
    BY <2>2, <2>3, <2>4
<1>15. \A i \in 1..(L + 1) : \A j \in 1..Len(BytesOf(t, d[i])) :
          su[i] + j \in 1..Len(v) => v[su[i] + j] = BytesOf(t, d[i])[j]
  <2>1. ASSUME NEW i \in 1..L, NEW j \in 1..Len(BytesOf(t, c[i])), su[i] + j \in 1..Len(v)
        PROVE  v[su[i] + j] = BytesOf(t, c[i])[j]
    <3>1. st[i + 1] = st[i] + Len(BytesOf(t, c[i])) /\ st[i + 1] <= st[L + 1] /\ i \in 1..(L + 1)
      <4>1. i + 1 \in 1..(L + 1) /\ i \in 1..(L + 1)
        BY <1>1
      <4> QED
        BY <4>1 DEF Layout, L
    <3>2. st[i] + j <= Len(w)
      <4>1. st[i] \in Int /\ Len(BytesOf(t, c[i])) \in Nat
        BY <1>9, <1>10, <3>1
      <4>2. Len(w) = st[L + 1]
        BY DEF L
      <4> QED
        BY <1>1, <3>1, <4>1, <4>2
    <3>3. su[i] = st[i] /\ st[i] \in Int
      BY <1>9, <3>1
    <3>4. st[i] + j \in 1..Len(w)
      <4>1. Len(BytesOf(t, c[i])) \in Nat /\ j \in Int
        BY <1>10
      <4> QED
        BY <1>1, <1>6, <1>8, <2>1, <3>2, <3>3, <4>1
    <3>5. w[st[i] + j] = BytesOf(t, c[i])[j]
      BY <3>4 DEF Layout, L
    <3>6. v[st[i] + j] = w[st[i] + j]
      BY <1>8, <3>4, Zenon
    <3>7. v[su[i] + j] = v[st[i] + j]
      BY <3>3, Zenon
    <3> QED
      BY <3>5, <3>6, <3>7, Zenon
  <2>2. ASSUME NEW j \in 1..Len(b), su[L + 1] + j \in 1..Len(v)
        PROVE  v[su[L + 1] + j] = b[j]
    <3>1. su[L + 1] = Len(w)
      BY <1>9, <1>12 DEF L
    <3>2. j \in 1..Len(p) /\ j \in 1..k
      BY <1>1, <1>2, <1>6, <1>8, <2>2, <3>1, SMTT(60)
    <3> QED
      BY <1>6, <1>8, <3>1, <3>2, Zenon
  <2>3. \A j \in 1..Len(BytesOf(t, d[L + 1])) :
            su[L + 1] + j \in 1..Len(v) => v[su[L + 1] + j] = BytesOf(t, d[L + 1])[j]
    BY <1>11, <2>2, Zenon DEF b
  <2>4. \A i \in 1..L : \A j \in 1..Len(BytesOf(t, d[i])) :
            su[i] + j \in 1..Len(v) => v[su[i] + j] = BytesOf(t, d[i])[j]
    BY <1>10, <2>1, Zenon
  <2> QED
    BY <1>12, <2>3, <2>4, Zenon
<1>16. \A j \in 1..Len(v) : ~(j > su[L + 2])
  <2>1. su[L + 2] = Len(w) + Len(b)
    BY <1>9 DEF L
  <2> QED
    BY <1>1, <1>2, <1>6, <1>8, <2>1, SMTT(60) DEF b
<1>17. (L + 1) + 1 = L + 2
  BY <1>12
<1>18. Layout(t, su, v, d)
  <2>1. su \in [1..(Len(d) + 1) -> Int]
    BY <1>4, <1>9, <1>17, Zenon
  <2> QED
    BY <1>4, <1>8, <1>13, <1>14, <1>15, <1>16, <1>17, <2>1, Zenon DEF Layout
<1> QED
  BY <1>3, <1>5, <1>7, <1>18, Zenon DEF su, L, b

\* A close frame after the last call.
LEMMA LayoutGoodbye ==
  ASSUME NEW t \in {"TCP", "WEBSOCK"}, NEW st, NEW w, NEW c, Layout(t, st, w, c),
         Len(w) = st[Len(c) + 1]
  PROVE  Layout(t, st, w \o Goodbye, c)
<1>1. /\ w \in Seq(WireBytes) /\ c \in Seq(CallSet) /\ Len(w) \in Nat /\ Len(c) \in Nat
      /\ st \in [1..(Len(c) + 1) -> Int]
  BY LenProperties DEF Layout
<1>2. Goodbye \in Seq(WireBytes) /\ Len(Goodbye) \in Nat
  BY GoodbyeShape
<1>3. PICK v : v = w \o Goodbye
  OBVIOUS
<1>4. /\ v \in Seq(WireBytes) /\ Len(v) = Len(w) + Len(Goodbye)
      /\ \A i \in 1..Len(w) : v[i] = w[i]
      /\ \A i \in 1..Len(Goodbye) : v[Len(w) + i] = Goodbye[i]
  BY <1>1, <1>2, <1>3, Concat, Zenon
<1>5. \A i \in 1..Len(c) : \A j \in 1..Len(BytesOf(t, c[i])) :
         st[i] + j \in 1..Len(v) => v[st[i] + j] = BytesOf(t, c[i])[j]
  <2> SUFFICES ASSUME NEW i \in 1..Len(c), NEW j \in 1..Len(BytesOf(t, c[i])), st[i] + j \in 1..Len(v)
               PROVE  v[st[i] + j] = BytesOf(t, c[i])[j]
    OBVIOUS
  <2>1. Len(BytesOf(t, c[i])) \in Nat
    BY <1>1, BytesFacts, ElementOfSeq
  <2>2. st[i + 1] = st[i] + Len(BytesOf(t, c[i])) /\ st[i + 1] <= st[Len(c) + 1] /\ st[i] \in Int
    <3>1. i + 1 \in 1..(Len(c) + 1) /\ i \in 1..(Len(c) + 1)
      BY <1>1
    <3> QED
      BY <1>1, <3>1 DEF Layout
  <2>3. st[i] + j \in 1..Len(w)
    BY <1>1, <2>1, <2>2
  <2>4. w[st[i] + j] = BytesOf(t, c[i])[j]
    BY <2>3 DEF Layout
  <2> QED
    BY <1>4, <2>3, <2>4, Zenon
<1>6. \A j \in 1..Len(v) : j > st[Len(c) + 1] =>
         j - st[Len(c) + 1] \in 1..Len(Goodbye) /\ v[j] = Goodbye[j - st[Len(c) + 1]]
  <2> SUFFICES ASSUME NEW j \in 1..Len(v), j > Len(w)
               PROVE  j - Len(w) \in 1..Len(Goodbye) /\ v[j] = Goodbye[j - Len(w)]
    OBVIOUS
  <2>1. j - Len(w) \in 1..Len(Goodbye) /\ Len(w) + (j - Len(w)) = j
    BY <1>1, <1>2, <1>4
  <2> QED
    BY <1>4, <2>1, Zenon
<1>7. Layout(t, st, v, c)
  BY <1>1, <1>4, <1>5, <1>6, Zenon DEF Layout
<1> QED
  BY <1>3, <1>7

\* s is in front of the stream, where the call c[i] has a part of that length.
InFront(t, st, s, r, c, i, a, b) ==
    /\ t \in {"TCP", "WEBSOCK"} /\ s \in Seq(WireBytes) /\ r \in Seq(WireBytes)
    /\ Layout(t, st, s \o r, c) /\ i \in 1..Len(c) /\ a \in Nat /\ b \in Nat
    /\ a <= b /\ b <= Len(BytesOf(t, c[i])) /\ st[i] = 0 - a /\ Len(s) = b - a

\* What is in front is the call that comes first.
LEMMA LayoutFront ==
  ASSUME NEW t, NEW st, NEW s, NEW r, NEW c, NEW i, NEW a, NEW b, InFront(t, st, s, r, c, i, a, b)
  PROVE  s = SubSeq(BytesOf(t, c[i]), a + 1, b)
<1> USE DEF InFront
<1>1. c[i] \in CallSet
  BY ElementOfSeq DEF Layout
<1>2. PICK x : x = BytesOf(t, c[i])
  OBVIOUS
<1>3. x \in Seq(WireBytes) /\ Len(x) \in Nat
  BY <1>1, <1>2, BytesFacts
<1>4. PICK w : w = s \o r
  OBVIOUS
<1>5. /\ w \in Seq(WireBytes) /\ Len(s) \in Nat /\ Len(r) \in Nat /\ Len(w) = Len(s) + Len(r)
      /\ \A j \in 1..Len(s) : w[j] = s[j]
  BY <1>4, Concat, Zenon
<1>6. PICK p : p = SubSeq(x, a + 1, b)
  OBVIOUS
<1>7. p \in Seq(WireBytes) /\ Len(p) = b - a /\ \A j \in 1..(b - a) : p[j] = x[a + j]
  <2>1. b <= Len(x)
    BY <1>2
  <2> QED
    BY <1>3, <1>6, <2>1, Part, Zenon
<1>8. \A j \in 1..Len(s) : s[j] = p[j]
  <2> TAKE j \in 1..Len(s)
  <2>1. j \in 1..(b - a) /\ a + j \in 1..Len(x) /\ st[i] + (a + j) = j /\ j \in 1..Len(w)
    BY <1>2, <1>3, <1>5, SMTT(60)
  <2>2. w[st[i] + (a + j)] = x[a + j]
    BY <1>2, <1>4, <2>1, Zenon DEF Layout
  <2> QED
    BY <1>5, <1>7, <2>1, <2>2, Zenon
<1> QED
  BY <1>2, <1>6, <1>7, <1>8, SameBytes, Zenon

-----------------------------------------------------------------------------
(* Parsing with the whole command in hand *)

\* Induction over a set of numbers.
LEMMA SetInduction ==
  ASSUME NEW T \in SUBSET Nat, 0 \in T, \A n \in T : n + 1 \in T
  PROVE  T = Nat
<1> SUFFICES ASSUME Nat \ T # {} PROVE FALSE
  OBVIOUS
<1>1. PICK m \in Nat \ T : \A y \in Nat \ T : ~(<<y, m>> \in OpToRel(<, Nat))
  <2>1. Nat \ T \subseteq Nat /\ Nat \ T # {}
    OBVIOUS
  <2> QED
    BY <2>1, WFMin, NatLessThanWellFounded, Zenon
<1>2. m \in Nat /\ m \notin T /\ m # 0 /\ m - 1 \in Nat /\ (m - 1) + 1 = m /\ m - 1 < m
  <2>1. m \in Nat /\ m \notin T /\ m # 0
    OBVIOUS
  <2> QED
    BY <2>1
<1>3. m - 1 \notin T
  BY <1>2, Zenon
<1>4. <<m - 1, m>> \in OpToRel(<, Nat)
  BY <1>2 DEF OpToRel
<1> QED
  BY <1>1, <1>2, <1>3, <1>4, Zenon

ParseStep(packs, payload, f, i) ==
    IF i = 0 THEN [position |-> 0, values |-> <<>>] ELSE FromPayload(payload, f[i - 1], packs[i])

\* The recursion of Parsed has a solution.
LEMMA ParsedUnfold ==
  ASSUME NEW packs, NEW payload, Len(packs) \in Nat
  PROVE  /\ Parsed(packs, payload)[0] = [position |-> 0, values |-> <<>>]
         /\ \A i \in 1..Len(packs) :
               Parsed(packs, payload)[i] = FromPayload(payload, Parsed(packs, payload)[i - 1], packs[i])
<1> DEFINE Solves(f, n) == f = [i \in 0..n |-> ParseStep(packs, payload, f, i)]
           T == {n \in Nat : \E f : Solves(f, n)}
<1>1. 0 \in T
  <2>1. PICK f : f = [i \in 0..0 |-> [position |-> 0, values |-> <<>>]]
    OBVIOUS
  <2>2. \A i \in 0..0 : i = 0
    OBVIOUS
  <2>3. [i \in 0..0 |-> ParseStep(packs, payload, f, i)] = [i \in 0..0 |-> [position |-> 0, values |-> <<>>]]
    BY <2>2, Zenon DEF ParseStep
  <2>4. Solves(f, 0)
    BY <2>1, <2>3, Zenon
  <2> QED
    BY <2>4
<1>2. \A n \in T : n + 1 \in T
  <2> TAKE n \in T
  <2>1. PICK f : Solves(f, n)
    OBVIOUS
  <2>2. n \in Nat
    OBVIOUS
  <2>3. PICK g : g = [i \in 0..(n + 1) |-> ParseStep(packs, payload, f, i)]
    OBVIOUS
  <2>4. \A i \in 0..n : g[i] = f[i]
    <3>1. \A i \in 0..n : i \in 0..(n + 1)
      BY <2>2
    <3> QED
      BY <2>1, <2>3, <3>1, Zenon
  <2>5. \A i \in 0..(n + 1) : ParseStep(packs, payload, g, i) = ParseStep(packs, payload, f, i)
    <3>1. \A i \in 0..(n + 1) : i = 0 \/ i - 1 \in 0..n
      BY <2>2
    <3> QED
      BY <2>4, <3>1, Zenon DEF ParseStep
  <2>6. g = [i \in 0..(n + 1) |-> ParseStep(packs, payload, g, i)]
    BY <2>3, <2>5, Zenon
  <2>7. n + 1 \in Nat
    BY <2>2
  <2> QED
    BY <2>6, <2>7, Zenon
<1>3. T = Nat
  <2>1. T \in SUBSET Nat
    OBVIOUS
  <2> HIDE DEF T
  <2> QED
    BY <1>1, <1>2, <2>1, SetInduction, Zenon
<1>4. \E f : Solves(f, Len(packs))
  BY <1>3, Zenon
<1>5. PICK h : h = Parsed(packs, payload)
  OBVIOUS
<1>6. h = CHOOSE f : f = [i \in 0..Len(packs) |->
             IF i = 0 THEN [position |-> 0, values |-> <<>>] ELSE FromPayload(payload, f[i - 1], packs[i])]
  BY <1>5 DEF Parsed
<1>7. h = [i \in 0..Len(packs) |->
             IF i = 0 THEN [position |-> 0, values |-> <<>>] ELSE FromPayload(payload, h[i - 1], packs[i])]
  BY <1>4, <1>6, Zenon DEF ParseStep
<1>8. 0 \in 0..Len(packs) /\ \A i \in 1..Len(packs) : i \in 0..Len(packs) /\ i # 0
  OBVIOUS
<1>9. h[0] = [position |-> 0, values |-> <<>>]
  BY <1>7, <1>8, Zenon
<1>10. \A i \in 1..Len(packs) : h[i] = FromPayload(payload, h[i - 1], packs[i])
  BY <1>7, <1>8, Zenon
<1> QED
  BY <1>5, <1>9, <1>10, Zenon

\* Where the parser is, and what it has, after i packs of the call c.
At(c, i) == Parsed(Packs[c.op], SubSeq(TCPBytes(c), 9, Len(TCPBytes(c))))[i]

\* The length in front of the i-th pack, if there is one.
Skip(c, i) == IF HasLength(Packs[c.op][i]) THEN 4 ELSE 0

\* A part of the payload is a part of the command, after the header.
LEMMA PayloadSlice ==
  ASSUME NEW s \in Seq(WireBytes), NEW p \in Nat, NEW n \in Nat, 8 + p + n <= Len(s)
  PROVE  Slice(SubSeq(s, 9, Len(s)), p, n) = SubSeq(s, 8 + p + 1, 8 + p + n)
<1>1. Len(s) \in Nat /\ 8 \in Nat /\ 8 <= Len(s) /\ Len(s) <= Len(s) /\ 8 + 1 = 9
  BY LenProperties
<1>2. PICK q : q = SubSeq(s, 8 + 1, Len(s))
  OBVIOUS
<1>3. q \in Seq(WireBytes) /\ Len(q) = Len(s) - 8 /\ \A i \in 1..(Len(s) - 8) : q[i] = s[8 + i]
  BY <1>1, <1>2, Part, Zenon
<1>4. PICK u : u = SubSeq(q, p + 1, p + n)
  OBVIOUS
<1>5. p + n \in Nat /\ p <= p + n /\ p + n <= Len(q) /\ (p + n) - p = n
  BY <1>1, <1>3
<1>6. u \in Seq(WireBytes) /\ Len(u) = (p + n) - p /\ \A i \in 1..((p + n) - p) : u[i] = q[p + i]
  BY <1>3, <1>4, <1>5, Part, ZenonT(60)
<1>7. PICK v : v = SubSeq(s, (8 + p) + 1, 8 + p + n)
  OBVIOUS
<1>8. /\ 8 + p \in Nat /\ 8 + p + n \in Nat /\ 8 + p <= 8 + p + n /\ 8 + p + n <= Len(s)
      /\ (8 + p + n) - (8 + p) = n
  BY <1>1
<1>9. /\ v \in Seq(WireBytes) /\ Len(v) = (8 + p + n) - (8 + p)
      /\ \A i \in 1..((8 + p + n) - (8 + p)) : v[i] = s[(8 + p) + i]
  BY <1>7, <1>8, Part, Zenon
<1>10. \A i \in 1..Len(u) : u[i] = v[i]
  <2> TAKE i \in 1..Len(u)
  <2>1. i \in 1..n /\ p + i \in 1..(Len(s) - 8) /\ 8 + (p + i) = (8 + p) + i
    BY <1>1, <1>5, <1>6, <1>8
  <2>2. u[i] = q[p + i] /\ q[p + i] = s[8 + (p + i)] /\ v[i] = s[(8 + p) + i]
    BY <1>3, <1>5, <1>6, <1>8, <1>9, <2>1, Zenon
  <2> QED
    BY <2>1, <2>2, Zenon
<1>11. u = v
  BY <1>5, <1>6, <1>8, <1>9, <1>10, SameBytes, Zenon
<1> QED
  BY <1>1, <1>2, <1>4, <1>7, <1>11, Zenon DEF Slice

LEMMA PayloadLength ==
  ASSUME NEW c \in CallSet
  PROVE  Len(SubSeq(TCPBytes(c), 9, Len(TCPBytes(c)))) = Len(TCPBytes(c)) - 8
<1>1. 8 \in Nat /\ 8 <= Len(TCPBytes(c)) /\ Len(TCPBytes(c)) \in Nat /\ Len(TCPBytes(c)) <= Len(TCPBytes(c))
      /\ 8 + 1 = 9 /\ TCPBytes(c) \in Seq(WireBytes)
  BY TCPBytesFacts
<1>2. Len(SubSeq(TCPBytes(c), 8 + 1, Len(TCPBytes(c)))) = Len(TCPBytes(c)) - 8
  BY <1>1, Part, Zenon
<1> QED
  BY <1>1, <1>2, Zenon

\* What CallDecodes says, pack by pack.
LEMMA PackFacts ==
  ASSUME NEW c \in CallSet
  PROVE  LET B == TCPBytes(c)
             P == Packs[c.op]
             types == Operations[c.op].args
         IN  /\ Len(P) \in Nat /\ P \in Seq(Seq(Range(types))) /\ types \in Seq(Range(types))
             /\ c.args = [i \in 1..Len(types) |-> c.args[i]] /\ c.op # "none"
             /\ OperationOf(SubSeq(B, 1, 8)) = [op |-> c.op, packs |-> P, args |-> <<>>, cut |-> FALSE]
             /\ At(c, 0) = [position |-> 0, values |-> <<>>]
             /\ At(c, Len(P)) = [position |-> Len(B) - 8, values |-> c.args]
             /\ \A i \in 1..Len(P) :
                   LET k == Len(At(c, i - 1).values)
                       n == Len(At(c, i).values)
                       length == PackLength(Slice(SubSeq(B, 9, Len(B)), At(c, i - 1).position, 4))
                       size == size_of(ElementOf(P[i][1]))
                   IN  /\ At(c, i).position \in 0..(Len(B) - 8) /\ At(c, i - 1).position <= At(c, i).position
                       /\ k < n /\ n \in 0..Len(c.args) /\ At(c, i).values = SubSeq(c.args, 1, n)
                       /\ P[i] = SubSeq(types, k + 1, n)
                       /\ HasLength(P[i]) => /\ At(c, i - 1).position + 4 <= At(c, i).position
                                             /\ n = k + 1 /\ length \in Nat /\ (length \div size) * size = length
                       /\ HasLength(P[i]) \/ PackSize(P[i]) \in Nat \ {0}
                       /\ At(c, i) = FromPayload(SubSeq(B, 9, Len(B)), At(c, i - 1), P[i])
<1> DEFINE B == TCPBytes(c)
           P == Packs[c.op]
           types == Operations[c.op].args
           payload == SubSeq(B, 9, Len(B))
<1>1. CallDecodes(c.op, c.args) /\ OperationParses(c.op) /\ B = TCPCommands[c.op][c.args]
  BY CallFacts DEF TCPBytes
<1>2. P \in Seq(Seq(Range(types))) /\ types \in Seq(Range(types)) /\ c.op # "none"
  BY <1>1, Zenon DEF OperationParses
<1>3. Len(P) \in Nat /\ DOMAIN P = 1..Len(P) /\ DOMAIN types = 1..Len(types)
  BY <1>2, LenProperties
<1>4. 8 + 1 = 9
  OBVIOUS
<1>5. c.args = [i \in 1..Len(types) |-> c.args[i]]
  BY <1>1, <1>3, Zenon DEF CallDecodes
<1>6. OperationOf(SubSeq(B, 1, 8)) = [op |-> c.op, packs |-> P, args |-> <<>>, cut |-> FALSE]
  <2>1. OperationOf(SubSeq(B, 1, 8)) = [NoCommand EXCEPT !.op = c.op, !.packs = P]
    BY <1>1, Zenon DEF CallDecodes, S!HEADER_SIZE
  <2> QED
    BY <2>1 DEF NoCommand
<1>7. payload = SubSeq(B, S!HEADER_SIZE + 1, Len(B))
  BY <1>4, Zenon DEF S!HEADER_SIZE
<1>8. Parsed(P, payload)[Len(P)] = [position |-> Len(payload), values |-> c.args]
  BY <1>1, <1>7, Zenon DEF CallDecodes
<1>9. Len(payload) = Len(B) - 8
  BY PayloadLength
<1>10. At(c, 0) = [position |-> 0, values |-> <<>>]
  BY <1>3, ParsedUnfold, Zenon DEF At
<1>11. \A i \in 1..Len(P) : At(c, i) = FromPayload(payload, At(c, i - 1), P[i])
  BY <1>3, ParsedUnfold, Zenon DEF At
<1>12. \A i \in 1..Len(P) : HasLength(P[i]) \/ PackSize(P[i]) \in Nat \ {0}
  BY <1>1, <1>3, Zenon DEF OperationParses
<1>13. \A i \in 1..Len(P) :
          LET start == Parsed(P, payload)[i - 1].position
              length == PackLength(Slice(payload, start, size_of("uint32_t")))
              size == size_of(ElementOf(P[i][1]))
              k == Len(Parsed(P, payload)[i - 1].values)
              n == Len(Parsed(P, payload)[i].values)
          IN  /\ Parsed(P, payload)[i].position \in 0..Len(payload)
              /\ start <= Parsed(P, payload)[i].position
              /\ k < n /\ n \in 0..Len(c.args) /\ Parsed(P, payload)[i].values = SubSeq(c.args, 1, n)
              /\ P[i] = SubSeq(types, k + 1, n)
              /\ HasLength(P[i]) =>
                    /\ start + size_of("uint32_t") <= Parsed(P, payload)[i].position /\ n = k + 1
                    /\ length \in Nat /\ (length \div size) * size = length
  BY <1>1, <1>3, <1>7, ZenonT(60) DEF CallDecodes
<1>14. \A i \in 1..Len(P) :
                   LET k == Len(At(c, i - 1).values)
                       n == Len(At(c, i).values)
                       length == PackLength(Slice(SubSeq(B, 9, Len(B)), At(c, i - 1).position, 4))
                       size == size_of(ElementOf(P[i][1]))
                   IN  /\ At(c, i).position \in 0..(Len(B) - 8) /\ At(c, i - 1).position <= At(c, i).position
                       /\ k < n /\ n \in 0..Len(c.args) /\ At(c, i).values = SubSeq(c.args, 1, n)
                       /\ P[i] = SubSeq(types, k + 1, n)
                       /\ HasLength(P[i]) => /\ At(c, i - 1).position + 4 <= At(c, i).position
                                             /\ n = k + 1 /\ length \in Nat /\ (length \div size) * size = length
  BY <1>9, <1>13, SizeOfLength, Zenon DEF At
<1> QED
  BY <1>2, <1>3, <1>5, <1>6, <1>8, <1>9, <1>10, <1>11, <1>12, <1>14, Zenon DEF At

\* Where the packs of a call begin and end.
LEMMA PackPositions ==
  ASSUME NEW c \in CallSet, NEW i \in 0..Len(Packs[c.op])
  PROVE  /\ At(c, i).position \in Nat /\ 8 + At(c, i).position <= Len(TCPBytes(c))
         /\ Len(At(c, i).values) \in Nat /\ Len(At(c, i).values) <= Len(c.args)
         /\ At(c, i).values = SubSeq(c.args, 1, Len(At(c, i).values))
<1>1. Len(TCPBytes(c)) \in Nat /\ Len(TCPBytes(c)) >= 8 /\ Len(Packs[c.op]) \in Nat
  BY TCPBytesFacts, PackFacts
<1>2. Len(c.args) \in Nat
  <2>1. Len(Operations[c.op].args) \in Nat
    BY PackFacts, LenProperties
  <2>2. c.args = [j \in 1..Len(Operations[c.op].args) |-> c.args[j]]
    BY PackFacts
  <2> QED
    BY <2>1, <2>2
<1>3. CASE i = 0
  <2>1. At(c, i).position = 0 /\ At(c, i).values = <<>>
    <3>1. At(c, i) = [position |-> 0, values |-> <<>>]
      BY <1>3, PackFacts, Zenon
    <3> QED
      BY <3>1
  <2>2. SubSeq(c.args, 1, 0) = <<>>
    BY SubSeqEmpty
  <2>3. Len(<<>>) = 0
    OBVIOUS
  <2>4. Len(At(c, i).values) = 0
    BY <2>1, <2>3, Zenon
  <2> QED
    BY <1>1, <1>2, <2>1, <2>2, <2>4
<1>4. CASE i # 0
  <2>1. i \in 1..Len(Packs[c.op])
    BY <1>1, <1>4
  <2>2. /\ At(c, i).position \in 0..(Len(TCPBytes(c)) - 8)
        /\ Len(At(c, i).values) \in 0..Len(c.args)
        /\ At(c, i).values = SubSeq(c.args, 1, Len(At(c, i).values))
    BY <2>1, PackFacts, Zenon
  <2>3. At(c, i).position \in Nat /\ 8 + At(c, i).position <= Len(TCPBytes(c))
    BY <1>1, <2>2
  <2>4. Len(At(c, i).values) \in Nat /\ Len(At(c, i).values) <= Len(c.args)
    BY <1>2, <2>2
  <2> QED
    BY <2>2, <2>3, <2>4, Zenon
<1> QED
  BY <1>3, <1>4

\* The i-th pack: how long its length and its bytes are, and what they mean.
LEMMA PackStep ==
  ASSUME NEW c \in CallSet, NEW i \in 1..Len(Packs[c.op])
  PROVE  LET B == TCPBytes(c)
             pack == Packs[c.op][i]
             size == size_of(ElementOf(pack[1]))
             p == At(c, i - 1).position
             q == At(c, i).position
         IN  /\ p \in Nat /\ q \in Nat /\ 8 + q <= Len(B) /\ Skip(c, i) \in {0, 4} /\ p + Skip(c, i) <= q
             /\ HasLength(pack) => /\ Skip(c, i) = 4
                                   /\ (PackLength(SubSeq(B, 8 + p + 1, 8 + p + 4)) \div size) * size = q - p - 4
             /\ ~HasLength(pack) => Skip(c, i) = 0 /\ PackSize(pack) = q - p /\ q - p \in Nat \ {0}
             /\ At(c, i).values = At(c, i - 1).values
                                     \o PackValues(pack, SubSeq(B, 8 + p + Skip(c, i) + 1, 8 + q))
<1> DEFINE B == TCPBytes(c)
           pack == Packs[c.op][i]
           size == size_of(ElementOf(pack[1]))
           p == At(c, i - 1).position
           q == At(c, i).position
           payload == SubSeq(B, 9, Len(B))
           length == PackLength(Slice(payload, p, 4))
<1>0. Len(Packs[c.op]) \in Nat
  BY PackFacts
<1>1. i - 1 \in 0..Len(Packs[c.op]) /\ i \in 0..Len(Packs[c.op])
  BY <1>0
<1>2. p \in Nat /\ q \in Nat /\ 8 + q <= Len(B) /\ B \in Seq(WireBytes) /\ Len(B) \in Nat
  BY <1>1, PackPositions, TCPBytesFacts
<1>3. /\ p <= q
      /\ HasLength(pack) => p + 4 <= q /\ length \in Nat /\ (length \div size) * size = length
      /\ HasLength(pack) \/ PackSize(pack) \in Nat \ {0}
  BY PackFacts, Zenon
<1>4. At(c, i) = FromPayload(payload, At(c, i - 1), pack)
  BY PackFacts, Zenon
<1>5. CASE HasLength(pack)
  <2>1. Skip(c, i) = 4
    BY <1>5 DEF Skip
  <2>2. At(c, i) = [position |-> p + 4 + length,
                    values |-> At(c, i - 1).values \o PackValues(pack, Slice(payload, p + 4, length))]
    BY <1>4, <1>5, SizeOfLength, Zenon DEF FromPayload
  <2>3. q = p + 4 + length /\ At(c, i).values = At(c, i - 1).values \o PackValues(pack, Slice(payload, p + 4, length))
    <3>1. PICK r : r = At(c, i)
      OBVIOUS
    <3>2. PICK x, y : x = p + 4 + length /\ y = At(c, i - 1).values \o PackValues(pack, Slice(payload, p + 4, length))
      OBVIOUS
    <3>3. r = [position |-> x, values |-> y]
      BY <2>2, <3>1, <3>2, Zenon
    <3>4. r.position = x /\ r.values = y
      BY <3>3
    <3> QED
      BY <3>1, <3>2, <3>4, Zenon
  <2>4. length \in Nat /\ length = q - p - 4 /\ 8 + p + 4 <= Len(B)
    <3>1. length \in Nat /\ p + 4 <= q
      BY <1>3, <1>5, Zenon
    <3> HIDE DEF length, p, q, B
    <3> QED
      BY <1>2, <2>3, <3>1
  <2>5. Slice(payload, p, 4) = SubSeq(B, 8 + p + 1, 8 + p + 4)
    BY <1>2, <2>4, PayloadSlice, ZenonT(60)
  <2>6. Slice(payload, p + 4, length) = SubSeq(B, 8 + (p + 4) + 1, 8 + (p + 4) + length)
    <3> HIDE DEF length, p, payload, q, B
    <3>1. p + 4 \in Nat /\ 8 + (p + 4) + length <= Len(B)
      BY <1>2, <2>3, <2>4
    <3> QED
      BY <1>2, <2>4, <3>1, PayloadSlice, Zenon DEF payload
  <2>7. 8 + (p + 4) + 1 = 8 + p + Skip(c, i) + 1 /\ 8 + (p + 4) + length = 8 + q
    <3> HIDE DEF length, p, q, B
    <3> QED
      BY <1>2, <2>1, <2>3, <2>4
  <2>8. At(c, i).values = At(c, i - 1).values \o PackValues(pack, SubSeq(B, 8 + p + Skip(c, i) + 1, 8 + q))
    BY <2>3, <2>6, <2>7, Zenon
  <2>9. (PackLength(SubSeq(B, 8 + p + 1, 8 + p + 4)) \div size) * size = q - p - 4
    BY <1>3, <1>5, <2>4, <2>5, Zenon
  <2>10. p + Skip(c, i) <= q
    BY <1>3, <1>5, <2>1, Zenon
  <2> QED
    BY <1>2, <1>5, <2>1, <2>8, <2>9, <2>10, Zenon
<1>6. CASE ~HasLength(pack)
  <2>1. Skip(c, i) = 0
    BY <1>6 DEF Skip
  <2>2. At(c, i) = [position |-> p + 0 + PackSize(pack),
                    values |-> At(c, i - 1).values \o PackValues(pack, Slice(payload, p + 0, PackSize(pack)))]
    BY <1>4, <1>6, Zenon DEF FromPayload
  <2>3. p + 0 = p /\ PackSize(pack) \in Nat \ {0}
    BY <1>2, <1>3, <1>6
  <2>4. /\ q = p + PackSize(pack)
        /\ At(c, i).values = At(c, i - 1).values \o PackValues(pack, Slice(payload, p, PackSize(pack)))
    <3>1. PICK r : r = At(c, i)
      OBVIOUS
    <3>2. PICK x, y : x = p + 0 + PackSize(pack)
                      /\ y = At(c, i - 1).values \o PackValues(pack, Slice(payload, p + 0, PackSize(pack)))
      OBVIOUS
    <3>3. r = [position |-> x, values |-> y]
      BY <2>2, <3>1, <3>2, Zenon
    <3>4. r.position = x /\ r.values = y
      BY <3>3
    <3>5. q = p + 0 + PackSize(pack)
      BY <3>1, <3>2, <3>4, Zenon
    <3>6. q = p + PackSize(pack)
      <4> HIDE DEF p, q
      <4> QED
        BY <2>3, <3>5, <1>2
    <3> QED
      BY <2>3, <3>1, <3>2, <3>4, <3>6, Zenon
  <2>5. PackSize(pack) = q - p /\ q - p \in Nat \ {0} /\ PackSize(pack) \in Nat /\ 8 + p + PackSize(pack) <= Len(B)
    BY <1>2, <2>3, <2>4, SMTT(60)
  <2>6. Slice(payload, p, PackSize(pack)) = SubSeq(B, 8 + p + 1, 8 + p + PackSize(pack))
    BY <1>2, <2>5, PayloadSlice
  <2>7. 8 + p + 1 = 8 + p + Skip(c, i) + 1 /\ 8 + p + PackSize(pack) = 8 + q /\ p + Skip(c, i) <= q
    BY <1>2, <1>3, <2>1, <2>4, <2>5, SMTT(60)
  <2>8. At(c, i).values = At(c, i - 1).values \o PackValues(pack, SubSeq(B, 8 + p + Skip(c, i) + 1, 8 + q))
    BY <2>4, <2>6, <2>7, Zenon
  <2> QED
    BY <1>2, <1>6, <2>1, <2>5, <2>7, <2>8, Zenon
<1> QED
  BY <1>5, <1>6
=============================================================================
