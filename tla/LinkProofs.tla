----------------------------- MODULE LinkProofs ------------------------------
(***************************************************************************)
(* Proofs about Link: for any interface, any number of calls and any       *)
(* fragmentation of the streams, from the assumption that the two          *)
(* serialisers understand each other (CodecAssumption).                    *)
(***************************************************************************)
EXTENDS LinkLemmas

-----------------------------------------------------------------------------
(* The inductive invariant *)

\* The number of the call whose command is being read, or is to be read next.
Current == Len(executed) + 1

Sequence(s) == \E R : s \in Seq(R)

Typing ==
    /\ socket_type \in {"TCP", "WEBSOCK"}
    /\ up_end \in {"open", "eof", "reset"} /\ down_end \in BOOLEAN
    /\ spc \in {"http", "header", "length", "pack", "exec", "ws_head", "ws_ext",
                "ws_payload", "ended", "aborted"}
    /\ cpc \in {"opening", "idle", "answer", "length", "gone"}
    /\ (cpc = "gone") <=> (up_end # "open")
    /\ need \in Nat /\ rneed \in Nat
    /\ cmd.op \in DOMAIN Operations \cup {"none"} /\ cmd.cut \in BOOLEAN
    /\ up \in Seq(WireBytes) /\ buff \in Seq(WireBytes)
    /\ down \in Seq(WireBytes) /\ rbuf \in Seq(WireBytes)
    /\ socket_type = "TCP" => up \in Seq(0..(Radix - 1))
    /\ calls \in Seq(CallSet) /\ Len(calls) <= MaxCalls
    /\ Sequence(executed) /\ Sequence(received)

\* What has been received, and is on its way, is what is left of the calls.
Stream(st) ==
    /\ Layout(socket_type, st, buff \o up, calls)
    /\ socket_type = "TCP" \/ up_end = "open" => Len(buff) + Len(up) <= st[Len(calls) + 1]
    /\ up_end = "open" => Len(buff) + Len(up) = st[Len(calls) + 1]
    /\ socket_type = "TCP" /\ up_end = "eof" /\ calls # <<>> =>
          st[Len(calls)] <= Len(buff) + Len(up)

\* The Command when its call has been read up to the i-th pack, and at the end.
Before(c, i) ==
    [op |-> c.op, packs |-> SubSeq(Packs[c.op], i, Len(Packs[c.op])),
     args |-> At(c, i - 1).values, cut |-> FALSE]
Whole(c) == [op |-> c.op, packs |-> <<>>, args |-> c.args, cut |-> FALSE]

\* The session reads what comes first in a command.
Between(st) ==
    /\ spc = IF socket_type = "WEBSOCK" THEN "ws_head" ELSE "header"
    /\ Len(buff) + need = IF socket_type = "WEBSOCK" THEN 6 ELSE 8
    /\ cmd = NoCommand
    /\ Current <= Len(calls) + 1 /\ st[Current] = 0

\* It reads a pack, or the length in front of it.
InPack(st, c, i) ==
    LET p == At(c, i - 1).position
    IN  /\ cmd = Before(c, i)
        /\ \/ /\ spc = "length" /\ HasLength(Packs[c.op][i])
              /\ st[Current] = 0 - (8 + p) /\ Len(buff) + need = 4
           \/ /\ spc = "pack"
              /\ st[Current] = 0 - (8 + p + Skip(c, i))
              /\ Len(buff) + need = At(c, i).position - (p + Skip(c, i))

\* It reads the rest of a frame.
InFrame(st, n) ==
    /\ st[Current] = 0 /\ cmd = NoCommand
    /\ \/ spc = "ws_ext" /\ ExtOf(n) # 0 /\ Len(buff) + need = 6 + ExtOf(n)
       \/ /\ spc = "ws_payload" /\ Len(buff) + need = 6 + ExtOf(n) + n
          /\ frame = [header_size |-> 6 + ExtOf(n), mask_offset |-> 2 + ExtOf(n), payload_size |-> n]

\* The command is complete.
Complete(st, c) ==
    /\ spc = "exec" /\ need = 0 /\ buff = <<>> /\ cmd = Whole(c)
    /\ st[Current + 1] = 0

Position(st) ==
    \/ Between(st)
    \/ /\ Current <= Len(calls)
       /\ \/ /\ socket_type = "TCP"
             /\ \E i \in 1..Len(Packs[calls[Current].op]) : InPack(st, calls[Current], i)
          \/ socket_type = "WEBSOCK" /\ InFrame(st, Len(TCPBytes(calls[Current])))
          \/ Complete(st, calls[Current])

RanAsCalled ==
    \A i \in DOMAIN executed :
        /\ i \in DOMAIN calls /\ executed[i].op = calls[i].op
        /\ executed[i].args = calls[i].args /\ ~executed[i].cut

\* The handshake request has not been read.
Handshake ==
    /\ spc = "http" /\ socket_type = "WEBSOCK" /\ cpc \in {"opening", "gone"}
    /\ calls = <<>> /\ executed = <<>> /\ buff = <<>> /\ Len(up) <= HttpLength
    /\ cmd = NoCommand

\* The arguments of a command of which the stream had i - 1 packs or less.
CutArgs(c, args, i) ==
    /\ Sequence(args) /\ Len(args) = Len(At(c, i - 1).values)
    /\ \E k \in 1..Len(args) :
          /\ Current = Len(calls) \/ args[k] = <<>>
          /\ \A j \in 1..(k - 1) : args[j] = c.args[j]
          /\ \A j \in k..Len(args) :
                \/ args[j] = Unknown
                \/ HasLength(<<Operations[c.op].args[j]>>) /\ args[j] = <<>>

InCutCall(c, i) ==
    /\ cmd = [op |-> c.op, packs |-> SubSeq(Packs[c.op], i, Len(Packs[c.op])), args |-> cmd.args, cut |-> TRUE]
    /\ CutArgs(c, cmd.args, i)
    /\ \/ i <= Len(Packs[c.op]) /\ spc = "length" /\ need > 0 /\ HasLength(Packs[c.op][i])
       \/ i <= Len(Packs[c.op]) /\ spc = "pack" /\ need > 0
       \/ i = Len(Packs[c.op]) + 1 /\ spc = "exec" /\ need = 0

\* The stream ended inside a call, and nothing follows.
CutShort ==
    /\ socket_type = "TCP" /\ up = <<>> /\ up_end = "eof" /\ buff = <<>>
    /\ \/ spc = "header" /\ need > 0 /\ cmd = NoCommand /\ ExecutedAsCalled
       \/ /\ RanAsCalled /\ Current <= Len(calls)
          /\ \E i \in 1..(Len(Packs[calls[Current].op]) + 1) : InCutCall(calls[Current], i)

Stopped ==
    /\ spc \in {"ended", "aborted"} /\ need = 0 /\ cmd = NoCommand
    /\ ExecutedAsCalled /\ SessionEndsForAReason

Uplink ==
    \/ Handshake
    \/ Stopped
    \/ CutShort
    \/ RanAsCalled /\ \E st : Stream(st) /\ Position(st)

HasResult(c) == Operations[c.op].ret # <<>>

Answered(d) == \E j \in DOMAIN received : received[j].call = d

Histories ==
    /\ \A i \in DOMAIN executed :
          /\ i \in DOMAIN calls /\ executed[i].op = calls[i].op
          /\ executed[i].ret \in Operations[executed[i].op].results
    /\ \A i \in DOMAIN received : received[i].call \in DOMAIN executed /\ i <= received[i].call
    /\ RepliesInOrder

\* The client waits for the answer of its last call.
Waiting ==
    LET L == Len(calls)
        e == executed[L]
        answer == Replies[e.op][e.ret]
    IN  /\ calls # <<>> /\ HasResult(calls[L])
        /\ \A j \in DOMAIN received : received[j].call < L
        /\ \A d \in 1..(L - 1) : HasResult(calls[d]) => Answered(d)
        /\ cpc = "length" =>
              socket_type = "TCP" /\ L <= Len(executed) /\ Dynamic(Operations[calls[L].op].ret)
        /\ IF Len(executed) < L
           THEN down = <<>> /\ rbuf = <<>> /\ rneed = C!FirstReceive(Operations[calls[L].op].ret)
           ELSE IF socket_type = "TCP"
           THEN /\ rbuf \o down = answer
                /\ Len(rbuf) + rneed = IF cpc = "length" THEN Len(answer)
                                       ELSE C!FirstReceive(Operations[calls[L].op].ret)
           ELSE down \in {<<>>, UnmaskedFrame(answer)}

Downlink ==
    /\ cpc = "gone" => down = <<>> /\ rneed = 0
    /\ cpc = "opening" =>
          /\ socket_type = "WEBSOCK" /\ calls = <<>> /\ executed = <<>> /\ received = <<>>
          /\ rneed = 0 /\ rbuf = <<>>
          /\ down = <<>> \/ (down = Accepted /\ spc = "ws_head")
    /\ cpc = "idle" =>
          /\ down = <<>> /\ rneed = 0 /\ rbuf = <<>>
          /\ \A d \in 1..Len(calls) : HasResult(calls[d]) => Answered(d)
    /\ cpc \in {"answer", "length"} => Waiting

Inv == Typing /\ Uplink /\ Histories /\ Downlink

-----------------------------------------------------------------------------
(* Facts about the parts of the invariant *)

LEMMA AppendToSequence ==
  ASSUME NEW s, NEW x, Sequence(s)
  PROVE  /\ Sequence(Append(s, x)) /\ Len(s) \in Nat /\ DOMAIN s = 1..Len(s)
         /\ Len(Append(s, x)) = Len(s) + 1 /\ DOMAIN Append(s, x) = 1..(Len(s) + 1)
         /\ Append(s, x)[Len(s) + 1] = x
         /\ \A i \in 1..Len(s) : Append(s, x)[i] = s[i]
<1>1. PICK R : s \in Seq(R)
  BY DEF Sequence
<1>2. PICK T : T = R \cup {x}
  OBVIOUS
<1>3. s \in Seq(T) /\ x \in T
  <2>1. R \subseteq T
    BY <1>2
  <2> QED
    BY <1>1, <1>2, <2>1, SeqMonotonic
<1>4. Append(s, x) \in Seq(T)
  BY <1>3
<1>5. Sequence(Append(s, x))
  BY <1>4 DEF Sequence
<1> QED
  BY <1>3, <1>5

\* The lengths are numbers, and every call is in CallSet.
LEMMA CurrentFacts ==
  ASSUME Typing
  PROVE  /\ Len(executed) \in Nat /\ Current \in Nat /\ Current >= 1 /\ Len(calls) \in Nat
         /\ DOMAIN executed = 1..Len(executed) /\ DOMAIN calls = 1..Len(calls)
         /\ Len(buff) \in Nat /\ Len(up) \in Nat
         /\ \A i \in 1..Len(calls) : calls[i] \in CallSet
<1>1. Len(executed) \in Nat /\ DOMAIN executed = 1..Len(executed)
  BY AppendToSequence DEF Typing
<1> QED
  BY <1>1, LenProperties, ElementOfSeq DEF Typing, Current

\* The bytes in buff are done with.
LEMMA Consumed ==
  ASSUME Typing, NEW st, Stream(st), buff' = <<>>, UNCHANGED <<socket_type, up, up_end, calls>>
  PROVE  \E su : /\ Stream(su)'
                 /\ \A i \in 1..(Len(calls) + 1) : su[i] = st[i] - Len(buff) /\ st[i] \in Int
<1> DEFINE L == Len(calls)
<1>0. PICK su : su = [i \in 1..(L + 1) |-> st[i] - Len(buff)]
  OBVIOUS
<1>1. /\ buff \in Seq(WireBytes) /\ up \in Seq(WireBytes) /\ Len(buff) \in Nat /\ Len(up) \in Nat
      /\ L \in Nat /\ socket_type \in {"TCP", "WEBSOCK"}
  BY CurrentFacts DEF Typing
<1>2. Layout(socket_type, st, buff \o up, calls)
  BY DEF Stream
<1>3. PICK w : w = buff \o up
  OBVIOUS
<1>4. Len(w) = Len(buff) + Len(up) /\ SubSeq(w, Len(buff) + 1, Len(w)) = up
  BY <1>1, <1>3, Concat, DropFirst, Zenon
<1>5. Len(buff) <= Len(w)
  BY <1>1, <1>4
<1>6. Layout(socket_type, su, up, calls)
  BY <1>1, <1>2, <1>0, <1>3, <1>4, <1>5, LayoutConsume, Zenon
<1>7. \A i \in 1..(L + 1) : su[i] = st[i] - Len(buff) /\ st[i] \in Int
  BY <1>0, <1>2 DEF Layout
<1>8. buff' \o up' = up /\ Len(buff') = 0
  BY <1>1
<1>9. L + 1 \in 1..(L + 1) /\ (calls # <<>> => L \in 1..(L + 1))
  BY <1>1 DEF Typing
<1>10. Stream(su)'
  <2>1. Layout(socket_type, su, buff' \o up', calls)
    BY <1>6, <1>8, Zenon
  <2>2. socket_type = "TCP" \/ up_end = "open" => Len(buff') + Len(up) <= su[L + 1]
    BY <1>1, <1>7, <1>8, <1>9 DEF Stream
  <2>3. up_end = "open" => Len(buff') + Len(up) = su[L + 1]
    BY <1>1, <1>7, <1>8, <1>9 DEF Stream
  <2>4. socket_type = "TCP" /\ up_end = "eof" /\ calls # <<>> => su[L] <= Len(buff') + Len(up)
    BY <1>1, <1>7, <1>8, <1>9 DEF Stream
  <2>5. socket_type' = socket_type /\ up' = up /\ up_end' = up_end /\ calls' = calls
    OBVIOUS
  <2> QED
    BY <2>1, <2>2, <2>3, <2>4, <2>5, Zenon DEF Stream
<1> QED
  BY <1>7, <1>10, Zenon

\* After NextCommand the session is between two calls.
LEMMA StartsOver ==
  ASSUME Typing, NextCommand, UNCHANGED <<socket_type, calls>>, NEW su, su[Current'] = 0,
         Current' <= Len(calls) + 1
  PROVE  Position(su)' /\ buff' = <<>> /\ need' \in Nat /\ cmd' = NoCommand
         /\ spc' \in {"header", "ws_head"}
<1>1. /\ buff' = <<>> /\ cmd' = NoCommand /\ need' = IF socket_type = "WEBSOCK" THEN 6 ELSE 8
      /\ spc' = IF socket_type = "WEBSOCK" THEN "ws_head" ELSE "header"
  BY DEF NextCommand, Loop, S!HEADER_SIZE
<1>2. Len(buff') + need' = need' /\ need' \in Nat
  <2>1. need' \in Nat /\ Len(<<>>) = 0
    BY <1>1
  <2> QED
    BY <1>1, <2>1
<1>3. Between(su)'
  BY <1>1, <1>2, Zenon DEF Between
<1> QED
  BY <1>1, <1>2, <1>3 DEF Position

\* The packs that are left.
LEMMA PacksLeft ==
  ASSUME NEW c \in CallSet, NEW i \in 1..Len(Packs[c.op])
  PROVE  LET P == Packs[c.op]
         IN  /\ SubSeq(P, i, Len(P)) # <<>> /\ Head(SubSeq(P, i, Len(P))) = P[i]
             /\ Tail(SubSeq(P, i, Len(P))) = SubSeq(P, i + 1, Len(P))
<1>1. PICK P, R : P = Packs[c.op] /\ P \in Seq(R)
  BY PackFacts
<1>2. i \in 1..Len(P) /\ Len(P) \in Nat
  BY <1>1, LenProperties
<1>3. /\ SubSeq(P, i, Len(P)) # <<>> /\ Head(SubSeq(P, i, Len(P))) = P[i]
      /\ Tail(SubSeq(P, i, Len(P))) = SubSeq(P, i + 1, Len(P))
  <2>1. PICK q : q = SubSeq(P, i, Len(P))
    OBVIOUS
  <2>2. q \in Seq(R) /\ Len(q) = Len(P) - i + 1 /\ \A j \in 1..(Len(P) - i + 1) : q[j] = P[i + j - 1]
    BY <1>1, <1>2, <2>1
  <2>3. PICK r : r = SubSeq(P, i + 1, Len(P))
    OBVIOUS
  <2>4. r \in Seq(R) /\ Len(r) = Len(P) - i /\ \A j \in 1..(Len(P) - i) : r[j] = P[(i + 1) + j - 1]
    BY <1>1, <1>2, <2>3
  <2>5. q # <<>> /\ q[1] = P[i] /\ Head(q) = q[1]
    BY <1>2, <2>2
  <2>6. PICK t : t = Tail(q)
    OBVIOUS
  <2>7. t \in Seq(R) /\ Len(t) = Len(q) - 1 /\ \A j \in 1..(Len(q) - 1) : t[j] = q[j + 1]
    BY <2>2, <2>5, <2>6
  <2>8. Len(t) = Len(r) /\ \A j \in 1..Len(t) : t[j] = r[j]
    BY <1>2, <2>2, <2>4, <2>7
  <2>9. t = r
    BY <2>4, <2>7, <2>8, SeqEqual
  <2> QED
    BY <2>1, <2>3, <2>5, <2>6, <2>9, Zenon
<1> QED
  BY <1>1, <1>3, Zenon

\* Each call starts where the one before ends.
LEMMA LayoutStarts ==
  ASSUME NEW t \in {"TCP", "WEBSOCK"}, NEW st, NEW w, NEW c, Layout(t, st, w, c), NEW i \in 1..Len(c)
  PROVE  /\ c[i] \in CallSet /\ Len(BytesOf(t, c[i])) \in Nat
         /\ st[i] \in Int /\ st[i + 1] = st[i] + Len(BytesOf(t, c[i])) /\ st[i + 1] \in Int
         /\ st[Len(c) + 1] \in Int /\ st[i + 1] <= st[Len(c) + 1]
         /\ st[Len(c)] \in Int /\ i # Len(c) => st[i + 1] <= st[Len(c)]
<1>1. Len(c) \in Nat /\ st \in [1..(Len(c) + 1) -> Int] /\ c[i] \in CallSet
  BY LenProperties, ElementOfSeq DEF Layout
<1>2. /\ i \in 1..(Len(c) + 1) /\ i + 1 \in 1..(Len(c) + 1) /\ Len(c) + 1 \in 1..(Len(c) + 1)
      /\ Len(c) \in 1..(Len(c) + 1) /\ (i # Len(c) => i + 1 \in 1..Len(c))
  BY <1>1
<1>3. st[i] \in Int /\ st[i + 1] \in Int /\ st[Len(c) + 1] \in Int /\ st[Len(c)] \in Int
  BY <1>1, <1>2
<1>4. /\ st[i + 1] = st[i] + Len(BytesOf(t, c[i])) /\ st[i + 1] <= st[Len(c) + 1]
      /\ i # Len(c) => st[i + 1] <= st[Len(c)]
  BY <1>2, Zenon DEF Layout
<1> QED
  BY <1>1, <1>3, <1>4, BytesFacts, Zenon

\* What Parse does when the i-th pack comes next.
LEMMA ParseCases ==
  ASSUME NEW c \in CallSet, NEW i \in 1..(Len(Packs[c.op]) + 1), NEW d,
         d.packs = SubSeq(Packs[c.op], i, Len(Packs[c.op])), Parse(d)
  PROVE  LET P == Packs[c.op]
         IN  /\ cmd' = d /\ buff' = <<>> /\ need' \in Nat /\ spc' \in {"exec", "length", "pack"}
             /\ i = Len(P) + 1 => spc' = "exec" /\ need' = 0
             /\ i <= Len(P) => /\ need' > 0
                               /\ IF HasLength(P[i]) THEN spc' = "length" /\ need' = 4
                                  ELSE spc' = "pack" /\ need' = At(c, i).position - At(c, i - 1).position
<1> DEFINE P == Packs[c.op]
<1>1. Len(P) \in Nat
  BY PackFacts
<1>2. CASE i = Len(P) + 1
  <2>1. d.packs = <<>>
    <3>1. SubSeq(P, i, Len(P)) = <<>>
      BY <1>1, <1>2, SubSeqEmpty
    <3> QED
      BY <3>1
  <2>2. cmd' = d /\ spc' = "exec" /\ need' = 0 /\ buff' = <<>>
    BY <2>1, Zenon DEF Parse, Loop
  <2> QED
    BY <1>1, <1>2, <2>2
<1>3. CASE i # Len(P) + 1
  <2>1. i \in 1..Len(P)
    BY <1>1, <1>3
  <2>2. d.packs # <<>> /\ Head(d.packs) = P[i]
    BY <2>1, PacksLeft, Zenon
  <2>3. cmd' = d /\ buff' = <<>>
        /\ IF HasLength(P[i]) THEN spc' = "length" /\ need' = 4 ELSE spc' = "pack" /\ need' = PackSize(P[i])
    BY <2>2, SizeOfLength, Zenon DEF Parse, Loop
  <2>4. ~HasLength(P[i]) => PackSize(P[i]) = At(c, i).position - At(c, i - 1).position
                            /\ At(c, i).position - At(c, i - 1).position \in Nat \ {0}
    BY <2>1, PackStep, Zenon
  <2>5. i <= Len(P) /\ i # Len(P) + 1
    BY <1>1, <2>1
  <2>6. CASE HasLength(P[i])
    <3>1. need' = 4 /\ spc' = "length"
      BY <2>3, <2>6, Zenon
    <3>2. 4 > 0 /\ 4 \in Nat
      OBVIOUS
    <3> QED
      BY <2>3, <2>5, <2>6, <3>1, <3>2, Zenon
  <2>7. CASE ~HasLength(P[i])
    <3>1. need' = At(c, i).position - At(c, i - 1).position /\ spc' = "pack" /\ need' \in Nat \ {0}
      BY <2>3, <2>4, <2>7, Zenon
    <3>2. need' > 0 /\ need' \in Nat
      BY <3>1
    <3> QED
      BY <2>3, <2>5, <2>7, <3>1, <3>2, Zenon
  <2> QED
    BY <2>6, <2>7, Zenon
<1> QED
  BY <1>2, <1>3, Zenon

\* The parser is in front of the i-th pack of the call c.
PackStarts(su, c, i) ==
    /\ socket_type = "TCP" /\ Current <= Len(calls) /\ c = calls[Current] /\ c \in CallSet
    /\ i \in 1..(Len(Packs[c.op]) + 1) /\ su[Current] = 0 - (8 + At(c, i - 1).position)
    /\ su[Current + 1] = su[Current] + Len(TCPBytes(c))

\* What Parse does after a pack that is complete: the next pack, or the end.
LEMMA ParseGoesOn ==
  ASSUME Typing, UNCHANGED <<socket_type, calls, executed>>,
         NEW su, NEW c, NEW i, PackStarts(su, c, i), Parse(Before(c, i))
  PROVE  /\ Position(su)' /\ buff' = <<>> /\ need' \in Nat /\ spc' \in {"exec", "length", "pack"}
         /\ cmd'.op \in DOMAIN Operations /\ cmd'.cut \in BOOLEAN
<1> USE DEF PackStarts
<1> DEFINE P == Packs[c.op]
<1>1. Len(P) \in Nat /\ Len(TCPBytes(c)) \in Nat
  BY PackFacts, TCPBytesFacts
<1>2. Before(c, i).packs = SubSeq(P, i, Len(P)) /\ Before(c, i).op = c.op /\ Before(c, i).cut = FALSE
  BY DEF Before
<1>3. /\ cmd' = Before(c, i) /\ buff' = <<>> /\ need' \in Nat /\ spc' \in {"exec", "length", "pack"}
      /\ i = Len(P) + 1 => spc' = "exec" /\ need' = 0
      /\ i <= Len(P) => IF HasLength(P[i]) THEN spc' = "length" /\ need' = 4
                        ELSE spc' = "pack" /\ need' = At(c, i).position - At(c, i - 1).position
  BY <1>2, ParseCases, Zenon
<1>4. cmd'.op \in DOMAIN Operations /\ cmd'.cut \in BOOLEAN
  BY <1>2, <1>3, CallFacts
<1>5. /\ socket_type' = "TCP" /\ Current' = Current /\ Current' <= Len(calls') /\ calls'[Current'] = c
      /\ Len(buff') = 0
  BY <1>3 DEF Current
<1>6. CASE i = Len(P) + 1
  <2>1. i - 1 = Len(P)
    BY <1>1, <1>6
  <2>2. At(c, i - 1) = [position |-> Len(TCPBytes(c)) - 8, values |-> c.args]
    BY <2>1, PackFacts, Zenon
  <2>3. At(c, i - 1).position = Len(TCPBytes(c)) - 8 /\ At(c, i - 1).values = c.args
    BY <2>2
  <2>4. SubSeq(P, i, Len(P)) = <<>>
    BY <1>1, <1>6, SubSeqEmpty
  <2>5. cmd' = Whole(c)
    BY <1>3, <2>3, <2>4, Zenon DEF Before, Whole
  <2>6. su[Current + 1] = 0
    <3>1. su[Current] = 0 - (8 + (Len(TCPBytes(c)) - 8)) /\ Len(TCPBytes(c)) \in Nat
      BY <1>1, <2>3
    <3> QED
      BY <3>1
  <2>7. Complete(su, c)'
    BY <1>3, <1>5, <1>6, <2>5, <2>6, Zenon DEF Complete
  <2> QED
    BY <1>3, <1>4, <1>5, <2>7, Zenon DEF Position
<1>7. CASE i # Len(P) + 1
  <2>1. i \in 1..Len(P) /\ i <= Len(P)
    BY <1>1, <1>7
  <2>2. /\ At(c, i - 1).position \in Nat /\ At(c, i).position \in Nat
        /\ ~HasLength(P[i]) => Skip(c, i) = 0
    BY <2>1, PackStep, Zenon
  <2>3. Len(buff') + need' = need'
    <3>1. PICK n \in Nat : n = need'
      BY <1>3, Zenon
    <3>2. Len(buff') = 0 /\ 0 + n = n
      BY <1>5
    <3> QED
      BY <3>1, <3>2, Zenon
  <2>4. CASE HasLength(P[i])
    <3>1. InPack(su, c, i)'
      BY <1>3, <1>5, <2>1, <2>3, <2>4, Zenon DEF InPack
    <3> QED
      BY <1>3, <1>4, <1>5, <2>1, <3>1, Zenon DEF Position
  <2>5. CASE ~HasLength(P[i])
    <3>1. /\ At(c, i - 1).position + Skip(c, i) = At(c, i - 1).position
          /\ 8 + At(c, i - 1).position + Skip(c, i) = 8 + At(c, i - 1).position
      BY <2>2, <2>5
    <3>2. /\ su[Current'] = 0 - (8 + At(c, i - 1).position + Skip(c, i))
          /\ Len(buff') + need' = At(c, i).position - (At(c, i - 1).position + Skip(c, i))
          /\ spc' = "pack"
      BY <1>3, <1>5, <2>1, <2>3, <2>5, <3>1, Zenon
    <3>3. InPack(su, c, i)'
      BY <1>3, <3>2, Zenon DEF InPack
    <3> QED
      BY <1>3, <1>4, <1>5, <2>1, <3>3, Zenon DEF Position
  <2> QED
    BY <2>4, <2>5, Zenon
<1> QED
  BY <1>6, <1>7, Zenon

\* What comes from the stream in front of a call is a part of the call.
LEMMA BytesRead ==
  ASSUME Typing, NEW st, Stream(st), Current <= Len(calls), NEW a \in Nat, NEW b \in Nat, a <= b,
         b <= Len(BytesOf(socket_type, calls[Current])), st[Current] = 0 - a, Len(buff) = b - a
  PROVE  buff = SubSeq(BytesOf(socket_type, calls[Current]), a + 1, b)
<1>1. Current \in 1..Len(calls)
  BY CurrentFacts
<1>2. buff \in Seq(WireBytes) /\ up \in Seq(WireBytes) /\ socket_type \in {"TCP", "WEBSOCK"}
  BY DEF Typing
<1>3. Layout(socket_type, st, buff \o up, calls)
  BY DEF Stream
<1>4. InFront(socket_type, st, buff, up, calls, Current, a, b)
  BY <1>1, <1>2, <1>3, Zenon DEF InFront
<1> QED
  BY ONLY <1>4, LayoutFront, SMT

\* One read() of a loop changes neither what there is nor what is expected.
LEMMA ReadKeeps ==
  ASSUME Typing, Uplink, Read, UNCHANGED <<frame, client_vars>>
  PROVE  Typing' /\ Uplink'
<1>1. PICK k \in 1..need : /\ k <= Len(up) /\ need > 0 /\ spc # "http"
                           /\ buff' = buff \o SubSeq(up, 1, k)
                           /\ up' = SubSeq(up, k + 1, Len(up)) /\ need' = need - k
  BY DEF Read
<1>2. /\ UNCHANGED <<socket_type, up_end, down, down_end, spc, cmd, executed, frame>>
      /\ UNCHANGED <<cpc, rneed, rbuf, calls, received>>
  BY DEF Read, client_vars
<1>3. /\ buff \in Seq(WireBytes) /\ up \in Seq(WireBytes) /\ k \in Nat /\ need \in Nat /\ need - k \in Nat
      /\ Len(buff) \in Nat /\ Len(up) \in Nat
  BY <1>1, CurrentFacts DEF Typing
<1>4. /\ buff' \in Seq(WireBytes) /\ up' \in Seq(WireBytes) /\ buff' \o up' = buff \o up
      /\ Len(buff') = Len(buff) + k /\ Len(up') = Len(up) - k
  BY <1>1, <1>3, ReadMoves, ZenonT(60)
<1>5. Len(buff') + Len(up') = Len(buff) + Len(up) /\ Len(buff') + need' = Len(buff) + need
  <2>1. need' = need - k /\ Len(buff') = Len(buff) + k /\ Len(up') = Len(up) - k
    BY <1>1, <1>4, Zenon
  <2> QED
    BY <1>3, <2>1
<1>6. Typing'
  <2>1. socket_type = "TCP" => up' \in Seq(0..(Radix - 1))
    <3> SUFFICES ASSUME up \in Seq(0..(Radix - 1)) PROVE up' \in Seq(0..(Radix - 1))
      BY DEF Typing
    <3>1. \A i \in (k + 1)..Len(up) : up[i] \in 0..(Radix - 1)
      <4>1. (k + 1)..Len(up) \subseteq 1..Len(up)
        BY <1>3
      <4> QED
        BY <4>1, ElementOfSeq
    <3>2. SubSeq(up, k + 1, Len(up)) \in Seq(0..(Radix - 1))
      BY <1>3, <3>1, SubSeqProperties
    <3> QED
      BY <1>1, <3>2, Zenon
  <2> QED
    BY <1>1, <1>2, <1>3, <1>4, <2>1 DEF Typing, Sequence
<1>7. PICK st : RanAsCalled /\ Stream(st) /\ Position(st)
  <2>1. ~(need = 0) /\ up # <<>>
    BY <1>1, <1>3
  <2>2. ~Stopped
    BY <2>1, Zenon DEF Stopped
  <2>3. ~CutShort
    BY <2>1, Zenon DEF CutShort
  <2>4. ~Handshake
    BY <1>1, Zenon DEF Handshake
  <2> QED
    BY <2>2, <2>3, <2>4, Zenon DEF Uplink
<1>8. Stream(st)'
  BY <1>2, <1>4, <1>5, <1>7, Zenon DEF Stream
<1>9. Position(st)'
  <2>1. Current' = Current
    BY <1>2 DEF Current
  <2>2. ~(need = 0)
    BY <1>1, <1>3
  <2> QED
    BY <1>2, <1>5, <1>7, <2>1, <2>2, Zenon DEF Position, Between, InPack, InFrame, Complete
<1>10. RanAsCalled'
  BY <1>2, <1>7, Zenon DEF RanAsCalled
<1> QED
  BY <1>6, <1>8, <1>9, <1>10, Zenon DEF Uplink

-----------------------------------------------------------------------------
(* The TCP session *)

\* A step of the session that does not read or write keeps the types.
LEMMA TypingStep ==
  ASSUME Typing, UNCHANGED <<socket_type, up, down, executed, client_vars>>,
         up_end' = up_end \/ (up_end # "open" /\ up_end' = "eof"), down_end' \in BOOLEAN,
         spc' \in {"http", "header", "length", "pack", "exec", "ws_head", "ws_ext",
                   "ws_payload", "ended", "aborted"},
         need' \in Nat, cmd'.op \in DOMAIN Operations \cup {"none"}, cmd'.cut \in BOOLEAN,
         buff' = <<>> \/ buff' = buff
  PROVE  Typing'
<1>1. /\ socket_type' = socket_type /\ up' = up /\ down' = down /\ executed' = executed
      /\ cpc' = cpc /\ rneed' = rneed /\ rbuf' = rbuf /\ calls' = calls /\ received' = received
  BY DEF client_vars
<1>2. buff' \in Seq(WireBytes)
  <2>1. <<>> \in Seq(WireBytes) /\ buff \in Seq(WireBytes)
    BY DEF Typing
  <2> QED
    BY <2>1, Zenon
<1>3. up_end' \in {"open", "eof", "reset"} /\ ((cpc' = "gone") <=> (up_end' # "open"))
  BY <1>1 DEF Typing
<1> QED
  BY <1>1, <1>2, <1>3, Zenon DEF Typing

LEMMA NoCommandType ==
  NoCommand.op \in DOMAIN Operations \cup {"none"} /\ NoCommand.cut \in BOOLEAN
  BY DEF NoCommand

\* RanAsCalled is the strong form of ExecutedAsCalled.
LEMMA RanIsExecuted ==
  ASSUME Typing, RanAsCalled
  PROVE  ExecutedAsCalled
  BY Zenon DEF RanAsCalled, ExecutedAsCalled

\* Wherever the session is, what has run is what was called.
LEMMA UplinkExecuted ==
  ASSUME Typing, Uplink
  PROVE  ExecutedAsCalled
<1>1. executed = <<>> => ExecutedAsCalled
  BY DEF ExecutedAsCalled
<1> QED
  BY <1>1, RanIsExecuted, Zenon DEF Uplink, Handshake, CutShort, Stopped

LEMMA ExecutedStays ==
  ASSUME ExecutedAsCalled, UNCHANGED <<socket_type, executed, calls>>,
         up_end' = up_end \/ up_end' # "open"
  PROVE  ExecutedAsCalled'
<1>1. socket_type' = socket_type /\ executed' = executed /\ calls' = calls /\ (up_end # "open" => up_end' # "open")
  OBVIOUS
<1> QED
  BY <1>1 DEF ExecutedAsCalled

\* run() returns after the client has left.
LEMMA EndsGone ==
  ASSUME Typing, Uplink, End, UNCHANGED <<socket_type, up, down, executed, client_vars>>,
         up_end # "open", up_end' = up_end \/ up_end' = "eof"
  PROVE  Typing' /\ Stopped'
<1>1. cmd' = NoCommand /\ spc' = "ended" /\ need' = 0 /\ buff' = <<>> /\ down_end' = TRUE /\ up_end' # "open"
  BY DEF End, Loop
<1>2. Typing'
  <2>1. need' \in Nat /\ down_end' \in BOOLEAN
    BY <1>1
  <2> QED
    BY <1>1, <2>1, NoCommandType, TypingStep, Zenon
<1>3. ExecutedAsCalled'
  <2>1. UNCHANGED <<socket_type, executed, calls>>
    BY DEF client_vars
  <2> QED
    BY <1>1, <2>1, UplinkExecuted, ExecutedStays, Zenon
<1>4. SessionEndsForAReason'
  BY <1>1 DEF SessionEndsForAReason
<1> QED
  BY <1>1, <1>2, <1>3, <1>4, Zenon DEF Stopped

\* read_command: the header names the operation of the current call.
LEMMA ReadHeaderKeeps ==
  ASSUME Typing, Uplink, ReadHeader, UNCHANGED <<frame, client_vars>>
  PROVE  Typing' /\ Uplink'
<1>1. /\ spc = "header" /\ need = 0 /\ Parse(OperationOf(buff))
      /\ UNCHANGED <<socket_type, up, up_end, down, down_end, executed>> /\ UNCHANGED client_vars
      /\ calls' = calls
  BY DEF ReadHeader, Reading, client_vars
<1>2. ~(need > 0)
  BY <1>1
<1>3. PICK st : RanAsCalled /\ Stream(st) /\ Position(st)
  BY <1>1, <1>2, Zenon DEF Uplink, Handshake, Stopped, CutShort, InCutCall
<1>4. Between(st)
  BY <1>1, <1>3, Zenon DEF Position, InPack, InFrame, Complete
<1>5. /\ socket_type = "TCP" /\ Len(buff) + need = 8 /\ Current <= Len(calls) + 1 /\ st[Current] = 0
  BY <1>1, <1>4 DEF Between, Typing
<1>6. Len(buff) = 8 /\ Len(buff) \in Nat /\ Len(up) \in Nat /\ Current \in Nat /\ Current >= 1 /\ Len(calls) \in Nat
  <2>1. Len(buff) \in Nat /\ Len(up) \in Nat /\ Current \in Nat /\ Current >= 1 /\ Len(calls) \in Nat
    BY CurrentFacts
  <2> QED
    BY <1>1, <1>5, <2>1
<1>7. Current <= Len(calls) /\ Current \in 1..Len(calls)
  <2>1. Len(buff) + Len(up) <= st[Len(calls) + 1]
    BY <1>3, <1>5, Zenon DEF Stream
  <2>2. Current # Len(calls) + 1
    BY <1>5, <1>6, <2>1
  <2> QED
    BY <1>5, <1>6, <2>2
<1>8. PICK c : c = calls[Current]
  OBVIOUS
<1>9. /\ c \in CallSet /\ BytesOf(socket_type, calls[Current]) = TCPBytes(c)
      /\ st[Current] \in Int /\ st[Current + 1] = st[Current] + Len(TCPBytes(c)) /\ st[Current + 1] \in Int
  <2>1. Layout(socket_type, st, buff \o up, calls) /\ socket_type \in {"TCP", "WEBSOCK"}
    BY <1>3, <1>5 DEF Stream
  <2>2. BytesOf(socket_type, calls[Current]) = TCPBytes(c)
    BY <1>5, <1>8 DEF BytesOf
  <2> QED
    BY <1>7, <1>8, <2>1, <2>2, LayoutStarts
<1>10. Len(TCPBytes(c)) \in Nat /\ 8 <= Len(TCPBytes(c))
  BY <1>9, TCPBytesFacts
<1>11. buff = SubSeq(TCPBytes(c), 1, 8)
  <2>1. 0 \in Nat /\ 8 \in Nat /\ 0 <= 8 /\ 0 = 0 - 0 /\ 8 = 8 - 0 /\ 0 + 1 = 1
    OBVIOUS
  <2>2. 8 <= Len(BytesOf(socket_type, calls[Current])) /\ st[Current] = 0 - 0 /\ Len(buff) = 8 - 0
    BY <1>5, <1>6, <1>9, <1>10, <2>1, Zenon
  <2>3. buff = SubSeq(BytesOf(socket_type, calls[Current]), 0 + 1, 8)
    BY <1>3, <1>7, <2>1, <2>2, BytesRead, Zenon
  <2> QED
    BY <1>9, <2>1, <2>3, Zenon
<1>12. OperationOf(buff) = Before(c, 1)
  <2>1. OperationOf(buff) = [op |-> c.op, packs |-> Packs[c.op], args |-> <<>>, cut |-> FALSE]
    BY <1>9, <1>11, PackFacts, Zenon
  <2>2. At(c, 0) = [position |-> 0, values |-> <<>>] /\ 1 - 1 = 0
    <3>1. At(c, 0) = [position |-> 0, values |-> <<>>]
      BY <1>9, PackFacts, Zenon
    <3> QED
      BY <3>1
  <2>3. At(c, 1 - 1).values = <<>>
    BY <2>2
  <2>4. SubSeq(Packs[c.op], 1, Len(Packs[c.op])) = Packs[c.op]
    BY <1>9, PackFacts, SubSeqFull
  <2> QED
    BY <2>1, <2>3, <2>4, Zenon DEF Before
<1>13. buff' = <<>>
  BY <1>1, <1>9, <1>12 DEF Parse, Loop
<1>14. PICK su : /\ Stream(su)'
                 /\ \A i \in 1..(Len(calls) + 1) : su[i] = st[i] - Len(buff) /\ st[i] \in Int
  BY <1>1, <1>3, <1>13, Consumed
<1>15. /\ su[Current + 1] = su[Current] + Len(TCPBytes(c))
       /\ su[Current] = 0 - (8 + At(c, 1 - 1).position)
  <2>1. Current \in 1..(Len(calls) + 1) /\ Current + 1 \in 1..(Len(calls) + 1)
    BY <1>6, <1>7
  <2>2. su[Current] = st[Current] - Len(buff) /\ su[Current + 1] = st[Current + 1] - Len(buff)
    BY <1>14, <2>1, Zenon
  <2>3. At(c, 0) = [position |-> 0, values |-> <<>>] /\ 1 - 1 = 0
    <3>1. At(c, 0) = [position |-> 0, values |-> <<>>]
      BY <1>9, PackFacts, Zenon
    <3> QED
      BY <3>1
  <2>4. At(c, 1 - 1).position = 0
    BY <2>3
  <2> QED
    BY <1>5, <1>6, <1>9, <1>10, <2>2, <2>4
<1>16. 1 \in 1..(Len(Packs[c.op]) + 1)
  BY <1>9, PackFacts
<1>17. Parse(Before(c, 1))
  BY <1>1, <1>12, Zenon
<1>18. /\ Position(su)' /\ need' \in Nat /\ spc' \in {"exec", "length", "pack"}
       /\ cmd'.op \in DOMAIN Operations /\ cmd'.cut \in BOOLEAN
  <2>1. UNCHANGED <<socket_type, calls, executed>>
    BY <1>1
  <2>2. PackStarts(su, c, 1)
    BY <1>5, <1>7, <1>8, <1>9, <1>15, <1>16, Zenon DEF PackStarts
  <2> QED
    BY <1>17, <2>1, <2>2, ParseGoesOn, Zenon
<1>19. Typing'
  <2>1. /\ down_end' \in BOOLEAN /\ up_end' = up_end
        /\ UNCHANGED <<socket_type, up, down, executed, client_vars>>
    BY <1>1 DEF Typing
  <2> QED
    BY <1>13, <1>18, <2>1, TypingStep, Zenon
<1>20. RanAsCalled'
  <2>1. executed' = executed /\ calls' = calls
    BY <1>1
  <2> QED
    BY <1>3, <2>1, Zenon DEF RanAsCalled
<1> QED
  BY <1>14, <1>18, <1>19, <1>20, Zenon DEF Uplink

\* The call that comes first, and where it begins and ends.
LEMMA CallInStream ==
  ASSUME Typing, NEW st, Stream(st), Current <= Len(calls)
  PROVE  LET c == calls[Current]
             n == Len(BytesOf(socket_type, c))
         IN  /\ c \in CallSet /\ Current \in 1..Len(calls) /\ n \in Nat
             /\ socket_type = "TCP" => BytesOf(socket_type, c) = TCPBytes(c)
             /\ st[Current] \in Int /\ st[Current + 1] \in Int /\ st[Current + 1] = st[Current] + n
             /\ st[Len(calls) + 1] \in Int /\ st[Current + 1] <= st[Len(calls) + 1]
             /\ st[Len(calls)] \in Int
             /\ Current # Len(calls) => st[Current + 1] <= st[Len(calls)]
<1>1. Current \in 1..Len(calls)
  BY CurrentFacts
<1>2. Layout(socket_type, st, buff \o up, calls) /\ socket_type \in {"TCP", "WEBSOCK"}
  BY DEF Stream, Typing
<1>3. socket_type = "TCP" => BytesOf(socket_type, calls[Current]) = TCPBytes(calls[Current])
  BY DEF BytesOf
<1> QED
  BY <1>1, <1>2, <1>3, LayoutStarts

LEMMA RanStays ==
  ASSUME RanAsCalled, executed' = executed, calls' = calls
  PROVE  RanAsCalled'
  BY Zenon DEF RanAsCalled

\* The session has read the bytes up to b of the call, from a on.
LEMMA PartRead ==
  ASSUME Typing, NEW st, Stream(st), socket_type = "TCP", Current <= Len(calls),
         NEW a \in Nat, NEW b \in Nat, a <= b, b <= Len(TCPBytes(calls[Current])),
         st[Current] = 0 - a, Len(buff) = b - a,
         buff' = <<>>, UNCHANGED <<socket_type, up, up_end, calls>>
  PROVE  /\ buff = SubSeq(TCPBytes(calls[Current]), a + 1, b)
         /\ \E su : Stream(su)' /\ su[Current] = 0 - b
                    /\ su[Current + 1] = su[Current] + Len(TCPBytes(calls[Current]))
<1>1. /\ BytesOf(socket_type, calls[Current]) = TCPBytes(calls[Current]) /\ Current \in 1..Len(calls)
      /\ Len(TCPBytes(calls[Current])) \in Nat
      /\ st[Current + 1] = st[Current] + Len(TCPBytes(calls[Current])) /\ st[Current + 1] \in Int
  BY CallInStream
<1>2. buff = SubSeq(BytesOf(socket_type, calls[Current]), a + 1, b)
  <2>1. b <= Len(BytesOf(socket_type, calls[Current]))
    BY <1>1
  <2> QED
    BY <2>1, BytesRead, Zenon
<1>3. PICK su : /\ Stream(su)'
                /\ \A i \in 1..(Len(calls) + 1) : su[i] = st[i] - Len(buff) /\ st[i] \in Int
  BY Consumed
<1>4. Current \in 1..(Len(calls) + 1) /\ Current + 1 \in 1..(Len(calls) + 1)
  BY <1>1, CurrentFacts
<1>5. su[Current] = st[Current] - Len(buff) /\ su[Current + 1] = st[Current + 1] - Len(buff)
  BY <1>3, <1>4, Zenon
<1>6. su[Current] = 0 - b /\ su[Current + 1] = su[Current] + Len(TCPBytes(calls[Current]))
  BY <1>1, <1>5
<1> QED
  BY <1>1, <1>2, <1>3, <1>6, Zenon

\* Where a session is that reads a pack, or the length of one, of a call.
LEMMA AtPack ==
  ASSUME Typing, Uplink, spc \in {"length", "pack"}
  PROVE  \/ CutShort
         \/ \E st : \E i \in 1..Len(Packs[calls[Current].op]) :
               /\ RanAsCalled /\ Stream(st) /\ socket_type = "TCP" /\ Current <= Len(calls)
               /\ InPack(st, calls[Current], i)
<1>1. /\ spc # "http" /\ spc # "ended" /\ spc # "aborted" /\ spc # "header" /\ spc # "exec"
      /\ spc # "ws_head" /\ spc # "ws_ext" /\ spc # "ws_payload"
  OBVIOUS
<1>2. CutShort \/ \E st : RanAsCalled /\ Stream(st) /\ Position(st)
  BY <1>1 DEF Uplink, Handshake, Stopped
<1> SUFFICES ASSUME NEW st, RanAsCalled, Stream(st), Position(st)
             PROVE  \E i \in 1..Len(Packs[calls[Current].op]) :
                       /\ RanAsCalled /\ Stream(st) /\ socket_type = "TCP" /\ Current <= Len(calls)
                       /\ InPack(st, calls[Current], i)
  BY <1>2, Zenon
<1>3. ~Between(st)
  BY <1>1, Zenon DEF Between
<1> QED
  BY <1>1, <1>3, Zenon DEF Position, InFrame, Complete

\* get_pack_length: the length is that of the container the client sent.
LEMMA ReadLengthKeeps ==
  ASSUME Typing, Uplink, ReadLength, UNCHANGED <<frame, client_vars>>
  PROVE  Typing' /\ Uplink'
<1>1. /\ spc = "length" /\ need = 0
      /\ LET size == size_of(ElementOf(Head(cmd.packs)[1]))
         IN  Loop("pack", (PackLength(buff) \div size) * size)
      /\ UNCHANGED <<socket_type, up, up_end, down, down_end, cmd, executed>> /\ UNCHANGED client_vars
      /\ calls' = calls
  BY DEF ReadLength, Reading, client_vars
<1>2. ~CutShort
  <2>1. ~(need > 0)
    BY <1>1
  <2> QED
    BY <1>1, <2>1, Zenon DEF CutShort, InCutCall
<1>3. PICK st : \E i \in 1..Len(Packs[calls[Current].op]) :
                   /\ RanAsCalled /\ Stream(st) /\ socket_type = "TCP" /\ Current <= Len(calls)
                   /\ InPack(st, calls[Current], i)
  BY <1>1, <1>2, AtPack, Zenon
<1>4. PICK c : c = calls[Current]
  OBVIOUS
<1>5. PICK i \in 1..Len(Packs[c.op]) :
                   /\ RanAsCalled /\ Stream(st) /\ socket_type = "TCP" /\ Current <= Len(calls)
                   /\ InPack(st, c, i)
  BY <1>3, <1>4, Zenon
<1>6. PICK p, q : p = At(c, i - 1).position /\ q = At(c, i).position
  OBVIOUS
<1>7. cmd = Before(c, i) /\ HasLength(Packs[c.op][i]) /\ st[Current] = 0 - (8 + p) /\ Len(buff) + need = 4
  BY <1>1, <1>5, <1>6, Zenon DEF InPack
<1>8. c \in CallSet
  BY <1>4, <1>5, CallInStream, Zenon
<1>9. PICK pack, size, B : pack = Packs[c.op][i] /\ size = size_of(ElementOf(pack[1])) /\ B = TCPBytes(c)
  OBVIOUS
<1>10. /\ p \in Nat /\ q \in Nat /\ 8 + q <= Len(B) /\ Skip(c, i) = 4 /\ p + Skip(c, i) <= q
       /\ (PackLength(SubSeq(B, 8 + p + 1, 8 + p + 4)) \div size) * size = q - p - 4
  BY <1>6, <1>7, <1>8, <1>9, PackStep, Zenon
<1>11. Len(buff) = 4
  <2>1. Len(buff) \in Nat
    BY CurrentFacts
  <2> QED
    BY <1>1, <1>7, <2>1
<1>12. Head(cmd.packs) = pack
  <2>1. cmd.packs = SubSeq(Packs[c.op], i, Len(Packs[c.op]))
    BY <1>7 DEF Before
  <2> QED
    BY <1>8, <1>9, <2>1, PacksLeft, Zenon
<1>13. buff' = <<>> /\ spc' = "pack" /\ need' = (PackLength(buff) \div size) * size
  BY <1>1, <1>9, <1>12, Zenon DEF Loop
<1>14. /\ buff = SubSeq(B, (8 + p) + 1, 8 + p + 4)
       /\ \E su : Stream(su)' /\ su[Current] = 0 - (8 + p + 4)
  <2>1. PICK a, b : a = 8 + p /\ b = 8 + p + 4
    OBVIOUS
  <2>2. Len(B) \in Nat
    BY <1>8, <1>9, TCPBytesFacts, Zenon
  <2>3. a \in Nat /\ b \in Nat /\ a <= b /\ b <= Len(B) /\ Len(buff) = b - a
    BY <1>10, <1>11, <2>1, <2>2
  <2>4. st[Current] = 0 - a /\ B = TCPBytes(calls[Current])
    BY <1>4, <1>7, <1>9, <2>1, Zenon
  <2>5. UNCHANGED <<socket_type, up, up_end, calls>>
    BY <1>1
  <2>6. /\ buff = SubSeq(B, a + 1, b)
        /\ \E su : Stream(su)' /\ su[Current] = 0 - b
    BY <1>5, <1>13, <2>3, <2>4, <2>5, PartRead, Zenon
  <2> QED
    BY <2>1, <2>6, Zenon
<1>15. PICK su : Stream(su)' /\ su[Current] = 0 - (8 + p + 4)
  BY <1>14
<1>16. need' = q - p - 4 /\ need' \in Nat /\ Len(buff') + need' = q - (p + Skip(c, i))
       /\ 8 + p + 4 = 8 + p + Skip(c, i)
  <2>1. (8 + p) + 1 = 8 + p + 1
    BY <1>10
  <2>2. need' = q - p - 4
    BY <1>10, <1>13, <1>14, <2>1, Zenon
  <2>3. Len(buff') = 0
    BY <1>13
  <2>4. q - p - 4 \in Nat /\ 0 + (q - p - 4) = q - (p + Skip(c, i)) /\ 8 + p + 4 = 8 + p + Skip(c, i)
    BY <1>10
  <2> QED
    BY <2>2, <2>3, <2>4, Zenon
<1>17. Position(su)'
  <2>1. /\ Current' = Current /\ cmd' = cmd /\ calls' = calls /\ socket_type' = socket_type
    BY <1>1 DEF Current
  <2>2. InPack(su, c, i)'
    BY <1>6, <1>7, <1>13, <1>15, <1>16, <2>1, Zenon DEF InPack
  <2> QED
    BY <1>4, <1>5, <2>1, <2>2, Zenon DEF Position
<1>18. Typing'
  <2>1. /\ down_end' \in BOOLEAN /\ up_end' = up_end /\ cmd' = cmd
        /\ UNCHANGED <<socket_type, up, down, executed, client_vars>>
        /\ cmd.op \in DOMAIN Operations \cup {"none"} /\ cmd.cut \in BOOLEAN
    BY <1>1 DEF Typing
  <2> QED
    BY <1>13, <1>16, <2>1, TypingStep, Zenon
<1>19. RanAsCalled'
  <2>1. executed' = executed
    BY <1>1
  <2> QED
    BY <1>1, <1>5, <2>1, RanStays, Zenon
<1> QED
  BY <1>15, <1>17, <1>18, <1>19, Zenon DEF Uplink

IsCommand(d, o, packs, args, cut) == d = [op |-> o, packs |-> packs, args |-> args, cut |-> cut]

LEMMA GotShape ==
  ASSUME NEW o, NEW x, NEW y, NEW b, NEW v, IsCommand(cmd, o, x, y, b)
  PROVE  /\ IsCommand(Got(v), o, Tail(x), y \o v, b)
         /\ IsCommand(GotCut(v), o, Tail(x), y \o v, TRUE)
<1>1. PICK t, a : t = Tail(x) /\ a = y \o v
  OBVIOUS
<1>2. cmd.packs = x /\ cmd.args = y
  BY DEF IsCommand
<1>3. Got(v) = [cmd EXCEPT !.packs = t, !.args = a]
  BY <1>1, <1>2, Zenon DEF Got
<1>4. Got(v) = [op |-> o, packs |-> t, args |-> a, cut |-> b]
  BY <1>3 DEF IsCommand
<1>5. GotCut(v) = [op |-> o, packs |-> t, args |-> a, cut |-> TRUE]
  <2>1. PICK g, z : g = Got(v) /\ z = TRUE
    OBVIOUS
  <2>2. GotCut(v) = [g EXCEPT !.cut = z]
    BY <2>1, Zenon DEF GotCut
  <2>3. g = [op |-> o, packs |-> t, args |-> a, cut |-> b]
    BY <1>4, <2>1, Zenon
  <2>4. [g EXCEPT !.cut = z] = [op |-> o, packs |-> t, args |-> a, cut |-> z]
    BY ONLY <2>3
  <2> QED
    BY <2>1, <2>2, <2>4, Zenon
<1> QED
  BY <1>1, <1>4, <1>5, Zenon DEF IsCommand

\* deserialize and recv: the pack has the values the client sent.
LEMMA ReadPackKeeps ==
  ASSUME Typing, Uplink, ReadPack, UNCHANGED <<frame, client_vars>>
  PROVE  Typing' /\ Uplink'
<1>1. /\ spc = "pack" /\ need = 0 /\ Parse(Got(PackValues(Head(cmd.packs), buff)))
      /\ UNCHANGED <<socket_type, up, up_end, down, down_end, executed>> /\ UNCHANGED client_vars
      /\ calls' = calls
  BY DEF ReadPack, Reading, client_vars
<1>2. ~CutShort
  <2>1. ~(need > 0)
    BY <1>1
  <2> QED
    BY <1>1, <2>1, Zenon DEF CutShort, InCutCall
<1>3. PICK st : \E i \in 1..Len(Packs[calls[Current].op]) :
                   /\ RanAsCalled /\ Stream(st) /\ socket_type = "TCP" /\ Current <= Len(calls)
                   /\ InPack(st, calls[Current], i)
  BY <1>1, <1>2, AtPack, Zenon
<1>4. PICK c : c = calls[Current]
  OBVIOUS
<1>5. PICK i \in 1..Len(Packs[c.op]) :
                   /\ RanAsCalled /\ Stream(st) /\ socket_type = "TCP" /\ Current <= Len(calls)
                   /\ InPack(st, c, i)
  BY <1>3, <1>4, Zenon
<1>6. PICK p, q, s : p = At(c, i - 1).position /\ q = At(c, i).position /\ s = Skip(c, i)
  OBVIOUS
<1>7. cmd = Before(c, i) /\ st[Current] = 0 - (8 + p + s) /\ Len(buff) + need = q - (p + s)
  BY <1>1, <1>5, <1>6, Zenon DEF InPack
<1>8. c \in CallSet
  BY <1>4, <1>5, CallInStream, Zenon
<1>9. PICK pack, B : pack = Packs[c.op][i] /\ B = TCPBytes(c)
  OBVIOUS
<1>10. /\ p \in Nat /\ q \in Nat /\ 8 + q <= Len(B) /\ s \in {0, 4} /\ p + s <= q
       /\ At(c, i).values = At(c, i - 1).values \o PackValues(pack, SubSeq(B, 8 + p + s + 1, 8 + q))
  BY <1>6, <1>8, <1>9, PackStep, Zenon
<1>11. Len(buff) = q - (p + s)
  <2>1. Len(buff) \in Nat
    BY CurrentFacts
  <2> QED
    BY <1>1, <1>7, <1>10, <2>1
<1>12. buff' = <<>>
  BY <1>1, Zenon DEF Parse, Loop
<1>13. PICK su : /\ buff = SubSeq(B, 8 + p + s + 1, 8 + q)
                 /\ Stream(su)' /\ su[Current] = 0 - (8 + q) /\ su[Current + 1] = su[Current] + Len(B)
  <2>1. PICK a, b : a = 8 + p + s /\ b = 8 + q
    OBVIOUS
  <2>2. Len(B) \in Nat
    BY <1>8, <1>9, TCPBytesFacts, Zenon
  <2>3. a \in Nat /\ b \in Nat /\ a <= b /\ b <= Len(B) /\ Len(buff) = b - a /\ a + 1 = 8 + p + s + 1
    BY <1>10, <1>11, <2>1, <2>2
  <2>4. st[Current] = 0 - a /\ B = TCPBytes(calls[Current])
    BY <1>4, <1>7, <1>9, <2>1, Zenon
  <2>5. UNCHANGED <<socket_type, up, up_end, calls>>
    BY <1>1
  <2>6. /\ buff = SubSeq(B, a + 1, b)
        /\ \E su : Stream(su)' /\ su[Current] = 0 - b /\ su[Current + 1] = su[Current] + Len(B)
    BY <1>5, <1>12, <2>3, <2>4, <2>5, PartRead, Zenon
  <2> QED
    BY <2>1, <2>3, <2>6, Zenon
<1>14. Got(PackValues(Head(cmd.packs), buff)) = Before(c, i + 1)
  <2>1. /\ cmd.packs = SubSeq(Packs[c.op], i, Len(Packs[c.op])) /\ cmd.args = At(c, i - 1).values
        /\ cmd.op = c.op /\ cmd.cut = FALSE
    BY <1>7 DEF Before
  <2>2. Head(cmd.packs) = pack /\ Tail(cmd.packs) = SubSeq(Packs[c.op], i + 1, Len(Packs[c.op]))
    BY <1>8, <1>9, <2>1, PacksLeft, Zenon
  <2>3. PICK v, w : v = PackValues(Head(cmd.packs), buff) /\ w = cmd.args \o v
    OBVIOUS
  <2>4. w = At(c, i).values
    BY <1>10, <1>13, <2>1, <2>2, <2>3, Zenon
  <2>5. Got(v) = [op |-> c.op, packs |-> Tail(cmd.packs), args |-> w, cut |-> FALSE]
    <3>1. PICK o, x, y, b : o = c.op /\ x = cmd.packs /\ y = cmd.args /\ b = FALSE
      OBVIOUS
    <3>2. IsCommand(cmd, o, x, y, b)
      BY <1>7, <2>1, <3>1, Zenon DEF Before, IsCommand
    <3>3. IsCommand(Got(v), o, Tail(x), y \o v, b)
      BY <3>2, GotShape, Zenon
    <3> QED
      BY <2>3, <3>1, <3>3, Zenon DEF IsCommand
  <2>6. (i + 1) - 1 = i
    OBVIOUS
  <2> QED
    BY <2>2, <2>3, <2>4, <2>5, <2>6, Zenon DEF Before
<1>15. PackStarts(su, c, i + 1)
  <2>1. Len(Packs[c.op]) \in Nat
    BY <1>8, PackFacts, Zenon
  <2>2. i + 1 \in 1..(Len(Packs[c.op]) + 1) /\ (i + 1) - 1 = i
    BY <2>1
  <2> QED
    BY <1>4, <1>5, <1>6, <1>8, <1>9, <1>13, <2>2, Zenon DEF PackStarts
<1>16. /\ Position(su)' /\ need' \in Nat /\ spc' \in {"exec", "length", "pack"}
       /\ cmd'.op \in DOMAIN Operations /\ cmd'.cut \in BOOLEAN
  <2>1. UNCHANGED <<socket_type, calls, executed>> /\ Parse(Before(c, i + 1))
    BY <1>1, <1>14
  <2> QED
    BY <1>15, <2>1, ParseGoesOn, Zenon
<1>17. Typing'
  <2>1. /\ down_end' \in BOOLEAN /\ up_end' = up_end
        /\ UNCHANGED <<socket_type, up, down, executed, client_vars>>
    BY <1>1 DEF Typing
  <2> QED
    BY <1>12, <1>16, <2>1, TypingStep, Zenon
<1>18. RanAsCalled'
  <2>1. executed' = executed
    BY <1>1
  <2> QED
    BY <1>1, <1>5, <2>1, RanStays, Zenon
<1> QED
  BY <1>13, <1>16, <1>17, <1>18, Zenon DEF Uplink

-----------------------------------------------------------------------------
(* The stream ends inside a call *)

LEMMA ConcatAny ==
  ASSUME NEW s, NEW t, Sequence(s), Sequence(t)
  PROVE  /\ Sequence(s \o t) /\ Len(s) \in Nat /\ Len(t) \in Nat /\ Len(s \o t) = Len(s) + Len(t)
         /\ \A i \in 1..Len(s) : (s \o t)[i] = s[i]
         /\ \A i \in 1..Len(t) : (s \o t)[Len(s) + i] = t[i]
<1>1. PICK R : s \in Seq(R)
  BY DEF Sequence
<1>2. PICK Q : t \in Seq(Q)
  BY DEF Sequence
<1>3. PICK T : T = R \cup Q
  OBVIOUS
<1>4. R \subseteq T /\ Q \subseteq T
  BY <1>3
<1>5. s \in Seq(T) /\ t \in Seq(T)
  BY <1>1, <1>2, <1>4, SeqMonotonic
<1>6. PICK u : u = s \o t
  OBVIOUS
<1>7. /\ u \in Seq(T) /\ Len(u) = Len(s) + Len(t) /\ Len(s) \in Nat /\ Len(t) \in Nat
      /\ \A i \in 1 .. Len(s) + Len(t) : u[i] = IF i <= Len(s) THEN s[i] ELSE t[i - Len(s)]
  BY <1>5, <1>6, ConcatProperties, LenProperties, Zenon
<1>8. \A i \in 1..Len(s) : u[i] = s[i]
  BY <1>7
<1>9. \A i \in 1..Len(t) : u[Len(s) + i] = t[i]
  <2> TAKE i \in 1..Len(t)
  <2>1. Len(s) + i \in 1..(Len(s) + Len(t)) /\ ~(Len(s) + i <= Len(s)) /\ (Len(s) + i) - Len(s) = i
    BY <1>7
  <2> QED
    BY <1>7, <2>1
<1> QED
  BY <1>6, <1>7, <1>8, <1>9, Zenon DEF Sequence

LEMMA ArgsFacts ==
  ASSUME NEW c \in CallSet
  PROVE  /\ Sequence(c.args) /\ Len(c.args) \in Nat /\ DOMAIN c.args = 1..Len(c.args)
         /\ Len(c.args) = Len(Operations[c.op].args)
<1>1. PICK types, R, a : types = Operations[c.op].args /\ types \in Seq(R) /\ a = c.args
  BY PackFacts
<1>2. a = [i \in 1..Len(types) |-> a[i]]
  BY <1>1, PackFacts, Zenon
<1>3. Len(types) \in Nat
  BY <1>1, LenProperties
<1>4. PICK Q : Q = {a[i] : i \in 1..Len(types)}
  OBVIOUS
<1>5. a \in Seq(Q) /\ Len(a) = Len(types) /\ DOMAIN a = 1..Len(a)
  BY <1>2, <1>3, <1>4
<1> QED
  BY <1>1, <1>3, <1>5, Zenon DEF Sequence

LEMMA ValuesFacts ==
  ASSUME NEW c \in CallSet, NEW i \in 0..Len(Packs[c.op])
  PROVE  /\ Sequence(At(c, i).values) /\ Len(At(c, i).values) \in Nat
         /\ Len(At(c, i).values) <= Len(c.args)
         /\ \A j \in 1..Len(At(c, i).values) : At(c, i).values[j] = c.args[j]
<1>1. PICK a, v : a = c.args /\ v = At(c, i).values
  OBVIOUS
<1>2. Len(v) \in Nat /\ Len(v) <= Len(a) /\ v = SubSeq(a, 1, Len(v))
  BY <1>1, PackPositions, Zenon
<1>3. PICK R : a \in Seq(R)
  BY <1>1, ArgsFacts DEF Sequence
<1>4. SubSeq(a, 1, Len(v)) \in Seq(R) /\ \A j \in 1..Len(v) : SubSeq(a, 1, Len(v))[j] = a[j]
  BY <1>2, <1>3
<1>5. v \in Seq(R) /\ \A j \in 1..Len(v) : v[j] = a[j]
  BY <1>2, <1>4, Zenon
<1> QED
  BY <1>1, <1>2, <1>5, Zenon DEF Sequence

\* The arguments of the i-th pack.
LEMMA PackTypes ==
  ASSUME NEW c \in CallSet, NEW i \in 1..Len(Packs[c.op])
  PROVE  LET k == Len(At(c, i - 1).values)
             n == Len(At(c, i).values)
             pack == Packs[c.op][i]
             types == Operations[c.op].args
         IN  /\ k \in Nat /\ n \in Nat /\ k < n /\ n <= Len(types) /\ Len(types) \in Nat
             /\ DOMAIN pack = 1..(n - k) /\ Len(pack) = n - k
             /\ HasLength(pack) => n = k + 1 /\ HasLength(<<types[k + 1]>>)
<1>1. PICK k, n, pack, types : /\ k = Len(At(c, i - 1).values) /\ n = Len(At(c, i).values)
                               /\ pack = Packs[c.op][i] /\ types = Operations[c.op].args
  OBVIOUS
<1>2. Len(Packs[c.op]) \in Nat
  BY PackFacts, Zenon
<1>3. i - 1 \in 0..Len(Packs[c.op]) /\ i \in 0..Len(Packs[c.op])
  BY <1>2
<1>4. k \in Nat /\ n \in Nat /\ n <= Len(types) /\ Len(types) \in Nat
  BY <1>1, <1>3, ValuesFacts, ArgsFacts
<1>5. k < n /\ pack = SubSeq(types, k + 1, n) /\ types \in Seq(Range(types)) /\ (HasLength(pack) => n = k + 1)
  BY <1>1, PackFacts, Zenon
<1>6. DOMAIN pack = 1..(n - k) /\ Len(pack) = n - k /\ pack[1] = types[k + 1]
  <2>1. PICK R : types \in Seq(R)
    BY <1>5
  <2>2. PICK q : q = SubSeq(types, k + 1, n)
    OBVIOUS
  <2>3. q \in Seq(R) /\ Len(q) = n - k /\ q[1] = types[k + 1]
    BY <1>4, <1>5, <2>1, <2>2
  <2> QED
    BY <1>4, <1>5, <2>2, <2>3
<1>7. HasLength(pack) => HasLength(<<types[k + 1]>>)
  BY <1>6 DEF HasLength
<1> QED
  BY <1>1, <1>4, <1>5, <1>6, <1>7, Zenon

\* What is not known of the i-th pack: v stands for it.
Missing(c, i, v) ==
    /\ Sequence(v) /\ Len(v) = Len(Packs[c.op][i])
    /\ \A j \in 1..Len(v) : v[j] = Unknown \/ (HasLength(Packs[c.op][i]) /\ v[j] = <<>>)

\* One more pack of a command that is cut.
LEMMA CutMore ==
  ASSUME Typing, NEW c \in CallSet, NEW i \in 1..Len(Packs[c.op]), NEW args, NEW v, Missing(c, i, v),
         \/ args = At(c, i - 1).values /\ (Current = Len(calls) \/ v[1] = <<>>)
         \/ CutArgs(c, args, i)
  PROVE  CutArgs(c, args \o v, i + 1)
<1>1. PICK k, n, pack, types : /\ k = Len(At(c, i - 1).values) /\ n = Len(At(c, i).values)
                               /\ pack = Packs[c.op][i] /\ types = Operations[c.op].args
  OBVIOUS
<1>2. /\ k \in Nat /\ n \in Nat /\ k < n /\ Len(pack) = n - k
      /\ HasLength(pack) => n = k + 1 /\ HasLength(<<types[k + 1]>>)
  BY <1>1, PackTypes, Zenon
<1>3. i - 1 \in 0..Len(Packs[c.op]) /\ (i + 1) - 1 = i
  <2>1. Len(Packs[c.op]) \in Nat
    BY PackFacts, Zenon
  <2> QED
    BY <2>1
<1>4. Sequence(args) /\ Len(args) = k
  BY <1>1, <1>3, ValuesFacts, Zenon DEF CutArgs
<1>5. /\ Sequence(v) /\ Len(v) = n - k
      /\ \A j \in 1..(n - k) : v[j] = Unknown \/ (HasLength(pack) /\ v[j] = <<>>)
  BY <1>1, <1>2, Zenon DEF Missing
<1>6. PICK u : u = args \o v
  OBVIOUS
<1>7. /\ Sequence(u) /\ Len(u) = k + (n - k) /\ \A j \in 1..k : u[j] = args[j]
      /\ \A j \in 1..(n - k) : u[k + j] = v[j]
  <2>1. /\ Sequence(u) /\ Len(u) = Len(args) + Len(v) /\ \A j \in 1..Len(args) : u[j] = args[j]
        /\ \A j \in 1..Len(v) : u[Len(args) + j] = v[j]
    <3>1. Sequence(args) /\ Sequence(v)
      BY <1>4, <1>5, Zenon
    <3> QED
      BY ONLY <1>6, <3>1, ConcatAny, SMT
  <2> QED
    BY <1>4, <1>5, <2>1
<1>8. Len(u) = n
  BY <1>2, <1>7
<1>9. \A j \in (k + 1)..n : u[j] = Unknown \/ (HasLength(<<types[j]>>) /\ u[j] = <<>>)
  <2> TAKE j \in (k + 1)..n
  <2>1. j - k \in 1..(n - k) /\ k + (j - k) = j /\ (n = k + 1 => j = k + 1)
    BY <1>2
  <2>2. u[j] = v[j - k] /\ (v[j - k] = Unknown \/ (HasLength(pack) /\ v[j - k] = <<>>))
    BY <1>5, <1>7, <2>1, Zenon
  <2> QED
    BY <1>2, <2>1, <2>2, Zenon
<1> DEFINE Good(m) == /\ Current = Len(calls) \/ u[m] = <<>>
                      /\ \A j \in 1..(m - 1) : u[j] = c.args[j]
                      /\ \A j \in m..n : u[j] = Unknown \/ (HasLength(<<types[j]>>) /\ u[j] = <<>>)
<1>10. \E m \in 1..n : Good(m)
  <2>1. CASE args = At(c, i - 1).values /\ (Current = Len(calls) \/ v[1] = <<>>)
    <3>1. k + 1 \in 1..n /\ 1 \in 1..(n - k) /\ (k + 1) - 1 = k
      BY <1>2
    <3>2. \A j \in 1..k : u[j] = c.args[j]
      BY <1>1, <1>3, <1>7, <2>1, ValuesFacts, Zenon
    <3>3. Good(k + 1)
      BY <1>7, <1>9, <2>1, <3>1, <3>2, Zenon
    <3> QED
      BY <3>1, <3>3, Zenon
  <2>2. CASE CutArgs(c, args, i)
    <3>1. PICK m \in 1..k :
             /\ Current = Len(calls) \/ args[m] = <<>>
             /\ \A j \in 1..(m - 1) : args[j] = c.args[j]
             /\ \A j \in m..k : args[j] = Unknown \/ (HasLength(<<types[j]>>) /\ args[j] = <<>>)
      BY <1>1, <1>4, <2>2, Zenon DEF CutArgs
    <3>2. /\ m \in 1..n /\ \A j \in 1..(m - 1) : j \in 1..k
          /\ \A j \in m..n : j \in (k + 1)..n \/ (j \in m..k /\ j \in 1..k)
      BY <1>2
    <3>3. Good(m)
      BY <1>7, <1>9, <3>1, <3>2, Zenon
    <3> QED
      BY <3>2, <3>3, Zenon
  <2> QED
    BY <2>1, <2>2, Zenon
<1> QED
  BY <1>1, <1>3, <1>6, <1>7, <1>8, <1>10, Zenon DEF CutArgs

\* The stream has ended while the session reads the i-th pack of the call c.
Interrupted(c, i) ==
    LET P == Packs[c.op]
    IN  /\ RanAsCalled /\ socket_type = "TCP" /\ Current <= Len(calls) /\ c = calls[Current] /\ c \in CallSet
        /\ i \in 1..Len(P) /\ IsCommand(cmd, c.op, SubSeq(P, i, Len(P)), cmd.args, cmd.cut)
        /\ spc = "length" => HasLength(P[i])
        /\ \/ cmd.args = At(c, i - 1).values /\ (up_end = "eof" => Current = Len(calls))
           \/ CutArgs(c, cmd.args, i)

\* A client that leaves has sent all of its calls but the last.
LEMMA OnlyTheLast ==
  ASSUME Typing, NEW st, Stream(st), socket_type = "TCP", Current <= Len(calls), up_end = "eof",
         up = <<>>, Len(buff) < st[Current + 1]
  PROVE  Current = Len(calls)
<1>1. /\ st[Current + 1] \in Int /\ st[Len(calls)] \in Int /\ Current \in 1..Len(calls)
      /\ Current # Len(calls) => st[Current + 1] <= st[Len(calls)]
  BY CallInStream, Zenon
<1>2. calls # <<>> /\ Len(buff) \in Nat /\ Len(up) = 0
  <2>1. Len(calls) \in Nat /\ Len(buff) \in Nat
    BY CurrentFacts
  <2> QED
    BY <1>1, <2>1
<1>3. st[Len(calls)] <= Len(buff) + Len(up)
  BY <1>2, Zenon DEF Stream
<1> QED
  BY <1>1, <1>2, <1>3

\* Where the session is when the stream ends inside a pack or a length.
LEMMA InterruptedPack ==
  ASSUME Typing, Uplink, spc \in {"length", "pack"}, up = <<>>, need > 0
  PROVE  \E c : \E i : Interrupted(c, i)
<1>1. CASE CutShort
  <2>1. spc # "header" /\ spc # "exec"
    OBVIOUS
  <2>2. PICK c : c = calls[Current]
    OBVIOUS
  <2>3. PICK i \in 1..(Len(Packs[c.op]) + 1) :
           /\ InCutCall(c, i) /\ RanAsCalled /\ socket_type = "TCP" /\ Current <= Len(calls)
    BY <1>1, <2>1, <2>2, Zenon DEF CutShort
  <2>4. c \in CallSet
    BY <2>2, <2>3, CurrentFacts
  <2>5. /\ CutArgs(c, cmd.args, i) /\ i <= Len(Packs[c.op]) /\ (spc = "length" => HasLength(Packs[c.op][i]))
        /\ cmd = [op |-> c.op, packs |-> SubSeq(Packs[c.op], i, Len(Packs[c.op])), args |-> cmd.args, cut |-> TRUE]
    <3>1. ~(spc = "length" /\ spc = "pack")
      OBVIOUS
    <3> QED
      BY <2>1, <2>3, <3>1, Zenon DEF InCutCall
  <2>6. i \in 1..Len(Packs[c.op])
    <3>1. Len(Packs[c.op]) \in Nat
      BY <2>4, PackFacts, Zenon
    <3> QED
      BY <2>5, <3>1
  <2>7. cmd.cut = TRUE
    <3>1. PICK o, x, y, z : cmd = [op |-> o, packs |-> x, args |-> y, cut |-> z] /\ z = TRUE
      BY <2>5
    <3>2. cmd.cut = z
      BY <3>1
    <3> QED
      BY <3>1, <3>2, Zenon
  <2>8. IsCommand(cmd, c.op, SubSeq(Packs[c.op], i, Len(Packs[c.op])), cmd.args, cmd.cut)
    BY <2>5, <2>7, Zenon DEF IsCommand
  <2>9. Interrupted(c, i)
    BY <2>2, <2>3, <2>4, <2>5, <2>6, <2>8, Zenon DEF Interrupted
  <2> QED
    BY <2>9, Zenon
<1>2. CASE ~CutShort
  <2>1. PICK st : \E i \in 1..Len(Packs[calls[Current].op]) :
                   /\ RanAsCalled /\ Stream(st) /\ socket_type = "TCP" /\ Current <= Len(calls)
                   /\ InPack(st, calls[Current], i)
    BY <1>2, AtPack, Zenon
  <2>2. PICK c : c = calls[Current]
    OBVIOUS
  <2>3. PICK i \in 1..Len(Packs[c.op]) :
                   /\ RanAsCalled /\ Stream(st) /\ socket_type = "TCP" /\ Current <= Len(calls)
                   /\ InPack(st, c, i)
    BY <2>1, <2>2, Zenon
  <2>4. /\ c \in CallSet /\ st[Current] \in Int /\ st[Current + 1] = st[Current] + Len(TCPBytes(c))
    BY <2>2, <2>3, CallInStream, Zenon
  <2>5. PICK p, q, s : p = At(c, i - 1).position /\ q = At(c, i).position /\ s = Skip(c, i)
    OBVIOUS
  <2>6. /\ p \in Nat /\ q \in Nat /\ 8 + q <= Len(TCPBytes(c)) /\ s \in {0, 4} /\ p + s <= q
        /\ HasLength(Packs[c.op][i]) => s = 4
    BY <2>4, <2>5, PackStep, Zenon
  <2>7. Len(TCPBytes(c)) \in Nat /\ need \in Nat /\ Len(buff) \in Nat
    BY <2>4, TCPBytesFacts, CurrentFacts DEF Typing
  <2>8. Len(buff) < st[Current + 1]
    <3>1. CASE spc = "length"
      <4>1. HasLength(Packs[c.op][i]) /\ st[Current] = 0 - (8 + p) /\ Len(buff) + need = 4
        BY <2>3, <2>5, <3>1, Zenon DEF InPack
      <4>2. p + 4 <= q
        BY <2>6, <4>1
      <4>3. st[Current + 1] >= 4
        BY <2>4, <2>6, <2>7, <4>1, <4>2
      <4>4. Len(buff) < 4
        BY <2>7, <4>1
      <4> QED
        BY <2>4, <2>7, <4>3, <4>4
    <3>2. CASE spc # "length"
      <4>1. st[Current] = 0 - (8 + p + s) /\ Len(buff) + need = q - (p + s)
        BY <2>3, <2>5, <3>2, Zenon DEF InPack
      <4>2. s \in Nat
        BY <2>6
      <4>3. st[Current + 1] >= q - (p + s)
        BY <2>4, <2>6, <2>7, <4>1, <4>2
      <4>4. Len(buff) < q - (p + s)
        BY <2>6, <2>7, <4>1, <4>2
      <4> QED
        BY <2>4, <2>6, <2>7, <4>2, <4>3, <4>4
    <3> QED
      BY <3>1, <3>2
  <2>9. up_end = "eof" => Current = Len(calls)
    BY <2>3, <2>8, OnlyTheLast, Zenon
  <2>10. cmd = Before(c, i) /\ (spc = "length" => HasLength(Packs[c.op][i]))
    <3>1. ~(spc = "length" /\ spc = "pack")
      OBVIOUS
    <3> QED
      BY <2>3, <3>1, Zenon DEF InPack
  <2>11. cmd.args = At(c, i - 1).values
         /\ IsCommand(cmd, c.op, SubSeq(Packs[c.op], i, Len(Packs[c.op])), cmd.args, cmd.cut)
    <3>1. PICK o, x, y, z : IsCommand(cmd, o, x, y, z) /\ z = FALSE /\ o = c.op
                            /\ x = SubSeq(Packs[c.op], i, Len(Packs[c.op])) /\ y = At(c, i - 1).values
      BY <2>10, Zenon DEF Before, IsCommand
    <3>2. cmd.args = y /\ cmd.cut = z
      BY <3>1 DEF IsCommand
    <3> QED
      BY <3>1, <3>2, Zenon
  <2>12. Interrupted(c, i)
    BY <2>2, <2>3, <2>4, <2>9, <2>10, <2>11, Zenon DEF Interrupted
  <2> QED
    BY <2>12, Zenon
<1> QED
  BY <1>1, <1>2, Zenon

\* The parser goes on without what it did not get.
LEMMA CutParse ==
  ASSUME Typing, up = <<>>, up_end' = "eof", up_end \in {"eof", "reset"},
         UNCHANGED <<socket_type, up, down, down_end, executed, client_vars>>,
         NEW c, NEW i, Interrupted(c, i), NEW v, Missing(c, i, v), up_end = "eof" \/ v[1] = <<>>,
         Parse(GotCut(v))
  PROVE  Typing' /\ Uplink'
<1> DEFINE P == Packs[c.op]
<1>1. /\ RanAsCalled /\ socket_type = "TCP" /\ Current <= Len(calls) /\ c = calls[Current] /\ c \in CallSet
      /\ i \in 1..Len(P) /\ IsCommand(cmd, c.op, SubSeq(P, i, Len(P)), cmd.args, cmd.cut)
      /\ \/ cmd.args = At(c, i - 1).values /\ (up_end = "eof" => Current = Len(calls))
         \/ CutArgs(c, cmd.args, i)
  BY Zenon DEF Interrupted
<1>2. PICK args : args = cmd.args \o v
  OBVIOUS
<1>3. CutArgs(c, args, i + 1)
  <2>1. \/ cmd.args = At(c, i - 1).values /\ (Current = Len(calls) \/ v[1] = <<>>)
        \/ CutArgs(c, cmd.args, i)
    BY <1>1, Zenon
  <2> QED
    BY <1>1, <1>2, <2>1, CutMore, Zenon
<1>4. IsCommand(GotCut(v), c.op, SubSeq(P, i + 1, Len(P)), args, TRUE)
  <2>1. IsCommand(GotCut(v), c.op, Tail(SubSeq(P, i, Len(P))), cmd.args \o v, TRUE)
    BY <1>1, GotShape, Zenon
  <2>2. Tail(SubSeq(P, i, Len(P))) = SubSeq(P, i + 1, Len(P))
    BY <1>1, PacksLeft, Zenon
  <2> QED
    BY <1>2, <2>1, <2>2, Zenon
<1>5. PICK d, z : d = GotCut(v) /\ z = TRUE
  OBVIOUS
<1>6. d = [op |-> c.op, packs |-> SubSeq(P, i + 1, Len(P)), args |-> args, cut |-> z]
  BY <1>4, <1>5, Zenon DEF IsCommand
<1>7. d.packs = SubSeq(P, i + 1, Len(P)) /\ d.op = c.op /\ d.args = args /\ d.cut = z
  BY <1>6
<1>8. Len(P) \in Nat
  BY <1>1, PackFacts, Zenon
<1>9. i + 1 \in 1..(Len(P) + 1)
  BY <1>1, <1>8
<1>10. /\ cmd' = d /\ buff' = <<>> /\ need' \in Nat /\ spc' \in {"exec", "length", "pack"}
       /\ i + 1 = Len(P) + 1 => spc' = "exec" /\ need' = 0
       /\ i + 1 <= Len(P) => /\ need' > 0
                             /\ IF HasLength(P[i + 1]) THEN spc' = "length" /\ need' = 4
                                ELSE spc' = "pack" /\ need' = At(c, i + 1).position - At(c, (i + 1) - 1).position
  BY <1>1, <1>5, <1>7, <1>9, ParseCases, Zenon
<1>11. /\ Current' = Current /\ calls' = calls /\ executed' = executed /\ socket_type' = socket_type
       /\ up' = up
  BY DEF Current, client_vars
<1>12. CutArgs(c, args, i + 1)'
  BY <1>3, <1>11, Zenon DEF CutArgs
<1>13. InCutCall(c, i + 1)'
  <2>1. i + 1 = Len(P) + 1 \/ i + 1 <= Len(P)
    BY <1>8, <1>9
  <2>2. cmd' = [op |-> c.op, packs |-> SubSeq(P, i + 1, Len(P)), args |-> cmd'.args, cut |-> TRUE]
    BY <1>5, <1>6, <1>7, <1>10, Zenon
  <2>3. CutArgs(c, cmd.args, i + 1)'
    <3>1. cmd'.args = args
      BY <1>7, <1>10, Zenon
    <3> QED
      BY <1>12, <3>1, Zenon DEF CutArgs
  <2> QED
    BY <1>10, <2>1, <2>2, <2>3, Zenon DEF InCutCall
<1>14. RanAsCalled'
  BY <1>1, <1>11, RanStays, Zenon
<1>15. CutShort'
  <2>1. Current' <= Len(calls') /\ calls'[Current'] = c /\ buff' = <<>> /\ up' = <<>>
    BY <1>1, <1>10, <1>11
  <2> QED
    BY <1>1, <1>9, <1>11, <1>13, <1>14, <2>1, Zenon DEF CutShort
<1>16. Typing'
  <2>1. cmd'.op \in DOMAIN Operations \cup {"none"} /\ cmd'.cut \in BOOLEAN
    <3>1. c.op \in DOMAIN Operations /\ z \in BOOLEAN
      BY <1>1, <1>5, CallFacts
    <3> QED
      BY <1>7, <1>10, <3>1, Zenon
  <2>2. /\ UNCHANGED <<socket_type, up, down, executed, client_vars>> /\ down_end' \in BOOLEAN
        /\ up_end # "open"
    BY DEF Typing
  <2> QED
    BY <1>10, <2>1, <2>2, TypingStep, Zenon
<1> QED
  BY <1>15, <1>16, Zenon DEF Uplink

\* The session ends between two calls or inside a header.
LEMMA EofInHeaderKeeps ==
  ASSUME Typing, Uplink, EofInHeader \/ ErrorInHeader, UNCHANGED <<frame, client_vars>>
  PROVE  Typing' /\ Uplink'
<1>1. /\ End /\ UNCHANGED <<socket_type, up, down, executed, client_vars>>
      /\ up_end # "open" /\ (up_end' = up_end \/ up_end' = "eof")
  BY DEF EofInHeader, ErrorInHeader, AtEnd
<1> QED
  BY <1>1, EndsGone, Zenon DEF Uplink

\* rcv_n_bytes returns 0 inside a pack: the parser goes on without it.
LEMMA EofInPackKeeps ==
  ASSUME Typing, Uplink, EofInPack, UNCHANGED <<frame, client_vars>>
  PROVE  Typing' /\ Uplink'
<1>1. /\ spc = "pack" /\ up = <<>> /\ need > 0 /\ up_end = "eof" /\ up_end' = "eof"
      /\ Parse(GotCut(UnknownValues(Head(cmd.packs))))
      /\ UNCHANGED <<socket_type, up, down, down_end, executed, client_vars>>
  BY DEF EofInPack, AtEnd
<1>2. PICK c, i : Interrupted(c, i)
  BY <1>1, InterruptedPack
<1>3. /\ c \in CallSet /\ i \in 1..Len(Packs[c.op])
      /\ IsCommand(cmd, c.op, SubSeq(Packs[c.op], i, Len(Packs[c.op])), cmd.args, cmd.cut)
  BY <1>2, Zenon DEF Interrupted
<1>4. Head(cmd.packs) = Packs[c.op][i]
  <2>1. cmd.packs = SubSeq(Packs[c.op], i, Len(Packs[c.op]))
    BY <1>3 DEF IsCommand
  <2> QED
    BY <1>3, <2>1, PacksLeft, Zenon
<1>5. PICK v : v = UnknownValues(Packs[c.op][i])
  OBVIOUS
<1>6. Missing(c, i, v)
  <2>1. PICK n \in Nat : DOMAIN (Packs[c.op][i]) = 1..n /\ Len(Packs[c.op][i]) = n
    <3>1. PICK k, m : k = Len(At(c, i - 1).values) /\ m = Len(At(c, i).values)
      OBVIOUS
    <3>2. /\ k \in Nat /\ m \in Nat /\ k < m
          /\ DOMAIN (Packs[c.op][i]) = 1..(m - k) /\ Len(Packs[c.op][i]) = m - k
      BY <1>3, <3>1, PackTypes, Zenon
    <3>3. m - k \in Nat
      BY <3>2
    <3> QED
      BY <3>2, <3>3, Zenon
  <2>2. v = [j \in 1..n |-> Unknown]
    BY <1>5, <2>1, Zenon DEF UnknownValues
  <2>3. v \in Seq({Unknown}) /\ Len(v) = n /\ \A j \in 1..n : v[j] = Unknown
    BY <2>2
  <2> QED
    BY <2>1, <2>3, Zenon DEF Missing, Sequence
<1> QED
  <2>1. up_end \in {"eof", "reset"} /\ Parse(GotCut(v))
    BY <1>1, <1>4, <1>5, Zenon
  <2> QED
    BY <1>1, <1>2, <1>6, <2>1, CutParse, Zenon

\* A length that is missing: of the pack there is one argument.
LEMMA MissingOne ==
  ASSUME NEW c \in CallSet, NEW i \in 1..Len(Packs[c.op]), HasLength(Packs[c.op][i]),
         NEW x \in {Unknown, <<>>}
  PROVE  Missing(c, i, <<x>>)
<1>1. PICK k, m : k = Len(At(c, i - 1).values) /\ m = Len(At(c, i).values)
  OBVIOUS
<1>2. k \in Nat /\ m = k + 1 /\ Len(Packs[c.op][i]) = m - k
  BY <1>1, PackTypes, Zenon
<1>3. Len(Packs[c.op][i]) = 1
  BY <1>2
<1>4. <<x>> \in Seq({x}) /\ Len(<<x>>) = 1 /\ \A j \in 1..1 : <<x>>[j] = x
  OBVIOUS
<1> QED
  BY <1>3, <1>4, Zenon DEF Missing, Sequence

\* rcv_n_bytes returns 0 inside a length: any container, or resize() throws.
LEMMA EofInLengthKeeps ==
  ASSUME Typing, Uplink, EofInLength, UNCHANGED <<frame, client_vars>>
  PROVE  Typing' /\ Uplink'
<1>1. /\ spc = "length" /\ up = <<>> /\ need > 0 /\ up_end = "eof" /\ up_end' = "eof"
      /\ UNCHANGED <<socket_type, up, down, executed, client_vars>>
  BY DEF EofInLength, AtEnd
<1>2. PICK c, i : Interrupted(c, i)
  BY <1>1, InterruptedPack
<1>3. /\ c \in CallSet /\ c = calls[Current] /\ i \in 1..Len(Packs[c.op]) /\ HasLength(Packs[c.op][i])
      /\ RanAsCalled /\ socket_type = "TCP" /\ Current <= Len(calls)
  BY <1>1, <1>2, Zenon DEF Interrupted
<1>4. CASE Parse(GotCut(<<Unknown>>)) /\ UNCHANGED down_end
  <2>1. Missing(c, i, <<Unknown>>)
    BY <1>3, MissingOne
  <2>2. up_end \in {"eof", "reset"} /\ UNCHANGED <<socket_type, up, down, down_end, executed, client_vars>>
    BY <1>1, <1>4
  <2> QED
    BY <1>1, <1>2, <1>4, <2>1, <2>2, CutParse, Zenon
<1>5. CASE Loop("aborted", 0) /\ down_end' = TRUE /\ cmd' = NoCommand
  <2>1. spc' = "aborted" /\ need' = 0 /\ buff' = <<>> /\ down_end' \in BOOLEAN /\ need' \in Nat
    BY <1>5 DEF Loop
  <2>2. Typing'
    BY <1>1, <1>5, <2>1, NoCommandType, TypingStep, Zenon
  <2>3. /\ socket_type' = socket_type /\ executed' = executed /\ calls' = calls
    BY <1>1 DEF client_vars
  <2>4. ExecutedAsCalled'
    BY <1>1, <2>3, UplinkExecuted, ExecutedStays
  <2>5. SessionEndsForAReason'
    <3>1. Len(executed') < Len(calls')
      BY <1>3, <2>3, CurrentFacts DEF Current
    <3>2. NextCall' = Operations[c.op]
      BY <1>3, <2>3, Zenon DEF NextCall, Current
    <3>3. \E j \in DOMAIN (Operations[c.op].args) : HasLength(<<Operations[c.op].args[j]>>)
      <4>1. PICK k, n, types : k = Len(At(c, i - 1).values) /\ n = Len(At(c, i).values) /\ types = Operations[c.op].args
        OBVIOUS
      <4>2. k \in Nat /\ n = k + 1 /\ n <= Len(types) /\ Len(types) \in Nat /\ HasLength(<<types[k + 1]>>)
        BY <1>3, <4>1, PackTypes, Zenon
      <4>3. DOMAIN types = 1..Len(types)
        BY <1>3, <4>1, PackFacts, LenProperties
      <4>4. k + 1 \in DOMAIN types
        BY <4>2, <4>3
      <4> QED
        BY <4>1, <4>2, <4>4, Zenon
    <3>4. /\ spc' # "ended" /\ socket_type' = "TCP" /\ up_end' # "open"
      BY <1>1, <1>3, <2>1, <2>3
    <3> QED
      BY <3>1, <3>2, <3>3, <3>4, Zenon DEF SessionEndsForAReason
  <2> QED
    BY <1>5, <2>1, <2>2, <2>4, <2>5, Zenon DEF Uplink, Stopped
<1> QED
  BY <1>4, <1>5 DEF EofInLength

\* A command is given up after the connection was lost.
LEMMA GivenUp ==
  ASSUME Typing, Uplink, NextCommand, socket_type = "TCP", up = <<>>, up_end \in {"eof", "reset"},
         up_end' = "eof", UNCHANGED <<socket_type, up, down, down_end, executed, client_vars>>
  PROVE  Typing' /\ Uplink'
<1>1. cmd' = NoCommand /\ buff' = <<>> /\ spc' = "header" /\ need' = 8
  BY DEF NextCommand, Loop, S!HEADER_SIZE
<1>2. need' > 0 /\ need' \in Nat /\ up_end # "open" /\ down_end' \in BOOLEAN
      /\ UNCHANGED <<socket_type, up, down, executed, client_vars>>
  BY <1>1 DEF Typing
<1>3. Typing'
  BY <1>1, <1>2, NoCommandType, TypingStep, Zenon
<1>4. ExecutedAsCalled'
  <2>1. UNCHANGED <<socket_type, executed, calls>> /\ up_end' # "open"
    BY DEF client_vars
  <2> QED
    BY <2>1, UplinkExecuted, ExecutedStays, Zenon
<1>5. socket_type' = "TCP" /\ up' = <<>>
  OBVIOUS
<1> QED
  BY <1>1, <1>2, <1>3, <1>4, <1>5, Zenon DEF Uplink, CutShort

\* rcv_n_bytes returns -1 inside a pack: the command is given up.
LEMMA ErrorInPackKeeps ==
  ASSUME Typing, Uplink, ErrorInPack, UNCHANGED <<frame, client_vars>>
  PROVE  Typing' /\ Uplink'
<1>1. /\ spc = "pack" /\ up = <<>> /\ need > 0 /\ up_end = "reset" /\ up_end' = "eof" /\ NextCommand
      /\ UNCHANGED <<socket_type, up, down, down_end, executed, client_vars>>
  BY DEF ErrorInPack, AtEnd
<1>2. socket_type = "TCP"
  BY <1>1, InterruptedPack, Zenon DEF Interrupted
<1>3. up_end \in {"eof", "reset"}
  BY <1>1
<1> QED
  BY <1>1, <1>2, <1>3, GivenUp, Zenon

\* rcv_n_bytes returns -1 in front of a container: it is empty, or given up.
LEMMA ErrorInLengthKeeps ==
  ASSUME Typing, Uplink, ErrorInLength, UNCHANGED <<frame, client_vars>>
  PROVE  Typing' /\ Uplink'
<1>1. /\ spc = "length" /\ up = <<>> /\ need > 0 /\ up_end = "reset" /\ up_end' = "eof"
      /\ Parse(GotCut(<<<<>>>>)) \/ NextCommand
      /\ UNCHANGED <<socket_type, up, down, down_end, executed, client_vars>>
  BY DEF ErrorInLength, AtEnd
<1>2. PICK c, i : Interrupted(c, i)
  BY <1>1, InterruptedPack
<1>3. /\ c \in CallSet /\ i \in 1..Len(Packs[c.op]) /\ HasLength(Packs[c.op][i]) /\ socket_type = "TCP"
  BY <1>1, <1>2, Zenon DEF Interrupted
<1>4. up_end \in {"eof", "reset"}
  BY <1>1
<1>5. CASE NextCommand
  BY <1>1, <1>3, <1>4, <1>5, GivenUp, Zenon
<1>6. CASE Parse(GotCut(<<<<>>>>))
  <2>1. PICK v : v = <<<<>>>>
    OBVIOUS
  <2>2. Missing(c, i, v) /\ v[1] = <<>>
    BY <1>3, <2>1, MissingOne
  <2>3. Parse(GotCut(v))
    BY <1>6, <2>1, Zenon
  <2> QED
    BY <1>1, <1>2, <1>4, <2>2, <2>3, CutParse, Zenon
<1> QED
  BY <1>1, <1>5, <1>6, Zenon

-----------------------------------------------------------------------------
(* The WebSocket session *)

\* A WebSocket session that reads is between two calls or inside a frame.
LEMMA AtFrame ==
  ASSUME Typing, Uplink, spc \in {"ws_head", "ws_ext", "ws_payload"}
  PROVE  \E st : /\ RanAsCalled /\ Stream(st) /\ Position(st) /\ socket_type = "WEBSOCK" /\ cmd = NoCommand
                 /\ \/ spc = "ws_head" /\ Between(st)
                    \/ /\ spc # "ws_head" /\ Current <= Len(calls)
                       /\ InFrame(st, Len(TCPBytes(calls[Current])))
<1>1. /\ spc # "http" /\ spc # "ended" /\ spc # "aborted" /\ spc # "header" /\ spc # "exec"
      /\ spc # "length" /\ spc # "pack"
  OBVIOUS
<1>2. PICK st : RanAsCalled /\ Stream(st) /\ Position(st)
  BY <1>1, Zenon DEF Uplink, Handshake, Stopped, CutShort, InCutCall
<1>3. CASE Between(st)
  <2>1. socket_type = "WEBSOCK" /\ spc = "ws_head" /\ cmd = NoCommand
    BY <1>1, <1>3 DEF Between
  <2> QED
    BY <1>2, <1>3, <2>1, Zenon
<1>4. CASE ~Between(st)
  <2>1. Current <= Len(calls) /\ socket_type = "WEBSOCK" /\ InFrame(st, Len(TCPBytes(calls[Current])))
    BY <1>1, <1>2, <1>4, Zenon DEF Position, InPack, Complete
  <2>2. cmd = NoCommand /\ (spc = "ws_ext" \/ spc = "ws_payload")
    BY <2>1, Zenon DEF InFrame
  <2>3. spc # "ws_head"
    BY <2>2
  <2> QED
    BY <1>2, <2>1, <2>2, <2>3, Zenon
<1> QED
  BY <1>3, <1>4

\* The first part of a frame, from what is in front of the stream.
LEMMA FrameRead ==
  ASSUME Typing, NEW st, Stream(st), socket_type = "WEBSOCK", Current <= Len(calls), st[Current] = 0,
         Len(buff) <= Len(BytesOf(socket_type, calls[Current]))
  PROVE  LET F == MaskedFrame("BINARY", TCPBytes(calls[Current]))
         IN  /\ calls[Current] \in CallSet /\ BytesOf(socket_type, calls[Current]) = F
             /\ buff = SubSeq(F, 1, Len(buff)) /\ \A j \in 1..Len(buff) : buff[j] = F[j]
<1>1. PICK c, B : c = calls[Current] /\ B = BytesOf(socket_type, calls[Current])
  OBVIOUS
<1>2. c \in CallSet
  BY <1>1, CallInStream, Zenon
<1>3. B = MaskedFrame("BINARY", TCPBytes(c)) /\ B \in Seq(WireBytes) /\ Len(B) \in Nat
  <2>1. socket_type \in {"TCP", "WEBSOCK"}
    OBVIOUS
  <2> QED
    BY <1>1, <1>2, <2>1, BytesFacts, Zenon
<1>4. Len(buff) \in Nat
  BY CurrentFacts
<1>5. buff = SubSeq(B, 1, Len(buff))
  <2>1. PICK n \in Nat : n = Len(buff)
    BY <1>4
  <2>2. 0 \in Nat /\ 0 <= n /\ n = n - 0 /\ 0 = 0 - 0 /\ 0 + 1 = 1
    OBVIOUS
  <2>3. n <= Len(BytesOf(socket_type, calls[Current])) /\ st[Current] = 0 - 0 /\ Len(buff) = n - 0
    BY <2>1, <2>2, Zenon
  <2>4. buff = SubSeq(BytesOf(socket_type, calls[Current]), 0 + 1, n)
    BY <2>2, <2>3, BytesRead, Zenon
  <2> QED
    BY <1>1, <2>1, <2>2, <2>4, Zenon
<1>6. \A j \in 1..Len(buff) : SubSeq(B, 1, Len(buff))[j] = B[j]
  <2>1. Len(buff) <= Len(B)
    BY <1>1
  <2> QED
    BY <1>3, <1>4, <2>1, Prefix, Zenon
<1> QED
  BY <1>1, <1>2, <1>3, <1>5, <1>6, Zenon

\* The sizes and the length of the frame of a call.
LEMMA FrameSizes ==
  ASSUME NEW c \in CallSet
  PROVE  LET n == Len(TCPBytes(c))
             e == ExtOf(n)
             F == MaskedFrame("BINARY", TCPBytes(c))
         IN  /\ n \in Nat /\ n >= 8 /\ e \in {0, 2, 8} /\ F \in Seq(WireBytes) /\ Len(F) = 6 + e + n
             /\ F[1].v = "BINARY"
             /\ F[2].v = IF e = 0 THEN n ELSE IF e = 2 THEN MEDIUM_STREAM ELSE BIG_STREAM
             /\ e = 0 <=> n <= SMALL_STREAM
             /\ e # 0 => /\ \A i \in 1..e : F[2 + i].v = ToBytes(e, n)[i]
                         /\ ToBytes(e, n) \in Seq(0..(Radix - 1)) /\ FromBytes(ToBytes(e, n)) = n
             /\ \A i \in 1..4 : F[2 + e + i] = Byte("key", i - 1)
             /\ \A i \in 1..n : F[6 + e + i] = [b |-> "data", v |-> TCPBytes(c)[i], key |-> (i - 1) % 4]
<1>1. PICK B, n, e, F : B = TCPBytes(c) /\ n = Len(B) /\ e = ExtOf(n) /\ F = MaskedFrame("BINARY", B)
  OBVIOUS
<1>2. B \in Seq(0..(Radix - 1)) /\ n \in Nat /\ n >= 8 /\ LengthDecodes(n)
  BY <1>1, TCPBytesFacts, Zenon
<1>3. /\ F \in Seq(WireBytes) /\ e \in {0, 2, 8} /\ Len(F) = 6 + e + n
      /\ F[1].v = "BINARY"
      /\ F[2].v = FrameLength(n)[1].v
      /\ \A i \in 1..e : F[2 + i].v = FrameLength(n)[1 + i].v
      /\ \A i \in 1..4 : F[2 + e + i] = Byte("key", i - 1)
      /\ \A i \in 1..n : F[6 + e + i] = [b |-> "data", v |-> B[i], key |-> (i - 1) % 4]
  BY <1>1, <1>2, MaskedFrameShape, Zenon
<1>4. /\ FrameLength(n)[1].v = IF e = 0 THEN n ELSE IF e = 2 THEN MEDIUM_STREAM ELSE BIG_STREAM
      /\ e = 0 <=> n <= SMALL_STREAM
      /\ e # 0 => /\ \A i \in 1..e : FrameLength(n)[1 + i].v = ToBytes(e, n)[i]
                  /\ ToBytes(e, n) \in Seq(0..(Radix - 1)) /\ FromBytes(ToBytes(e, n)) = n
  BY <1>1, <1>2, FrameLengthShape, Zenon
<1>5. e # 0 => \A i \in 1..e : F[2 + i].v = ToBytes(e, n)[i]
  BY <1>3, <1>4, Zenon
<1>6. F[2].v = IF e = 0 THEN n ELSE IF e = 2 THEN MEDIUM_STREAM ELSE BIG_STREAM
  BY <1>3, <1>4
<1> QED
  BY <1>1, <1>2, <1>3, <1>4, <1>5, <1>6, Zenon

\* The session ends when the stream does.
LEMMA EofInFrameKeeps ==
  ASSUME Typing, Uplink, EofInFrame, UNCHANGED client_vars
  PROVE  Typing' /\ Uplink'
<1>1. /\ End /\ UNCHANGED <<socket_type, up, down, executed, client_vars>>
      /\ up_end # "open" /\ up_end' = up_end
  BY DEF EofInFrame, AtEnd
<1> QED
  BY <1>1, EndsGone, Zenon DEF Uplink

\* read_n_bytes repeats a read that fails.
LEMMA RetryReadKeeps ==
  ASSUME Typing, Uplink, RetryRead, UNCHANGED client_vars
  PROVE  Typing' /\ Uplink'
<1>1. /\ spc \in {"ws_head", "ws_ext", "ws_payload"} /\ up_end # "open" /\ up_end' = "eof"
      /\ UNCHANGED <<socket_type, up, down, executed, client_vars>>
      /\ End \/ UNCHANGED <<spc, need, buff, cmd, down_end>>
      /\ frame' = frame
  BY DEF RetryRead, AtEnd
<1>2. CASE End
  BY <1>1, <1>2, EndsGone, Zenon DEF Uplink
<1>3. CASE UNCHANGED <<spc, need, buff, cmd, down_end>>
  <2>1. /\ socket_type' = socket_type /\ up' = up /\ executed' = executed /\ calls' = calls
        /\ spc' = spc /\ need' = need /\ buff' = buff /\ cmd' = cmd /\ down_end' = down_end
        /\ Current' = Current
    BY <1>1, <1>3 DEF client_vars, Current
  <2>2. Typing'
    <3>1. /\ down_end' \in BOOLEAN /\ need' \in Nat /\ cmd'.op \in DOMAIN Operations \cup {"none"}
          /\ cmd'.cut \in BOOLEAN
          /\ spc' \in {"http", "header", "length", "pack", "exec", "ws_head", "ws_ext",
                       "ws_payload", "ended", "aborted"}
      BY <2>1 DEF Typing
    <3> QED
      BY <1>1, <2>1, <3>1, TypingStep, Zenon
  <2>3. PICK st : RanAsCalled /\ Stream(st) /\ Position(st) /\ socket_type = "WEBSOCK"
    BY <1>1, AtFrame, Zenon
  <2>4. Stream(st)'
    <3>1. socket_type' # "TCP" /\ up_end' # "open"
      BY <1>1, <2>1, <2>3
    <3> QED
      BY <2>1, <2>3, <3>1, Zenon DEF Stream
  <2>5. Position(st)'
    BY <1>1, <2>1, <2>3, Zenon DEF Position, Between, InPack, InFrame, Complete
  <2>6. RanAsCalled'
    BY <2>1, <2>3, RanStays, Zenon
  <2> QED
    BY <2>2, <2>4, <2>5, <2>6, Zenon DEF Uplink
<1> QED
  BY <1>1, <1>2, <1>3, Zenon

\* The session ends on a call that it refuses.
LEMMA EndsRefused ==
  ASSUME Typing, Uplink, End, UNCHANGED <<socket_type, up, up_end, down, executed, client_vars>>,
         socket_type = "WEBSOCK", Current <= Len(calls), Refused(calls[Current])
  PROVE  Typing' /\ Uplink'
<1>1. cmd' = NoCommand /\ spc' = "ended" /\ need' = 0 /\ buff' = <<>> /\ down_end' = TRUE
  BY DEF End, Loop
<1>2. Typing'
  <2>1. need' \in Nat /\ down_end' \in BOOLEAN /\ up_end' = up_end
        /\ UNCHANGED <<socket_type, up, down, executed, client_vars>>
    BY <1>1
  <2> QED
    BY <1>1, <2>1, NoCommandType, TypingStep, Zenon
<1>3. ExecutedAsCalled'
  <2>1. UNCHANGED <<socket_type, executed, calls>> /\ up_end' = up_end
    BY DEF client_vars
  <2> QED
    BY <2>1, UplinkExecuted, ExecutedStays, Zenon
<1>4. SessionEndsForAReason'
  <2>1. socket_type' = "WEBSOCK" /\ calls' = calls /\ executed' = executed /\ spc' # "aborted"
    BY <1>1 DEF client_vars
  <2>2. Len(executed) < Len(calls) /\ Refused(calls[Len(executed) + 1])
    BY CurrentFacts DEF Current
  <2> QED
    BY <2>1, <2>2 DEF SessionEndsForAReason, Refused
<1> QED
  BY <1>1, <1>2, <1>3, <1>4, Zenon DEF Stopped, Uplink

\* The frame that read_n_bytes takes for an overflow is that of a refused call.
LEMMA ReadOverflowKeeps ==
  ASSUME Typing, Uplink, ReadOverflow, UNCHANGED client_vars
  PROVE  Typing' /\ Uplink'
<1>1. /\ spc \in {"ws_head", "ws_ext", "ws_payload"} /\ need = 0 /\ Len(buff) = KOHERON_READ_STR_LEN /\ End
      /\ UNCHANGED <<socket_type, up, up_end, down, executed, client_vars>>
  BY DEF ReadOverflow
<1>2. PICK st : /\ Stream(st) /\ socket_type = "WEBSOCK"
                /\ \/ spc = "ws_head" /\ Between(st)
                   \/ /\ spc # "ws_head" /\ Current <= Len(calls)
                      /\ InFrame(st, Len(TCPBytes(calls[Current])))
  BY <1>1, AtFrame, Zenon
<1>3. Len(buff) > 14 /\ Len(buff) \in Nat /\ Len(buff) + need = Len(buff)
  BY <1>1, LinkAssumption, CurrentFacts
<1>4. Current <= Len(calls) /\ InFrame(st, Len(TCPBytes(calls[Current])))
  <2>1. ~Between(st)
    BY <1>2, <1>3 DEF Between
  <2> QED
    BY <1>2, <2>1, Zenon
<1>5. PICK c, n : c = calls[Current] /\ n = Len(TCPBytes(c))
  OBVIOUS
<1>6. c \in CallSet
  BY <1>2, <1>4, <1>5, CallInStream, Zenon
<1>7. PICK e : e = ExtOf(n) /\ e \in {0, 2, 8} /\ Len(MaskedFrame("BINARY", TCPBytes(c))) = 6 + e + n
  BY <1>5, <1>6, FrameSizes, Zenon
<1>8. \/ Len(buff) = 6 + e
      \/ Len(buff) = 6 + e + n
  BY <1>3, <1>4, <1>5, <1>7, Zenon DEF InFrame
<1>9. Len(buff) = 6 + e + n
  BY <1>3, <1>7, <1>8
<1>10. Refused(c)
  <2>1. WebSocketCommands[c.op][c.args] = MaskedFrame("BINARY", TCPBytes(c))
    <3>1. BytesOf("WEBSOCK", c) = MaskedFrame("BINARY", TCPBytes(c))
      BY <1>6, BytesFacts
    <3> QED
      BY <3>1 DEF BytesOf
  <2>2. Len(WebSocketCommands[c.op][c.args]) = KOHERON_READ_STR_LEN
    BY <1>1, <1>7, <1>9, <2>1, Zenon
  <2> QED
    BY <2>2, Zenon DEF Refused
<1> QED
  BY <1>1, <1>2, <1>4, <1>5, <1>10, EndsRefused, Zenon

\* The first part of the frame of the current call is in buff.
FrameStarts(st, c, e) ==
    /\ RanAsCalled /\ Stream(st) /\ socket_type = "WEBSOCK" /\ Current <= Len(calls) /\ st[Current] = 0
    /\ cmd = NoCommand /\ c = calls[Current] /\ c \in CallSet
    /\ e = ExtOf(Len(TCPBytes(c)))

LEMMA SameStream ==
  ASSUME Typing, NEW st, Stream(st), UNCHANGED <<socket_type, up, up_end, buff, calls>>
  PROVE  Stream(st)'
<1>1. socket_type' = socket_type /\ up' = up /\ up_end' = up_end /\ buff' = buff /\ calls' = calls
  OBVIOUS
<1> QED
  BY <1>1, Zenon DEF Stream

\* The length of the frame is known: it is refused, or its payload is next.
LEMMA PayloadNext ==
  ASSUME Typing, Uplink, NEW st, NEW c, NEW e, FrameStarts(st, c, e), Len(buff) = 6 + e,
         ReadPayloadOf(6 + e, 2 + e, Len(TCPBytes(c))),
         UNCHANGED <<socket_type, up, up_end, down, executed, client_vars>>
  PROVE  Typing' /\ Uplink'
<1> USE DEF FrameStarts
<1>1. PICK n : n = Len(TCPBytes(c)) /\ n \in Nat /\ e \in {0, 2, 8}
  BY FrameSizes, Zenon
<1>2. CASE TooLarge(n)
  <2>1. End
    BY <1>1, <1>2, Zenon DEF ReadPayloadOf
  <2>2. Refused(c)
    BY <1>1, <1>2, Zenon DEF TooLarge, Refused, TCPBytes
  <2> QED
    BY <2>1, <2>2, EndsRefused, Zenon
<1>3. CASE ~TooLarge(n)
  <2>1. /\ spc' = "ws_payload" /\ need' = n /\ UNCHANGED <<buff, down_end, cmd>>
        /\ frame' = [header_size |-> 6 + e, mask_offset |-> 2 + e, payload_size |-> n]
    BY <1>1, <1>3, Zenon DEF ReadPayloadOf
  <2>2. /\ socket_type' = socket_type /\ up' = up /\ up_end' = up_end /\ executed' = executed
        /\ calls' = calls /\ buff' = buff /\ down_end' = down_end /\ cmd' = cmd /\ Current' = Current
    BY <2>1 DEF client_vars, Current
  <2>3. Typing'
    <3>1. down_end' \in BOOLEAN /\ need' \in Nat
      BY <1>1, <2>1, <2>2 DEF Typing
    <3>2. cmd'.op \in DOMAIN Operations \cup {"none"} /\ cmd'.cut \in BOOLEAN
      BY <2>2, NoCommandType, Zenon
    <3> QED
      BY <2>1, <2>2, <3>1, <3>2, TypingStep, Zenon
  <2>4. Stream(st)'
    <3>1. UNCHANGED <<socket_type, up, up_end, buff, calls>>
      BY <2>2
    <3> QED
      BY <3>1, SameStream, Zenon
  <2>5. Len(buff') + need' = 6 + e + n
    BY <1>1, <2>1, <2>2
  <2>6. InFrame(st, n)'
    BY <1>1, <2>1, <2>2, <2>5, Zenon DEF InFrame
  <2>7. Position(st)'
    BY <1>1, <2>2, <2>6, Zenon DEF Position
  <2>8. RanAsCalled'
    BY <2>2, RanStays, Zenon
  <2> QED
    BY <2>3, <2>4, <2>7, <2>8, Zenon DEF Uplink
<1> QED
  BY <1>2, <1>3, Zenon

\* read_header: the opcode and the short length, or a goodbye.
LEMMA ReadFrameHeaderKeeps ==
  ASSUME Typing, Uplink, ReadFrameHeader, UNCHANGED client_vars
  PROVE  Typing' /\ Uplink'
<1>1. /\ spc = "ws_head" /\ need = 0
      /\ UNCHANGED <<socket_type, up, up_end, down, executed, client_vars>>
  BY DEF ReadFrameHeader, ReadNBytes, Reading
<1>2. PICK st : RanAsCalled /\ Stream(st) /\ socket_type = "WEBSOCK" /\ cmd = NoCommand /\ Between(st)
  BY <1>1, AtFrame
<1>3. Len(buff) = 6 /\ Current <= Len(calls) + 1 /\ st[Current] = 0 /\ Len(up) \in Nat
  <2>1. Len(buff) + need = 6 /\ Current <= Len(calls) + 1 /\ st[Current] = 0
    BY <1>2, Zenon DEF Between
  <2> QED
    BY <1>1, <2>1, CurrentFacts
<1>4. CASE Current <= Len(calls)
  <2>1. PICK c, n, e, F : /\ c = calls[Current] /\ n = Len(TCPBytes(c)) /\ e = ExtOf(n)
                          /\ F = MaskedFrame("BINARY", TCPBytes(c))
    OBVIOUS
  <2>2. c \in CallSet
    BY <1>2, <1>4, <2>1, CallInStream, Zenon
  <2>3. /\ n \in Nat /\ e \in {0, 2, 8} /\ Len(F) = 6 + e + n /\ F[1].v = "BINARY"
        /\ F[2].v = IF e = 0 THEN n ELSE IF e = 2 THEN MEDIUM_STREAM ELSE BIG_STREAM
        /\ e = 0 <=> n <= SMALL_STREAM
    BY <2>1, <2>2, FrameSizes, Zenon
  <2>4. \A j \in 1..Len(buff) : buff[j] = F[j]
    <3>1. BytesOf(socket_type, calls[Current]) = F
      BY <1>2, <2>1, <2>2, BytesFacts
    <3>2. Len(buff) <= Len(BytesOf(socket_type, calls[Current]))
      <4>1. Len(buff) <= Len(F)
        BY <1>3, <2>3
      <4> QED
        BY <3>1, <4>1, Zenon
    <3> QED
      BY <1>2, <1>3, <1>4, <2>1, <3>2, FrameRead, Zenon
  <2>5. 1 \in 1..Len(buff) /\ 2 \in 1..Len(buff)
    BY <1>3
  <2>6. buff[1].v = "BINARY" /\ buff[2].v = F[2].v
    BY <2>3, <2>4, <2>5, Zenon
  <2>7. buff[1].v \in {"TEXT", "BINARY"}
    BY <2>6
  <2>8. FrameStarts(st, c, e)
    BY <1>2, <1>3, <1>4, <2>1, <2>2, Zenon DEF FrameStarts
  <2>9. CASE e = 0
    <3>1. F[2].v = n /\ n <= SMALL_STREAM
      BY <2>3, <2>9
    <3>2. ReadPayloadOf(6, 2, n)
      BY <2>6, <2>7, <3>1, Zenon DEF ReadFrameHeader
    <3>3. 6 + e = 6 /\ 2 + e = 2 /\ Len(buff) = 6 + e
      BY <1>3, <2>9
    <3>4. ReadPayloadOf(6 + e, 2 + e, Len(TCPBytes(c)))
      BY <2>1, <3>2, <3>3, Zenon
    <3> QED
      BY <1>1, <2>8, <3>3, <3>4, PayloadNext, Zenon
  <2>10. CASE e # 0
    <3>1. /\ F[2].v = (IF e = 2 THEN MEDIUM_STREAM ELSE BIG_STREAM) /\ ~(F[2].v <= SMALL_STREAM)
          /\ e = (IF F[2].v = MEDIUM_STREAM THEN 2 ELSE 8)
      <4>1. F[2].v = IF e = 2 THEN MEDIUM_STREAM ELSE BIG_STREAM
        BY <2>3, <2>10
      <4>2. SMALL_STREAM \in Nat
        BY LinkAssumption
      <4> QED
        BY <2>3, <2>10, <4>1, <4>2 DEF MEDIUM_STREAM, BIG_STREAM
    <3>2. /\ spc' = "ws_ext" /\ need' = (IF buff[2].v = MEDIUM_STREAM THEN 2 ELSE 8)
          /\ UNCHANGED <<buff, down_end, cmd, frame>>
      BY <2>6, <2>7, <3>1, Zenon DEF ReadFrameHeader
    <3>3. need' = e
      BY <2>6, <3>1, <3>2, Zenon
    <3>4. /\ socket_type' = socket_type /\ up' = up /\ up_end' = up_end /\ executed' = executed
          /\ calls' = calls /\ buff' = buff /\ down_end' = down_end /\ cmd' = cmd /\ Current' = Current
      BY <1>1, <3>2 DEF client_vars, Current
    <3>5. Typing'
      <4>1. down_end' \in BOOLEAN /\ need' \in Nat
        BY <2>3, <3>3, <3>4 DEF Typing
      <4>2. cmd'.op \in DOMAIN Operations \cup {"none"} /\ cmd'.cut \in BOOLEAN
        BY <1>2, <3>4, NoCommandType, Zenon
      <4> QED
        BY <1>1, <3>2, <3>4, <4>1, <4>2, TypingStep, Zenon
    <3>6. Stream(st)'
      <4>1. UNCHANGED <<socket_type, up, up_end, buff, calls>>
        BY <3>4
      <4> QED
        BY <1>2, <4>1, SameStream, Zenon
    <3>7. Len(buff') + need' = 6 + e
      BY <1>3, <3>3, <3>4
    <3>8. InFrame(st, n)'
      BY <1>2, <1>3, <2>1, <2>10, <3>2, <3>4, <3>7, Zenon DEF InFrame
    <3>9. Position(st)'
      BY <1>2, <1>4, <2>1, <3>4, <3>8, Zenon DEF Position
    <3>10. RanAsCalled'
      BY <1>2, <3>4, RanStays, Zenon
    <3> QED
      BY <3>5, <3>6, <3>9, <3>10, Zenon DEF Uplink
  <2> QED
    BY <2>9, <2>10, Zenon
<1>5. CASE Current = Len(calls) + 1
  <2>1. up_end # "open"
    <3>1. up_end = "open" => Len(buff) + Len(up) <= st[Len(calls) + 1]
      BY <1>2, Zenon DEF Stream
    <3> QED
      BY <1>3, <1>5, <3>1
  <2>2. buff[1].v = "CLOSE"
    <3>1. PICK w : w = buff \o up
      OBVIOUS
    <3>2. buff \in Seq(WireBytes) /\ up \in Seq(WireBytes) /\ 1 \in 1..Len(buff)
      BY <1>3 DEF Typing
    <3>3. Len(w) = Len(buff) + Len(up) /\ w[1] = buff[1]
      BY <3>1, <3>2, Concat, Zenon
    <3>4. \A j \in 1..Len(w) : j > 0 => w[j] = Goodbye[j - 0]
      <4>1. st[Len(calls) + 1] = 0
        BY <1>3, <1>5, Zenon
      <4> QED
        BY <1>2, <3>1, <4>1, Zenon DEF Stream, Layout
    <3>5. 1 \in 1..Len(w) /\ 1 > 0 /\ 1 - 0 = 1
      BY <1>3, <3>3
    <3>6. buff[1] = Goodbye[1]
      BY <3>3, <3>4, <3>5, Zenon
    <3> QED
      BY <3>6, GoodbyeShape
  <2>3. End
    <3>1. buff[1].v \notin {"TEXT", "BINARY"}
      BY <2>2
    <3> QED
      BY <3>1, Zenon DEF ReadFrameHeader
  <2>4. up_end' = up_end /\ UNCHANGED <<socket_type, up, down, executed, client_vars>>
    BY <1>1
  <2> QED
    BY <2>1, <2>3, <2>4, EndsGone, Zenon DEF Uplink
<1> QED
  <2>1. Current <= Len(calls) \/ Current = Len(calls) + 1
    BY <1>3, CurrentFacts
  <2> QED
    BY <1>4, <1>5, <2>1, Zenon

\* read_header: the longer forms of the length.
LEMMA ReadExtendedLengthKeeps ==
  ASSUME Typing, Uplink, ReadExtendedLength, UNCHANGED client_vars
  PROVE  Typing' /\ Uplink'
<1>1. /\ spc = "ws_ext" /\ need = 0
      /\ UNCHANGED <<socket_type, up, up_end, down, executed, client_vars>>
  BY DEF ReadExtendedLength, ReadNBytes, Reading
<1>2. spc \in {"ws_head", "ws_ext", "ws_payload"} /\ spc # "ws_head" /\ spc # "ws_payload"
  BY <1>1
<1>3. PICK st : /\ RanAsCalled /\ Stream(st) /\ socket_type = "WEBSOCK" /\ cmd = NoCommand
                /\ Current <= Len(calls) /\ InFrame(st, Len(TCPBytes(calls[Current])))
  BY <1>2, AtFrame, Zenon
<1>4. PICK c, n, e, F : /\ c = calls[Current] /\ n = Len(TCPBytes(c)) /\ e = ExtOf(n)
                        /\ F = MaskedFrame("BINARY", TCPBytes(c))
  OBVIOUS
<1>5. c \in CallSet
  BY <1>3, <1>4, CallInStream, Zenon
<1>6. st[Current] = 0 /\ e # 0 /\ Len(buff) + need = 6 + e
  BY <1>2, <1>3, <1>4, Zenon DEF InFrame
<1>7. /\ n \in Nat /\ e \in {0, 2, 8} /\ Len(F) = 6 + e + n
      /\ \A i \in 1..e : F[2 + i].v = ToBytes(e, n)[i]
      /\ FromBytes(ToBytes(e, n)) = n
  BY <1>4, <1>5, <1>6, FrameSizes, Zenon
<1>8. e \in {2, 8} /\ Len(buff) = 6 + e /\ Len(buff) - 6 = e
  BY <1>1, <1>6, <1>7, CurrentFacts
<1>9. \A j \in 1..Len(buff) : buff[j] = F[j]
  <2>1. BytesOf(socket_type, calls[Current]) = F
    BY <1>3, <1>4, <1>5, BytesFacts
  <2>2. Len(buff) <= Len(BytesOf(socket_type, calls[Current]))
    <3>1. Len(buff) <= Len(F)
      BY <1>7, <1>8
    <3> QED
      BY <2>1, <3>1, Zenon
  <2> QED
    BY <1>3, <1>4, <1>6, <2>2, FrameRead, Zenon
<1>10. FromBytes([i \in 1..e |-> buff[2 + i].v]) = n
  <2>1. \A i \in 1..e : buff[2 + i].v = ToBytes(e, n)[i]
    <3> SUFFICES ASSUME NEW i \in 1..e PROVE buff[2 + i].v = ToBytes(e, n)[i]
      OBVIOUS
    <3>1. 2 + i \in 1..Len(buff)
      BY <1>8
    <3>2. buff[2 + i] = F[2 + i]
      BY <1>9, <3>1, Zenon
    <3> QED
      BY <1>7, <3>2
  <2>2. [i \in 1..e |-> buff[2 + i].v] = [i \in 1..e |-> ToBytes(e, n)[i]]
    BY <2>1, Zenon
  <2>3. [i \in 1..e |-> ToBytes(e, n)[i]] = ToBytes(e, n)
    <3>1. PICK f : f = ToBytes(e, n)
      OBVIOUS
    <3>2. f = [i \in 1..e |-> f[i]]
      <4>1. f = [i \in 1..e |-> (n \div Radix^(e - i)) % Radix]
        BY <3>1, Zenon DEF ToBytes
      <4>2. \A i \in 1..e : f[i] = (n \div Radix^(e - i)) % Radix
        BY <4>1, Zenon
      <4> QED
        BY <4>1, <4>2, Zenon
    <3> QED
      BY <3>1, <3>2, Zenon
  <2> QED
    BY <1>7, <2>2, <2>3, Zenon
<1>11. ReadPayloadOf(6 + e, 2 + e, Len(TCPBytes(c)))
  <2>1. IF e = 2 THEN ReadPayloadOf(8, 4, n) ELSE ReadPayloadOf(14, 10, n)
    BY <1>8, <1>10, Zenon DEF ReadExtendedLength
  <2>2. (e = 2 /\ 6 + e = 8 /\ 2 + e = 4) \/ (e # 2 /\ 6 + e = 14 /\ 2 + e = 10)
    BY <1>8
  <2> QED
    BY <1>4, <2>1, <2>2, Zenon
<1>12. FrameStarts(st, c, e)
  BY <1>3, <1>4, <1>5, <1>6, Zenon DEF FrameStarts
<1> QED
  BY <1>1, <1>8, <1>11, <1>12, PayloadNext, Zenon

\* A masked frame that is complete gives the data back.
LEMMA Unmasked ==
  ASSUME NEW c \in CallSet, buff = MaskedFrame("BINARY", TCPBytes(c)),
         frame = [header_size |-> 6 + ExtOf(Len(TCPBytes(c))), mask_offset |-> 2 + ExtOf(Len(TCPBytes(c))),
                  payload_size |-> Len(TCPBytes(c))]
  PROVE  decode_raw_stream_cmd = TCPBytes(c)
<1>1. PICK B, n, e, F : /\ B = TCPBytes(c) /\ n = Len(B) /\ e = ExtOf(n)
                        /\ F = MaskedFrame("BINARY", TCPBytes(c))
  OBVIOUS
<1>2. /\ n \in Nat /\ e \in {0, 2, 8} /\ F \in Seq(WireBytes) /\ Len(F) = 6 + e + n
      /\ \A i \in 1..4 : F[2 + e + i] = Byte("key", i - 1)
      /\ \A i \in 1..n : F[6 + e + i] = [b |-> "data", v |-> B[i], key |-> (i - 1) % 4]
  BY <1>1, FrameSizes, Zenon
<1>3. buff = F /\ frame.mask_offset = 2 + e /\ frame.payload_size = n
  BY <1>1
<1>4. PICK mask, data : mask = SubSeq(F, (2 + e) + 1, (2 + e) + 4) /\ data = SubSeq(F, (2 + e) + 5, 6 + e + n)
  OBVIOUS
<1>5. \A i \in 1..4 : mask[i] = F[(2 + e) + i]
  <2>1. PICK a, b : a = 2 + e /\ b = (2 + e) + 4
    OBVIOUS
  <2>2. a \in Nat /\ b \in Nat /\ a <= b /\ b <= Len(F) /\ b - a = 4
    BY <1>2, <2>1, SMTT(60)
  <2>3. \A i \in 1..(b - a) : SubSeq(F, a + 1, b)[i] = F[a + i]
    BY <1>2, <2>2, Part, Zenon
  <2> QED
    BY <1>4, <2>1, <2>2, <2>3, Zenon
<1>6. \A i \in 1..n : data[i] = F[6 + e + i]
  <2>1. PICK a, b : a = 6 + e /\ b = 6 + e + n
    OBVIOUS
  <2>2. a \in Nat /\ b \in Nat /\ a <= b /\ b <= Len(F) /\ b - a = n /\ a + 1 = (2 + e) + 5
    BY <1>2, <2>1
  <2>3. \A i \in 1..(b - a) : SubSeq(F, a + 1, b)[i] = F[a + i]
    BY <1>2, <2>2, Part, Zenon
  <2> QED
    BY <1>4, <2>1, <2>2, <2>3, Zenon
<1>7. \A i \in 1..n : Xor(data[i], mask[((i - 1) % 4) + 1]) = B[i]
  <2> SUFFICES ASSUME NEW i \in 1..n PROVE Xor(data[i], mask[((i - 1) % 4) + 1]) = B[i]
    OBVIOUS
  <2>1. PICK k : k = (i - 1) % 4
    OBVIOUS
  <2>2. k + 1 \in 1..4 /\ (k + 1) - 1 = k
    BY <1>2, <2>1
  <2>3. mask[k + 1] = Byte("key", k)
    <3>1. mask[k + 1] = F[(2 + e) + (k + 1)] /\ F[2 + e + (k + 1)] = Byte("key", (k + 1) - 1)
      BY <1>2, <1>5, <2>2, Zenon
    <3>2. (2 + e) + (k + 1) = 2 + e + (k + 1)
      BY <1>2, <2>2
    <3> QED
      BY <2>2, <3>1, <3>2, Zenon
  <2>4. data[i] = [b |-> "data", v |-> B[i], key |-> k]
    BY <1>2, <1>6, <2>1, Zenon
  <2>5. data[i].b = "data" /\ data[i].v = B[i] /\ data[i].key = k
    BY <2>4
  <2>6. mask[k + 1].b = "key" /\ mask[k + 1].v = k
    BY <2>3 DEF Byte
  <2>7. Xor(data[i], mask[k + 1]) = B[i]
    BY <2>5, <2>6, Zenon DEF Xor
  <2> QED
    BY <2>1, <2>7, Zenon
<1>8. decode_raw_stream_cmd = [i \in 1..n |-> Xor(data[i], mask[((i - 1) % 4) + 1])]
  <2>1. Len(buff) = 6 + e + n
    BY <1>2, <1>3
  <2> QED
    BY <1>3, <1>4, <2>1, Zenon DEF decode_raw_stream_cmd, Slice
<1>9. decode_raw_stream_cmd = [i \in 1..n |-> B[i]]
  BY <1>7, <1>8, Zenon
<1>10. [i \in 1..n |-> B[i]] = B
  <2>1. B \in Seq(0..(Radix - 1))
    BY <1>1, TCPBytesFacts, Zenon
  <2> QED
    BY <1>1, <2>1
<1> QED
  BY <1>1, <1>9, <1>10, Zenon

\* decode_raw_stream_cmd and the parser: the frame is that of the current call.
LEMMA ReadFrameKeeps ==
  ASSUME Typing, Uplink, ReadFrame, UNCHANGED client_vars
  PROVE  Typing' /\ Uplink'
<1>1. /\ spc = "ws_payload" /\ need = 0
      /\ UNCHANGED <<socket_type, up, up_end, down, executed, client_vars>>
  BY DEF ReadFrame, ReadNBytes, Reading
<1>2. spc \in {"ws_head", "ws_ext", "ws_payload"} /\ spc # "ws_head" /\ spc # "ws_ext"
  BY <1>1
<1>3. PICK st : /\ RanAsCalled /\ Stream(st) /\ socket_type = "WEBSOCK" /\ cmd = NoCommand
                /\ Current <= Len(calls) /\ InFrame(st, Len(TCPBytes(calls[Current])))
  BY <1>2, AtFrame, Zenon
<1>4. PICK c, B, n, e, F : /\ c = calls[Current] /\ B = TCPBytes(c) /\ n = Len(B) /\ e = ExtOf(n)
                           /\ F = MaskedFrame("BINARY", TCPBytes(c))
  OBVIOUS
<1>5. /\ c \in CallSet /\ Current \in 1..Len(calls)
      /\ st[Current + 1] = st[Current] + Len(BytesOf(socket_type, c))
  BY <1>3, <1>4, CallInStream, Zenon
<1>6. /\ st[Current] = 0 /\ Len(buff) + need = 6 + e + n
      /\ frame = [header_size |-> 6 + e, mask_offset |-> 2 + e, payload_size |-> n]
  BY <1>2, <1>3, <1>4, Zenon DEF InFrame
<1>7. n \in Nat /\ n >= 8 /\ e \in {0, 2, 8} /\ F \in Seq(WireBytes) /\ Len(F) = 6 + e + n
  BY <1>4, <1>5, FrameSizes, Zenon
<1>8. Len(buff) = Len(F) /\ Len(buff) \in Nat
  BY <1>1, <1>6, <1>7, CurrentFacts
<1>9. BytesOf(socket_type, c) = F
  BY <1>3, <1>4, <1>5, BytesFacts
<1>10. buff = F
  <2>1. Len(buff) <= Len(BytesOf(socket_type, calls[Current]))
    BY <1>4, <1>8, <1>9
  <2>2. buff = SubSeq(F, 1, Len(buff))
    BY <1>3, <1>4, <1>6, <2>1, FrameRead, Zenon
  <2>3. SubSeq(F, 1, Len(F)) = F
    BY <1>7, SubSeqFull, Zenon
  <2> QED
    BY <1>8, <2>2, <2>3, Zenon
<1>11. decode_raw_stream_cmd = B
  BY <1>4, <1>5, <1>6, <1>10, Unmasked, Zenon
<1>12. /\ cmd' = Whole(c) /\ spc' = "exec" /\ need' = 0 /\ buff' = <<>> /\ down_end' = down_end
  <2>1. ~(frame.payload_size < S!HEADER_SIZE) /\ S!HEADER_SIZE = 8 /\ 8 + 1 = 9
    BY <1>6, <1>7 DEF S!HEADER_SIZE
  <2>2. PICK d : d = OperationOf(SubSeq(B, 1, 8)) /\ d = [op |-> c.op, packs |-> Packs[c.op], args |-> <<>>, cut |-> FALSE]
    BY <1>4, <1>5, PackFacts, Zenon
  <2>3. PICK a : a = Parsed(d.packs, SubSeq(B, 9, Len(B)))[Len(d.packs)].values
    OBVIOUS
  <2>4. /\ cmd' = [d EXCEPT !.packs = <<>>, !.args = a] /\ Loop("exec", 0) /\ UNCHANGED down_end
    BY <1>11, <2>1, <2>2, <2>3, ZenonT(60) DEF ReadFrame
  <2>5. a = c.args
    <3>1. d.packs = Packs[c.op]
      BY <2>2
    <3>2. a = At(c, Len(Packs[c.op])).values
      BY <1>4, <2>3, <3>1, Zenon DEF At
    <3>3. At(c, Len(Packs[c.op])) = [position |-> Len(TCPBytes(c)) - 8, values |-> c.args]
      BY <1>5, PackFacts, Zenon
    <3>4. At(c, Len(Packs[c.op])).values = c.args
      BY <3>3
    <3> QED
      BY <3>2, <3>4, Zenon
  <2>6. cmd' = Whole(c)
    <3>1. PICK z, o, p, q : z = FALSE /\ o = c.op /\ p = Packs[c.op] /\ q = <<>>
      OBVIOUS
    <3>2. IsCommand(d, o, p, q, z)
      BY <2>2, <3>1, Zenon DEF IsCommand
    <3>3. [d EXCEPT !.packs = q, !.args = a] = [op |-> o, packs |-> q, args |-> a, cut |-> z]
      <4>1. d = [op |-> o, packs |-> p, args |-> q, cut |-> z]
        BY <3>2, Zenon DEF IsCommand
      <4>2. PICK f : f = [d EXCEPT !.packs = q]
        OBVIOUS
      <4>3. f = [op |-> o, packs |-> q, args |-> q, cut |-> z]
        BY ONLY <4>1, <4>2
      <4>4. PICK g : g = [f EXCEPT !.args = a]
        OBVIOUS
      <4>5. g = [op |-> o, packs |-> q, args |-> a, cut |-> z]
        BY ONLY <4>3, <4>4
      <4> QED
        BY <4>2, <4>4, <4>5, Zenon
    <3> QED
      BY <2>4, <2>5, <3>1, <3>3, Zenon DEF Whole
  <2> QED
    BY <2>4, <2>6, Zenon DEF Loop
<1>13. /\ socket_type' = socket_type /\ up' = up /\ up_end' = up_end /\ executed' = executed
       /\ calls' = calls /\ Current' = Current
  BY <1>1 DEF client_vars, Current
<1>14. PICK su : /\ Stream(su)'
                 /\ \A i \in 1..(Len(calls) + 1) : su[i] = st[i] - Len(buff) /\ st[i] \in Int
  <2>1. UNCHANGED <<socket_type, up, up_end, calls>>
    BY <1>13
  <2> QED
    BY <1>3, <1>12, <2>1, Consumed, Zenon
<1>15. su[Current + 1] = 0
  <2>1. Current + 1 \in 1..(Len(calls) + 1)
    BY <1>5, CurrentFacts
  <2>2. su[Current + 1] = st[Current + 1] - Len(buff) /\ st[Current + 1] = 0 + Len(F)
    BY <1>5, <1>6, <1>9, <1>14, <2>1, Zenon
  <2> QED
    BY <1>8, <2>2
<1>16. Position(su)'
  <2>1. Complete(su, c)'
    BY <1>12, <1>13, <1>15, Zenon DEF Complete
  <2> QED
    BY <1>3, <1>4, <1>13, <2>1, Zenon DEF Position
<1>17. Typing'
  <2>1. down_end' \in BOOLEAN /\ need' \in Nat
    BY <1>12 DEF Typing
  <2>2. cmd'.op \in DOMAIN Operations \cup {"none"} /\ cmd'.cut \in BOOLEAN
    <3>1. cmd'.op = c.op /\ cmd'.cut = FALSE
      BY <1>12 DEF Whole
    <3> QED
      BY <1>5, <3>1, CallFacts
  <2> QED
    BY <1>1, <1>12, <1>13, <2>1, <2>2, TypingStep, Zenon
<1>18. RanAsCalled'
  BY <1>3, <1>13, RanStays, Zenon
<1> QED
  BY <1>14, <1>16, <1>17, <1>18, Zenon DEF Uplink

-----------------------------------------------------------------------------
(* The handshake, and the operations *)

\* A step after which the session starts over or ends keeps the types.
LEMMA SessionTyping ==
  ASSUME Typing, UNCHANGED <<socket_type, up_end, client_vars>>, up' \in Seq(WireBytes),
         socket_type = "WEBSOCK" \/ up' = up, down' \in Seq(WireBytes), Sequence(executed'),
         down_end' \in BOOLEAN, NextCommand \/ End
  PROVE  Typing'
<1>1. /\ socket_type' = socket_type /\ up_end' = up_end
      /\ cpc' = cpc /\ rneed' = rneed /\ rbuf' = rbuf /\ calls' = calls /\ received' = received
  BY DEF client_vars
<1>2. /\ buff' = <<>> /\ cmd' = NoCommand /\ spc' \in {"header", "ws_head", "ended"} /\ need' \in {0, 6, 8}
  BY DEF NextCommand, End, Loop, S!HEADER_SIZE
<1>3. need' \in Nat /\ buff' \in Seq(WireBytes)
  BY <1>2
<1>4. cmd'.op \in DOMAIN Operations \cup {"none"} /\ cmd'.cut \in BOOLEAN
  BY <1>2, NoCommandType, Zenon
<1>5. spc' \in {"http", "header", "length", "pack", "exec", "ws_head", "ws_ext",
                "ws_payload", "ended", "aborted"}
  BY <1>2
<1>6. socket_type' = "TCP" => up' \in Seq(0..(Radix - 1))
  BY <1>1 DEF Typing
<1> QED
  BY <1>1, <1>3, <1>4, <1>5, <1>6, Zenon DEF Typing

LEMMA AcceptedType == Accepted \in Seq(WireBytes)
<1>1. Byte("101", 0) \in WireBytes
  BY ByteType
<1> QED
  BY <1>1 DEF Accepted

\* The handshake is the only state in which the request is read.
LEMMA AtHandshake ==
  ASSUME Typing, Uplink, spc = "http"
  PROVE  Handshake
<1>1. ~Stopped
  BY DEF Stopped
<1>2. ~CutShort
  BY DEF CutShort, InCutCall
<1>3. \A st : ~Position(st)
  <2> SUFFICES ASSUME NEW st PROVE ~Position(st)
    OBVIOUS
  <2>1. ~Between(st)
    BY DEF Between
  <2>2. spc # "length" /\ spc # "pack" /\ spc # "ws_ext" /\ spc # "ws_payload" /\ spc # "exec"
    OBVIOUS
  <2> QED
    BY <2>1, <2>2, Zenon DEF Position, InPack, InFrame, Complete
<1> QED
  BY <1>1, <1>2, <1>3, Zenon DEF Uplink

\* Nothing has been called and nothing is on its way.
LEMMA NothingCalled ==
  ASSUME calls = <<>>, executed = <<>>, up = <<>>, buff = <<>>, socket_type \in {"TCP", "WEBSOCK"},
         spc = IF socket_type = "WEBSOCK" THEN "ws_head" ELSE "header",
         need = IF socket_type = "WEBSOCK" THEN 6 ELSE 8,
         cmd = NoCommand
  PROVE  Uplink
<1>1. PICK st : st = [i \in {1} |-> 0]
  OBVIOUS
<1>2. Len(calls) = 0 /\ Len(calls) + 1 = 1 /\ st[1] = 0 /\ Current = 1 /\ buff \o up = <<>> /\ Len(buff) = 0 /\ Len(up) = 0
  BY <1>1 DEF Current
<1>3. Layout(socket_type, st, buff \o up, calls)
  <2>1. <<>> \in Seq(WireBytes) /\ Len(<<>>) = 0 /\ <<>> \in Seq(CallSet) /\ st \in [1..1 -> Int] /\ st[1] <= st[1]
    BY <1>1
  <2>2. 1..Len(calls) = {} /\ 1..(Len(calls) + 1) = {1} /\ 1..Len(buff \o up) = {}
    BY <1>2
  <2> QED
    BY <1>2, <2>1, <2>2 DEF Layout
<1>4. Stream(st)
  BY <1>2, <1>3 DEF Stream
<1>5. Between(st)
  <2>1. Len(buff) + need = need /\ Current <= Len(calls) + 1 /\ st[Current] = 0
    BY <1>2
  <2> QED
    BY <2>1 DEF Between
<1>6. RanAsCalled
  BY DEF RanAsCalled
<1> QED
  BY <1>4, <1>5, <1>6, Zenon DEF Uplink, Position

\* authenticate: the request has come in one piece, or the session ends.
LEMMA AuthenticateKeeps ==
  ASSUME Typing, Uplink, Authenticate, UNCHANGED client_vars
  PROVE  Typing' /\ Uplink'
<1>1. /\ Handshake /\ UNCHANGED <<socket_type, up_end, client_vars>>
      /\ socket_type' = socket_type /\ up_end' = up_end /\ executed' = executed
      /\ cpc' = cpc /\ calls' = calls
  BY AtHandshake DEF Authenticate, client_vars
<1>2. /\ socket_type = "WEBSOCK" /\ calls = <<>> /\ executed = <<>> /\ Len(up) <= HttpLength
      /\ cpc \in {"opening", "gone"}
  BY <1>1, Zenon DEF Handshake
<1>3. up \in Seq(WireBytes) /\ down \in Seq(WireBytes) /\ Len(up) \in Nat /\ Sequence(executed) /\ down_end \in BOOLEAN
  BY CurrentFacts DEF Typing
<1>4. ASSUME End, up' \in Seq(WireBytes), down' = down
      PROVE  Typing' /\ Uplink'
  <2>1. down_end' \in BOOLEAN /\ spc' = "ended" /\ need' = 0 /\ cmd' = NoCommand
    BY <1>4 DEF End, Loop
  <2>2. Typing'
    BY <1>1, <1>2, <1>3, <1>4, <2>1, SessionTyping, Zenon
  <2>3. ExecutedAsCalled'
    BY <1>1, <1>2 DEF ExecutedAsCalled
  <2>4. SessionEndsForAReason'
    <3>1. up_end' = "open" => cpc' = "opening"
      BY <1>1, <1>2 DEF Typing
    <3> QED
      BY <1>1, <1>2, <2>1, <3>1 DEF SessionEndsForAReason
  <2> QED
    BY <2>1, <2>2, <2>3, <2>4, Zenon DEF Stopped, Uplink
<1>5. ASSUME NEW k \in 1..Len(up), up' = SubSeq(up, k + 1, Len(up))
      PROVE  up' \in Seq(WireBytes) /\ (k = HttpLength => up' = <<>>)
  <2>1. k \in Nat /\ k <= Len(up) /\ HttpLength \in Nat
    BY <1>3, LinkAssumption
  <2>2. up' \in Seq(WireBytes)
    BY <1>3, <1>5, <2>1, ReadMoves, Zenon
  <2>3. k = HttpLength => k = Len(up)
    BY <1>2, <1>3, <2>1
  <2>4. k = Len(up) => SubSeq(up, k + 1, Len(up)) = <<>>
    BY <1>3, <2>1
  <2> QED
    BY <1>5, <2>2, <2>3, <2>4, Zenon
<1>6. ASSUME up' = <<>>, NextCommand, down_end' = down_end, down' \in Seq(WireBytes)
      PROVE  Typing' /\ Uplink'
  <2>1. Typing'
    <3>1. up' \in Seq(WireBytes)
      BY <1>6
    <3> QED
      BY <1>1, <1>2, <1>3, <1>6, <3>1, SessionTyping, Zenon
  <2>2. spc' = "ws_head" /\ need' = 6 /\ buff' = <<>> /\ cmd' = NoCommand
    BY <1>2, <1>6, Zenon DEF NextCommand, Loop
  <2>3. /\ calls' = <<>> /\ executed' = <<>> /\ socket_type' = "WEBSOCK"
    BY <1>1, <1>2
  <2>4. Uplink'
    <3>1. PICK st : st = [i \in {1} |-> 0]
      OBVIOUS
    <3>2. Len(calls') + 1 = 1 /\ st[1] = 0 /\ Current' = 1 /\ buff' \o up' = <<>> /\ Len(buff') = 0 /\ Len(up') = 0
      BY <1>6, <2>2, <2>3, <3>1 DEF Current
    <3>3. Layout("WEBSOCK", st, <<>>, <<>>)
      <4>1. <<>> \in Seq(WireBytes) /\ Len(<<>>) = 0 /\ <<>> \in Seq(CallSet) /\ st \in [1..1 -> Int] /\ st[1] <= st[1]
        BY <3>1
      <4>2. 1..Len(<<>>) = {} /\ 1..(Len(<<>>) + 1) = {1}
        OBVIOUS
      <4> QED
        BY <4>1, <4>2 DEF Layout
    <3>4. Stream(st)'
      BY <2>3, <3>2, <3>3 DEF Stream
    <3>5. Between(st)'
      BY <2>2, <2>3, <3>2 DEF Between
    <3>6. RanAsCalled'
      BY <2>3 DEF RanAsCalled
    <3> QED
      BY <3>4, <3>5, <3>6, Zenon DEF Uplink, Position
  <2> QED
    BY <2>1, <2>4
<1>7. CASE up = <<>> /\ up_end # "open" /\ End /\ UNCHANGED <<up, down>>
  <2>1. up' \in Seq(WireBytes) /\ down' = down /\ End
    BY <1>3, <1>7
  <2> QED
    BY <1>4, <2>1, Zenon
<1>8. ASSUME NEW k \in 1..Len(up), up' = SubSeq(up, k + 1, Len(up)),
             IF k = HttpLength /\ k # KOHERON_READ_STR_LEN THEN Written(Accepted)
             ELSE End /\ UNCHANGED down
      PROVE  Typing' /\ Uplink'
  <2>1. up' \in Seq(WireBytes) /\ (k = HttpLength => up' = <<>>)
    BY <1>5, <1>8, Zenon
  <2>2. CASE k # HttpLength \/ k = KOHERON_READ_STR_LEN
    BY <1>4, <1>8, <2>1, <2>2, Zenon
  <2>3. CASE k = HttpLength /\ k # KOHERON_READ_STR_LEN
    <3>1. Written(Accepted) /\ up' = <<>>
      BY <1>8, <2>1, <2>3, Zenon
    <3>2. down \o Accepted \in Seq(WireBytes)
      BY <1>3, AcceptedType, Concat, Zenon
    <3>3. \/ down' = down \o Accepted /\ NextCommand /\ down_end' = down_end
          \/ NextCommand /\ down_end' = down_end /\ down' = down
          \/ End /\ down' = down
      BY <3>1, Zenon DEF Written
    <3> QED
      BY <1>3, <1>4, <1>6, <2>1, <3>1, <3>2, <3>3, Zenon
  <2> QED
    BY <2>2, <2>3, Zenon
<1> QED
  BY <1>7, <1>8, Zenon DEF Authenticate

\* The bytes of an answer.
Answer(o, ret) == IF socket_type = "WEBSOCK" THEN UnmaskedFrame(Replies[o][ret]) ELSE Replies[o][ret]

\* What CodecAssumption says of an answer.
LEMMA ReplyFacts ==
  ASSUME Typing, NEW o \in DOMAIN Operations, NEW ret \in Operations[o].results
  PROVE  /\ ReplyDecodes(o, ret) /\ (ret = <<>> <=> Operations[o].ret = <<>>)
         /\ ret # <<>> => /\ Replies[o][ret] \in Seq(0..(Radix - 1)) /\ Replies[o][ret] \in Seq(WireBytes)
                          /\ LengthDecodes(Len(Replies[o][ret])) /\ Answer(o, ret) \in Seq(WireBytes)
<1>1. ReplyDecodes(o, ret)
  BY CodecAssumption, Zenon
<1>2. ret = <<>> <=> Operations[o].ret = <<>>
  BY <1>1, Zenon DEF ReplyDecodes
<1>3. ASSUME ret # <<>>
      PROVE  /\ Replies[o][ret] \in Seq(0..(Radix - 1)) /\ Replies[o][ret] \in Seq(WireBytes)
             /\ LengthDecodes(Len(Replies[o][ret])) /\ Answer(o, ret) \in Seq(WireBytes)
  <2>1. Replies[o][ret] \in Seq(0..(Radix - 1)) /\ LengthDecodes(Len(Replies[o][ret]))
    BY <1>1, <1>3, Zenon DEF ReplyDecodes
  <2>2. (0..(Radix - 1)) \subseteq WireBytes
    BY DEF WireBytes
  <2>3. Replies[o][ret] \in Seq(WireBytes)
    BY <2>1, <2>2, SeqMonotonic
  <2>4. UnmaskedFrame(Replies[o][ret]) \in Seq(WireBytes)
    BY <2>1, UnmaskedFrameShape, Zenon
  <2> QED
    BY <2>1, <2>3, <2>4, Zenon DEF Answer
<1> QED
  BY <1>1, <1>2, <1>3, Zenon

\* What Execute does with an operation.
LEMMA ExecuteCases ==
  ASSUME Execute, cmd.op # "none"
  PROVE  \E ret \in Operations[cmd.op].results :
            /\ executed' = Append(executed, [op |-> cmd.op, args |-> cmd.args, cut |-> cmd.cut, ret |-> ret])
            /\ \/ /\ NextCommand /\ down_end' = down_end /\ down' = down
                  /\ \/ ret = <<>>
                     \/ up_end # "open"
                     \/ socket_type = "WEBSOCK"
               \/ /\ NextCommand /\ down_end' = down_end /\ down' = down \o Answer(cmd.op, ret)
                  /\ up_end = "open" /\ ret # <<>>
               \/ End /\ up_end # "open" /\ socket_type = "WEBSOCK" /\ down' = down
<1>1. PICK ret \in Operations[cmd.op].results :
         /\ executed' = Append(executed, [op |-> cmd.op, args |-> cmd.args, cut |-> cmd.cut, ret |-> ret])
         /\ IF ret = <<>> THEN NextCommand /\ UNCHANGED <<down, down_end>>
            ELSE Send(Replies[cmd.op][ret])
  BY Zenon DEF Execute
<1>2. CASE ret = <<>>
  <2>1. NextCommand /\ down' = down /\ down_end' = down_end
    BY <1>1, <1>2
  <2> QED
    BY <1>1, <1>2, <2>1, Zenon
<1>3. CASE ret # <<>>
  <2>1. Send(Replies[cmd.op][ret])
    BY <1>1, <1>3, Zenon
  <2>2. \/ NextCommand /\ UNCHANGED <<down, down_end>> /\ socket_type = "WEBSOCK"
        \/ Written(Answer(cmd.op, ret))
    BY <2>1, Zenon DEF Send, Answer
  <2>3. CASE Written(Answer(cmd.op, ret))
    <3>1. \/ up_end = "open" /\ down' = down \o Answer(cmd.op, ret) /\ NextCommand /\ down_end' = down_end
          \/ up_end # "open" /\ NextCommand /\ down_end' = down_end /\ down' = down
          \/ up_end # "open" /\ socket_type = "WEBSOCK" /\ End /\ down' = down
      BY <2>3, Zenon DEF Written
    <3> QED
      BY <1>1, <1>3, <3>1, Zenon
  <2>4. CASE NextCommand /\ UNCHANGED <<down, down_end>> /\ socket_type = "WEBSOCK"
    <3>1. NextCommand /\ down' = down /\ down_end' = down_end /\ socket_type = "WEBSOCK"
      BY <2>4
    <3> QED
      BY <1>1, <3>1, Zenon
  <2> QED
    BY <2>2, <2>3, <2>4, Zenon
<1> QED
  BY <1>2, <1>3, Zenon

\* A session that is about to run an operation.
LEMMA AtExecution ==
  ASSUME Typing, Uplink, spc = "exec"
  PROVE  /\ RanAsCalled /\ Current <= Len(calls) /\ Current \in 1..Len(calls) /\ calls[Current] \in CallSet
         /\ cmd.op = calls[Current].op /\ cmd.op \in DOMAIN Operations /\ cmd.op # "none"
         /\ \/ \E st : Stream(st) /\ Complete(st, calls[Current])
            \/ /\ socket_type = "TCP" /\ up = <<>> /\ up_end = "eof" /\ buff = <<>>
               /\ InCutCall(calls[Current], Len(Packs[calls[Current].op]) + 1)
<1>1. spc # "http" /\ spc # "ended" /\ spc # "aborted" /\ spc # "header" /\ spc # "length" /\ spc # "pack"
      /\ spc # "ws_head" /\ spc # "ws_ext" /\ spc # "ws_payload"
  OBVIOUS
<1>2. /\ RanAsCalled /\ Current <= Len(calls)
      /\ \/ \E st : Stream(st) /\ Complete(st, calls[Current])
         \/ /\ socket_type = "TCP" /\ up = <<>> /\ up_end = "eof" /\ buff = <<>>
            /\ InCutCall(calls[Current], Len(Packs[calls[Current].op]) + 1)
  <2>1. CASE CutShort
    BY <1>1, <2>1, Zenon DEF CutShort, InCutCall
  <2>2. CASE RanAsCalled /\ \E st : Stream(st) /\ Position(st)
    <3>1. PICK st : Stream(st) /\ Position(st)
      BY <2>2
    <3>2. ~Between(st)
      BY <1>1, Zenon DEF Between
    <3>3. Current <= Len(calls) /\ Complete(st, calls[Current])
      BY <1>1, <3>1, <3>2, Zenon DEF Position, InPack, InFrame
    <3> QED
      BY <2>2, <3>1, <3>3, Zenon
  <2> QED
    BY <1>1, <2>1, <2>2, Zenon DEF Uplink, Handshake, Stopped
<1>3. Current \in 1..Len(calls) /\ calls[Current] \in CallSet
  BY <1>2, CurrentFacts
<1>4. cmd.op = calls[Current].op
  <2>1. CASE \E st : Stream(st) /\ Complete(st, calls[Current])
    BY <2>1 DEF Complete, Whole
  <2>2. CASE InCutCall(calls[Current], Len(Packs[calls[Current].op]) + 1)
    BY <2>2 DEF InCutCall
  <2> QED
    BY <1>2, <2>1, <2>2, Zenon
<1>5. cmd.op \in DOMAIN Operations /\ cmd.op # "none"
  BY <1>3, <1>4, CallFacts, PackFacts, Zenon
<1> QED
  BY <1>2, <1>3, <1>4, <1>5, Zenon

\* What ran last ran with what there was of its arguments.
LEMMA RanCut ==
  ASSUME Typing, RanAsCalled, Current <= Len(calls), socket_type = "TCP", up_end = "eof",
         InCutCall(calls[Current], Len(Packs[calls[Current].op]) + 1), NEW ret,
         executed' = Append(executed, [op |-> cmd.op, args |-> cmd.args, cut |-> cmd.cut, ret |-> ret]),
         UNCHANGED <<socket_type, up_end, calls>>
  PROVE  ExecutedAsCalled'
<1>1. PICK c, P : c = calls[Current] /\ P = Packs[c.op]
  OBVIOUS
<1>2. /\ c \in CallSet /\ Current \in 1..Len(calls) /\ DOMAIN calls = 1..Len(calls)
      /\ Len(executed) \in Nat /\ Sequence(executed) /\ Len(calls) \in Nat
  BY <1>1, CurrentFacts DEF Typing
<1>3. /\ cmd.op = c.op /\ cmd.cut = TRUE /\ CutArgs(c, cmd.args, Len(P) + 1)
  BY <1>1 DEF InCutCall
<1>4. PICK a : a = cmd.args
  OBVIOUS
<1>5. Len(a) = Len(c.args) /\ DOMAIN c.args = 1..Len(c.args)
  <2>1. (Len(P) + 1) - 1 = Len(P)
    BY <1>1, <1>2, PackFacts
  <2>2. At(c, Len(P)) = [position |-> Len(TCPBytes(c)) - 8, values |-> c.args]
    BY <1>1, <1>2, PackFacts, Zenon
  <2>3. At(c, Len(P)).values = c.args
    BY <2>2
  <2>4. Len(a) = Len(At(c, Len(P)).values)
    BY <1>3, <1>4, <2>1, Zenon DEF CutArgs
  <2> QED
    BY <1>2, <2>3, <2>4, ArgsFacts, Zenon
<1>6. PICK k \in 1..Len(a) :
          /\ Current = Len(calls) \/ a[k] = <<>>
          /\ \A j \in 1..(k - 1) : a[j] = c.args[j]
          /\ \A j \in k..Len(a) :
                \/ a[j] = Unknown
                \/ HasLength(<<Operations[c.op].args[j]>>) /\ a[j] = <<>>
  BY <1>3, <1>4, Zenon DEF CutArgs
<1>7. PICK r : r = [op |-> cmd.op, args |-> cmd.args, cut |-> cmd.cut, ret |-> ret]
  OBVIOUS
<1>8. /\ Len(executed') = Current /\ DOMAIN executed' = 1..Current /\ executed'[Current] = r
      /\ \A i \in 1..Len(executed) : executed'[i] = executed[i]
      /\ DOMAIN executed = 1..Len(executed)
  <2>1. executed' = Append(executed, r)
    BY <1>7, Zenon
  <2>2. /\ Sequence(Append(executed, r)) /\ Len(executed) \in Nat /\ DOMAIN executed = 1..Len(executed)
        /\ Len(Append(executed, r)) = Len(executed) + 1
        /\ DOMAIN Append(executed, r) = 1..(Len(executed) + 1)
        /\ Append(executed, r)[Len(executed) + 1] = r
        /\ \A i \in 1..Len(executed) : Append(executed, r)[i] = executed[i]
    BY <1>2, AppendToSequence
  <2> QED
    BY <2>1, <2>2, Zenon DEF Current
<1>9. r.op = c.op /\ r.args = a /\ r.cut
  BY <1>3, <1>4, <1>7
<1>10. calls' = calls /\ socket_type' = "TCP" /\ up_end' # "open"
  OBVIOUS
<1> SUFFICES ASSUME NEW i \in DOMAIN executed'
             PROVE  /\ i \in DOMAIN calls' /\ executed'[i].op = calls'[i].op
                    /\ Len(executed'[i].args) = Len(calls'[i].args)
                    /\ \/ ~executed'[i].cut /\ executed'[i].args = calls'[i].args
                       \/ /\ executed'[i].cut
                          /\ i = Len(executed') /\ up_end' # "open" /\ socket_type' = "TCP"
                          /\ \E l \in DOMAIN calls'[i].args :
                                /\ i = Len(calls') \/ executed'[i].args[l] = <<>>
                                /\ \A j \in 1..(l - 1) : executed'[i].args[j] = calls'[i].args[j]
                                /\ \A j \in l..Len(calls'[i].args) :
                                      \/ executed'[i].args[j] = Unknown
                                      \/ /\ HasLength(<<Operations[calls'[i].op].args[j]>>)
                                         /\ executed'[i].args[j] = <<>>
  BY Zenon DEF ExecutedAsCalled
<1>11. CASE i = Current
  <2>1. executed'[i] = r /\ calls'[i] = c /\ i \in DOMAIN calls' /\ i = Len(executed')
    BY <1>1, <1>2, <1>8, <1>10, <1>11, Zenon
  <2>2. executed'[i].op = calls'[i].op /\ executed'[i].args = a /\ executed'[i].cut
    BY <1>9, <2>1, Zenon
  <2>3. k \in DOMAIN calls'[i].args
    BY <1>5, <1>6, <2>1, Zenon
  <2>4. i = Len(calls') \/ a[k] = <<>>
    BY <1>6, <1>10, <1>11, Zenon
  <2>5. \A j \in k..Len(c.args) : \/ a[j] = Unknown
                                  \/ HasLength(<<Operations[c.op].args[j]>>) /\ a[j] = <<>>
    BY <1>5, <1>6, Zenon
  <2> QED
    BY <1>5, <1>6, <1>10, <2>1, <2>2, <2>3, <2>4, <2>5, Zenon
<1>12. CASE i # Current
  <2>1. i \in 1..Len(executed)
    BY <1>2, <1>8, <1>12 DEF Current
  <2>2. executed'[i] = executed[i] /\ i \in DOMAIN executed
    BY <1>8, <2>1, Zenon
  <2> QED
    BY <1>10, <2>2, Zenon DEF RanAsCalled
<1> QED
  BY <1>11, <1>12, Zenon

\* The operation runs, and the next call starts where this one ends.
LEMMA ExecuteKeeps ==
  ASSUME Typing, Uplink, Execute, UNCHANGED client_vars
  PROVE  Typing' /\ Uplink'
<1>1. /\ spc = "exec" /\ UNCHANGED <<socket_type, up_end, client_vars>>
      /\ socket_type' = socket_type /\ up' = up /\ up_end' = up_end /\ calls' = calls
  BY DEF Execute, client_vars
<1>2. PICK c : c = calls[Current]
  OBVIOUS
<1>3. /\ RanAsCalled /\ Current <= Len(calls) /\ Current \in 1..Len(calls) /\ c \in CallSet
      /\ cmd.op = c.op /\ cmd.op \in DOMAIN Operations /\ cmd.op # "none"
      /\ \/ \E st : Stream(st) /\ Complete(st, c)
         \/ /\ socket_type = "TCP" /\ up = <<>> /\ up_end = "eof" /\ buff = <<>>
            /\ InCutCall(c, Len(Packs[c.op]) + 1)
  BY <1>1, <1>2, AtExecution, Zenon
<1>4. PICK ret \in Operations[cmd.op].results :
            /\ executed' = Append(executed, [op |-> cmd.op, args |-> cmd.args, cut |-> cmd.cut, ret |-> ret])
            /\ \/ /\ NextCommand /\ down_end' = down_end /\ down' = down
                  /\ \/ ret = <<>>
                     \/ up_end # "open"
                     \/ socket_type = "WEBSOCK"
               \/ /\ NextCommand /\ down_end' = down_end /\ down' = down \o Answer(cmd.op, ret)
                  /\ up_end = "open" /\ ret # <<>>
               \/ End /\ up_end # "open" /\ socket_type = "WEBSOCK" /\ down' = down
  BY <1>3, ExecuteCases, Zenon
<1>5. PICK r : r = [op |-> cmd.op, args |-> cmd.args, cut |-> cmd.cut, ret |-> ret] /\ executed' = Append(executed, r)
  BY <1>4, Zenon
<1>6. /\ Sequence(executed) /\ Sequence(executed') /\ Len(executed) \in Nat /\ DOMAIN executed = 1..Len(executed)
      /\ Len(executed') = Len(executed) + 1 /\ DOMAIN executed' = 1..(Len(executed) + 1)
      /\ executed'[Len(executed) + 1] = r
      /\ \A i \in 1..Len(executed) : executed'[i] = executed[i]
  <2>1. Sequence(executed)
    BY DEF Typing
  <2>2. /\ Sequence(Append(executed, r)) /\ Len(executed) \in Nat /\ DOMAIN executed = 1..Len(executed)
        /\ Len(Append(executed, r)) = Len(executed) + 1
        /\ DOMAIN Append(executed, r) = 1..(Len(executed) + 1)
        /\ Append(executed, r)[Len(executed) + 1] = r
        /\ \A i \in 1..Len(executed) : Append(executed, r)[i] = executed[i]
    BY ONLY <2>1, AppendToSequence
  <2> QED
    BY <1>5, <2>1, <2>2, Zenon
<1>7. Typing'
  <2>1. down' \in Seq(WireBytes)
    <3>1. down \in Seq(WireBytes)
      BY DEF Typing
    <3>2. ret # <<>> => down \o Answer(cmd.op, ret) \in Seq(WireBytes)
      BY <1>3, <3>1, ReplyFacts, Concat, Zenon
    <3> QED
      BY <1>4, <3>1, <3>2, Zenon
  <2>2. down_end' \in BOOLEAN /\ (NextCommand \/ End)
    <3>1. down_end \in BOOLEAN /\ (End => down_end' = TRUE)
      BY DEF Typing, End
    <3>2. TRUE \in BOOLEAN
      OBVIOUS
    <3> QED
      BY <1>4, <3>1, <3>2, Zenon
  <2>3. up' \in Seq(WireBytes)
    BY <1>1 DEF Typing
  <2> QED
    BY <1>1, <1>6, <2>1, <2>2, <2>3, SessionTyping, Zenon
<1>8. Current' = Current + 1 /\ Current' <= Len(calls) + 1
  <2>1. Current' = Len(executed') + 1
    BY DEF Current
  <2> QED
    BY <1>3, <1>6, <2>1, CurrentFacts DEF Current
<1>9. CASE \E st : Stream(st) /\ Complete(st, c)
  <2>1. PICK st : Stream(st) /\ Complete(st, c)
    BY <1>9
  <2>2. buff = <<>> /\ cmd = Whole(c) /\ st[Current + 1] = 0
    BY <2>1, Zenon DEF Complete
  <2>3. RanAsCalled'
    <3>1. r.op = c.op /\ r.args = c.args /\ ~r.cut
      BY <1>5, <2>2 DEF Whole
    <3> SUFFICES ASSUME NEW i \in DOMAIN executed'
                 PROVE  /\ i \in DOMAIN calls' /\ executed'[i].op = calls'[i].op
                        /\ executed'[i].args = calls'[i].args /\ ~executed'[i].cut
      BY Zenon DEF RanAsCalled
    <3>2. CASE i = Current
      <4>1. executed'[i] = r /\ calls'[i] = c
        BY <1>1, <1>2, <1>6, <3>2, Zenon DEF Current
      <4>2. i \in DOMAIN calls'
        BY <1>1, <1>3, <3>2, CurrentFacts
      <4> QED
        BY <3>1, <4>1, <4>2, Zenon
    <3>3. CASE i # Current
      <4>1. i \in 1..Len(executed)
        BY <1>6, <3>3 DEF Current
      <4>2. executed'[i] = executed[i] /\ i \in DOMAIN executed
        BY <1>6, <4>1, Zenon
      <4> QED
        BY <1>1, <1>3, <4>2, Zenon DEF RanAsCalled
    <3> QED
      BY <3>2, <3>3, Zenon
  <2>4. CASE NextCommand
    <3>1. buff' = buff
      BY <2>2, <2>4, Zenon DEF NextCommand, Loop
    <3>2. Stream(st)'
      <4>1. UNCHANGED <<socket_type, up, up_end, buff, calls>>
        BY <1>1, <3>1
      <4> QED
        BY <2>1, <4>1, SameStream, Zenon
    <3>3. Position(st)'
      <4>1. st[Current'] = 0 /\ UNCHANGED <<socket_type, calls>>
        BY <1>1, <1>8, <2>2
      <4> QED
        BY <1>8, <2>4, <4>1, StartsOver, Zenon
    <3> QED
      BY <1>7, <2>3, <3>2, <3>3, Zenon DEF Uplink
  <2>5. CASE End /\ up_end # "open"
    <3>1. cmd' = NoCommand /\ spc' = "ended" /\ need' = 0 /\ up_end' # "open"
      BY <1>1, <2>5 DEF End, Loop
    <3>2. ExecutedAsCalled'
      BY <2>3, Zenon DEF RanAsCalled, ExecutedAsCalled
    <3>3. SessionEndsForAReason'
      BY <3>1 DEF SessionEndsForAReason
    <3> QED
      BY <1>7, <3>1, <3>2, <3>3, Zenon DEF Stopped, Uplink
  <2> QED
    BY <1>4, <2>4, <2>5, Zenon
<1>10. CASE /\ socket_type = "TCP" /\ up = <<>> /\ up_end = "eof" /\ buff = <<>>
            /\ InCutCall(c, Len(Packs[c.op]) + 1)
  <2>1. NextCommand
    <3>1. socket_type # "WEBSOCK"
      BY <1>10
    <3> QED
      BY <1>4, <3>1, Zenon
  <2>2. cmd' = NoCommand /\ buff' = <<>> /\ spc' = "header" /\ need' = 8
    BY <1>10, <2>1 DEF NextCommand, Loop, S!HEADER_SIZE
  <2>3. need' > 0
    BY <2>2
  <2>4. ExecutedAsCalled'
    <3>1. UNCHANGED <<socket_type, up_end, calls>>
      BY <1>1
    <3> QED
      BY <1>2, <1>3, <1>4, <1>10, <3>1, RanCut, Zenon
  <2>5. socket_type' = "TCP" /\ up' = <<>> /\ up_end' = "eof"
    BY <1>1, <1>10
  <2> QED
    BY <1>7, <2>2, <2>3, <2>4, <2>5, Zenon DEF CutShort, Uplink
<1> QED
  BY <1>3, <1>9, <1>10, Zenon

-----------------------------------------------------------------------------
(* The client *)

SessionStays == UNCHANGED <<socket_type, down_end, spc, need, buff, cmd, executed, frame>>

\* A step of the client keeps the types.
LEMMA ClientTyping ==
  ASSUME Typing, SessionStays, up' \in Seq(WireBytes),
         socket_type = "TCP" => up' \in Seq(0..(Radix - 1)),
         down' \in Seq(WireBytes), rbuf' \in Seq(WireBytes), rneed' \in Nat,
         calls' \in Seq(CallSet), Len(calls') <= MaxCalls, Sequence(received'),
         up_end' \in {"open", "eof", "reset"}, cpc' \in {"opening", "idle", "answer", "length", "gone"},
         (cpc' = "gone") <=> (up_end' # "open")
  PROVE  Typing'
<1>1. /\ socket_type' = socket_type /\ down_end' = down_end /\ spc' = spc /\ need' = need /\ buff' = buff
      /\ cmd' = cmd /\ executed' = executed
  BY DEF SessionStays
<1> QED
  BY <1>1, Zenon DEF Typing

LEMMA OpenRan ==
  ASSUME ExecutedAsCalled, up_end = "open"
  PROVE  RanAsCalled
  BY Zenon DEF ExecutedAsCalled, RanAsCalled

\* The calls there were are still there.
Extends(new) == Len(new) \in Nat /\ Len(calls) <= Len(new) /\ DOMAIN new = 1..Len(new)
                /\ \A i \in 1..Len(calls) : new[i] = calls[i]

\* More calls do not change what has run.
LEMMA RanGrows ==
  ASSUME Typing, RanAsCalled, SessionStays, Extends(calls')
  PROVE  RanAsCalled' /\ ExecutedAsCalled'
<1>1. executed' = executed
  BY DEF SessionStays
<1>2. \A i \in DOMAIN calls : i \in DOMAIN calls' /\ calls'[i] = calls[i]
  <2>1. DOMAIN calls = 1..Len(calls) /\ Len(calls) \in Nat
    BY CurrentFacts
  <2> QED
    BY <2>1 DEF Extends
<1>3. RanAsCalled'
  BY <1>1, <1>2, Zenon DEF RanAsCalled
<1>4. ExecutedAsCalled'
  BY <1>3, Zenon DEF RanAsCalled, ExecutedAsCalled
<1> QED
  BY <1>3, <1>4

\* More calls do not change where the session is.
LEMMA PositionStays ==
  ASSUME Typing, SessionStays, Extends(calls'), NEW st, Position(st), NEW su,
         \A i \in 1..(Len(calls) + 1) : su[i] = st[i]
  PROVE  Position(su)'
<1>1. /\ socket_type' = socket_type /\ spc' = spc /\ need' = need /\ buff' = buff
      /\ cmd' = cmd /\ executed' = executed /\ frame' = frame /\ Current' = Current
  BY DEF SessionStays, Current
<1>2. Len(calls) \in Nat /\ Current \in Nat /\ Current >= 1 /\ Len(calls') \in Nat /\ Len(calls) <= Len(calls')
  BY CurrentFacts DEF Extends
<1>3. CASE Between(st)
  <2>1. Current \in 1..(Len(calls) + 1) /\ Current <= Len(calls') + 1
    BY <1>2, <1>3 DEF Between
  <2>2. su[Current] = st[Current]
    BY <2>1, Zenon
  <2> QED
    BY <1>1, <1>3, <2>1, <2>2, Zenon DEF Position, Between
<1>4. CASE ~Between(st)
  <2>1. Current <= Len(calls)
    BY <1>4, Zenon DEF Position
  <2>2. Current \in 1..Len(calls) /\ Current \in 1..(Len(calls) + 1) /\ Current + 1 \in 1..(Len(calls) + 1)
        /\ Current <= Len(calls')
    BY <1>2, <2>1
  <2>3. su[Current] = st[Current] /\ su[Current + 1] = st[Current + 1] /\ calls'[Current] = calls[Current]
    BY <2>2, Zenon DEF Extends
  <2> QED
    BY <1>1, <1>4, <2>2, <2>3, Zenon DEF Position, InPack, InFrame, Complete
<1> QED
  BY <1>3, <1>4, Zenon

LEMMA OneMoreCall ==
  ASSUME Typing, NEW x \in CallSet
  PROVE  /\ Append(calls, x) \in Seq(CallSet) /\ Extends(Append(calls, x))
         /\ Len(Append(calls, x)) = Len(calls) + 1 /\ Len(calls) \in Nat
         /\ Append(calls, x)[Len(calls) + 1] = x
<1>1. calls \in Seq(CallSet)
  BY DEF Typing
<1>2. Append(calls, x) \in Seq(CallSet) /\ Len(Append(calls, x)) = Len(calls) + 1 /\ Len(calls) \in Nat
      /\ Append(calls, x)[Len(calls) + 1] = x
      /\ \A i \in 1..Len(calls) : Append(calls, x)[i] = calls[i]
      /\ DOMAIN Append(calls, x) = 1..(Len(calls) + 1)
  BY <1>1
<1> QED
  BY <1>2 DEF Extends

LEMMA SameCalls ==
  ASSUME Typing
  PROVE  Extends(calls)
  BY CurrentFacts DEF Extends

LEMMA ConcatThree ==
  ASSUME NEW s \in Seq(WireBytes), NEW t \in Seq(WireBytes), NEW u \in Seq(WireBytes)
  PROVE  s \o (t \o u) = (s \o t) \o u
  BY ConcatAssociative

\* A call, or a part of it, follows what is on its way.
LEMMA StreamGrows ==
  ASSUME Typing, NEW st, Stream(st), up_end = "open", NEW x \in CallSet,
         NEW k \in Nat, k <= Len(BytesOf(socket_type, x)),
         up' = up \o SubSeq(BytesOf(socket_type, x), 1, k), calls' = Append(calls, x),
         (up_end' = "open" /\ k = Len(BytesOf(socket_type, x))) \/ up_end' = "eof",
         UNCHANGED <<socket_type, buff>>
  PROVE  \E su : Stream(su)' /\ \A i \in 1..(Len(calls) + 1) : su[i] = st[i]
<1>1. PICK L, B, w, p : /\ L = Len(calls) /\ B = BytesOf(socket_type, x) /\ w = buff \o up
                        /\ p = SubSeq(B, 1, k)
  OBVIOUS
<1>2. PICK su : su = [i \in 1..(L + 2) |-> IF i <= L + 1 THEN st[i] ELSE st[L + 1] + Len(B)]
  OBVIOUS
<1>3. /\ socket_type \in {"TCP", "WEBSOCK"} /\ L \in Nat /\ buff \in Seq(WireBytes) /\ up \in Seq(WireBytes)
      /\ Len(buff) \in Nat /\ Len(up) \in Nat /\ Len(calls') = L + 1
  BY <1>1, CurrentFacts, OneMoreCall DEF Typing
<1>4. B \in Seq(WireBytes) /\ Len(B) \in Nat
  BY <1>1, <1>3, BytesFacts, Zenon
<1>5. p \in Seq(WireBytes) /\ Len(p) = k
  BY <1>1, <1>4, Prefix, Zenon
<1>6. Layout(socket_type, st, w, calls) /\ Len(buff) + Len(up) = st[L + 1]
  BY <1>1, Zenon DEF Stream
<1>7. Len(w) = st[L + 1] /\ w \in Seq(WireBytes)
  BY <1>1, <1>3, <1>6, Concat
<1>8. buff' \o up' = w \o p /\ Len(up') = Len(up) + k
  <2>1. buff' \o up' = buff \o (up \o p)
    BY <1>1
  <2>2. buff \o (up \o p) = w \o p
    BY <1>1, <1>3, <1>5, ConcatThree, ZenonT(60)
  <2>3. Len(up \o p) = Len(up) + Len(p)
    BY <1>3, <1>5, Concat, Zenon
  <2> QED
    BY <1>1, <1>5, <2>1, <2>2, <2>3, Zenon
<1>9. Layout(socket_type, su, w \o p, Append(calls, x))
  BY <1>1, <1>2, <1>3, <1>6, <1>7, LayoutAppend, Zenon
<1>10. st[L + 1] \in Int /\ \A i \in 1..(L + 1) : su[i] = st[i]
  <2>1. st \in [1..(L + 1) -> Int]
    BY <1>1, <1>6 DEF Layout
  <2>2. \A i \in 1..(L + 1) : i \in 1..(L + 2) /\ i <= L + 1
    BY <1>3
  <2> QED
    BY <1>2, <1>3, <2>1, <2>2
<1>11. su[(L + 1) + 1] = st[L + 1] + Len(B) /\ su[L + 1] = st[L + 1]
  <2>1. (L + 1) + 1 \in 1..(L + 2) /\ ~((L + 1) + 1 <= L + 1)
    BY <1>3
  <2>2. L + 1 \in 1..(L + 1)
    BY <1>3
  <2> QED
    BY <1>2, <1>10, <2>1, <2>2
<1>12. Stream(su)'
  <2>1. Layout(socket_type', su, buff' \o up', calls')
    BY <1>8, <1>9
  <2>2. Len(buff') + Len(up') = st[L + 1] + k /\ k <= Len(B)
    <3>1. Len(buff') = Len(buff) /\ k <= Len(B)
      BY <1>1
    <3> QED
      BY <1>3, <1>6, <1>8, <3>1
  <2>3. /\ Len(buff') + Len(up') <= su[Len(calls') + 1]
        /\ su[Len(calls')] <= Len(buff') + Len(up')
    BY <1>3, <1>4, <1>10, <1>11, <2>2
  <2>4. up_end' = "open" => Len(buff') + Len(up') = su[Len(calls') + 1]
    BY <1>1, <1>3, <1>4, <1>10, <1>11, <2>2
  <2> QED
    BY <2>1, <2>3, <2>4, Zenon DEF Stream
<1> QED
  BY <1>1, <1>10, <1>12, Zenon

\* The client leaves; what is on its way is what it was, what is left of it, or
\* followed by a goodbye.
LEMMA StreamEnds ==
  ASSUME Typing, NEW st, Stream(st), up_end = "open", UNCHANGED <<socket_type, buff, calls>>,
         \/ up_end' = "eof" /\ up' = up
         \/ up_end' = "eof" /\ socket_type = "WEBSOCK" /\ up' = up \o Goodbye
         \/ up_end' = "reset" /\ \E k \in 0..Len(up) : up' = SubSeq(up, 1, k)
  PROVE  Stream(st)'
<1>1. PICK L, w : L = Len(calls) /\ w = buff \o up
  OBVIOUS
<1>2. /\ socket_type \in {"TCP", "WEBSOCK"} /\ L \in Nat /\ buff \in Seq(WireBytes) /\ up \in Seq(WireBytes)
      /\ Len(buff) \in Nat /\ Len(up) \in Nat
  BY <1>1, CurrentFacts DEF Typing
<1>3. Layout(socket_type, st, w, calls) /\ Len(buff) + Len(up) = st[L + 1]
  BY <1>1, Zenon DEF Stream
<1>4. Len(w) = st[L + 1] /\ w \in Seq(WireBytes) /\ Len(w) = Len(buff) + Len(up)
  BY <1>1, <1>2, <1>3, Concat
<1>5. socket_type' = socket_type /\ buff' = buff /\ calls' = calls
  OBVIOUS
<1>6. CASE up_end' = "eof" /\ up' = up
  <2>1. calls # <<>> => st[L] <= Len(buff) + Len(up)
    <3>1. \A i \in 1..(L + 1) : st[i] <= st[L + 1]
      BY <1>1, <1>3, Zenon DEF Layout
    <3>2. calls # <<>> => L \in 1..(L + 1)
      BY <1>1, <1>2 DEF Typing
    <3> QED
      BY <1>3, <3>1, <3>2
  <2>2. Len(buff) + Len(up) <= st[L + 1]
    BY <1>2, <1>3
  <2>3. up_end' # "open"
    BY <1>6
  <2> QED
    BY <1>1, <1>3, <1>5, <1>6, <2>1, <2>2, <2>3, Zenon DEF Stream
<1>7. CASE up_end' = "eof" /\ socket_type = "WEBSOCK" /\ up' = up \o Goodbye
  <2>1. Layout(socket_type, st, w \o Goodbye, calls)
    BY <1>1, <1>2, <1>3, <1>4, LayoutGoodbye, Zenon
  <2>2. buff \o (up \o Goodbye) = w \o Goodbye
    BY <1>1, <1>2, GoodbyeShape, ConcatThree, Zenon
  <2>3. socket_type # "TCP" /\ up_end' # "open"
    BY <1>7
  <2> QED
    BY <1>5, <1>7, <2>1, <2>2, <2>3, Zenon DEF Stream
<1>8. CASE up_end' = "reset" /\ \E k \in 0..Len(up) : up' = SubSeq(up, 1, k)
  <2>1. PICK k \in 0..Len(up) : up' = SubSeq(up, 1, k)
    BY <1>8
  <2>2. k \in Nat /\ k <= Len(up) /\ Len(buff) + k \in Nat /\ Len(buff) + k <= Len(w)
    BY <1>2, <1>4
  <2>3. buff \o SubSeq(up, 1, k) = SubSeq(w, 1, Len(buff) + k)
    BY <1>1, <1>2, <2>2, LossAtEnd, Zenon
  <2>4. Layout(socket_type, st, SubSeq(w, 1, Len(buff) + k), calls)
    BY <1>2, <1>3, <2>2, LayoutPrefix, Zenon
  <2>5. Len(up') = k
    BY <1>2, <2>1, <2>2, Prefix
  <2>6. Len(buff') + Len(up') <= st[L + 1] /\ up_end' # "open" /\ up_end' # "eof"
    BY <1>2, <1>3, <1>5, <1>8, <2>2, <2>5
  <2> QED
    BY <1>1, <1>5, <2>1, <2>3, <2>4, <2>6, Zenon DEF Stream
<1> QED
  BY <1>6, <1>7, <1>8, Zenon

\* Where the session is while the client is there.
LEMMA WhileOpen ==
  ASSUME Typing, Uplink, up_end = "open"
  PROVE  \/ Handshake
         \/ Stopped /\ spc = "ended" /\ RanAsCalled
         \/ RanAsCalled /\ \E st : Stream(st) /\ Position(st)
<1>1. ~CutShort
  BY DEF CutShort
<1>2. Stopped => spc = "ended" /\ RanAsCalled
  BY OpenRan DEF Stopped, SessionEndsForAReason
<1> QED
  BY <1>1, <1>2, Zenon DEF Uplink

LEMMA PrefixOf ==
  ASSUME NEW R, NEW s \in Seq(R), NEW k \in Nat, k <= Len(s)
  PROVE  SubSeq(s, 1, k) \in Seq(R)
<1>1. \A i \in 1..k : s[i] \in R
  <2>1. 1..k \subseteq 1..Len(s)
    BY LenProperties
  <2> QED
    BY <2>1, ElementOfSeq
<1> QED
  BY <1>1, LenProperties, SubSeqProperties

\* The client leaves, and with it the last part of the stream.
LEMMA LeavingKeeps ==
  ASSUME Typing, Uplink, cpc # "gone", SessionStays, calls' = calls, received' = received,
         cpc' = "gone", rneed' = 0, rbuf' = <<>>, down' = <<>>,
         \/ up_end' = "eof" /\ up' = up
         \/ up_end' = "eof" /\ socket_type = "WEBSOCK" /\ cpc # "opening" /\ up' = up \o Goodbye
         \/ up_end' = "reset" /\ \E k \in 0..Len(up) : up' = SubSeq(up, 1, k)
  PROVE  Typing' /\ Uplink'
<1>1. up_end = "open" /\ up \in Seq(WireBytes) /\ Len(up) \in Nat
  BY CurrentFacts DEF Typing
<1>2. /\ socket_type' = socket_type /\ down_end' = down_end /\ spc' = spc /\ need' = need /\ buff' = buff
      /\ cmd' = cmd /\ executed' = executed
  BY DEF SessionStays
<1>3. ASSUME NEW k \in 0..Len(up)
      PROVE  /\ SubSeq(up, 1, k) \in Seq(WireBytes) /\ Len(SubSeq(up, 1, k)) <= Len(up)
             /\ socket_type = "TCP" => SubSeq(up, 1, k) \in Seq(0..(Radix - 1))
  <2>1. k \in Nat /\ k <= Len(up)
    BY <1>1
  <2>2. SubSeq(up, 1, k) \in Seq(WireBytes) /\ Len(SubSeq(up, 1, k)) = k
    BY <1>1, <2>1, Prefix, Zenon
  <2>3. up \in Seq(0..(Radix - 1)) => SubSeq(up, 1, k) \in Seq(0..(Radix - 1))
    BY <2>1, PrefixOf, Zenon
  <2> QED
    BY <2>1, <2>2, <2>3 DEF Typing
<1>4. up' \in Seq(WireBytes) /\ (socket_type = "TCP" => up' \in Seq(0..(Radix - 1)))
  <2>1. CASE up' = up
    BY <2>1 DEF Typing
  <2>2. CASE socket_type = "WEBSOCK" /\ up' = up \o Goodbye
    <3>1. up' \in Seq(WireBytes)
      BY <1>1, <2>2, GoodbyeShape, Concat, Zenon
    <3> QED
      BY <2>2, <3>1
  <2>3. CASE \E k \in 0..Len(up) : up' = SubSeq(up, 1, k)
    BY <1>3, <2>3, Zenon
  <2> QED
    BY <2>1, <2>2, <2>3, Zenon
<1>5. Typing'
  <2>1. rneed' \in Nat /\ rbuf' \in Seq(WireBytes) /\ down' \in Seq(WireBytes)
    OBVIOUS
  <2>2. calls' \in Seq(CallSet) /\ Len(calls') <= MaxCalls /\ Sequence(received')
    BY Zenon DEF Typing
  <2>3. /\ up_end' \in {"open", "eof", "reset"} /\ up_end' # "open"
        /\ cpc' \in {"opening", "idle", "answer", "length", "gone"}
    OBVIOUS
  <2> QED
    BY <1>4, <2>1, <2>2, <2>3, ClientTyping, Zenon
<1>6. Extends(calls')
  BY SameCalls, Zenon
<1>7. CASE Handshake
  <2>1. cpc = "opening" /\ Len(up) <= HttpLength
    BY <1>7 DEF Handshake
  <2>2. Len(up') <= HttpLength
    <3>1. up' = up \/ \E k \in 0..Len(up) : up' = SubSeq(up, 1, k)
      BY <2>1, Zenon
    <3>2. CASE up' = up
      BY <2>1, <3>2
    <3>3. CASE \E k \in 0..Len(up) : up' = SubSeq(up, 1, k)
      <4>1. Len(up') <= Len(up) /\ Len(up') \in Nat /\ HttpLength \in Nat
        BY <1>3, <1>4, <3>3, LinkAssumption, LenProperties
      <4> QED
        BY <1>1, <2>1, <4>1
    <3> QED
      BY <3>1, <3>2, <3>3, Zenon
  <2>3. cpc' \in {"opening", "gone"}
    OBVIOUS
  <2> QED
    BY <1>2, <1>5, <1>7, <2>2, <2>3, Zenon DEF Handshake, Uplink
<1>8. CASE Stopped /\ spc = "ended" /\ RanAsCalled
  <2>1. ExecutedAsCalled'
    BY <1>6, <1>8, RanGrows, Zenon
  <2>2. SessionEndsForAReason'
    <3>1. spc' # "aborted" /\ up_end' # "open"
      BY <1>2, <1>8
    <3> QED
      BY <3>1 DEF SessionEndsForAReason
  <2> QED
    BY <1>2, <1>5, <1>8, <2>1, <2>2, Zenon DEF Stopped, Uplink
<1>9. CASE RanAsCalled /\ \E st : Stream(st) /\ Position(st)
  <2>1. PICK st : Stream(st) /\ Position(st)
    BY <1>9
  <2>2. Stream(st)'
    <3>1. UNCHANGED <<socket_type, buff, calls>>
      BY <1>2
    <3> QED
      BY <1>1, <2>1, <3>1, StreamEnds, Zenon
  <2>3. Position(st)'
    BY <1>6, <2>1, PositionStays, Zenon
  <2>4. RanAsCalled'
    BY <1>6, <1>9, RanGrows, Zenon
  <2> QED
    BY <1>5, <2>2, <2>3, <2>4, Zenon DEF Uplink
<1> QED
  BY <1>1, <1>7, <1>8, <1>9, WhileOpen, Zenon

\* ~KoheronClient, or a browser that says goodbye.
LEMMA CloseKeeps ==
  ASSUME Typing, Uplink, Close, SessionStays
  PROVE  Typing' /\ Uplink'
<1>1. /\ cpc # "gone" /\ Leave("eof") /\ calls' = calls /\ received' = received
      /\ \/ up' = up
         \/ socket_type = "WEBSOCK" /\ cpc # "opening" /\ up' = up \o Goodbye
  BY DEF Close, Goodbye
<1> QED
  BY <1>1, LeavingKeeps, Zenon DEF Leave

\* A connection that is lost.
LEMMA LoseKeeps ==
  ASSUME Typing, Uplink, Lose, SessionStays
  PROVE  Typing' /\ Uplink'
<1>1. /\ cpc # "gone" /\ Leave("reset") /\ calls' = calls /\ received' = received
      /\ \E k \in 0..Len(up) : up' = SubSeq(up, 1, k)
  BY DEF Lose
<1> QED
  BY <1>1, LeavingKeeps, Zenon DEF Leave

\* recv_all throws, and the client is closed.
LEMMA RecvThrowsKeeps ==
  ASSUME Typing, Uplink, Downlink, RecvThrows, SessionStays, up' = up
  PROVE  Typing' /\ Uplink'
<1>1. /\ cpc = "opening" \/ rneed > 0
      /\ Leave("eof") /\ calls' = calls /\ received' = received
  BY DEF RecvThrows
<1>2. cpc # "gone"
  BY <1>1 DEF Downlink
<1> QED
  BY <1>1, <1>2, LeavingKeeps, Zenon DEF Leave

\* The bytes of a call, as they are sent.
LEMMA CommandBytes ==
  ASSUME NEW o \in DOMAIN Operations, NEW args \in Arguments[o], NEW x, x = [op |-> o, args |-> args]
  PROVE  x \in CallSet /\ x.op = o /\ x.args = args /\ Command(o, args) = BytesOf(socket_type, x)
<1>1. x.op = o /\ x.args = args /\ x \in CallSet
  BY CallSetMember
<1> QED
  BY <1>1, Zenon DEF Command, BytesOf, TCPBytes

\* The client sends a call, or the beginning of one.
LEMMA CallingKeeps ==
  ASSUME Typing, Uplink, Ready, SessionStays, NEW x \in CallSet, NEW k \in Nat,
         k <= Len(BytesOf(socket_type, x)), up' = up \o SubSeq(BytesOf(socket_type, x), 1, k),
         calls' = Append(calls, x), received' = received, rneed' \in Nat, rbuf' = <<>>,
         \/ /\ up_end' = "open" /\ k = Len(BytesOf(socket_type, x)) /\ down' = down
            /\ cpc' \in {"idle", "answer"}
         \/ up_end' = "eof" /\ down' = <<>> /\ cpc' = "gone"
  PROVE  Typing' /\ Uplink'
<1>1. up_end = "open" /\ cpc = "idle" /\ Len(calls) < MaxCalls /\ up \in Seq(WireBytes) /\ MaxCalls \in Nat
  BY LinkAssumption DEF Typing, Ready
<1>2. /\ socket_type' = socket_type /\ down_end' = down_end /\ spc' = spc /\ need' = need /\ buff' = buff
      /\ cmd' = cmd /\ executed' = executed
  BY DEF SessionStays
<1>3. /\ calls' \in Seq(CallSet) /\ Extends(calls') /\ Len(calls') = Len(calls) + 1 /\ Len(calls) \in Nat
  BY OneMoreCall
<1>4. Typing'
  <2>1. PICK B : B = BytesOf(socket_type, x) /\ B \in Seq(WireBytes)
    <3>1. socket_type \in {"TCP", "WEBSOCK"}
      BY DEF Typing
    <3> QED
      BY <3>1, BytesFacts, Zenon
  <2>2. SubSeq(B, 1, k) \in Seq(WireBytes)
    BY <2>1, Prefix, Zenon
  <2>3. up' \in Seq(WireBytes)
    BY <1>1, <2>1, <2>2, Concat, Zenon
  <2>4. ASSUME socket_type = "TCP" PROVE up' \in Seq(0..(Radix - 1))
    <3>1. B = TCPBytes(x)
      BY <2>1, <2>4 DEF BytesOf
    <3>2. B \in Seq(0..(Radix - 1)) /\ up \in Seq(0..(Radix - 1)) /\ k <= Len(B)
      BY <2>1, <2>4, <3>1, TCPBytesFacts DEF Typing
    <3>3. SubSeq(B, 1, k) \in Seq(0..(Radix - 1))
      BY <3>2, PrefixOf, Zenon
    <3>4. up' = up \o SubSeq(B, 1, k)
      BY <2>1
    <3> QED
      BY <3>2, <3>3, <3>4
  <2>5. down' \in Seq(WireBytes) /\ rbuf' \in Seq(WireBytes)
    <3>1. <<>> \in Seq(WireBytes) /\ down \in Seq(WireBytes)
      BY DEF Typing
    <3> QED
      BY <3>1, Zenon
  <2>6. Len(calls') <= MaxCalls
    BY <1>1, <1>3
  <2>7. /\ up_end' \in {"open", "eof", "reset"} /\ ((cpc' = "gone") <=> (up_end' # "open"))
        /\ cpc' \in {"opening", "idle", "answer", "length", "gone"}
    OBVIOUS
  <2>8. Sequence(received')
    BY Zenon DEF Typing
  <2> QED
    BY <1>3, <2>3, <2>4, <2>5, <2>6, <2>7, <2>8, ClientTyping, Zenon
<1>5. ~Handshake
  BY <1>1 DEF Handshake
<1>6. CASE Stopped /\ spc = "ended" /\ RanAsCalled
  <2>1. ExecutedAsCalled'
    BY <1>3, <1>6, RanGrows, Zenon
  <2>2. /\ socket_type = "WEBSOCK" /\ Len(executed) < Len(calls) /\ Refused(calls[Len(executed) + 1])
    BY <1>1, <1>6 DEF Stopped, SessionEndsForAReason
  <2>3. SessionEndsForAReason'
    <3>1. Len(executed) + 1 \in 1..Len(calls) /\ Len(executed) < Len(calls')
      BY <1>3, <2>2, CurrentFacts
    <3>2. calls'[Len(executed) + 1] = calls[Len(executed) + 1]
      BY <1>3, <3>1, Zenon DEF Extends
    <3>3. spc' # "aborted" /\ executed' = executed /\ socket_type' = "WEBSOCK"
      BY <1>2, <1>6, <2>2
    <3> QED
      BY <2>2, <3>1, <3>2, <3>3 DEF SessionEndsForAReason, Refused
  <2> QED
    BY <1>2, <1>4, <1>6, <2>1, <2>3, Zenon DEF Stopped, Uplink
<1>7. CASE RanAsCalled /\ \E st : Stream(st) /\ Position(st)
  <2>1. PICK st : Stream(st) /\ Position(st)
    BY <1>7
  <2>2. PICK su : Stream(su)' /\ \A i \in 1..(Len(calls) + 1) : su[i] = st[i]
    <3>1. UNCHANGED <<socket_type, buff>>
      BY <1>2
    <3> QED
      BY <1>1, <2>1, <3>1, StreamGrows, Zenon
  <2>3. Position(su)'
    BY <1>3, <2>1, <2>2, PositionStays, Zenon
  <2>4. RanAsCalled'
    BY <1>3, <1>7, RanGrows, Zenon
  <2> QED
    BY <1>4, <2>2, <2>3, <2>4, Zenon DEF Uplink
<1> QED
  BY <1>1, <1>5, <1>6, <1>7, WhileOpen, Zenon

\* A call is one more command at the end of the stream.
LEMMA CallKeeps ==
  ASSUME Typing, Uplink, SessionStays, NEW o \in DOMAIN Operations, NEW args \in Arguments[o], Call(o, args)
  PROVE  Typing' /\ Uplink'
<1>1. PICK x, B : x = [op |-> o, args |-> args] /\ B = BytesOf(socket_type, x)
  OBVIOUS
<1>2. x \in CallSet /\ Command(o, args) = B
  <2>1. x \in CallSet /\ Command(o, args) = BytesOf(socket_type, x)
    BY <1>1, CommandBytes
  <2> QED
    BY <1>1, <2>1, Zenon
<1>3. /\ Ready /\ up' = up \o B /\ calls' = Append(calls, x) /\ received' = received /\ rbuf' = <<>>
      /\ up_end' = up_end /\ down' = down
      /\ \/ cpc' = cpc /\ rneed' = rneed
         \/ cpc' = "answer" /\ rneed' = C!FirstReceive(Operations[o].ret) /\ Operations[o].ret # <<>>
  BY <1>1, <1>2, Zenon DEF Call
<1>4. up_end' = "open" /\ cpc' \in {"idle", "answer"}
  BY <1>3 DEF Typing, Ready
<1>5. rneed' \in Nat
  <2>1. Operations[o].ret # <<>> => C!FirstReceive(Operations[o].ret) \in Nat \ {0}
    BY CodecAssumption, Zenon DEF OperationParses
  <2>2. rneed \in Nat /\ \A n \in Nat \ {0} : n \in Nat
    BY DEF Typing
  <2> QED
    BY <1>3, <2>1, <2>2, Zenon
<1>6. B \in Seq(WireBytes) /\ Len(B) \in Nat /\ SubSeq(B, 1, Len(B)) = B /\ Len(B) <= Len(B)
  <2>1. socket_type \in {"TCP", "WEBSOCK"}
    BY DEF Typing
  <2>2. B \in Seq(WireBytes) /\ Len(B) \in Nat
    BY <1>1, <1>2, <2>1, BytesFacts, Zenon
  <2> QED
    BY <2>2, SubSeqFull
<1>7. up' = up \o SubSeq(B, 1, Len(B))
  BY <1>3, <1>6, Zenon
<1> QED
  BY <1>1, <1>2, <1>3, <1>4, <1>5, <1>6, <1>7, CallingKeeps, Zenon

\* A client that dies in send() leaves a part of a command.
LEMMA DieInCallKeeps ==
  ASSUME Typing, Uplink, SessionStays, NEW o \in DOMAIN Operations, NEW args \in Arguments[o], DieInCall(o, args)
  PROVE  Typing' /\ Uplink'
<1>1. PICK x, B : x = [op |-> o, args |-> args] /\ B = BytesOf(socket_type, x)
  OBVIOUS
<1>2. x \in CallSet /\ Command(o, args) = B
  <2>1. x \in CallSet /\ Command(o, args) = BytesOf(socket_type, x)
    BY <1>1, CommandBytes
  <2> QED
    BY <1>1, <2>1, Zenon
<1>3. PICK k \in 1..(Len(B) - 1) : up' = up \o SubSeq(B, 1, k)
  BY <1>2, Zenon DEF DieInCall
<1>4. /\ Ready /\ calls' = Append(calls, x) /\ received' = received /\ rbuf' = <<>> /\ rneed' = 0
      /\ up_end' = "eof" /\ down' = <<>> /\ cpc' = "gone"
  BY <1>1, Zenon DEF DieInCall, Leave
<1>5. k \in Nat /\ k <= Len(B) /\ rneed' \in Nat
  <2>1. socket_type \in {"TCP", "WEBSOCK"}
    BY DEF Typing
  <2>2. Len(B) \in Nat
    BY <1>1, <1>2, <2>1, BytesFacts, Zenon
  <2> QED
    BY <1>4, <2>2
<1> QED
  BY <1>1, <1>2, <1>3, <1>4, <1>5, CallingKeeps, Zenon

\* A step in which the client only receives.
LEMMA ReceivingUplink ==
  ASSUME Typing, Uplink, SessionStays, UNCHANGED <<up, up_end, calls>>,
         cpc' = cpc \/ spc = "ws_head" \/ cpc \notin {"opening", "gone"}
  PROVE  Uplink'
<1>1. /\ socket_type' = socket_type /\ down_end' = down_end /\ spc' = spc /\ need' = need /\ buff' = buff
      /\ cmd' = cmd /\ executed' = executed /\ up' = up /\ up_end' = up_end /\ calls' = calls
  BY DEF SessionStays
<1>2. Extends(calls')
  BY <1>1, SameCalls, Zenon
<1>3. ExecutedAsCalled => ExecutedAsCalled'
  <2>1. UNCHANGED <<socket_type, executed, calls>> /\ up_end' = up_end
    BY <1>1
  <2> QED
    BY <2>1, ExecutedStays, Zenon
<1>4. CASE Handshake
  <2>1. cpc' = cpc
    BY <1>4 DEF Handshake
  <2> QED
    BY <1>1, <1>4, <2>1, Zenon DEF Handshake, Uplink
<1>5. CASE Stopped
  <2>1. cpc = "opening" => cpc' = "opening"
    BY <1>5 DEF Stopped
  <2>2. SessionEndsForAReason'
    BY <1>1, <1>5, <2>1, Zenon DEF Stopped, SessionEndsForAReason, Refused, NextCall
  <2> QED
    BY <1>1, <1>3, <1>5, <2>2, Zenon DEF Stopped, Uplink
<1>6. CASE CutShort
  BY <1>1, <1>3, <1>6, Zenon DEF CutShort, InCutCall, CutArgs, RanAsCalled, Current, Uplink
<1>7. CASE RanAsCalled /\ \E st : Stream(st) /\ Position(st)
  <2>1. PICK st : Stream(st) /\ Position(st)
    BY <1>7
  <2>2. Stream(st)'
    BY <1>1, <2>1, Zenon DEF Stream
  <2>3. Position(st)'
    BY <1>2, <2>1, PositionStays, Zenon
  <2>4. RanAsCalled'
    BY <1>1, <1>7, RanStays, Zenon
  <2> QED
    BY <2>2, <2>3, <2>4, Zenon DEF Uplink
<1> QED
  BY <1>4, <1>5, <1>6, <1>7, Zenon DEF Uplink

-----------------------------------------------------------------------------
(* The answers *)

\* The lengths of the histories.
LEMMA HistoryFacts ==
  ASSUME Typing, Histories
  PROVE  /\ Len(executed) \in Nat /\ Len(calls) \in Nat /\ Len(received) \in Nat
         /\ DOMAIN executed = 1..Len(executed) /\ DOMAIN calls = 1..Len(calls) /\ DOMAIN received = 1..Len(received)
         /\ Len(executed) <= Len(calls) /\ Len(received) <= Len(executed)
<1>1. /\ Len(executed) \in Nat /\ Len(calls) \in Nat /\ Len(received) \in Nat
      /\ DOMAIN executed = 1..Len(executed) /\ DOMAIN calls = 1..Len(calls) /\ DOMAIN received = 1..Len(received)
  BY CurrentFacts, AppendToSequence DEF Typing
<1>2. Len(executed) <= Len(calls)
  <2>1. CASE Len(executed) = 0
    BY <1>1, <2>1
  <2>2. CASE Len(executed) # 0
    <3>1. Len(executed) \in DOMAIN executed
      BY <1>1, <2>2
    <3>2. Len(executed) \in DOMAIN calls
      BY <3>1, Zenon DEF Histories
    <3> QED
      BY <1>1, <3>2
  <2> QED
    BY <2>1, <2>2
<1>3. Len(received) <= Len(executed)
  <2>1. CASE Len(received) = 0
    BY <1>1, <2>1
  <2>2. CASE Len(received) # 0
    <3>1. Len(received) \in DOMAIN received
      BY <1>1, <2>2
    <3>2. received[Len(received)].call \in DOMAIN executed /\ Len(received) <= received[Len(received)].call
      BY <3>1, Zenon DEF Histories
    <3> QED
      BY <1>1, <3>2
  <2> QED
    BY <2>1, <2>2
<1> QED
  BY <1>1, <1>2, <1>3

LEMMA HistoriesStay ==
  ASSUME Histories, executed' = executed, calls' = calls, received' = received
  PROVE  Histories'
  BY DEF Histories, RepliesInOrder

\* A step that is not about answers.
LEMMA DownStays ==
  ASSUME Histories, Downlink, UNCHANGED <<socket_type, down, executed, client_vars>>,
         ~(cpc = "opening" /\ spc = "ws_head")
  PROVE  Histories' /\ Downlink'
<1>1. /\ socket_type' = socket_type /\ down' = down /\ executed' = executed
      /\ cpc' = cpc /\ rneed' = rneed /\ rbuf' = rbuf /\ calls' = calls /\ received' = received
  BY DEF client_vars
<1>2. Histories'
  BY <1>1, HistoriesStay, Zenon
<1>3. Waiting => Waiting'
  BY <1>1, Zenon DEF Waiting, Answered
<1>4. (\A d \in 1..Len(calls) : HasResult(calls[d]) => Answered(d))
         => (\A d \in 1..Len(calls) : HasResult(calls[d]) => Answered(d))'
  BY <1>1, Zenon DEF Answered
<1>5. Downlink'
  BY <1>1, <1>3, <1>4, Zenon DEF Downlink
<1> QED
  BY <1>2, <1>5

\* Between the handshake and the client's first call the session waits.
LEMMA WaitsForCall ==
  ASSUME Typing, Uplink, Downlink, cpc = "opening", spc = "ws_head"
  PROVE  up = <<>> /\ need > 0 /\ up_end = "open"
<1>1. up_end = "open" /\ calls = <<>> /\ executed = <<>>
  BY DEF Typing, Downlink
<1>2. PICK st : Stream(st) /\ Between(st)
  BY AtFrame
<1>3. socket_type = "WEBSOCK" /\ Current = 1 /\ Len(calls) + 1 = 1
  BY <1>1 DEF Current, Downlink
<1>4. st[1] = 0 /\ Len(buff) + need = 6
  BY <1>2, <1>3 DEF Between
<1>5. Len(buff) + Len(up) = 0
  BY <1>1, <1>2, <1>3, <1>4 DEF Stream
<1>6. Len(buff) = 0 /\ Len(up) = 0 /\ need \in Nat
  BY <1>5, CurrentFacts DEF Typing
<1> QED
  BY <1>1, <1>4, <1>6 DEF Typing

\* Reading a command has nothing to do with answers.
LEMMA QuietStep ==
  ASSUME Typing, Uplink, Histories, Downlink, UNCHANGED client_vars,
         \/ Read \/ TCPSession \/ ReadFrameHeader \/ ReadExtendedLength \/ ReadFrame
         \/ ReadOverflow \/ EofInFrame \/ RetryRead
  PROVE  Histories' /\ Downlink'
<1>1. UNCHANGED <<socket_type, down, executed>>
  BY DEF Read, TCPSession, ReadHeader, ReadLength, ReadPack, EofInHeader, EofInPack, EofInLength,
         ErrorInHeader, ErrorInPack, ErrorInLength, ReadFrameHeader, ReadExtendedLength, ReadFrame,
         ReadOverflow, EofInFrame, RetryRead
<1>2. ~(up = <<>> /\ need > 0 /\ up_end = "open")
  <2> SUFFICES ASSUME up = <<>>, need > 0, up_end = "open" PROVE FALSE
    OBVIOUS
  <2>1. need # 0 /\ up_end # "eof" /\ up_end # "reset"
    BY DEF Typing
  <2>2. ~Read
    BY DEF Read, Typing
  <2> QED
    BY <2>1, <2>2, Zenon DEF TCPSession, ReadHeader, ReadLength, ReadPack, EofInHeader, EofInPack, EofInLength,
         ErrorInHeader, ErrorInPack, ErrorInLength, ReadFrameHeader, ReadExtendedLength, ReadFrame,
         ReadOverflow, EofInFrame, RetryRead, ReadNBytes, Reading, AtEnd
<1>3. ~(cpc = "opening" /\ spc = "ws_head")
  BY <1>2, WaitsForCall, Zenon
<1>4. UNCHANGED <<socket_type, down, executed, client_vars>>
  BY <1>1
<1> QED
  BY <1>3, <1>4, DownStays, Zenon

\* The answer to the handshake is the first thing that is sent.
LEMMA AuthenticateAnswer ==
  ASSUME Typing, Uplink, Histories, Downlink, Authenticate, UNCHANGED client_vars
  PROVE  Histories' /\ Downlink'
<1>1. Handshake /\ spc = "http"
  BY AtHandshake DEF Authenticate
<1>2. down = <<>> /\ cpc \in {"opening", "gone"} /\ socket_type = "WEBSOCK"
  BY <1>1 DEF Downlink, Handshake
<1>3. /\ socket_type' = socket_type /\ executed' = executed
      /\ cpc' = cpc /\ rneed' = rneed /\ rbuf' = rbuf /\ calls' = calls /\ received' = received
  BY DEF client_vars, Authenticate
<1>4. down' = <<>> \/ (up_end = "open" /\ down' = Accepted /\ spc' = "ws_head")
  <2>1. down' = down \/ (up_end = "open" /\ down' = down \o Accepted /\ NextCommand)
    BY Zenon DEF Authenticate, Written
  <2>2. down \o Accepted = Accepted
    BY <1>2, AcceptedType
  <2>3. NextCommand => spc' = "ws_head"
    BY <1>2 DEF NextCommand, Loop
  <2> QED
    BY <1>2, <2>1, <2>2, <2>3, Zenon
<1>5. Histories'
  BY <1>3, HistoriesStay, Zenon
<1>6. CASE cpc = "opening"
  <2>1. cpc' # "gone" /\ cpc' # "idle" /\ cpc' \notin {"answer", "length"}
    BY <1>3, <1>6
  <2> QED
    BY <1>3, <1>4, <1>5, <1>6, <2>1, Zenon DEF Downlink
<1>7. CASE cpc = "gone"
  <2>1. cpc' # "opening" /\ cpc' # "idle" /\ cpc' \notin {"answer", "length"}
    BY <1>3, <1>7
  <2>2. down' = <<>>
    BY <1>4, <1>7 DEF Typing
  <2> QED
    BY <1>3, <1>5, <1>7, <2>1, <2>2, Zenon DEF Downlink
<1> QED
  BY <1>2, <1>6, <1>7

\* An operation has run.
LEMMA RunHistories ==
  ASSUME Typing, Histories, Current <= Len(calls), NEW r, r.op = calls[Current].op,
         r.ret \in Operations[r.op].results, executed' = Append(executed, r), UNCHANGED <<calls, received>>
  PROVE  /\ Histories' /\ Len(executed') = Current /\ executed'[Current] = r
         /\ \A i \in 1..Len(executed) : executed'[i] = executed[i]
<1>0. calls' = calls /\ received' = received
  OBVIOUS
<1>1. /\ Len(executed) \in Nat /\ Len(calls) \in Nat
      /\ DOMAIN executed = 1..Len(executed) /\ DOMAIN calls = 1..Len(calls) /\ DOMAIN received = 1..Len(received)
  BY HistoryFacts
<1>2. /\ Len(executed') = Current /\ DOMAIN executed' = 1..Current /\ executed'[Current] = r
      /\ \A i \in 1..Len(executed) : executed'[i] = executed[i]
  <2>1. Sequence(executed)
    BY DEF Typing
  <2>2. /\ Len(Append(executed, r)) = Len(executed) + 1
        /\ DOMAIN Append(executed, r) = 1..(Len(executed) + 1)
        /\ Append(executed, r)[Len(executed) + 1] = r
        /\ \A i \in 1..Len(executed) : Append(executed, r)[i] = executed[i]
    BY ONLY <2>1, AppendToSequence
  <2> QED
    BY <2>2, Zenon DEF Current
<1>3. \A i \in DOMAIN executed : i \in DOMAIN executed' /\ executed'[i] = executed[i]
  BY <1>1, <1>2 DEF Current
<1>4. \A i \in DOMAIN executed' :
          /\ i \in DOMAIN calls /\ executed'[i].op = calls[i].op
          /\ executed'[i].ret \in Operations[executed'[i].op].results
  <2> SUFFICES ASSUME NEW i \in DOMAIN executed'
               PROVE  /\ i \in DOMAIN calls /\ executed'[i].op = calls[i].op
                      /\ executed'[i].ret \in Operations[executed'[i].op].results
    OBVIOUS
  <2>1. CASE i = Current
    <3>1. i \in DOMAIN calls
      BY <1>1, <2>1 DEF Current
    <3> QED
      BY <1>2, <2>1, <3>1, Zenon
  <2>2. CASE i # Current
    <3>1. i \in DOMAIN executed
      BY <1>1, <1>2, <2>2 DEF Current
    <3> QED
      BY <1>3, <3>1, Zenon DEF Histories
  <2> QED
    BY <2>1, <2>2, Zenon
<1>5. RepliesInOrder'
  <2>1. \A i \in DOMAIN received :
           LET c == received[i].call
           IN  /\ c \in DOMAIN executed'
               /\ received[i].header = <<0, Operations[executed'[c].op].class,
                                            Operations[executed'[c].op].func>>
               /\ received[i].ret = executed'[c].ret
               /\ \A j \in 1..(i - 1) : received[j].call < c
               /\ \A d \in 1..(c - 1) :
                     Operations[executed'[d].op].ret # <<>> => \E j \in 1..(i - 1) : received[j].call = d
    <3> TAKE i \in DOMAIN received
    <3>1. PICK c : c = received[i].call
      OBVIOUS
    <3>2. /\ c \in DOMAIN executed
          /\ received[i].header = <<0, Operations[executed[c].op].class, Operations[executed[c].op].func>>
          /\ received[i].ret = executed[c].ret
          /\ \A j \in 1..(i - 1) : received[j].call < c
          /\ \A d \in 1..(c - 1) :
                Operations[executed[d].op].ret # <<>> => \E j \in 1..(i - 1) : received[j].call = d
      BY <3>1, Zenon DEF Histories, RepliesInOrder
    <3>3. \A d \in 1..(c - 1) : d \in DOMAIN executed
      BY <1>1, <3>2
    <3> QED
      BY <1>3, <3>1, <3>2, <3>3, Zenon
  <2> QED
    BY <1>0, <2>1 DEF RepliesInOrder
<1>6. \A i \in DOMAIN received : received[i].call \in DOMAIN executed' /\ i <= received[i].call
  BY <1>3, Zenon DEF Histories
<1> QED
  BY <1>0, <1>2, <1>4, <1>5, <1>6, Zenon DEF Histories

\* The answer of an operation is the one its client waits for.
LEMMA ExecuteAnswer ==
  ASSUME Typing, Uplink, Histories, Downlink, Execute, UNCHANGED client_vars
  PROVE  Histories' /\ Downlink'
<1>1. /\ spc = "exec" /\ socket_type' = socket_type
      /\ cpc' = cpc /\ rneed' = rneed /\ rbuf' = rbuf /\ calls' = calls /\ received' = received
  BY DEF Execute, client_vars
<1>2. PICK c, L : c = calls[Current] /\ L = Len(calls)
  OBVIOUS
<1>3. /\ Current <= L /\ Current \in 1..L /\ c \in CallSet
      /\ cmd.op = c.op /\ cmd.op \in DOMAIN Operations /\ cmd.op # "none"
  BY <1>1, <1>2, AtExecution, Zenon
<1>4. PICK ret \in Operations[cmd.op].results :
            /\ executed' = Append(executed, [op |-> cmd.op, args |-> cmd.args, cut |-> cmd.cut, ret |-> ret])
            /\ \/ /\ NextCommand /\ down_end' = down_end /\ down' = down
                  /\ \/ ret = <<>>
                     \/ up_end # "open"
                     \/ socket_type = "WEBSOCK"
               \/ /\ NextCommand /\ down_end' = down_end /\ down' = down \o Answer(cmd.op, ret)
                  /\ up_end = "open" /\ ret # <<>>
               \/ End /\ up_end # "open" /\ socket_type = "WEBSOCK" /\ down' = down
  BY <1>3, ExecuteCases, Zenon
<1>5. PICK r : r = [op |-> cmd.op, args |-> cmd.args, cut |-> cmd.cut, ret |-> ret] /\ executed' = Append(executed, r)
  BY <1>4, Zenon
<1>6. r.op = c.op /\ r.ret = ret /\ r.op = cmd.op
  BY <1>3, <1>5
<1>7. /\ Histories' /\ Len(executed') = Current /\ executed'[Current] = r
      /\ \A i \in 1..Len(executed) : executed'[i] = executed[i]
  <2>1. r.ret \in Operations[r.op].results /\ r.op = calls[Current].op /\ Current <= Len(calls)
        /\ UNCHANGED <<calls, received>>
    BY <1>1, <1>2, <1>3, <1>4, <1>6
  <2> QED
    BY <1>5, <2>1, RunHistories, Zenon
<1>8. (ret = <<>> <=> ~HasResult(c)) /\ (ret # <<>> => Answer(cmd.op, ret) \in Seq(WireBytes))
  BY <1>3, <1>4, ReplyFacts, Zenon DEF HasResult
<1>9. ~Answered(Current)
  <2> SUFFICES ASSUME Answered(Current) PROVE FALSE
    OBVIOUS
  <2>1. PICK j \in DOMAIN received : received[j].call = Current
    BY DEF Answered
  <2>2. Current \in DOMAIN executed
    BY <2>1, Zenon DEF Histories
  <2> QED
    BY <2>2, CurrentFacts DEF Current
<1>10. \A d : Answered(d) => Answered(d)'
  BY <1>1, Zenon DEF Answered
<1>11. cpc # "opening"
  <2>1. L # 0
    BY <1>3, CurrentFacts
  <2> QED
    BY <1>2, <2>1 DEF Downlink
<1>12. CASE cpc = "gone"
  <2>1. down' = <<>> /\ rneed' = 0
    BY <1>1, <1>4, <1>12 DEF Downlink, Typing
  <2>2. cpc' # "opening" /\ cpc' # "idle" /\ cpc' \notin {"answer", "length"}
    BY <1>1, <1>12
  <2> QED
    BY <1>7, <2>1, <2>2, Zenon DEF Downlink
<1>13. CASE cpc = "idle"
  <2>1. ret = <<>>
    BY <1>2, <1>3, <1>8, <1>9, <1>13, Zenon DEF Downlink
  <2>2. down' = down
    BY <1>4, <2>1, Zenon
  <2>3. /\ down = <<>> /\ rneed = 0 /\ rbuf = <<>>
        /\ \A d \in 1..Len(calls) : HasResult(calls[d]) => Answered(d)
    BY <1>13, Zenon DEF Downlink
  <2>4. (\A d \in 1..Len(calls) : HasResult(calls[d]) => Answered(d))'
    BY <1>1, <1>10, <2>3, Zenon
  <2>5. cpc' # "opening" /\ cpc' # "gone" /\ cpc' \notin {"answer", "length"}
    BY <1>1, <1>13
  <2> QED
    BY <1>1, <1>7, <2>2, <2>3, <2>4, <2>5, Zenon DEF Downlink
<1>14. CASE cpc \in {"answer", "length"}
  <2>1. Waiting
    BY <1>14, Zenon DEF Downlink
  <2>2. /\ calls # <<>> /\ HasResult(calls[L])
        /\ \A j \in DOMAIN received : received[j].call < L
        /\ \A d \in 1..(L - 1) : HasResult(calls[d]) => Answered(d)
        /\ cpc = "length" => socket_type = "TCP" /\ L <= Len(executed)
    BY <1>2, <2>1, Zenon DEF Waiting
  <2>3. Len(executed) < L /\ Len(executed) \in Nat /\ L \in Nat
    BY <1>2, <1>3, CurrentFacts DEF Current
  <2>4. cpc # "length" /\ cpc' # "length"
    <3>1. ~(L <= Len(executed))
      BY <2>3
    <3> QED
      BY <1>1, <2>2, <3>1, Zenon
  <2>5. down = <<>> /\ rbuf = <<>> /\ rneed = C!FirstReceive(Operations[calls[L].op].ret)
    BY <1>2, <2>1, <2>3, Zenon DEF Waiting
  <2>6. /\ (calls # <<>> /\ HasResult(calls[L]))'
        /\ \A j \in DOMAIN received' : received'[j].call < L
        /\ \A d \in 1..(L - 1) : HasResult(calls'[d]) => Answered(d)'
        /\ L = Len(calls') /\ calls'[L] = calls[L]
    BY <1>1, <1>2, <1>10, <2>2, Zenon
  <2>7. Waiting'
    <3>1. CASE Current # L
      <4>1. Current \in 1..(L - 1) /\ Current < L
        BY <1>3, <2>3, <3>1 DEF Current
      <4>2. ret = <<>>
        BY <1>2, <1>8, <1>9, <2>2, <4>1, Zenon
      <4>3. down' = <<>>
        BY <1>4, <2>5, <4>2, Zenon
      <4> QED
        BY <1>1, <1>7, <2>4, <2>5, <2>6, <4>1, <4>3, Zenon DEF Waiting
    <3>2. CASE Current = L
      <4>1. ret # <<>> /\ up_end = "open"
        BY <1>2, <1>8, <1>14, <2>2, <3>2 DEF Typing
      <4>2. PICK a : a = Replies[r.op][r.ret]
        OBVIOUS
      <4>3. executed'[L] = r /\ ~(Len(executed') < L) /\ Len(executed') = L
        BY <1>7, <2>3, <3>2
      <4>4. <<>> \o Answer(cmd.op, ret) = Answer(cmd.op, ret)
        BY <1>8, <4>1
      <4>5. down' = Answer(cmd.op, ret) \/ (socket_type = "WEBSOCK" /\ down' = <<>>)
        BY <1>4, <2>5, <4>1, <4>4, Zenon
      <4>6. CASE socket_type = "TCP"
        <5>1. down' = a /\ a \in Seq(WireBytes)
          BY <1>6, <1>8, <4>1, <4>2, <4>5, <4>6 DEF Answer
        <5>2. rbuf' \o down' = a /\ Len(rbuf') + rneed' = C!FirstReceive(Operations[calls'[L].op].ret)
          <6>1. rbuf' = <<>> /\ rneed' = C!FirstReceive(Operations[calls'[L].op].ret) /\ rneed' \in Nat
            BY <1>1, <2>5, <2>6 DEF Typing
          <6>2. Len(rbuf') = 0 /\ <<>> \o a = a
            BY <5>1, <6>1
          <6>3. 0 + rneed' = rneed'
            BY <6>1
          <6> QED
            BY <5>1, <6>1, <6>2, <6>3, Zenon
        <5> QED
          BY <1>1, <2>4, <2>6, <4>2, <4>3, <4>6, <5>2, Zenon DEF Waiting
      <4>7. CASE socket_type = "WEBSOCK"
        <5>1. down' \in {<<>>, UnmaskedFrame(a)}
          BY <1>6, <4>2, <4>5, <4>7 DEF Answer
        <5>2. socket_type' # "TCP"
          BY <1>1, <4>7
        <5> QED
          BY <2>4, <2>6, <4>2, <4>3, <5>1, <5>2, Zenon DEF Waiting
      <4> QED
        BY <4>6, <4>7 DEF Typing
    <3> QED
      BY <3>1, <3>2, Zenon
  <2>8. cpc' # "opening" /\ cpc' # "gone" /\ cpc' # "idle"
    BY <1>1, <1>14
  <2> QED
    BY <1>7, <2>7, <2>8, Zenon DEF Downlink
<1> QED
  BY <1>11, <1>12, <1>13, <1>14 DEF Typing

LEMMA HistoriesGrow ==
  ASSUME Typing, Histories, executed' = executed, received' = received, Extends(calls')
  PROVE  Histories'
<1>1. DOMAIN calls = 1..Len(calls) /\ Len(calls) \in Nat
  BY HistoryFacts
<1>2. \A i \in DOMAIN calls : i \in DOMAIN calls' /\ calls'[i] = calls[i]
  BY <1>1 DEF Extends
<1>3. RepliesInOrder'
  BY DEF Histories, RepliesInOrder
<1>4. \A i \in DOMAIN executed :
          /\ i \in DOMAIN calls' /\ executed[i].op = calls'[i].op
          /\ executed[i].ret \in Operations[executed[i].op].results
  BY <1>2, Zenon DEF Histories
<1>5. \A i \in DOMAIN received : received[i].call \in DOMAIN executed /\ i <= received[i].call
  BY Zenon DEF Histories
<1> QED
  BY <1>3, <1>4, <1>5, Zenon DEF Histories

\* Nobody waits for an answer any more.
LEMMA LeavingAnswer ==
  ASSUME Typing, Histories, executed' = executed, received' = received, Extends(calls'),
         cpc' = "gone", down' = <<>>, rneed' = 0
  PROVE  Histories' /\ Downlink'
<1>1. cpc' # "opening" /\ cpc' # "idle" /\ cpc' \notin {"answer", "length"}
  OBVIOUS
<1> QED
  BY <1>1, HistoriesGrow, Zenon DEF Downlink

\* A client that calls has got every answer before.
LEMMA CallAnswer ==
  ASSUME Typing, Histories, Downlink, SessionStays,
         NEW o \in DOMAIN Operations, NEW args \in Arguments[o], Call(o, args)
  PROVE  Histories' /\ Downlink'
<1>1. PICK x, L : x = [op |-> o, args |-> args] /\ L = Len(calls)
  OBVIOUS
<1>2. x \in CallSet /\ x.op = o
  BY <1>1, CommandBytes
<1>3. /\ cpc = "idle" /\ calls' = Append(calls, x) /\ rbuf' = <<>> /\ down' = down /\ received' = received
      /\ executed' = executed
      /\ IF Operations[o].ret = <<>> THEN UNCHANGED <<cpc, rneed>>
         ELSE cpc' = "answer" /\ rneed' = C!FirstReceive(Operations[o].ret)
  BY <1>1 DEF Call, Ready, SessionStays
<1>4. /\ Extends(calls') /\ Len(calls') = L + 1 /\ L \in Nat /\ calls'[L + 1] = x
      /\ \A d \in 1..L : calls'[d] = calls[d]
  BY <1>1, <1>2, <1>3, OneMoreCall DEF Extends
<1>5. Histories'
  BY <1>3, <1>4, HistoriesGrow, Zenon
<1>6. /\ down = <<>> /\ rneed = 0 /\ rbuf = <<>>
      /\ \A d \in 1..L : HasResult(calls[d]) => Answered(d)
  BY <1>1, <1>3, Zenon DEF Downlink
<1>7. \A d \in 1..L : HasResult(calls'[d]) => Answered(d)'
  BY <1>3, <1>4, <1>6, Zenon DEF Answered
<1>8. CASE Operations[o].ret = <<>>
  <2>1. cpc' = "idle" /\ rneed' = 0
    BY <1>3, <1>6, <1>8
  <2>2. ~HasResult(calls'[L + 1])
    BY <1>2, <1>4, <1>8, Zenon DEF HasResult
  <2>3. \A d \in 1..(L + 1) : HasResult(calls'[d]) => Answered(d)'
    <3> TAKE d \in 1..(L + 1)
    <3>1. d \in 1..L \/ d = L + 1
      BY <1>4
    <3> QED
      BY <1>7, <2>2, <3>1, Zenon
  <2>4. (\A d \in 1..Len(calls) : HasResult(calls[d]) => Answered(d))'
    BY <1>4, <2>3, Zenon
  <2>0. cpc' # "opening" /\ cpc' # "gone" /\ cpc' \notin {"answer", "length"}
    BY <2>1
  <2> QED
    BY <1>3, <1>5, <1>6, <2>1, <2>4, <2>0, Zenon DEF Downlink
<1>9. CASE Operations[o].ret # <<>>
  <2>1. cpc' = "answer" /\ rneed' = C!FirstReceive(Operations[calls'[L + 1].op].ret)
    BY <1>2, <1>3, <1>4, <1>9, Zenon
  <2>2. HasResult(calls'[L + 1]) /\ calls' # <<>>
    <3>1. HasResult(calls'[L + 1])
      BY <1>2, <1>4, <1>9, Zenon DEF HasResult
    <3>2. calls' # <<>>
      BY <1>4
    <3> QED
      BY <3>1, <3>2
  <2>3. \A j \in DOMAIN received' : received'[j].call < L + 1
    <3> SUFFICES ASSUME NEW j \in DOMAIN received PROVE received[j].call < L + 1
      BY <1>3
    <3>1. received[j].call \in DOMAIN executed
      BY Zenon DEF Histories
    <3> QED
      BY <1>1, <3>1, HistoryFacts
  <2>4. Len(executed') < L + 1
    BY <1>1, <1>3, HistoryFacts
  <2>0. (L + 1) - 1 = L
    BY <1>4
  <2>6. Waiting'
    <3>1. cpc' # "length"
      BY <2>1
    <3> QED
      BY <1>3, <1>4, <1>6, <1>7, <2>1, <2>2, <2>3, <2>4, <2>0, <3>1, Zenon DEF Waiting
  <2>7. cpc' # "opening" /\ cpc' # "gone" /\ cpc' # "idle"
    BY <2>1
  <2> QED
    BY <1>5, <2>6, <2>7, Zenon DEF Downlink
<1> QED
  BY <1>8, <1>9

\* The browser has the answer to its handshake.
LEMMA OpenedKeeps ==
  ASSUME Typing, Uplink, Histories, Downlink, SessionStays, up' = up, Opened
  PROVE  Typing' /\ Uplink' /\ Histories' /\ Downlink'
<1>1. /\ cpc = "opening" /\ down # <<>> /\ down' = <<>> /\ cpc' = "idle" /\ UNCHANGED <<up, up_end, calls>>
      /\ up_end' = up_end /\ rneed' = rneed /\ rbuf' = rbuf /\ calls' = calls /\ received' = received
      /\ executed' = executed
  BY DEF Opened, SessionStays
<1>2. calls = <<>> /\ rneed = 0 /\ rbuf = <<>> /\ spc = "ws_head" /\ up_end = "open"
  BY <1>1 DEF Downlink, Typing
<1>3. Typing'
  <2>1. /\ down' \in Seq(WireBytes) /\ rbuf' \in Seq(WireBytes) /\ rneed' \in Nat /\ up' \in Seq(WireBytes)
        /\ socket_type = "TCP" => up' \in Seq(0..(Radix - 1))
    BY <1>1, <1>2 DEF Typing
  <2>2. calls' \in Seq(CallSet) /\ Len(calls') <= MaxCalls /\ Sequence(received')
    BY <1>1, Zenon DEF Typing
  <2>3. /\ up_end' \in {"open", "eof", "reset"} /\ cpc' \in {"opening", "idle", "answer", "length", "gone"}
        /\ ((cpc' = "gone") <=> (up_end' # "open"))
    BY <1>1, <1>2
  <2> QED
    BY <2>1, <2>2, <2>3, ClientTyping, Zenon
<1>4. Uplink'
  BY <1>1, <1>2, ReceivingUplink, Zenon
<1>5. Histories'
  BY <1>1, HistoriesStay, Zenon
<1>6. (\A d \in 1..Len(calls) : HasResult(calls[d]) => Answered(d))'
  BY <1>1, <1>2
<1>7. cpc' # "opening" /\ cpc' # "gone" /\ cpc' \notin {"answer", "length"}
  BY <1>1
<1> QED
  BY <1>1, <1>2, <1>3, <1>4, <1>5, <1>6, <1>7, Zenon DEF Downlink

\* The answer is on its way, or has begun to arrive.
Arriving(L, o, ret, a) ==
    /\ L = Len(calls) /\ L = Len(executed) /\ L >= 1 /\ L \in Nat /\ calls[L].op = o /\ executed[L].op = o
    /\ executed[L].ret = ret /\ a = Replies[o][ret] /\ o \in DOMAIN Operations
    /\ ret \in Operations[o].results /\ ret # <<>> /\ HasResult(calls[L])
    /\ \A j \in DOMAIN received : received[j].call < L
    /\ \A d \in 1..(L - 1) : HasResult(calls[d]) => Answered(d)

\* What a client that waits can receive is the answer to its last call.
LEMMA AnswerArrives ==
  ASSUME Typing, Histories, Downlink, cpc \in {"answer", "length"},
         down # <<>> \/ rneed = 0 \/ cpc = "length"
  PROVE  \E L, o, ret, a :
            /\ Arriving(L, o, ret, a)
            /\ socket_type = "TCP" =>
                  /\ rbuf \o down = a
                  /\ Len(rbuf) + rneed = IF cpc = "length" THEN Len(a) ELSE C!FirstReceive(Operations[o].ret)
            /\ socket_type # "TCP" => down \in {<<>>, UnmaskedFrame(a)}
            /\ cpc = "length" => Dynamic(Operations[o].ret)
<1>1. PICK L, o, ret, a : /\ L = Len(calls) /\ o = executed[L].op /\ ret = executed[L].ret
                          /\ a = Replies[o][ret]
  OBVIOUS
<1>2. Waiting
  BY Zenon DEF Downlink
<1>3. /\ calls # <<>> /\ HasResult(calls[L])
      /\ \A j \in DOMAIN received : received[j].call < L
      /\ \A d \in 1..(L - 1) : HasResult(calls[d]) => Answered(d)
      /\ cpc = "length" => L <= Len(executed) /\ Dynamic(Operations[calls[L].op].ret)
  BY <1>1, <1>2, Zenon DEF Waiting
<1>4. L \in Nat /\ L >= 1 /\ Len(executed) \in Nat /\ Len(executed) <= L /\ DOMAIN executed = 1..Len(executed)
  BY <1>1, <1>3, HistoryFacts DEF Typing
<1>5. L = Len(executed)
  <2>0. ~(Len(executed) < L) => L = Len(executed)
    <3>1. PICK n : n = Len(executed) /\ n \in Nat /\ n <= L /\ L \in Nat
      BY <1>4, Zenon
    <3>2. ~(n < L) => L = n
      BY <3>1
    <3> QED
      BY <3>1, <3>2, Zenon
  <2> SUFFICES ASSUME Len(executed) < L PROVE FALSE
    BY <2>0, Zenon
  <2>1. down = <<>> /\ rneed = C!FirstReceive(Operations[calls[L].op].ret)
    BY <1>1, <1>2, Zenon DEF Waiting
  <2>2. calls[L] \in CallSet
    BY <1>1, <1>4, CurrentFacts
  <2>3. OperationParses(calls[L].op)
    BY <2>2, CallFacts, Zenon
  <2>4. rneed \in Nat \ {0}
    BY <1>3, <2>1, <2>3, Zenon DEF OperationParses, HasResult
  <2> QED
    BY <1>3, <1>4, <2>1, <2>4
<1>6. L \in DOMAIN executed /\ ~(Len(executed) < L)
  BY <1>4, <1>5
<1>7. calls[L].op = o /\ ret \in Operations[o].results
  BY <1>1, <1>6, Zenon DEF Histories
<1>8. o \in DOMAIN Operations
  <2>1. calls[L] \in CallSet
    BY <1>1, <1>4, CurrentFacts
  <2> QED
    BY <1>7, <2>1, CallFacts
<1>9. ret # <<>>
  BY <1>3, <1>7, <1>8, ReplyFacts, Zenon DEF HasResult
<1>10. Arriving(L, o, ret, a)
  BY <1>1, <1>3, <1>4, <1>5, <1>7, <1>8, <1>9, Zenon DEF Arriving
<1>11. IF socket_type = "TCP"
       THEN /\ rbuf \o down = a
            /\ Len(rbuf) + rneed = IF cpc = "length" THEN Len(a) ELSE C!FirstReceive(Operations[o].ret)
       ELSE down \in {<<>>, UnmaskedFrame(a)}
  BY <1>1, <1>2, <1>6, <1>7, Zenon DEF Waiting
<1> QED
  BY <1>3, <1>7, <1>10, <1>11, Zenon

\* What a step in which the client receives leaves as it is.
Receiving == SessionStays /\ up' = up /\ up_end' = up_end /\ calls' = calls

\* A client that receives keeps the types and does not touch the stream.
LEMMA ReceivingTyping ==
  ASSUME Typing, Uplink, Receiving, cpc \in {"answer", "length"}, cpc' \in {"answer", "length", "idle"},
         down' \in Seq(WireBytes), rbuf' \in Seq(WireBytes), rneed' \in Nat, Sequence(received')
  PROVE  Typing' /\ Uplink'
<1>1. SessionStays /\ up' = up /\ up_end' = up_end /\ calls' = calls /\ UNCHANGED <<up, up_end, calls>>
  BY DEF Receiving
<1>2. cpc \notin {"opening", "gone"} /\ up_end = "open"
  BY DEF Typing
<1>3. Typing'
  <2>1. up' \in Seq(WireBytes) /\ (socket_type = "TCP" => up' \in Seq(0..(Radix - 1)))
    BY <1>1, Zenon DEF Typing
  <2>2. calls' \in Seq(CallSet) /\ Len(calls') <= MaxCalls
    BY <1>1, Zenon DEF Typing
  <2>3. /\ up_end' \in {"open", "eof", "reset"} /\ cpc' \in {"opening", "idle", "answer", "length", "gone"}
        /\ ((cpc' = "gone") <=> (up_end' # "open"))
    BY <1>1, <1>2
  <2> QED
    BY <1>1, <2>1, <2>2, <2>3, ClientTyping, Zenon
<1>4. Uplink'
  BY <1>1, <1>2, ReceivingUplink, Zenon
<1> QED
  BY <1>3, <1>4

\* The client goes on waiting.
LEMMA StillWaiting ==
  ASSUME Typing, Histories, Receiving, received' = received, NEW L, NEW o, NEW ret, NEW a, Arriving(L, o, ret, a),
         socket_type = "TCP", cpc' \in {"answer", "length"}, rbuf' \o down' = a,
         Len(rbuf') + rneed' = IF cpc' = "length" THEN Len(a) ELSE C!FirstReceive(Operations[o].ret),
         cpc' = "length" => Dynamic(Operations[o].ret)
  PROVE  Histories' /\ Downlink'
<1>1. calls' = calls /\ executed' = executed /\ socket_type' = socket_type /\ socket_type' = "TCP"
  BY DEF Receiving, SessionStays
<1>2. Histories'
  BY <1>1, HistoriesStay, Zenon
<1>3. /\ L = Len(calls) /\ L = Len(executed) /\ L >= 1 /\ L \in Nat /\ calls[L].op = o /\ executed[L].op = o
      /\ executed[L].ret = ret /\ a = Replies[o][ret] /\ HasResult(calls[L])
      /\ \A j \in DOMAIN received : received[j].call < L
      /\ \A d \in 1..(L - 1) : HasResult(calls[d]) => Answered(d)
  BY Zenon DEF Arriving
<1>4. calls # <<>> /\ ~(Len(executed) < L) /\ L <= Len(executed)
  <2>1. Len(calls) >= 1
    BY <1>3, Zenon
  <2>2. calls # <<>>
    BY <2>1
  <2>3. ~(L < L) /\ L <= L
    <3>1. L \in Nat
      BY <1>3, Zenon
    <3> QED
      BY <3>1
  <2> QED
    BY <1>3, <2>2, <2>3, Zenon
<1>5. \A d \in 1..(L - 1) : HasResult(calls'[d]) => Answered(d)'
  BY <1>1, <1>3, Zenon DEF Answered
<1>6. Waiting'
  BY <1>1, <1>3, <1>4, <1>5, Zenon DEF Waiting
<1>7. cpc' # "opening" /\ cpc' # "gone" /\ cpc' # "idle"
  OBVIOUS
<1> QED
  BY <1>2, <1>6, <1>7, Zenon DEF Downlink

\* One recv() of recv_all stays within the answer.
LEMMA RecvSomeKeeps ==
  ASSUME Typing, Uplink, Histories, Downlink, Receiving, RecvSome
  PROVE  Typing' /\ Uplink' /\ Histories' /\ Downlink'
<1>1. PICK k \in 1..rneed : /\ k <= Len(down) /\ rbuf' = rbuf \o SubSeq(down, 1, k)
                            /\ down' = SubSeq(down, k + 1, Len(down)) /\ rneed' = rneed - k
  BY DEF RecvSome
<1>2. socket_type = "TCP" /\ rneed > 0 /\ cpc' = cpc /\ received' = received
  BY DEF RecvSome
<1>3. rbuf \in Seq(WireBytes) /\ down \in Seq(WireBytes) /\ rneed \in Nat /\ k \in Nat /\ Len(down) \in Nat /\ Len(rbuf) \in Nat
  BY <1>1, LenProperties DEF Typing
<1>4. cpc \in {"answer", "length"} /\ down # <<>>
  <2>1. ~(rneed = 0)
    BY <1>2, <1>3
  <2>2. down # <<>>
    BY <1>1, <1>3
  <2> QED
    BY <2>1, <2>2 DEF Downlink, Typing
<1>5. /\ rbuf' \in Seq(WireBytes) /\ down' \in Seq(WireBytes) /\ rbuf' \o down' = rbuf \o down
      /\ Len(rbuf') = Len(rbuf) + k
  BY <1>1, <1>3, ReadMoves, Zenon
<1>6. rneed' \in Nat /\ Len(rbuf') + rneed' = Len(rbuf) + rneed
  <2>1. rneed' = rneed - k /\ Len(rbuf') = Len(rbuf) + k
    BY <1>1, <1>5, Zenon
  <2> QED
    BY <1>1, <1>3, <2>1
<1>7. PICK L, o, ret, a :
         /\ Arriving(L, o, ret, a)
         /\ rbuf \o down = a
         /\ Len(rbuf) + rneed = IF cpc = "length" THEN Len(a) ELSE C!FirstReceive(Operations[o].ret)
         /\ cpc = "length" => Dynamic(Operations[o].ret)
  BY <1>2, <1>4, AnswerArrives, Zenon
<1>8. Typing' /\ Uplink'
  <2>1. cpc' \in {"answer", "length", "idle"} /\ Sequence(received')
    BY <1>2, <1>4 DEF Typing
  <2> QED
    BY <1>4, <1>5, <1>6, <2>1, ReceivingTyping, Zenon
<1>9. Histories' /\ Downlink'
  <2>1. rbuf' \o down' = a /\ cpc' \in {"answer", "length"}
        /\ Len(rbuf') + rneed' = IF cpc' = "length" THEN Len(a) ELSE C!FirstReceive(Operations[o].ret)
    BY <1>2, <1>4, <1>5, <1>6, <1>7, Zenon
  <2> QED
    BY <1>2, <1>7, <2>1, StillWaiting, Zenon
<1> QED
  BY <1>8, <1>9

\* The whole of rbuf \o down is known when rbuf is that long.
LEMMA FirstPart ==
  ASSUME NEW s \in Seq(WireBytes), NEW t \in Seq(WireBytes), NEW a, s \o t = a
  PROVE  /\ a \in Seq(WireBytes) /\ s = SubSeq(a, 1, Len(s)) /\ Len(s) \in Nat /\ Len(s) <= Len(a)
         /\ Len(s) = Len(a) => s = a /\ t = <<>>
<1>1. a \in Seq(WireBytes) /\ Len(s) \in Nat /\ Len(t) \in Nat /\ Len(a) = Len(s) + Len(t)
  BY Concat, Zenon
<1>2. s = SubSeq(a, 1, Len(s))
  BY DropFirst, Zenon
<1>3. ASSUME Len(s) = Len(a) PROVE s = a /\ t = <<>>
  <2>1. Len(t) = 0
    BY <1>1, <1>3
  <2>2. t = <<>>
    BY <2>1
  <2>3. SubSeq(a, 1, Len(a)) = a
    BY <1>1, SubSeqFull, Zenon
  <2> QED
    BY <1>2, <1>3, <2>2, <2>3, Zenon
<1>4. Len(s) <= Len(a)
  BY <1>1
<1> QED
  BY <1>1, <1>2, <1>3, <1>4, Zenon

LEMMA LastCallIs ==
  ASSUME Typing, NEW L, NEW o, NEW ret, NEW a, Arriving(L, o, ret, a)
  PROVE  LastCall = Operations[o] /\ L = Len(calls)
<1>1. calls \in Seq(CallSet) /\ L = Len(calls) /\ calls[L].op = o
  BY DEF Arriving, Typing
<1>2. Last(calls) = calls[L]
  BY <1>1, Zenon DEF Last
<1> QED
  BY <1>1, <1>2, Zenon DEF LastCall

\* What ReplyDecodes says of the answer.
Decoded(o, ret, a, types, first) ==
    /\ a \in Seq(0..(Radix - 1)) /\ a \in Seq(WireBytes) /\ LengthDecodes(Len(a)) /\ Len(a) \in Nat
    /\ first \in Nat \ {0} /\ first <= Len(a)
    /\ C!deserialize(0, C!HeaderTypes, a) = <<0, Operations[o].class, Operations[o].func>>
    /\ IF Dynamic(types)
       THEN /\ C!deserialize(C!header_size, <<"uint32_t">>, SubSeq(a, 1, first))[1] = Len(a) - first
            /\ C!command_deserializer(types, SubSeq(a, first + 1, Len(a))) = ret
       ELSE first = Len(a) /\ C!command_deserializer(types, a) = ret

LEMMA AnswerDecodes ==
  ASSUME Typing, NEW L, NEW o, NEW ret, NEW a, Arriving(L, o, ret, a),
         NEW types, NEW first, types = Operations[o].ret, first = C!FirstReceive(types)
  PROVE  Decoded(o, ret, a, types, first)
<1>1. o \in DOMAIN Operations /\ ret \in Operations[o].results /\ ret # <<>> /\ a = Replies[o][ret]
      /\ Operations[o].ret # <<>>
  BY Zenon DEF Arriving, HasResult
<1>2. ReplyDecodes(o, ret) /\ a \in Seq(0..(Radix - 1)) /\ a \in Seq(WireBytes) /\ LengthDecodes(Len(a))
  BY <1>1, ReplyFacts, Zenon
<1>4. first \in Nat \ {0}
  BY <1>1, CodecAssumption, Zenon DEF OperationParses
<1>5. /\ C!deserialize(0, C!HeaderTypes, a) = <<0, Operations[o].class, Operations[o].func>>
      /\ IF Dynamic(types)
         THEN /\ first \in 0..Len(a)
              /\ C!deserialize(C!header_size, <<"uint32_t">>, SubSeq(a, 1, first))[1] = Len(a) - first
              /\ C!command_deserializer(types, SubSeq(a, first + 1, Len(a))) = ret
         ELSE first = Len(a) /\ C!command_deserializer(types, a) = ret
  BY <1>1, <1>2, Zenon DEF ReplyDecodes
<1>6. first <= Len(a) /\ Len(a) \in Nat
  <2>1. Len(a) \in Nat
    BY <1>2, LenProperties
  <2>2. first \in 0..Len(a) \/ first = Len(a)
    BY <1>5, Zenon
  <2> QED
    BY <1>4, <2>1, <2>2
<1> QED
  BY <1>2, <1>4, <1>5, <1>6, Zenon DEF Decoded

\* get_payload_dynamic: the rest of the answer is as long as the length says.
LEMMA RecvLengthKeeps ==
  ASSUME Typing, Uplink, Histories, Downlink, Receiving, RecvLength
  PROVE  Typing' /\ Uplink' /\ Histories' /\ Downlink'
<1>1. /\ socket_type = "TCP" /\ cpc = "answer" /\ rneed = 0 /\ Dynamic(LastCall.ret)
      /\ rneed' = C!deserialize(C!header_size, <<"uint32_t">>, rbuf)[1]
      /\ cpc' = "length" /\ down' = down /\ rbuf' = rbuf /\ received' = received
  BY DEF RecvLength
<1>2. cpc \in {"answer", "length"} /\ cpc # "length" /\ cpc' \in {"answer", "length"}
      /\ cpc' \in {"answer", "length", "idle"}
  BY <1>1
<1>3. PICK L, o, ret, a :
         /\ Arriving(L, o, ret, a) /\ rbuf \o down = a
         /\ Len(rbuf) + rneed = IF cpc = "length" THEN Len(a) ELSE C!FirstReceive(Operations[o].ret)
  BY <1>1, <1>2, AnswerArrives, Zenon
<1>4. PICK types, first : types = Operations[o].ret /\ first = C!FirstReceive(types)
  OBVIOUS
<1>5. rbuf \in Seq(WireBytes) /\ down \in Seq(WireBytes) /\ Len(rbuf) \in Nat
  BY LenProperties DEF Typing
<1>6. Len(rbuf) = first
  <2>1. Len(rbuf) + rneed = first
    BY <1>2, <1>3, <1>4, Zenon
  <2> QED
    BY <1>1, <1>5, <2>1
<1>7. rbuf = SubSeq(a, 1, first)
  BY <1>3, <1>5, <1>6, FirstPart, Zenon
<1>8. Dynamic(types)
  BY <1>1, <1>3, <1>4, LastCallIs, Zenon
<1>9. /\ first \in Nat \ {0} /\ first <= Len(a) /\ Len(a) \in Nat
      /\ C!deserialize(C!header_size, <<"uint32_t">>, SubSeq(a, 1, first))[1] = Len(a) - first
  <2>1. Decoded(o, ret, a, types, first)
    BY <1>3, <1>4, AnswerDecodes, Zenon
  <2> QED
    BY <1>8, <2>1, Zenon DEF Decoded
<1>10. rneed' = Len(a) - first
  BY <1>1, <1>7, <1>9, Zenon
<1>11. rneed' \in Nat /\ Len(rbuf) + rneed' = Len(a)
  BY <1>6, <1>9, <1>10
<1>12. Typing' /\ Uplink'
  <2>1. down' \in Seq(WireBytes) /\ rbuf' \in Seq(WireBytes) /\ Sequence(received')
    BY <1>1, <1>5, Zenon DEF Typing
  <2> QED
    BY <1>2, <1>11, <2>1, ReceivingTyping, Zenon
<1>13. Histories' /\ Downlink'
  <2>1. rbuf' \o down' = a
        /\ Len(rbuf') + rneed' = IF cpc' = "length" THEN Len(a) ELSE C!FirstReceive(Operations[o].ret)
    BY <1>1, <1>3, <1>11, Zenon
  <2> QED
    BY <1>1, <1>2, <1>3, <1>4, <1>8, <2>1, StillWaiting, Zenon
<1> QED
  BY <1>12, <1>13

\* recv<id> returns the result of the last call.
LEMMA Returned ==
  ASSUME Typing, Uplink, Histories, Downlink, Receiving, cpc \in {"answer", "length"},
         NEW L, NEW o, NEW ret, NEW a, Arriving(L, o, ret, a), NEW header, NEW values,
         C!deserialize(0, C!HeaderTypes, header) = <<0, Operations[o].class, Operations[o].func>>,
         values = ret, Return(header, values), down' = <<>>
  PROVE  Typing' /\ Uplink' /\ Histories' /\ Downlink'
<1>1. PICK r, m : /\ r = [call |-> Len(calls), header |-> C!deserialize(0, C!HeaderTypes, header), ret |-> values]
                  /\ m = Len(received) + 1
  OBVIOUS
<1>2. /\ received' = Append(received, r) /\ cpc' = "idle" /\ rneed' = 0 /\ rbuf' = <<>>
      /\ calls' = calls /\ executed' = executed
  BY <1>1 DEF Return, Receiving, SessionStays
<1>3. /\ L = Len(calls) /\ L = Len(executed) /\ L >= 1 /\ L \in Nat /\ executed[L].op = o
      /\ executed[L].ret = ret
      /\ \A j \in DOMAIN received : received[j].call < L
      /\ \A d \in 1..(L - 1) : HasResult(calls[d]) => Answered(d)
  BY Zenon DEF Arriving
<1>4. r.call = L /\ r.header = <<0, Operations[o].class, Operations[o].func>> /\ r.ret = ret
  BY <1>1, <1>3
<1>5. /\ DOMAIN executed = 1..L /\ DOMAIN calls = 1..L /\ DOMAIN received = 1..Len(received)
      /\ Len(received) \in Nat /\ L \in DOMAIN executed
  BY <1>3, HistoryFacts
<1>6. /\ Sequence(received') /\ DOMAIN received' = 1..m /\ received'[m] = r
      /\ \A j \in 1..Len(received) : received'[j] = received[j]
  <2>1. Sequence(received)
    BY DEF Typing
  <2>2. /\ Sequence(Append(received, r)) /\ DOMAIN Append(received, r) = 1..(Len(received) + 1)
        /\ Append(received, r)[Len(received) + 1] = r
        /\ \A j \in 1..Len(received) : Append(received, r)[j] = received[j]
    BY ONLY <2>1, AppendToSequence
  <2> QED
    BY <1>1, <1>2, <2>2, Zenon
<1>7. m \in DOMAIN received' /\ m - 1 = Len(received)
  BY <1>1, <1>5, <1>6
<1>8. Typing' /\ Uplink'
  <2>1. /\ down' \in Seq(WireBytes) /\ rbuf' \in Seq(WireBytes) /\ rneed' \in Nat
        /\ cpc' \in {"answer", "length", "idle"}
    BY <1>2
  <2> QED
    BY <1>6, <2>1, ReceivingTyping, Zenon
<1>9. \A d : Answered(d) => Answered(d)'
  <2> SUFFICES ASSUME NEW d, Answered(d) PROVE Answered(d)'
    OBVIOUS
  <2>1. PICK j \in DOMAIN received : received[j].call = d
    BY DEF Answered
  <2>2. j \in DOMAIN received' /\ received'[j] = received[j]
    BY <1>1, <1>5, <1>6
  <2> QED
    BY <2>1, <2>2, Zenon DEF Answered
<1>10. \A i \in DOMAIN received' : received'[i].call \in DOMAIN executed /\ i <= received'[i].call
  <2> TAKE i \in DOMAIN received'
  <2>1. CASE i = m
    <3>1. received'[i].call = L
      BY <1>4, <1>6, <2>1, Zenon
    <3>2. m <= L
      <4>1. CASE Len(received) = 0
        BY <1>1, <1>3, <4>1
      <4>2. CASE Len(received) # 0
        <5>1. Len(received) \in DOMAIN received
          BY <1>5, <4>2
        <5>2. /\ received[Len(received)].call < L /\ Len(received) <= received[Len(received)].call
              /\ received[Len(received)].call \in DOMAIN executed
          BY <1>3, <5>1, Zenon DEF Histories
        <5> QED
          BY <1>1, <1>3, <1>5, <5>2
      <4> QED
        BY <4>1, <4>2
    <3> QED
      BY <1>5, <2>1, <3>1, <3>2, Zenon
  <2>2. CASE i # m
    <3>1. i \in 1..Len(received) /\ i \in DOMAIN received
      BY <1>1, <1>5, <1>6, <2>2
    <3> QED
      BY <1>6, <3>1, Zenon DEF Histories
  <2> QED
    BY <2>1, <2>2
<1>11. \A i \in DOMAIN received' :
          LET c == received'[i].call
          IN  /\ c \in DOMAIN executed
              /\ received'[i].header = <<0, Operations[executed[c].op].class, Operations[executed[c].op].func>>
              /\ received'[i].ret = executed[c].ret
              /\ \A j \in 1..(i - 1) : received'[j].call < c
              /\ \A d \in 1..(c - 1) :
                    Operations[executed[d].op].ret # <<>> => \E j \in 1..(i - 1) : received'[j].call = d
  <2> TAKE i \in DOMAIN received'
  <2>1. CASE i = m
    <3>1. received'[i].call = L /\ received'[i].header = r.header /\ received'[i].ret = r.ret
      BY <1>4, <1>6, <2>1, Zenon
    <3>2. \A j \in 1..(i - 1) : received'[j].call < L
      <4>1. 1..(i - 1) = 1..Len(received)
        BY <1>7, <2>1
      <4> QED
        BY <1>3, <1>5, <1>6, <4>1, Zenon
    <3>3. \A d \in 1..(L - 1) :
             Operations[executed[d].op].ret # <<>> => \E j \in 1..(i - 1) : received'[j].call = d
      <4> TAKE d \in 1..(L - 1)
      <4> HAVE Operations[executed[d].op].ret # <<>>
      <4>1. d \in DOMAIN executed
        BY <1>3, <1>5
      <4>2. HasResult(calls[d])
        BY <4>1, Zenon DEF Histories, HasResult
      <4>3. PICK j \in DOMAIN received : received[j].call = d
        BY <1>3, <4>2, Zenon DEF Answered
      <4>4. j \in 1..(i - 1) /\ j \in 1..Len(received)
        BY <1>5, <1>7, <2>1
      <4> QED
        BY <1>6, <4>3, <4>4, Zenon
    <3> QED
      BY <1>3, <1>4, <1>5, <3>1, <3>2, <3>3, Zenon
  <2>2. CASE i # m
    <3>1. i \in 1..Len(received) /\ i \in DOMAIN received /\ \A j \in 1..(i - 1) : j \in 1..Len(received)
      BY <1>1, <1>5, <1>6, <2>2
    <3>2. received'[i] = received[i] /\ \A j \in 1..(i - 1) : received'[j] = received[j]
      BY <1>6, <3>1, Zenon
    <3>3. PICK c : c = received[i].call
      OBVIOUS
    <3>4. /\ c \in DOMAIN executed
          /\ received[i].header = <<0, Operations[executed[c].op].class, Operations[executed[c].op].func>>
          /\ received[i].ret = executed[c].ret
          /\ \A j \in 1..(i - 1) : received[j].call < c
          /\ \A d \in 1..(c - 1) :
                Operations[executed[d].op].ret # <<>> => \E j \in 1..(i - 1) : received[j].call = d
      BY <3>1, <3>3, Zenon DEF Histories, RepliesInOrder
    <3> QED
      BY <3>2, <3>3, <3>4, ZenonT(60)
  <2> QED
    BY <2>1, <2>2, Zenon
<1>12. Histories'
  <2>1. RepliesInOrder'
    BY <1>2, <1>11 DEF RepliesInOrder
  <2>2. \A i \in DOMAIN executed :
          /\ i \in DOMAIN calls /\ executed[i].op = calls[i].op
          /\ executed[i].ret \in Operations[executed[i].op].results
    BY Zenon DEF Histories
  <2> QED
    BY <1>2, <1>10, <2>1, <2>2, Zenon DEF Histories
<1>13. (\A d \in 1..Len(calls) : HasResult(calls[d]) => Answered(d))'
  <2>1. Answered(L)'
    BY <1>4, <1>6, <1>7, Zenon DEF Answered
  <2>2. \A d \in 1..L : d \in 1..(L - 1) \/ d = L
    BY <1>3
  <2>3. \A d \in 1..L : HasResult(calls[d]) => Answered(d)'
    BY <1>3, <1>9, <2>1, <2>2, Zenon
  <2> QED
    BY <1>2, <1>3, <2>3, Zenon
<1>14. cpc' # "opening" /\ cpc' # "gone" /\ cpc' \notin {"answer", "length"}
  BY <1>2
<1> QED
  BY <1>2, <1>8, <1>12, <1>13, <1>14, Zenon DEF Downlink

\* command_deserializer for a result whose size is known.
LEMMA RecvStaticKeeps ==
  ASSUME Typing, Uplink, Histories, Downlink, Receiving, RecvStatic
  PROVE  Typing' /\ Uplink' /\ Histories' /\ Downlink'
<1>1. /\ socket_type = "TCP" /\ cpc = "answer" /\ rneed = 0 /\ ~Dynamic(LastCall.ret) /\ down' = down
      /\ Return(rbuf, C!command_deserializer(LastCall.ret, rbuf))
  BY DEF RecvStatic
<1>2. cpc \in {"answer", "length"} /\ cpc # "length"
  BY <1>1
<1>3. PICK L, o, ret, a :
         /\ Arriving(L, o, ret, a) /\ rbuf \o down = a
         /\ Len(rbuf) + rneed = IF cpc = "length" THEN Len(a) ELSE C!FirstReceive(Operations[o].ret)
  BY <1>1, <1>2, AnswerArrives, Zenon
<1>4. PICK types, first : types = Operations[o].ret /\ first = C!FirstReceive(types)
  OBVIOUS
<1>5. LastCall.ret = types
  BY <1>3, <1>4, LastCallIs, Zenon
<1>6. /\ first = Len(a) /\ C!command_deserializer(types, a) = ret
      /\ C!deserialize(0, C!HeaderTypes, a) = <<0, Operations[o].class, Operations[o].func>>
  <2>3. Decoded(o, ret, a, types, first)
    BY <1>3, <1>4, AnswerDecodes, Zenon
  <2>1. ~Dynamic(types)
    BY <1>1, <1>5, Zenon
  <2> QED
    BY <2>1, <2>3, Zenon DEF Decoded
<1>7. rbuf = a /\ down = <<>>
  <2>1. rbuf \in Seq(WireBytes) /\ down \in Seq(WireBytes) /\ Len(rbuf) \in Nat
    BY LenProperties DEF Typing
  <2>2. Len(rbuf) + rneed = first
    BY <1>2, <1>3, <1>4, Zenon
  <2>3. Len(rbuf) = first
    BY <1>1, <2>1, <2>2
  <2> QED
    BY <1>3, <1>6, <2>1, <2>3, FirstPart, ZenonT(60)
<1>8. PICK v : v = C!command_deserializer(LastCall.ret, rbuf)
  OBVIOUS
<1>9. v = ret /\ Return(a, v) /\ down' = <<>>
  BY <1>1, <1>5, <1>6, <1>7, <1>8, Zenon
<1> QED
  BY <1>2, <1>3, <1>6, <1>9, Returned, Zenon

\* command_deserializer for a vector or a string.
LEMMA RecvDynamicKeeps ==
  ASSUME Typing, Uplink, Histories, Downlink, Receiving, RecvDynamic
  PROVE  Typing' /\ Uplink' /\ Histories' /\ Downlink'
<1>1. /\ socket_type = "TCP" /\ cpc = "length" /\ rneed = 0 /\ down' = down
      /\ Return(rbuf, C!command_deserializer(LastCall.ret,
                                             SubSeq(rbuf, C!FirstReceive(LastCall.ret) + 1, Len(rbuf))))
  BY DEF RecvDynamic
<1>2. cpc \in {"answer", "length"}
  BY <1>1
<1>3. PICK L, o, ret, a :
         /\ Arriving(L, o, ret, a) /\ rbuf \o down = a
         /\ Len(rbuf) + rneed = IF cpc = "length" THEN Len(a) ELSE C!FirstReceive(Operations[o].ret)
         /\ cpc = "length" => Dynamic(Operations[o].ret)
  BY <1>1, <1>2, AnswerArrives, Zenon
<1>4. PICK types, first : types = Operations[o].ret /\ first = C!FirstReceive(types)
  OBVIOUS
<1>5. LastCall.ret = types
  BY <1>3, <1>4, LastCallIs, Zenon
<1>6. rbuf = a /\ down = <<>>
  <2>1. rbuf \in Seq(WireBytes) /\ down \in Seq(WireBytes) /\ Len(rbuf) \in Nat
    BY LenProperties DEF Typing
  <2>2. Len(rbuf) + rneed = Len(a)
    BY <1>1, <1>3, Zenon
  <2>3. Len(rbuf) = Len(a)
    BY <1>1, <2>1, <2>2
  <2> QED
    BY <1>3, <2>1, <2>3, FirstPart, Zenon
<1>7. PICK v : v = C!command_deserializer(LastCall.ret, SubSeq(rbuf, C!FirstReceive(LastCall.ret) + 1, Len(rbuf)))
  OBVIOUS
<1>8. /\ v = ret
      /\ C!deserialize(0, C!HeaderTypes, a) = <<0, Operations[o].class, Operations[o].func>>
  <2>3. Decoded(o, ret, a, types, first)
    BY <1>3, <1>4, AnswerDecodes, Zenon
  <2>1. Dynamic(types)
    BY <1>1, <1>3, <1>4, Zenon
  <2>2. v = C!command_deserializer(types, SubSeq(a, first + 1, Len(a)))
    BY <1>4, <1>5, <1>6, <1>7, Zenon
  <2> QED
    BY <2>1, <2>2, <2>3, Zenon DEF Decoded
<1>9. Return(a, v) /\ down' = <<>>
  BY <1>1, <1>6, <1>7, Zenon
<1> QED
  BY <1>2, <1>3, <1>8, <1>9, Returned, Zenon

\* k more bytes of the frame F are its length.
LengthRead(F, k, length) ==
    /\ k = IF F[2].v <= SMALL_STREAM THEN 0 ELSE IF F[2].v = MEDIUM_STREAM THEN 2 ELSE 8
    /\ length = IF F[2].v <= SMALL_STREAM THEN F[2].v ELSE FromBytes([i \in 1..k |-> F[2 + i].v])

\* A browser reads the length of a message as the session wrote it.
LEMMA MessageLength ==
  ASSUME NEW a \in Seq(0..(Radix - 1)), LengthDecodes(Len(a)), NEW F, F = UnmaskedFrame(a),
         NEW k, NEW length, LengthRead(F, k, length)
  PROVE  /\ length = Len(a) /\ length \in Nat /\ F \in Seq(WireBytes) /\ k \in {0, 2, 8} /\ Len(F) = 2 + k + length
         /\ \A i \in 1..length : F[2 + k + i].v = a[i]
<1>1. PICK n, e : n = Len(a) /\ e = ExtOf(n)
  OBVIOUS
<1>2. /\ F \in Seq(WireBytes) /\ n \in Nat /\ e \in {0, 2, 8} /\ Len(F) = 2 + e + n
      /\ F[2].v = FrameLength(n)[1].v
      /\ \A i \in 1..e : F[2 + i].v = FrameLength(n)[1 + i].v
      /\ \A i \in 1..n : F[2 + e + i].v = a[i]
  BY <1>1, UnmaskedFrameShape, Zenon
<1>3. LengthDecodes(n)
  BY <1>1
<1>4. /\ FrameLength(n)[1].v = IF e = 0 THEN n ELSE IF e = 2 THEN MEDIUM_STREAM ELSE BIG_STREAM
      /\ e = 0 <=> n <= SMALL_STREAM
      /\ e # 0 => /\ \A i \in 1..e : FrameLength(n)[1 + i].v = ToBytes(e, n)[i]
                  /\ FromBytes(ToBytes(e, n)) = n
  BY <1>1, <1>2, <1>3, FrameLengthShape, Zenon
<1>5. PICK v : v = F[2].v
  OBVIOUS
<1>6. v = IF e = 0 THEN n ELSE IF e = 2 THEN MEDIUM_STREAM ELSE BIG_STREAM
  BY <1>2, <1>4, <1>5, Zenon
<1>7. /\ v <= SMALL_STREAM <=> e = 0
      /\ v = MEDIUM_STREAM => e = 2 \/ e = 0
      /\ e = 2 => v = MEDIUM_STREAM
      /\ e = 0 => v = n
  BY <1>2, <1>4, <1>6, LinkAssumption DEF MEDIUM_STREAM, BIG_STREAM
<1>8. k = e
  <2>1. e = 0 \/ e = 2 \/ e = 8
    BY <1>2
  <2> QED
    BY <1>5, <1>7, <2>1, Zenon DEF LengthRead
<1>9. length = n
  <2>1. CASE e = 0
    BY <1>5, <1>7, <2>1, Zenon DEF LengthRead
  <2>2. CASE e # 0
    <3>1. \A i \in 1..e : F[2 + i].v = ToBytes(e, n)[i]
      BY <1>2, <1>4, <2>2, Zenon
    <3>2. [i \in 1..e |-> F[2 + i].v] = [i \in 1..e |-> ToBytes(e, n)[i]]
      BY <3>1, Zenon
    <3>3. [i \in 1..e |-> ToBytes(e, n)[i]] = ToBytes(e, n)
      <4>1. PICK f : f = ToBytes(e, n)
        OBVIOUS
      <4>2. f = [i \in 1..e |-> (n \div Radix^(e - i)) % Radix]
        BY <4>1, Zenon DEF ToBytes
      <4>3. \A i \in 1..e : f[i] = (n \div Radix^(e - i)) % Radix
        BY <4>2, Zenon
      <4> QED
        BY <4>1, <4>2, <4>3, Zenon
    <3> QED
      BY <1>4, <1>5, <1>7, <1>8, <2>2, <3>2, <3>3, Zenon DEF LengthRead
  <2> QED
    BY <2>1, <2>2
<1> QED
  BY <1>1, <1>2, <1>8, <1>9, Zenon

\* A browser takes a message apart.
LEMMA MessageKeeps ==
  ASSUME Typing, Uplink, Histories, Downlink, Receiving, Message
  PROVE  Typing' /\ Uplink' /\ Histories' /\ Downlink'
<1>1. socket_type = "WEBSOCK" /\ cpc = "answer" /\ down # <<>>
  BY DEF Message
<1>2. cpc \in {"answer", "length"} /\ socket_type # "TCP"
  BY <1>1
<1>3. PICK L, o, ret, a : Arriving(L, o, ret, a) /\ down \in {<<>>, UnmaskedFrame(a)}
  BY <1>1, <1>2, AnswerArrives, Zenon
<1>4. PICK types, first : types = Operations[o].ret /\ first = C!FirstReceive(types)
  OBVIOUS
<1>5. LastCall.ret = types
  BY <1>3, <1>4, LastCallIs, Zenon
<1>6. Decoded(o, ret, a, types, first)
  BY <1>3, <1>4, AnswerDecodes, Zenon
<1>7. a \in Seq(0..(Radix - 1)) /\ a \in Seq(WireBytes) /\ LengthDecodes(Len(a)) /\ Len(a) \in Nat
  BY <1>6, Zenon DEF Decoded
<1>8. down = UnmaskedFrame(a)
  BY <1>1, <1>3
<1>9. PICK k, length, data, start :
         /\ k = IF down[2].v <= SMALL_STREAM THEN 0 ELSE IF down[2].v = MEDIUM_STREAM THEN 2 ELSE 8
         /\ length = IF down[2].v <= SMALL_STREAM THEN down[2].v ELSE FromBytes([i \in 1..k |-> down[2 + i].v])
         /\ data = [i \in 1..length |-> down[2 + k + i].v]
         /\ start = IF Dynamic(LastCall.ret) THEN C!FirstReceive(LastCall.ret) ELSE 0
         /\ Return(data, C!command_deserializer(LastCall.ret, SubSeq(data, start + 1, length)))
         /\ down' = SubSeq(down, 3 + k + length, Len(down))
  BY Zenon DEF Message
<1>10. /\ length = Len(a) /\ length \in Nat /\ down \in Seq(WireBytes) /\ k \in {0, 2, 8}
       /\ Len(down) = 2 + k + length /\ \A i \in 1..length : down[2 + k + i].v = a[i]
  <2>1. PICK F : F = down
    OBVIOUS
  <2>2. F = UnmaskedFrame(a)
    BY <1>8, <2>1, Zenon
  <2>3. LengthRead(F, k, length)
    BY <1>9, <2>1, Zenon DEF LengthRead
  <2>5. /\ length = Len(a) /\ length \in Nat /\ F \in Seq(WireBytes) /\ k \in {0, 2, 8}
        /\ Len(F) = 2 + k + length /\ \A i \in 1..length : F[2 + k + i].v = a[i]
    BY ONLY <1>7, <2>2, <2>3, MessageLength
  <2> QED
    BY <2>1, <2>5, Zenon
<1>11. data = a
  <2>1. a = [i \in 1..length |-> a[i]]
    BY <1>7, <1>10
  <2>2. data = [i \in 1..length |-> a[i]]
    BY <1>9, <1>10, Zenon
  <2> QED
    BY <2>1, <2>2, Zenon
<1>12. down' = <<>>
  <2>1. PICK p : p = 3 + k + length /\ p \in Nat /\ p > Len(down)
    BY <1>10
  <2>2. down' = SubSeq(down, p, Len(down))
    BY <1>9, <2>1, Zenon
  <2> QED
    BY <1>10, <2>1, <2>2
<1>13. PICK w : w = C!command_deserializer(LastCall.ret, SubSeq(data, start + 1, length))
  OBVIOUS
<1>14. w = ret
  <2>1. CASE Dynamic(types)
    <3>1. w = C!command_deserializer(types, SubSeq(a, first + 1, Len(a)))
      BY <1>4, <1>5, <1>9, <1>10, <1>11, <1>13, <2>1, Zenon
    <3> QED
      BY <1>6, <2>1, <3>1, Zenon DEF Decoded
  <2>2. CASE ~Dynamic(types)
    <3>1. start = 0
      BY <1>5, <1>9, <2>2, Zenon
    <3>2. start + 1 = 1
      BY <3>1
    <3>3. SubSeq(a, 1, Len(a)) = a
      BY <1>7, SubSeqFull, Zenon
    <3>4. w = C!command_deserializer(types, a)
      BY <1>5, <1>10, <1>11, <1>13, <3>2, <3>3, Zenon
    <3> QED
      BY <1>6, <2>2, <3>4, Zenon DEF Decoded
  <2> QED
    BY <2>1, <2>2
<1>15. Return(a, w)
  BY <1>9, <1>11, <1>13, Zenon
<1>16. C!deserialize(0, C!HeaderTypes, a) = <<0, Operations[o].class, Operations[o].func>>
  BY <1>6, Zenon DEF Decoded
<1> QED
  BY <1>2, <1>3, <1>12, <1>14, <1>15, <1>16, Returned, Zenon

-----------------------------------------------------------------------------
(* The invariant holds *)

LEMMA HttpRequestType == HttpRequest \in Seq(WireBytes) /\ Len(HttpRequest) = HttpLength
<1>1. \A i \in 1..HttpLength : Byte("http", i) \in WireBytes
  BY ByteType
<1>2. HttpLength \in Nat
  BY LinkAssumption
<1> QED
  BY <1>1, <1>2 DEF HttpRequest

LEMMA InitTyping == Init => Typing
<1> SUFFICES ASSUME Init PROVE Typing
  OBVIOUS
<1>1. /\ socket_type \in {"TCP", "WEBSOCK"} /\ up_end = "open" /\ down = <<>> /\ down_end = FALSE
      /\ buff = <<>> /\ cmd = NoCommand /\ executed = <<>>
      /\ rneed = 0 /\ rbuf = <<>> /\ calls = <<>> /\ received = <<>>
      /\ up = IF socket_type = "WEBSOCK" THEN HttpRequest ELSE <<>>
      /\ spc = IF socket_type = "WEBSOCK" THEN "http" ELSE "header"
      /\ need = IF socket_type = "WEBSOCK" THEN HttpLength ELSE S!HEADER_SIZE
      /\ cpc = IF socket_type = "WEBSOCK" THEN "opening" ELSE "idle"
  BY DEF Init
<1>2. spc \in {"http", "header", "length", "pack", "exec", "ws_head", "ws_ext",
                "ws_payload", "ended", "aborted"}
  BY <1>1
<1>3. cpc \in {"opening", "idle", "answer", "length", "gone"} /\ cpc # "gone"
  BY <1>1
<1>4. need \in Nat /\ rneed \in Nat
  BY <1>1, LinkAssumption DEF S!HEADER_SIZE
<1>5. cmd.op \in DOMAIN Operations \cup {"none"} /\ cmd.cut \in BOOLEAN
  BY <1>1, NoCommandType, Zenon
<1>6. /\ buff \in Seq(WireBytes) /\ down \in Seq(WireBytes) /\ rbuf \in Seq(WireBytes)
      /\ calls \in Seq(CallSet) /\ Len(calls) <= MaxCalls
  BY <1>1, LinkAssumption
<1>7. up \in Seq(WireBytes) /\ (socket_type = "TCP" => up \in Seq(0..(Radix - 1)))
  <2>1. <<>> \in Seq(WireBytes) /\ <<>> \in Seq(0..(Radix - 1))
    OBVIOUS
  <2> QED
    BY <1>1, <2>1, HttpRequestType
<1>8. Sequence(executed) /\ Sequence(received)
  <2>1. Sequence(<<>>)
    <3>1. <<>> \in Seq(Nat)
      OBVIOUS
    <3> QED
      BY <3>1, Zenon DEF Sequence
  <2> QED
    BY <1>1, <2>1, Zenon
<1>9. down_end \in BOOLEAN /\ up_end \in {"open", "eof", "reset"} /\ ~(up_end # "open")
  BY <1>1
<1> QED
  BY <1>1, <1>2, <1>3, <1>4, <1>5, <1>6, <1>7, <1>8, <1>9, Zenon DEF Typing

LEMMA InitUplink == Init => Uplink
<1> SUFFICES ASSUME Init PROVE Uplink
  OBVIOUS
<1>1. CASE socket_type = "WEBSOCK"
  <2>1. /\ spc = "http" /\ socket_type = "WEBSOCK" /\ cpc \in {"opening", "gone"}
        /\ calls = <<>> /\ executed = <<>> /\ buff = <<>> /\ up = HttpRequest /\ cmd = NoCommand
    BY <1>1 DEF Init
  <2>2. Len(up) <= HttpLength
    BY <2>1, HttpRequestType, LinkAssumption
  <2> QED
    BY <2>1, <2>2, Zenon DEF Handshake, Uplink
<1>2. CASE socket_type # "WEBSOCK"
  <2>1. /\ calls = <<>> /\ executed = <<>> /\ up = <<>> /\ buff = <<>> /\ socket_type \in {"TCP", "WEBSOCK"}
        /\ cmd = NoCommand /\ spc = "header" /\ need = 8
    BY <1>2 DEF Init, S!HEADER_SIZE
  <2> QED
    BY <1>2, <2>1, NothingCalled, Zenon
<1> QED
  BY <1>1, <1>2

LEMMA InitDownlink == Init => Histories /\ Downlink
<1> SUFFICES ASSUME Init PROVE Histories /\ Downlink
  OBVIOUS
<1>1. /\ down = <<>> /\ executed = <<>> /\ rneed = 0 /\ rbuf = <<>> /\ calls = <<>> /\ received = <<>>
      /\ cpc = IF socket_type = "WEBSOCK" THEN "opening" ELSE "idle"
  BY DEF Init
<1>2. Histories
  <2>1. DOMAIN executed = {} /\ DOMAIN received = {}
    BY <1>1
  <2> QED
    BY <2>1, Zenon DEF Histories, RepliesInOrder
<1>3. Downlink
  <2>1. 1..Len(calls) = {}
    BY <1>1
  <2>2. cpc # "gone" /\ cpc \notin {"answer", "length"} /\ (cpc = "opening" => socket_type = "WEBSOCK")
    BY <1>1
  <2> QED
    BY <1>1, <2>1, <2>2, Zenon DEF Downlink
<1> QED
  BY <1>2, <1>3

\* The invariant holds when the client has connected.
LEMMA InvInitially == Init => Inv
  BY InitTyping, InitUplink, InitDownlink, Zenon DEF Inv

LEMMA InvStutters ==
  ASSUME Inv, UNCHANGED vars
  PROVE  Inv'
<1>1. Typing /\ Uplink /\ Histories /\ Downlink
  BY Zenon DEF Inv
<1>2. /\ socket_type' = socket_type /\ up' = up /\ up_end' = up_end /\ down' = down /\ down_end' = down_end
      /\ spc' = spc /\ need' = need /\ buff' = buff /\ cmd' = cmd /\ executed' = executed /\ frame' = frame
      /\ cpc' = cpc /\ rneed' = rneed /\ rbuf' = rbuf /\ calls' = calls /\ received' = received
  BY DEF vars, session_vars, client_vars
<1>3. Typing'
  BY <1>1, <1>2, ZenonT(60) DEF Typing
<1>4. Uplink'
  <2>1. SessionStays /\ UNCHANGED <<up, up_end, calls>>
    BY <1>2 DEF SessionStays
  <2> QED
    BY <1>1, <1>2, <2>1, ReceivingUplink, Zenon
<1>5. Histories'
  BY <1>1, <1>2, HistoriesStay, Zenon
<1>6. Downlink'
  <2>1. Waiting => Waiting'
    BY <1>2, Zenon DEF Waiting, Answered
  <2>2. (\A d \in 1..Len(calls) : HasResult(calls[d]) => Answered(d))
           => (\A d \in 1..Len(calls) : HasResult(calls[d]) => Answered(d))'
    BY <1>2, Zenon DEF Answered
  <2> QED
    BY <1>1, <1>2, <2>1, <2>2, Zenon DEF Downlink
<1> QED
  BY <1>3, <1>4, <1>5, <1>6, Zenon DEF Inv

\* Every step of the session keeps the invariant.
LEMMA ServeKeeps ==
  ASSUME Inv, Serve
  PROVE  Inv'
<1>1. Typing /\ Uplink /\ Histories /\ Downlink
  BY Zenon DEF Inv
<1>2. UNCHANGED client_vars
  BY DEF Serve
<1>3. CASE (Read \/ TCPSession) /\ UNCHANGED frame
  <2>1. UNCHANGED <<frame, client_vars>>
    BY <1>2, <1>3
  <2>2. Histories' /\ Downlink'
    BY <1>1, <1>2, <1>3, QuietStep, Zenon
  <2>3. Typing' /\ Uplink'
    <3>1. CASE Read
      BY <1>1, <2>1, <3>1, ReadKeeps, Zenon
    <3>2. CASE ReadHeader
      BY <1>1, <2>1, <3>2, ReadHeaderKeeps, Zenon
    <3>3. CASE ReadLength
      BY <1>1, <2>1, <3>3, ReadLengthKeeps, Zenon
    <3>4. CASE ReadPack
      BY <1>1, <2>1, <3>4, ReadPackKeeps, Zenon
    <3>5. CASE EofInHeader \/ ErrorInHeader
      BY <1>1, <2>1, <3>5, EofInHeaderKeeps, Zenon
    <3>6. CASE EofInPack
      BY <1>1, <2>1, <3>6, EofInPackKeeps, Zenon
    <3>7. CASE EofInLength
      BY <1>1, <2>1, <3>7, EofInLengthKeeps, Zenon
    <3>8. CASE ErrorInPack
      BY <1>1, <2>1, <3>8, ErrorInPackKeeps, Zenon
    <3>9. CASE ErrorInLength
      BY <1>1, <2>1, <3>9, ErrorInLengthKeeps, Zenon
    <3> QED
      BY <1>3, <3>1, <3>2, <3>3, <3>4, <3>5, <3>6, <3>7, <3>8, <3>9, Zenon DEF TCPSession
  <2> QED
    BY <2>2, <2>3, Zenon DEF Inv
<1>4. CASE Authenticate
  BY <1>1, <1>2, <1>4, AuthenticateKeeps, AuthenticateAnswer, Zenon DEF Inv
<1>5. CASE \/ ReadFrameHeader \/ ReadExtendedLength \/ ReadFrame \/ ReadOverflow \/ EofInFrame \/ RetryRead
  <2>1. Histories' /\ Downlink'
    BY <1>1, <1>2, <1>5, QuietStep, Zenon
  <2>2. Typing' /\ Uplink'
    <3>1. CASE ReadFrameHeader
      BY <1>1, <1>2, <3>1, ReadFrameHeaderKeeps, Zenon
    <3>2. CASE ReadExtendedLength
      BY <1>1, <1>2, <3>2, ReadExtendedLengthKeeps, Zenon
    <3>3. CASE ReadFrame
      BY <1>1, <1>2, <3>3, ReadFrameKeeps, Zenon
    <3>4. CASE ReadOverflow
      BY <1>1, <1>2, <3>4, ReadOverflowKeeps, Zenon
    <3>5. CASE EofInFrame
      BY <1>1, <1>2, <3>5, EofInFrameKeeps, Zenon
    <3>6. CASE RetryRead
      BY <1>1, <1>2, <3>6, RetryReadKeeps, Zenon
    <3> QED
      BY <1>5, <3>1, <3>2, <3>3, <3>4, <3>5, <3>6
  <2> QED
    BY <2>1, <2>2, Zenon DEF Inv
<1>6. CASE Execute
  BY <1>1, <1>2, <1>6, ExecuteKeeps, ExecuteAnswer, Zenon DEF Inv
<1> QED
  BY <1>3, <1>4, <1>5, <1>6, Zenon DEF Serve, WebSocketSession

\* Every step of a client that receives keeps it.
LEMMA ReceiveKeeps ==
  ASSUME Inv, Receive
  PROVE  Inv'
<1>1. Typing /\ Uplink /\ Histories /\ Downlink
  BY Zenon DEF Inv
<1>2. SessionStays /\ up' = up /\ executed' = executed
  BY DEF Receive, SessionStays
<1>3. ASSUME calls' = calls, up_end' = up_end PROVE Receiving
  BY <1>2, <1>3, Zenon DEF Receiving
<1>4. CASE RecvThrows
  <2>1. Typing' /\ Uplink'
    BY <1>1, <1>2, <1>4, RecvThrowsKeeps, Zenon
  <2>2. cpc' = "gone" /\ down' = <<>> /\ rneed' = 0 /\ received' = received /\ calls' = calls
    BY <1>4 DEF RecvThrows, Leave
  <2>3. Extends(calls')
    BY <1>1, <2>2, SameCalls, Zenon
  <2>4. Histories' /\ Downlink'
    BY <1>1, <1>2, <2>2, <2>3, LeavingAnswer, Zenon
  <2> QED
    BY <2>1, <2>4, Zenon DEF Inv
<1>5. CASE RecvSome
  <2>1. calls' = calls /\ up_end' = up_end
    BY <1>5 DEF RecvSome
  <2> QED
    BY <1>1, <1>3, <1>5, <2>1, RecvSomeKeeps, Zenon DEF Inv
<1>6. CASE RecvStatic
  <2>1. calls' = calls /\ up_end' = up_end
    BY <1>6 DEF RecvStatic, Return
  <2> QED
    BY <1>1, <1>3, <1>6, <2>1, RecvStaticKeeps, Zenon DEF Inv
<1>7. CASE RecvLength
  <2>1. calls' = calls /\ up_end' = up_end
    BY <1>7 DEF RecvLength
  <2> QED
    BY <1>1, <1>3, <1>7, <2>1, RecvLengthKeeps, Zenon DEF Inv
<1>8. CASE RecvDynamic
  <2>1. calls' = calls /\ up_end' = up_end
    BY <1>8 DEF RecvDynamic, Return
  <2> QED
    BY <1>1, <1>3, <1>8, <2>1, RecvDynamicKeeps, Zenon DEF Inv
<1>9. CASE Opened
  BY <1>1, <1>2, <1>9, OpenedKeeps, Zenon DEF Inv
<1>10. CASE Message
  <2>1. calls' = calls /\ up_end' = up_end
    BY <1>10 DEF Message, Return
  <2> QED
    BY <1>1, <1>3, <1>10, <2>1, MessageKeeps, Zenon DEF Inv
<1> QED
  BY <1>4, <1>5, <1>6, <1>7, <1>8, <1>9, <1>10, Zenon DEF Receive

\* Every call, and every way to leave, keeps it.
LEMMA DecideKeeps ==
  ASSUME Inv, Decide
  PROVE  Inv'
<1>1. Typing /\ Uplink /\ Histories /\ Downlink
  BY Zenon DEF Inv
<1>2. SessionStays /\ executed' = executed
  BY DEF Decide, SessionStays
<1>3. CASE \E o \in DOMAIN Operations : \E args \in Arguments[o] : Call(o, args)
  <2>1. PICK o \in DOMAIN Operations : \E args \in Arguments[o] : Call(o, args)
    BY <1>3
  <2>0. PICK args \in Arguments[o] : Call(o, args)
    BY <2>1
  <2>2. Typing' /\ Uplink'
    BY <1>1, <1>2, <2>0, CallKeeps, Zenon
  <2>3. Histories' /\ Downlink'
    BY <1>1, <1>2, <2>0, CallAnswer, Zenon
  <2> QED
    BY <2>2, <2>3, Zenon DEF Inv
<1>4. CASE \E o \in DOMAIN Operations : \E args \in Arguments[o] : DieInCall(o, args)
  <2>1. PICK o \in DOMAIN Operations : \E args \in Arguments[o] : DieInCall(o, args)
    BY <1>4
  <2>0. PICK args \in Arguments[o] : DieInCall(o, args)
    BY <2>1
  <2>2. Typing' /\ Uplink'
    BY <1>1, <1>2, <2>0, DieInCallKeeps, Zenon
  <2>3. PICK x : x = [op |-> o, args |-> args]
    OBVIOUS
  <2>4. /\ cpc' = "gone" /\ down' = <<>> /\ rneed' = 0 /\ received' = received /\ calls' = Append(calls, x)
    BY <2>0, <2>3 DEF DieInCall, Leave
  <2>5. x \in CallSet
    BY <2>3 DEF CallSet
  <2>6. Extends(calls')
    <3>1. Extends(Append(calls, x))
      BY <1>1, <2>5, OneMoreCall, Zenon
    <3> QED
      BY <2>4, <3>1, Zenon
  <2>7. Histories' /\ Downlink'
    BY <1>1, <1>2, <2>4, <2>6, LeavingAnswer, Zenon
  <2> QED
    BY <2>2, <2>7, Zenon DEF Inv
<1>5. CASE Close \/ Lose
  <2>1. Typing' /\ Uplink'
    BY <1>1, <1>2, <1>5, CloseKeeps, LoseKeeps, Zenon
  <2>2. cpc' = "gone" /\ down' = <<>> /\ rneed' = 0 /\ received' = received /\ calls' = calls
    BY <1>5 DEF Close, Lose, Leave
  <2>3. Extends(calls')
    BY <1>1, <2>2, SameCalls, Zenon
  <2>4. Histories' /\ Downlink'
    BY <1>1, <1>2, <2>2, <2>3, LeavingAnswer, Zenon
  <2> QED
    BY <2>1, <2>4, Zenon DEF Inv
<1> QED
  BY <1>3, <1>4, <1>5, Zenon DEF Decide

\* So every step does.
LEMMA InvInductive == Inv /\ [Next]_vars => Inv'
<1> SUFFICES ASSUME Inv, [Next]_vars PROVE Inv'
  OBVIOUS
<1>1. Over => UNCHANGED vars
  BY Zenon DEF Over
<1> QED
  BY <1>1, ServeKeeps, ReceiveKeeps, DecideKeeps, InvStutters, Zenon DEF Next

\* The properties follow.
LEMMA InvImplies == Inv => TypeOK /\ ExecutedAsCalled /\ RepliesInOrder /\ SessionEndsForAReason
<1> SUFFICES ASSUME Inv PROVE TypeOK /\ ExecutedAsCalled /\ RepliesInOrder /\ SessionEndsForAReason
  OBVIOUS
<1>1. Typing /\ Uplink /\ Histories /\ Downlink
  BY Zenon DEF Inv
<1>2. TypeOK
  <2>1. Len(executed) <= Len(calls) /\ Len(received) <= Len(executed)
    BY <1>1, HistoryFacts, Zenon
  <2>2. socket_type = "TCP" => \A i \in DOMAIN up : up[i] \in 0..(Radix - 1)
    <3> SUFFICES ASSUME socket_type = "TCP" PROVE \A i \in DOMAIN up : up[i] \in 0..(Radix - 1)
      OBVIOUS
    <3>1. PICK D : D = 0..(Radix - 1)
      OBVIOUS
    <3>2. up \in Seq(D)
      BY <1>1, <3>1, Zenon DEF Typing
    <3>3. \A i \in DOMAIN up : up[i] \in D
      BY ONLY <3>2
    <3> QED
      BY <3>1, <3>3, Zenon
  <2> QED
    BY <1>1, <2>1, <2>2, Zenon DEF Typing, TypeOK
<1>3. ExecutedAsCalled
  BY <1>1, UplinkExecuted, Zenon
<1>4. RepliesInOrder
  BY <1>1, Zenon DEF Histories
<1>5. SessionEndsForAReason
  <2>1. CASE Stopped
    BY <2>1, Zenon DEF Stopped
  <2>2. CASE ~Stopped
    <3>1. spc # "ended" /\ spc # "aborted"
      <4>1. CASE Handshake
        BY <4>1 DEF Handshake
      <4>2. CASE CutShort
        BY <4>2 DEF CutShort, InCutCall
      <4>3. CASE \E st : Position(st)
        <5>1. PICK st : Position(st)
          BY <4>3
        <5>2. CASE Between(st)
          BY <5>2 DEF Between
        <5>3. CASE ~Between(st)
          <6>1. spc \in {"length", "pack", "ws_ext", "ws_payload", "exec"}
            BY <5>1, <5>3, Zenon DEF Position, InPack, InFrame, Complete
          <6> QED
            BY <6>1
        <5> QED
          BY <5>2, <5>3
      <4> QED
        BY <1>1, <2>2, <4>1, <4>2, <4>3, Zenon DEF Uplink
    <3> QED
      BY <3>1, Zenon DEF SessionEndsForAReason
  <2> QED
    BY <2>1, <2>2
<1> QED
  BY <1>2, <1>3, <1>4, <1>5

-----------------------------------------------------------------------------
(* The theorems *)

\* The streams, the read loops and the histories keep their types: neither
\* rcv_n_bytes nor recv_all ever has to get a negative number of bytes, whatever
\* the lengths on the wire say, and there are never more answers than operations
\* that ran, nor more of these than calls.
THEOREM TypeCorrect == Spec => []TypeOK
<1>1. Inv => TypeOK
  BY InvImplies, Zenon
<1> QED
  BY <1>1, InvInitially, InvInductive, PTL DEF Spec

\* The session runs what the client called, in that order, each call once and
\* with its arguments, for every interface whose calls the serialisers
\* understand, for every number of calls, and wherever the streams are cut into
\* reads, over TCP (rcv_n_bytes, the generated parsers) and over a WebSocket
\* (read_header, decode_raw_stream_cmd).  The exception is the last operation
\* of a stream that ended inside its arguments.
THEOREM RunsWhatIsCalled == Spec => []ExecutedAsCalled
<1>1. Inv => ExecutedAsCalled
  BY InvImplies, Zenon
<1> QED
  BY <1>1, InvInitially, InvInductive, PTL DEF Spec

\* Every answer that the client takes (recv_all and get_payload_dynamic, or a
\* message that a browser gets) is the answer to the call it waits for, with the
\* header that check_returned_header asserts and the values that were returned.
THEOREM AnswersWhatIsCalled == Spec => []RepliesInOrder
<1>1. Inv => RepliesInOrder
  BY InvImplies, Zenon
<1> QED
  BY <1>1, InvInitially, InvInductive, PTL DEF Spec

\* A session does not end on a client that is there (Session::run, read_header),
\* but for a handshake in pieces or a call whose frame is refused, and it takes
\* the server down (resize() throws on a length that was never received) only
\* when the connection ended inside a call that takes a container.
THEOREM SessionEnds == Spec => []SessionEndsForAReason
<1>1. Inv => SessionEndsForAReason
  BY InvImplies, Zenon
<1> QED
  BY <1>1, InvInitially, InvInductive, PTL DEF Spec
=============================================================================
