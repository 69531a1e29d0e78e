------------------------------- MODULE Link ----------------------------------
(***************************************************************************)
(* A client and the session that serves it, joined by a connection: the    *)
(* C++ client over TCP (server/client/koheron-client.hpp), or a browser    *)
(* over a WebSocket (external).  The client calls operations, and waits    *)
(* for the result of those that have one; it may leave, die in the middle  *)
(* of a command, or lose the connection at any time.                       *)
(***************************************************************************)
EXTENDS WebSocket

CONSTANTS Arguments,  \* the sequences of values an operation is called with
          MaxCalls    \* bound on the number of calls

C == INSTANCE ClientSerializer

VARIABLES cpc,       \* "opening", "idle", "answer", "length", "gone"
          rneed,     \* bytes recv_all still has to get
          rbuf,      \* rcv_buffer
          calls,     \* history: what the client called
          received   \* history: the header and the result it got for a call

client_vars == <<cpc, rneed, rbuf, calls, received>>
vars == <<session_vars, frame, client_vars>>

Init ==
    /\ socket_type \in {"TCP", "WEBSOCK"}
    /\ LET ws == socket_type = "WEBSOCK"
       IN  /\ up = IF ws THEN HttpRequest ELSE <<>>
           /\ spc = IF ws THEN "http" ELSE "header"
           /\ need = IF ws THEN HttpLength ELSE S!HEADER_SIZE
           /\ cpc = IF ws THEN "opening" ELSE "idle"
    /\ up_end = "open" /\ down = <<>> /\ down_end = FALSE
    /\ buff = <<>> /\ cmd = NoCommand /\ executed = <<>> /\ frame = NoFrame
    /\ rneed = 0 /\ rbuf = <<>> /\ calls = <<>> /\ received = <<>>

-----------------------------------------------------------------------------
(* The client calls *)

LastCall == Operations[Last(calls).op]

\* The bytes of every call as they travel.
TCPCommands ==
    [o \in DOMAIN Operations |->
        [args \in Arguments[o] |->
            C!build_command(Operations[o].class, Operations[o].func,
                            Typed(Operations[o].args, args))]]
WebSocketCommands ==
    [o \in DOMAIN Operations |->
        [args \in Arguments[o] |-> MaskedFrame("BINARY", TCPCommands[o][args])]]
Command(o, args) ==
    IF socket_type = "WEBSOCK" THEN WebSocketCommands[o][args] ELSE TCPCommands[o][args]

Ready == cpc = "idle" /\ Len(calls) < MaxCalls

\* call<class_id, func_id>, and then recv<id> if the operation returns something.
Call(o, args) ==
    /\ Ready
    /\ up' = up \o Command(o, args)
    /\ calls' = Append(calls, [op |-> o, args |-> args])
    /\ IF Operations[o].ret = <<>> THEN UNCHANGED <<cpc, rneed>>
       ELSE cpc' = "answer" /\ rneed' = C!FirstReceive(Operations[o].ret)
    /\ rbuf' = <<>>
    /\ UNCHANGED <<up_end, down, received>>

\* The client leaves: nothing follows what it has sent, nobody reads what is
\* sent to it.
Leave(how) ==
    up_end' = how /\ down' = <<>> /\ cpc' = "gone" /\ rneed' = 0 /\ rbuf' = <<>>

\* The client dies while send() is under way.
DieInCall(o, args) ==
    /\ Ready
    /\ \E k \in 1..(Len(Command(o, args)) - 1) : up' = up \o SubSeq(Command(o, args), 1, k)
    /\ calls' = Append(calls, [op |-> o, args |-> args])
    /\ Leave("eof")
    /\ UNCHANGED received

\* ~KoheronClient, also when send() has thrown, or the process ends while it
\* waits.  A browser says goodbye.
Close ==
    /\ cpc # "gone"
    /\ up' = IF socket_type = "WEBSOCK" /\ cpc # "opening" THEN up \o MaskedFrame("CLOSE", <<>>) ELSE up
    /\ Leave("eof")
    /\ UNCHANGED <<calls, received>>

\* The connection is lost, and with it some of what was on its way.
Lose ==
    /\ cpc # "gone"
    /\ \E k \in 0..Len(up) : up' = SubSeq(up, 1, k)
    /\ Leave("reset")
    /\ UNCHANGED <<calls, received>>

-----------------------------------------------------------------------------
(* The client receives *)

\* One recv() of recv_all.
RecvSome ==
    /\ socket_type = "TCP" /\ rneed > 0
    /\ \E k \in 1..rneed :
          /\ k <= Len(down)
          /\ rbuf' = rbuf \o SubSeq(down, 1, k)
          /\ down' = SubSeq(down, k + 1, Len(down))
          /\ rneed' = rneed - k
    /\ UNCHANGED <<up_end, cpc, calls, received>>

\* recv_all throws, or the browser's handshake fails.
RecvThrows ==
    /\ down = <<>> /\ down_end
    /\ cpc = "opening" \/ rneed > 0
    /\ Leave("eof")
    /\ UNCHANGED <<calls, received>>

Dynamic(ret) == ret[1].family \in {"vector", "string"}

\* The result is complete and recv<id> returns it.
Return(header, values) ==
    /\ received' = Append(received, [call |-> Len(calls),
                                     header |-> C!deserialize(0, C!HeaderTypes, header),
                                     ret |-> values])
    /\ cpc' = "idle" /\ rneed' = 0 /\ rbuf' = <<>>
    /\ UNCHANGED <<up_end, calls>>

\* command_deserializer for a result whose size is known.
RecvStatic ==
    /\ socket_type = "TCP" /\ cpc = "answer" /\ rneed = 0 /\ ~Dynamic(LastCall.ret)
    /\ Return(rbuf, C!command_deserializer(LastCall.ret, rbuf))
    /\ UNCHANGED down

\* Mutant: the length is divided by the size of an element.
RecvLengthInElements ==
    /\ socket_type = "TCP" /\ cpc = "answer" /\ rneed = 0 /\ Dynamic(LastCall.ret)
    /\ rneed' = C!deserialize(C!header_size, <<"uint32_t">>, rbuf)[1]
                  \div size_of(ElementOf(LastCall.ret[1]))
    /\ cpc' = "length"
    /\ UNCHANGED <<up_end, down, rbuf, calls, received>>

\* get_payload_dynamic: the length has come.  rbuf keeps the header, which the
\* code has checked at this point.
RecvLength ==
    /\ socket_type = "TCP" /\ cpc = "answer" /\ rneed = 0 /\ Dynamic(LastCall.ret)
    /\ rneed' = C!deserialize(C!header_size, <<"uint32_t">>, rbuf)[1]
    /\ cpc' = "length"
    /\ UNCHANGED <<up_end, down, rbuf, calls, received>>

\* The second recv_all is complete.
RecvDynamic ==
    /\ socket_type = "TCP" /\ cpc = "length" /\ rneed = 0
    /\ Return(rbuf, C!command_deserializer(LastCall.ret,
                                           SubSeq(rbuf, C!FirstReceive(LastCall.ret) + 1, Len(rbuf))))
    /\ UNCHANGED down

\* A browser gets a whole message at a time, without the frame around it.
Opened ==
    /\ cpc = "opening" /\ down # <<>>
    /\ down' = <<>> /\ cpc' = "idle"
    /\ UNCHANGED <<up_end, rneed, rbuf, calls, received>>

Message ==
    /\ socket_type = "WEBSOCK" /\ cpc = "answer" /\ down # <<>>
    /\ LET Ext2(n) == FromBytes([i \in 1..n |-> down[2 + i].v])
           small == down[2].v <= SMALL_STREAM
           n == IF small THEN 0 ELSE IF down[2].v = MEDIUM_STREAM THEN 2 ELSE 8
           length == IF small THEN down[2].v ELSE Ext2(n)
           data == [i \in 1..length |-> down[2 + n + i].v]
           start == IF Dynamic(LastCall.ret) THEN C!FirstReceive(LastCall.ret) ELSE 0
       IN  /\ Return(data, C!command_deserializer(LastCall.ret, SubSeq(data, start + 1, length)))
           /\ down' = SubSeq(down, 3 + n + length, Len(down))

-----------------------------------------------------------------------------
Serve ==
    /\ \/ (Read \/ TCPSession) /\ UNCHANGED frame
       \/ WebSocketSession
       \/ Execute
    /\ UNCHANGED client_vars

Receive ==
    /\ \/ RecvSome \/ RecvThrows \/ RecvStatic \/ RecvLength \/ RecvDynamic
       \/ Opened \/ Message
    /\ UNCHANGED <<up, socket_type, down_end, spc, need, buff, cmd, executed, frame>>

Decide ==
    /\ \/ \E o \in DOMAIN Operations :
             \E args \in Arguments[o] : Call(o, args) \/ DieInCall(o, args)
       \/ Close
       \/ Lose
    /\ UNCHANGED <<socket_type, down_end, spc, need, buff, cmd, executed, frame>>

Over == cpc = "gone" /\ spc \in {"ended", "aborted"} /\ UNCHANGED vars

Next == Serve \/ Receive \/ Decide \/ Over

\* The session runs in a thread of its own, and a client that receives does
\* not stop before it has its answer; nothing makes a client call or leave.
Fairness == WF_vars(Serve) /\ WF_vars(Receive)

Spec == Init /\ [][Next]_vars /\ Fairness

-----------------------------------------------------------------------------
(* What the proofs take from the instance: the sizes are sizes, and the two   *)
(* ends understand each other when a command arrives whole.                   *)

ASSUME LinkAssumption ==
    /\ Radix \in Nat /\ SMALL_STREAM \in Nat /\ WEBSOCK_SEND_BUF_LEN \in Nat
    /\ KOHERON_READ_STR_LEN \in Nat /\ KOHERON_READ_STR_LEN > 14 /\ WEBSOCK_READ_STR_LEN \in Nat
    /\ HttpLength \in Nat \ {0} /\ MaxCalls \in Nat

\* The packs are the arguments in their order, and none is empty.
OperationParses(o) ==
    LET types == Operations[o].args
        packs == Packs[o]
    IN  /\ o # "none"
        /\ types \in Seq(Range(types)) /\ packs \in Seq(Seq(Range(types)))
        /\ \A i \in DOMAIN packs : HasLength(packs[i]) \/ PackSize(packs[i]) \in Nat \ {0}
        /\ Operations[o].ret # <<>> => C!FirstReceive(Operations[o].ret) \in Nat \ {0}

\* A length of n in a frame is read as n.
LengthDecodes(n) ==
    LET k == IF n < Radix^2 THEN 2 ELSE 8
    IN  n <= SMALL_STREAM \/ (ToBytes(k, n) \in Seq(0..(Radix - 1)) /\ FromBytes(ToBytes(k, n)) = n)

\* The server finds in the bytes of a call the operation and, pack by pack, its
\* arguments, and then nothing is left.
CallDecodes(o, args) ==
    LET bytes == TCPCommands[o][args]
        packs == Packs[o]
        payload == SubSeq(bytes, S!HEADER_SIZE + 1, Len(bytes))
        at == Parsed(packs, payload)
    IN  /\ args = [i \in DOMAIN Operations[o].args |-> args[i]]
        /\ bytes \in Seq(0..(Radix - 1)) /\ Len(bytes) >= S!HEADER_SIZE /\ LengthDecodes(Len(bytes))
        /\ OperationOf(SubSeq(bytes, 1, S!HEADER_SIZE)) = [NoCommand EXCEPT !.op = o, !.packs = packs]
        /\ at[Len(packs)] = [position |-> Len(payload), values |-> args]
        /\ \A i \in DOMAIN packs :
              LET start == at[i - 1].position
                  length == PackLength(Slice(payload, start, size_of("uint32_t")))
                  size == size_of(ElementOf(packs[i][1]))
                  k == Len(at[i - 1].values)
                  n == Len(at[i].values)
              IN  /\ at[i].position \in 0..Len(payload) /\ start <= at[i].position
                  /\ k < n /\ n \in 0..Len(args) /\ at[i].values = SubSeq(args, 1, n)
                  /\ packs[i] = SubSeq(Operations[o].args, k + 1, n)
                  /\ HasLength(packs[i]) =>
                        /\ start + size_of("uint32_t") <= at[i].position /\ n = k + 1
                        /\ length \in Nat /\ (length \div size) * size = length

\* The client finds in the bytes of an answer the operation and the result.
ReplyDecodes(o, ret) ==
    LET bytes == Replies[o][ret]
        types == Operations[o].ret
        first == C!FirstReceive(types)
        rest == SubSeq(bytes, first + 1, Len(bytes))
    IN  /\ (ret = <<>>) = (types = <<>>)
        /\ ret # <<>> =>
              /\ bytes \in Seq(0..(Radix - 1)) /\ LengthDecodes(Len(bytes))
              /\ C!deserialize(0, C!HeaderTypes, bytes) = <<0, Operations[o].class, Operations[o].func>>
              /\ IF Dynamic(types)
                 THEN /\ first \in 0..Len(bytes)
                      /\ C!deserialize(C!header_size, <<"uint32_t">>, SubSeq(bytes, 1, first))[1]
                            = Len(bytes) - first
                      /\ C!command_deserializer(types, rest) = ret
                 ELSE first = Len(bytes) /\ C!command_deserializer(types, bytes) = ret

\* Whatever is called and returned survives the two serialisers.
ASSUME CodecAssumption ==
    \A o \in DOMAIN Operations :
        /\ OperationParses(o)
        /\ \A args \in Arguments[o] : CallDecodes(o, args)
        /\ \A ret \in Operations[o].results : ReplyDecodes(o, ret)

-----------------------------------------------------------------------------
(* Properties *)

\* The variables keep their types: streams of bytes, a read loop that never
\* asks for a negative number of bytes, histories within the bound.
TypeOK ==
    /\ socket_type \in {"TCP", "WEBSOCK"}
    /\ up_end \in {"open", "eof", "reset"} /\ down_end \in BOOLEAN
    /\ spc \in {"http", "header", "length", "pack", "exec", "ws_head", "ws_ext",
                "ws_payload", "ended", "aborted"}
    /\ need \in Nat /\ rneed \in Nat
    /\ cmd.op \in DOMAIN Operations \cup {"none"} /\ cmd.cut \in BOOLEAN
    /\ cpc \in {"opening", "idle", "answer", "length", "gone"}
    /\ Len(calls) <= MaxCalls /\ Len(executed) <= Len(calls) /\ Len(received) <= Len(executed)
    /\ socket_type = "TCP" => \A i \in DOMAIN up : up[i] \in 0..(Radix - 1)

\* The operations run in the order of the calls, each once, each with the
\* arguments it was called with: two implementations of the serialisation, the
\* generated parsers and any fragmentation of the stream agree.  Only the last
\* to run may run with something else, when the stream ended inside its
\* arguments; then what was read before is right.  It is the last call, which
\* the client did not live to send all of (rcv_n_bytes returns 0, session.cpp:53),
\* or the connection was lost in front of a vector, which is then empty
\* (rcv_n_bytes returns -1).
ExecutedAsCalled ==
    \A i \in DOMAIN executed :
        /\ i \in DOMAIN calls /\ executed[i].op = calls[i].op
        /\ Len(executed[i].args) = Len(calls[i].args)
        /\ \/ ~executed[i].cut /\ executed[i].args = calls[i].args
           \/ /\ executed[i].cut
              /\ i = Len(executed) /\ up_end # "open" /\ socket_type = "TCP"
              /\ \E k \in DOMAIN calls[i].args :
                    /\ i = Len(calls) \/ executed[i].args[k] = <<>>
                    /\ \A j \in 1..(k - 1) : executed[i].args[j] = calls[i].args[j]
                    /\ \A j \in k..Len(calls[i].args) :
                          \/ executed[i].args[j] = Unknown
                          \/ /\ HasLength(<<Operations[calls[i].op].args[j]>>)
                             /\ executed[i].args[j] = <<>>

\* What the client takes for the result of a call is the result of that call:
\* the header is what the assertions of check_returned_header say, the values
\* are those that the operation returned, and the calls before it that have a
\* result have got theirs, each one.
RepliesInOrder ==
    \A i \in DOMAIN received :
        LET c == received[i].call
        IN  /\ c \in DOMAIN executed
            /\ received[i].header = <<0, Operations[executed[c].op].class,
                                        Operations[executed[c].op].func>>
            /\ received[i].ret = executed[c].ret
            /\ \A j \in 1..(i - 1) : received[j].call < c
            /\ \A d \in 1..(c - 1) :
                  Operations[executed[d].op].ret # <<>> => \E j \in 1..(i - 1) : received[j].call = d

\* The calls that a WebSocket session does not survive: a payload above the
\* limit of read_header, and a frame that ends at KOHERON_READ_STR_LEN.
Refused(c) ==
    \/ Len(TCPCommands[c.op][c.args]) > WEBSOCK_READ_STR_LEN - 56
    \/ Len(WebSocketCommands[c.op][c.args]) = KOHERON_READ_STR_LEN

\* The operation of the first call that has not run.
NextCall == Operations[calls[Len(executed) + 1].op]

\* A session whose client is still there ends only on a handshake that came in
\* pieces, or on a call that is refused, the first that has not run; the server
\* goes down with a session only when the connection ended inside a call that
\* takes a container.
SessionEndsForAReason ==
    /\ spc = "ended" /\ up_end = "open" =>
          /\ socket_type = "WEBSOCK"
          /\ \/ cpc = "opening"
             \/ Len(executed) < Len(calls) /\ Refused(calls[Len(executed) + 1])
    /\ spc = "aborted" =>
          /\ socket_type = "TCP" /\ up_end # "open" /\ Len(executed) < Len(calls)
          /\ \E i \in DOMAIN NextCall.args : HasLength(<<NextCall.args[i]>>)

\* The answer of the operation that ran last does not fit into send_buf.
ReplyDropped ==
    /\ socket_type = "WEBSOCK" /\ executed # <<>>
    /\ LET e == Last(executed)
       IN  e.ret # <<>> /\ ~FitsSendBuffer(Replies[e.op][e.ret])

\* A client that waits for an answer does not wait for ever: it gets the answer
\* or it notices that the session has ended.  The exception is an answer that
\* WebSocket::send drops (websocket.hpp:115).
CallIsAnswered == cpc \in {"answer", "length"} ~> (cpc \in {"idle", "gone"} \/ ReplyDropped)
=============================================================================
