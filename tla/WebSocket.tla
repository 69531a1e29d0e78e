----------------------------- MODULE WebSocket -------------------------------
(***************************************************************************)
(* The WebSocket session (server/core/websocket.hpp and .cpp, and          *)
(* Session<WEBSOCK>): the handshake, frames in both directions, and the    *)
(* arguments of a command taken from the payload of its frame.             *)
(*                                                                         *)
(* What travels is [b, v, key]: b says what the byte is for, v is its      *)
(* value, key the index of the mask byte a byte of data was xored with.    *)
(***************************************************************************)
EXTENDS Session

CONSTANTS SMALL_STREAM,          \* 125: the largest length in the second byte
          KOHERON_READ_STR_LEN,  \* 16384
          WEBSOCK_READ_STR_LEN,  \* 16384 * 16, the size of read_str
          WEBSOCK_SEND_BUF_LEN,
          HttpLength             \* the length of the handshake request

VARIABLE frame  \* WebSocket::header: header_size, mask_offset, payload_size

MEDIUM_STREAM == SMALL_STREAM + 1
BIG_STREAM == SMALL_STREAM + 2

Byte(b, v) == [b |-> b, v |-> v, key |-> 0]
Ext(n, v) == [i \in 1..n |-> Byte("ext", ToBytes(n, v)[i])]

HttpRequest == [i \in 1..HttpLength |-> Byte("http", i)]
Accepted == <<Byte("101", 0)>>

\* The length of the data, in the second byte or, when that is too small, in 2
\* or 8 more.
FrameLength(n) ==
    IF n <= SMALL_STREAM THEN <<Byte("len", n)>>
    ELSE IF n < Radix^2 THEN <<Byte("len", MEDIUM_STREAM)>> \o Ext(2, n)
    ELSE <<Byte("len", BIG_STREAM)>> \o Ext(8, n)

\* A frame as a browser sends it, masked.
MaskedFrame(opcode, data) ==
    LET n == Len(data)
    IN  <<Byte("op", opcode)>> \o FrameLength(n) \o [i \in 1..4 |-> Byte("key", i - 1)]
        \o [i \in 1..n |-> [b |-> "data", v |-> data[i], key |-> (i - 1) % 4]]

\* xor with the byte it was masked with gives the data back, with any other
\* byte something else.
Xor(x, mask) ==
    IF x.b = "data" /\ mask.b = "key" /\ x.key = mask.v THEN x.v ELSE (x.v + 1) % Radix

-----------------------------------------------------------------------------
(* Sending *)

\* The header in front of n bytes of data.
set_send_header(n) == <<Byte("op", "BINARY")>> \o FrameLength(n)

UnmaskedFrame(data) ==
    set_send_header(Len(data)) \o [i \in DOMAIN data |-> Byte("data", data[i])]

FitsSendBuffer(data) == Len(data) + 10 <= WEBSOCK_SEND_BUF_LEN

\* write() to the client.  When the client is gone it may still succeed; a
\* failure is noticed at once by a WebSocket (connection_closed), and by a TCP
\* session when it reads the next command.
Written(bytes) ==
    \/ /\ up_end = "open"
       /\ down' = down \o bytes
       /\ NextCommand
       /\ UNCHANGED down_end
    \/ /\ up_end # "open"
       /\ \/ NextCommand /\ UNCHANGED down_end
          \/ socket_type = "WEBSOCK" /\ End
       /\ UNCHANGED down

\* Session<TCP>::write and WebSocket::send, which sends nothing when the data
\* does not fit.
Send(data) ==
    IF socket_type # "WEBSOCK" THEN Written(data)
    ELSE IF FitsSendBuffer(data) THEN Written(UnmaskedFrame(data))
    ELSE NextCommand /\ UNCHANGED <<down, down_end>>

\* Arguments or results with their types.
Typed(types, values) == [i \in DOMAIN types |-> types[i] @@ [value |-> values[i]]]

\* The commands that carry the results back.
Replies ==
    [o \in DOMAIN Operations |->
        [ret \in Operations[o].results |->
            S!build_command(Operations[o].class, Operations[o].func,
                            Typed(Operations[o].ret, ret))]]

\* The operation runs, and its result is sent if it has one.
Execute ==
    /\ spc = "exec"
    /\ IF cmd.op = "none" THEN NextCommand /\ UNCHANGED <<down, down_end, executed>>
       ELSE \E ret \in Operations[cmd.op].results :
              /\ executed' = Append(executed, [op |-> cmd.op, args |-> cmd.args,
                                               cut |-> cmd.cut, ret |-> ret])
              /\ IF ret = <<>> THEN NextCommand /\ UNCHANGED <<down, down_end>>
                 ELSE Send(Replies[cmd.op][ret])
    /\ UNCHANGED <<socket_type, up, up_end, frame>>

-----------------------------------------------------------------------------
(* Receiving *)

NoFrame == [header_size |-> 0, mask_offset |-> 0, payload_size |-> 0]

\* authenticate: one read() has to return the whole request, and not exactly
\* KOHERON_READ_STR_LEN bytes.
Authenticate ==
    /\ spc = "http"
    /\ \/ \E k \in 1..Len(up) :
             /\ up' = SubSeq(up, k + 1, Len(up))
             /\ IF k = HttpLength /\ k # KOHERON_READ_STR_LEN THEN Written(Accepted) ELSE End /\ UNCHANGED down
       \/ up = <<>> /\ up_end # "open" /\ End /\ UNCHANGED <<up, down>>
    /\ UNCHANGED <<socket_type, up_end, executed, frame>>

\* read_n_bytes has its bytes.  It fails if read_str_len is KOHERON_READ_STR_LEN.
ReadNBytes(at) == Reading(at) /\ Len(buff) # KOHERON_READ_STR_LEN

ReadOverflow ==
    /\ spc \in {"ws_head", "ws_ext", "ws_payload"} /\ need = 0
    /\ Len(buff) = KOHERON_READ_STR_LEN
    /\ End
    /\ UNCHANGED <<socket_type, up, up_end, down, executed, frame>>

\* Mutant: a payload of exactly the limit is refused.
TooLarge_geq(n) == n >= WEBSOCK_READ_STR_LEN - 56

TooLarge(n) == n > WEBSOCK_READ_STR_LEN - 56

\* The length of the frame is known; its payload comes next.
ReadPayloadOf(header_size, mask_offset, n) ==
    /\ frame' = [header_size |-> header_size, mask_offset |-> mask_offset, payload_size |-> n]
    /\ IF TooLarge(n) THEN End
       ELSE spc' = "ws_payload" /\ need' = n /\ UNCHANGED <<buff, down_end, cmd>>

\* The first part of read_header.  Only text and binary frames are taken; a
\* close frame ends the session, and so does any other.
ReadFrameHeader ==
    /\ ReadNBytes("ws_head")
    /\ LET stream_size == buff[2].v
       IN  IF buff[1].v \notin {"TEXT", "BINARY"} THEN End /\ UNCHANGED frame
           ELSE IF stream_size <= SMALL_STREAM THEN ReadPayloadOf(6, 2, stream_size)
           ELSE /\ spc' = "ws_ext"
                /\ need' = IF stream_size = MEDIUM_STREAM THEN 2 ELSE 8
                /\ UNCHANGED <<buff, down_end, cmd, frame>>
    /\ UNCHANGED <<socket_type, up, up_end, down, executed>>

\* The rest of read_header for longer frames.
ReadExtendedLength ==
    /\ ReadNBytes("ws_ext")
    /\ LET n == Len(buff) - 6
           length == FromBytes([i \in 1..n |-> buff[2 + i].v])
       IN  IF n = 2 THEN ReadPayloadOf(8, 4, length) ELSE ReadPayloadOf(14, 10, length)
    /\ UNCHANGED <<socket_type, up, up_end, down, executed>>

\* decode_raw_stream_cmd: the first bytes are the header, the rest the payload.
decode_raw_stream_cmd ==
    LET mask == Slice(buff, frame.mask_offset, 4)
        data == SubSeq(buff, frame.mask_offset + 5, Len(buff))
    IN  [i \in 1..frame.payload_size |-> Xor(data[i], mask[((i - 1) % 4) + 1])]

\* The packs of a command from its payload: Buffer::deserialize, extract_array,
\* to_vector and to_string, each from where the one before stopped.  The test
\* length > CMD_PAYLOAD_BUFFER_LEN never holds here: the elements are in the same
\* payload, and TooLarge has refused one of that size.
FromPayload(payload, s, pack) ==
    LET start == s.position + IF HasLength(pack) THEN size_of("uint32_t") ELSE 0
        length == IF HasLength(pack) THEN PackLength(Slice(payload, s.position, size_of("uint32_t")))
                                     ELSE PackSize(pack)
    IN  [position |-> start + length,
         values |-> s.values \o PackValues(pack, Slice(payload, start, length))]

\* Where the parser is, and what it has, after each pack.
Parsed(packs, payload) ==
    LET after[i \in 0..Len(packs)] ==
            IF i = 0 THEN [position |-> 0, values |-> <<>>]
            ELSE FromPayload(payload, after[i - 1], packs[i])
    IN  after

\* Session<WEBSOCK>::read_command and the parser.
ReadFrame ==
    /\ ReadNBytes("ws_payload")
    /\ IF frame.payload_size < S!HEADER_SIZE THEN End
       ELSE \E data \in {decode_raw_stream_cmd} :
            \E c \in {OperationOf(SubSeq(data, 1, S!HEADER_SIZE))} :
              LET payload == SubSeq(data, S!HEADER_SIZE + 1, Len(data))
              IN  /\ cmd' = [c EXCEPT !.packs = <<>>,
                                      !.args = Parsed(c.packs, payload)[Len(c.packs)].values]
                  /\ Loop("exec", 0)
                  /\ UNCHANGED down_end
    /\ UNCHANGED <<socket_type, up, up_end, down, executed, frame>>

\* The stream ends inside a frame, or between two.
EofInFrame ==
    /\ spc \in {"ws_head", "ws_ext", "ws_payload"} /\ AtEnd("eof")
    /\ End
    /\ UNCHANGED <<socket_type, up, up_end, down, executed, frame>>

\* A read that fails is repeated, after the test for an overflow.  A reset is
\* reported once, and the read after it finds the end; the reads that fail in
\* between change nothing, and are steps that leave all variables unchanged.
RetryRead ==
    /\ spc \in {"ws_head", "ws_ext", "ws_payload"} /\ AtEnd("reset")
    /\ up_end' = "eof"
    /\ IF Len(buff) = KOHERON_READ_STR_LEN THEN End
       ELSE UNCHANGED <<spc, need, buff, cmd, down_end>>
    /\ UNCHANGED <<socket_type, up, down, executed, frame>>

WebSocketSession ==
    \/ Authenticate \/ ReadFrameHeader \/ ReadExtendedLength \/ ReadFrame
    \/ ReadOverflow \/ EofInFrame \/ RetryRead
=============================================================================
