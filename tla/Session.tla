------------------------------ MODULE Session --------------------------------
(***************************************************************************)
(* The server's end of a connection: Session::run with what it calls to    *)
(* read a command and its arguments and to send the result                 *)
(* (server/core/session.hpp and .cpp), and the parser that is generated    *)
(* for each operation (server/__init__.py).  This module has what both     *)
(* kinds of sockets share and the TCP session (a Unix socket session is    *)
(* one); WebSocket adds the other kind.                                    *)
(*                                                                         *)
(* The connection is two streams of bytes.  read() returns as many as it   *)
(* likes, 0 at the end of the stream, and once -1 after a reset.           *)
(***************************************************************************)
EXTENDS WireFormat

CONSTANTS Operations,  \* by name: ids, types of arguments and results, possible results
          Unknown      \* what an argument is that was not received

S == INSTANCE Serializer

VARIABLES socket_type,
          up,        \* bytes on their way to the server
          up_end,    \* "open", "eof", "reset": what comes after them
          down,      \* bytes on their way to the client
          down_end,  \* the server closed the connection, or it was reset
          spc,       \* where Session::run is
          need,      \* bytes the current read loop still has to get
          buff,      \* bytes it got
          cmd,       \* the Command: operation, packs left, arguments, cut short?
          executed   \* history: what the operations ran with

session_vars == <<socket_type, up, up_end, down, down_end, spc, need, buff, cmd, executed>>

NoCommand == [op |-> "none", packs |-> <<>>, args |-> <<>>, cut |-> FALSE]

-----------------------------------------------------------------------------
(* Reading *)

\* Mutant: each read() asks for one byte more than is left to collect.
ReadTooMuch ==
    /\ need > 0 /\ spc # "http"
    /\ \E k \in 1..(need + 1) :
          /\ k <= Len(up)
          /\ buff' = buff \o SubSeq(up, 1, k)
          /\ up' = SubSeq(up, k + 1, Len(up))
          /\ need' = need - k
    /\ UNCHANGED <<socket_type, up_end, down, down_end, spc, cmd, executed>>

\* One read() of a loop that collects need bytes.
Read ==
    /\ need > 0 /\ spc # "http"
    /\ \E k \in 1..need :
          /\ k <= Len(up)
          /\ buff' = buff \o SubSeq(up, 1, k)
          /\ up' = SubSeq(up, k + 1, Len(up))
          /\ need' = need - k
    /\ UNCHANGED <<socket_type, up_end, down, down_end, spc, cmd, executed>>

AtEnd(how) == up = <<>> /\ need > 0 /\ up_end = how
Loop(at, n) == spc' = at /\ need' = n /\ buff' = <<>>

\* The loop of run() starts over, with a new Command.
NextCommand ==
    /\ cmd' = NoCommand
    /\ IF socket_type = "WEBSOCK" THEN Loop("ws_head", 6) ELSE Loop("header", S!HEADER_SIZE)

\* run() returns, and session_thread_call deletes the session.
End == cmd' = NoCommand /\ Loop("ended", 0) /\ down_end' = TRUE

-----------------------------------------------------------------------------
(* The generated parser *)

\* Adjacent scalars are read together.
build_args_packs(args) ==
    FoldLeft(LAMBDA packs, a :
                IF a.family = "scalar" /\ packs # <<>> /\ Last(packs)[1].family = "scalar"
                THEN [packs EXCEPT ![Len(packs)] = Append(@, a)]
                ELSE Append(packs, <<a>>),
             <<>>, args)

Packs == [o \in DOMAIN Operations |-> build_args_packs(Operations[o].args)]

TypesOf(pack) == [i \in DOMAIN pack |-> pack[i].type]
HasLength(pack) == pack[1].family \in {"vector", "string"}
PackSize(pack) ==
    IF pack[1].family = "array" THEN size_of(pack[1].type) * pack[1].n
    ELSE S!required_buffer_size(TypesOf(pack))

\* The values a pack stands for; b holds exactly its bytes.
PackValues(pack, b) ==
    IF pack[1].family = "scalar" THEN S!deserialize(0, TypesOf(pack), b)
    ELSE <<Elements(ElementOf(pack[1]), b)>>
UnknownValues(pack) == [i \in DOMAIN pack |-> Unknown]

\* The number in front of a container.
PackLength(b) == S!deserialize(0, <<"uint32_t">>, b)[1]

\* The operation the header names, with its arguments still to be read.
OperationOf(header) ==
    LET ids == S!decode_header(header)
        ops == {o \in DOMAIN Operations : <<Operations[o].class, Operations[o].func>> = ids}
    IN  IF ops = {} THEN NoCommand
        ELSE LET o == CHOOSE o \in ops : TRUE
             IN  [NoCommand EXCEPT !.op = o, !.packs = Packs[o]]

\* The parser goes on to the next pack, or the arguments are complete.
Parse(c) ==
    /\ cmd' = c
    /\ IF c.packs = <<>> THEN Loop("exec", 0)
       ELSE IF HasLength(Head(c.packs)) THEN Loop("length", size_of("uint32_t"))
       ELSE Loop("pack", PackSize(Head(c.packs)))

\* The current pack is done, with these values.
Got(values) == [cmd EXCEPT !.packs = Tail(@), !.args = @ \o values]
GotCut(values) == [Got(values) EXCEPT !.cut = TRUE]

-----------------------------------------------------------------------------
(* The TCP session *)

Reading(at) == spc = at /\ need = 0

\* Session<TCP>::read_command.
ReadHeader ==
    /\ Reading("header")
    /\ Parse(OperationOf(buff))
    /\ UNCHANGED <<socket_type, up, up_end, down, down_end, executed>>

\* Mutant: the length is taken for a number of elements.
ReadLengthOfElements ==
    /\ Reading("length")
    /\ LET size == size_of(ElementOf(Head(cmd.packs)[1]))
       IN  Loop("pack", PackLength(buff) * size)
    /\ UNCHANGED <<socket_type, up, up_end, down, down_end, cmd, executed>>

\* get_pack_length; the length is a number of bytes.
ReadLength ==
    /\ Reading("length")
    /\ LET size == size_of(ElementOf(Head(cmd.packs)[1]))
       IN  Loop("pack", (PackLength(buff) \div size) * size)
    /\ UNCHANGED <<socket_type, up, up_end, down, down_end, cmd, executed>>

\* deserialize, recv(array), and the end of recv(vector) and recv(string).
ReadPack ==
    /\ Reading("pack")
    /\ Parse(Got(PackValues(Head(cmd.packs), buff)))
    /\ UNCHANGED <<socket_type, up, up_end, down, down_end, executed>>

\* rcv_n_bytes returns 0.  In the header this ends the session; the parser
\* takes it for success and uses the buffer as it is.
EofInHeader ==
    /\ spc = "header" /\ AtEnd("eof")
    /\ End
    /\ UNCHANGED <<socket_type, up, up_end, down, executed>>

EofInPack ==
    /\ spc = "pack" /\ AtEnd("eof")
    /\ Parse(GotCut(UnknownValues(Head(cmd.packs))))
    /\ UNCHANGED <<socket_type, up, up_end, down, down_end, executed>>

\* The length is then what was on the stack: the container gets some size, or
\* resize() throws, which nothing catches.
EofInLength ==
    /\ spc = "length" /\ AtEnd("eof")
    /\ \/ /\ Parse(GotCut(<<Unknown>>))
          /\ UNCHANGED down_end
       \/ /\ Loop("aborted", 0)
          /\ down_end' = TRUE
          /\ cmd' = NoCommand
    /\ UNCHANGED <<socket_type, up, up_end, down, executed>>

\* rcv_n_bytes returns -1; the stream is at its end afterwards.
ErrorInHeader ==
    /\ spc = "header" /\ AtEnd("reset")
    /\ up_end' = "eof"
    /\ End
    /\ UNCHANGED <<socket_type, up, down, executed>>

\* Mutant: the parser does not test what rcv_n_bytes returns.
ErrorInPackIgnored ==
    /\ spc = "pack" /\ AtEnd("reset")
    /\ up_end' = "eof"
    /\ Parse(GotCut(UnknownValues(Head(cmd.packs))))
    /\ UNCHANGED <<socket_type, up, down, down_end, executed>>

\* The parser gives up, the operation does not run.
ErrorInPack ==
    /\ spc = "pack" /\ AtEnd("reset")
    /\ up_end' = "eof"
    /\ NextCommand
    /\ UNCHANGED <<socket_type, up, down, down_end, executed>>

\* get_pack_length returns -1, which recv(vector) divides by the size of an
\* element before it tests for less than 0: with more than a byte it is 0.
ErrorInLength ==
    /\ spc = "length" /\ AtEnd("reset")
    /\ up_end' = "eof"
    /\ IF size_of(ElementOf(Head(cmd.packs)[1])) > 1
       THEN Parse(GotCut(<<<<>>>>))
       ELSE NextCommand
    /\ UNCHANGED <<socket_type, up, down, down_end, executed>>

TCPSession ==
    \/ ReadHeader \/ ReadLength \/ ReadPack
    \/ EofInHeader \/ EofInPack \/ EofInLength
    \/ ErrorInHeader \/ ErrorInPack \/ ErrorInLength
=============================================================================
