-------------------------- MODULE ClientSerializer ---------------------------
(***************************************************************************)
(* Serialisation in the C++ client (namespace serdes of                    *)
(* server/client/koheron-client.hpp): code of its own, which has to agree  *)
(* with the server's.  It knows no complex numbers.                        *)
(***************************************************************************)
EXTENDS WireFormat

append_int(t, v) ==
    LET n == size_of(t)
        u == Unsigned(n, v)
    IN  IF n = 8 THEN ToBytes(4, u \div Radix^4) \o ToBytes(4, u % Radix^4)
                 ELSE ToBytes(n, u)

extract_int(t, b) ==
    LET n == size_of(t)
        u == IF n = 8 THEN FromBytes(Slice(b, 0, 4)) * Radix^4 + FromBytes(Slice(b, 4, 4))
                      ELSE FromBytes(Slice(b, 0, n))
    IN  IF t \in Signed THEN AsSigned(n, u) ELSE u

\* A float is its bit pattern already (pseudo_cast).
append(t, v) == IF t = "bool" THEN <<IF v THEN 1 ELSE 0>> ELSE append_int(t, v)
extract(t, b) == IF t = "bool" THEN b[1] = 1 ELSE extract_int(t, b)

required_buffer_size(ts) == FoldLeft(LAMBDA n, t : n + size_of(t), 0, ts)

deserialize(position, ts, b) ==
    [i \in DOMAIN ts |->
        extract(ts[i], Slice(b, position + required_buffer_size(SubSeq(ts, 1, i - 1)),
                             size_of(ts[i])))]

serialize(ts, vs) == FlattenSeq([i \in DOMAIN ts |-> append(ts[i], vs[i])])

is_scalar_v(a) == a.family = "scalar"
is_container_v(a) == a.family \in {"vector", "string"}
is_std_array_v(a) == a.family = "array"

dump_container_to_buffer(a) ==
    LET bytes == InMemory(ElementOf(a), a.value)
    IN  append("uint32_t", Len(bytes)) \o bytes
dump_array_to_buffer(a) == InMemory(a.type, a.value)

\* s is the buffer and the pack of scalars that still waits in scal_data.
dump_scalar_pack(s) == [buffer |-> s.buffer \o s.scal, scal |-> <<>>]

command_serializer(s, a) ==
    IF is_scalar_v(a) THEN [s EXCEPT !.scal = @ \o append(a.type, a.value)]
    ELSE [dump_scalar_pack(s) EXCEPT
             !.buffer = @ \o IF is_container_v(a) THEN dump_container_to_buffer(a)
                                                  ELSE dump_array_to_buffer(a)]

HeaderTypes == <<"uint32_t", "uint16_t", "uint16_t">>
header_size == required_buffer_size(HeaderTypes)

build_command(class_id, func_id, args) ==
    LET header == serialize(HeaderTypes, <<0, class_id, func_id>>)
    IN  dump_scalar_pack(FoldLeft(command_serializer, [buffer |-> header, scal |-> <<>>], args)).buffer

\* What recv_all is asked for first: all of the answer, or, when its length
\* varies, everything up to the length.  A tuple is a result of several parts.
Types(ret) == [i \in DOMAIN ret |-> ret[i].type]
FirstReceive(ret) ==
    header_size + CASE ret[1].family = "scalar" -> required_buffer_size(Types(ret))
                    [] ret[1].family = "array" -> size_of(ret[1].type) * ret[1].n
                    [] OTHER -> size_of("uint32_t")

\* command_deserializer, once everything is in the buffer b.
command_deserializer(ret, b) ==
    CASE ret[1].family = "scalar" -> deserialize(header_size, Types(ret), b)
      [] ret[1].family = "array" ->
            <<Elements(ret[1].type, Slice(b, header_size, size_of(ret[1].type) * ret[1].n))>>
      [] OTHER -> <<Elements(ElementOf(ret[1]), b)>>
=============================================================================
