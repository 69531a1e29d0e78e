----------------------------- MODULE Serializer -----------------------------
(***************************************************************************)
(* Serialisation on the server (server/core/serializer_deserializer.hpp)   *)
(* and the buffers of a command (server/core/commands.hpp).                *)
(***************************************************************************)
EXTENDS WireFormat

\* The integers; 64 bits go as two halves, the upper one first.
append_int(t, v) ==
    LET n == size_of(t)
        u == Unsigned(n, v)
    IN  IF n = 8 THEN ToBytes(4, u \div Radix^4) \o ToBytes(4, u % Radix^4)
                 ELSE ToBytes(n, u)

extract_int(t, b) ==
    LET n == size_of(t)
        u == IF n = 8 THEN FromBytes(Slice(b, 0, 4)) * Radix^4 + FromBytes(Slice(b, 4, 4))
                      ELSE FromBytes(Slice(b, 0, n))
    IN  IF t \in Signed THEN AsSigned(n, u) ELSE u

append(t, v) ==
    CASE t = "bool" -> <<IF v THEN 1 ELSE 0>>
      [] t \in Complex -> append_int(PartOf(t), v[1]) \o append_int(PartOf(t), v[2])
      [] OTHER -> append_int(t, v)

extract(t, b) ==
    CASE t = "bool" -> b[1] = 1
      [] t \in Complex -> <<extract_int(PartOf(t), b),
                            extract_int(PartOf(t), Slice(b, size_of(PartOf(t)), size_of(PartOf(t))))>>
      [] OTHER -> extract_int(t, b)

required_buffer_size(ts) == FoldLeft(LAMBDA n, t : n + size_of(t), 0, ts)

deserialize(position, ts, b) ==
    [i \in DOMAIN ts |->
        extract(ts[i], Slice(b, position + required_buffer_size(SubSeq(ts, 1, i - 1)),
                             size_of(ts[i])))]

serialize(ts, vs) == FlattenSeq([i \in DOMAIN ts |-> append(ts[i], vs[i])])

is_scalar_v(a) == a.family = "scalar"
is_container_v(a) == a.family \in {"vector", "string"}
is_std_array_v(a) == a.family = "array"

\* The bytes of a container follow their number; those of an array do not.
dump_container_to_buffer(a) ==
    LET bytes == InMemory(ElementOf(a), a.value)
    IN  append("uint32_t", Len(bytes)) \o bytes
dump_array_to_buffer(a) == InMemory(a.type, a.value)

\* s is the buffer and the pack of scalars that still waits in scal_data.
dump_scalar_pack(s) == [buffer |-> s.buffer \o s.scal, scal |-> <<>>]
command_serializer(s, a) ==
    IF is_scalar_v(a) THEN [s EXCEPT !.scal = @ \o append(a.type, a.value)]
    ELSE [dump_scalar_pack(s) EXCEPT
             !.buffer = @ \o IF is_container_v(a) THEN dump_container_to_buffer(a)
                                                  ELSE dump_array_to_buffer(a)]

HeaderTypes == <<"uint32_t", "uint16_t", "uint16_t">>

build_command(class_id, func_id, args) ==
    LET header == serialize(HeaderTypes, <<0, class_id, func_id>>)
    IN  dump_scalar_pack(FoldLeft(command_serializer, [buffer |-> header, scal |-> <<>>], args)).buffer

\* Command::header starts at HEADER_START: the reserved bytes are skipped.
HEADER_SIZE == 8
HEADER_START == 4
decode_header(b) == deserialize(HEADER_START, <<"uint16_t", "uint16_t">>, b)
=============================================================================
