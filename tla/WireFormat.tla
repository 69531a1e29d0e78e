----------------------------- MODULE WireFormat -----------------------------
(***************************************************************************)
(* What both ends of a connection know about bytes: the sizes of the C++   *)
(* types and the positional notation of a number.  A byte is a number      *)
(* below Radix: 256 in the code, less in the model checked instances, so   *)
(* that every width from 1 to 8 bytes keeps its proportions and TLC's      *)
(* integers hold the largest.  A float is its bit pattern.                 *)
(*                                                                         *)
(* An argument or a result is a record: its family ("scalar", "vector",    *)
(* "array" or "string"), its type or the type of its elements, its length  *)
(* n (of an array), and its value.                                         *)
(***************************************************************************)
EXTENDS Integers, Sequences, SequencesExt

CONSTANT Radix

Signed == {"int8_t", "int16_t", "int32_t", "int64_t"}
Complex == {"complex<float>", "complex<double>"}

\* sizeof, the same on the clients and on the ARM core.
size_of(t) ==
    CASE t \in {"bool", "char", "uint8_t", "int8_t"} -> 1
      [] t \in {"uint16_t", "int16_t"} -> 2
      [] t \in {"uint32_t", "int32_t", "float"} -> 4
      [] t \in {"uint64_t", "int64_t", "double", "complex<float>"} -> 8
      [] t = "complex<double>" -> 16

\* The type of the two parts of a complex number.
PartOf(t) == IF t = "complex<float>" THEN "float" ELSE "double"

\* The numbers with n bytes, most significant byte first.
ToBytes(n, u) == [i \in 1..n |-> (u \div Radix^(n - i)) % Radix]
FromBytes(b) ==
    LET u[i \in 0..Len(b)] == IF i = 0 THEN 0 ELSE u[i - 1] * Radix + b[i]
    IN  u[Len(b)]

\* Two's complement in n bytes.
Unsigned(n, v) == v % Radix^n
AsSigned(n, u) == IF 2 * u >= Radix^n THEN u - Radix^n ELSE u

\* n bytes of b after the first position bytes.
Slice(b, position, n) == SubSeq(b, position + 1, position + n)

\* The elements of a container as they lie in memory: both processors store
\* the least significant byte first.
InMemory(t, vs) ==
    FlattenSeq([i \in DOMAIN vs |-> Reverse(ToBytes(size_of(t), Unsigned(size_of(t), vs[i])))])
Elements(t, b) ==
    [i \in 1..(Len(b) \div size_of(t)) |->
        LET u == FromBytes(Reverse(Slice(b, (i - 1) * size_of(t), size_of(t))))
        IN  IF t \in Signed THEN AsSigned(size_of(t), u) ELSE u]

\* The type of the elements of a string.
ElementOf(a) == IF a.family = "string" THEN "char" ELSE a.type
=============================================================================
