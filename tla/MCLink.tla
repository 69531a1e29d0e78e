------------------------------ MODULE MCLink ---------------------------------
(* A small interface: every family of arguments and results, values at the  *)
(* ends of their types, and sizes on both sides of every limit.             *)
EXTENDS Link

Scalar(t) == [family |-> "scalar", type |-> t, n |-> 1]
Vector(t) == [family |-> "vector", type |-> t, n |-> 0]
Array(t, n) == [family |-> "array", type |-> t, n |-> n]
String == [family |-> "string", type |-> "char", n |-> 0]

Operation(func, args, ret, results) ==
    [class |-> 6, func |-> func, args |-> args, ret |-> ret, results |-> results]

MCOperations ==
    [set  |-> Operation(1, <<Scalar("uint16_t"), Scalar("int32_t")>>, <<>>, {<<>>}),
     get  |-> Operation(2, <<>>, <<Scalar("uint64_t"), Scalar("bool")>>, {<<65534, TRUE>>}),
     mix  |-> Operation(3, <<Scalar("int32_t"), Vector("uint16_t"), Scalar("bool")>>,
                        <<Array("int16_t", 2)>>, {<< <<-8, 7>> >>}),
     name |-> Operation(4, <<String>>, <<>>, {<<>>}),
     load |-> Operation(6, <<Vector("uint16_t")>>, <<>>, {<<>>}),
     list |-> Operation(5, <<Array("int8_t", 3)>>, <<Vector("uint32_t")>>,
                        {<< <<>> >>, << <<7>> >>, << <<255, 8>> >>})]

\* With the header of 8 bytes: name is once on each side of the limit of 20
\* bytes, once on it, and once in a frame of exactly KOHERON_READ_STR_LEN.
MCArguments ==
    [set  |-> {<<14, -128>>},
     get  |-> {<<>>},
     mix  |-> {<<127, <<>>, TRUE>>, <<-1, <<13>>, FALSE>>, <<-1, <<13, 2>>, FALSE>>},
     name |-> {<< <<>> >>, << <<1, 2, 3>> >>, << <<1, 2, 3, 0, 1, 2, 3, 0>> >>},
     load |-> {<< <<13>> >>},
     list |-> {<< <<-2, 0, 1>> >>}]

\* Values at the ends of each type.
Ends(t) ==
    LET half == Radix^size_of(t) \div 2
    IN  CASE t = "bool" -> BOOLEAN
          [] t = "complex<float>" -> {<<0, 255>>, <<128, 1>>}
          [] t \in Signed -> {-half, -1, 0, half - 1}
          [] OTHER -> {0, 1, half, 2 * half - 1}

\* Both serialisers write the same bytes and read back what was written.
ASSUME RoundTrip ==
    \A t \in {"bool", "char", "uint8_t", "int8_t", "uint16_t", "int16_t", "uint32_t",
              "int32_t", "float", "uint64_t", "int64_t", "double"} :
        \A v \in Ends(t) : /\ S!append(t, v) = C!append(t, v)
                           /\ Len(S!append(t, v)) = size_of(t)
                           /\ S!extract(t, S!append(t, v)) = v
                           /\ C!extract(t, S!append(t, v)) = v
ASSUME ComplexRoundTrip ==
    \A v \in Ends("complex<float>") :
        S!extract("complex<float>", S!append("complex<float>", v)) = v
=============================================================================
