--------------------------- MODULE MCDriverManager ---------------------------
(* The drivers of the sesenta instrument, and two drivers that need each     *)
(* other, which DriverContainer::alloc guards against.                       *)
EXTENDS DriverManager, TLC

CONSTANTS common, dma, sesenta, left, right

\* Sesenta's constructor calls ctx.get<DmaS2MM>(), Common and DmaS2MM call none.
InstrumentNeeds == (common :> <<>>) @@ (dma :> <<>>) @@ (sesenta :> <<dma>>)

AllNeeds == InstrumentNeeds @@ (left :> <<sesenta, right>>) @@ (right :> <<left>>)
=============================================================================
