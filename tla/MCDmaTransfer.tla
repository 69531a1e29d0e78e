---------------------------- MODULE MCDmaTransfer ----------------------------
(* A bounded instance of the DMA path, with the sizes of the code scaled     *)
(* down: transfers of 3 and 4 points, and one whose points wrap around.      *)
EXTENDS DmaTransfer
=============================================================================
