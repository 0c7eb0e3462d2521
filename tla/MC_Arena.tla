------------------------------ MODULE MC_Arena ------------------------------
(***************************************************************************)
(* The arena with block sizes scaled down so that few allocations fill a *)
(* block: the first block holds 4 bytes and a chained block has 2 bytes   *)
(* of slack instead of 10240.  The requests mix a size that fits the      *)
(* first block, one that fills it and one larger than it, so that after   *)
(* a reset a retained block is sometimes too small for a request.          *)
(***************************************************************************)
EXTENDS Arena

MC_FIRST_SIZE == 4
MC_MEMINCR_BYTES == 2
MC_Sizes == {1, 4, 6}
=============================================================================
