-------------------------- MODULE MCLoopController --------------------------
(***************************************************************************)
(* LoopController on a four-slot control memory.  Descriptor words up to 2 *)
(* give descriptors that fill the memory exactly, that overflow it, that   *)
(* have no prologue, no epilogue or a zero II or trip count; flat runs are *)
(* every length the tools accept.                                          *)
(***************************************************************************)
EXTENDS LoopController

CONSTANT MaxWord

MCWords == 0 .. MaxWord
MCRunCycles == 1 .. CTRL_MEM_DEPTH - 1
=============================================================================
