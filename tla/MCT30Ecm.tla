------------------------------ MODULE MCT30Ecm ------------------------------
(* Instances of T30Ecm for TLC.  ThreeBlocks: a page of two blocks, the     *)
(* first with two frames, and a page of one.                                *)
EXTENDS T30Ecm

ThreeBlocks == <<<<2, 1>>, <<1>>>>
=============================================================================
