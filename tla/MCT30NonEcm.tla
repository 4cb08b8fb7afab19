------------------------------ MODULE MCT30NonEcm ------------------------------
(* An instance of T30NonEcm for TLC: three pages, the third in a format of  *)
(* its own, so that an MPS, an EOM and an EOP are sent.                     *)
EXTENDS T30NonEcm

ThreePages == <<"a", "a", "b">>
=============================================================================
