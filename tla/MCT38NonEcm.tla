----------------------------- MODULE MCT38NonEcm -----------------------------
(* Octets of two bits and EOLs of three zeros and a one, every stream of a  *)
(* few octets.                                                              *)
EXTENDS T38NonEcm

Bursts == [image \in BOOLEAN |-> IF image THEN 8 ELSE 4]
=============================================================================
