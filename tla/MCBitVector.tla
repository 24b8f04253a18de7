----------------------------- MODULE MCBitVector ----------------------------
(* TLC instance: two vectors of up to five bits in chunks of two.  There are *)
(* inlined ones that fill their chunk and that do not, and larger ones whose *)
(* last chunk is full and is not; 31 rounds up to 0.                         *)
EXTENDS BitVector

MCSizes == (0 .. 5) \cup {31}
=============================================================================
