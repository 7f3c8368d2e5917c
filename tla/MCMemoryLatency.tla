--------------------------- MODULE MCMemoryLatency ---------------------------
(* Instances of MemoryLatency, with the operators on bits of Bitwise. *)
EXTENDS MemoryLatency, Bitwise

MCxor(a, b) == a ^^ b

MCand(a, b) == a & b

=============================================================================
