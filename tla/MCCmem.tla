------------------------------- MODULE MCCmem -------------------------------
(* Instances of Cmem for TLC. *)
EXTENDS Cmem, TLC

\* Texts are interchangeable, and so are other pointers.
HolderSymmetry == Permutations(Text) \cup Permutations(Holder \ Text)
=============================================================================
