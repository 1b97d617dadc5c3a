----------------------------- MODULE MCSaeAlloc -----------------------------
(* SaeAlloc and SaeStream for TLC: cores are interchangeable, and names.   *)
EXTENDS SaeStream, TLC

Symmetry == Permutations(Core) \cup Permutations(Name)

(* Of what happens to a spoiled heap nothing is claimed.                   *)
Unspoiled == ~spoiled

=============================================================================
