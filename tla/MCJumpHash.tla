----------------------------- MODULE MCJumpHash -----------------------------
(* Instances of JumpHash for TLC.                                          *)
EXTENDS JumpHash

Triple(x, y, z) == [h0 |-> x, h1 |-> y, h2 |-> z]

(* Two buckets, clashes in the bin, and keys no combination separates. *)
FewHashes == {Triple(0, 0, 1), Triple(0, 1, 2), Triple(1, 1, 0), Triple(1, 2, 1)}
=============================================================================
