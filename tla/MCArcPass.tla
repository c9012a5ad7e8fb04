----------------------------- MODULE MCArcPass -----------------------------
(* Instances of ArcPass for TLC.  Names are interchangeable, and so are      *)
(* objects.                                                                  *)
EXTENDS ArcPass, TLC

Symmetry == Permutations(Var) \cup Permutations(Obj)
=============================================================================
