--------------------------- MODULE MCNupaRuntime ---------------------------
(* Instances of NupaRuntime for TLC.  Addresses of objects without a weak    *)
(* ivar are interchangeable, and so are addresses of objects with one and    *)
(* the weak locals.                                                          *)
EXTENDS NupaRuntime, TLC

Symmetry ==
    Permutations(WeakHolder) \cup Permutations(Obj \ WeakHolder) \cup Permutations(Local)
=============================================================================
