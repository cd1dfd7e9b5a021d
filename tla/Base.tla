------------------------------- MODULE Base -------------------------------
(***************************************************************************)
(* The saturating unsigned arithmetic of base.h.  UINT64_MAX, the largest  *)
(* value of the type, is a parameter: the model checker takes a small one, *)
(* the proofs hold for every one.                                          *)
(***************************************************************************)
EXTENDS Integers

CONSTANT UINT64_MAX   \* largest uint64_t

ASSUME Uint64Assumption == UINT64_MAX \in Nat \ {0}

Uint64 == 0 .. UINT64_MAX

\* a + b, or UINT64_MAX when the sum leaves the type.
ls_add_sat(a, b) == IF b > UINT64_MAX - a THEN UINT64_MAX ELSE a + b

\* a * b, or UINT64_MAX when the product leaves the type.
ls_mul_sat(a, b) == IF b # 0 /\ a > UINT64_MAX \div b THEN UINT64_MAX ELSE a * b
=============================================================================
