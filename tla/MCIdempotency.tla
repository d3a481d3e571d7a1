--------------------------- MODULE MCIdempotency ---------------------------
(* Instances of Idempotency for TLC. *)
EXTENDS Idempotency, TLC

\* Requests differ only in their identity; used where no liveness is checked.
RequestSymmetry == Permutations(Requests)
=============================================================================
