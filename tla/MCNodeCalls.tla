---------------------------- MODULE MCNodeCalls -----------------------------
(* An instance of NodeCalls for TLC. *)
EXTENDS NodeCalls

CONSTANTS p1, q1  \* a public and a private address

MCPublic == {p1}
MCPrivate == {q1}
=============================================================================
