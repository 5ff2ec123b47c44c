----------------------------- MODULE MCVrfProof -----------------------------
(***************************************************************************)
(* VrfProof over the group of integers modulo a small prime.               *)
(***************************************************************************)
EXTENDS VrfProof

CONSTANT Order

MCScalar == 0 .. Order - 1
MCPoint == 0 .. Order - 1
MCAdd(a, b) == (a + b) % Order
MCMul(a, b) == (a * b) % Order
MCNeg(a) == (Order - a) % Order
\* Encodings are the numbers after the order; the last encodes nothing.
MCcompress(p) == Order + p
MCEncoding == Order .. 2 * Order
=============================================================================
