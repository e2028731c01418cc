--------------------------- MODULE MCRateLimiter ---------------------------
(* A small instance of RateLimiter. *)
EXTENDS RateLimiter, TLC

(* Keys are only compared, and no liveness is checked: they are symmetric. *)
KeySymmetry == Permutations(Keys)
=============================================================================
