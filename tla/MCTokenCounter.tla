--------------------------- MODULE MCTokenCounter ---------------------------
(***************************************************************************)
(* A runner and a generator that share a file, two models that count       *)
(* differently, one text besides the empty one.                            *)
(***************************************************************************)
EXTENDS TokenCounter

CONSTANTS a, b, empty, x, k1, k2

MCSize(m, t, k) ==
  (IF t = empty THEN 0 ELSE 1)
    + (IF k = None THEN 0 ELSE IF k = k1 THEN 4 ELSE 8)
    + (IF m = "large" THEN 16 ELSE 0)

=============================================================================
