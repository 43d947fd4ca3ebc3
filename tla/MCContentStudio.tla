---------------------------- MODULE MCContentStudio ----------------------------
(* An instance of ContentStudio for TLC; no symmetry, as the run also checks   *)
(* liveness.                                                                   *)
EXTENDS ContentStudio

(* What the expressions {product}, {url} and {price(usd)} match: the last one, *)
(* whose parentheses are a group, none of the placeholders.                    *)
ExpressionMatches == [key \in Keys |-> IF key = "price(usd)" THEN {} ELSE {key}]

CONSTANTS c1, c2, k1, k2, f1, f2, f3, g1, t1, t2, u1
===============================================================================
