----------------------------- MODULE MCWebApp -----------------------------
(* The web application on small instances.                                 *)
EXTENDS WebApp, TLC

CONSTANTS i1, i2, a, k1, k2, f1, t1, s1, b1, v1, v2, blank, spaces, mask, g1, g2,
          x1, x2, l1, l2, p1, p2, c1, c2, u1

(* Model values that no definition orders or chooses among; only those of  *)
(* the page with the most states, since every state is permuted.           *)
Symmetry == Permutations(Items) \cup Permutations(Containers)
=============================================================================
