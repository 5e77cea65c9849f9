------------------------------ MODULE MCPlatform -----------------------------
(* Platform for TLC. *)
EXTENDS Platform, TLC

CONSTANTS j1, j2, w1, w2, t1, t2, c1, c2  \* model values

\* Ids are compared for equality only.  Used with invariants and step properties only.
Symmetry == Permutations(Jobs) \union Permutations(Workers)
            \union Permutations(Threads) \union Permutations(Clients)
=============================================================================
