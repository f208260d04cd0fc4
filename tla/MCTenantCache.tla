--------------------------- MODULE MCTenantCache ---------------------------
(* Small instances of TenantCache: one row of each kind that has a builder   *)
(* shape of its own, two workers, one or two API processes.                  *)
EXTENDS TenantCache, TLC

CONSTANTS e1, d1, g1, p1, p2, w1, w2

\* Workers of one process are interchangeable.
WorkerSymmetry == Permutations({w1, w2})

OneProc == [w \in {w1, w2} |-> p1]
TwoProcs == (w1 :> p1) @@ (w2 :> p2)
=============================================================================
