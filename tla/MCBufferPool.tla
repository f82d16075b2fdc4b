------------------------------ MODULE MCBufferPool ------------------------------
(* TLC instance of BufferPool: two threads, one of which opens a second checkout   *)
(* inside its first.  Its two checkouts are alike, and so are entities.            *)
EXTENDS BufferPool, TLC

CONSTANTS t1, t2, k1, k2, k3

MCThreadOf == (k1 :> t1) @@ (k2 :> t1) @@ (k3 :> t2)

Symmetry == Permutations({k1, k2}) \cup Permutations(Entities) \cup Permutations(Cells)

================================================================================
