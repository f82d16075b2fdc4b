--------------------------------- MODULE MCWal ---------------------------------
(* Instances of Wal for TLC. *)
EXTENDS Wal

\* All messages write the same entity.
MCEntityOf == [m \in Msgs |-> "a"]

Times(crash, flush, redis, stops, pause, destroy) ==
    [f \in Faults |-> CASE f = "crash" -> crash
                        [] f = "flush" -> flush
                        [] f = "redis" -> redis
                        [] f = "stop" -> stops
                        [] f = "pause" -> pause
                        [] f = "destroy" -> destroy]

BudgetFailures == Times(1, 1, 1, 1, 0, 0)
BudgetCrash    == Times(1, 0, 0, 0, 0, 0)
BudgetPause    == Times(1, 1, 0, 0, 1, 1)
================================================================================
