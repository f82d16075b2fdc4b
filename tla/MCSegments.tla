------------------------------- MODULE MCSegments -------------------------------
(* Instances of Segments for TLC. *)
EXTENDS Segments

Times(crash, exit, beat, redis, unlink, watchdog) ==
    [f \in Faults |-> CASE f = "crash" -> crash
                        [] f = "exit" -> exit
                        [] f = "beat" -> beat
                        [] f = "redis" -> redis
                        [] f = "unlink" -> unlink
                        [] f = "watchdog" -> watchdog]

BudgetRotation == Times(1, 1, 1, 0, 1, 0)
BudgetFailures == Times(1, 0, 0, 1, 0, 1)
BudgetReclaim  == Times(1, 0, 0, 0, 1, 1)
BudgetRestart  == Times(0, 0, 0, 0, 0, 1)
================================================================================
