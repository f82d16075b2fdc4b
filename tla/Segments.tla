-------------------------------- MODULE Segments --------------------------------
(*****************************************************************************)
(* Who keeps a shared-memory segment alive: SegmentRegistry (create,         *)
(* open_current, close), the per-process heartbeat thread and the watchdog   *)
(* process that reaps dead holders and unlinks segments nobody counts.       *)
(*                                                                           *)
(* One schema.  A segment is the number of its creation (its name carries a  *)
(* fresh uuid), 0 stands for none.  A pid may be reused: birth counts its    *)
(* incarnations and is what psutil reports as create_time.  A step is one    *)
(* Redis command, transaction or script, or one POSIX call that others see.  *)
(*****************************************************************************)
EXTENDS Integers, FiniteSets

CONSTANTS
    NumPids,      \* bound: pids that library processes may have
    MaxBirths,    \* bound: incarnations of one pid
    MaxSegs,      \* bound: segments ever created
    MaxHandles,   \* bound: Segment objects one process has of one segment
    Threshold,    \* miss_threshold of the watchdog
    BatchDrain,   \* batch_drain_size of the watchdog
    Hidden,       \* pids psutil may not inspect (AccessDenied)
    Budget        \* bound: how often each kind of failure happens

Pids == 1..NumPids
Segs == 1..MaxSegs

Faults == {"crash", "exit", "beat", "redis", "unlink", "watchdog"}

ASSUME ConstantsAssumption ==
    /\ NumPids \in Nat /\ MaxBirths \in Nat /\ MaxSegs \in Nat /\ MaxHandles \in Nat
    /\ Threshold \in Nat \ {0}
    /\ BatchDrain \in Nat \ {0}
    /\ Hidden \subseteq Pids
    /\ Budget \in [Faults -> Nat]

VARIABLES
    (* Redis *)
    current,    \* quorin:schema:{name}:current
    refcount,   \* quorin:refcount:{segment}; 0: no such key
    side,       \* fields of quorin:segment_to_schema
    pidSegs,    \* quorin:pid_segments:{pid}
    hb,         \* create time in quorin:heartbeats[pid]; 0: no such field
    queue,      \* quorin:cleanup_queue
    (* /dev/shm *)
    shm,        \* linked segments
    lastSeg,    \* newest segment
    (* Library processes *)
    proc,       \* "none", "up" or "zombie"
    birth,      \* incarnation of the pid
    beating,    \* processes whose heartbeat thread was started
    fresh,      \* pids whose heartbeat was written since the watchdog read it
    handles,    \* open Segment objects of each process
    op,         \* registry call each process is in
    opSeg,      \* and the segment it is about
    (* The watchdog *)
    wpc,        \* where run_one_tick is
    tracked,    \* create time of the pid's _PidEntry; 0: not tracked
    miss,       \* miss_count, capped at Threshold
    seen,       \* seen_pids
    todo,       \* ready_for_check
    victim,     \* the pid the cross-check found dead
    names,      \* names drained and not yet unlinked
    (* Bound *)
    budget

countVars == <<current, refcount, side, queue>>
shmVars   == <<shm, lastSeg>>
procVars  == <<proc, birth, beating>>
callVars  == <<handles, op, opSeg>>
tickVars  == <<wpc, tracked, miss, seen, todo, victim, names>>

vars == <<countVars, pidSegs, hb, fresh, shmVars, procVars, callVars, tickVars,
          budget>>

Spend(f) ==
    /\ budget[f] > 0
    /\ budget' = [budget EXCEPT ![f] = @ - 1]

--------------------------------------------------------------------------------
(* Redis scripts *)

\* Mutant: schema:current is left pointing at a segment that was queued.
DropRefsKeepsCurrent(D) ==
    LET zero == {s \in D : refcount[s] <= 1}
    IN  /\ refcount' = [s \in Segs |-> IF s \in zero THEN 0
                                       ELSE IF s \in D THEN refcount[s] - 1
                                       ELSE refcount[s]]
        /\ queue' = queue \cup zero
        /\ current' = current
        /\ side' = side \ zero

\* What _CLOSE_LUA does for one segment and CLEANUP_DEAD_PID_LUA for each of a
\* set: DECR; at zero the name is queued, the count deleted and schema:current
\* cleared if it still names the segment.
DropRefs(D) ==
    LET zero == {s \in D : refcount[s] <= 1}
    IN  /\ refcount' = [s \in Segs |-> IF s \in zero THEN 0
                                       ELSE IF s \in D THEN refcount[s] - 1
                                       ELSE refcount[s]]
        /\ queue' = queue \cup zero
        /\ current' = IF current \in zero \cap side THEN 0 ELSE current
        /\ side' = side \ zero

\* The create pipeline.
Enrol(p, s, setCurrent) ==
    /\ current' = IF setCurrent THEN s ELSE current
    /\ refcount' = [refcount EXCEPT ![s] = 1]
    /\ pidSegs' = [pidSegs EXCEPT ![p] = @ \cup {s}]
    /\ side' = side \cup {s}
    /\ UNCHANGED queue

\* The open_current pipeline.
Count(p, s) ==
    /\ refcount' = [refcount EXCEPT ![s] = @ + 1]
    /\ pidSegs' = [pidSegs EXCEPT ![p] = @ \cup {s}]
    /\ UNCHANGED <<current, side, queue>>

\* _CLOSE_LUA.
CloseScript(p, s) ==
    /\ DropRefs({s})
    /\ pidSegs' = [pidSegs EXCEPT ![p] = @ \ {s}]

\* CLEANUP_DEAD_PID_LUA past its guard.
CleanupScript(p) ==
    /\ DropRefs(pidSegs[p])
    /\ pidSegs' = [pidSegs EXCEPT ![p] = {}]
    /\ hb' = [hb EXCEPT ![p] = 0]
    /\ fresh' = fresh \ {p}

--------------------------------------------------------------------------------
(* Process lifecycle and heartbeat *)

Spawn(p) ==
    /\ proc[p] = "none" /\ birth[p] < MaxBirths
    /\ proc' = [proc EXCEPT ![p] = "up"]
    /\ birth' = [birth EXCEPT ![p] = @ + 1]
    /\ UNCHANGED <<countVars, pidSegs, hb, fresh, shmVars, beating, callVars,
                   tickVars, budget>>

WriteHeartbeat(p) ==
    /\ hb' = [hb EXCEPT ![p] = birth[p]]
    /\ fresh' = fresh \cup {p}

\* heartbeat.ensure_started, the first thing create and open_current do; a
\* failed first write is swallowed.
EnsureStarted(p) ==
    /\ proc[p] = "up" /\ p \notin beating
    /\ \/ WriteHeartbeat(p) /\ UNCHANGED budget
       \/ Spend("beat") /\ UNCHANGED <<hb, fresh>>
    /\ beating' = beating \cup {p}
    /\ UNCHANGED <<countVars, pidSegs, shmVars, proc, birth, callVars, tickVars>>

\* The heartbeat thread's periodic write.
Beat(p) ==
    /\ p \in beating
    /\ WriteHeartbeat(p)
    /\ UNCHANGED <<countVars, pidSegs, shmVars, procVars, callVars, tickVars,
                   budget>>

\* What a process leaves behind when it ends, in whatever way.
Vanish(p) ==
    /\ beating' = beating \ {p}
    /\ handles' = [handles EXCEPT ![p] = [s \in Segs |-> 0]]
    /\ op' = [op EXCEPT ![p] = "idle"]
    /\ opSeg' = [opSeg EXCEPT ![p] = 0]

\* SIGKILL, out-of-memory: the kernel keeps a zombie until the parent waits.
Crash(p) ==
    /\ proc[p] = "up"
    /\ Spend("crash")
    /\ proc' = [proc EXCEPT ![p] = "zombie"]
    /\ Vanish(p)
    /\ UNCHANGED <<countVars, pidSegs, hb, fresh, shmVars, birth, tickVars>>

ParentWaits(p) ==
    /\ proc[p] = "zombie"
    /\ proc' = [proc EXCEPT ![p] = "none"]
    /\ UNCHANGED <<countVars, pidSegs, hb, fresh, shmVars, birth, beating,
                   callVars, tickVars, budget>>

\* A clean exit: the atexit handler deletes the heartbeat, unless Redis fails it;
\* segments the program did not close stay counted.
Exit(p) ==
    /\ proc[p] = "up" /\ op[p] = "idle"
    /\ Spend("exit")
    /\ proc' = [proc EXCEPT ![p] = "none"]
    /\ \/ UNCHANGED <<hb, fresh>>
       \/ p \in beating /\ hb' = [hb EXCEPT ![p] = 0] /\ fresh' = fresh \ {p}
    /\ Vanish(p)
    /\ UNCHANGED <<countVars, pidSegs, shmVars, birth, tickVars>>

--------------------------------------------------------------------------------
(* SegmentRegistry *)

EndCall(p) ==
    /\ op' = [op EXCEPT ![p] = "idle"]
    /\ opSeg' = [opSeg EXCEPT ![p] = 0]

AddHandle(p, s) == handles' = [handles EXCEPT ![p][s] = @ + 1]

\* create: posix_shm.create and the header; the name is fresh.
Create(p) ==
    /\ p \in beating /\ op[p] = "idle"
    /\ lastSeg < MaxSegs
    /\ lastSeg' = lastSeg + 1
    /\ shm' = shm \cup {lastSeg'}
    /\ op' = [op EXCEPT ![p] = "create"]
    /\ opSeg' = [opSeg EXCEPT ![p] = lastSeg']
    /\ UNCHANGED <<countVars, pidSegs, hb, fresh, procVars, handles, tickVars,
                   budget>>

\* create: the Redis transaction (schema evolution passes set_current=False).
Register(p) ==
    /\ op[p] = "create"
    /\ \E setCurrent \in BOOLEAN : Enrol(p, opSeg[p], setCurrent)
    /\ AddHandle(p, opSeg[p])
    /\ EndCall(p)
    /\ UNCHANGED <<hb, fresh, shmVars, procVars, tickVars, budget>>

\* create: the transaction raises, executed by the server or not; the handler
\* closes and unlinks the segment.
RegisterRaises(p) ==
    /\ op[p] = "create"
    /\ Spend("redis")
    /\ \/ UNCHANGED <<countVars, pidSegs>>
       \/ \E setCurrent \in BOOLEAN : Enrol(p, opSeg[p], setCurrent)
    /\ shm' = shm \ {opSeg[p]}
    /\ EndCall(p)
    /\ UNCHANGED <<hb, fresh, lastSeg, procVars, handles, tickVars>>

\* open_current: GET schema:current.
OpenGet(p) ==
    /\ p \in beating /\ op[p] = "idle"
    /\ current # 0
    /\ handles[p][current] < MaxHandles
    /\ op' = [op EXCEPT ![p] = "open"]
    /\ opSeg' = [opSeg EXCEPT ![p] = current]
    /\ UNCHANGED <<countVars, pidSegs, hb, fresh, shmVars, procVars, handles,
                   tickVars, budget>>

\* open_current: map the segment and verify its header.
OpenMap(p) ==
    /\ op[p] = "open" /\ opSeg[p] \in shm
    /\ op' = [op EXCEPT ![p] = "mapped"]
    /\ UNCHANGED <<countVars, pidSegs, hb, fresh, shmVars, procVars, handles, opSeg,
                   tickVars, budget>>

\* open_current: FileNotFoundError, or a header of another schema version.
OpenRefused(p) ==
    /\ op[p] = "open"
    /\ EndCall(p)
    /\ UNCHANGED <<countVars, pidSegs, hb, fresh, shmVars, procVars, handles,
                   tickVars, budget>>

\* open_current: the Redis transaction.
OpenCount(p) ==
    /\ op[p] = "mapped"
    /\ Count(p, opSeg[p])
    /\ AddHandle(p, opSeg[p])
    /\ EndCall(p)
    /\ UNCHANGED <<hb, fresh, shmVars, procVars, tickVars, budget>>

OpenRaises(p) ==
    /\ op[p] = "mapped"
    /\ Spend("redis")
    /\ Count(p, opSeg[p]) \/ UNCHANGED <<countVars, pidSegs>>
    /\ EndCall(p)
    /\ UNCHANGED <<hb, fresh, shmVars, procVars, handles, tickVars>>

DropHandle(p, s) == handles' = [handles EXCEPT ![p][s] = @ - 1]

\* Mutant: a Segment can be closed twice.
CloseTwice(p, s) ==
    /\ proc[p] = "up" /\ op[p] = "idle"
    /\ s <= lastSeg
    /\ CloseScript(p, s)
    /\ DropHandle(p, s)
    /\ UNCHANGED <<hb, fresh, shmVars, procVars, op, opSeg, tickVars, budget>>

\* close: the script, then the mapping is released.
Close(p, s) ==
    /\ op[p] = "idle" /\ handles[p][s] > 0
    /\ CloseScript(p, s)
    /\ DropHandle(p, s)
    /\ UNCHANGED <<hb, fresh, shmVars, procVars, op, opSeg, tickVars, budget>>

\* close: the script raises, executed or not; the mapping is released anyway.
CloseRaises(p, s) ==
    /\ op[p] = "idle" /\ handles[p][s] > 0
    /\ Spend("redis")
    /\ CloseScript(p, s) \/ UNCHANGED <<countVars, pidSegs>>
    /\ DropHandle(p, s)
    /\ UNCHANGED <<hb, fresh, shmVars, procVars, op, opSeg, tickVars>>

--------------------------------------------------------------------------------
(* WatchdogState.run_one_tick *)

Capped(n) == IF n < Threshold THEN n ELSE Threshold

\* Mutant: a heartbeat that did not advance counts as an advance.
TickForgives ==
    LET alive == {p \in Pids : hb[p] # 0}
    IN  /\ wpc = "idle"
        /\ tracked' = [p \in Pids |-> IF p \in alive THEN hb[p] ELSE tracked[p]]
        /\ miss' = [p \in Pids |-> IF p \in alive THEN 0 ELSE miss[p]]
        /\ seen' = alive
        /\ fresh' = {}
        /\ todo' = {p \in Pids : tracked'[p] # 0 /\ miss'[p] >= Threshold}
        /\ wpc' = "check"
        /\ UNCHANGED <<countVars, pidSegs, hb, shmVars, procVars, callVars, victim,
                       names, budget>>

\* Steps 1 and 2: HGETALL and the miss counts.
Tick ==
    LET alive == {p \in Pids : hb[p] # 0}
        reset == {p \in alive : tracked[p] = 0 \/ p \in fresh}
    IN  /\ wpc = "idle"
        /\ tracked' = [p \in Pids |-> IF p \in reset THEN hb[p] ELSE tracked[p]]
        /\ miss' = [p \in Pids |-> IF p \in reset THEN 0
                                   ELSE IF p \in alive THEN Capped(miss[p] + 1)
                                   ELSE miss[p]]
        /\ seen' = alive
        /\ fresh' = {}
        /\ todo' = {p \in Pids : tracked'[p] # 0 /\ miss'[p] >= Threshold}
        /\ wpc' = "check"
        /\ UNCHANGED <<countVars, pidSegs, hb, shmVars, procVars, callVars, victim,
                       names, budget>>

\* Step 3, _cross_check: dead if the pid is gone or has another create time; a
\* zombie, or a process that psutil may not inspect, is left for the next tick.
LooksDead(p) ==
    \/ proc[p] = "none"
    \/ p \notin Hidden /\ proc[p] = "up" /\ birth[p] # tracked[p]

CrossCheck(p) ==
    /\ wpc = "check" /\ p \in todo
    /\ IF LooksDead(p)
       THEN wpc' = "reap" /\ victim' = p /\ UNCHANGED todo
       ELSE todo' = todo \ {p} /\ UNCHANGED <<wpc, victim>>
    /\ UNCHANGED <<countVars, pidSegs, hb, fresh, shmVars, procVars, callVars,
                   tracked, miss, seen, names, budget>>

\* The script's guard: another process heartbeats under this pid.
PidReused == hb[victim] # 0 /\ hb[victim] # tracked[victim]

\* Mutant: the script has no guard.
CleanupDeadPidUnguarded ==
    /\ wpc = "reap"
    /\ CleanupScript(victim)
    /\ tracked' = [tracked EXCEPT ![victim] = 0]
    /\ miss' = [miss EXCEPT ![victim] = 0]
    /\ todo' = todo \ {victim}
    /\ victim' = 0
    /\ wpc' = "check"
    /\ UNCHANGED <<shmVars, procVars, callVars, seen, names, budget>>

\* Step 3, the script; the pid is forgotten whether it cleaned up or aborted.
CleanupDeadPid ==
    /\ wpc = "reap"
    /\ IF PidReused THEN UNCHANGED <<countVars, pidSegs, hb, fresh>>
                    ELSE CleanupScript(victim)
    /\ tracked' = [tracked EXCEPT ![victim] = 0]
    /\ miss' = [miss EXCEPT ![victim] = 0]
    /\ todo' = todo \ {victim}
    /\ victim' = 0
    /\ wpc' = "check"
    /\ UNCHANGED <<shmVars, procVars, callVars, seen, names, budget>>

\* DRAIN_CLEANUP_QUEUE_LUA: SPOP of up to BatchDrain names.
Drainable == {D \in SUBSET queue :
                 \/ D = queue /\ Cardinality(queue) <= BatchDrain
                 \/ Cardinality(D) = BatchDrain}

\* Step 4.
DrainQueue ==
    /\ wpc = "check" /\ todo = {}
    /\ names' \in Drainable
    /\ queue' = queue \ names'
    /\ wpc' = "unlink"
    /\ UNCHANGED <<current, refcount, side, pidSegs, hb, fresh, shmVars, procVars,
                   callVars, tracked, miss, seen, todo, victim, budget>>

\* posix_shm.unlink of one drained name; one that is gone already is no error.
Unlink(s) ==
    /\ wpc = "unlink" /\ s \in names
    /\ shm' = shm \ {s}
    /\ names' = names \ {s}
    /\ UNCHANGED <<countVars, pidSegs, hb, fresh, lastSeg, procVars, callVars, wpc,
                   tracked, miss, seen, todo, victim, budget>>

\* Step 5.
TickEnd ==
    /\ wpc = "unlink" /\ names = {}
    /\ tracked' = [p \in Pids |-> IF p \in seen THEN tracked[p] ELSE 0]
    /\ miss' = [p \in Pids |-> IF p \in seen THEN miss[p] ELSE 0]
    /\ seen' = {}
    /\ wpc' = "idle"
    /\ UNCHANGED <<countVars, pidSegs, hb, fresh, shmVars, procVars, callVars, todo,
                   victim, names, budget>>

\* The tick is over: run_forever logs the exception and waits for the next one.
AbortTick ==
    /\ wpc' = "idle"
    /\ seen' = {} /\ todo' = {} /\ victim' = 0 /\ names' = {}

\* A script raises, executed by the server or not; _tracked is left as it was.
TickRaises ==
    /\ wpc \in {"check", "reap"}
    /\ Spend("redis")
    /\ \/ UNCHANGED <<countVars, pidSegs, hb, fresh>>
       \/ wpc = "reap" /\ ~PidReused /\ CleanupScript(victim)
       \/ /\ wpc = "check" /\ todo = {}
          /\ \E D \in Drainable : queue' = queue \ D
          /\ UNCHANGED <<current, refcount, side, pidSegs, hb, fresh>>
    /\ AbortTick
    /\ UNCHANGED <<shmVars, procVars, callVars, tracked, miss>>

\* unlink raises an OSError: the tick ends, the rest of the names with it.
UnlinkRaises ==
    /\ wpc = "unlink" /\ names # {}
    /\ Spend("unlink")
    /\ AbortTick
    /\ UNCHANGED <<countVars, pidSegs, hb, fresh, shmVars, procVars, callVars,
                   tracked, miss>>

\* The watchdog process dies; its supervisor starts another.
WatchdogCrash ==
    /\ Spend("watchdog")
    /\ AbortTick
    /\ tracked' = [p \in Pids |-> 0]
    /\ miss' = [p \in Pids |-> 0]
    /\ UNCHANGED <<countVars, pidSegs, hb, fresh, shmVars, procVars, callVars>>

--------------------------------------------------------------------------------
Init ==
    /\ current = 0
    /\ refcount = [s \in Segs |-> 0]
    /\ side = {} /\ queue = {}
    /\ pidSegs = [p \in Pids |-> {}]
    /\ hb = [p \in Pids |-> 0] /\ fresh = {}
    /\ shm = {} /\ lastSeg = 0
    /\ proc = [p \in Pids |-> "none"]
    /\ birth = [p \in Pids |-> 0]
    /\ beating = {}
    /\ handles = [p \in Pids |-> [s \in Segs |-> 0]]
    /\ op = [p \in Pids |-> "idle"] /\ opSeg = [p \in Pids |-> 0]
    /\ wpc = "idle"
    /\ tracked = [p \in Pids |-> 0] /\ miss = [p \in Pids |-> 0]
    /\ seen = {} /\ todo = {} /\ victim = 0 /\ names = {}
    /\ budget = Budget

Lifecycle(p) == Spawn(p) \/ EnsureStarted(p) \/ Beat(p) \/ Crash(p) \/ Exit(p)

\* The steps of a registry call that was begun.
Call(p) == Register(p) \/ OpenMap(p) \/ OpenRefused(p) \/ OpenCount(p)

CallRaises(p) ==
    \/ RegisterRaises(p) \/ OpenRaises(p)
    \/ \E s \in Segs : CloseRaises(p, s)

Process(p) ==
    \/ Lifecycle(p) \/ ParentWaits(p)
    \/ Create(p) \/ OpenGet(p) \/ Call(p) \/ CallRaises(p)
    \/ \E s \in Segs : Close(p, s)

Watchdog ==
    \/ Tick \/ CleanupDeadPid \/ DrainQueue \/ TickEnd
    \/ \E p \in Pids : CrossCheck(p)
    \/ \E s \in Segs : Unlink(s)

Next ==
    \/ \E p \in Pids : Process(p)
    \/ Watchdog
    \/ TickRaises \/ UnlinkRaises \/ WatchdogCrash

Spec == Init /\ [][Next]_vars

\* The watchdog keeps ticking, parents reap their children, a registry call
\* that was begun ends.  Nothing is assumed of when a process opens or closes.
Fairness ==
    /\ WF_vars(Watchdog)
    /\ \A p \in Pids : WF_vars(ParentWaits(p)) /\ WF_vars(Call(p))

FairSpec == Spec /\ Fairness

--------------------------------------------------------------------------------
(* Properties *)

TypeRedis ==
    /\ current \in 0..lastSeg
    /\ refcount \in [Segs -> Nat]
    /\ side \subseteq 1..lastSeg /\ queue \subseteq 1..lastSeg
    /\ pidSegs \in [Pids -> SUBSET (1..lastSeg)]
    /\ hb \in [Pids -> 0..MaxBirths]

TypeShm == lastSeg \in 0..MaxSegs /\ shm \subseteq 1..lastSeg

TypeProcesses ==
    /\ proc \in [Pids -> {"none", "up", "zombie"}]
    /\ birth \in [Pids -> 0..MaxBirths]
    /\ beating \subseteq Pids /\ fresh \subseteq Pids
    /\ handles \in [Pids -> [Segs -> Nat]]
    /\ op \in [Pids -> {"idle", "create", "open", "mapped"}]
    /\ opSeg \in [Pids -> 0..lastSeg]

TypeWatchdog ==
    /\ wpc \in {"idle", "check", "reap", "unlink"}
    /\ tracked \in [Pids -> 0..MaxBirths]
    /\ miss \in [Pids -> 0..Threshold]
    /\ seen \subseteq Pids /\ todo \subseteq Pids
    /\ victim \in IF wpc = "reap" THEN Pids ELSE {0}
    /\ names \subseteq 1..lastSeg

\* Every variable keeps its type: Redis names only segments that were created,
\* and no count goes below zero.
TypeOK ==
    /\ TypeRedis
    /\ TypeShm
    /\ TypeProcesses
    /\ TypeWatchdog
    /\ budget \in [Faults -> Nat]

\* The open Segment objects of s, over all running processes.
Handles(s) == {h \in Pids \X (1..MaxHandles) : h[2] <= handles[h[1]][s]}

\* ADR-002: the count answers "has any process currently opened this segment?".
\* It is never below the number of open handles, so neither a close nor the
\* watchdog queues a segment that somebody has open and counted: not after a
\* crash, a reused pid, an unanswered script or a restart of the watchdog.
CountCoversHandles == \A s \in Segs : refcount[s] >= Cardinality(Handles(s))

\* schema:current names a counted segment that no drain is about to unlink, so
\* the rotation-safe DEL of the two scripts forgets no case.
CurrentIsKept ==
    current # 0 => /\ refcount[current] > 0
                   /\ current \in side
                   /\ current \notin queue \cup names

\* A reader of schema:current finds the segment in /dev/shm.
CurrentIsLinked == current # 0 => current \in shm

\* A segment some process has opened is not unlinked under it: later openers
\* attach to the segment its writer writes.  The code does not keep this: see the
\* README on open_current.
HeldIsLinked ==
    \A p \in Pids, s \in Segs : handles[p][s] > 0 => s \in shm

InUse(s) == \E p \in Pids : handles[p][s] > 0 \/ opSeg[p] = s

\* A linked segment that no count, queue or tick names any more: the watchdog
\* died, or its unlink raised, after the SPOP and before the unlink.
Forgotten(s) ==
    /\ s \in shm \ (side \cup queue \cup names)
    /\ budget["watchdog"] < Budget["watchdog"] \/ budget["unlink"] < Budget["unlink"]

\* A segment that is queued, or counted for holders that crashed, is unlinked in
\* the end unless somebody has it open and counted again, although the watchdog
\* dies and restarts or an unlink raises: only what a tick had popped when it ended
\* that way is forgotten.  Not so, and excluded by the run, after an exit without
\* close, after a pid is reused before the miss threshold, for a process with two
\* handles of one segment that closes one, and after a registry call or script that
\* was executed and raised.
OrphansReclaimed ==
    \A s \in Segs :
        s \in queue \/ (refcount[s] > 0 /\ ~InUse(s)) ~>
            s \notin shm \/ Forgotten(s) \/ (refcount[s] > 0 /\ InUse(s))

\* The recovery path that ADR-013 claims for the queue: what was queued is
\* unlinked in the end, also when the watchdog crashes in the middle of the unlinks.
QueuedIsUnlinked == \A s \in Segs : s \in queue ~> s \notin shm
================================================================================
