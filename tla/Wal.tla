---------------------------------- MODULE Wal ----------------------------------
(*****************************************************************************)
(* The write path of Quorin: the producer's XADD, the Redis stream with its  *)
(* consumer group, the consumer process (the run() coroutine and the flush   *)
(* task it spawns, scheduled on one asyncio loop) and the offline store's    *)
(* buffer.                                                                   *)
(*                                                                           *)
(* A message is its position in the stream, so message order is the order of *)
(* Redis ids.  What a message carries is abstracted to the entity it writes  *)
(* (EntityOf), to whether the consumer can apply it at all (Poison) and, if  *)
(* not, to whether _apply has inserted the row when it finds out (Halfway).  *)
(*                                                                           *)
(* One action is the code between two awaits that really suspend: the loop   *)
(* is not preemptive, offline.append and offline.flush never suspend, every  *)
(* Redis call does.  A crash may fall anywhere, also between two inserts.    *)
(*****************************************************************************)
EXTENDS Integers, Sequences, FiniteSets, Functions

CONSTANTS
    MaxMsgs,         \* bound: how many messages the producers write
    MaxLen,          \* MAXLEN of the producer's XADD
    BatchCount,      \* COUNT of every XREADGROUP
    MaxPendingAck,   \* soft size trigger of the flush task
    Entities,        \* entity ids
    EntityOf,        \* the entity each message writes
    Poison,          \* messages the consumer's _apply rejects
    Halfway,         \* those of them it rejects after the insert: their event time is no date
    Budget           \* bound: how often each fault or operator action happens

Msgs == 1..MaxMsgs

Faults == {"crash", "flush", "redis", "stop", "pause", "destroy"}

ASSUME ConstantsAssumption ==
    /\ MaxMsgs \in Nat
    /\ MaxLen \in Nat \ {0}
    /\ BatchCount \in Nat \ {0}
    /\ MaxPendingAck \in Nat \ {0}
    /\ EntityOf \in [Msgs -> Entities]
    /\ Poison \subseteq Msgs
    /\ Halfway \subseteq Poison
    /\ Budget \in [Faults -> Nat]

VARIABLES
    (* Redis *)
    last,        \* newest message in the stream
    trimmed,     \* messages up to this one were trimmed away by MAXLEN
    group,       \* does the consumer group exist?
    cursor,      \* the group's last-delivered message
    pel,         \* the group's pending entries list
    processed,   \* messages whose quorin:processed:{id} key was SET
    live,        \* is quorin:wal_consumer:liveness present?
    orch,        \* where the upgrade orchestrator is
    (* Shared memory and disk: what survives the consumer process *)
    online,      \* the message whose row each entity's slot holds (0: none)
    durable,     \* messages with a row in a renamed Parquet file
    (* The consumer process *)
    pc,          \* the point where the run() coroutine is suspended
    phase,       \* "drain" inside _drain_pel, "loop" after it
    lastId,      \* last_id of _drain_pel
    batch,       \* msgs: what the current batch has still to apply
    applied,     \* applied: ids of this batch applied so far
    pending,     \* _pending_ack
    mainSnap,    \* snapshot of a _flush_and_ack run by the coroutine
    buffered,    \* rows in ParquetDatasetStore._buffers
    stop,        \* _stop_event
    flushNow,    \* _flush_now
    task,        \* the flush task
    taskSnap,    \* snapshot of a _flush_and_ack run by the flush task
    (* Bound *)
    budget       \* faults and operator actions that may still happen

streamVars == <<last, trimmed, processed, live, orch>>
groupVars  == <<group, cursor, pel>>
storeVars  == <<online, durable>>
batchVars  == <<phase, lastId, batch, applied>>
ackVars    == <<pending, mainSnap, buffered>>
taskVars   == <<task, taskSnap, flushNow>>

vars == <<streamVars, groupVars, storeVars, batchVars, ackVars, taskVars,
          pc, stop, budget>>

Spend(f) ==
    /\ budget[f] > 0
    /\ budget' = [budget EXCEPT ![f] = @ - 1]

--------------------------------------------------------------------------------
(* Helpers *)

\* The k smallest messages of S: what an XREADGROUP with COUNT k returns of them.
Page(S, k) == {m \in S : Cardinality({x \in S : x < m}) < k}

IsOldest(m, S) == m \in S /\ \A x \in S : m <= x
IsNewest(m, S) == m \in S /\ \A x \in S : x <= m

\* Entries still in the stream after the group's cursor.
Undelivered == {m \in 1..last : m > cursor /\ m > trimmed}

\* XREADGROUP ">" delivering the messages of S: they become pending.
Deliver(S) ==
    /\ pel' = pel \cup S
    /\ \/ S = {} /\ cursor' = cursor
       \/ \E m \in S : IsNewest(m, S) /\ cursor' = m

\* del pending[:len(snapshot)]
TrimPrefix(s, snapshot) == SubSeq(s, Len(snapshot) + 1, Len(s))

\* XACK: acknowledging an id that is no longer pending is a no-op.
Xack(snapshot) == pel' = pel \ Range(snapshot)

\* The coroutine yields the loop at every pc but this one: _apply never suspends.
LoopFree == pc # "apply"

--------------------------------------------------------------------------------
(* ParquetDatasetStore.flush *)

\* Every bucket was renamed into place.
FlushOk ==
    /\ durable' = durable \cup buffered
    /\ buffered' = {}

\* Mutant: the buckets a failed flush did not write are dropped.
FlushRaisesDropsBuckets ==
    /\ Spend("flush")
    /\ \E written \in SUBSET buffered : durable' = durable \cup written
    /\ buffered' = {}

\* A write raised: the buckets already renamed stay on disk, the others are put
\* back in the buffer.
FlushRaises ==
    /\ Spend("flush")
    /\ \E written \in SUBSET buffered :
          /\ durable' = durable \cup written
          /\ buffered' = buffered \ written

\* Mutant: the XACK follows although the flush raised.
FlushPendingRegardless(acking) ==
    \/ ~acking /\ pending = <<>> /\ UNCHANGED <<buffered, durable, budget>>
    \/ acking /\ pending # <<>> /\ FlushRaises
    \/ acking /\ pending # <<>> /\ FlushOk /\ UNCHANGED budget

\* The first half of _flush_and_ack: with something pending, flush; an XACK
\* follows (acking) unless there was nothing to do or the flush raised.
FlushPending(acking) ==
    \/ ~acking /\ pending = <<>> /\ UNCHANGED <<buffered, durable, budget>>
    \/ ~acking /\ pending # <<>> /\ FlushRaises
    \/ acking /\ pending # <<>> /\ FlushOk /\ UNCHANGED budget

--------------------------------------------------------------------------------
(* Producer *)

\* WALProducer._do_write: XADD with MAXLEN ~, which may trim any prefix that
\* leaves at least MaxLen entries.
Write ==
    /\ last < MaxMsgs
    /\ last' = last + 1
    /\ \E t \in trimmed..last' :
          /\ t = trimmed \/ last' - t >= MaxLen
          /\ trimmed' = t
    /\ UNCHANGED <<processed, live, orch, groupVars, storeVars, batchVars,
                   ackVars, taskVars, pc, stop, budget>>

--------------------------------------------------------------------------------
(* Environment of the consumer: the upgrade orchestrator, the operator, TTLs *)

\* upgrade_schema reads XPENDING, then the liveness key, then sets the pause key.
\* It goes on when nothing is pending and also when XPENDING raises, which it
\* counts as nothing pending: so whatever is pending.
OrchestratorSeesNoPending ==
    /\ orch = "idle"
    /\ Spend("pause")
    /\ orch' = "drained"
    /\ UNCHANGED <<last, trimmed, processed, live, groupVars, storeVars,
                   batchVars, ackVars, taskVars, pc, stop>>

OrchestratorSeesNoConsumer ==
    /\ orch = "drained"
    /\ orch' = IF live THEN "idle" ELSE "ready"
    /\ UNCHANGED <<last, trimmed, processed, live, groupVars, storeVars,
                   batchVars, ackVars, taskVars, pc, stop, budget>>

OrchestratorSetsPause ==
    /\ orch = "ready"
    /\ orch' = "paused"
    /\ UNCHANGED <<last, trimmed, processed, live, groupVars, storeVars,
                   batchVars, ackVars, taskVars, pc, stop, budget>>

OrchestratorClearsPause ==
    /\ orch = "paused"
    /\ orch' = "idle"
    /\ UNCHANGED <<last, trimmed, processed, live, groupVars, storeVars,
                   batchVars, ackVars, taskVars, pc, stop, budget>>

\* XGROUP DESTROY by an operator: cursor and pending list go with the group.
DestroyGroup ==
    /\ group
    /\ Spend("destroy")
    /\ group' = FALSE
    /\ cursor' = 0
    /\ pel' = {}
    /\ UNCHANGED <<streamVars, storeVars, batchVars, ackVars, taskVars, pc, stop>>

\* The liveness key's 30 s TTL runs out: nobody refreshes it before run()'s
\* loop, in the back-pressure wait, or when the process is gone, and elsewhere
\* a refresh that raises is ignored.
LivenessExpires ==
    /\ live
    /\ live' = FALSE
    /\ UNCHANGED <<last, trimmed, processed, orch, groupVars, storeVars,
                   batchVars, ackVars, taskVars, pc, stop, budget>>

--------------------------------------------------------------------------------
(* WALConsumer.run: startup *)

\* run(): lock, _ensure_group, then the first read of _drain_pel.  The object may
\* be one whose earlier run() raised: its _pending_ack and its offline buffer
\* are still there.
Start ==
    /\ pc = "down"
    /\ group' = TRUE
    /\ pc' = "drain"
    /\ phase' = "drain"
    /\ lastId' = 0
    /\ UNCHANGED <<streamVars, cursor, pel, storeVars, batch, applied, ackVars,
                   taskVars, stop, budget>>

\* Mutant: every page is read from id 0.
DrainPageFromZero ==
    /\ pc = "drain" /\ group /\ ~stop
    /\ pel # {}
    /\ batch' = {m \in Page(pel, BatchCount) : m > trimmed}
    /\ pc' = "process"
    /\ UNCHANGED <<streamVars, groupVars, storeVars, phase, lastId, applied, ackVars,
                   taskVars, stop, budget>>

\* Mutant: the next page begins one id too late.
DrainPageSkips ==
    /\ pc = "drain" /\ group /\ ~stop
    /\ LET page == Page({m \in pel : m > lastId}, BatchCount)
       IN  /\ \E m \in page : IsNewest(m, page) /\ lastId' = m + 1
           /\ batch' = {m \in page : m > trimmed}
    /\ pc' = "process"
    /\ UNCHANGED <<streamVars, groupVars, storeVars, phase, applied, ackVars,
                   taskVars, stop, budget>>

\* XREADGROUP of a page of this consumer's own pending entries.  An entry the
\* stream has trimmed comes back without fields and is rejected by _apply.
DrainPage ==
    /\ pc = "drain" /\ group /\ ~stop
    /\ LET page == Page({m \in pel : m > lastId}, BatchCount)
       IN  /\ \E m \in page : IsNewest(m, page) /\ lastId' = m
           /\ batch' = {m \in page : m > trimmed}
    /\ pc' = "process"
    /\ UNCHANGED <<streamVars, groupVars, storeVars, phase, applied, ackVars,
                   taskVars, stop, budget>>

\* No entry is left (or stop() was called): the coroutine sets the liveness key,
\* spawns the flush task and enters its loop.
DrainEnds ==
    /\ pc = "drain"
    /\ stop \/ (group /\ {m \in pel : m > lastId} = {})
    /\ \/ live' = TRUE /\ UNCHANGED budget
       \/ Spend("redis") /\ UNCHANGED live    \* a failed SET is ignored
    /\ task' = "wait"
    /\ phase' = "loop"
    /\ pc' = "read"
    /\ UNCHANGED <<last, trimmed, processed, orch, groupVars, storeVars, lastId,
                   batch, applied, ackVars, taskSnap, flushNow, stop>>

\* NOGROUP (or a lost connection) is not caught in _drain_pel: run() raises,
\* only the lock is released.
DrainRaises ==
    /\ pc = "drain" /\ ~stop
    /\ \/ ~group /\ UNCHANGED budget
       \/ group /\ Spend("redis")
    /\ pc' = "down"
    /\ UNCHANGED <<streamVars, groupVars, storeVars, batchVars, ackVars,
                   taskVars, stop>>

--------------------------------------------------------------------------------
(* WALConsumer._run_one_iter *)

\* _read_new_batch: XREADGROUP ">".
ReadNewBatch ==
    /\ pc = "read" /\ ~stop /\ group
    /\ batch' = Page(Undelivered, BatchCount)
    /\ Deliver(batch')
    /\ pc' = "check"
    /\ UNCHANGED <<streamVars, group, storeVars, phase, lastId, applied, ackVars,
                   taskVars, stop, budget>>

\* NOGROUP: the group is created again from id 0, the batch is empty.
ReadFindsNoGroup ==
    /\ pc = "read" /\ ~stop /\ ~group
    /\ group' = TRUE
    /\ batch' = {}
    /\ pc' = "check"
    /\ UNCHANGED <<streamVars, cursor, pel, storeVars, phase, lastId, applied,
                   ackVars, taskVars, stop, budget>>

\* The connection breaks during XREADGROUP; the server may have delivered.
ReadRaises ==
    /\ pc = "read" /\ ~stop /\ group
    /\ Spend("redis")
    /\ \E got \in {{}, Page(Undelivered, BatchCount)} : Deliver(got)
    /\ pc' = "cancel"
    /\ UNCHANGED <<streamVars, group, storeVars, batchVars, ackVars, taskVars, stop>>

\* MGET finds no pause key; the liveness key may be due for its refresh.
NotPaused ==
    /\ pc = "check" /\ orch # "paused"
    /\ live' \in {live, TRUE}
    /\ pc' = IF batch = {} THEN "read" ELSE "process"
    /\ UNCHANGED <<last, trimmed, processed, orch, groupVars, storeVars,
                   batchVars, ackVars, taskVars, stop, budget>>

\* MGET finds a pause key: _flush_and_ack what is pending, then park.  The batch
\* in hand is forgotten: _run_one_iter returns without processing it.
Paused ==
    /\ pc = "check" /\ orch = "paused"
    /\ batch' = {}
    /\ \E acking \in BOOLEAN :
          /\ FlushPending(acking)
          /\ mainSnap' = IF acking THEN pending ELSE <<>>
          /\ pc' = IF acking THEN "pauseack" ELSE "park"
    /\ UNCHANGED <<streamVars, groupVars, online, phase, lastId, applied, pending,
                   taskVars, stop>>

PauseAck ==
    /\ pc = "pauseack"
    /\ Xack(mainSnap)
    /\ pending' = TrimPrefix(pending, mainSnap)
    /\ mainSnap' = <<>>
    /\ pc' = "park"
    /\ UNCHANGED <<streamVars, group, cursor, storeVars, batchVars,
                   buffered, taskVars, stop, budget>>

\* Polling the pause key once a second, keeping the liveness key fresh.
Park ==
    /\ pc = "park" /\ orch = "paused" /\ ~stop
    /\ live' = TRUE
    /\ UNCHANGED <<last, trimmed, processed, orch, groupVars, storeVars,
                   batchVars, ackVars, taskVars, pc, stop, budget>>

\* The pause cleared: reopen the segments.  open_current may find a segment of
\* another schema version, or none: the consumer then stops itself.
Reopen ==
    /\ pc = "park"
    /\ orch # "paused" \/ stop
    /\ stop' \in {stop, TRUE}
    /\ pc' = "read"
    /\ UNCHANGED <<streamVars, groupVars, storeVars, batchVars, ackVars, taskVars,
                   budget>>

\* MGET raises, before or during the park: the exception leaves run()'s loop.
PauseCheckRaises ==
    /\ pc \in {"check", "park"}
    /\ Spend("redis")
    /\ batch' = {}
    /\ pc' = "cancel"
    /\ UNCHANGED <<streamVars, groupVars, storeVars, phase, lastId, applied,
                   ackVars, taskVars, stop>>

--------------------------------------------------------------------------------
(* WALConsumer._process_batch and _apply *)

\* Mutant: no back-pressure ceiling.
EnterBatchUnbounded ==
    /\ pc = "process"
    /\ applied' = <<>>
    /\ pc' = "apply"
    /\ UNCHANGED <<streamVars, groupVars, storeVars, phase, lastId, batch, ackVars,
                   taskVars, stop, budget>>

\* The back-pressure wait ends.
EnterBatch ==
    /\ pc = "process"
    /\ Len(pending) < 2 * MaxPendingAck \/ stop
    /\ applied' = <<>>
    /\ pc' = "apply"
    /\ UNCHANGED <<streamVars, groupVars, storeVars, phase, lastId, batch, ackVars,
                   taskVars, stop, budget>>

\* Mutant: the batch is applied newest first.
ApplyNewestFirst(m) ==
    /\ pc = "apply"
    /\ IsNewest(m, batch)
    /\ batch' = batch \ {m}
    /\ online' = IF m \in Poison \ Halfway THEN online
                                          ELSE [online EXCEPT ![EntityOf[m]] = m]
    /\ IF m \in Poison THEN UNCHANGED <<buffered, applied>>
                       ELSE /\ buffered' = buffered \cup {m}
                            /\ applied' = Append(applied, m)
    /\ UNCHANGED <<streamVars, groupVars, durable, phase, lastId, pending, mainSnap,
                   taskVars, pc, stop, budget>>

\* _apply of one message: layout.insert, then int(event_time) and offline.append.
\* A message rejected by the last two stays pending although its row is visible.
Apply(m) ==
    /\ pc = "apply"
    /\ IsOldest(m, batch)
    /\ batch' = batch \ {m}
    /\ online' = IF m \in Poison \ Halfway THEN online
                                          ELSE [online EXCEPT ![EntityOf[m]] = m]
    /\ IF m \in Poison THEN UNCHANGED <<buffered, applied>>
                       ELSE /\ buffered' = buffered \cup {m}
                            /\ applied' = Append(applied, m)
    /\ UNCHANGED <<streamVars, groupVars, durable, phase, lastId, pending, mainSnap,
                   taskVars, pc, stop, budget>>

NextRead == IF phase = "drain" THEN "drain" ELSE "read"

ApplyEnds ==
    /\ pc = "apply" /\ batch = {}
    /\ pc' = IF applied = <<>> THEN NextRead ELSE "signal"
    /\ UNCHANGED <<streamVars, groupVars, storeVars, batchVars, ackVars, taskVars,
                   stop, budget>>

\* pipe.execute(): the processed keys are SET, the ids join _pending_ack and the
\* flush task is signalled at the soft limit.
Signal ==
    /\ pc = "signal"
    /\ processed' = processed \cup Range(applied)
    /\ pending' = pending \o applied
    /\ flushNow' = (flushNow \/ Len(pending') >= MaxPendingAck)
    /\ applied' = <<>>
    /\ pc' = NextRead
    /\ UNCHANGED <<last, trimmed, live, orch, groupVars, storeVars, phase, lastId,
                   batch, mainSnap, buffered, task, taskSnap, stop, budget>>

\* The pipeline breaks after any prefix of its SETs; nothing joins _pending_ack.
SignalRaises ==
    /\ pc = "signal"
    /\ Spend("redis")
    /\ \E k \in 0..Len(applied) :
          processed' = processed \cup Range(SubSeq(applied, 1, k))
    /\ applied' = <<>>
    /\ pc' = IF phase = "drain" THEN "down" ELSE "cancel"
    /\ UNCHANGED <<last, trimmed, live, orch, groupVars, storeVars, phase, lastId,
                   batch, ackVars, taskVars, stop>>

--------------------------------------------------------------------------------
(* WALConsumer._flush_loop and its _flush_and_ack *)

\* The timer, _flush_now or stop() wakes the task.  In the finally of its wait
\* it cancels its two helper tasks and awaits them, suppressing CancelledError.
TaskWakes ==
    /\ task = "wait" /\ LoopFree
    /\ task' = "settle"
    /\ UNCHANGED <<streamVars, groupVars, storeVars, batchVars, ackVars, taskSnap,
                   flushNow, pc, stop, budget>>

\* It clears _flush_now and renews the lock (errors are suppressed).
TaskRenews ==
    /\ task = "settle" /\ ~stop /\ LoopFree
    /\ flushNow' = FALSE
    /\ task' = "renew"
    /\ UNCHANGED <<streamVars, groupVars, storeVars, batchVars, ackVars, taskSnap,
                   pc, stop, budget>>

TaskStops ==
    /\ task = "settle" /\ stop /\ LoopFree
    /\ task' = "ended"
    /\ UNCHANGED <<streamVars, groupVars, storeVars, batchVars, ackVars, taskSnap,
                   flushNow, pc, stop, budget>>

\* Mutant: an exception of offline.flush() ends the flush task.
TaskFlushesOrDies ==
    /\ task = "renew" /\ LoopFree
    /\ \E acking \in BOOLEAN :
          /\ FlushPending(acking)
          /\ taskSnap' = IF acking THEN pending ELSE <<>>
          /\ task' = IF acking THEN "ack" ELSE IF pending = <<>> THEN "wait" ELSE "failed"
    /\ UNCHANGED <<streamVars, groupVars, online, batchVars, pending, mainSnap,
                   flushNow, pc, stop>>

\* _flush_and_ack up to its XACK.
TaskFlushes ==
    /\ task = "renew" /\ LoopFree
    /\ \E acking \in BOOLEAN :
          /\ FlushPending(acking)
          /\ taskSnap' = IF acking THEN pending ELSE <<>>
          /\ task' = IF acking THEN "ack" ELSE "wait"
    /\ UNCHANGED <<streamVars, groupVars, online, batchVars, pending, mainSnap,
                   flushNow, pc, stop>>

\* Mutant: pending_ack is cleared instead of trimmed.
TaskAcksAndClears ==
    /\ task = "ack" /\ LoopFree
    /\ Xack(taskSnap)
    /\ pending' = <<>>
    /\ taskSnap' = <<>>
    /\ task' = "wait"
    /\ UNCHANGED <<streamVars, group, cursor, storeVars, batchVars, mainSnap,
                   buffered, flushNow, pc, stop, budget>>

\* XACK of the snapshot, then del pending[:len(snapshot)].
TaskAcks ==
    /\ task = "ack" /\ LoopFree
    /\ Xack(taskSnap)
    /\ pending' = TrimPrefix(pending, taskSnap)
    /\ taskSnap' = <<>>
    /\ task' = "wait"
    /\ UNCHANGED <<streamVars, group, cursor, storeVars, batchVars, mainSnap,
                   buffered, flushNow, pc, stop, budget>>

\* XACK raises in the flush task: the task ends with an exception that nobody
\* looks at before run()'s finally.
TaskAckRaises ==
    /\ task = "ack" /\ LoopFree
    /\ Spend("redis")
    /\ Xack(taskSnap) \/ UNCHANGED pel
    /\ taskSnap' = <<>>
    /\ task' = "failed"
    /\ UNCHANGED <<streamVars, group, cursor, storeVars, batchVars, ackVars,
                   flushNow, pc, stop>>

--------------------------------------------------------------------------------
(* WALConsumer.run: the finally blocks *)

StopSeen ==
    /\ pc = "read" /\ stop
    /\ pc' = "cancel"
    /\ UNCHANGED <<streamVars, groupVars, storeVars, batchVars, ackVars, taskVars,
                   stop, budget>>

\* flush_task.cancel() while the task awaits its helpers: the CancelledError is
\* suppressed there, the task goes on and the coroutine waits for its end.
CancelIsSwallowed ==
    /\ pc = "cancel" /\ task = "settle"
    /\ pc' = "join"
    /\ UNCHANGED <<streamVars, groupVars, storeVars, batchVars, ackVars, taskVars,
                   stop, budget>>

\* The exception of a failed task comes out of the await: the final flush,
\* offline.close() and the liveness DEL are skipped.
CancelReraises ==
    /\ pc \in {"cancel", "join"} /\ task = "failed"
    /\ task' = "none"
    /\ pc' = "down"
    /\ UNCHANGED <<streamVars, groupVars, storeVars, batchVars, ackVars, taskSnap,
                   flushNow, stop, budget>>

\* The task is cancelled, an XACK it had sent may have been executed (or it had
\* ended by itself); then _final_flush_and_ack up to its XACK.
CancelAndFlush ==
    /\ \/ pc = "cancel" /\ task \notin {"settle", "failed"}
       \/ pc = "join" /\ task = "ended"
    /\ \/ task = "ack" /\ Xack(taskSnap)
       \/ UNCHANGED pel
    /\ task' = "none"
    /\ taskSnap' = <<>>
    /\ \E acking \in BOOLEAN :
          /\ FlushPending(acking)
          /\ mainSnap' = IF acking THEN pending ELSE <<>>
          /\ pc' = IF acking THEN "finalack" ELSE "close"
    /\ UNCHANGED <<streamVars, group, cursor, online, batchVars, pending,
                   flushNow, stop>>

FinalAck ==
    /\ pc = "finalack"
    /\ Xack(mainSnap)
    /\ pending' = TrimPrefix(pending, mainSnap)
    /\ mainSnap' = <<>>
    /\ pc' = "close"
    /\ UNCHANGED <<streamVars, group, cursor, storeVars, batchVars,
                   buffered, taskVars, stop, budget>>

\* XACK raises in the coroutine: out of run()'s loop from the pause path, logged
\* and swallowed by _final_flush_and_ack.
XackRaises ==
    /\ pc \in {"pauseack", "finalack"}
    /\ Spend("redis")
    /\ Xack(mainSnap) \/ UNCHANGED pel
    /\ mainSnap' = <<>>
    /\ pc' = IF pc = "pauseack" THEN "cancel" ELSE "close"
    /\ UNCHANGED <<streamVars, group, cursor, storeVars, batchVars, pending,
                   buffered, taskVars, stop>>

\* offline.close() flushes what is left; if that raises the liveness key stays.
Close ==
    /\ pc = "close"
    /\ \/ FlushOk /\ live' = FALSE /\ UNCHANGED budget
       \/ FlushOk /\ Spend("redis") /\ UNCHANGED live    \* DEL suppressed
       \/ FlushRaises /\ UNCHANGED live
    /\ pc' = "down"
    /\ UNCHANGED <<last, trimmed, processed, orch, groupVars, online, batchVars,
                   pending, mainSnap, taskVars, stop>>

--------------------------------------------------------------------------------
(* stop(), process exit and crash *)

Stop ==
    /\ pc # "down" /\ ~stop
    /\ Spend("stop")
    /\ stop' = TRUE
    /\ UNCHANGED <<streamVars, groupVars, storeVars, batchVars, ackVars, taskVars, pc>>

\* What dies with the process: a new one starts with a fresh WALConsumer and a
\* fresh ParquetDatasetStore.
LoseProcess ==
    /\ pc' = "down"
    /\ phase' = "drain"
    /\ lastId' = 0
    /\ batch' = {}
    /\ applied' = <<>>
    /\ pending' = <<>>
    /\ mainSnap' = <<>>
    /\ buffered' = {}
    /\ task' = "none"
    /\ taskSnap' = <<>>
    /\ flushNow' = FALSE
    /\ stop' = FALSE

Crash ==
    /\ pc # "down"
    /\ Spend("crash")
    /\ LoseProcess
    /\ UNCHANGED <<streamVars, groupVars, storeVars>>

\* run() returned or raised and the supervisor replaces the process instead of
\* calling run() again.
Exit ==
    /\ pc = "down"
    /\ LoseProcess
    /\ UNCHANGED <<streamVars, groupVars, storeVars, budget>>

--------------------------------------------------------------------------------
Init ==
    /\ last = 0 /\ trimmed = 0
    /\ group = FALSE /\ cursor = 0 /\ pel = {}
    /\ processed = {}
    /\ live = FALSE
    /\ orch = "idle"
    /\ online = [e \in Entities |-> 0]
    /\ durable = {}
    /\ pc = "down" /\ phase = "drain"
    /\ lastId = 0
    /\ batch = {} /\ applied = <<>>
    /\ pending = <<>> /\ mainSnap = <<>>
    /\ buffered = {}
    /\ stop = FALSE /\ flushNow = FALSE
    /\ task = "none" /\ taskSnap = <<>>
    /\ budget = Budget

\* The steps the coroutine takes while Redis answers.
Coroutine ==
    \/ Start \/ DrainPage \/ DrainEnds
    \/ ReadNewBatch \/ ReadFindsNoGroup \/ NotPaused
    \/ Paused \/ PauseAck \/ Park \/ Reopen
    \/ EnterBatch \/ ApplyEnds \/ Signal
    \/ \E m \in Msgs : Apply(m)
    \/ StopSeen \/ CancelIsSwallowed \/ CancelReraises \/ CancelAndFlush
    \/ FinalAck \/ Close

FlushTask == TaskWakes \/ TaskRenews \/ TaskStops \/ TaskFlushes \/ TaskAcks

RedisErrors ==
    DrainRaises \/ ReadRaises \/ PauseCheckRaises \/ SignalRaises
    \/ TaskAckRaises \/ XackRaises

Orchestrator ==
    OrchestratorSeesNoPending \/ OrchestratorSeesNoConsumer
    \/ OrchestratorSetsPause \/ OrchestratorClearsPause

Next ==
    \/ Write
    \/ Coroutine
    \/ FlushTask
    \/ RedisErrors
    \/ Orchestrator
    \/ DestroyGroup
    \/ LivenessExpires
    \/ Stop \/ Crash \/ Exit

Spec == Init /\ [][Next]_vars

\* The event loop keeps running both coroutines, the supervisor calls run()
\* again after it raised or the process died, and the orchestrator's finally
\* block clears the pause key (whose TTL would anyway).
Fairness ==
    /\ WF_vars(Coroutine)
    /\ WF_vars(FlushTask)
    /\ WF_vars(OrchestratorClearsPause)

FairSpec == Spec /\ Fairness

--------------------------------------------------------------------------------
(* Properties *)

Points == {"down", "drain", "read", "check", "pauseack", "park", "process",
           "apply", "signal", "cancel", "join", "finalack", "close"}

TypeRedis ==
    /\ last \in 0..MaxMsgs
    /\ trimmed \in 0..last
    /\ cursor \in 0..last
    /\ pel \subseteq 1..last
    /\ processed \subseteq 1..last
    /\ orch \in {"idle", "drained", "ready", "paused"}

TypeStores ==
    /\ online \in [Entities -> 0..last]
    /\ durable \subseteq 1..last
    /\ buffered \subseteq 1..last

TypeCoroutine ==
    /\ pc \in Points
    /\ phase \in {"drain", "loop"}
    /\ lastId \in 0..last
    /\ batch \subseteq 1..last
    /\ applied \in Seq(1..last)
    /\ mainSnap \in Seq(1..last)

TypeFlushTask ==
    /\ task \in {"none", "wait", "settle", "renew", "ack", "ended", "failed"}
    /\ pending \in Seq(1..last)
    /\ taskSnap \in Seq(1..last)

TypeFlags ==
    /\ group \in BOOLEAN
    /\ live \in BOOLEAN
    /\ stop \in BOOLEAN
    /\ flushNow \in BOOLEAN

\* Every variable keeps its type; the queues, snapshots and stores of the
\* consumer hold messages that were written, and no counter passes the newest.
TypeOK ==
    /\ TypeRedis
    /\ TypeStores
    /\ TypeCoroutine
    /\ TypeFlushTask
    /\ TypeFlags
    /\ budget \in [Faults -> Nat]

\* ADR-009 section 3, the deferred XACK: a message that left the group's pending
\* list is on disk.  So every message of the stream is still to be delivered,
\* or pending (the next _drain_pel replays it), or in a Parquet file, whatever
\* crashed, raised or was cancelled in between; only MAXLEN may drop it.
NothingLost ==
    \A m \in 1..last :
        m > cursor \/ m <= trimmed \/ m \in pel \/ m \in durable

\* The stream as its writers see it: what is still to be delivered or replayed.
Log == INSTANCE DurableLog WITH
           written <- last,
           dropped <- trimmed,
           owed <- Undelivered \cup pel,
           kept <- durable

\* Producer, group, consumer and flush task implement the durable log: a delivery, a
\* crash, a replay, a pause, a cancelled or failed flush change nothing of what is owed
\* and kept, and an XACK, also one whose reply was lost, forgets only what an earlier
\* step has put on disk.
ImplementsDurableLog == Log!Spec

\* The hard ceiling of _process_batch bounds _pending_ack: a batch enters below
\* 2 * max_pending_ack, and one more enters when stop() ends the wait.
PendingBounded == Len(pending) < 2 * MaxPendingAck + 2 * BatchCount

Unused(f) == budget[f] = Budget[f]

\* An entity shows no older row than m's, but for one that _apply had inserted
\* before it rejected the message.
Visible(m) == online[EntityOf[m]] >= m \/ online[EntityOf[m]] \in Halfway

\* Nobody called stop(), paused the consumer or destroyed the group.
Calm == Unused("stop") /\ Unused("pause") /\ Unused("destroy")

\* Read-your-own-writes, what write_sync promises when it returns: once the
\* consumer is back in its read loop, no entity shows a row older than a write
\* whose processed key was set, although _drain_pel replays old messages; the
\* exception is the row of a message rejected halfway, which is never
\* acknowledged and so comes back with every drain.  What
\* breaks it is excluded: a pause (the dropped batch is replayed late), a stop()
\* in the middle of a second run()'s drain, a destroyed group (the whole stream is
\* delivered again) and, by the sizes of the run, a MAXLEN that trims an entry
\* that is still pending.
ReadYourWrites == pc = "read" /\ Calm => \A m \in processed : Visible(m)

\* The contract of write_sync as its docstring states it, without the exception:
\* under the same conditions a confirmed write is never hidden by an older row.
ConfirmedStaysVisible ==
    pc = "read" /\ Calm => \A m \in processed : online[EntityOf[m]] >= m

\* What del pending[:len(snapshot)] may remove: only ids that the XACK has taken
\* out of the pending list.  An id dropped without it would stay pending until
\* the next restart.
TrimsOnlyAcked ==
    [][pc' # "down" => (Range(pending) \ Range(pending')) \cap pel' = {}]_vars

\* The back-pressure wait of a drain: the flush task that would end it is started
\* after the drain.
DrainAtCeiling ==
    phase = "drain" /\ pc = "process" /\ Len(pending) >= 2 * MaxPendingAck

\* Every message the consumer can apply reaches the offline store, and leaves
\* the pending list, in spite of crashes and failed flushes, as long as nobody
\* calls stop(), no Redis error has killed the flush task for good and no drain
\* has met its own ceiling.
EventuallyDurable ==
    \A m \in Msgs \ Poison :
        m <= last ~> \/ m \in durable /\ m <= cursor /\ m \notin pel
                     \/ ~Unused("redis") \/ stop \/ DrainAtCeiling

\* A restarted consumer gets through its pending list and serves new messages,
\* unless the list is longer than the back-pressure ceiling or the ids of an
\* earlier run() are still in _pending_ack: then it waits where nobody flushes.
DrainEndsEventually == pc = "drain" ~> pc \in {"read", "down"} \/ DrainAtCeiling

\* What the module's docstring says of every restart: re-running drains the
\* unfinished work.
RestartDrains == pc = "drain" ~> pc \in {"read", "down"}

================================================================================
