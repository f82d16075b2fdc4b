------------------------------- MODULE Evolution -------------------------------
(*****************************************************************************)
(* Replacing the segment that schema:current names: upgrade_schema (copy to  *)
(* a new segment, compare-and-set of the pointer), hydrate (rebuild from the *)
(* offline store) and the WAL consumer that writes to the segment meanwhile. *)
(* What keeps them apart are four Redis keys: the upgrade lock, the pause    *)
(* key, the consumer's liveness key and the group's pending list.            *)
(*                                                                           *)
(* The registry's create, open_current and close are single steps here, and  *)
(* so is the way from a count of zero to the unlink: Segments has their      *)
(* finer steps.  The consumer is Wal's, reduced to what it writes, confirms  *)
(* and acknowledges.  The rows of a segment are the set of the messages it   *)
(* reflects.                                                                 *)
(*                                                                           *)
(* An upgrader or a hydrator is one call in one process; another call is     *)
(* another member of the set.                                                *)
(*****************************************************************************)
EXTENDS Integers, FiniteSets

CONSTANTS
    Upgraders,   \* calls of upgrade_schema
    Hydrators,   \* calls of hydrate
    None,        \* no process
    MaxMsgs,     \* bound: messages the producers write
    MaxSegs,     \* bound: segments ever created
    Runbook,     \* do operators follow the order of ADR-014 (see MayStart)?
    Faults,      \* the faults and operator actions that may happen
    Budget       \* bound: how many of them happen in all

Msgs == 1..MaxMsgs
Segs == 1..MaxSegs

ASSUME ConstantsAssumption ==
    /\ MaxMsgs \in Nat
    /\ MaxSegs \in Nat \ {0}
    /\ Runbook \in BOOLEAN
    /\ Faults \subseteq {"raise", "kill", "reply", "orphan", "drop", "lockttl", "pausettl",
                      "livettl", "crash"}
    /\ Budget \in Nat
    /\ IsFiniteSet(Upgraders)
    /\ None \notin Upgraders
    /\ Upgraders \cap Hydrators = {}
    /\ {"server", "consumer", "gone"} \cap (Upgraders \cup Hydrators) = {}

\* Who may hold a reference to a segment; "gone" stands for the processes that
\* returned from their call, exited or were killed without closing it.
Holders == Upgraders \cup Hydrators \cup {"server", "consumer", "gone"}

VARIABLES
    (* Redis *)
    current,     \* schema:current (0: no such key)
    refs,        \* the holders behind each segment's reference count
    lock,        \* the upgrader whose token is in the upgrade lock
    pause,       \* the upgrader whose token is in the pause key
    live,        \* is quorin:wal_consumer:liveness present?
    last,        \* newest message in the stream
    cursor,      \* the group's last-delivered message
    pel,         \* the group's pending entries list
    (* Shared memory and disk *)
    linked,      \* segments that have a name in /dev/shm
    lastSeg,     \* segments created so far
    ver,         \* the schema version in each segment's header
    rows,        \* the messages each segment reflects
    stored,      \* the messages in the offline store
    (* upgrade_schema *)
    upc,         \* where each call is
    old,         \* old_seg
    new,         \* new_seg
    counted,     \* the rows behind occupied_count
    (* hydrate *)
    hpc,         \* where each call is
    latest,      \* the rows latest_features returned
    hseg,        \* segment
    (* The consumer *)
    cpc,         \* where run() is
    cseg,        \* _segments
    batch,       \* messages read and still to apply
    done,        \* _pending_ack
    (* Bound *)
    budget       \* faults that may still happen

segVars  == <<current, refs, linked, lastSeg, ver, rows>>
keyVars  == <<lock, pause>>
walVars  == <<last, cursor, pel, stored, live>>
upVars   == <<upc, old, new, counted>>
hydVars  == <<hpc, latest, hseg>>
conVars  == <<cpc, cseg, batch, done>>

vars == <<segVars, keyVars, walVars, upVars, hydVars, conVars, budget>>

Spend(f) ==
    /\ f \in Faults
    /\ budget > 0
    /\ budget' = budget - 1

Go(o, to) == upc' = [upc EXCEPT ![o] = to]

--------------------------------------------------------------------------------
(* SegmentRegistry, one step per call *)

\* p drops its references to the segments of S: at zero the segment is queued
\* and unlinked, and a pointer that names it is deleted.
DropRef(p, S) ==
    LET dropped == {s \in S : refs[s] = {p}}
    IN  /\ refs' = [s \in Segs |-> IF s \in S THEN refs[s] \ {p} ELSE refs[s]]
        /\ linked' = linked \ dropped
        /\ current' = IF current \in dropped THEN 0 ELSE current

\* Mutant: the segment is counted but not added to the set of its pid.
CreateUnregistered(p, v, setCurrent) ==
    /\ lastSeg < MaxSegs
    /\ lastSeg' = lastSeg + 1
    /\ linked' = linked \cup {lastSeg'}
    /\ refs' = [refs EXCEPT ![lastSeg'] = {"server"}]
    /\ ver' = [ver EXCEPT ![lastSeg'] = v]
    /\ current' = IF setCurrent THEN lastSeg' ELSE current

\* create: a new segment of version v, held by p, and the new pointer when
\* set_current is true.
CreateSegment(p, v, setCurrent) ==
    /\ lastSeg < MaxSegs
    /\ lastSeg' = lastSeg + 1
    /\ linked' = linked \cup {lastSeg'}
    /\ refs' = [refs EXCEPT ![lastSeg'] = {p}]
    /\ ver' = [ver EXCEPT ![lastSeg'] = v]
    /\ current' = IF setCurrent THEN lastSeg' ELSE current

\* p is through, or dead, and has closed nothing.
LeaveRefs(p) ==
    refs' = [s \in Segs |-> IF p \in refs[s] THEN (refs[s] \ {p}) \cup {"gone"} ELSE refs[s]]

\* open_current finds a pointer and maps the segment it names.
CanOpen == current \in linked

OpenSegment(p) == refs' = [refs EXCEPT ![current] = @ \cup {p}]

--------------------------------------------------------------------------------
(* Which calls operators make when: the runbook of ADR-014 *)

Active(o) == upc[o] \notin {"idle", "done"}

\* Before the flip the segment may be being copied.
Copying(o) == upc[o] \in {"locked", "drained", "quiet", "paused", "opened",
                          "created", "copied", "cleanup"}

Hydrating(h) == hpc[h] \notin {"idle", "partial", "done"}

\* A hydration is under way, or one that broke off has left the pointer on its
\* part-filled segment: the operator waits until the watchdog has removed that.
Unfinished(h) == Hydrating(h) \/ (hpc[h] = "partial" /\ hseg[h] = current)

\* The consumer is stopped before an upgrade or a hydration; one that still
\* runs, past its drain, shows in the liveness key.
ConsumerShows == cpc \in {"down", "exit"} \/ (live /\ cpc # "drain")

\* The consumer is started when no hydration is unfinished and no upgrade will
\* copy, or is copying, the current segment.  A call that was overtaken by another upgrade
\* or by a hydration may still be under way.
MayStart ==
    Runbook => /\ \A o \in Upgraders : Copying(o) => old[o] \notin {0, current}
               /\ \A h \in Hydrators : ~Unfinished(h)

MayUpgrade ==
    Runbook => ConsumerShows /\ \A h \in Hydrators : ~Unfinished(h)

\* A hydration may overlap an upgrade that has opened its segment already.
MayHydrate(h) ==
    Runbook =>
        /\ ConsumerShows
        /\ \A g \in Hydrators \ {h} : ~Hydrating(g)
        /\ \A o \in Upgraders : upc[o] \notin {"locked", "drained", "quiet", "paused"}

--------------------------------------------------------------------------------
(* upgrade_schema *)

\* 1. SET NX of the lock with a token; a call that finds it held raises.
Acquire(o) ==
    /\ upc[o] = "idle"
    /\ MayUpgrade
    /\ lock' = IF lock = None THEN o ELSE lock
    /\ Go(o, IF lock = None THEN "locked" ELSE "done")
    /\ UNCHANGED <<segVars, pause, walVars, old, new, counted, hydVars, conVars, budget>>

\* RELEASE_LOCK_LUA: only the owner's token deletes the key.
ReleaseIfOwned(o) == lock' = IF lock = o THEN None ELSE lock

\* 1b. XPENDING: anything pending ends the call.  An error of Redis counts as
\* nothing pending.
CheckPending(o) ==
    /\ upc[o] = "locked"
    /\ \/ pel = {} /\ Go(o, "drained") /\ UNCHANGED <<lock, budget>>
       \/ pel # {} /\ Go(o, "done") /\ ReleaseIfOwned(o) /\ UNCHANGED budget
       \/ pel # {} /\ Go(o, "drained") /\ Spend("raise") /\ UNCHANGED lock
    /\ UNCHANGED <<segVars, pause, walVars, old, new, counted, hydVars, conVars>>

\* Mutant: a liveness key does not stop the upgrade.
CheckLivenessIgnored(o) ==
    /\ upc[o] = "drained"
    /\ Go(o, "quiet")
    /\ UNCHANGED <<segVars, keyVars, walVars, old, new, counted, hydVars, conVars, budget>>

\* The liveness key of a running consumer ends the call.
CheckLiveness(o) ==
    /\ upc[o] = "drained"
    /\ IF live
       THEN Go(o, "done") /\ ReleaseIfOwned(o)
       ELSE Go(o, "quiet") /\ UNCHANGED lock
    /\ UNCHANGED <<segVars, pause, walVars, old, new, counted, hydVars, conVars, budget>>

\* That GET raises outside of the try block: the lock is left to its TTL.
CheckLivenessRaises(o) ==
    /\ upc[o] = "drained"
    /\ Spend("raise")
    /\ Go(o, "done")
    /\ UNCHANGED <<segVars, keyVars, walVars, old, new, counted, hydVars, conVars>>

\* 2. The pause key.
SetPause(o) ==
    /\ upc[o] = "quiet"
    /\ pause' = o
    /\ Go(o, "paused")
    /\ UNCHANGED <<segVars, lock, walVars, old, new, counted, hydVars, conVars, budget>>

\* 3. open_current(old_schema).  The call fails when there is no segment, or
\* when it is not of the version the caller passed.
OpenOld(o) ==
    /\ upc[o] = "paused"
    /\ \/ /\ CanOpen
          /\ OpenSegment(o)
          /\ old' = [old EXCEPT ![o] = current]
          /\ Go(o, "opened")
       \/ Go(o, "finally") /\ UNCHANGED <<refs, old>>
    /\ UNCHANGED <<current, linked, lastSeg, ver, rows, keyVars, walVars, new,
                   counted, hydVars, conVars, budget>>

\* 3.-5. The pointer must still name the old segment; its rows are counted and
\* the new segment is created beside it.
CreateNew(o) ==
    /\ upc[o] = "opened"
    /\ \/ /\ current = old[o]
          /\ CreateSegment(o, ver[old[o]] + 1, FALSE)
          /\ new' = [new EXCEPT ![o] = lastSeg']
          /\ counted' = [counted EXCEPT ![o] = rows[old[o]]]
          /\ Go(o, "created")
       \/ /\ current # old[o]
          /\ Go(o, "finally")
          /\ UNCHANGED <<current, linked, lastSeg, refs, ver, new, counted>>
    /\ UNCHANGED <<rows, keyVars, walVars, old, hydVars, conVars, budget>>

\* 6. Translate and insert_many.  Rows that came since the count make the
\* numbers differ, unless they only overwrote others.
Copy(o) ==
    /\ upc[o] = "created"
    /\ \/ /\ rows' = [rows EXCEPT ![new[o]] = rows[old[o]]]
          /\ Go(o, "copied")
       \/ /\ rows[old[o]] # counted[o]
          /\ Go(o, "cleanup")
          /\ UNCHANGED rows
    /\ counted' = [counted EXCEPT ![o] = {}]
    /\ UNCHANGED <<current, refs, linked, lastSeg, ver, keyVars, walVars, old, new,
                   hydVars, conVars, budget>>

\* Mutant: the pointer is SET without comparing it.
FlipUnconditional(o) ==
    /\ upc[o] = "copied"
    /\ current' = new[o]
    /\ Go(o, "flipped")
    /\ UNCHANGED <<refs, linked, lastSeg, ver, rows, keyVars, walVars, old, new,
                   counted, hydVars, conVars, budget>>

\* 7. FLIP_SCHEMA_CURRENT_LUA: compare and set; anything else than the old name
\* (or no pointer) ends the call.
Flip(o) ==
    /\ upc[o] = "copied"
    /\ IF current = old[o]
       THEN current' = new[o] /\ Go(o, "flipped")
       ELSE UNCHANGED current /\ Go(o, "cleanup")
    /\ UNCHANGED <<refs, linked, lastSeg, ver, rows, keyVars, walVars, old, new,
                   counted, hydVars, conVars, budget>>

\* The script runs and its reply is lost: flip_completed stays False.
FlipReplyLost(o) ==
    /\ upc[o] = "copied"
    /\ current = old[o]
    /\ Spend("reply")
    /\ current' = new[o]
    /\ Go(o, "cleanup")
    /\ UNCHANGED <<refs, linked, lastSeg, ver, rows, keyVars, walVars, old, new,
                   counted, hydVars, conVars>>

\* 8. The pause key is cleared so that consumers reopen.
ClearPause(o) ==
    /\ upc[o] = "flipped"
    /\ pause' = None
    /\ Go(o, "cleared")
    /\ UNCHANGED <<segVars, lock, walVars, old, new, counted, hydVars, conVars, budget>>

\* 9. The wait ends when a second holder is counted, or at its timeout.
WaitEnds(o) ==
    /\ upc[o] = "cleared"
    /\ Go(o, "finally")
    /\ UNCHANGED <<segVars, keyVars, walVars, old, new, counted, hydVars, conVars, budget>>

\* Mutant: the cleanup is not skipped after the flip.
RaiseCleansAlways(o) ==
    /\ upc[o] \in {"quiet", "paused", "opened", "created", "copied", "flipped", "cleared"}
    /\ Spend("raise")
    /\ Go(o, IF new[o] # 0 THEN "cleanup" ELSE "finally")
    /\ UNCHANGED <<segVars, keyVars, walVars, old, new, counted, hydVars, conVars>>

\* An exception or a cancellation inside the try block.  A new segment that is
\* not current yet is removed, one that is current is left alone.
Raise(o) ==
    /\ upc[o] \in {"quiet", "paused", "opened", "created", "copied", "flipped", "cleared"}
    /\ Spend("raise")
    /\ Go(o, IF upc[o] \in {"created", "copied"} THEN "cleanup" ELSE "finally")
    /\ UNCHANGED <<segVars, keyVars, walVars, old, new, counted, hydVars, conVars>>

\* Redis fails where the failure is suppressed: the pause key stays, the old
\* segment stays counted or the lock stays, and the call goes on.
Suppressed(o) ==
    /\ upc[o] \in {"flipped", "finally", "release"}
    /\ Spend("raise")
    /\ Go(o, IF upc[o] = "flipped" THEN "cleared"
             ELSE IF upc[o] = "finally" THEN "release" ELSE "unpause")
    /\ UNCHANGED <<segVars, keyVars, walVars, old, new, counted, hydVars, conVars>>

\* _cleanup_orphan_new_segment: count and name go, schema:current stays.
CleanupOrphan(o) ==
    /\ upc[o] = "cleanup"
    /\ refs' = [refs EXCEPT ![new[o]] = {}]
    /\ linked' = linked \ {new[o]}
    /\ Go(o, "finally")
    /\ UNCHANGED <<current, lastSeg, ver, rows, keyVars, walVars, old, new, counted,
                   hydVars, conVars, budget>>

\* Each block of it has its own try: what fails stays as it is.
CleanupOrphanFails(o) ==
    /\ upc[o] = "cleanup"
    /\ Spend("orphan")
    /\ refs' \in {refs, [refs EXCEPT ![new[o]] = {}]}
    /\ linked' \in {linked, linked \ {new[o]}}
    /\ Go(o, "finally")
    /\ UNCHANGED <<current, lastSeg, ver, rows, keyVars, walVars, old, new, counted,
                   hydVars, conVars>>

\* 10. and the finally block: close the old segment.
CloseOld(o) ==
    /\ upc[o] = "finally"
    /\ IF old[o] # 0
       THEN DropRef(o, {old[o]})
       ELSE UNCHANGED <<current, refs, linked>>
    /\ Go(o, "release")
    /\ UNCHANGED <<lastSeg, ver, rows, keyVars, walVars, old, new, counted, hydVars,
                   conVars, budget>>

ReleaseLock(o) ==
    /\ upc[o] = "release"
    /\ ReleaseIfOwned(o)
    /\ Go(o, "unpause")
    /\ UNCHANGED <<segVars, pause, walVars, old, new, counted, hydVars, conVars, budget>>

\* What the call's local variables held is of no use any more.
Forget(o) ==
    /\ old' = [old EXCEPT ![o] = 0]
    /\ new' = [new EXCEPT ![o] = 0]
    /\ counted' = [counted EXCEPT ![o] = {}]

\* DEL of the pause key, whoever set it; a failure is suppressed.  The call is
\* over, with a reference to the new segment that it does not close.
DeletePause(o) ==
    /\ upc[o] = "unpause"
    /\ \/ pause' = None /\ UNCHANGED budget
       \/ Spend("raise") /\ UNCHANGED pause
    /\ Go(o, "done")
    /\ LeaveRefs(o)
    /\ Forget(o)
    /\ UNCHANGED <<current, linked, lastSeg, ver, rows, lock, walVars, hydVars, conVars>>

\* The calling process is killed: what it held stays behind.
UpgraderDies(o) ==
    /\ Active(o)
    /\ Spend("kill")
    /\ Go(o, "done")
    /\ LeaveRefs(o)
    /\ Forget(o)
    /\ UNCHANGED <<current, linked, lastSeg, ver, rows, keyVars, walVars, hydVars, conVars>>

--------------------------------------------------------------------------------
(* hydrate *)

HGo(h, to) == hpc' = [hpc EXCEPT ![h] = to]

\* Precondition 1: no current segment.
CheckCurrent(h) ==
    /\ hpc[h] = "idle"
    /\ MayHydrate(h)
    /\ HGo(h, IF current = 0 THEN "nosegment" ELSE "done")
    /\ UNCHANGED <<segVars, keyVars, walVars, upVars, latest, hseg, conVars, budget>>

\* Precondition 2: no liveness key.
CheckConsumer(h) ==
    /\ hpc[h] = "nosegment"
    /\ HGo(h, IF live THEN "done" ELSE "quiet")
    /\ UNCHANGED <<segVars, keyVars, walVars, upVars, latest, hseg, conVars, budget>>

\* store.latest_features; an empty store ends the call.
ReadLatest(h) ==
    /\ hpc[h] = "quiet"
    /\ latest' = [latest EXCEPT ![h] = stored]
    /\ HGo(h, IF stored = {} THEN "done" ELSE "read")
    /\ UNCHANGED <<segVars, keyVars, walVars, upVars, hseg, conVars, budget>>

\* registry.create: the pointer names the segment before it has a row.  The
\* schema class passed may be of any version.
CreateCurrent(h) ==
    /\ hpc[h] = "read"
    /\ \E v \in {ver[s] : s \in 1..lastSeg} : CreateSegment(h, v, TRUE)
    /\ hseg' = [hseg EXCEPT ![h] = lastSeg']
    /\ HGo(h, "created")
    /\ UNCHANGED <<rows, keyVars, walVars, upVars, latest, conVars, budget>>

HForget(h) ==
    /\ latest' = [latest EXCEPT ![h] = {}]
    /\ hseg' = [hseg EXCEPT ![h] = 0]

\* insert_many of everything read; the call returns and closes nothing.
Fill(h) ==
    /\ hpc[h] = "created"
    /\ rows' = [rows EXCEPT ![hseg[h]] = @ \cup latest[h]]
    /\ HGo(h, "done")
    /\ LeaveRefs(h)
    /\ HForget(h)
    /\ UNCHANGED <<current, linked, lastSeg, ver, keyVars, walVars, upVars, conVars, budget>>

\* insert_many got as far as some of the rows.
FillSome(h) ==
    \E S \in SUBSET latest[h] : rows' = [rows EXCEPT ![hseg[h]] = @ \cup S]

\* The call is over and has left its segment part-filled.
LeavePartial(h) ==
    /\ HGo(h, "partial")
    /\ latest' = [latest EXCEPT ![h] = {}]
    /\ UNCHANGED hseg

\* The process is killed, or a step before the create raises: what it created
\* stays, and stays counted.
HydrateBreaksOff(h) ==
    /\ \/ hpc[h] = "created" /\ Spend("kill") /\ FillSome(h) /\ LeavePartial(h)
       \/ /\ hpc[h] \in {"nosegment", "quiet", "read"}
          /\ Spend("kill") \/ Spend("raise")
          /\ HGo(h, "done") /\ HForget(h)
          /\ UNCHANGED rows
    /\ LeaveRefs(h)
    /\ UNCHANGED <<current, linked, lastSeg, ver, keyVars, walVars, upVars, conVars>>

\* insert_many raises: _force_drop_orphan deletes schema:current, whatever it
\* names, the count and the segment.
FillRaises(h) ==
    /\ hpc[h] = "created"
    /\ Spend("raise")
    /\ current' = 0
    /\ refs' = [refs EXCEPT ![hseg[h]] = {}]
    /\ linked' = linked \ {hseg[h]}
    /\ HGo(h, "done")
    /\ HForget(h)
    /\ UNCHANGED <<lastSeg, ver, rows, keyVars, walVars, upVars, conVars>>

\* Its pipeline and its unlink each have a try of their own: a pipeline that
\* raises leaves pointer and count, an unlink that raises leaves the file.
ForceDropFails(h) ==
    /\ hpc[h] = "created"
    /\ Spend("orphan")
    /\ FillSome(h)
    /\ \/ current' = 0 /\ refs' = [refs EXCEPT ![hseg[h]] = {}]
       \/ UNCHANGED current /\ LeaveRefs(h)
    /\ linked' \in {linked, linked \ {hseg[h]}}
    /\ LeavePartial(h)
    /\ UNCHANGED <<lastSeg, ver, keyVars, walVars, upVars, conVars>>

--------------------------------------------------------------------------------
(* The WAL consumer *)

\* Everything delivered and acknowledged; nothing will replay it.
Acked == {m \in 1..cursor : m \notin pel}

\* A process opens the segment with the schema code of its version, then run():
\* _drain_pel, without a look at the pause key.
Start ==
    /\ cpc = "down"
    /\ MayStart
    /\ CanOpen
    /\ OpenSegment("consumer")
    /\ cseg' = current
    /\ batch' = pel
    /\ cpc' = "drain"
    /\ UNCHANGED <<current, linked, lastSeg, ver, rows, keyVars, walVars, upVars,
                   hydVars, done, budget>>

\* The pending list is drained: the liveness key appears.
DrainEnds ==
    /\ cpc = "drain" /\ batch = {}
    /\ live' = TRUE
    /\ cpc' = "read"
    /\ UNCHANGED <<segVars, keyVars, last, cursor, pel, stored, upVars, hydVars, cseg,
                   batch, done, budget>>

\* XREADGROUP of what is new.
Read ==
    /\ cpc = "read"
    /\ cursor < last
    /\ batch' = (cursor + 1)..last
    /\ pel' = pel \cup batch'
    /\ cursor' = last
    /\ cpc' = "check"
    /\ UNCHANGED <<segVars, keyVars, last, stored, live, upVars, hydVars, cseg, done,
                   budget>>

\* MGET finds no pause key; the liveness key may be due.
NotPaused ==
    /\ cpc = "check" /\ pause = None
    /\ live' \in {live, TRUE}
    /\ cpc' = "apply"
    /\ UNCHANGED <<segVars, keyVars, last, cursor, pel, stored, upVars, hydVars, cseg,
                   batch, done, budget>>

\* Mutant: _pending_ack is not emptied.
FlushAndAckKeeps ==
    /\ stored' = stored \cup done
    /\ pel' = pel \ done
    /\ done' = done

\* offline.flush and XACK of _pending_ack.
FlushAndAck ==
    /\ stored' = stored \cup done
    /\ pel' = pel \ done
    /\ done' = {}

\* MGET finds a pause key: flush, drop the batch and park.
Paused ==
    /\ cpc = "check" /\ pause # None
    /\ FlushAndAck
    /\ batch' = {}
    /\ cpc' = "park"
    /\ UNCHANGED <<segVars, keyVars, last, cursor, live, upVars, hydVars, cseg, budget>>

\* layout.insert and offline.append of one message.
Apply(m) ==
    /\ cpc \in {"drain", "apply"}
    /\ m \in batch
    /\ batch' = batch \ {m}
    /\ rows' = [rows EXCEPT ![cseg] = @ \cup {m}]
    /\ done' = done \cup {m}
    /\ UNCHANGED <<current, refs, linked, lastSeg, ver, keyVars, walVars, upVars, hydVars,
                   cpc, cseg, budget>>

ApplyEnds ==
    /\ cpc = "apply" /\ batch = {}
    /\ cpc' = "read"
    /\ UNCHANGED <<segVars, keyVars, walVars, upVars, hydVars, cseg, batch, done, budget>>

\* The flush task.
TaskFlushes ==
    /\ cpc \in {"read", "check", "apply", "park"}
    /\ done # {}
    /\ FlushAndAck
    /\ UNCHANGED <<segVars, keyVars, last, cursor, live, upVars, hydVars, cpc, cseg,
                   batch, budget>>

\* Does open_current succeed with the schema class of the running consumer?
Fits == CanOpen /\ ver[current] = ver[cseg]

\* The pause cleared: reopen.  No segment, or one of another version, stops the
\* consumer; another segment of the same version replaces the old one, whose
\* handle is closed.
Reopen ==
    /\ cpc = "park" /\ pause = None
    /\ IF Fits
       THEN LET opened == [refs EXCEPT ![current] = @ \cup {"consumer"}]
            IN  /\ cpc' = "read"
                /\ cseg' = current
                /\ IF cseg = current
                   THEN refs' = opened /\ UNCHANGED linked
                   ELSE /\ refs' = [opened EXCEPT ![cseg] = @ \ {"consumer"}]
                        /\ linked' = IF refs[cseg] = {"consumer"}
                                     THEN linked \ {cseg} ELSE linked
       ELSE cpc' = "stop" /\ UNCHANGED <<refs, linked, cseg>>
    /\ UNCHANGED <<current, lastSeg, ver, rows, keyVars, walVars, upVars, hydVars, batch,
                   done, budget>>

\* stop(), by an operator.
Stop ==
    /\ cpc \in {"read", "park"}
    /\ cpc' = "stop"
    /\ UNCHANGED <<segVars, keyVars, walVars, upVars, hydVars, cseg, batch, done, budget>>

\* run() ends: final flush, DEL of the liveness key.
StopEnds ==
    /\ cpc = "stop"
    /\ FlushAndAck
    /\ live' = FALSE
    /\ cpc' = "exit"
    /\ UNCHANGED <<segVars, keyVars, last, cursor, upVars, hydVars, cseg, batch, budget>>

\* The process closes its segment before it exits, or leaves the reference.
ConsumerExits ==
    /\ cpc = "exit"
    /\ cpc' = "down"
    /\ cseg' = 0
    /\ \/ DropRef("consumer", {cseg})
       \/ LeaveRefs("consumer") /\ UNCHANGED <<current, linked>>
    /\ UNCHANGED <<lastSeg, ver, rows, keyVars, walVars, upVars, hydVars, batch, done,
                   budget>>

ConsumerCrashes ==
    /\ cpc # "down"
    /\ Spend("crash")
    /\ cpc' = "down"
    /\ cseg' = 0
    /\ batch' = {}
    /\ done' = {}
    /\ LeaveRefs("consumer")
    /\ UNCHANGED <<current, linked, lastSeg, ver, rows, keyVars, walVars, upVars, hydVars>>

--------------------------------------------------------------------------------
(* Producers, readers, the watchdog, operators and TTLs *)

Write ==
    /\ last < MaxMsgs
    /\ last' = last + 1
    /\ UNCHANGED <<segVars, keyVars, cursor, pel, stored, live, upVars, hydVars, conVars,
                   budget>>

\* The serving process closes the segment it has had from the beginning.
ServerCloses ==
    /\ "server" \in refs[1]
    /\ DropRef("server", {1})
    /\ UNCHANGED <<lastSeg, ver, rows, keyVars, walVars, upVars, hydVars, conVars, budget>>

\* The watchdog drops what the processes that are gone still held.
Reap ==
    /\ \E s \in Segs : "gone" \in refs[s]
    /\ DropRef("gone", {s \in Segs : "gone" \in refs[s]})
    /\ UNCHANGED <<lastSeg, ver, rows, keyVars, walVars, upVars, hydVars, conVars, budget>>

\* redis-cli DEL quorin:schema:{name}:current, as hydrate's message tells.
OperatorDrops ==
    /\ current # 0
    /\ Spend("drop")
    /\ current' = 0
    /\ UNCHANGED <<refs, linked, lastSeg, ver, rows, keyVars, walVars, upVars, hydVars,
                   conVars>>

\* Mutants: a key is SET without an expiry.
LockExpiresNever == FALSE /\ UNCHANGED vars
PauseExpiresNever == FALSE /\ UNCHANGED vars

\* The TTL of a key whose owner is gone runs out.
LockExpires ==
    /\ lock # None /\ ~Active(lock)
    /\ lock' = None
    /\ UNCHANGED <<segVars, pause, walVars, upVars, hydVars, conVars, budget>>

PauseExpires ==
    /\ pause # None /\ ~Active(pause)
    /\ pause' = None
    /\ UNCHANGED <<segVars, lock, walVars, upVars, hydVars, conVars, budget>>

\* The upgrade takes longer than the TTL, which nobody renews.
LockExpiresEarly ==
    /\ lock # None /\ Active(lock)
    /\ Spend("lockttl")
    /\ lock' = None
    /\ UNCHANGED <<segVars, pause, walVars, upVars, hydVars, conVars>>

PauseExpiresEarly ==
    /\ pause # None /\ Active(pause)
    /\ Spend("pausettl")
    /\ pause' = None
    /\ UNCHANGED <<segVars, lock, walVars, upVars, hydVars, conVars>>

\* Nobody refreshes the liveness key during the drain and the final flush, or
\* when the process is gone; in the loop it expires only while Redis fails.
LivenessExpires ==
    /\ live
    /\ IF cpc \in {"down", "drain", "stop"} THEN UNCHANGED budget ELSE Spend("livettl")
    /\ live' = FALSE
    /\ UNCHANGED <<segVars, keyVars, last, cursor, pel, stored, upVars, hydVars, conVars>>

--------------------------------------------------------------------------------
\* Segment 1 is current, held by a serving process; nothing is written yet.
Init ==
    /\ current = 1
    /\ refs = [s \in Segs |-> IF s = 1 THEN {"server"} ELSE {}]
    /\ linked = {1} /\ lastSeg = 1
    /\ ver = [s \in Segs |-> 1]
    /\ rows = [s \in Segs |-> {}]
    /\ lock = None /\ pause = None /\ live = FALSE
    /\ last = 0 /\ cursor = 0 /\ pel = {} /\ stored = {}
    /\ upc = [o \in Upgraders |-> "idle"]
    /\ old = [o \in Upgraders |-> 0]
    /\ new = [o \in Upgraders |-> 0]
    /\ counted = [o \in Upgraders |-> {}]
    /\ hpc = [h \in Hydrators |-> "idle"]
    /\ latest = [h \in Hydrators |-> {}]
    /\ hseg = [h \in Hydrators |-> 0]
    /\ cpc = "down" /\ cseg = 0 /\ batch = {} /\ done = {}
    /\ budget = Budget

UpgradeStep(o) ==
    \/ CheckPending(o) \/ CheckLiveness(o) \/ SetPause(o)
    \/ OpenOld(o) \/ CreateNew(o) \/ Copy(o) \/ Flip(o) \/ ClearPause(o)
    \/ WaitEnds(o) \/ CleanupOrphan(o) \/ CloseOld(o)
    \/ ReleaseLock(o) \/ DeletePause(o)

UpgradeFault(o) ==
    \/ CheckLivenessRaises(o) \/ FlipReplyLost(o) \/ Raise(o) \/ Suppressed(o)
    \/ CleanupOrphanFails(o) \/ UpgraderDies(o)

HydrateStep(h) ==
    \/ CheckCurrent(h) \/ CheckConsumer(h) \/ ReadLatest(h) \/ CreateCurrent(h)
    \/ Fill(h) \/ FillRaises(h) \/ HydrateBreaksOff(h) \/ ForceDropFails(h)

ConsumerStep ==
    \/ DrainEnds \/ Read \/ NotPaused \/ Paused
    \/ \E m \in Msgs : Apply(m)
    \/ ApplyEnds \/ TaskFlushes \/ Reopen \/ StopEnds \/ ConsumerExits

Next ==
    \/ \E o \in Upgraders : Acquire(o) \/ UpgradeStep(o) \/ UpgradeFault(o)
    \/ \E h \in Hydrators : HydrateStep(h)
    \/ ConsumerStep \/ Start \/ Stop \/ ConsumerCrashes
    \/ Write \/ ServerCloses \/ Reap \/ OperatorDrops
    \/ LockExpires \/ PauseExpires \/ LockExpiresEarly \/ PauseExpiresEarly
    \/ LivenessExpires

Spec == Init /\ [][Next]_vars

\* A call that has begun goes on, the consumer's loop runs, the watchdog ticks and
\* Redis expires keys.
Fairness ==
    /\ \A o \in Upgraders : WF_vars(UpgradeStep(o))
    /\ WF_vars(ConsumerStep)
    /\ WF_vars(Reap)
    /\ WF_vars(LockExpires)
    /\ WF_vars(PauseExpires)

FairSpec == Spec /\ Fairness

--------------------------------------------------------------------------------
(* Properties *)

UpgradePoints == {"idle", "locked", "drained", "quiet", "paused", "opened", "created",
                  "copied", "flipped", "cleared", "cleanup", "finally", "release",
                  "unpause", "done"}

HydratePoints == {"idle", "nosegment", "quiet", "read", "created", "partial", "done"}

TypeSegments ==
    /\ current \in 0..lastSeg
    /\ lastSeg \in Segs
    /\ refs \in [Segs -> SUBSET Holders]
    /\ linked \subseteq 1..lastSeg
    /\ ver \in [Segs -> Segs]
    /\ rows \in [Segs -> SUBSET Msgs]

TypeKeys ==
    /\ lock \in Upgraders \cup {None}
    /\ pause \in Upgraders \cup {None}
    /\ live \in BOOLEAN

TypeWal ==
    /\ last \in 0..MaxMsgs
    /\ cursor \in 0..last
    /\ pel \subseteq 1..cursor
    /\ stored \subseteq 1..cursor

TypeUpgrade ==
    /\ upc \in [Upgraders -> UpgradePoints]
    /\ old \in [Upgraders -> 0..lastSeg]
    /\ new \in [Upgraders -> 0..lastSeg]
    /\ counted \in [Upgraders -> SUBSET Msgs]

TypeHydrate ==
    /\ hpc \in [Hydrators -> HydratePoints]
    /\ latest \in [Hydrators -> SUBSET Msgs]
    /\ hseg \in [Hydrators -> 0..lastSeg]

TypeConsumer ==
    /\ cpc \in {"down", "drain", "read", "check", "apply", "park", "stop",
               "exit"}
    /\ cseg \in 0..lastSeg
    /\ batch \subseteq pel
    /\ done \subseteq pel

\* Every variable keeps its type; what the consumer has in hand is pending.
TypeOK ==
    /\ TypeSegments
    /\ TypeKeys
    /\ TypeWal
    /\ TypeUpgrade
    /\ TypeHydrate
    /\ TypeConsumer
    /\ budget \in Nat

\* The pointer names a segment that a hydration left part-filled.
Abandoned == \E h \in Hydrators : hpc[h] = "partial" /\ hseg[h] = current

\* Whichever of upgrade, hydration, cleanup and watchdog touched it last, the
\* segment that schema:current names is counted, so that the watchdog takes the
\* pointer down with its last holder, and it exists: only the failed cleanup of a
\* failed hydration leaves a name that leads nowhere.
PointerIsLive ==
    current # 0 => refs[current] # {} /\ (current \in linked \/ Abandoned)

\* Does the pointer name a segment that is being filled, or never will be?
PartFilled ==
    \E h \in Hydrators : hpc[h] \in {"created", "partial"} /\ hseg[h] = current

Up == current # 0 /\ ~PartFilled

\* What is acknowledged will not be replayed: whoever replaced the segment, the
\* one that readers open reflects it.
RowsSurvive == Up => Acked \subseteq rows[current]

\* The store as its readers see it: what the named segment reflects.
Online == INSTANCE OnlineStore WITH
              up <- Up,
              served <- IF Up THEN rows[current] ELSE {},
              confirmed <- Acked,
              holders <- IF Up THEN refs[current] ELSE {}

\* The segments, pointers and processes implement the online store: a message
\* that is acknowledged stays visible, an upgrade changes nothing a reader sees,
\* hydration brings back everything that is acknowledged, and neither it nor the
\* watchdog deletes a pointer whose segment another process has open.
ImplementsOnlineStore == Online!Spec

\* A consumer parked by the pause key comes back, although the orchestrator may
\* raise or be killed between SET and DEL.
ParkedResumes == cpc = "park" ~> cpc # "park"

\* The upgrade lock is given back, although its owner may be killed or may raise
\* where no finally block protects it.
LockIsFreed == \A o \in Upgraders : lock = o ~> lock # o

\* A hydration that was killed over a part-filled segment does not leave the
\* schema without one for ever: unless another process has opened the segment, the
\* watchdog takes it and its pointer down, so that hydrate, which refuses to start
\* beside a pointer, can be retried.
PartialGoes ==
    Abandoned ~> ~Abandoned \/ refs[current] \cap (Upgraders \cup {"consumer"}) # {}

\* What _force_drop_orphan says of a segment it could not remove: it "leaks until
\* Step 14 watchdog catches it".
LeakIsCaught ==
    \A s \in Segs : (s \in linked /\ refs[s] = {}) ~> s \notin linked

================================================================================
