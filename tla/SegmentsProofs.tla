----------------------------- MODULE SegmentsProofs -----------------------------
(*****************************************************************************)
(* schema:current never names a segment that is uncounted or about to be     *)
(* unlinked: for any number of processes, pid reuses, segments and failures. *)
(*****************************************************************************)
EXTENDS Segments, FiniteSetTheorems, TLAPS

\* A segment that create() has linked and not yet registered.
Untouched(s) ==
    /\ s # current /\ s \notin queue \cup names
    /\ \A q \in Pids : s \notin pidSegs[q] /\ handles[q][s] = 0

\* What makes CurrentIsKept inductive: the segment of a call in progress exists,
\* and nobody else knows the one that a create() is about to make current.
CallsWellFormed ==
    \A p \in Pids :
        /\ op[p] # "idle" => opSeg[p] \in 1..lastSeg
        /\ op[p] = "create" =>
              /\ Untouched(opSeg[p])
              /\ \A q \in Pids \ {p} : opSeg[q] # opSeg[p]

HandlesCreated == \A p \in Pids, s \in Segs : handles[p][s] > 0 => s <= lastSeg

IInv == TypeOK /\ CallsWellFormed /\ HandlesCreated /\ CurrentIsKept

--------------------------------------------------------------------------------
(* Facts about the scripts *)

\* A failure keeps the budget well typed.
LEMMA SpendType ==
    ASSUME budget \in [Faults -> Nat], NEW f \in Faults, Spend(f)
    PROVE  budget' \in [Faults -> Nat]
BY DEF Spend

\* Every segment is one of Segs.
LEMMA SegsType ==
    ASSUME TypeShm
    PROVE  /\ lastSeg \in Nat /\ 1..lastSeg \subseteq Segs
           /\ \A s \in Segs : s \in Nat /\ s # 0
BY ConstantsAssumption DEF TypeShm, Segs

\* Dropping references keeps the Redis types, queues only segments it was given,
\* and keeps schema:current counted and out of the queue.
LEMMA DropRefsEffect ==
    ASSUME TypeShm, TypeRedis, NEW D, D \subseteq 1..lastSeg, DropRefs(D)
    PROVE  /\ current' \in 0..lastSeg /\ current' \in {0, current}
           /\ refcount' \in [Segs -> Nat]
           /\ side' \subseteq 1..lastSeg
           /\ queue' \subseteq queue \cup D
           /\ CurrentIsKept /\ names' \subseteq names => CurrentIsKept'
<1> DEFINE zero == {s \in D : refcount[s] <= 1}
<1>1. /\ refcount' = [s \in Segs |-> IF s \in zero THEN 0
                                     ELSE IF s \in D THEN refcount[s] - 1
                                     ELSE refcount[s]]
      /\ queue' = queue \cup zero
      /\ current' = IF current \in zero \cap side THEN 0 ELSE current
      /\ side' = side \ zero
  BY DEF DropRefs
<1>2. D \subseteq Segs /\ 0 \in 0..lastSeg /\ zero \subseteq D
  BY SegsType
<1>3. refcount' \in [Segs -> Nat]
  <2>1. ASSUME NEW s \in Segs
        PROVE  (IF s \in zero THEN 0 ELSE IF s \in D THEN refcount[s] - 1
                ELSE refcount[s]) \in Nat
    BY DEF TypeRedis
  <2> HIDE DEF zero
  <2> QED
    BY <1>1, <2>1
<1>4. ASSUME CurrentIsKept, names' \subseteq names, current' # 0 PROVE CurrentIsKept'
  <2>1. current' = current /\ current \in Segs /\ current \notin zero
    BY <1>1, <1>4, SegsType DEF TypeRedis, CurrentIsKept
  <2>2. refcount'[current] > 0
    <3>1. refcount'[current] = IF current \in D THEN refcount[current] - 1
                               ELSE refcount[current]
      BY <1>1, <2>1
    <3>2. refcount[current] \in Nat /\ refcount[current] > 0
      BY <1>4, <2>1 DEF TypeRedis, CurrentIsKept
    <3> QED
      BY <2>1, <3>1, <3>2
  <2>3. current \in side' /\ current \notin queue' \cup names'
    BY <1>1, <1>4, <2>1 DEF CurrentIsKept
  <2> QED
    BY <2>1, <2>2, <2>3 DEF CurrentIsKept
<1>5. current' # 0 \/ CurrentIsKept'
  BY DEF CurrentIsKept
<1>6. current' \in 0..lastSeg /\ current' \in {0, current} /\ side' \subseteq 1..lastSeg
  BY <1>1, <1>2 DEF TypeRedis
<1> QED
  BY <1>1, <1>2, <1>3, <1>4, <1>5, <1>6

--------------------------------------------------------------------------------
(* The inductive invariant *)

\* The empty system satisfies it.
LEMMA InitIInv == Init => IInv
<1> SUFFICES ASSUME Init PROVE IInv
  OBVIOUS
<1>1. TypeRedis /\ TypeShm
  BY ConstantsAssumption DEF Init, TypeRedis, TypeShm, Segs
<1>2. TypeProcesses /\ TypeWatchdog
  BY ConstantsAssumption DEF Init, TypeProcesses, TypeWatchdog
<1>3. budget \in [Faults -> Nat]
  BY ConstantsAssumption DEF Init
<1>4. CallsWellFormed /\ HandlesCreated /\ CurrentIsKept
  BY DEF Init, CallsWellFormed, HandlesCreated, CurrentIsKept
<1> QED
  BY <1>1, <1>2, <1>3, <1>4 DEF IInv, TypeOK

\* Every step preserves it: one case per action.
LEMMA StepIInv == IInv /\ [Next]_vars => IInv'
<1> SUFFICES ASSUME IInv, [Next]_vars PROVE IInv'
  OBVIOUS
<1> USE DEF IInv, TypeOK, countVars, shmVars, procVars, callVars, tickVars
<1>0. /\ lastSeg \in Nat /\ 0 \in 0..lastSeg /\ MaxBirths \in Nat /\ 0 \in 0..MaxBirths
      /\ Threshold \in Nat /\ 0 \in 0..Threshold
  BY ConstantsAssumption DEF TypeShm
<1>1. ASSUME NEW p \in Pids, Spawn(p) PROVE IInv'
  <2>1. budget' \in [Faults -> Nat]
    BY <1>1 DEF Spawn
  <2>2. TypeRedis' /\ TypeShm'
    BY <1>1 DEF Spawn, TypeRedis, TypeShm
  <2>3. TypeProcesses'
    BY <1>0, <1>1 DEF Spawn, TypeProcesses
  <2>4. TypeWatchdog'
    BY <1>0, <1>1 DEF Spawn, TypeWatchdog
  <2>5. CallsWellFormed'
    BY <1>1 DEF Spawn, CallsWellFormed, Untouched
  <2>6. HandlesCreated'
    BY <1>1 DEF Spawn, HandlesCreated
  <2>7. CurrentIsKept'
    BY <1>1 DEF Spawn, CurrentIsKept
  <2> QED
    BY <2>1, <2>2, <2>3, <2>4, <2>5, <2>6, <2>7
<1>2. ASSUME NEW p \in Pids, EnsureStarted(p) PROVE IInv'
  <2>1. budget' \in [Faults -> Nat]
    BY <1>2, SpendType DEF EnsureStarted, Faults
  <2>2. TypeRedis' /\ TypeShm'
    BY <1>0, <1>2 DEF EnsureStarted, WriteHeartbeat, TypeRedis, TypeShm,
       TypeProcesses
  <2>3. TypeProcesses'
    BY <1>0, <1>2 DEF EnsureStarted, WriteHeartbeat, TypeProcesses
  <2>4. TypeWatchdog'
    BY <1>0, <1>2 DEF EnsureStarted, WriteHeartbeat, TypeWatchdog
  <2>5. CallsWellFormed'
    BY <1>0, <1>2 DEF EnsureStarted, WriteHeartbeat, CallsWellFormed,
       Untouched, TypeProcesses
  <2>6. HandlesCreated'
    BY <1>2 DEF EnsureStarted, WriteHeartbeat, HandlesCreated
  <2>7. CurrentIsKept'
    BY <1>2 DEF EnsureStarted, WriteHeartbeat, CurrentIsKept
  <2> QED
    BY <2>1, <2>2, <2>3, <2>4, <2>5, <2>6, <2>7
<1>3. ASSUME NEW p \in Pids, Beat(p) PROVE IInv'
  <2>1. budget' \in [Faults -> Nat]
    BY <1>3 DEF Beat
  <2>2. TypeRedis' /\ TypeShm'
    BY <1>0, <1>3 DEF Beat, WriteHeartbeat, TypeRedis, TypeShm, TypeProcesses
  <2>3. TypeProcesses'
    BY <1>0, <1>3 DEF Beat, WriteHeartbeat, TypeProcesses
  <2>4. TypeWatchdog'
    BY <1>0, <1>3 DEF Beat, WriteHeartbeat, TypeWatchdog
  <2>5. CallsWellFormed'
    BY <1>0, <1>3 DEF Beat, WriteHeartbeat, CallsWellFormed, Untouched,
       TypeProcesses
  <2>6. HandlesCreated'
    BY <1>3 DEF Beat, WriteHeartbeat, HandlesCreated
  <2>7. CurrentIsKept'
    BY <1>3 DEF Beat, WriteHeartbeat, CurrentIsKept
  <2> QED
    BY <2>1, <2>2, <2>3, <2>4, <2>5, <2>6, <2>7
<1>4. ASSUME NEW p \in Pids, Crash(p) PROVE IInv'
  <2>1. budget' \in [Faults -> Nat]
    BY <1>4, SpendType DEF Crash, Faults
  <2>2. TypeRedis' /\ TypeShm'
    BY <1>0, <1>4 DEF Crash, Vanish, TypeRedis, TypeShm, TypeProcesses
  <2>3. TypeProcesses'
    BY <1>0, <1>4 DEF Crash, Vanish, TypeProcesses
  <2>4. TypeWatchdog'
    BY <1>0, <1>4 DEF Crash, Vanish, TypeWatchdog
  <2>5. CallsWellFormed'
    <3> SUFFICES ASSUME NEW q \in Pids, op'[q] # "idle"
               PROVE  /\ opSeg'[q] \in 1..lastSeg'
                      /\ op'[q] = "create" =>
                            /\ Untouched(opSeg[q])'
                            /\ \A r \in Pids \ {q} : opSeg'[r] # opSeg'[q]
      BY DEF CallsWellFormed
    <3>1. /\ q # p /\ op[q] = op'[q] /\ opSeg'[q] = opSeg[q] /\ lastSeg' = lastSeg
          /\ opSeg[q] \in 1..lastSeg /\ opSeg[q] \in Segs /\ opSeg[q] # 0
      BY <1>4, SegsType DEF Crash, Vanish, CallsWellFormed, TypeProcesses
    <3>2. \A r \in Pids, s \in Segs : handles'[r][s] \in {0, handles[r][s]}
      BY <1>4 DEF Crash, Vanish, TypeProcesses
    <3>3. op[q] = "create" => Untouched(opSeg[q])'
      BY <1>4, <3>1, <3>2 DEF Crash, CallsWellFormed, Untouched
    <3>4. \A r \in Pids : opSeg'[r] \in {0, opSeg[r]}
      BY <1>4 DEF Crash, Vanish, TypeProcesses
    <3> QED
      BY <3>1, <3>3, <3>4 DEF CallsWellFormed
  <2>6. HandlesCreated'
    BY <1>4 DEF Crash, Vanish, HandlesCreated
  <2>7. CurrentIsKept'
    BY <1>4 DEF Crash, Vanish, CurrentIsKept
  <2> QED
    BY <2>1, <2>2, <2>3, <2>4, <2>5, <2>6, <2>7
<1>5. ASSUME NEW p \in Pids, ParentWaits(p) PROVE IInv'
  <2>1. budget' \in [Faults -> Nat]
    BY <1>5 DEF ParentWaits
  <2>2. TypeRedis' /\ TypeShm'
    BY <1>5 DEF ParentWaits, TypeRedis, TypeShm
  <2>3. TypeProcesses'
    BY <1>0, <1>5 DEF ParentWaits, TypeProcesses
  <2>4. TypeWatchdog'
    BY <1>0, <1>5 DEF ParentWaits, TypeWatchdog
  <2>5. CallsWellFormed'
    BY <1>5 DEF ParentWaits, CallsWellFormed, Untouched
  <2>6. HandlesCreated'
    BY <1>5 DEF ParentWaits, HandlesCreated
  <2>7. CurrentIsKept'
    BY <1>5 DEF ParentWaits, CurrentIsKept
  <2> QED
    BY <2>1, <2>2, <2>3, <2>4, <2>5, <2>6, <2>7
<1>6. ASSUME NEW p \in Pids, Exit(p) PROVE IInv'
  <2>1. budget' \in [Faults -> Nat]
    BY <1>6, SpendType DEF Exit, Faults
  <2>2. TypeRedis' /\ TypeShm'
    BY <1>0, <1>6 DEF Exit, Vanish, TypeRedis, TypeShm, TypeProcesses
  <2>3. TypeProcesses'
    BY <1>0, <1>6 DEF Exit, Vanish, TypeProcesses
  <2>4. TypeWatchdog'
    BY <1>0, <1>6 DEF Exit, Vanish, TypeWatchdog
  <2>5. CallsWellFormed'
    <3> SUFFICES ASSUME NEW q \in Pids, op'[q] # "idle"
               PROVE  /\ opSeg'[q] \in 1..lastSeg'
                      /\ op'[q] = "create" =>
                            /\ Untouched(opSeg[q])'
                            /\ \A r \in Pids \ {q} : opSeg'[r] # opSeg'[q]
      BY DEF CallsWellFormed
    <3>1. /\ q # p /\ op[q] = op'[q] /\ opSeg'[q] = opSeg[q] /\ lastSeg' = lastSeg
          /\ opSeg[q] \in 1..lastSeg /\ opSeg[q] \in Segs /\ opSeg[q] # 0
      BY <1>6, SegsType DEF Exit, Vanish, CallsWellFormed, TypeProcesses
    <3>2. \A r \in Pids, s \in Segs : handles'[r][s] \in {0, handles[r][s]}
      BY <1>6 DEF Exit, Vanish, TypeProcesses
    <3>3. op[q] = "create" => Untouched(opSeg[q])'
      BY <1>6, <3>1, <3>2 DEF Exit, CallsWellFormed, Untouched
    <3>4. \A r \in Pids : opSeg'[r] \in {0, opSeg[r]}
      BY <1>6 DEF Exit, Vanish, TypeProcesses
    <3> QED
      BY <3>1, <3>3, <3>4 DEF CallsWellFormed
  <2>6. HandlesCreated'
    BY <1>6 DEF Exit, Vanish, HandlesCreated
  <2>7. CurrentIsKept'
    BY <1>6 DEF Exit, Vanish, CurrentIsKept
  <2> QED
    BY <2>1, <2>2, <2>3, <2>4, <2>5, <2>6, <2>7
<1>7. ASSUME NEW p \in Pids, Create(p) PROVE IInv'
  <2>1. /\ lastSeg \in Nat /\ lastSeg' = lastSeg + 1 /\ lastSeg' \in 1..MaxSegs
        /\ 1..lastSeg \subseteq 1..lastSeg' /\ 0..lastSeg \subseteq 0..lastSeg'
        /\ lastSeg' \in 1..lastSeg' /\ lastSeg' \notin 0..lastSeg /\ lastSeg' \in Segs
    BY <1>7, ConstantsAssumption DEF Create, TypeShm, Segs
  <2>2. \A q \in Pids : handles[q][lastSeg'] = 0
    BY <2>1 DEF TypeProcesses, HandlesCreated
  <2>3. /\ lastSeg' # current' /\ lastSeg' \notin queue' \cup names'
        /\ \A q \in Pids : lastSeg' \notin pidSegs'[q] /\ handles'[q][lastSeg'] = 0
    BY <1>7, <2>1, <2>2 DEF Create, TypeRedis, TypeWatchdog
  <2>4. budget' \in [Faults -> Nat]
    BY <1>7 DEF Create
  <2>5. TypeRedis' /\ TypeShm'
    BY <1>7, <2>1 DEF Create, TypeRedis, TypeShm
  <2>6. TypeProcesses'
    BY <1>7, <2>1 DEF Create, TypeProcesses
  <2>7. TypeWatchdog'
    BY <1>7, <2>1 DEF Create, TypeWatchdog
  <2>8. CallsWellFormed'
    <3> SUFFICES ASSUME NEW q \in Pids
               PROVE  /\ op'[q] # "idle" => opSeg'[q] \in 1..lastSeg'
                      /\ op'[q] = "create" =>
                            /\ Untouched(opSeg[q])'
                            /\ \A r \in Pids \ {q} : opSeg'[r] # opSeg'[q]
      BY DEF CallsWellFormed
    <3>1. CASE q = p
      <4>1. op'[p] = "create" /\ opSeg'[p] = lastSeg'
        BY <1>7 DEF Create, TypeProcesses
      <4>2. Untouched(opSeg[p])'
        BY <2>3, <4>1 DEF Untouched
      <4>3. \A r \in Pids \ {p} : opSeg'[r] \in 0..lastSeg
        BY <1>7 DEF Create, TypeProcesses
      <4> QED
        BY <2>1, <3>1, <4>1, <4>2, <4>3
    <3>2. CASE q # p
      <4>1. op'[q] = op[q] /\ opSeg'[q] = opSeg[q] /\ opSeg'[q] # lastSeg'
        BY <1>7, <2>1, <3>2 DEF Create, TypeProcesses
      <4>2. op[q] = "create" => Untouched(opSeg[q])'
        BY <1>7, <4>1 DEF Create, CallsWellFormed, Untouched
      <4>3. op[q] = "create" => \A r \in Pids \ {q} : opSeg'[r] # opSeg'[q]
        BY <1>7, <4>1 DEF Create, CallsWellFormed, TypeProcesses
      <4> QED
        BY <2>1, <4>1, <4>2, <4>3 DEF CallsWellFormed
    <3> QED
      BY <3>1, <3>2
  <2>9. HandlesCreated'
    BY <1>7, <2>1 DEF Create, HandlesCreated, TypeShm, Segs
  <2>10. CurrentIsKept'
    BY <1>7 DEF Create, CurrentIsKept
  <2> QED
    BY <2>4, <2>5, <2>6, <2>7, <2>8, <2>9, <2>10
<1>8. ASSUME NEW p \in Pids, Register(p) PROVE IInv'
  <2>1. opSeg[p] \in 1..lastSeg /\ opSeg[p] \in Segs /\ Untouched(opSeg[p])
    BY <1>8, SegsType DEF Register, CallsWellFormed
  <2>2. budget' \in [Faults -> Nat]
    BY <1>8 DEF Register
  <2>3. TypeRedis' /\ TypeShm'
    BY <1>8, <2>1 DEF Register, Enrol, EndCall, AddHandle, TypeRedis, TypeShm
  <2>4. TypeProcesses'
    <3>1. handles' \in [Pids -> [Segs -> Nat]]
      BY <1>8, <2>1 DEF Register, AddHandle, TypeProcesses
    <3> QED
      BY <1>0, <1>8, <3>1 DEF Register, EndCall, TypeProcesses
  <2>5. TypeWatchdog'
    BY <1>0, <1>8 DEF Register, Enrol, EndCall, AddHandle, TypeWatchdog
  <2>6. CallsWellFormed'
    BY <1>8, <2>1 DEF Register, Enrol, EndCall, AddHandle, CallsWellFormed,
       Untouched, TypeProcesses, TypeRedis
  <2>7. HandlesCreated'
    BY <1>8, <2>1 DEF Register, Enrol, EndCall, AddHandle, HandlesCreated,
       TypeProcesses
  <2>8. CurrentIsKept'
    BY <1>8, <2>1 DEF Register, Enrol, EndCall, AddHandle, CurrentIsKept,
       Untouched, TypeRedis
  <2> QED
    BY <2>2, <2>3, <2>4, <2>5, <2>6, <2>7, <2>8
<1>9. ASSUME NEW p \in Pids, RegisterRaises(p) PROVE IInv'
  <2>1. opSeg[p] \in 1..lastSeg /\ opSeg[p] \in Segs /\ Untouched(opSeg[p])
    BY <1>9, SegsType DEF RegisterRaises, CallsWellFormed
  <2>2. budget' \in [Faults -> Nat]
    BY <1>9, SpendType DEF RegisterRaises, Faults
  <2>3. TypeRedis' /\ TypeShm'
    <3>1. TypeShm' /\ lastSeg' = lastSeg /\ hb' = hb
      BY <1>9 DEF RegisterRaises, TypeShm
    <3>2. CASE UNCHANGED <<countVars, pidSegs>>
      BY <3>1, <3>2 DEF TypeRedis
    <3>3. ASSUME NEW b \in BOOLEAN, Enrol(p, opSeg[p], b) PROVE TypeRedis'
      <4>1. current' \in 0..lastSeg
        BY <1>0, <2>1, <3>3 DEF Enrol, TypeRedis
      <4>2. refcount' \in [Segs -> Nat]
        BY <2>1, <3>3 DEF Enrol, TypeRedis
      <4>3. pidSegs' \in [Pids -> SUBSET (1..lastSeg)]
        BY <2>1, <3>3 DEF Enrol, TypeRedis
      <4>4. side' \subseteq 1..lastSeg /\ queue' \subseteq 1..lastSeg
        BY <2>1, <3>3 DEF Enrol, TypeRedis
      <4> QED
        BY <3>1, <4>1, <4>2, <4>3, <4>4 DEF TypeRedis
    <3> QED
      BY <1>9, <3>1, <3>2, <3>3 DEF RegisterRaises
  <2>4. TypeProcesses'
    BY <1>0, <1>9 DEF RegisterRaises, Enrol, EndCall, TypeProcesses
  <2>5. TypeWatchdog'
    BY <1>0, <1>9 DEF RegisterRaises, Enrol, EndCall, TypeWatchdog
  <2>6. CallsWellFormed'
    BY <1>9, <2>1, SMTT(60) DEF RegisterRaises, Enrol, EndCall, CallsWellFormed,
       Untouched, TypeProcesses, TypeRedis
  <2>7. HandlesCreated'
    BY <1>9, <2>1 DEF RegisterRaises, Enrol, EndCall, HandlesCreated,
       TypeProcesses
  <2>8. CurrentIsKept'
    <3>1. CASE \E b \in BOOLEAN : Enrol(p, opSeg[p], b)
      BY <1>9, <2>1, <3>1 DEF RegisterRaises, Enrol, CurrentIsKept, Untouched, TypeRedis
    <3>2. CASE UNCHANGED <<countVars, pidSegs>>
      BY <1>9, <3>2 DEF RegisterRaises, CurrentIsKept
    <3> QED
      BY <1>9, <3>1, <3>2 DEF RegisterRaises
  <2> QED
    BY <2>2, <2>3, <2>4, <2>5, <2>6, <2>7, <2>8
<1>10. ASSUME NEW p \in Pids, OpenGet(p) PROVE IInv'
  <2>1. current \in 1..lastSeg
    BY <1>10, SegsType DEF OpenGet, TypeRedis
  <2>2. budget' \in [Faults -> Nat]
    BY <1>10 DEF OpenGet
  <2>3. TypeRedis' /\ TypeShm'
    BY <1>10 DEF OpenGet, TypeRedis, TypeShm
  <2>4. TypeProcesses'
    BY <1>0, <1>10 DEF OpenGet, TypeProcesses, TypeRedis
  <2>5. TypeWatchdog'
    BY <1>0, <1>10 DEF OpenGet, TypeWatchdog
  <2>6. CallsWellFormed'
    BY <1>10, <2>1 DEF OpenGet, CallsWellFormed, Untouched, TypeProcesses
  <2>7. HandlesCreated'
    BY <1>10 DEF OpenGet, HandlesCreated
  <2>8. CurrentIsKept'
    BY <1>10 DEF OpenGet, CurrentIsKept
  <2> QED
    BY <2>2, <2>3, <2>4, <2>5, <2>6, <2>7, <2>8
<1>11. ASSUME NEW p \in Pids, OpenMap(p) PROVE IInv'
  <2>1. budget' \in [Faults -> Nat]
    BY <1>11 DEF OpenMap
  <2>2. TypeRedis' /\ TypeShm'
    BY <1>11 DEF OpenMap, TypeRedis, TypeShm
  <2>3. TypeProcesses'
    BY <1>0, <1>11 DEF OpenMap, TypeProcesses
  <2>4. TypeWatchdog'
    BY <1>0, <1>11 DEF OpenMap, TypeWatchdog
  <2>5. CallsWellFormed'
    BY <1>11 DEF OpenMap, CallsWellFormed, Untouched, TypeProcesses
  <2>6. HandlesCreated'
    BY <1>11 DEF OpenMap, HandlesCreated
  <2>7. CurrentIsKept'
    BY <1>11 DEF OpenMap, CurrentIsKept
  <2> QED
    BY <2>1, <2>2, <2>3, <2>4, <2>5, <2>6, <2>7
<1>12. ASSUME NEW p \in Pids, OpenRefused(p) PROVE IInv'
  <2>1. budget' \in [Faults -> Nat]
    BY <1>12 DEF OpenRefused
  <2>2. TypeRedis' /\ TypeShm'
    BY <1>12 DEF OpenRefused, EndCall, TypeRedis, TypeShm
  <2>3. TypeProcesses'
    BY <1>0, <1>12 DEF OpenRefused, EndCall, TypeProcesses
  <2>4. TypeWatchdog'
    BY <1>0, <1>12 DEF OpenRefused, EndCall, TypeWatchdog
  <2>5. CallsWellFormed'
    BY <1>12 DEF OpenRefused, EndCall, CallsWellFormed, Untouched,
       TypeProcesses
  <2>6. HandlesCreated'
    BY <1>12 DEF OpenRefused, EndCall, HandlesCreated
  <2>7. CurrentIsKept'
    BY <1>12 DEF OpenRefused, EndCall, CurrentIsKept
  <2> QED
    BY <2>1, <2>2, <2>3, <2>4, <2>5, <2>6, <2>7
<1>13. ASSUME NEW p \in Pids, OpenCount(p) PROVE IInv'
  <2>1. /\ opSeg[p] \in 1..lastSeg /\ opSeg[p] \in Segs
        /\ \A q \in Pids : op[q] = "create" => q # p /\ opSeg[q] # opSeg[p]
    BY <1>13, SegsType DEF OpenCount, CallsWellFormed
  <2>2. budget' \in [Faults -> Nat]
    BY <1>13 DEF OpenCount
  <2>3. TypeRedis' /\ TypeShm'
    BY <1>13, <2>1 DEF OpenCount, Count, EndCall, AddHandle, TypeRedis,
       TypeShm
  <2>4. TypeProcesses'
    <3>1. handles' \in [Pids -> [Segs -> Nat]]
      BY <1>13, <2>1 DEF OpenCount, AddHandle, TypeProcesses
    <3> QED
      BY <1>0, <1>13, <3>1 DEF OpenCount, EndCall, TypeProcesses
  <2>5. TypeWatchdog'
    BY <1>0, <1>13 DEF OpenCount, Count, EndCall, AddHandle, TypeWatchdog
  <2>6. CallsWellFormed'
    BY <1>13, <2>1 DEF OpenCount, Count, EndCall, AddHandle, CallsWellFormed,
       Untouched, TypeProcesses, TypeRedis
  <2>7. HandlesCreated'
    BY <1>13, <2>1 DEF OpenCount, Count, EndCall, AddHandle, HandlesCreated,
       TypeProcesses
  <2>8. CurrentIsKept'
    BY <1>13, <2>1 DEF OpenCount, Count, EndCall, AddHandle, CurrentIsKept,
       TypeRedis
  <2> QED
    BY <2>2, <2>3, <2>4, <2>5, <2>6, <2>7, <2>8
<1>14. ASSUME NEW p \in Pids, OpenRaises(p) PROVE IInv'
  <2>1. /\ opSeg[p] \in 1..lastSeg /\ opSeg[p] \in Segs
        /\ \A q \in Pids : op[q] = "create" => q # p /\ opSeg[q] # opSeg[p]
    BY <1>14, SegsType DEF OpenRaises, CallsWellFormed
  <2>2. budget' \in [Faults -> Nat]
    BY <1>14, SpendType DEF OpenRaises, Faults
  <2>3. TypeRedis' /\ TypeShm'
    <3>1. CASE Count(p, opSeg[p])
      BY <1>14, <2>1, <3>1 DEF OpenRaises, Count, TypeRedis, TypeShm
    <3>2. CASE UNCHANGED <<countVars, pidSegs>>
      BY <1>14, <3>2 DEF OpenRaises, TypeRedis, TypeShm
    <3> QED
      BY <1>14, <3>1, <3>2 DEF OpenRaises
  <2>4. TypeProcesses'
    BY <1>0, <1>14 DEF OpenRaises, Count, EndCall, TypeProcesses
  <2>5. TypeWatchdog'
    BY <1>0, <1>14 DEF OpenRaises, Count, EndCall, TypeWatchdog
  <2>6. CallsWellFormed'
    BY <1>14, <2>1, SMTT(60) DEF OpenRaises, Count, EndCall, CallsWellFormed, Untouched,
       TypeProcesses, TypeRedis
  <2>7. HandlesCreated'
    BY <1>14, <2>1 DEF OpenRaises, Count, EndCall, HandlesCreated,
       TypeProcesses
  <2>8. CurrentIsKept'
    <3>1. CASE Count(p, opSeg[p])
      BY <1>14, <2>1, <3>1 DEF OpenRaises, Count, CurrentIsKept, TypeRedis
    <3>2. CASE UNCHANGED <<countVars, pidSegs>>
      BY <1>14, <3>2 DEF OpenRaises, CurrentIsKept
    <3> QED
      BY <1>14, <3>1, <3>2 DEF OpenRaises
  <2> QED
    BY <2>2, <2>3, <2>4, <2>5, <2>6, <2>7, <2>8
<1>15. ASSUME NEW p \in Pids, NEW s \in Segs, Close(p, s) PROVE IInv'
  <2>1. s \in 1..lastSeg /\ {s} \subseteq 1..lastSeg
    BY <1>15, SegsType DEF Close, HandlesCreated, TypeShm
  <2>2. /\ current' \in 0..lastSeg /\ current' \in {0, current}
        /\ refcount' \in [Segs -> Nat] /\ side' \subseteq 1..lastSeg
        /\ queue' \subseteq queue \cup {s} /\ CurrentIsKept'
    BY <1>15, <2>1, DropRefsEffect DEF Close, CloseScript
  <2>3. \A q \in Pids : op[q] = "create" => opSeg[q] # s
    BY <1>15 DEF Close, CallsWellFormed, Untouched
  <2>4. budget' \in [Faults -> Nat]
    BY <1>15 DEF Close
  <2>5. TypeRedis' /\ TypeShm'
    BY <1>15, <2>1, <2>2 DEF Close, CloseScript, TypeRedis, TypeShm
  <2>6. TypeProcesses'
    BY <1>15 DEF Close, DropHandle, TypeProcesses
  <2>7. TypeWatchdog'
    BY <1>15 DEF Close, TypeWatchdog
  <2>8. CallsWellFormed'
    BY <1>15, <2>2, <2>3, SegsType DEF Close, CloseScript, DropHandle,
       CallsWellFormed, Untouched, TypeProcesses, TypeRedis
  <2>9. HandlesCreated'
    BY <1>15 DEF Close, DropHandle, HandlesCreated, TypeProcesses
  <2>10. CurrentIsKept'
    BY <2>2
  <2> QED
    BY <2>4, <2>5, <2>6, <2>7, <2>8, <2>9, <2>10
<1>16. ASSUME NEW p \in Pids, NEW s \in Segs, CloseRaises(p, s) PROVE IInv'
  <2>1. s \in 1..lastSeg /\ {s} \subseteq 1..lastSeg
    BY <1>16, SegsType DEF CloseRaises, HandlesCreated, TypeShm
  <2>2. /\ current' \in 0..lastSeg /\ current' \in {0, current}
        /\ refcount' \in [Segs -> Nat] /\ side' \subseteq 1..lastSeg
        /\ queue' \subseteq queue \cup {s} /\ CurrentIsKept'
    BY <1>16, <2>1, DropRefsEffect DEF CloseRaises, CloseScript, TypeRedis,
       CurrentIsKept
  <2>3. \A q \in Pids : op[q] = "create" => opSeg[q] # s
    BY <1>16 DEF CloseRaises, CallsWellFormed, Untouched
  <2>4. budget' \in [Faults -> Nat]
    BY <1>16, SpendType DEF CloseRaises, Faults
  <2>5. TypeRedis' /\ TypeShm'
    BY <1>16, <2>1, <2>2 DEF CloseRaises, CloseScript, TypeRedis, TypeShm
  <2>6. TypeProcesses'
    BY <1>16 DEF CloseRaises, DropHandle, TypeProcesses
  <2>7. TypeWatchdog'
    BY <1>16 DEF CloseRaises, TypeWatchdog
  <2>8. CallsWellFormed'
    BY <1>16, <2>2, <2>3, SegsType DEF CloseRaises, CloseScript, DropHandle,
       CallsWellFormed, Untouched, TypeProcesses, TypeRedis
  <2>9. HandlesCreated'
    BY <1>16 DEF CloseRaises, DropHandle, HandlesCreated, TypeProcesses
  <2>10. CurrentIsKept'
    BY <2>2
  <2> QED
    BY <2>4, <2>5, <2>6, <2>7, <2>8, <2>9, <2>10
<1>17. CASE Tick
  <2>1. budget' \in [Faults -> Nat]
    BY <1>17 DEF Tick
  <2>2. TypeRedis' /\ TypeShm'
    BY <1>17 DEF Tick, TypeRedis, TypeShm
  <2>3. TypeProcesses'
    BY <1>0, <1>17 DEF Tick, TypeProcesses
  <2>4. TypeWatchdog'
    BY <1>17, ConstantsAssumption DEF Tick, Capped, TypeWatchdog, TypeRedis
  <2>5. CallsWellFormed'
    BY <1>17 DEF Tick, CallsWellFormed, Untouched
  <2>6. HandlesCreated'
    BY <1>17 DEF Tick, HandlesCreated
  <2>7. CurrentIsKept'
    BY <1>17 DEF Tick, CurrentIsKept
  <2> QED
    BY <2>1, <2>2, <2>3, <2>4, <2>5, <2>6, <2>7
<1>18. ASSUME NEW p \in Pids, CrossCheck(p) PROVE IInv'
  <2>1. budget' \in [Faults -> Nat]
    BY <1>18 DEF CrossCheck
  <2>2. TypeRedis' /\ TypeShm'
    BY <1>18 DEF CrossCheck, TypeRedis, TypeShm
  <2>3. TypeProcesses'
    BY <1>0, <1>18 DEF CrossCheck, TypeProcesses
  <2>4. TypeWatchdog'
    BY <1>0, <1>18 DEF CrossCheck, TypeWatchdog
  <2>5. CallsWellFormed'
    BY <1>18 DEF CrossCheck, CallsWellFormed, Untouched
  <2>6. HandlesCreated'
    BY <1>18 DEF CrossCheck, HandlesCreated
  <2>7. CurrentIsKept'
    BY <1>18 DEF CrossCheck, CurrentIsKept
  <2> QED
    BY <2>1, <2>2, <2>3, <2>4, <2>5, <2>6, <2>7
<1>19. CASE CleanupDeadPid
  <2>1. victim \in Pids /\ pidSegs[victim] \subseteq 1..lastSeg
    BY <1>19 DEF CleanupDeadPid, TypeWatchdog, TypeRedis
  <2>2. /\ current' \in 0..lastSeg /\ current' \in {0, current}
        /\ refcount' \in [Segs -> Nat] /\ side' \subseteq 1..lastSeg
        /\ queue' \subseteq queue \cup pidSegs[victim] /\ CurrentIsKept'
        /\ pidSegs' \in [Pids -> SUBSET (1..lastSeg)] /\ hb' \in [Pids -> 0..MaxBirths]
    <3>1. CASE CleanupScript(victim)
      <4>1. DropRefs(pidSegs[victim]) /\ names' = names
        BY <1>19, <3>1 DEF CleanupDeadPid, CleanupScript
      <4> QED
        BY <1>0, <2>1, <3>1, <4>1, DropRefsEffect DEF CleanupScript, TypeRedis
    <3>2. CASE UNCHANGED <<countVars, pidSegs, hb, fresh>>
      BY <1>19, <3>2 DEF CleanupDeadPid, TypeRedis, CurrentIsKept
    <3> QED
      BY <1>19, <3>1, <3>2 DEF CleanupDeadPid
  <2>3. budget' \in [Faults -> Nat]
    BY <1>19 DEF CleanupDeadPid
  <2>4. TypeRedis' /\ TypeShm'
    BY <1>19, <2>1, <2>2 DEF CleanupDeadPid, TypeRedis, TypeShm
  <2>5. TypeProcesses'
    BY <1>0, <1>19 DEF CleanupDeadPid, CleanupScript, TypeProcesses
  <2>6. TypeWatchdog'
    BY <1>0, <1>19 DEF CleanupDeadPid, CleanupScript, TypeWatchdog
  <2>7. CallsWellFormed'
    BY <1>19, <2>1, <2>2, SegsType DEF CleanupDeadPid, CleanupScript,
       CallsWellFormed, Untouched, TypeProcesses, TypeRedis
  <2>8. HandlesCreated'
    BY <1>19 DEF CleanupDeadPid, CleanupScript, HandlesCreated
  <2>9. CurrentIsKept'
    BY <2>2
  <2> QED
    BY <2>3, <2>4, <2>5, <2>6, <2>7, <2>8, <2>9
<1>20. CASE DrainQueue
  <2>1. names' \subseteq queue
    BY <1>20 DEF DrainQueue, Drainable
  <2>2. budget' \in [Faults -> Nat]
    BY <1>20 DEF DrainQueue
  <2>3. TypeRedis' /\ TypeShm'
    BY <1>20 DEF DrainQueue, Drainable, TypeRedis, TypeShm
  <2>4. TypeProcesses'
    BY <1>0, <1>20 DEF DrainQueue, Drainable, TypeProcesses
  <2>5. TypeWatchdog'
    BY <1>20, <2>1 DEF DrainQueue, TypeWatchdog, TypeRedis
  <2>6. CallsWellFormed'
    BY <1>20, <2>1 DEF DrainQueue, CallsWellFormed, Untouched
  <2>7. HandlesCreated'
    BY <1>20 DEF DrainQueue, Drainable, HandlesCreated
  <2>8. CurrentIsKept'
    BY <1>20, <2>1 DEF DrainQueue, CurrentIsKept
  <2> QED
    BY <2>2, <2>3, <2>4, <2>5, <2>6, <2>7, <2>8
<1>21. ASSUME NEW s \in Segs, Unlink(s) PROVE IInv'
  <2>1. budget' \in [Faults -> Nat]
    BY <1>21 DEF Unlink
  <2>2. TypeRedis' /\ TypeShm'
    BY <1>21 DEF Unlink, TypeRedis, TypeShm
  <2>3. TypeProcesses'
    BY <1>0, <1>21 DEF Unlink, TypeProcesses
  <2>4. TypeWatchdog'
    BY <1>0, <1>21 DEF Unlink, TypeWatchdog
  <2>5. CallsWellFormed'
    BY <1>21 DEF Unlink, CallsWellFormed, Untouched
  <2>6. HandlesCreated'
    BY <1>21 DEF Unlink, HandlesCreated
  <2>7. CurrentIsKept'
    BY <1>21 DEF Unlink, CurrentIsKept
  <2> QED
    BY <2>1, <2>2, <2>3, <2>4, <2>5, <2>6, <2>7
<1>22. CASE TickEnd
  <2>1. budget' \in [Faults -> Nat]
    BY <1>22 DEF TickEnd
  <2>2. TypeRedis' /\ TypeShm'
    BY <1>22 DEF TickEnd, TypeRedis, TypeShm
  <2>3. TypeProcesses'
    BY <1>0, <1>22 DEF TickEnd, TypeProcesses
  <2>4. TypeWatchdog'
    BY <1>0, <1>22 DEF TickEnd, TypeWatchdog
  <2>5. CallsWellFormed'
    BY <1>22 DEF TickEnd, CallsWellFormed, Untouched
  <2>6. HandlesCreated'
    BY <1>22 DEF TickEnd, HandlesCreated
  <2>7. CurrentIsKept'
    BY <1>22 DEF TickEnd, CurrentIsKept
  <2> QED
    BY <2>1, <2>2, <2>3, <2>4, <2>5, <2>6, <2>7
<1>23. CASE TickRaises
  <2>1. wpc = "reap" => victim \in Pids /\ pidSegs[victim] \subseteq 1..lastSeg
    BY <1>23 DEF TickRaises, TypeWatchdog, TypeRedis
  <2>2. /\ current' \in 0..lastSeg /\ current' \in {0, current}
        /\ refcount' \in [Segs -> Nat] /\ side' \subseteq 1..lastSeg
        /\ queue' \subseteq 1..lastSeg /\ CurrentIsKept'
        /\ \A s \in queue' : s \in queue \/ \E q \in Pids : s \in pidSegs[q]
        /\ pidSegs' \in [Pids -> SUBSET (1..lastSeg)]
        /\ \A q \in Pids : pidSegs'[q] \subseteq pidSegs[q]
    <3>1. CASE wpc = "reap" /\ CleanupScript(victim)
      <4>1. victim \in Pids /\ pidSegs[victim] \subseteq 1..lastSeg
        BY <2>1, <3>1
      <4>2. /\ current' \in 0..lastSeg /\ current' \in {0, current}
            /\ refcount' \in [Segs -> Nat] /\ side' \subseteq 1..lastSeg
            /\ queue' \subseteq queue \cup pidSegs[victim]
        BY <3>1, <4>1, DropRefsEffect DEF CleanupScript
      <4>3. CurrentIsKept'
        BY <1>23, <3>1, <4>1, DropRefsEffect DEF TickRaises, AbortTick, CleanupScript
      <4> QED
        BY <3>1, <4>1, <4>2, <4>3 DEF CleanupScript, TypeRedis
    <3>2. CASE UNCHANGED <<current, refcount, side, pidSegs>> /\ queue' \subseteq queue
      BY <1>23, <3>2 DEF TickRaises, AbortTick, TypeRedis, CurrentIsKept
    <3> QED
      BY <1>23, <3>1, <3>2 DEF TickRaises, countVars
  <2>3. budget' \in [Faults -> Nat]
    BY <1>23, SpendType DEF TickRaises, Faults
  <2>4. TypeRedis' /\ TypeShm'
    <3>1. hb' \in [Pids -> 0..MaxBirths]
      BY <1>0, <1>23 DEF TickRaises, CleanupScript, TypeRedis
    <3>2. lastSeg' = lastSeg /\ shm' = shm
      BY <1>23 DEF TickRaises
    <3> QED
      BY <2>2, <3>1, <3>2 DEF TypeRedis, TypeShm
  <2>5. TypeProcesses'
    BY <1>23 DEF TickRaises, CleanupScript, TypeProcesses
  <2>6. TypeWatchdog'
    BY <1>0, <1>23 DEF TickRaises, AbortTick, TypeWatchdog
  <2>7. CallsWellFormed'
    BY <1>23, <2>2, SegsType DEF TickRaises, AbortTick, CallsWellFormed,
       Untouched, TypeProcesses
  <2>8. HandlesCreated'
    BY <1>23 DEF TickRaises, AbortTick, HandlesCreated
  <2>9. CurrentIsKept'
    BY <2>2
  <2> QED
    BY <2>3, <2>4, <2>5, <2>6, <2>7, <2>8, <2>9
<1>24. CASE UnlinkRaises
  <2>1. budget' \in [Faults -> Nat]
    BY <1>24, SpendType DEF UnlinkRaises, Faults
  <2>2. TypeRedis' /\ TypeShm'
    BY <1>24 DEF UnlinkRaises, AbortTick, TypeRedis, TypeShm
  <2>3. TypeProcesses'
    BY <1>0, <1>24 DEF UnlinkRaises, AbortTick, TypeProcesses
  <2>4. TypeWatchdog'
    BY <1>0, <1>24 DEF UnlinkRaises, AbortTick, TypeWatchdog
  <2>5. CallsWellFormed'
    BY <1>24 DEF UnlinkRaises, AbortTick, CallsWellFormed, Untouched
  <2>6. HandlesCreated'
    BY <1>24 DEF UnlinkRaises, AbortTick, HandlesCreated
  <2>7. CurrentIsKept'
    BY <1>24 DEF UnlinkRaises, AbortTick, CurrentIsKept
  <2> QED
    BY <2>1, <2>2, <2>3, <2>4, <2>5, <2>6, <2>7
<1>25. CASE WatchdogCrash
  <2>1. budget' \in [Faults -> Nat]
    BY <1>25, SpendType DEF WatchdogCrash, Faults
  <2>2. TypeRedis' /\ TypeShm'
    BY <1>25 DEF WatchdogCrash, AbortTick, TypeRedis, TypeShm
  <2>3. TypeProcesses'
    BY <1>0, <1>25 DEF WatchdogCrash, AbortTick, TypeProcesses
  <2>4. TypeWatchdog'
    BY <1>25, ConstantsAssumption DEF WatchdogCrash, AbortTick, TypeWatchdog
  <2>5. CallsWellFormed'
    BY <1>25 DEF WatchdogCrash, AbortTick, CallsWellFormed, Untouched
  <2>6. HandlesCreated'
    BY <1>25 DEF WatchdogCrash, AbortTick, HandlesCreated
  <2>7. CurrentIsKept'
    BY <1>25 DEF WatchdogCrash, AbortTick, CurrentIsKept
  <2> QED
    BY <2>1, <2>2, <2>3, <2>4, <2>5, <2>6, <2>7
<1>26. CASE UNCHANGED vars
  BY <1>26
  DEF vars, countVars, shmVars, procVars, callVars, tickVars, TypeRedis, TypeShm,
      TypeProcesses, TypeWatchdog, CallsWellFormed, Untouched, HandlesCreated,
      CurrentIsKept
<1> QED
  BY <1>1, <1>2, <1>3, <1>4, <1>5, <1>6, <1>7, <1>8, <1>9, <1>10, <1>11,
     <1>12, <1>13, <1>14, <1>15, <1>16, <1>17, <1>18, <1>19, <1>20, <1>21,
     <1>22, <1>23, <1>24, <1>25, <1>26
  DEF Next, Process, Lifecycle, Call, CallRaises, Watchdog

--------------------------------------------------------------------------------
(* Theorems *)

\* The types, the well-formedness of the calls in progress and CurrentIsKept
\* together are inductive.
THEOREM InductiveInvariant == Spec => []IInv
BY InitIInv, StepIInv, PTL DEF Spec

\* Type correctness of registry, heartbeats and watchdog, for every value of the
\* constants.
THEOREM TypeCorrect == Spec => []TypeOK
BY InductiveInvariant, PTL DEF IInv

\* schema:current always names a counted segment that is in no cleanup queue,
\* whatever crashes, raises, loses a reply or reuses a pid.
THEOREM CurrentNeverReaped == Spec => []CurrentIsKept
BY InductiveInvariant, PTL DEF IInv

--------------------------------------------------------------------------------
(* The count covers the open handles *)

\* No first heartbeat is lost: ensure_started's write reaches Redis.
BeatsArrive == Budget["beat"] = 0

\* What a unit of the count stands for: an open Segment object, or an entry of
\* pid_segments whose holder is gone and which the watchdog will give back.
Tickets(s) ==
    {h \in Pids \X (1..MaxHandles + 1) :
        \/ h[2] <= handles[h[1]][s]
        \/ h[2] = 1 /\ s \in pidSegs[h[1]]}

CountCoversTickets == \A s \in Segs : refcount[s] >= Cardinality(Tickets(s))

\* Only a process with a heartbeat thread calls the registry or holds a segment.
HoldersBeat ==
    /\ \A p \in Pids : op[p] # "idle" => p \in beating
    /\ \A p \in Pids, s \in Segs : handles[p][s] > 0 => p \in beating

\* A process that beats is up and Redis has its own create time; what Redis and
\* the watchdog know of a pid is never of a later incarnation.
BeatsAreOwn ==
    /\ budget["beat"] = 0
    /\ \A p \in Pids : hb[p] <= birth[p] /\ tracked[p] <= birth[p]
    /\ \A p \in Pids : proc[p] = "up" => birth[p] # 0
    /\ \A p \in Pids : p \in beating => proc[p] = "up" /\ hb[p] = birth[p]

\* A process that runs under a victim's pid is not the one the watchdog tracked.
VictimIsGone == wpc = "reap" /\ proc[victim] = "up" => birth[victim] # tracked[victim]

\* OpenGet's bound on the handles, through the rest of the call.
HandlesBounded ==
    /\ \A p \in Pids, s \in Segs : handles[p][s] <= MaxHandles + 1
    /\ \A p \in Pids : op[p] \in {"open", "mapped"} => handles[p][opSeg[p]] <= MaxHandles

PInv == HoldersBeat /\ BeatsAreOwn /\ VictimIsGone /\ HandlesBounded

\* A failure of another kind loses no heartbeat.
LEMMA SpendOther ==
    ASSUME budget \in [Faults -> Nat], NEW f \in Faults, f # "beat", Spend(f)
    PROVE  budget'["beat"] = budget["beat"]
BY DEF Spend, Faults

\* Redis has the heartbeat of a process that took over a victim's pid, so that
\* the script of the watchdog spares it.
LEMMA VictimDoesNotBeat ==
    ASSUME IInv, PInv, wpc = "reap"
    PROVE  victim \in Pids /\ (victim \in beating => PidReused)
BY DEF IInv, TypeOK, TypeWatchdog, TypeProcesses, PInv, BeatsAreOwn, VictimIsGone,
       PidReused

\* The processes, their heartbeats and the watchdog's view of them, step by step.
LEMMA StepPInv == IInv /\ PInv /\ [Next]_vars => PInv'
<1> SUFFICES ASSUME IInv, PInv, [Next]_vars PROVE PInv'
  OBVIOUS
<1> USE DEF countVars, shmVars, procVars, callVars, tickVars
<1>0. /\ TypeProcesses /\ TypeRedis /\ TypeWatchdog /\ TypeShm /\ budget \in [Faults -> Nat]
      /\ MaxBirths \in Nat /\ MaxHandles \in Nat
  BY ConstantsAssumption DEF IInv, TypeOK
<1>1. ASSUME NEW p \in Pids, Spawn(p) PROVE PInv'
  <2>1. HoldersBeat'
    BY <1>0, <1>1 DEF Spawn, PInv, HoldersBeat, TypeProcesses
  <2>2. BeatsAreOwn'
    BY <1>0, <1>1 DEF Spawn, PInv, BeatsAreOwn, TypeProcesses, TypeRedis, TypeWatchdog
  <2>3. VictimIsGone'
    BY <1>0, <1>1 DEF Spawn, PInv, VictimIsGone, BeatsAreOwn, TypeProcesses,
       TypeWatchdog
  <2>4. HandlesBounded'
    BY <1>0, <1>1 DEF Spawn, PInv, HandlesBounded, TypeProcesses
  <2> QED
    BY <2>1, <2>2, <2>3, <2>4 DEF PInv
<1>2. ASSUME NEW p \in Pids, EnsureStarted(p) PROVE PInv'
  <2>1. WriteHeartbeat(p) /\ UNCHANGED budget
    BY <1>0, <1>2 DEF EnsureStarted, Spend, PInv, BeatsAreOwn
  <2>2. HoldersBeat'
    BY <1>0, <1>2 DEF EnsureStarted, PInv, HoldersBeat, TypeProcesses
  <2>3. BeatsAreOwn'
    BY <1>0, <1>2, <2>1 DEF EnsureStarted, WriteHeartbeat, PInv, BeatsAreOwn,
       TypeProcesses, TypeRedis, TypeWatchdog
  <2>4. VictimIsGone' /\ HandlesBounded'
    BY <1>0, <1>2 DEF EnsureStarted, PInv, VictimIsGone, HandlesBounded
  <2> QED
    BY <2>2, <2>3, <2>4 DEF PInv

<1>3. ASSUME NEW p \in Pids, Beat(p) PROVE PInv'
  <2>1. HoldersBeat'
    BY <1>0, <1>3 DEF Beat, WriteHeartbeat, PInv, HoldersBeat, TypeProcesses
  <2>2. BeatsAreOwn'
    BY <1>0, <1>3 DEF Beat, WriteHeartbeat, PInv, BeatsAreOwn, TypeProcesses, TypeRedis,
       TypeWatchdog
  <2>3. VictimIsGone'
    BY <1>0, <1>3 DEF Beat, WriteHeartbeat, PInv, VictimIsGone, BeatsAreOwn,
       TypeProcesses, TypeWatchdog
  <2>4. HandlesBounded'
    BY <1>0, <1>3 DEF Beat, WriteHeartbeat, PInv, HandlesBounded, TypeProcesses
  <2> QED
    BY <2>1, <2>2, <2>3, <2>4 DEF PInv
<1>4. ASSUME NEW p \in Pids, Crash(p) PROVE PInv'
  <2>0. budget'["beat"] = 0
    BY <1>0, <1>4, SpendOther DEF Crash, PInv, BeatsAreOwn, Faults
  <2>1. HoldersBeat'
    BY <1>0, <1>4 DEF Crash, Vanish, PInv, HoldersBeat, TypeProcesses
  <2>2. BeatsAreOwn'
    BY <1>0, <2>0, <1>4 DEF Crash, Vanish, PInv, BeatsAreOwn, TypeProcesses, TypeRedis,
       TypeWatchdog
  <2>3. VictimIsGone'
    BY <1>0, <1>4 DEF Crash, Vanish, PInv, VictimIsGone, BeatsAreOwn, TypeProcesses,
       TypeWatchdog
  <2>4. HandlesBounded'
    BY <1>0, <1>4 DEF Crash, Vanish, PInv, HandlesBounded, TypeProcesses
  <2> QED
    BY <2>1, <2>2, <2>3, <2>4 DEF PInv
<1>5. ASSUME NEW p \in Pids, ParentWaits(p) PROVE PInv'
  <2>1. HoldersBeat'
    BY <1>0, <1>5 DEF ParentWaits, PInv, HoldersBeat, TypeProcesses
  <2>2. BeatsAreOwn'
    BY <1>0, <1>5 DEF ParentWaits, PInv, BeatsAreOwn, TypeProcesses, TypeRedis,
       TypeWatchdog
  <2>3. VictimIsGone'
    BY <1>0, <1>5 DEF ParentWaits, PInv, VictimIsGone, BeatsAreOwn, TypeProcesses,
       TypeWatchdog
  <2>4. HandlesBounded'
    BY <1>0, <1>5 DEF ParentWaits, PInv, HandlesBounded, TypeProcesses
  <2> QED
    BY <2>1, <2>2, <2>3, <2>4 DEF PInv
<1>6. ASSUME NEW p \in Pids, Exit(p) PROVE PInv'
  <2>0. budget'["beat"] = 0
    BY <1>0, <1>6, SpendOther DEF Exit, PInv, BeatsAreOwn, Faults
  <2>1. HoldersBeat'
    BY <1>0, <1>6 DEF Exit, Vanish, PInv, HoldersBeat, TypeProcesses
  <2>2. BeatsAreOwn'
    BY <1>0, <2>0, <1>6 DEF Exit, Vanish, PInv, BeatsAreOwn, TypeProcesses, TypeRedis,
       TypeWatchdog
  <2>3. VictimIsGone'
    BY <1>0, <1>6 DEF Exit, Vanish, PInv, VictimIsGone, BeatsAreOwn, TypeProcesses,
       TypeWatchdog
  <2>4. HandlesBounded'
    BY <1>0, <1>6 DEF Exit, Vanish, PInv, HandlesBounded, TypeProcesses
  <2> QED
    BY <2>1, <2>2, <2>3, <2>4 DEF PInv
<1>7. ASSUME NEW p \in Pids, Create(p) PROVE PInv'
  <2>1. HoldersBeat'
    BY <1>0, <1>7 DEF Create, PInv, HoldersBeat, TypeProcesses
  <2>2. BeatsAreOwn'
    BY <1>0, <1>7 DEF Create, PInv, BeatsAreOwn, TypeProcesses, TypeRedis, TypeWatchdog
  <2>3. VictimIsGone'
    BY <1>0, <1>7 DEF Create, PInv, VictimIsGone, BeatsAreOwn, TypeProcesses,
       TypeWatchdog
  <2>4. HandlesBounded'
    BY <1>0, <1>7 DEF Create, PInv, HandlesBounded, TypeProcesses
  <2> QED
    BY <2>1, <2>2, <2>3, <2>4 DEF PInv
<1>8. ASSUME NEW p \in Pids, Register(p) PROVE PInv'
  <2>1. HoldersBeat'
    BY <1>0, <1>8 DEF Register, EndCall, AddHandle, PInv, HoldersBeat, TypeProcesses
  <2>2. BeatsAreOwn' /\ VictimIsGone'
    BY <1>8 DEF Register, PInv, BeatsAreOwn, VictimIsGone
  <2>3. opSeg[p] \in Segs /\ handles[p][opSeg[p]] = 0
    BY <1>0, <1>8, SegsType DEF Register, IInv, CallsWellFormed, Untouched
  <2>4. \A q \in Pids \ {p} : op'[q] = op[q] /\ opSeg'[q] = opSeg[q] /\ handles'[q] = handles[q]
    BY <1>0, <1>8 DEF Register, EndCall, AddHandle, TypeProcesses
  <2>5. /\ op'[p] = "idle" /\ handles'[p][opSeg[p]] = 1
        /\ \A s \in Segs \ {opSeg[p]} : handles'[p][s] = handles[p][s]
    BY <1>0, <1>8, <2>3 DEF Register, EndCall, AddHandle, TypeProcesses
  <2>6. \A q \in Pids, s \in Segs : handles'[q][s] <= MaxHandles + 1
    BY <1>0, <2>3, <2>4, <2>5 DEF PInv, HandlesBounded, TypeProcesses
  <2>7. HandlesBounded'
    BY <2>4, <2>5, <2>6 DEF PInv, HandlesBounded
  <2> QED
    BY <2>1, <2>2, <2>7 DEF PInv

<1>9. ASSUME NEW p \in Pids, RegisterRaises(p) PROVE PInv'
  <2>0. budget'["beat"] = 0
    BY <1>0, <1>9, SpendOther DEF RegisterRaises, PInv, BeatsAreOwn, Faults
  <2>1. HoldersBeat'
    BY <1>0, <1>9 DEF RegisterRaises, EndCall, PInv, HoldersBeat, TypeProcesses
  <2>2. BeatsAreOwn'
    BY <1>0, <2>0, <1>9 DEF RegisterRaises, EndCall, PInv, BeatsAreOwn, TypeProcesses,
       TypeRedis, TypeWatchdog
  <2>3. VictimIsGone'
    BY <1>0, <1>9 DEF RegisterRaises, EndCall, PInv, VictimIsGone, BeatsAreOwn,
       TypeProcesses, TypeWatchdog
  <2>4. HandlesBounded'
    BY <1>0, <1>9 DEF RegisterRaises, EndCall, PInv, HandlesBounded, TypeProcesses
  <2> QED
    BY <2>1, <2>2, <2>3, <2>4 DEF PInv
<1>10. ASSUME NEW p \in Pids, OpenGet(p) PROVE PInv'
  <2>1. HoldersBeat'
    BY <1>0, <1>10 DEF OpenGet, PInv, HoldersBeat, TypeProcesses
  <2>2. BeatsAreOwn' /\ VictimIsGone'
    BY <1>10 DEF OpenGet, PInv, BeatsAreOwn, VictimIsGone
  <2>3. handles[p][current] \in Nat /\ handles[p][current] <= MaxHandles
    <3>1. current \in Segs
      BY <1>0, <1>10, SegsType DEF OpenGet, TypeRedis
    <3> QED
      BY <1>0, <1>10, <3>1 DEF OpenGet, TypeProcesses
  <2>4. HandlesBounded'
    BY <1>0, <1>10, <2>3 DEF OpenGet, PInv, HandlesBounded, TypeProcesses
  <2> QED
    BY <2>1, <2>2, <2>4 DEF PInv

<1>11. ASSUME NEW p \in Pids, OpenMap(p) PROVE PInv'
  <2>1. HoldersBeat'
    BY <1>0, <1>11 DEF OpenMap, PInv, HoldersBeat, TypeProcesses
  <2>2. BeatsAreOwn'
    BY <1>0, <1>11 DEF OpenMap, PInv, BeatsAreOwn, TypeProcesses, TypeRedis,
       TypeWatchdog
  <2>3. VictimIsGone'
    BY <1>0, <1>11 DEF OpenMap, PInv, VictimIsGone, BeatsAreOwn, TypeProcesses,
       TypeWatchdog
  <2>4. HandlesBounded'
    BY <1>0, <1>11 DEF OpenMap, PInv, HandlesBounded, TypeProcesses
  <2> QED
    BY <2>1, <2>2, <2>3, <2>4 DEF PInv
<1>12. ASSUME NEW p \in Pids, OpenRefused(p) PROVE PInv'
  <2>1. HoldersBeat'
    BY <1>0, <1>12 DEF OpenRefused, EndCall, PInv, HoldersBeat, TypeProcesses
  <2>2. BeatsAreOwn'
    BY <1>0, <1>12 DEF OpenRefused, EndCall, PInv, BeatsAreOwn, TypeProcesses,
       TypeRedis, TypeWatchdog
  <2>3. VictimIsGone'
    BY <1>0, <1>12 DEF OpenRefused, EndCall, PInv, VictimIsGone, BeatsAreOwn,
       TypeProcesses, TypeWatchdog
  <2>4. HandlesBounded'
    BY <1>0, <1>12 DEF OpenRefused, EndCall, PInv, HandlesBounded, TypeProcesses
  <2> QED
    BY <2>1, <2>2, <2>3, <2>4 DEF PInv
<1>13. ASSUME NEW p \in Pids, OpenCount(p) PROVE PInv'
  <2>1. HoldersBeat'
    BY <1>0, <1>13 DEF OpenCount, EndCall, AddHandle, PInv, HoldersBeat, TypeProcesses
  <2>2. BeatsAreOwn'
    BY <1>0, <1>13 DEF OpenCount, EndCall, AddHandle, PInv, BeatsAreOwn, TypeProcesses,
       TypeRedis, TypeWatchdog
  <2>3. VictimIsGone'
    BY <1>0, <1>13 DEF OpenCount, EndCall, AddHandle, PInv, VictimIsGone, BeatsAreOwn,
       TypeProcesses, TypeWatchdog
  <2>4. HandlesBounded'
    BY <1>0, <1>13 DEF OpenCount, EndCall, AddHandle, PInv, HandlesBounded,
       TypeProcesses
  <2> QED
    BY <2>1, <2>2, <2>3, <2>4 DEF PInv
<1>14. ASSUME NEW p \in Pids, OpenRaises(p) PROVE PInv'
  <2>0. budget'["beat"] = 0
    BY <1>0, <1>14, SpendOther DEF OpenRaises, PInv, BeatsAreOwn, Faults
  <2>1. HoldersBeat'
    BY <1>0, <1>14 DEF OpenRaises, EndCall, PInv, HoldersBeat, TypeProcesses
  <2>2. BeatsAreOwn'
    BY <1>0, <2>0, <1>14 DEF OpenRaises, EndCall, PInv, BeatsAreOwn, TypeProcesses,
       TypeRedis, TypeWatchdog
  <2>3. VictimIsGone'
    BY <1>0, <1>14 DEF OpenRaises, EndCall, PInv, VictimIsGone, BeatsAreOwn,
       TypeProcesses, TypeWatchdog
  <2>4. HandlesBounded'
    BY <1>0, <1>14 DEF OpenRaises, EndCall, PInv, HandlesBounded, TypeProcesses
  <2> QED
    BY <2>1, <2>2, <2>3, <2>4 DEF PInv
<1>15. ASSUME NEW p \in Pids, NEW s \in Segs, Close(p, s) PROVE PInv'
  <2>1. HoldersBeat'
    BY <1>0, <1>15 DEF Close, DropHandle, PInv, HoldersBeat, TypeProcesses
  <2>2. BeatsAreOwn'
    BY <1>0, <1>15 DEF Close, DropHandle, PInv, BeatsAreOwn, TypeProcesses, TypeRedis,
       TypeWatchdog
  <2>3. VictimIsGone'
    BY <1>0, <1>15 DEF Close, DropHandle, PInv, VictimIsGone, BeatsAreOwn,
       TypeProcesses, TypeWatchdog
  <2>4. HandlesBounded'
    BY <1>0, <1>15 DEF Close, DropHandle, PInv, HandlesBounded, TypeProcesses
  <2> QED
    BY <2>1, <2>2, <2>3, <2>4 DEF PInv
<1>16. ASSUME NEW p \in Pids, NEW s \in Segs, CloseRaises(p, s) PROVE PInv'
  <2>0. budget'["beat"] = 0
    BY <1>0, <1>16, SpendOther DEF CloseRaises, PInv, BeatsAreOwn, Faults
  <2>1. HoldersBeat'
    BY <1>0, <1>16 DEF CloseRaises, DropHandle, PInv, HoldersBeat, TypeProcesses
  <2>2. BeatsAreOwn'
    BY <1>0, <2>0, <1>16 DEF CloseRaises, DropHandle, PInv, BeatsAreOwn, TypeProcesses,
       TypeRedis, TypeWatchdog
  <2>3. VictimIsGone'
    BY <1>0, <1>16 DEF CloseRaises, DropHandle, PInv, VictimIsGone, BeatsAreOwn,
       TypeProcesses, TypeWatchdog
  <2>4. HandlesBounded'
    BY <1>0, <1>16 DEF CloseRaises, DropHandle, PInv, HandlesBounded, TypeProcesses
  <2> QED
    BY <2>1, <2>2, <2>3, <2>4 DEF PInv
<1>17. ASSUME Tick PROVE PInv'
  <2>1. HoldersBeat'
    BY <1>0, <1>17 DEF Tick, PInv, HoldersBeat, TypeProcesses
  <2>2. BeatsAreOwn'
    BY <1>0, <1>17 DEF Tick, PInv, BeatsAreOwn, TypeProcesses, TypeRedis, TypeWatchdog
  <2>3. VictimIsGone'
    BY <1>0, <1>17 DEF Tick, PInv, VictimIsGone, BeatsAreOwn, TypeProcesses,
       TypeWatchdog
  <2>4. HandlesBounded'
    BY <1>0, <1>17 DEF Tick, PInv, HandlesBounded, TypeProcesses
  <2> QED
    BY <2>1, <2>2, <2>3, <2>4 DEF PInv
<1>18. ASSUME NEW p \in Pids, CrossCheck(p) PROVE PInv'
  <2>1. HoldersBeat'
    BY <1>0, <1>18 DEF CrossCheck, LooksDead, PInv, HoldersBeat, TypeProcesses
  <2>2. BeatsAreOwn'
    BY <1>0, <1>18 DEF CrossCheck, LooksDead, PInv, BeatsAreOwn, TypeProcesses,
       TypeRedis, TypeWatchdog
  <2>3. VictimIsGone'
    BY <1>0, <1>18 DEF CrossCheck, LooksDead, PInv, VictimIsGone, BeatsAreOwn,
       TypeProcesses, TypeWatchdog
  <2>4. HandlesBounded'
    BY <1>0, <1>18 DEF CrossCheck, LooksDead, PInv, HandlesBounded, TypeProcesses
  <2> QED
    BY <2>1, <2>2, <2>3, <2>4 DEF PInv
<1>19. ASSUME CleanupDeadPid PROVE PInv'
  <2>1. victim \in Pids /\ (victim \in beating => PidReused)
    BY <1>0, <1>19, VictimDoesNotBeat DEF CleanupDeadPid
  <2>2. HoldersBeat' /\ HandlesBounded'
    BY <1>19 DEF CleanupDeadPid, PInv, HoldersBeat, HandlesBounded
  <2>3. VictimIsGone'
    BY <1>19 DEF CleanupDeadPid, VictimIsGone
  <2>4. \A p \in Pids : /\ hb'[p] \in {0, hb[p]} /\ tracked'[p] \in {0, tracked[p]}
                        /\ p \in beating => hb'[p] = hb[p]
    BY <1>0, <1>19, <2>1 DEF CleanupDeadPid, CleanupScript, TypeRedis, TypeWatchdog
  <2>5. BeatsAreOwn'
    BY <1>0, <1>19, <2>4 DEF CleanupDeadPid, PInv, BeatsAreOwn, TypeProcesses
  <2> QED
    BY <2>2, <2>3, <2>5 DEF PInv

<1>20. ASSUME DrainQueue PROVE PInv'
  <2>1. HoldersBeat'
    BY <1>0, <1>20 DEF DrainQueue, PInv, HoldersBeat, TypeProcesses
  <2>2. BeatsAreOwn'
    BY <1>0, <1>20 DEF DrainQueue, PInv, BeatsAreOwn, TypeProcesses, TypeRedis,
       TypeWatchdog
  <2>3. VictimIsGone'
    BY <1>0, <1>20 DEF DrainQueue, PInv, VictimIsGone, BeatsAreOwn, TypeProcesses,
       TypeWatchdog
  <2>4. HandlesBounded'
    BY <1>0, <1>20 DEF DrainQueue, PInv, HandlesBounded, TypeProcesses
  <2> QED
    BY <2>1, <2>2, <2>3, <2>4 DEF PInv
<1>21. ASSUME NEW s \in Segs, Unlink(s) PROVE PInv'
  <2>1. HoldersBeat'
    BY <1>0, <1>21 DEF Unlink, PInv, HoldersBeat, TypeProcesses
  <2>2. BeatsAreOwn'
    BY <1>0, <1>21 DEF Unlink, PInv, BeatsAreOwn, TypeProcesses, TypeRedis, TypeWatchdog
  <2>3. VictimIsGone'
    BY <1>0, <1>21 DEF Unlink, PInv, VictimIsGone, BeatsAreOwn, TypeProcesses,
       TypeWatchdog
  <2>4. HandlesBounded'
    BY <1>0, <1>21 DEF Unlink, PInv, HandlesBounded, TypeProcesses
  <2> QED
    BY <2>1, <2>2, <2>3, <2>4 DEF PInv
<1>22. ASSUME TickEnd PROVE PInv'
  <2>1. HoldersBeat'
    BY <1>0, <1>22 DEF TickEnd, PInv, HoldersBeat, TypeProcesses
  <2>2. BeatsAreOwn'
    BY <1>0, <1>22 DEF TickEnd, PInv, BeatsAreOwn, TypeProcesses, TypeRedis,
       TypeWatchdog
  <2>3. VictimIsGone'
    BY <1>0, <1>22 DEF TickEnd, PInv, VictimIsGone, BeatsAreOwn, TypeProcesses,
       TypeWatchdog
  <2>4. HandlesBounded'
    BY <1>0, <1>22 DEF TickEnd, PInv, HandlesBounded, TypeProcesses
  <2> QED
    BY <2>1, <2>2, <2>3, <2>4 DEF PInv
<1>23. ASSUME TickRaises PROVE PInv'
  <2>0. budget'["beat"] = 0
    BY <1>0, <1>23, SpendOther DEF TickRaises, PInv, BeatsAreOwn, Faults
  <2>1. wpc = "reap" => victim \in Pids /\ (victim \in beating => PidReused)
    BY <1>0, VictimDoesNotBeat
  <2>2. HoldersBeat' /\ HandlesBounded'
    BY <1>23 DEF TickRaises, PInv, HoldersBeat, HandlesBounded
  <2>3. VictimIsGone'
    BY <1>23 DEF TickRaises, AbortTick, VictimIsGone
  <2>4. \A p \in Pids : hb'[p] \in {0, hb[p]} /\ (p \in beating => hb'[p] = hb[p])
    BY <1>0, <1>23, <2>1 DEF TickRaises, CleanupScript, TypeRedis
  <2>5. BeatsAreOwn'
    BY <1>0, <2>0, <1>23, <2>4 DEF TickRaises, PInv, BeatsAreOwn, TypeProcesses
  <2> QED
    BY <2>2, <2>3, <2>5 DEF PInv

<1>24. ASSUME UnlinkRaises PROVE PInv'
  <2>0. budget'["beat"] = 0
    BY <1>0, <1>24, SpendOther DEF UnlinkRaises, PInv, BeatsAreOwn, Faults
  <2>1. HoldersBeat'
    BY <1>0, <1>24 DEF UnlinkRaises, AbortTick, PInv, HoldersBeat, TypeProcesses
  <2>2. BeatsAreOwn'
    BY <1>0, <2>0, <1>24 DEF UnlinkRaises, AbortTick, PInv, BeatsAreOwn, TypeProcesses,
       TypeRedis, TypeWatchdog
  <2>3. VictimIsGone'
    BY <1>0, <1>24 DEF UnlinkRaises, AbortTick, PInv, VictimIsGone, BeatsAreOwn,
       TypeProcesses, TypeWatchdog
  <2>4. HandlesBounded'
    BY <1>0, <1>24 DEF UnlinkRaises, AbortTick, PInv, HandlesBounded, TypeProcesses
  <2> QED
    BY <2>1, <2>2, <2>3, <2>4 DEF PInv
<1>25. ASSUME WatchdogCrash PROVE PInv'
  <2>0. budget'["beat"] = 0
    BY <1>0, <1>25, SpendOther DEF WatchdogCrash, PInv, BeatsAreOwn, Faults
  <2>1. HoldersBeat'
    BY <1>0, <1>25 DEF WatchdogCrash, AbortTick, PInv, HoldersBeat, TypeProcesses
  <2>2. BeatsAreOwn'
    BY <1>0, <2>0, <1>25 DEF WatchdogCrash, AbortTick, PInv, BeatsAreOwn, TypeProcesses,
       TypeRedis, TypeWatchdog
  <2>3. VictimIsGone'
    BY <1>0, <1>25 DEF WatchdogCrash, AbortTick, PInv, VictimIsGone, BeatsAreOwn,
       TypeProcesses, TypeWatchdog
  <2>4. HandlesBounded'
    BY <1>0, <1>25 DEF WatchdogCrash, AbortTick, PInv, HandlesBounded, TypeProcesses
  <2> QED
    BY <2>1, <2>2, <2>3, <2>4 DEF PInv
<1>26. CASE UNCHANGED vars
  BY <1>26 DEF vars, PInv, HoldersBeat, BeatsAreOwn, VictimIsGone, HandlesBounded
<1> QED
  BY <1>1, <1>2, <1>3, <1>4, <1>5, <1>6, <1>7, <1>8, <1>9, <1>10, <1>11, <1>12, <1>13,
     <1>14, <1>15, <1>16, <1>17, <1>18, <1>19, <1>20, <1>21, <1>22, <1>23, <1>24, <1>25,
     <1>26
  DEF Next, Process, Lifecycle, Call, CallRaises, Watchdog

\* Counting with a finite set: a subset, one element more, one element less.
LEMMA CardinalityBounds ==
    ASSUME NEW S, NEW T, IsFiniteSet(S), IsFiniteSet(T)
    PROVE  /\ Cardinality(S) \in Nat /\ Cardinality(T) \in Nat
           /\ T \subseteq S => Cardinality(T) <= Cardinality(S)
           /\ \A x : T \subseteq S \cup {x} => Cardinality(T) <= Cardinality(S) + 1
           /\ \A x \in S : T \subseteq S \ {x} => Cardinality(T) <= Cardinality(S) - 1
<1>1. Cardinality(S) \in Nat /\ Cardinality(T) \in Nat
  BY FS_CardinalityType
<1>2. T \subseteq S => Cardinality(T) <= Cardinality(S)
  BY FS_Subset
<1>3. ASSUME NEW x, T \subseteq S \cup {x} PROVE Cardinality(T) <= Cardinality(S) + 1
  <2>1. /\ IsFiniteSet(S \cup {x})
        /\ Cardinality(S \cup {x}) = Cardinality(S) \/ Cardinality(S \cup {x}) = Cardinality(S) + 1
    BY FS_AddElement
  <2>2. Cardinality(T) <= Cardinality(S \cup {x})
    BY <1>3, <2>1, FS_Subset
  <2> QED
    BY <1>1, <2>1, <2>2
<1>4. ASSUME NEW x \in S, T \subseteq S \ {x} PROVE Cardinality(T) <= Cardinality(S) - 1
  <2>1. IsFiniteSet(S \ {x}) /\ Cardinality(S \ {x}) = Cardinality(S) - 1
    BY FS_RemoveElement
  <2> QED
    BY <1>4, <2>1, FS_Subset
<1> QED
  BY <1>1, <1>2, <1>3, <1>4

\* There are finitely many tickets.
LEMMA TicketsFinite ==
    ASSUME NEW s
    PROVE  IsFiniteSet(Tickets(s)) /\ IsFiniteSet(Tickets(s)')
<1> DEFINE U == Pids \X (1..MaxHandles + 1)
<1>1. IsFiniteSet(U)
  <2>1. 1 \in Int /\ NumPids \in Int /\ MaxHandles + 1 \in Int
    BY ConstantsAssumption
  <2>2. IsFiniteSet(Pids) /\ IsFiniteSet(1..MaxHandles + 1)
    BY <2>1, FS_Interval DEF Pids
  <2> QED
    BY <2>2, FS_Product
<1>2. Tickets(s) \subseteq U /\ Tickets(s)' \subseteq U
  BY DEF Tickets
<1> QED
  BY <1>1, <1>2, FS_Subset

\* A step that gives nobody a handle or an entry of pid_segments.
LEMMA NoNewTickets ==
    ASSUME CountCoversTickets, refcount \in [Segs -> Nat], refcount' = refcount,
           pidSegs' = pidSegs,
           handles \in [Pids -> [Segs -> Nat]], handles' \in [Pids -> [Segs -> Nat]],
           \A p \in Pids, s \in Segs : handles'[p][s] <= handles[p][s]
    PROVE  CountCoversTickets'
<1> SUFFICES ASSUME NEW s \in Segs PROVE refcount[s] >= Cardinality(Tickets(s)')
  BY DEF CountCoversTickets
<1>1. Tickets(s)' \subseteq Tickets(s)
  BY ConstantsAssumption DEF Tickets
<1>2. refcount[s] \in Nat /\ refcount[s] >= Cardinality(Tickets(s))
  BY DEF CountCoversTickets
<1>3. /\ Cardinality(Tickets(s)) \in Nat /\ Cardinality(Tickets(s)') \in Nat
      /\ Cardinality(Tickets(s)') <= Cardinality(Tickets(s))
  BY <1>1, TicketsFinite, CardinalityBounds
<1> QED
  BY <1>2, <1>3

\* The handles after a step that changes at most those that p has of s.
OthersKept(p, s) ==
    /\ handles \in [Pids -> [Segs -> Nat]] /\ handles' \in [Pids -> [Segs -> Nat]]
    /\ \A q \in Pids, t \in Segs : q # p \/ t # s => handles'[q][t] = handles[q][t]

\* The create transaction of a segment nobody knows: one count, one ticket.
LEMMA EnrolCovers ==
    ASSUME TypeRedis, CountCoversTickets, NEW p \in Pids, NEW s \in Segs, NEW b \in BOOLEAN,
           Enrol(p, s, b), Untouched(s), OthersKept(p, s), handles'[p][s] <= 1
    PROVE  CountCoversTickets'
<1> SUFFICES ASSUME NEW t \in Segs PROVE refcount'[t] >= Cardinality(Tickets(t)')
  BY DEF CountCoversTickets
<1>1. /\ refcount' = [refcount EXCEPT ![s] = 1]
      /\ pidSegs' = [pidSegs EXCEPT ![p] = @ \cup {s}]
  BY DEF Enrol
<1>2. /\ Cardinality(Tickets(t)) \in Nat /\ Cardinality(Tickets(t)') \in Nat
      /\ refcount[t] \in Nat /\ refcount[t] >= Cardinality(Tickets(t))
  BY TicketsFinite, CardinalityBounds DEF CountCoversTickets, TypeRedis
<1>3. CASE t = s
  <2>1. refcount'[t] = 1
    BY <1>1, <1>3 DEF TypeRedis
  <2>2. \A q \in Pids : s \notin pidSegs[q] /\ handles[q][s] = 0
    BY DEF Untouched
  <2>3. \A q \in Pids : q # p => s \notin pidSegs'[q] /\ handles'[q][s] = 0
    BY <1>1, <2>2 DEF OthersKept, TypeRedis
  <2>4. handles'[p][s] \in Nat
    BY DEF OthersKept
  <2>5. Tickets(t)' \subseteq {} \cup {<<p, 1>>}
    BY <1>3, <2>3, <2>4, ConstantsAssumption DEF Tickets
  <2>6. Cardinality(Tickets(t)') <= 0 + 1
    BY <2>5, TicketsFinite, CardinalityBounds, FS_EmptySet
  <2> QED
    BY <1>2, <2>1, <2>6
<1>4. CASE t # s
  <2>1. refcount'[t] = refcount[t]
    BY <1>1, <1>4 DEF TypeRedis
  <2>2. \A q \in Pids : (t \in pidSegs'[q] <=> t \in pidSegs[q]) /\ handles'[q][t] = handles[q][t]
    BY <1>1, <1>4 DEF OthersKept, TypeRedis
  <2>3. Tickets(t)' \subseteq Tickets(t)
    BY <2>2 DEF Tickets
  <2>4. Cardinality(Tickets(t)') <= Cardinality(Tickets(t))
    BY <2>3, TicketsFinite, CardinalityBounds
  <2> QED
    BY <1>2, <2>1, <2>4
<1> QED
  BY <1>3, <1>4

\* The open_current transaction: one count, at most one more ticket.
LEMMA CountCovers ==
    ASSUME TypeRedis, CountCoversTickets, NEW p \in Pids, NEW s \in Segs,
           Count(p, s), OthersKept(p, s),
           handles'[p][s] = handles[p][s] \/ handles'[p][s] = handles[p][s] + 1
    PROVE  CountCoversTickets'
<1> SUFFICES ASSUME NEW t \in Segs PROVE refcount'[t] >= Cardinality(Tickets(t)')
  BY DEF CountCoversTickets
<1>1. /\ refcount' = [refcount EXCEPT ![s] = @ + 1]
      /\ pidSegs' = [pidSegs EXCEPT ![p] = @ \cup {s}]
  BY DEF Count
<1>2. /\ Cardinality(Tickets(t)) \in Nat /\ Cardinality(Tickets(t)') \in Nat
      /\ refcount[t] \in Nat /\ refcount[t] >= Cardinality(Tickets(t))
  BY TicketsFinite, CardinalityBounds DEF CountCoversTickets, TypeRedis
<1>3. \A q \in Pids : q # p \/ t # s =>
          (t \in pidSegs'[q] <=> t \in pidSegs[q]) /\ handles'[q][t] = handles[q][t]
  BY <1>1 DEF OthersKept, TypeRedis
<1>4. CASE t = s
  <2>1. refcount'[t] = refcount[t] + 1
    BY <1>1, <1>4 DEF TypeRedis
  <2>2. handles[p][s] \in Nat /\ handles'[p][s] \in Nat
    BY DEF OthersKept
  <2>3. \E x : Tickets(t)' \subseteq Tickets(t) \cup {x}
    <3>1. CASE handles'[p][s] = handles[p][s]
      <4>1. Tickets(t)' \subseteq Tickets(t) \cup {<<p, 1>>}
        BY <1>3, <1>4, <2>2, <3>1 DEF Tickets
      <4> QED
        BY <4>1
    <3>2. CASE handles'[p][s] = handles[p][s] + 1
      <4>1. Tickets(t)' \subseteq Tickets(t) \cup {<<p, handles[p][s] + 1>>}
        <5> SUFFICES ASSUME NEW q \in Pids, NEW i \in 1..MaxHandles + 1,
                            <<q, i>> \in Tickets(t)'
                     PROVE  <<q, i>> \in Tickets(t) \/ (q = p /\ i = handles[p][s] + 1)
          BY DEF Tickets
        <5>1. i \in Nat /\ i >= 1
          BY ConstantsAssumption
        <5>2. CASE q # p
          BY <1>3, <5>2 DEF Tickets
        <5>3. CASE q = p
          <6>1. i <= handles[p][s] + 1 \/ i = 1
            BY <1>4, <3>2, <5>3 DEF Tickets
          <6>2. i <= handles[p][s] => <<q, i>> \in Tickets(t)
            BY <1>4, <5>3 DEF Tickets
          <6> QED
            BY <2>2, <5>1, <5>3, <6>1, <6>2
        <5> QED
          BY <5>2, <5>3
      <4> QED
        BY <4>1
    <3> QED
      BY <3>1, <3>2
  <2>4. Cardinality(Tickets(t)') <= Cardinality(Tickets(t)) + 1
    BY <2>3, TicketsFinite, CardinalityBounds
  <2> QED
    BY <1>2, <2>1, <2>4
<1>5. CASE t # s
  <2>1. refcount'[t] = refcount[t]
    BY <1>1, <1>5 DEF TypeRedis
  <2>2. Tickets(t)' \subseteq Tickets(t)
    BY <1>3, <1>5 DEF Tickets
  <2>3. Cardinality(Tickets(t)') <= Cardinality(Tickets(t))
    BY <2>2, TicketsFinite, CardinalityBounds
  <2> QED
    BY <1>2, <2>1, <2>3
<1> QED
  BY <1>4, <1>5

\* What a script takes off the counts.
LEMMA DropRefsCounts ==
    ASSUME TypeRedis, NEW D, DropRefs(D), NEW t \in Segs
    PROVE  /\ refcount'[t] \in Nat
           /\ t \notin D => refcount'[t] = refcount[t]
           /\ t \in D => refcount'[t] >= refcount[t] - 1
<1>1. refcount'[t] = IF t \in D /\ refcount[t] <= 1 THEN 0
                     ELSE IF t \in D THEN refcount[t] - 1
                     ELSE refcount[t]
  BY DEF DropRefs
<1>2. refcount[t] \in Nat
  BY DEF TypeRedis
<1> QED
  BY <1>1, <1>2

\* _CLOSE_LUA: one count less, one handle less.
LEMMA CloseCovers ==
    ASSUME TypeRedis, CountCoversTickets, NEW p \in Pids, NEW s \in Segs,
           CloseScript(p, s), OthersKept(p, s),
           handles[p][s] \in 1..MaxHandles + 1, handles'[p][s] = handles[p][s] - 1
    PROVE  CountCoversTickets'
<1> SUFFICES ASSUME NEW t \in Segs PROVE refcount'[t] >= Cardinality(Tickets(t)')
  BY DEF CountCoversTickets
<1>1. DropRefs({s}) /\ pidSegs' = [pidSegs EXCEPT ![p] = @ \ {s}]
  BY DEF CloseScript
<1>2. /\ Cardinality(Tickets(t)) \in Nat /\ Cardinality(Tickets(t)') \in Nat
      /\ refcount[t] \in Nat /\ refcount[t] >= Cardinality(Tickets(t))
  BY TicketsFinite, CardinalityBounds DEF CountCoversTickets, TypeRedis
<1>3. \A q \in Pids : q # p \/ t # s =>
          (t \in pidSegs'[q] <=> t \in pidSegs[q]) /\ handles'[q][t] = handles[q][t]
  BY <1>1 DEF OthersKept, TypeRedis
<1>4. CASE t = s
  <2>1. refcount'[t] \in Nat /\ refcount'[t] >= refcount[t] - 1
    BY <1>1, <1>4, DropRefsCounts
  <2>2. /\ handles[p][s] \in Nat /\ handles[p][s] >= 1 /\ handles'[p][s] \in Nat
        /\ s \notin pidSegs'[p]
    BY <1>1, ConstantsAssumption DEF OthersKept, TypeRedis
  <2> DEFINE x == <<p, handles[p][s]>>
  <2>3. x \in Tickets(t)
    BY <1>4, <2>2 DEF Tickets
  <2>4. Tickets(t)' \subseteq Tickets(t) \ {x}
    <3> SUFFICES ASSUME NEW q \in Pids, NEW i \in 1..MaxHandles + 1, <<q, i>> \in Tickets(t)'
                 PROVE  <<q, i>> \in Tickets(t) /\ (q # p \/ i # handles[p][s])
      BY DEF Tickets
    <3>1. i \in Nat
      BY ConstantsAssumption
    <3>2. CASE q # p
      BY <1>3, <3>2 DEF Tickets
    <3>3. CASE q = p
      <4>1. i <= handles[p][s] - 1
        BY <1>4, <2>2, <3>3 DEF Tickets
      <4> QED
        BY <1>4, <2>2, <3>1, <3>3, <4>1 DEF Tickets
    <3> QED
      BY <3>2, <3>3
  <2>5. Cardinality(Tickets(t)') <= Cardinality(Tickets(t)) - 1
    <3> HIDE DEF x
    <3> QED
      BY <2>3, <2>4, TicketsFinite, CardinalityBounds
  <2> QED
    BY <1>2, <2>1, <2>5
<1>5. CASE t # s
  <2>1. refcount'[t] = refcount[t]
    BY <1>1, <1>5, DropRefsCounts
  <2>2. Tickets(t)' \subseteq Tickets(t)
    BY <1>3, <1>5 DEF Tickets
  <2>3. Cardinality(Tickets(t)') <= Cardinality(Tickets(t))
    BY <2>2, TicketsFinite, CardinalityBounds
  <2> QED
    BY <1>2, <2>1, <2>3
<1> QED
  BY <1>4, <1>5

\* CLEANUP_DEAD_PID_LUA for a pid without handles: the tickets it gives back are
\* the entries of its pid_segments.
LEMMA CleanupCovers ==
    ASSUME TypeRedis, CountCoversTickets, NEW v \in Pids, CleanupScript(v),
           handles \in [Pids -> [Segs -> Nat]], handles' = handles,
           \A s \in Segs : handles[v][s] = 0
    PROVE  CountCoversTickets'
<1> SUFFICES ASSUME NEW t \in Segs PROVE refcount'[t] >= Cardinality(Tickets(t)')
  BY DEF CountCoversTickets
<1>1. DropRefs(pidSegs[v]) /\ pidSegs' = [pidSegs EXCEPT ![v] = {}]
  BY DEF CleanupScript
<1>2. /\ Cardinality(Tickets(t)) \in Nat /\ Cardinality(Tickets(t)') \in Nat
      /\ refcount[t] \in Nat /\ refcount[t] >= Cardinality(Tickets(t))
  BY TicketsFinite, CardinalityBounds DEF CountCoversTickets, TypeRedis
<1>3. /\ t \notin pidSegs'[v] /\ handles'[v][t] = 0
      /\ \A q \in Pids : q # v =>
            (t \in pidSegs'[q] <=> t \in pidSegs[q]) /\ handles'[q][t] = handles[q][t]
  BY <1>1 DEF TypeRedis
<1>4. \A h \in Tickets(t)' : h \in Tickets(t) /\ h # <<v, 1>>
  <2> SUFFICES ASSUME NEW q \in Pids, NEW i \in 1..MaxHandles + 1, <<q, i>> \in Tickets(t)'
               PROVE  <<q, i>> \in Tickets(t) /\ q # v
    BY DEF Tickets
  <2>1. i \in Nat /\ i > 0
    BY ConstantsAssumption
  <2>2. q # v
    BY <1>3, <2>1 DEF Tickets
  <2> QED
    BY <1>3, <2>2 DEF Tickets
<1>5. CASE t \in pidSegs[v]
  <2>1. refcount'[t] \in Nat /\ refcount'[t] >= refcount[t] - 1
    BY <1>1, <1>5, DropRefsCounts
  <2>2. <<v, 1>> \in Tickets(t)
    BY <1>5, ConstantsAssumption DEF Tickets
  <2>3. Tickets(t)' \subseteq Tickets(t) \ {<<v, 1>>}
    BY <1>4
  <2>4. Cardinality(Tickets(t)') <= Cardinality(Tickets(t)) - 1
    BY <2>2, <2>3, TicketsFinite, CardinalityBounds
  <2> QED
    BY <1>2, <2>1, <2>4
<1>6. CASE t \notin pidSegs[v]
  <2>1. refcount'[t] = refcount[t]
    BY <1>1, <1>6, DropRefsCounts
  <2>2. Cardinality(Tickets(t)') <= Cardinality(Tickets(t))
    BY <1>4, TicketsFinite, CardinalityBounds
  <2> QED
    BY <1>2, <2>1, <2>2
<1> QED
  BY <1>5, <1>6

\* Every step keeps the tickets covered.
LEMMA StepTickets ==
    ASSUME IInv, IInv', PInv, CountCoversTickets, [Next]_vars
    PROVE  CountCoversTickets'
<1> USE DEF countVars, shmVars, procVars, callVars, tickVars
<1>0. /\ TypeRedis /\ TypeShm /\ refcount \in [Segs -> Nat] /\ MaxHandles \in Nat
      /\ handles \in [Pids -> [Segs -> Nat]] /\ handles' \in [Pids -> [Segs -> Nat]]
  BY ConstantsAssumption DEF IInv, TypeOK, TypeRedis, TypeProcesses
<1> DEFINE Quiet == /\ refcount' = refcount /\ pidSegs' = pidSegs
                    /\ \A p \in Pids, s \in Segs : handles'[p][s] <= handles[p][s]
<1>1. CASE Quiet
  BY <1>0, <1>1, NoNewTickets
<1>2. CASE refcount' = refcount /\ pidSegs' = pidSegs /\ handles' = handles
  BY <1>0, <1>1, <1>2
<1>3. ASSUME NEW p \in Pids, Crash(p) \/ Exit(p) PROVE CountCoversTickets'
  <2>1. refcount' = refcount /\ pidSegs' = pidSegs
    BY <1>3 DEF Crash, Exit
  <2>2. \A q \in Pids, s \in Segs : handles'[q][s] \in {0, handles[q][s]}
    BY <1>0, <1>3 DEF Crash, Exit, Vanish
  <2> QED
    BY <1>0, <1>1, <2>1, <2>2
<1>4. ASSUME NEW p \in Pids, Register(p) \/ RegisterRaises(p) PROVE CountCoversTickets'
  <2>1. opSeg[p] \in Segs /\ Untouched(opSeg[p]) /\ handles[p][opSeg[p]] = 0
    BY <1>0, <1>4, SegsType DEF Register, RegisterRaises, IInv, CallsWellFormed, Untouched
  <2>2. OthersKept(p, opSeg[p]) /\ handles'[p][opSeg[p]] <= 1
    BY <1>0, <1>4, <2>1 DEF Register, RegisterRaises, AddHandle, OthersKept
  <2>3. CASE \E b \in BOOLEAN : Enrol(p, opSeg[p], b)
    BY <1>0, <2>1, <2>2, <2>3, EnrolCovers
  <2>4. CASE RegisterRaises(p) /\ UNCHANGED <<countVars, pidSegs>>
    BY <1>2, <2>4 DEF RegisterRaises
  <2> QED
    BY <1>4, <2>3, <2>4 DEF Register, RegisterRaises
<1>5. ASSUME NEW p \in Pids, OpenCount(p) \/ OpenRaises(p) PROVE CountCoversTickets'
  <2>1. opSeg[p] \in Segs
    BY <1>0, <1>5, SegsType DEF OpenCount, OpenRaises, IInv, CallsWellFormed
  <2>2. /\ OthersKept(p, opSeg[p])
        /\ \/ handles'[p][opSeg[p]] = handles[p][opSeg[p]]
           \/ handles'[p][opSeg[p]] = handles[p][opSeg[p]] + 1
    BY <1>0, <1>5, <2>1 DEF OpenCount, OpenRaises, AddHandle, OthersKept
  <2>3. CASE Count(p, opSeg[p])
    BY <1>0, <2>1, <2>2, <2>3, CountCovers
  <2>4. CASE OpenRaises(p) /\ UNCHANGED <<countVars, pidSegs>>
    BY <1>2, <2>4 DEF OpenRaises
  <2> QED
    BY <1>5, <2>3, <2>4 DEF OpenCount, OpenRaises
<1>6. ASSUME NEW p \in Pids, NEW s \in Segs, Close(p, s) \/ CloseRaises(p, s)
      PROVE  CountCoversTickets'
  <2>1. handles[p][s] \in 1..MaxHandles + 1
    BY <1>0, <1>6 DEF Close, CloseRaises, PInv, HandlesBounded
  <2>2. OthersKept(p, s) /\ handles'[p][s] = handles[p][s] - 1
    BY <1>0, <1>6 DEF Close, CloseRaises, DropHandle, OthersKept
  <2>3. CASE CloseScript(p, s)
    BY <1>0, <2>1, <2>2, <2>3, CloseCovers
  <2>4. CASE UNCHANGED <<countVars, pidSegs>>
    <3>1. refcount' = refcount /\ pidSegs' = pidSegs
      BY <2>4
    <3>2. ASSUME NEW q \in Pids, NEW t \in Segs PROVE handles'[q][t] <= handles[q][t]
      <4>1. handles[q][t] \in Nat
        BY <1>0
      <4> QED
        BY <2>2, <4>1 DEF OthersKept
    <3> QED
      BY <1>1, <3>1, <3>2
  <2> QED
    BY <1>6, <2>3, <2>4 DEF Close, CloseRaises
<1>7. ASSUME wpc = "reap", ~PidReused, CleanupScript(victim), handles' = handles
      PROVE  CountCoversTickets'
  <2>1. victim \in Pids /\ victim \notin beating
    BY <1>7, VictimDoesNotBeat
  <2>2. \A s \in Segs : handles[victim][s] = 0
    BY <1>0, <2>1 DEF PInv, HoldersBeat
  <2> QED
    BY <1>0, <1>7, <2>1, <2>2, CleanupCovers
<1>8. CASE CleanupDeadPid
  BY <1>2, <1>7, <1>8 DEF CleanupDeadPid
<1>9. CASE TickRaises
  BY <1>2, <1>7, <1>9 DEF TickRaises
<1>10. ASSUME NEW p \in Pids, Spawn(p) \/ EnsureStarted(p) \/ Beat(p) \/ ParentWaits(p)
       PROVE  CountCoversTickets'
  BY <1>2, <1>10 DEF Spawn, EnsureStarted, Beat, ParentWaits
<1>11. ASSUME NEW p \in Pids, Create(p) \/ OpenGet(p) \/ OpenMap(p) \/ OpenRefused(p)
       PROVE  CountCoversTickets'
  BY <1>2, <1>11 DEF Create, OpenGet, OpenMap, OpenRefused
<1>12. ASSUME NEW p \in Pids, CrossCheck(p) PROVE CountCoversTickets'
  BY <1>2, <1>12 DEF CrossCheck
<1>13. ASSUME NEW s \in Segs, Unlink(s) PROVE CountCoversTickets'
  BY <1>2, <1>13 DEF Unlink
<1>14. CASE Tick \/ DrainQueue \/ TickEnd \/ UnlinkRaises \/ WatchdogCrash
  BY <1>2, <1>14 DEF Tick, DrainQueue, TickEnd, UnlinkRaises, WatchdogCrash
<1>15. CASE UNCHANGED vars
  BY <1>2, <1>15 DEF vars
<1> QED
  BY <1>3, <1>4, <1>5, <1>6, <1>8, <1>9, <1>10, <1>11, <1>12, <1>13, <1>14, <1>15
  DEF Next, Process, Lifecycle, Call, CallRaises, Watchdog

\* An open handle is a ticket.
LEMMA HandlesAreTickets ==
    ASSUME TypeRedis, CountCoversTickets
    PROVE  CountCoversHandles
<1> SUFFICES ASSUME NEW s \in Segs PROVE refcount[s] >= Cardinality(Handles(s))
  BY DEF CountCoversHandles
<1>1. Handles(s) \subseteq Tickets(s)
  BY ConstantsAssumption DEF Handles, Tickets
<1>2. /\ IsFiniteSet(Handles(s)) /\ Cardinality(Handles(s)) <= Cardinality(Tickets(s))
      /\ Cardinality(Handles(s)) \in Nat /\ Cardinality(Tickets(s)) \in Nat
  BY <1>1, TicketsFinite, FS_Subset, FS_CardinalityType
<1>3. refcount[s] \in Nat /\ refcount[s] >= Cardinality(Tickets(s))
  BY DEF TypeRedis, CountCoversTickets
<1> QED
  BY <1>2, <1>3

\* The count of a segment is never below the number of its open handles, for any
\* number of processes, incarnations of a pid, segments and failures of Redis, of
\* the watchdog and of the holders: as long as no first heartbeat is lost.
THEOREM HandlesAreCounted == BeatsArrive => (Spec => []CountCoversHandles)
<1> SUFFICES ASSUME BeatsArrive PROVE Spec => []CountCoversHandles
  OBVIOUS
<1>1. Init => PInv /\ CountCoversTickets
  <2> SUFFICES ASSUME Init PROVE PInv /\ CountCoversTickets
    OBVIOUS
  <2>1. PInv
    BY ConstantsAssumption
    DEF Init, BeatsArrive, PInv, HoldersBeat, BeatsAreOwn, VictimIsGone, HandlesBounded
  <2>2. ASSUME NEW s \in Segs PROVE refcount[s] >= Cardinality(Tickets(s))
    <3>1. Tickets(s) = {}
      BY ConstantsAssumption DEF Init, Tickets
    <3> QED
      BY <3>1, FS_EmptySet DEF Init
  <2> QED
    BY <2>1, <2>2 DEF CountCoversTickets
<1>2. IInv /\ IInv' /\ PInv /\ CountCoversTickets /\ [Next]_vars
         => PInv' /\ CountCoversTickets'
  BY StepPInv, StepTickets
<1>3. IInv /\ CountCoversTickets => CountCoversHandles
  BY HandlesAreTickets DEF IInv, TypeOK
<1> QED
  BY <1>1, <1>2, <1>3, InductiveInvariant, PTL DEF Spec

--------------------------------------------------------------------------------
(* schema:current is in /dev/shm *)

\* No create transaction is reported as failed: its handler would unlink the
\* segment although the server may have made it current.
RepliesArrive == Budget["redis"] = 0

LInv ==
    /\ budget["redis"] = 0
    /\ CurrentIsLinked
    /\ \A p \in Pids : op[p] = "create" => opSeg[p] \in shm

\* Only the watchdog unlinks, and neither the current segment nor one that
\* create() is about to register is among the names it drained.
LEMMA StepLInv ==
    ASSUME IInv, LInv, [Next]_vars
    PROVE  LInv'
<1> USE DEF countVars, shmVars, procVars, callVars, tickVars
<1>0. /\ TypeRedis /\ TypeShm /\ TypeProcesses /\ TypeWatchdog /\ budget \in [Faults -> Nat]
      /\ CurrentIsKept /\ CallsWellFormed
  BY DEF IInv, TypeOK
<1>1. \A f \in Faults : Spend(f) => f # "redis" /\ budget'["redis"] = budget["redis"]
  BY <1>0 DEF Spend, LInv, Faults
<1>2. ASSUME NEW p \in Pids, RegisterRaises(p) \/ OpenRaises(p) \/ \E s \in Segs : CloseRaises(p, s)
      PROVE  FALSE
  BY <1>1, <1>2 DEF RegisterRaises, OpenRaises, CloseRaises, Faults
<1>3. CASE TickRaises
  BY <1>1, <1>3 DEF TickRaises, Faults
<1>4. ASSUME NEW p \in Pids, Register(p) PROVE LInv'
  BY <1>0, <1>4
  DEF Register, Enrol, EndCall, AddHandle, LInv, CurrentIsLinked, TypeProcesses
<1>5. ASSUME NEW p \in Pids, Create(p) PROVE LInv'
  BY <1>0, <1>5 DEF Create, LInv, CurrentIsLinked, TypeProcesses
<1>6. ASSUME NEW s \in Segs, Unlink(s) PROVE LInv'
  BY <1>0, <1>6 DEF Unlink, LInv, CurrentIsLinked, CurrentIsKept, CallsWellFormed, Untouched
<1>7. ASSUME NEW p \in Pids, NEW s \in Segs, Close(p, s) PROVE LInv'
  BY <1>7 DEF Close, CloseScript, DropRefs, LInv, CurrentIsLinked
<1>8. CASE CleanupDeadPid
  BY <1>8 DEF CleanupDeadPid, CleanupScript, DropRefs, LInv, CurrentIsLinked
<1>9. ASSUME current' = current, shm' = shm, budget'["redis"] = budget["redis"],
             \A p \in Pids : op'[p] = "create" => op[p] = "create" /\ opSeg'[p] = opSeg[p]
      PROVE  LInv'
  BY <1>9 DEF LInv, CurrentIsLinked
<1>10. ASSUME NEW p \in Pids, Spawn(p) \/ Beat(p) \/ ParentWaits(p) PROVE LInv'
  BY <1>9, <1>10 DEF Spawn, Beat, ParentWaits
<1>11. ASSUME NEW p \in Pids, EnsureStarted(p) PROVE LInv'
  BY <1>1, <1>9, <1>11 DEF EnsureStarted, Faults
<1>12. ASSUME NEW p \in Pids, Crash(p) \/ Exit(p) PROVE LInv'
  BY <1>0, <1>1, <1>9, <1>12 DEF Crash, Exit, Vanish, TypeProcesses, Faults
<1>13. ASSUME NEW p \in Pids,
              OpenGet(p) \/ OpenMap(p) \/ OpenRefused(p) \/ OpenCount(p)
       PROVE  LInv'
  BY <1>0, <1>9, <1>13
  DEF OpenGet, OpenMap, OpenRefused, OpenCount, Count, EndCall, TypeProcesses
<1>14. ASSUME NEW p \in Pids, CrossCheck(p) PROVE LInv'
  BY <1>9, <1>14 DEF CrossCheck
<1>15. CASE Tick \/ DrainQueue \/ TickEnd
  BY <1>9, <1>15 DEF Tick, DrainQueue, TickEnd
<1>16. CASE UnlinkRaises \/ WatchdogCrash
  BY <1>1, <1>9, <1>16 DEF UnlinkRaises, WatchdogCrash, Faults
<1>17. CASE UNCHANGED vars
  BY <1>9, <1>17 DEF vars
<1> QED
  BY <1>2, <1>3, <1>4, <1>5, <1>6, <1>7, <1>8, <1>10, <1>11, <1>12, <1>13, <1>14, <1>15,
     <1>16, <1>17
  DEF Next, Process, Lifecycle, Call, CallRaises, Watchdog

\* A reader of schema:current finds the segment in /dev/shm, through rotations,
\* crashes, reused pids and failures of the watchdog, while Redis answers.
THEOREM CurrentStaysLinked == RepliesArrive => (Spec => []CurrentIsLinked)
<1> SUFFICES ASSUME RepliesArrive PROVE Spec => []CurrentIsLinked
  OBVIOUS
<1>1. Init => LInv
  BY DEF Init, RepliesArrive, LInv, CurrentIsLinked
<1>2. IInv /\ LInv /\ [Next]_vars => LInv'
  BY StepLInv
<1>3. LInv => CurrentIsLinked
  BY DEF LInv
<1> QED
  BY <1>1, <1>2, <1>3, InductiveInvariant, PTL DEF Spec
================================================================================
