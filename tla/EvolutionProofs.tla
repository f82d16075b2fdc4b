---------------------------- MODULE EvolutionProofs -----------------------------
(*****************************************************************************)
(* Replacing the current segment under any number of upgrades, hydrations,   *)
(* messages, segments and faults.                                            *)
(*****************************************************************************)
EXTENDS Evolution, TLAPS

\* No segment has a version that more than lastSeg upgrades would be needed for.
VersionsOK == \A s \in Segs : ver[s] <= lastSeg

\* A message is in the batch or in _pending_ack, never in both; what a consumer that
\* waits, stops or is gone has in hand.
ConsumerOK ==
    /\ batch \cap done = {}
    /\ cpc \in {"down", "read", "park", "stop", "exit"} => batch = {}
    /\ cpc \in {"down", "exit"} => done = {}

\* The local variables of upgrade_schema, by where the call is.
LocalsOK ==
    \A o \in Upgraders :
        /\ upc[o] \in {"idle", "locked", "drained", "quiet", "paused", "done"} => old[o] = 0
        /\ upc[o] \in {"opened", "created", "copied", "cleanup"} => old[o] # 0
        /\ upc[o] \in {"created", "copied", "cleanup"} => new[o] # 0

TInv == TypeOK /\ VersionsOK /\ ConsumerOK /\ LocalsOK

--------------------------------------------------------------------------------
(* Types *)

\* What is neither 0 nor above the newest number is a segment.
LEMMA NumberTypes ==
    ASSUME lastSeg \in Segs
    PROVE  0 \in 0..lastSeg /\ \A n \in 0..lastSeg : n # 0 => n \in Segs
  BY ConstantsAssumption DEF Segs

\* A reference is dropped: the pointer goes with its segment.
LEMMA DropTypes ==
    ASSUME TypeSegments, NEW p, NEW S, DropRef(p, S), UNCHANGED <<lastSeg, ver, rows>>
    PROVE  TypeSegments'
<1>1. refs' \in [Segs -> SUBSET Holders]
  BY DEF DropRef, TypeSegments
<1>2. current' \in 0..lastSeg /\ linked' \subseteq 1..lastSeg
  <2>1. current' \in {0, current} /\ linked' \subseteq linked
    BY DEF DropRef
  <2> QED
    BY <2>1, NumberTypes DEF TypeSegments
<1> QED
  BY <1>1, <1>2 DEF TypeSegments

\* A process leaves its references behind.
LEMMA LeaveTypes ==
    ASSUME refs \in [Segs -> SUBSET Holders], NEW p, LeaveRefs(p)
    PROVE  refs' \in [Segs -> SUBSET Holders]
  BY DEF LeaveRefs, Holders

\* open_current adds a holder.
LEMMA OpenTypes ==
    ASSUME refs \in [Segs -> SUBSET Holders], NEW p \in Holders, OpenSegment(p)
    PROVE  refs' \in [Segs -> SUBSET Holders]
  BY DEF OpenSegment

\* create uses the next number, which no variable knows yet.
LEMMA CreateTypes ==
    ASSUME TypeSegments, VersionsOK, UNCHANGED rows,
           NEW p \in Holders, NEW v \in 1..(lastSeg + 1), NEW b \in BOOLEAN,
           CreateSegment(p, v, b)
    PROVE  /\ TypeSegments' /\ VersionsOK'
           /\ lastSeg' = lastSeg + 1 /\ lastSeg' \in Segs
<1>1. lastSeg' = lastSeg + 1 /\ lastSeg' \in Segs /\ lastSeg \in Segs
  BY ConstantsAssumption DEF CreateSegment, TypeSegments, Segs
<1>2. current' \in 0..lastSeg' /\ linked' \subseteq 1..lastSeg'
  BY <1>1 DEF CreateSegment, TypeSegments, Segs
<1>3. refs' \in [Segs -> SUBSET Holders]
  BY DEF CreateSegment, TypeSegments
<1>4. v \in Segs
  <2>1. v \in Int /\ 1 <= v /\ v <= lastSeg + 1 /\ lastSeg + 1 \in 1..MaxSegs
    BY <1>1 DEF Segs
  <2> QED
    BY <2>1, ConstantsAssumption DEF Segs
<1>5. ver' \in [Segs -> Segs]
  BY <1>1, <1>4 DEF CreateSegment, TypeSegments
<1>6. VersionsOK'
  <2> SUFFICES ASSUME NEW s \in Segs PROVE ver'[s] <= lastSeg'
    BY DEF VersionsOK
  <2>1. ver[s] <= lastSeg /\ ver[s] \in Int /\ lastSeg \in Int /\ v <= lastSeg + 1
    BY <1>1 DEF VersionsOK, TypeSegments, Segs
  <2>2. ver'[s] \in {ver[s], v}
    BY DEF CreateSegment, TypeSegments
  <2> QED
    BY <1>1, <2>1, <2>2
<1> QED
  BY <1>1, <1>2, <1>3, <1>5, <1>6 DEF TypeSegments

\* Numbers of segments stay numbers of segments when one is created.
LEMMA GrowTypes ==
    ASSUME NEW n \in Segs, NEW m, m = n + 1
    PROVE  0..n \subseteq 0..m
  BY DEF Segs

\* flush, XACK: the log's variables.
LEMMA FlushTypes ==
    ASSUME TypeWal, done \subseteq pel, FlushAndAck, UNCHANGED <<last, cursor>>
    PROVE  TypeWal'
  BY DEF FlushAndAck, TypeWal

\* The upgrade lock.
LEMMA AcquireTypes ==
    ASSUME TInv, NEW o \in Upgraders, Acquire(o)
    PROVE  TInv'
<1> USE DEF TInv, TypeOK
<1>1. UNCHANGED <<current, refs, linked, lastSeg, ver, rows, pause, live, last, cursor,
                  pel, stored, old, new, counted, hpc, latest, hseg, cpc, cseg, batch,
                  done, budget>>
  BY DEF Acquire, Go, segVars, walVars, hydVars, conVars
<1>2. /\ TypeSegments' /\ TypeWal' /\ TypeHydrate' /\ TypeConsumer' /\ budget' \in Nat
      /\ VersionsOK' /\ ConsumerOK'
  BY <1>1 DEF TypeSegments, TypeWal, TypeHydrate, TypeConsumer, VersionsOK, ConsumerOK
<1>3. TypeKeys'
  BY <1>1, ConstantsAssumption DEF Acquire, Go, TypeKeys
<1>4. TypeUpgrade'
  BY <1>1, ConstantsAssumption DEF Acquire, Go, TypeUpgrade, TypeSegments, UpgradePoints
<1>5. LocalsOK'
  BY <1>1, ConstantsAssumption DEF Acquire, Go, LocalsOK, TypeUpgrade, TypeSegments
<1> QED
  BY <1>2, <1>3, <1>4, <1>5

\* XPENDING.
LEMMA CheckPendingTypes ==
    ASSUME TInv, NEW o \in Upgraders, CheckPending(o)
    PROVE  TInv'
<1> USE DEF TInv, TypeOK
<1>1. UNCHANGED <<current, refs, linked, lastSeg, ver, rows, pause, live, last, cursor,
                  pel, stored, old, new, counted, hpc, latest, hseg, cpc, cseg, batch,
                  done>>
  BY DEF CheckPending, Go, ReleaseIfOwned, Spend, segVars, walVars, hydVars, conVars
<1>2. /\ TypeSegments' /\ TypeWal' /\ TypeHydrate' /\ TypeConsumer' /\ VersionsOK'
      /\ ConsumerOK'
  BY <1>1 DEF TypeSegments, TypeWal, TypeHydrate, TypeConsumer, VersionsOK, ConsumerOK
<1>3. TypeKeys'
  BY <1>1, ConstantsAssumption DEF CheckPending, Go, ReleaseIfOwned, Spend, TypeKeys
<1>4. TypeUpgrade'
  BY <1>1, ConstantsAssumption DEF CheckPending, Go, ReleaseIfOwned, Spend, TypeUpgrade,
     TypeSegments, UpgradePoints
<1>5. budget' \in Nat
  BY <1>1, ConstantsAssumption DEF CheckPending, Go, ReleaseIfOwned, Spend
<1>6. LocalsOK'
  BY <1>1, ConstantsAssumption DEF CheckPending, Go, ReleaseIfOwned, Spend, LocalsOK,
     TypeUpgrade, TypeSegments
<1> QED
  BY <1>2, <1>3, <1>4, <1>5, <1>6

\* The liveness key.
LEMMA CheckLivenessTypes ==
    ASSUME TInv, NEW o \in Upgraders, CheckLiveness(o)
    PROVE  TInv'
<1> USE DEF TInv, TypeOK
<1>1. UNCHANGED <<current, refs, linked, lastSeg, ver, rows, pause, live, last, cursor,
                  pel, stored, old, new, counted, hpc, latest, hseg, cpc, cseg, batch,
                  done, budget>>
  BY DEF CheckLiveness, Go, ReleaseIfOwned, segVars, walVars, hydVars, conVars
<1>2. /\ TypeSegments' /\ TypeWal' /\ TypeHydrate' /\ TypeConsumer' /\ budget' \in Nat
      /\ VersionsOK' /\ ConsumerOK'
  BY <1>1 DEF TypeSegments, TypeWal, TypeHydrate, TypeConsumer, VersionsOK, ConsumerOK
<1>3. TypeKeys'
  BY <1>1, ConstantsAssumption DEF CheckLiveness, Go, ReleaseIfOwned, TypeKeys
<1>4. TypeUpgrade'
  BY <1>1, ConstantsAssumption DEF CheckLiveness, Go, ReleaseIfOwned, TypeUpgrade,
     TypeSegments, UpgradePoints
<1>5. LocalsOK'
  BY <1>1, ConstantsAssumption DEF CheckLiveness, Go, ReleaseIfOwned, LocalsOK,
     TypeUpgrade, TypeSegments
<1> QED
  BY <1>2, <1>3, <1>4, <1>5

\* The GET of the liveness key raises.
LEMMA CheckLivenessRaisesTypes ==
    ASSUME TInv, NEW o \in Upgraders, CheckLivenessRaises(o)
    PROVE  TInv'
<1> USE DEF TInv, TypeOK
<1>1. UNCHANGED <<current, refs, linked, lastSeg, ver, rows, lock, pause, live, last,
                  cursor, pel, stored, old, new, counted, hpc, latest, hseg, cpc, cseg,
                  batch, done>>
  BY DEF CheckLivenessRaises, Go, Spend, segVars, keyVars, walVars, hydVars, conVars
<1>2. /\ TypeSegments' /\ TypeKeys' /\ TypeWal' /\ TypeHydrate' /\ TypeConsumer'
      /\ VersionsOK' /\ ConsumerOK'
  BY <1>1 DEF TypeSegments, TypeKeys, TypeWal, TypeHydrate, TypeConsumer, VersionsOK,
     ConsumerOK
<1>3. TypeUpgrade'
  BY <1>1, ConstantsAssumption DEF CheckLivenessRaises, Go, Spend, TypeUpgrade,
     TypeSegments, UpgradePoints
<1>4. budget' \in Nat
  BY <1>1, ConstantsAssumption DEF CheckLivenessRaises, Go, Spend
<1>5. LocalsOK'
  BY <1>1, ConstantsAssumption DEF CheckLivenessRaises, Go, Spend, LocalsOK, TypeUpgrade,
     TypeSegments
<1> QED
  BY <1>2, <1>3, <1>4, <1>5

\* The pause key is set.
LEMMA SetPauseTypes ==
    ASSUME TInv, NEW o \in Upgraders, SetPause(o)
    PROVE  TInv'
<1> USE DEF TInv, TypeOK
<1>1. UNCHANGED <<current, refs, linked, lastSeg, ver, rows, lock, live, last, cursor,
                  pel, stored, old, new, counted, hpc, latest, hseg, cpc, cseg, batch,
                  done, budget>>
  BY DEF SetPause, Go, segVars, walVars, hydVars, conVars
<1>2. /\ TypeSegments' /\ TypeWal' /\ TypeHydrate' /\ TypeConsumer' /\ budget' \in Nat
      /\ VersionsOK' /\ ConsumerOK'
  BY <1>1 DEF TypeSegments, TypeWal, TypeHydrate, TypeConsumer, VersionsOK, ConsumerOK
<1>3. TypeKeys'
  BY <1>1, ConstantsAssumption DEF SetPause, Go, TypeKeys
<1>4. TypeUpgrade'
  BY <1>1, ConstantsAssumption DEF SetPause, Go, TypeUpgrade, TypeSegments, UpgradePoints
<1>5. LocalsOK'
  BY <1>1, ConstantsAssumption DEF SetPause, Go, LocalsOK, TypeUpgrade, TypeSegments
<1> QED
  BY <1>2, <1>3, <1>4, <1>5

\* open_current of the old segment.
LEMMA OpenOldTypes ==
    ASSUME TInv, NEW o \in Upgraders, OpenOld(o)
    PROVE  TInv'
<1> USE DEF TInv, TypeOK
<1>1. UNCHANGED <<current, linked, lastSeg, ver, rows, lock, pause, live, last, cursor,
                  pel, stored, new, counted, hpc, latest, hseg, cpc, cseg, batch, done,
                  budget>>
  BY DEF OpenOld, Go, OpenSegment, CanOpen, keyVars, walVars, hydVars, conVars
<1>2. /\ TypeKeys' /\ TypeWal' /\ TypeHydrate' /\ TypeConsumer' /\ budget' \in Nat
      /\ VersionsOK' /\ ConsumerOK'
  BY <1>1 DEF TypeKeys, TypeWal, TypeHydrate, TypeConsumer, VersionsOK, ConsumerOK
<1>3. TypeSegments'
  <2>1. refs' \in [Segs -> SUBSET Holders]
    BY OpenTypes DEF OpenOld, TypeSegments, Holders
  <2> QED
    BY <1>1, <2>1 DEF TypeSegments
<1>4. TypeUpgrade'
  BY <1>1, ConstantsAssumption DEF OpenOld, Go, OpenSegment, CanOpen, TypeUpgrade,
     TypeSegments, UpgradePoints
<1>5. LocalsOK'
  BY <1>1, ConstantsAssumption DEF OpenOld, Go, OpenSegment, CanOpen, LocalsOK,
     TypeUpgrade, TypeSegments
<1> QED
  BY <1>2, <1>3, <1>4, <1>5

\* The new segment.
LEMMA CreateNewTypes ==
    ASSUME TInv, NEW o \in Upgraders, CreateNew(o)
    PROVE  TInv'
<1> USE DEF TInv, TypeOK
<1>1. UNCHANGED <<rows, lock, pause, live, last, cursor, pel, stored, old, hpc, latest,
                  hseg, cpc, cseg, batch, done, budget>>
  BY DEF CreateNew, Go, keyVars, walVars, hydVars, conVars
<1>2. TypeKeys' /\ TypeWal' /\ ConsumerOK' /\ budget' \in Nat
  BY <1>1 DEF TypeKeys, TypeWal, ConsumerOK
<1>3. CASE current = old[o] /\ CreateSegment(o, ver[old[o]] + 1, FALSE)
  <2>1. old[o] \in Segs /\ old[o] # 0
    <3>1. old[o] # 0 /\ old[o] \in 0..lastSeg
      BY DEF CreateNew, LocalsOK, TypeUpgrade
    <3> QED
      BY <3>1, NumberTypes DEF TypeSegments
  <2>2. ver[old[o]] + 1 \in 1..(lastSeg + 1)
    BY <2>1 DEF TypeSegments, VersionsOK, Segs
  <2>3. /\ TypeSegments' /\ VersionsOK'
        /\ lastSeg' = lastSeg + 1 /\ lastSeg' \in Segs
    BY <1>1, <1>3, <2>2, CreateTypes DEF Holders
  <2>4. current' = current
    BY <1>3 DEF CreateSegment
  <2>5. new' = [new EXCEPT ![o] = lastSeg'] /\ counted' = [counted EXCEPT ![o] = rows[old[o]]]
        /\ upc' = [upc EXCEPT ![o] = "created"]
    BY <1>3 DEF CreateNew, Go
  <2>6. TypeUpgrade'
    <3>1. old' \in [Upgraders -> 0..lastSeg'] /\ new' \in [Upgraders -> 0..lastSeg']
      BY <1>1, <2>3, <2>5 DEF TypeUpgrade, TypeSegments, Segs
    <3>2. counted' \in [Upgraders -> SUBSET Msgs]
      BY <2>1, <2>5 DEF TypeUpgrade, TypeSegments
    <3> QED
      BY <2>5, <3>1, <3>2 DEF TypeUpgrade, UpgradePoints
  <2>7. TypeHydrate'
    BY <1>1, <2>3, GrowTypes DEF TypeHydrate, TypeSegments
  <2>8. TypeConsumer'
    BY <1>1, <2>3, GrowTypes DEF TypeConsumer, TypeSegments
  <2>9. LocalsOK'
    BY <1>1, <2>1, <2>3, <2>5 DEF LocalsOK, TypeUpgrade, Segs
  <2> QED
    BY <1>2, <2>3, <2>6, <2>7, <2>8, <2>9
<1>4. CASE Go(o, "finally") /\ UNCHANGED <<current, linked, lastSeg, refs, ver, new, counted>>
  <2>1. TypeSegments' /\ TypeHydrate' /\ TypeConsumer' /\ VersionsOK'
    BY <1>1, <1>4 DEF TypeSegments, TypeHydrate, TypeConsumer, VersionsOK
  <2>2. TypeUpgrade' /\ LocalsOK'
    BY <1>1, <1>4 DEF Go, TypeUpgrade, UpgradePoints, LocalsOK
  <2> QED
    BY <1>2, <2>1, <2>2
<1> QED
  BY <1>3, <1>4 DEF CreateNew

\* The rows are copied.
LEMMA CopyTypes ==
    ASSUME TInv, NEW o \in Upgraders, Copy(o)
    PROVE  TInv'
<1> USE DEF TInv, TypeOK
<1>1. UNCHANGED <<current, refs, linked, lastSeg, ver, lock, pause, live, last, cursor,
                  pel, stored, old, new, hpc, latest, hseg, cpc, cseg, batch, done,
                  budget>>
  BY DEF Copy, Go, keyVars, walVars, hydVars, conVars
<1>2. /\ TypeKeys' /\ TypeWal' /\ TypeHydrate' /\ TypeConsumer' /\ budget' \in Nat
      /\ VersionsOK' /\ ConsumerOK'
  BY <1>1 DEF TypeKeys, TypeWal, TypeHydrate, TypeConsumer, VersionsOK, ConsumerOK
<1>3. TypeSegments'
  <2>1. rows' \in [Segs -> SUBSET Msgs]
    <3>1. old[o] \in Segs
      <4>1. old[o] # 0 /\ old[o] \in 0..lastSeg
        BY DEF Copy, LocalsOK, TypeUpgrade
      <4> QED
        BY <4>1, NumberTypes DEF TypeSegments
    <3> QED
      BY <3>1 DEF Copy, TypeSegments
  <2> QED
    BY <1>1, <2>1 DEF TypeSegments
<1>4. TypeUpgrade'
  BY <1>1, ConstantsAssumption DEF Copy, Go, TypeUpgrade, TypeSegments, UpgradePoints
<1>5. LocalsOK'
  BY <1>1, ConstantsAssumption DEF Copy, Go, LocalsOK, TypeUpgrade, TypeSegments
<1> QED
  BY <1>2, <1>3, <1>4, <1>5

\* The compare-and-set of the pointer.
LEMMA FlipTypes ==
    ASSUME TInv, NEW o \in Upgraders, Flip(o)
    PROVE  TInv'
<1> USE DEF TInv, TypeOK
<1>1. UNCHANGED <<refs, linked, lastSeg, ver, rows, lock, pause, live, last, cursor,
                  pel, stored, old, new, counted, hpc, latest, hseg, cpc, cseg, batch,
                  done, budget>>
  BY DEF Flip, Go, keyVars, walVars, hydVars, conVars
<1>2. /\ TypeKeys' /\ TypeWal' /\ TypeHydrate' /\ TypeConsumer' /\ budget' \in Nat
      /\ VersionsOK' /\ ConsumerOK'
  BY <1>1 DEF TypeKeys, TypeWal, TypeHydrate, TypeConsumer, VersionsOK, ConsumerOK
<1>3. TypeSegments'
  BY <1>1 DEF Flip, TypeSegments, TypeUpgrade
<1>4. TypeUpgrade'
  BY <1>1, ConstantsAssumption DEF Flip, Go, TypeUpgrade, TypeSegments, UpgradePoints
<1>5. LocalsOK'
  BY <1>1, ConstantsAssumption DEF Flip, Go, LocalsOK, TypeUpgrade, TypeSegments
<1> QED
  BY <1>2, <1>3, <1>4, <1>5

\* The flip whose reply is lost.
LEMMA FlipReplyLostTypes ==
    ASSUME TInv, NEW o \in Upgraders, FlipReplyLost(o)
    PROVE  TInv'
<1> USE DEF TInv, TypeOK
<1>1. UNCHANGED <<refs, linked, lastSeg, ver, rows, lock, pause, live, last, cursor,
                  pel, stored, old, new, counted, hpc, latest, hseg, cpc, cseg, batch,
                  done>>
  BY DEF FlipReplyLost, Go, Spend, keyVars, walVars, hydVars, conVars
<1>2. /\ TypeKeys' /\ TypeWal' /\ TypeHydrate' /\ TypeConsumer' /\ VersionsOK'
      /\ ConsumerOK'
  BY <1>1 DEF TypeKeys, TypeWal, TypeHydrate, TypeConsumer, VersionsOK, ConsumerOK
<1>3. TypeSegments'
  BY <1>1 DEF FlipReplyLost, TypeSegments, TypeUpgrade
<1>4. TypeUpgrade'
  BY <1>1, ConstantsAssumption DEF FlipReplyLost, Go, Spend, TypeUpgrade, TypeSegments,
     UpgradePoints
<1>5. budget' \in Nat
  BY <1>1, ConstantsAssumption DEF FlipReplyLost, Go, Spend
<1>6. LocalsOK'
  BY <1>1, ConstantsAssumption DEF FlipReplyLost, Go, Spend, LocalsOK, TypeUpgrade,
     TypeSegments
<1> QED
  BY <1>2, <1>3, <1>4, <1>5, <1>6

\* The pause key is cleared.
LEMMA ClearPauseTypes ==
    ASSUME TInv, NEW o \in Upgraders, ClearPause(o)
    PROVE  TInv'
<1> USE DEF TInv, TypeOK
<1>1. UNCHANGED <<current, refs, linked, lastSeg, ver, rows, lock, live, last, cursor,
                  pel, stored, old, new, counted, hpc, latest, hseg, cpc, cseg, batch,
                  done, budget>>
  BY DEF ClearPause, Go, segVars, walVars, hydVars, conVars
<1>2. /\ TypeSegments' /\ TypeWal' /\ TypeHydrate' /\ TypeConsumer' /\ budget' \in Nat
      /\ VersionsOK' /\ ConsumerOK'
  BY <1>1 DEF TypeSegments, TypeWal, TypeHydrate, TypeConsumer, VersionsOK, ConsumerOK
<1>3. TypeKeys'
  BY <1>1, ConstantsAssumption DEF ClearPause, Go, TypeKeys
<1>4. TypeUpgrade'
  BY <1>1, ConstantsAssumption DEF ClearPause, Go, TypeUpgrade, TypeSegments,
     UpgradePoints
<1>5. LocalsOK'
  BY <1>1, ConstantsAssumption DEF ClearPause, Go, LocalsOK, TypeUpgrade, TypeSegments
<1> QED
  BY <1>2, <1>3, <1>4, <1>5

\* The wait for consumers ends.
LEMMA WaitEndsTypes ==
    ASSUME TInv, NEW o \in Upgraders, WaitEnds(o)
    PROVE  TInv'
<1> USE DEF TInv, TypeOK
<1>1. UNCHANGED <<current, refs, linked, lastSeg, ver, rows, lock, pause, live, last,
                  cursor, pel, stored, old, new, counted, hpc, latest, hseg, cpc, cseg,
                  batch, done, budget>>
  BY DEF WaitEnds, Go, segVars, keyVars, walVars, hydVars, conVars
<1>2. /\ TypeSegments' /\ TypeKeys' /\ TypeWal' /\ TypeHydrate' /\ TypeConsumer'
      /\ budget' \in Nat /\ VersionsOK' /\ ConsumerOK'
  BY <1>1 DEF TypeSegments, TypeKeys, TypeWal, TypeHydrate, TypeConsumer, VersionsOK,
     ConsumerOK
<1>3. TypeUpgrade'
  BY <1>1, ConstantsAssumption DEF WaitEnds, Go, TypeUpgrade, TypeSegments, UpgradePoints
<1>4. LocalsOK'
  BY <1>1, ConstantsAssumption DEF WaitEnds, Go, LocalsOK, TypeUpgrade, TypeSegments
<1> QED
  BY <1>2, <1>3, <1>4

\* An exception in the try block.
LEMMA RaiseTypes ==
    ASSUME TInv, NEW o \in Upgraders, Raise(o)
    PROVE  TInv'
<1> USE DEF TInv, TypeOK
<1>1. UNCHANGED <<current, refs, linked, lastSeg, ver, rows, lock, pause, live, last,
                  cursor, pel, stored, old, new, counted, hpc, latest, hseg, cpc, cseg,
                  batch, done>>
  BY DEF Raise, Go, Spend, segVars, keyVars, walVars, hydVars, conVars
<1>2. /\ TypeSegments' /\ TypeKeys' /\ TypeWal' /\ TypeHydrate' /\ TypeConsumer'
      /\ VersionsOK' /\ ConsumerOK'
  BY <1>1 DEF TypeSegments, TypeKeys, TypeWal, TypeHydrate, TypeConsumer, VersionsOK,
     ConsumerOK
<1>3. TypeUpgrade'
  BY <1>1, ConstantsAssumption DEF Raise, Go, Spend, TypeUpgrade, TypeSegments,
     UpgradePoints
<1>4. budget' \in Nat
  BY <1>1, ConstantsAssumption DEF Raise, Go, Spend
<1>5. LocalsOK'
  BY <1>1, ConstantsAssumption DEF Raise, Go, Spend, LocalsOK, TypeUpgrade, TypeSegments
<1> QED
  BY <1>2, <1>3, <1>4, <1>5

\* A failure that is suppressed.
LEMMA SuppressedTypes ==
    ASSUME TInv, NEW o \in Upgraders, Suppressed(o)
    PROVE  TInv'
<1> USE DEF TInv, TypeOK
<1>1. UNCHANGED <<current, refs, linked, lastSeg, ver, rows, lock, pause, live, last,
                  cursor, pel, stored, old, new, counted, hpc, latest, hseg, cpc, cseg,
                  batch, done>>
  BY DEF Suppressed, Go, Spend, segVars, keyVars, walVars, hydVars, conVars
<1>2. /\ TypeSegments' /\ TypeKeys' /\ TypeWal' /\ TypeHydrate' /\ TypeConsumer'
      /\ VersionsOK' /\ ConsumerOK'
  BY <1>1 DEF TypeSegments, TypeKeys, TypeWal, TypeHydrate, TypeConsumer, VersionsOK,
     ConsumerOK
<1>3. TypeUpgrade'
  BY <1>1, ConstantsAssumption DEF Suppressed, Go, Spend, TypeUpgrade, TypeSegments,
     UpgradePoints
<1>4. budget' \in Nat
  BY <1>1, ConstantsAssumption DEF Suppressed, Go, Spend
<1>5. LocalsOK'
  BY <1>1, ConstantsAssumption DEF Suppressed, Go, Spend, LocalsOK, TypeUpgrade, TypeSegments
<1> QED
  BY <1>2, <1>3, <1>4, <1>5

\* The new segment is removed.
LEMMA CleanupOrphanTypes ==
    ASSUME TInv, NEW o \in Upgraders, CleanupOrphan(o)
    PROVE  TInv'
<1> USE DEF TInv, TypeOK
<1>1. UNCHANGED <<current, lastSeg, ver, rows, lock, pause, live, last, cursor, pel,
                  stored, old, new, counted, hpc, latest, hseg, cpc, cseg, batch, done,
                  budget>>
  BY DEF CleanupOrphan, Go, keyVars, walVars, hydVars, conVars
<1>2. /\ TypeKeys' /\ TypeWal' /\ TypeHydrate' /\ TypeConsumer' /\ budget' \in Nat
      /\ VersionsOK' /\ ConsumerOK'
  BY <1>1 DEF TypeKeys, TypeWal, TypeHydrate, TypeConsumer, VersionsOK, ConsumerOK
<1>3. TypeSegments'
  BY <1>1, ConstantsAssumption DEF CleanupOrphan, Go, TypeSegments
<1>4. TypeUpgrade'
  BY <1>1, ConstantsAssumption DEF CleanupOrphan, Go, TypeUpgrade, TypeSegments,
     UpgradePoints
<1>5. LocalsOK'
  BY <1>1, ConstantsAssumption DEF CleanupOrphan, Go, LocalsOK, TypeUpgrade, TypeSegments
<1> QED
  BY <1>2, <1>3, <1>4, <1>5

\* The removal of the new segment fails in part.
LEMMA CleanupOrphanFailsTypes ==
    ASSUME TInv, NEW o \in Upgraders, CleanupOrphanFails(o)
    PROVE  TInv'
<1> USE DEF TInv, TypeOK
<1>1. UNCHANGED <<current, lastSeg, ver, rows, lock, pause, live, last, cursor, pel,
                  stored, old, new, counted, hpc, latest, hseg, cpc, cseg, batch, done>>
  BY DEF CleanupOrphanFails, Go, Spend, keyVars, walVars, hydVars, conVars
<1>2. /\ TypeKeys' /\ TypeWal' /\ TypeHydrate' /\ TypeConsumer'
      /\ VersionsOK' /\ ConsumerOK'
  BY <1>1 DEF TypeKeys, TypeWal, TypeHydrate, TypeConsumer, VersionsOK, ConsumerOK
<1>3. TypeSegments'
  BY <1>1, ConstantsAssumption DEF CleanupOrphanFails, Go, Spend, TypeSegments
<1>4. TypeUpgrade'
  BY <1>1, ConstantsAssumption DEF CleanupOrphanFails, Go, Spend, TypeUpgrade, TypeSegments,
     UpgradePoints
<1>5. LocalsOK'
  BY <1>1, ConstantsAssumption DEF CleanupOrphanFails, Go, Spend, LocalsOK, TypeUpgrade, TypeSegments
<1>6. budget' \in Nat
  BY DEF CleanupOrphanFails, Spend
<1> QED
  BY <1>2, <1>3, <1>4, <1>5, <1>6

\* The old segment is closed.
LEMMA CloseOldTypes ==
    ASSUME TInv, NEW o \in Upgraders, CloseOld(o)
    PROVE  TInv'
<1> USE DEF TInv, TypeOK
<1>1. UNCHANGED <<lastSeg, ver, rows, lock, pause, live, last, cursor, pel, stored,
                  old, new, counted, hpc, latest, hseg, cpc, cseg, batch, done, budget>>
  BY DEF CloseOld, Go, DropRef, keyVars, walVars, hydVars, conVars
<1>2. /\ TypeKeys' /\ TypeWal' /\ TypeHydrate' /\ TypeConsumer' /\ budget' \in Nat
      /\ VersionsOK' /\ ConsumerOK'
  BY <1>1 DEF TypeKeys, TypeWal, TypeHydrate, TypeConsumer, VersionsOK, ConsumerOK
<1>3. TypeSegments'
  <2>1. CASE old[o] # 0
    BY <1>1, <2>1, DropTypes DEF CloseOld
  <2>2. CASE old[o] = 0
    BY <1>1, <2>2 DEF CloseOld, TypeSegments
  <2> QED
    BY <2>1, <2>2
<1>4. TypeUpgrade'
  BY <1>1, ConstantsAssumption DEF CloseOld, Go, DropRef, TypeUpgrade, TypeSegments,
     UpgradePoints
<1>5. LocalsOK'
  BY <1>1, ConstantsAssumption DEF CloseOld, Go, DropRef, LocalsOK, TypeUpgrade,
     TypeSegments
<1> QED
  BY <1>2, <1>3, <1>4, <1>5

\* The lock is released.
LEMMA ReleaseLockTypes ==
    ASSUME TInv, NEW o \in Upgraders, ReleaseLock(o)
    PROVE  TInv'
<1> USE DEF TInv, TypeOK
<1>1. UNCHANGED <<current, refs, linked, lastSeg, ver, rows, pause, live, last, cursor,
                  pel, stored, old, new, counted, hpc, latest, hseg, cpc, cseg, batch,
                  done, budget>>
  BY DEF ReleaseLock, Go, ReleaseIfOwned, segVars, walVars, hydVars, conVars
<1>2. /\ TypeSegments' /\ TypeWal' /\ TypeHydrate' /\ TypeConsumer' /\ budget' \in Nat
      /\ VersionsOK' /\ ConsumerOK'
  BY <1>1 DEF TypeSegments, TypeWal, TypeHydrate, TypeConsumer, VersionsOK, ConsumerOK
<1>3. TypeKeys'
  BY <1>1, ConstantsAssumption DEF ReleaseLock, Go, ReleaseIfOwned, TypeKeys
<1>4. TypeUpgrade'
  BY <1>1, ConstantsAssumption DEF ReleaseLock, Go, ReleaseIfOwned, TypeUpgrade,
     TypeSegments, UpgradePoints
<1>5. LocalsOK'
  BY <1>1, ConstantsAssumption DEF ReleaseLock, Go, ReleaseIfOwned, LocalsOK,
     TypeUpgrade, TypeSegments
<1> QED
  BY <1>2, <1>3, <1>4, <1>5

\* The call ends.
LEMMA DeletePauseTypes ==
    ASSUME TInv, NEW o \in Upgraders, DeletePause(o)
    PROVE  TInv'
<1> USE DEF TInv, TypeOK
<1>1. UNCHANGED <<current, linked, lastSeg, ver, rows, lock, live, last, cursor, pel,
                  stored, hpc, latest, hseg, cpc, cseg, batch, done>>
  BY DEF DeletePause, Go, Spend, LeaveRefs, Forget, walVars, hydVars, conVars
<1>2. /\ TypeWal' /\ TypeHydrate' /\ TypeConsumer' /\ VersionsOK' /\ ConsumerOK'
  BY <1>1 DEF TypeWal, TypeHydrate, TypeConsumer, VersionsOK, ConsumerOK
<1>3. TypeSegments'
  <2>1. refs' \in [Segs -> SUBSET Holders]
    BY LeaveTypes DEF DeletePause, TypeSegments
  <2> QED
    BY <1>1, <2>1 DEF TypeSegments
<1>4. TypeKeys'
  BY <1>1, ConstantsAssumption DEF DeletePause, Go, Spend, LeaveRefs, Forget, TypeKeys
<1>5. TypeUpgrade'
  <2>1. upc' \in [Upgraders -> UpgradePoints]
    BY DEF DeletePause, Go, TypeUpgrade, UpgradePoints
  <2>2. old' \in [Upgraders -> 0..lastSeg] /\ new' \in [Upgraders -> 0..lastSeg]
    BY DEF DeletePause, Forget, TypeUpgrade, TypeSegments, Segs
  <2>3. counted' \in [Upgraders -> SUBSET Msgs]
    BY DEF DeletePause, Forget, TypeUpgrade
  <2> QED
    BY <1>1, <2>1, <2>2, <2>3 DEF TypeUpgrade
<1>6. LocalsOK'
  BY <1>1, ConstantsAssumption DEF DeletePause, Go, Spend, LeaveRefs, Forget, LocalsOK,
     TypeUpgrade, TypeSegments
<1>7. budget' \in Nat
  BY DEF DeletePause, Spend
<1> QED
  BY <1>2, <1>3, <1>4, <1>5, <1>6, <1>7

\* The upgrading process is killed.
LEMMA UpgraderDiesTypes ==
    ASSUME TInv, NEW o \in Upgraders, UpgraderDies(o)
    PROVE  TInv'
<1> USE DEF TInv, TypeOK
<1>1. UNCHANGED <<current, linked, lastSeg, ver, rows, lock, pause, live, last, cursor,
                  pel, stored, hpc, latest, hseg, cpc, cseg, batch, done>>
  BY DEF UpgraderDies, Go, Spend, LeaveRefs, Forget, Active, keyVars, walVars, hydVars,
     conVars
<1>2. /\ TypeKeys' /\ TypeWal' /\ TypeHydrate' /\ TypeConsumer' /\ VersionsOK'
      /\ ConsumerOK'
  BY <1>1 DEF TypeKeys, TypeWal, TypeHydrate, TypeConsumer, VersionsOK, ConsumerOK
<1>3. TypeSegments'
  <2>1. refs' \in [Segs -> SUBSET Holders]
    BY LeaveTypes DEF UpgraderDies, TypeSegments
  <2> QED
    BY <1>1, <2>1 DEF TypeSegments
<1>4. TypeUpgrade'
  <2>1. upc' \in [Upgraders -> UpgradePoints]
    BY DEF UpgraderDies, Go, TypeUpgrade, UpgradePoints
  <2>2. old' \in [Upgraders -> 0..lastSeg] /\ new' \in [Upgraders -> 0..lastSeg]
    BY DEF UpgraderDies, Forget, TypeUpgrade, TypeSegments, Segs
  <2>3. counted' \in [Upgraders -> SUBSET Msgs]
    BY DEF UpgraderDies, Forget, TypeUpgrade
  <2> QED
    BY <1>1, <2>1, <2>2, <2>3 DEF TypeUpgrade
<1>5. budget' \in Nat
  BY <1>1, ConstantsAssumption DEF UpgraderDies, Go, Spend, LeaveRefs, Forget, Active
<1>6. LocalsOK'
  BY <1>1, ConstantsAssumption DEF UpgraderDies, Go, Spend, LeaveRefs, Forget, Active,
     LocalsOK, TypeUpgrade, TypeSegments
<1> QED
  BY <1>2, <1>3, <1>4, <1>5, <1>6

\* hydrate finds no pointer, or one.
LEMMA CheckCurrentTypes ==
    ASSUME TInv, NEW h \in Hydrators, CheckCurrent(h)
    PROVE  TInv'
<1> USE DEF TInv, TypeOK
<1>1. UNCHANGED <<current, refs, linked, lastSeg, ver, rows, lock, pause, live, last,
                  cursor, pel, stored, upc, old, new, counted, latest, hseg, cpc, cseg,
                  batch, done, budget>>
  BY DEF CheckCurrent, HGo, segVars, keyVars, walVars, upVars, conVars
<1>2. /\ TypeSegments' /\ TypeKeys' /\ TypeWal' /\ TypeUpgrade' /\ TypeConsumer'
      /\ budget' \in Nat /\ VersionsOK' /\ ConsumerOK' /\ LocalsOK'
  BY <1>1 DEF TypeSegments, TypeKeys, TypeWal, TypeUpgrade, TypeConsumer, VersionsOK,
     ConsumerOK, LocalsOK, UpgradePoints
<1>3. TypeHydrate'
  BY <1>1, ConstantsAssumption DEF CheckCurrent, HGo, TypeHydrate, HydratePoints, TypeSegments
<1> QED
  BY <1>2, <1>3

\* hydrate reads the liveness key.
LEMMA CheckConsumerTypes ==
    ASSUME TInv, NEW h \in Hydrators, CheckConsumer(h)
    PROVE  TInv'
<1> USE DEF TInv, TypeOK
<1>1. UNCHANGED <<current, refs, linked, lastSeg, ver, rows, lock, pause, live, last,
                  cursor, pel, stored, upc, old, new, counted, latest, hseg, cpc, cseg,
                  batch, done, budget>>
  BY DEF CheckConsumer, HGo, segVars, keyVars, walVars, upVars, conVars
<1>2. /\ TypeSegments' /\ TypeKeys' /\ TypeWal' /\ TypeUpgrade' /\ TypeConsumer'
      /\ budget' \in Nat /\ VersionsOK' /\ ConsumerOK' /\ LocalsOK'
  BY <1>1 DEF TypeSegments, TypeKeys, TypeWal, TypeUpgrade, TypeConsumer, VersionsOK,
     ConsumerOK, LocalsOK, UpgradePoints
<1>3. TypeHydrate'
  BY <1>1, ConstantsAssumption DEF CheckConsumer, HGo, TypeHydrate, HydratePoints, TypeSegments
<1> QED
  BY <1>2, <1>3

\* hydrate reads the offline store.
LEMMA ReadLatestTypes ==
    ASSUME TInv, NEW h \in Hydrators, ReadLatest(h)
    PROVE  TInv'
<1> USE DEF TInv, TypeOK
<1>1. UNCHANGED <<current, refs, linked, lastSeg, ver, rows, lock, pause, live, last,
                  cursor, pel, stored, upc, old, new, counted, hseg, cpc, cseg, batch,
                  done, budget>>
  BY DEF ReadLatest, HGo, segVars, keyVars, walVars, upVars, conVars
<1>2. /\ TypeSegments' /\ TypeKeys' /\ TypeWal' /\ TypeUpgrade' /\ TypeConsumer'
      /\ budget' \in Nat /\ VersionsOK' /\ ConsumerOK' /\ LocalsOK'
  BY <1>1 DEF TypeSegments, TypeKeys, TypeWal, TypeUpgrade, TypeConsumer, VersionsOK,
     ConsumerOK, LocalsOK, UpgradePoints
<1>3. TypeHydrate'
  <2>1. hpc' \in [Hydrators -> HydratePoints]
    BY DEF ReadLatest, HGo, TypeHydrate, HydratePoints
  <2>2. stored \subseteq Msgs
    BY ConstantsAssumption DEF TypeWal, Msgs
  <2>3. latest' \in [Hydrators -> SUBSET Msgs]
    BY <2>2 DEF ReadLatest, TypeHydrate
  <2> QED
    BY <1>1, <2>1, <2>3 DEF TypeHydrate
<1> QED
  BY <1>2, <1>3

\* hydrate creates the current segment.
LEMMA CreateCurrentTypes ==
    ASSUME TInv, NEW h \in Hydrators, CreateCurrent(h)
    PROVE  TInv'
<1> USE DEF TInv, TypeOK
<1>1. UNCHANGED <<rows, lock, pause, live, last, cursor, pel, stored, upc, old, new,
                  counted, latest, cpc, cseg, batch, done, budget>>
  BY DEF CreateCurrent, HGo, keyVars, walVars, upVars, conVars
<1>2. TypeKeys' /\ TypeWal' /\ ConsumerOK' /\ LocalsOK' /\ budget' \in Nat
  BY <1>1 DEF TypeKeys, TypeWal, ConsumerOK, LocalsOK
<1>3. PICK s \in 1..lastSeg : CreateSegment(h, ver[s], TRUE)
  BY DEF CreateCurrent
<1>4. ver[s] \in 1..(lastSeg + 1)
  <2>1. s \in Segs
    BY ConstantsAssumption DEF TypeSegments, Segs
  <2> QED
    BY <2>1 DEF TypeSegments, VersionsOK, Segs
<1>5. /\ TypeSegments' /\ VersionsOK'
      /\ lastSeg' = lastSeg + 1 /\ lastSeg' \in Segs
  BY <1>1, <1>3, <1>4, CreateTypes DEF Holders
<1>6. TypeUpgrade'
  BY <1>1, <1>5, GrowTypes DEF TypeUpgrade, TypeSegments
<1>7. TypeHydrate'
  <2>1. hseg' \in [Hydrators -> 0..lastSeg']
    BY <1>5 DEF CreateCurrent, TypeHydrate, TypeSegments, Segs
  <2>2. hpc' \in [Hydrators -> HydratePoints]
    BY DEF CreateCurrent, HGo, TypeHydrate, HydratePoints
  <2> QED
    BY <1>1, <2>1, <2>2 DEF TypeHydrate
<1>8. TypeConsumer'
  BY <1>1, <1>5, GrowTypes DEF TypeConsumer, TypeSegments
<1> QED
  BY <1>2, <1>5, <1>6, <1>7, <1>8

\* hydrate fills it.
LEMMA FillTypes ==
    ASSUME TInv, NEW h \in Hydrators, Fill(h)
    PROVE  TInv'
<1> USE DEF TInv, TypeOK
<1>1. UNCHANGED <<current, linked, lastSeg, ver, lock, pause, live, last, cursor, pel,
                  stored, upc, old, new, counted, cpc, cseg, batch, done, budget>>
  BY DEF Fill, HGo, LeaveRefs, HForget, keyVars, walVars, upVars, conVars
<1>2. /\ TypeKeys' /\ TypeWal' /\ TypeUpgrade' /\ TypeConsumer' /\ budget' \in Nat
      /\ VersionsOK' /\ ConsumerOK' /\ LocalsOK'
  BY <1>1 DEF TypeKeys, TypeWal, TypeUpgrade, TypeConsumer, VersionsOK, ConsumerOK,
     LocalsOK, UpgradePoints
<1>3. TypeSegments'
  <2>1. rows' \in [Segs -> SUBSET Msgs]
    BY DEF Fill, TypeSegments, TypeHydrate
  <2>2. refs' \in [Segs -> SUBSET Holders]
    BY LeaveTypes DEF Fill, TypeSegments
  <2> QED
    BY <1>1, <2>1, <2>2 DEF TypeSegments
<1>4. TypeHydrate'
  <2>1. hpc' \in [Hydrators -> HydratePoints]
    BY DEF Fill, HGo, TypeHydrate, HydratePoints
  <2>2. latest' \in [Hydrators -> SUBSET Msgs]
    BY DEF Fill, HForget, TypeHydrate
  <2>3. hseg' \in [Hydrators -> 0..lastSeg]
    BY DEF Fill, HForget, TypeHydrate, TypeSegments, Segs
  <2> QED
    BY <1>1, <2>1, <2>2, <2>3 DEF TypeHydrate
<1> QED
  BY <1>2, <1>3, <1>4

\* Some of the rows are in the segment.
LEMMA FillSomeTypes ==
    ASSUME TInv, NEW h \in Hydrators, FillSome(h)
    PROVE  rows' \in [Segs -> SUBSET Msgs]
<1>1. PICK S \in SUBSET latest[h] : rows' = [rows EXCEPT ![hseg[h]] = @ \cup S]
  BY DEF FillSome
<1>2. S \subseteq Msgs /\ rows \in [Segs -> SUBSET Msgs]
  BY DEF TInv, TypeOK, TypeHydrate, TypeSegments
<1> QED
  BY <1>1, <1>2

\* The call leaves its segment part-filled.
LEMMA LeavePartialTypes ==
    ASSUME TypeHydrate, NEW h \in Hydrators, LeavePartial(h), UNCHANGED lastSeg
    PROVE  TypeHydrate'
  BY DEF LeavePartial, HGo, TypeHydrate, HydratePoints

\* hydrate breaks off.
LEMMA HydrateBreaksOffTypes ==
    ASSUME TInv, NEW h \in Hydrators, HydrateBreaksOff(h)
    PROVE  TInv'
<1> USE DEF TInv, TypeOK
<1>1. UNCHANGED <<current, linked, lastSeg, ver, lock, pause, live, last, cursor, pel,
                  stored, upc, old, new, counted, cpc, cseg, batch, done>>
  BY DEF HydrateBreaksOff, keyVars, walVars, upVars, conVars
<1>2. /\ TypeKeys' /\ TypeWal' /\ TypeUpgrade' /\ TypeConsumer' /\ VersionsOK'
      /\ ConsumerOK' /\ LocalsOK'
  BY <1>1 DEF TypeKeys, TypeWal, TypeUpgrade, TypeConsumer, VersionsOK, ConsumerOK,
     LocalsOK, UpgradePoints
<1>3. budget' \in Nat
  BY DEF HydrateBreaksOff, Spend
<1>4. refs' \in [Segs -> SUBSET Holders]
  BY LeaveTypes DEF HydrateBreaksOff, TypeSegments
<1>5. CASE FillSome(h) /\ LeavePartial(h)
  BY <1>1, <1>2, <1>3, <1>4, <1>5, FillSomeTypes, LeavePartialTypes DEF TypeSegments
<1>6. CASE HGo(h, "done") /\ HForget(h) /\ UNCHANGED rows
  <2>1. TypeHydrate'
    BY <1>1, <1>6 DEF HGo, HForget, TypeHydrate, HydratePoints, TypeSegments, Segs
  <2> QED
    BY <1>1, <1>2, <1>3, <1>4, <1>6, <2>1 DEF TypeSegments
<1> QED
  BY <1>5, <1>6 DEF HydrateBreaksOff

\* Filling it raises.
LEMMA FillRaisesTypes ==
    ASSUME TInv, NEW h \in Hydrators, FillRaises(h)
    PROVE  TInv'
<1> USE DEF TInv, TypeOK
<1>1. UNCHANGED <<lastSeg, ver, rows, lock, pause, live, last, cursor, pel, stored,
                  upc, old, new, counted, cpc, cseg, batch, done>>
  BY DEF FillRaises, HGo, Spend, HForget, keyVars, walVars, upVars, conVars
<1>2. /\ TypeKeys' /\ TypeWal' /\ TypeUpgrade' /\ TypeConsumer' /\ VersionsOK'
      /\ ConsumerOK' /\ LocalsOK'
  BY <1>1 DEF TypeKeys, TypeWal, TypeUpgrade, TypeConsumer, VersionsOK, ConsumerOK,
     LocalsOK, UpgradePoints
<1>3. TypeSegments'
  <2>1. refs' \in [Segs -> SUBSET Holders]
    BY DEF FillRaises, TypeSegments
  <2>2. current' \in 0..lastSeg /\ linked' \subseteq 1..lastSeg
    <3>1. current' = 0 /\ linked' \subseteq linked
      BY DEF FillRaises
    <3> QED
      BY <3>1, NumberTypes DEF TypeSegments
  <2> QED
    BY <1>1, <2>1, <2>2 DEF TypeSegments
<1>4. TypeHydrate'
  <2>1. hpc' \in [Hydrators -> HydratePoints]
    BY DEF FillRaises, HGo, TypeHydrate, HydratePoints
  <2>2. latest' \in [Hydrators -> SUBSET Msgs]
    BY DEF FillRaises, HForget, TypeHydrate
  <2>3. hseg' \in [Hydrators -> 0..lastSeg]
    BY DEF FillRaises, HForget, TypeHydrate, TypeSegments, Segs
  <2> QED
    BY <1>1, <2>1, <2>2, <2>3 DEF TypeHydrate
<1>5. budget' \in Nat
  BY <1>1, ConstantsAssumption DEF FillRaises, HGo, Spend, HForget
<1> QED
  BY <1>2, <1>3, <1>4, <1>5

\* The cleanup after that fails in part.
LEMMA ForceDropFailsTypes ==
    ASSUME TInv, NEW h \in Hydrators, ForceDropFails(h)
    PROVE  TInv'
<1> USE DEF TInv, TypeOK
<1>1. UNCHANGED <<lastSeg, ver, lock, pause, live, last, cursor, pel, stored, upc, old,
                  new, counted, cpc, cseg, batch, done>>
  BY DEF ForceDropFails, keyVars, walVars, upVars, conVars
<1>2. /\ TypeKeys' /\ TypeWal' /\ TypeUpgrade' /\ TypeConsumer' /\ VersionsOK'
      /\ ConsumerOK' /\ LocalsOK'
  BY <1>1 DEF TypeKeys, TypeWal, TypeUpgrade, TypeConsumer, VersionsOK, ConsumerOK,
     LocalsOK, UpgradePoints
<1>3. TypeSegments'
  <2>1. refs' \in [Segs -> SUBSET Holders]
    BY LeaveTypes DEF ForceDropFails, TypeSegments
  <2>2. current' \in {0, current} /\ linked' \subseteq linked
    BY DEF ForceDropFails
  <2>3. current' \in 0..lastSeg /\ linked' \subseteq 1..lastSeg
    BY <2>2, NumberTypes DEF TypeSegments
  <2> QED
    BY <1>1, <2>1, <2>3, FillSomeTypes DEF TypeSegments, ForceDropFails
<1>4. TypeHydrate'
  BY <1>1, LeavePartialTypes DEF ForceDropFails
<1>5. budget' \in Nat
  BY DEF ForceDropFails, Spend
<1> QED
  BY <1>2, <1>3, <1>4, <1>5

\* A consumer starts.
LEMMA StartTypes ==
    ASSUME TInv, Start
    PROVE  TInv'
<1> USE DEF TInv, TypeOK
<1>1. UNCHANGED <<current, linked, lastSeg, ver, rows, lock, pause, live, last, cursor,
                  pel, stored, upc, old, new, counted, hpc, latest, hseg, done, budget>>
  BY DEF Start, OpenSegment, CanOpen, keyVars, walVars, upVars, hydVars
<1>2. /\ TypeKeys' /\ TypeWal' /\ TypeUpgrade' /\ TypeHydrate' /\ budget' \in Nat
      /\ VersionsOK' /\ LocalsOK'
  BY <1>1 DEF TypeKeys, TypeWal, TypeUpgrade, TypeHydrate, VersionsOK, LocalsOK,
     UpgradePoints
<1>3. TypeSegments'
  <2>1. refs' \in [Segs -> SUBSET Holders]
    BY OpenTypes DEF Start, TypeSegments, Holders
  <2> QED
    BY <1>1, <2>1 DEF TypeSegments
<1>4. TypeConsumer'
  BY <1>1, ConstantsAssumption DEF Start, OpenSegment, CanOpen, TypeConsumer,
     TypeSegments, TypeWal
<1>5. ConsumerOK'
  BY <1>1, ConstantsAssumption DEF Start, OpenSegment, CanOpen, ConsumerOK, TypeWal,
     TypeConsumer
<1> QED
  BY <1>2, <1>3, <1>4, <1>5

\* The drain ends.
LEMMA DrainEndsTypes ==
    ASSUME TInv, DrainEnds
    PROVE  TInv'
<1> USE DEF TInv, TypeOK
<1>1. UNCHANGED <<current, refs, linked, lastSeg, ver, rows, lock, pause, last, cursor,
                  pel, stored, upc, old, new, counted, hpc, latest, hseg, cseg, batch,
                  done, budget>>
  BY DEF DrainEnds, segVars, keyVars, upVars, hydVars
<1>2. /\ TypeSegments' /\ TypeWal' /\ TypeUpgrade' /\ TypeHydrate' /\ budget' \in Nat
      /\ VersionsOK' /\ LocalsOK'
  BY <1>1 DEF TypeSegments, TypeWal, TypeUpgrade, TypeHydrate, VersionsOK, LocalsOK,
     UpgradePoints
<1>3. TypeKeys'
  BY <1>1, ConstantsAssumption DEF DrainEnds, TypeKeys
<1>4. TypeConsumer'
  BY <1>1, ConstantsAssumption DEF DrainEnds, TypeConsumer, TypeSegments, TypeWal
<1>5. ConsumerOK'
  BY <1>1, ConstantsAssumption DEF DrainEnds, ConsumerOK, TypeWal, TypeConsumer
<1> QED
  BY <1>2, <1>3, <1>4, <1>5

\* XREADGROUP.
LEMMA ReadTypes ==
    ASSUME TInv, Read
    PROVE  TInv'
<1> USE DEF TInv, TypeOK
<1>1. UNCHANGED <<current, refs, linked, lastSeg, ver, rows, lock, pause, live, last,
                  stored, upc, old, new, counted, hpc, latest, hseg, cseg, done, budget>>
  BY DEF Read, segVars, keyVars, upVars, hydVars
<1>2. /\ TypeSegments' /\ TypeKeys' /\ TypeUpgrade' /\ TypeHydrate' /\ budget' \in Nat
      /\ VersionsOK' /\ LocalsOK'
  BY <1>1 DEF TypeSegments, TypeKeys, TypeUpgrade, TypeHydrate, VersionsOK, LocalsOK,
     UpgradePoints
<1>3. TypeWal'
  BY <1>1, ConstantsAssumption DEF Read, TypeWal
<1>4. TypeConsumer'
  BY <1>1, ConstantsAssumption DEF Read, TypeConsumer, TypeSegments, TypeWal
<1>5. ConsumerOK'
  BY <1>1, ConstantsAssumption DEF Read, ConsumerOK, TypeWal, TypeConsumer
<1> QED
  BY <1>2, <1>3, <1>4, <1>5

\* No pause key.
LEMMA NotPausedTypes ==
    ASSUME TInv, NotPaused
    PROVE  TInv'
<1> USE DEF TInv, TypeOK
<1>1. UNCHANGED <<current, refs, linked, lastSeg, ver, rows, lock, pause, last, cursor,
                  pel, stored, upc, old, new, counted, hpc, latest, hseg, cseg, batch,
                  done, budget>>
  BY DEF NotPaused, segVars, keyVars, upVars, hydVars
<1>2. /\ TypeSegments' /\ TypeWal' /\ TypeUpgrade' /\ TypeHydrate' /\ budget' \in Nat
      /\ VersionsOK' /\ LocalsOK'
  BY <1>1 DEF TypeSegments, TypeWal, TypeUpgrade, TypeHydrate, VersionsOK, LocalsOK,
     UpgradePoints
<1>3. TypeKeys'
  BY <1>1, ConstantsAssumption DEF NotPaused, TypeKeys
<1>4. TypeConsumer'
  BY <1>1, ConstantsAssumption DEF NotPaused, TypeConsumer, TypeSegments, TypeWal
<1>5. ConsumerOK'
  BY <1>1, ConstantsAssumption DEF NotPaused, ConsumerOK, TypeWal, TypeConsumer
<1> QED
  BY <1>2, <1>3, <1>4, <1>5

\* A pause key.
LEMMA PausedTypes ==
    ASSUME TInv, Paused
    PROVE  TInv'
<1> USE DEF TInv, TypeOK
<1>1. UNCHANGED <<current, refs, linked, lastSeg, ver, rows, lock, pause, live, last,
                  cursor, upc, old, new, counted, hpc, latest, hseg, cseg, budget>>
  BY DEF Paused, FlushAndAck, segVars, keyVars, upVars, hydVars
<1>2. /\ TypeSegments' /\ TypeKeys' /\ TypeUpgrade' /\ TypeHydrate' /\ budget' \in Nat
      /\ VersionsOK' /\ LocalsOK'
  BY <1>1 DEF TypeSegments, TypeKeys, TypeUpgrade, TypeHydrate, VersionsOK, LocalsOK,
     UpgradePoints
<1>3. TypeWal'
  BY <1>1, FlushTypes DEF Paused, TypeConsumer
<1>4. TypeConsumer'
  BY <1>1, ConstantsAssumption DEF Paused, FlushAndAck, TypeConsumer, TypeSegments,
     TypeWal
<1>5. ConsumerOK'
  BY <1>1, ConstantsAssumption DEF Paused, FlushAndAck, ConsumerOK, TypeWal, TypeConsumer
<1> QED
  BY <1>2, <1>3, <1>4, <1>5

\* A message is applied.
LEMMA ApplyTypes ==
    ASSUME TInv, NEW m \in Msgs, Apply(m)
    PROVE  TInv'
<1> USE DEF TInv, TypeOK
<1>1. UNCHANGED <<current, refs, linked, lastSeg, ver, lock, pause, live, last, cursor,
                  pel, stored, upc, old, new, counted, hpc, latest, hseg, cpc, cseg,
                  budget>>
  BY DEF Apply, keyVars, walVars, upVars, hydVars
<1>2. /\ TypeKeys' /\ TypeWal' /\ TypeUpgrade' /\ TypeHydrate' /\ budget' \in Nat
      /\ VersionsOK' /\ LocalsOK'
  BY <1>1 DEF TypeKeys, TypeWal, TypeUpgrade, TypeHydrate, VersionsOK, LocalsOK,
     UpgradePoints
<1>3. TypeSegments'
  BY <1>1, ConstantsAssumption DEF Apply, TypeSegments
<1>4. TypeConsumer'
  BY <1>1, ConstantsAssumption DEF Apply, TypeConsumer, TypeSegments, TypeWal
<1>5. ConsumerOK'
  BY <1>1, ConstantsAssumption DEF Apply, ConsumerOK, TypeWal, TypeConsumer
<1> QED
  BY <1>2, <1>3, <1>4, <1>5

\* The batch is through.
LEMMA ApplyEndsTypes ==
    ASSUME TInv, ApplyEnds
    PROVE  TInv'
<1> USE DEF TInv, TypeOK
<1>1. UNCHANGED <<current, refs, linked, lastSeg, ver, rows, lock, pause, live, last,
                  cursor, pel, stored, upc, old, new, counted, hpc, latest, hseg, cseg,
                  batch, done, budget>>
  BY DEF ApplyEnds, segVars, keyVars, walVars, upVars, hydVars
<1>2. /\ TypeSegments' /\ TypeKeys' /\ TypeWal' /\ TypeUpgrade' /\ TypeHydrate'
      /\ budget' \in Nat /\ VersionsOK' /\ LocalsOK'
  BY <1>1 DEF TypeSegments, TypeKeys, TypeWal, TypeUpgrade, TypeHydrate, VersionsOK,
     LocalsOK, UpgradePoints
<1>3. TypeConsumer'
  BY <1>1, ConstantsAssumption DEF ApplyEnds, TypeConsumer, TypeSegments, TypeWal
<1>4. ConsumerOK'
  BY <1>1, ConstantsAssumption DEF ApplyEnds, ConsumerOK, TypeWal, TypeConsumer
<1> QED
  BY <1>2, <1>3, <1>4

\* The flush task.
LEMMA TaskFlushesTypes ==
    ASSUME TInv, TaskFlushes
    PROVE  TInv'
<1> USE DEF TInv, TypeOK
<1>1. UNCHANGED <<current, refs, linked, lastSeg, ver, rows, lock, pause, live, last,
                  cursor, upc, old, new, counted, hpc, latest, hseg, cpc, cseg, batch,
                  budget>>
  BY DEF TaskFlushes, FlushAndAck, segVars, keyVars, upVars, hydVars
<1>2. /\ TypeSegments' /\ TypeKeys' /\ TypeUpgrade' /\ TypeHydrate' /\ budget' \in Nat
      /\ VersionsOK' /\ LocalsOK'
  BY <1>1 DEF TypeSegments, TypeKeys, TypeUpgrade, TypeHydrate, VersionsOK, LocalsOK,
     UpgradePoints
<1>3. TypeWal'
  BY <1>1, FlushTypes DEF TaskFlushes, TypeConsumer
<1>4. TypeConsumer'
  <2>1. batch' \subseteq pel' /\ done' \subseteq pel'
    BY <1>1 DEF TaskFlushes, FlushAndAck, ConsumerOK, TypeConsumer
  <2> QED
    BY <1>1, <2>1 DEF TaskFlushes, TypeConsumer
<1>5. ConsumerOK'
  BY <1>1, ConstantsAssumption DEF TaskFlushes, FlushAndAck, ConsumerOK, TypeWal,
     TypeConsumer
<1> QED
  BY <1>2, <1>3, <1>4, <1>5

\* The parked consumer reopens.
LEMMA ReopenTypes ==
    ASSUME TInv, Reopen
    PROVE  TInv'
<1> USE DEF TInv, TypeOK
<1>1. UNCHANGED <<current, lastSeg, ver, rows, lock, pause, live, last, cursor, pel,
                  stored, upc, old, new, counted, hpc, latest, hseg, batch, done,
                  budget>>
  BY DEF Reopen, keyVars, walVars, upVars, hydVars
<1>2. /\ TypeKeys' /\ TypeWal' /\ TypeUpgrade' /\ TypeHydrate' /\ budget' \in Nat
      /\ VersionsOK' /\ LocalsOK'
  BY <1>1 DEF TypeKeys, TypeWal, TypeUpgrade, TypeHydrate, VersionsOK, LocalsOK,
     UpgradePoints
<1>3. TypeSegments'
  <2>1. refs' \in [Segs -> SUBSET Holders]
    BY DEF Reopen, TypeSegments, Holders
  <2>2. linked' \subseteq 1..lastSeg
    BY DEF Reopen, TypeSegments
  <2> QED
    BY <1>1, <2>1, <2>2 DEF TypeSegments
<1>4. TypeConsumer'
  BY <1>1, ConstantsAssumption DEF Reopen, TypeConsumer, TypeSegments, TypeWal
<1>5. ConsumerOK'
  BY <1>1, ConstantsAssumption DEF Reopen, ConsumerOK, TypeWal, TypeConsumer
<1> QED
  BY <1>2, <1>3, <1>4, <1>5

\* stop() of the consumer.
LEMMA StopTypes ==
    ASSUME TInv, Stop
    PROVE  TInv'
<1> USE DEF TInv, TypeOK
<1>1. UNCHANGED <<current, refs, linked, lastSeg, ver, rows, lock, pause, live, last,
                  cursor, pel, stored, upc, old, new, counted, hpc, latest, hseg, cseg,
                  batch, done, budget>>
  BY DEF Stop, segVars, keyVars, walVars, upVars, hydVars
<1>2. /\ TypeSegments' /\ TypeKeys' /\ TypeWal' /\ TypeUpgrade' /\ TypeHydrate'
      /\ budget' \in Nat /\ VersionsOK' /\ LocalsOK'
  BY <1>1 DEF TypeSegments, TypeKeys, TypeWal, TypeUpgrade, TypeHydrate, VersionsOK,
     LocalsOK, UpgradePoints
<1>3. TypeConsumer'
  BY <1>1, ConstantsAssumption DEF Stop, TypeConsumer, TypeSegments, TypeWal
<1>4. ConsumerOK'
  BY <1>1, ConstantsAssumption DEF Stop, ConsumerOK, TypeWal, TypeConsumer
<1> QED
  BY <1>2, <1>3, <1>4

\* The final flush.
LEMMA StopEndsTypes ==
    ASSUME TInv, StopEnds
    PROVE  TInv'
<1> USE DEF TInv, TypeOK
<1>1. UNCHANGED <<current, refs, linked, lastSeg, ver, rows, lock, pause, last, cursor,
                  upc, old, new, counted, hpc, latest, hseg, cseg, batch, budget>>
  BY DEF StopEnds, FlushAndAck, segVars, keyVars, upVars, hydVars
<1>2. /\ TypeSegments' /\ TypeUpgrade' /\ TypeHydrate' /\ budget' \in Nat
      /\ VersionsOK' /\ LocalsOK'
  BY <1>1 DEF TypeSegments, TypeUpgrade, TypeHydrate, VersionsOK, LocalsOK, UpgradePoints
<1>3. TypeKeys'
  BY <1>1, ConstantsAssumption DEF StopEnds, FlushAndAck, TypeKeys
<1>4. TypeWal'
  BY <1>1, FlushTypes DEF StopEnds, TypeConsumer
<1>5. TypeConsumer'
  <2>1. batch' \subseteq pel' /\ done' \subseteq pel'
    BY <1>1 DEF StopEnds, FlushAndAck, ConsumerOK, TypeConsumer
  <2> QED
    BY <1>1, <2>1 DEF StopEnds, TypeConsumer
<1>6. ConsumerOK'
  BY <1>1, ConstantsAssumption DEF StopEnds, FlushAndAck, ConsumerOK, TypeWal,
     TypeConsumer
<1> QED
  BY <1>2, <1>3, <1>4, <1>5, <1>6

\* The consumer exits.
LEMMA ConsumerExitsTypes ==
    ASSUME TInv, ConsumerExits
    PROVE  TInv'
<1> USE DEF TInv, TypeOK
<1>1. UNCHANGED <<lastSeg, ver, rows, lock, pause, live, last, cursor, pel, stored,
                  upc, old, new, counted, hpc, latest, hseg, batch, done, budget>>
  BY DEF ConsumerExits, DropRef, LeaveRefs, keyVars, walVars, upVars, hydVars
<1>2. /\ TypeKeys' /\ TypeWal' /\ TypeUpgrade' /\ TypeHydrate' /\ budget' \in Nat
      /\ VersionsOK' /\ LocalsOK'
  BY <1>1 DEF TypeKeys, TypeWal, TypeUpgrade, TypeHydrate, VersionsOK, LocalsOK,
     UpgradePoints
<1>3. TypeSegments'
  <2>1. CASE DropRef("consumer", {cseg})
    BY <1>1, <2>1, DropTypes
  <2>2. CASE LeaveRefs("consumer") /\ UNCHANGED <<current, linked>>
    <3>1. refs' \in [Segs -> SUBSET Holders]
      BY <2>2, LeaveTypes DEF TypeSegments
    <3> QED
      BY <1>1, <2>2, <3>1 DEF TypeSegments
  <2> QED
    BY <2>1, <2>2 DEF ConsumerExits
<1>4. TypeConsumer'
  <2>1. cseg' \in 0..lastSeg
    BY DEF ConsumerExits, TypeSegments, Segs
  <2>2. batch' \subseteq pel /\ done' \subseteq pel
    BY <1>1 DEF ConsumerExits, TypeConsumer
  <2> QED
    BY <1>1, <2>1, <2>2 DEF ConsumerExits, TypeConsumer
<1>5. ConsumerOK'
  BY <1>1, ConstantsAssumption DEF ConsumerExits, DropRef, LeaveRefs, ConsumerOK,
     TypeWal, TypeConsumer
<1> QED
  BY <1>2, <1>3, <1>4, <1>5

\* The consumer crashes.
LEMMA ConsumerCrashesTypes ==
    ASSUME TInv, ConsumerCrashes
    PROVE  TInv'
<1> USE DEF TInv, TypeOK
<1>1. UNCHANGED <<current, linked, lastSeg, ver, rows, lock, pause, live, last, cursor,
                  pel, stored, upc, old, new, counted, hpc, latest, hseg>>
  BY DEF ConsumerCrashes, Spend, LeaveRefs, keyVars, walVars, upVars, hydVars
<1>2. /\ TypeKeys' /\ TypeWal' /\ TypeUpgrade' /\ TypeHydrate' /\ VersionsOK'
      /\ LocalsOK'
  BY <1>1 DEF TypeKeys, TypeWal, TypeUpgrade, TypeHydrate, VersionsOK, LocalsOK,
     UpgradePoints
<1>3. TypeSegments'
  <2>1. refs' \in [Segs -> SUBSET Holders]
    BY LeaveTypes DEF ConsumerCrashes, TypeSegments
  <2> QED
    BY <1>1, <2>1 DEF TypeSegments
<1>4. TypeConsumer'
  <2>1. cseg' \in 0..lastSeg
    BY DEF ConsumerCrashes, TypeSegments, Segs
  <2>2. batch' \subseteq pel /\ done' \subseteq pel
    BY <1>1 DEF ConsumerCrashes, TypeConsumer
  <2> QED
    BY <1>1, <2>1, <2>2 DEF ConsumerCrashes, TypeConsumer
<1>5. budget' \in Nat
  BY <1>1, ConstantsAssumption DEF ConsumerCrashes, Spend, LeaveRefs
<1>6. ConsumerOK'
  BY <1>1, ConstantsAssumption DEF ConsumerCrashes, Spend, LeaveRefs, ConsumerOK,
     TypeWal, TypeConsumer
<1> QED
  BY <1>2, <1>3, <1>4, <1>5, <1>6

\* A producer writes.
LEMMA WriteTypes ==
    ASSUME TInv, Write
    PROVE  TInv'
<1> USE DEF TInv, TypeOK
<1>1. UNCHANGED <<current, refs, linked, lastSeg, ver, rows, lock, pause, live, cursor,
                  pel, stored, upc, old, new, counted, hpc, latest, hseg, cpc, cseg,
                  batch, done, budget>>
  BY DEF Write, segVars, keyVars, upVars, hydVars, conVars
<1>2. /\ TypeSegments' /\ TypeKeys' /\ TypeUpgrade' /\ TypeHydrate' /\ TypeConsumer'
      /\ budget' \in Nat /\ VersionsOK' /\ ConsumerOK' /\ LocalsOK'
  BY <1>1 DEF TypeSegments, TypeKeys, TypeUpgrade, TypeHydrate, TypeConsumer, VersionsOK,
     ConsumerOK, LocalsOK, UpgradePoints
<1>3. TypeWal'
  BY <1>1, ConstantsAssumption DEF Write, TypeWal
<1> QED
  BY <1>2, <1>3

\* The server closes its segment.
LEMMA ServerClosesTypes ==
    ASSUME TInv, ServerCloses
    PROVE  TInv'
<1> USE DEF TInv, TypeOK
<1>1. UNCHANGED <<lastSeg, ver, rows, lock, pause, live, last, cursor, pel, stored,
                  upc, old, new, counted, hpc, latest, hseg, cpc, cseg, batch, done,
                  budget>>
  BY DEF ServerCloses, DropRef, keyVars, walVars, upVars, hydVars, conVars
<1>2. /\ TypeKeys' /\ TypeWal' /\ TypeUpgrade' /\ TypeHydrate' /\ TypeConsumer'
      /\ budget' \in Nat /\ VersionsOK' /\ ConsumerOK' /\ LocalsOK'
  BY <1>1 DEF TypeKeys, TypeWal, TypeUpgrade, TypeHydrate, TypeConsumer, VersionsOK,
     ConsumerOK, LocalsOK, UpgradePoints
<1>3. TypeSegments'
  BY <1>1, DropTypes DEF ServerCloses
<1> QED
  BY <1>2, <1>3

\* The watchdog reaps.
LEMMA ReapTypes ==
    ASSUME TInv, Reap
    PROVE  TInv'
<1> USE DEF TInv, TypeOK
<1>1. UNCHANGED <<lastSeg, ver, rows, lock, pause, live, last, cursor, pel, stored,
                  upc, old, new, counted, hpc, latest, hseg, cpc, cseg, batch, done,
                  budget>>
  BY DEF Reap, DropRef, keyVars, walVars, upVars, hydVars, conVars
<1>2. /\ TypeKeys' /\ TypeWal' /\ TypeUpgrade' /\ TypeHydrate' /\ TypeConsumer'
      /\ budget' \in Nat /\ VersionsOK' /\ ConsumerOK' /\ LocalsOK'
  BY <1>1 DEF TypeKeys, TypeWal, TypeUpgrade, TypeHydrate, TypeConsumer, VersionsOK,
     ConsumerOK, LocalsOK, UpgradePoints
<1>3. TypeSegments'
  BY <1>1, DropTypes DEF Reap
<1> QED
  BY <1>2, <1>3

\* An operator deletes the pointer.
LEMMA OperatorDropsTypes ==
    ASSUME TInv, OperatorDrops
    PROVE  TInv'
<1> USE DEF TInv, TypeOK
<1>1. UNCHANGED <<refs, linked, lastSeg, ver, rows, lock, pause, live, last, cursor,
                  pel, stored, upc, old, new, counted, hpc, latest, hseg, cpc, cseg,
                  batch, done>>
  BY DEF OperatorDrops, Spend, keyVars, walVars, upVars, hydVars, conVars
<1>2. /\ TypeKeys' /\ TypeWal' /\ TypeUpgrade' /\ TypeHydrate' /\ TypeConsumer'
      /\ VersionsOK' /\ ConsumerOK' /\ LocalsOK'
  BY <1>1 DEF TypeKeys, TypeWal, TypeUpgrade, TypeHydrate, TypeConsumer, VersionsOK,
     ConsumerOK, LocalsOK, UpgradePoints
<1>3. TypeSegments'
  <2>1. current' \in 0..lastSeg
    BY DEF OperatorDrops, TypeSegments, Segs
  <2> QED
    BY <1>1, <2>1 DEF TypeSegments
<1>4. budget' \in Nat
  BY <1>1, ConstantsAssumption DEF OperatorDrops, Spend
<1> QED
  BY <1>2, <1>3, <1>4

\* The lock expires.
LEMMA LockExpiresTypes ==
    ASSUME TInv, LockExpires
    PROVE  TInv'
<1> USE DEF TInv, TypeOK
<1>1. UNCHANGED <<current, refs, linked, lastSeg, ver, rows, pause, live, last, cursor,
                  pel, stored, upc, old, new, counted, hpc, latest, hseg, cpc, cseg,
                  batch, done, budget>>
  BY DEF LockExpires, segVars, walVars, upVars, hydVars, conVars
<1>2. /\ TypeSegments' /\ TypeWal' /\ TypeUpgrade' /\ TypeHydrate' /\ TypeConsumer'
      /\ budget' \in Nat /\ VersionsOK' /\ ConsumerOK' /\ LocalsOK'
  BY <1>1 DEF TypeSegments, TypeWal, TypeUpgrade, TypeHydrate, TypeConsumer, VersionsOK,
     ConsumerOK, LocalsOK, UpgradePoints
<1>3. TypeKeys'
  BY <1>1, ConstantsAssumption DEF LockExpires, TypeKeys
<1> QED
  BY <1>2, <1>3

\* The pause key expires.
LEMMA PauseExpiresTypes ==
    ASSUME TInv, PauseExpires
    PROVE  TInv'
<1> USE DEF TInv, TypeOK
<1>1. UNCHANGED <<current, refs, linked, lastSeg, ver, rows, lock, live, last, cursor,
                  pel, stored, upc, old, new, counted, hpc, latest, hseg, cpc, cseg,
                  batch, done, budget>>
  BY DEF PauseExpires, segVars, walVars, upVars, hydVars, conVars
<1>2. /\ TypeSegments' /\ TypeWal' /\ TypeUpgrade' /\ TypeHydrate' /\ TypeConsumer'
      /\ budget' \in Nat /\ VersionsOK' /\ ConsumerOK' /\ LocalsOK'
  BY <1>1 DEF TypeSegments, TypeWal, TypeUpgrade, TypeHydrate, TypeConsumer, VersionsOK,
     ConsumerOK, LocalsOK, UpgradePoints
<1>3. TypeKeys'
  BY <1>1, ConstantsAssumption DEF PauseExpires, TypeKeys
<1> QED
  BY <1>2, <1>3

\* The lock expires under its owner.
LEMMA LockExpiresEarlyTypes ==
    ASSUME TInv, LockExpiresEarly
    PROVE  TInv'
<1> USE DEF TInv, TypeOK
<1>1. UNCHANGED <<current, refs, linked, lastSeg, ver, rows, pause, live, last, cursor,
                  pel, stored, upc, old, new, counted, hpc, latest, hseg, cpc, cseg,
                  batch, done>>
  BY DEF LockExpiresEarly, Spend, segVars, walVars, upVars, hydVars, conVars
<1>2. /\ TypeSegments' /\ TypeWal' /\ TypeUpgrade' /\ TypeHydrate' /\ TypeConsumer'
      /\ VersionsOK' /\ ConsumerOK' /\ LocalsOK'
  BY <1>1 DEF TypeSegments, TypeWal, TypeUpgrade, TypeHydrate, TypeConsumer, VersionsOK,
     ConsumerOK, LocalsOK, UpgradePoints
<1>3. TypeKeys'
  BY <1>1, ConstantsAssumption DEF LockExpiresEarly, Spend, TypeKeys
<1>4. budget' \in Nat
  BY <1>1, ConstantsAssumption DEF LockExpiresEarly, Spend
<1> QED
  BY <1>2, <1>3, <1>4

\* The pause key expires under its owner.
LEMMA PauseExpiresEarlyTypes ==
    ASSUME TInv, PauseExpiresEarly
    PROVE  TInv'
<1> USE DEF TInv, TypeOK
<1>1. UNCHANGED <<current, refs, linked, lastSeg, ver, rows, lock, live, last, cursor,
                  pel, stored, upc, old, new, counted, hpc, latest, hseg, cpc, cseg,
                  batch, done>>
  BY DEF PauseExpiresEarly, Spend, segVars, walVars, upVars, hydVars, conVars
<1>2. /\ TypeSegments' /\ TypeWal' /\ TypeUpgrade' /\ TypeHydrate' /\ TypeConsumer'
      /\ VersionsOK' /\ ConsumerOK' /\ LocalsOK'
  BY <1>1 DEF TypeSegments, TypeWal, TypeUpgrade, TypeHydrate, TypeConsumer, VersionsOK,
     ConsumerOK, LocalsOK, UpgradePoints
<1>3. TypeKeys'
  BY <1>1, ConstantsAssumption DEF PauseExpiresEarly, Spend, TypeKeys
<1>4. budget' \in Nat
  BY <1>1, ConstantsAssumption DEF PauseExpiresEarly, Spend
<1> QED
  BY <1>2, <1>3, <1>4

\* The liveness key expires.
LEMMA LivenessExpiresTypes ==
    ASSUME TInv, LivenessExpires
    PROVE  TInv'
<1> USE DEF TInv, TypeOK
<1>1. UNCHANGED <<current, refs, linked, lastSeg, ver, rows, lock, pause, last, cursor,
                  pel, stored, upc, old, new, counted, hpc, latest, hseg, cpc, cseg,
                  batch, done>>
  BY DEF LivenessExpires, Spend, segVars, keyVars, upVars, hydVars, conVars
<1>2. /\ TypeSegments' /\ TypeWal' /\ TypeUpgrade' /\ TypeHydrate' /\ TypeConsumer'
      /\ VersionsOK' /\ ConsumerOK' /\ LocalsOK'
  BY <1>1 DEF TypeSegments, TypeWal, TypeUpgrade, TypeHydrate, TypeConsumer, VersionsOK,
     ConsumerOK, LocalsOK, UpgradePoints
<1>3. TypeKeys'
  BY <1>1, ConstantsAssumption DEF LivenessExpires, Spend, TypeKeys
<1>4. budget' \in Nat
  BY <1>1, ConstantsAssumption DEF LivenessExpires, Spend
<1> QED
  BY <1>2, <1>3, <1>4

--------------------------------------------------------------------------------
(* The pointer, without a lost reply *)

\* An upgrade or a hydration creates a segment that no other one created.
NewDistinct ==
    /\ \A o, p \in Upgraders : o # p /\ new[o] # 0 => new[o] # new[p]
    /\ \A o \in Upgraders, h \in Hydrators : new[o] # 0 => new[o] # hseg[h]

\* Until the flip no pointer names the new segment, and nobody has opened it.
NewUnnamed ==
    \A o \in Upgraders : upc[o] \in {"created", "copied", "cleanup"} =>
        /\ new[o] # current
        /\ \A p \in Upgraders : new[o] # old[p]

\* Until the flip or the cleanup the new segment is there, held by its creator.
NewHeld ==
    \A o \in Upgraders : upc[o] \in {"created", "copied"} =>
        new[o] \in linked /\ o \in refs[new[o]]

PInv == NewDistinct /\ NewUnnamed /\ NewHeld /\ PointerIsLive

\* What a hydration left part-filled stays so.
PartialsStay ==
    \A h \in Hydrators :
        hpc[h] = "partial" => hpc'[h] = "partial" /\ hseg'[h] = hseg[h]

\* What p does takes nothing from the other holders.
OthersKeep(p) ==
    \A s \in linked : \A q \in Holders \ {p} :
        q \in refs[s] => s \in linked' /\ q \in refs'[s]

\* The names of segments are segments.
LEMMA NamesAreSegments ==
    ASSUME TInv
    PROVE  /\ linked \subseteq Segs
           /\ current # 0 => current \in Segs
           /\ \A o \in Upgraders :
                 upc[o] \in {"created", "copied", "cleanup"} => new[o] \in Segs
<1> USE DEF TInv, TypeOK
<1>1. lastSeg \in Segs /\ current \in 0..lastSeg /\ linked \subseteq 1..lastSeg
  BY DEF TypeSegments
<1>2. linked \subseteq Segs
  BY <1>1, ConstantsAssumption DEF Segs
<1>3. current # 0 => current \in Segs
  BY <1>1, NumberTypes
<1>4. ASSUME NEW o \in Upgraders, upc[o] \in {"created", "copied", "cleanup"}
      PROVE  new[o] \in Segs
  <2>1. new[o] # 0 /\ new[o] \in 0..lastSeg
    BY <1>4 DEF LocalsOK, TypeUpgrade
  <2> QED
    BY <1>1, <2>1, NumberTypes
<1> QED
  BY <1>2, <1>3, <1>4

\* p drops references.
LEMMA DropKeeps ==
    ASSUME TInv, PointerIsLive, NEW p, NEW S, DropRef(p, S), UNCHANGED <<hpc, hseg>>
    PROVE  PointerIsLive' /\ OthersKeep(p)
<1> USE DEF TInv, TypeOK
<1>1. PointerIsLive'
  <2> SUFFICES ASSUME current' # 0
               PROVE  refs'[current'] # {} /\ (current' \in linked' \/ Abandoned')
    BY DEF PointerIsLive
  <2>1. current' = current /\ current \notin {s \in S : refs[s] = {p}}
    BY DEF DropRef
  <2>2. current \in Segs /\ refs[current] # {} /\ (current \in linked \/ Abandoned)
    BY <2>1, NamesAreSegments DEF PointerIsLive
  <2>3. current' \in linked' \/ Abandoned'
    BY <2>1, <2>2 DEF DropRef, Abandoned
  <2>4. refs'[current] # {}
    BY <2>1, <2>2 DEF DropRef
  <2> QED
    BY <2>1, <2>3, <2>4
<1>2. OthersKeep(p)
  BY NamesAreSegments DEF OthersKeep, DropRef
<1> QED
  BY <1>1, <1>2

\* p leaves its references behind.
LEMMA LeaveKeeps ==
    ASSUME TInv, PointerIsLive, NEW p, LeaveRefs(p), UNCHANGED <<linked, current>>,
           PartialsStay
    PROVE  PointerIsLive' /\ OthersKeep(p)
<1>1. \A s \in Segs : refs[s] # {} => refs'[s] # {}
  BY DEF LeaveRefs
<1>2. PointerIsLive'
  BY <1>1, NamesAreSegments DEF PointerIsLive, Abandoned, PartialsStay
<1>3. OthersKeep(p)
  BY NamesAreSegments DEF OthersKeep, LeaveRefs
<1> QED
  BY <1>2, <1>3

\* The new segments of the upgrades that go on.
LEMMA HeldIsKept ==
    ASSUME TInv, NewHeld, NEW p, OthersKeep(p),
           \A o \in Upgraders : upc'[o] \in {"created", "copied"} =>
               o # p /\ upc'[o] = upc[o] /\ new'[o] = new[o]
    PROVE  NewHeld'
<1> SUFFICES ASSUME NEW o \in Upgraders, upc'[o] \in {"created", "copied"}
             PROVE  new'[o] \in linked' /\ o \in refs'[new'[o]]
  BY DEF NewHeld
<1>1. new[o] \in linked /\ o \in refs[new[o]] /\ o # p /\ o \in Holders
  BY DEF NewHeld, Holders
<1>2. new[o] \in linked' /\ o \in refs'[new[o]]
  BY <1>1 DEF OthersKeep
<1> QED
  BY <1>2

\* The number of a segment that is created is not yet in use.
LEMMA FreshNumber ==
    ASSUME NEW n \in Segs, NEW m, m = n + 1
    PROVE  m \notin 0..n /\ m # 0
  BY DEF Segs

\* p creates a segment.
LEMMA CreateKeeps ==
    ASSUME TInv, PointerIsLive, NEW p, NEW v, NEW b \in BOOLEAN, CreateSegment(p, v, b),
           PartialsStay
    PROVE  /\ PointerIsLive' /\ OthersKeep(p)
           /\ lastSeg' \notin 0..lastSeg /\ lastSeg' # 0
           /\ lastSeg' \in linked' /\ p \in refs'[lastSeg']
           /\ current' = IF b THEN lastSeg' ELSE current
<1> USE DEF TInv, TypeOK
<1>1. lastSeg' \notin 0..lastSeg /\ lastSeg' # 0 /\ lastSeg' \in Segs
  <2>1. lastSeg \in Segs /\ lastSeg' = lastSeg + 1 /\ lastSeg < MaxSegs
    BY DEF CreateSegment, TypeSegments
  <2>2. lastSeg' \in Segs
    BY <2>1, ConstantsAssumption DEF Segs
  <2> QED
    BY <2>1, <2>2, FreshNumber
<1>2. \A s \in Segs : s # lastSeg' => refs'[s] = refs[s]
  BY DEF CreateSegment, TypeSegments
<1>3. linked' = linked \cup {lastSeg'} /\ refs'[lastSeg'] = {p}
  BY <1>1 DEF CreateSegment, TypeSegments
<1>4. current' = IF b THEN lastSeg' ELSE current
  BY DEF CreateSegment
<1>5. lastSeg' \notin linked /\ lastSeg' # current
  <2>1. current \in 0..lastSeg /\ linked \subseteq 0..lastSeg
    BY DEF TypeSegments, Segs
  <2> QED
    BY <1>1, <2>1
<1>6. PointerIsLive'
  BY <1>1, <1>2, <1>3, <1>4, <1>5, NamesAreSegments DEF PointerIsLive, Abandoned,
     PartialsStay
<1>7. OthersKeep(p)
  BY <1>2, <1>3, <1>5, NamesAreSegments DEF OthersKeep
<1> QED
  BY <1>1, <1>3, <1>4, <1>6, <1>7

\* The upgrade lock.
LEMMA AcquirePointer ==
    ASSUME TInv, PInv, NEW o \in Upgraders, Acquire(o)
    PROVE  PInv'
<1> USE DEF TInv, TypeOK, PInv
<1>1. UNCHANGED <<old, new, hseg, hpc, current, linked, refs, lastSeg>>
  BY DEF Acquire, Go, segVars, walVars, hydVars, conVars
<1>2. NewDistinct' /\ PointerIsLive'
  BY <1>1 DEF NewDistinct, PointerIsLive, Abandoned
<1>3. NewUnnamed'
  BY <1>1, ConstantsAssumption DEF Acquire, Go, NewUnnamed, TypeUpgrade, LocalsOK,
     NewDistinct
<1>4. NewHeld'
  BY <1>1, ConstantsAssumption DEF Acquire, Go, NewHeld, TypeUpgrade, TypeSegments,
     NewDistinct, LocalsOK
<1> QED
  BY <1>2, <1>3, <1>4

\* XPENDING.
LEMMA CheckPendingPointer ==
    ASSUME TInv, PInv, NEW o \in Upgraders, CheckPending(o)
    PROVE  PInv'
<1> USE DEF TInv, TypeOK, PInv
<1>1. UNCHANGED <<old, new, hseg, hpc, current, linked, refs, lastSeg>>
  BY DEF CheckPending, Go, ReleaseIfOwned, Spend, segVars, walVars, hydVars, conVars
<1>2. NewDistinct' /\ PointerIsLive'
  BY <1>1 DEF NewDistinct, PointerIsLive, Abandoned
<1>3. NewUnnamed'
  BY <1>1, ConstantsAssumption DEF CheckPending, Go, ReleaseIfOwned, Spend, NewUnnamed,
     TypeUpgrade, LocalsOK, NewDistinct
<1>4. NewHeld'
  BY <1>1, ConstantsAssumption DEF CheckPending, Go, ReleaseIfOwned, Spend, NewHeld,
     TypeUpgrade, TypeSegments, NewDistinct, LocalsOK
<1> QED
  BY <1>2, <1>3, <1>4

\* The liveness key.
LEMMA CheckLivenessPointer ==
    ASSUME TInv, PInv, NEW o \in Upgraders, CheckLiveness(o)
    PROVE  PInv'
<1> USE DEF TInv, TypeOK, PInv
<1>1. UNCHANGED <<old, new, hseg, hpc, current, linked, refs, lastSeg>>
  BY DEF CheckLiveness, Go, ReleaseIfOwned, segVars, walVars, hydVars, conVars
<1>2. NewDistinct' /\ PointerIsLive'
  BY <1>1 DEF NewDistinct, PointerIsLive, Abandoned
<1>3. NewUnnamed'
  BY <1>1, ConstantsAssumption DEF CheckLiveness, Go, ReleaseIfOwned, NewUnnamed,
     TypeUpgrade, LocalsOK, NewDistinct
<1>4. NewHeld'
  BY <1>1, ConstantsAssumption DEF CheckLiveness, Go, ReleaseIfOwned, NewHeld,
     TypeUpgrade, TypeSegments, NewDistinct, LocalsOK
<1> QED
  BY <1>2, <1>3, <1>4

\* The GET of the liveness key raises.
LEMMA CheckLivenessRaisesPointer ==
    ASSUME TInv, PInv, NEW o \in Upgraders, CheckLivenessRaises(o)
    PROVE  PInv'
<1> USE DEF TInv, TypeOK, PInv
<1>1. UNCHANGED <<old, new, hseg, hpc, current, linked, refs, lastSeg>>
  BY DEF CheckLivenessRaises, Go, Spend, segVars, keyVars, walVars, hydVars, conVars
<1>2. NewDistinct' /\ PointerIsLive'
  BY <1>1 DEF NewDistinct, PointerIsLive, Abandoned
<1>3. NewUnnamed'
  BY <1>1, ConstantsAssumption DEF CheckLivenessRaises, Go, Spend, NewUnnamed,
     TypeUpgrade, LocalsOK, NewDistinct
<1>4. NewHeld'
  BY <1>1, ConstantsAssumption DEF CheckLivenessRaises, Go, Spend, NewHeld, TypeUpgrade,
     TypeSegments, NewDistinct, LocalsOK
<1> QED
  BY <1>2, <1>3, <1>4

\* The pause key is set.
LEMMA SetPausePointer ==
    ASSUME TInv, PInv, NEW o \in Upgraders, SetPause(o)
    PROVE  PInv'
<1> USE DEF TInv, TypeOK, PInv
<1>1. UNCHANGED <<old, new, hseg, hpc, current, linked, refs, lastSeg>>
  BY DEF SetPause, Go, segVars, walVars, hydVars, conVars
<1>2. NewDistinct' /\ PointerIsLive'
  BY <1>1 DEF NewDistinct, PointerIsLive, Abandoned
<1>3. NewUnnamed'
  BY <1>1, ConstantsAssumption DEF SetPause, Go, NewUnnamed, TypeUpgrade, LocalsOK,
     NewDistinct
<1>4. NewHeld'
  BY <1>1, ConstantsAssumption DEF SetPause, Go, NewHeld, TypeUpgrade, TypeSegments,
     NewDistinct, LocalsOK
<1> QED
  BY <1>2, <1>3, <1>4

\* open_current of the old segment.
LEMMA OpenOldPointer ==
    ASSUME TInv, PInv, NEW o \in Upgraders, OpenOld(o)
    PROVE  PInv'
<1> USE DEF TInv, TypeOK, PInv
<1>1. UNCHANGED <<new, hseg, hpc, current, linked, lastSeg>>
  BY DEF OpenOld, Go, OpenSegment, CanOpen, keyVars, walVars, hydVars, conVars
<1>2. NewDistinct'
  BY <1>1 DEF NewDistinct
<1>3. NewUnnamed'
  BY <1>1, ConstantsAssumption DEF OpenOld, Go, OpenSegment, CanOpen, NewUnnamed,
     TypeUpgrade, LocalsOK, NewDistinct
<1>4. NewHeld'
  <2>1. OthersKeep(o)
    <3>1. \A s \in Segs : refs[s] \subseteq refs'[s]
      BY DEF OpenOld, OpenSegment, TypeSegments
    <3> QED
      BY <1>1, <3>1, NamesAreSegments DEF OthersKeep
  <2>2. \A q \in Upgraders : upc'[q] \in {"created", "copied"} =>
            q # o /\ upc'[q] = upc[q] /\ new'[q] = new[q]
    BY <1>1 DEF OpenOld, Go, TypeUpgrade
  <2> QED
    BY <2>1, <2>2, HeldIsKept
<1>5. PointerIsLive'
  BY <1>1, ConstantsAssumption DEF OpenOld, Go, OpenSegment, CanOpen, PointerIsLive, Abandoned,
     TypeUpgrade, TypeSegments, NewHeld, NewUnnamed
<1> QED
  BY <1>2, <1>3, <1>4, <1>5

\* The new segment.
LEMMA CreateNewPointer ==
    ASSUME TInv, PInv, NEW o \in Upgraders, CreateNew(o)
    PROVE  PInv'
<1> USE DEF TInv, TypeOK, PInv
<1>1. UNCHANGED <<old, hseg, hpc>>
  BY DEF CreateNew, Go, CreateSegment, keyVars, walVars, hydVars, conVars
<1>2. CASE current = old[o] /\ CreateSegment(o, ver[old[o]] + 1, FALSE)
  <2>1. /\ PointerIsLive' /\ OthersKeep(o)
        /\ lastSeg' \notin 0..lastSeg /\ lastSeg' # 0
        /\ lastSeg' \in linked' /\ o \in refs'[lastSeg']
        /\ current' = current
    BY <1>1, <1>2, CreateKeeps DEF PartialsStay
  <2>2. new' = [new EXCEPT ![o] = lastSeg'] /\ upc' = [upc EXCEPT ![o] = "created"]
    BY <1>2 DEF CreateNew, Go
  <2>3. /\ \A p \in Upgraders : new[p] \in 0..lastSeg /\ old[p] \in 0..lastSeg
        /\ \A h \in Hydrators : hseg[h] \in 0..lastSeg
        /\ current \in 0..lastSeg
    BY DEF TypeUpgrade, TypeHydrate, TypeSegments
  <2>4. new'[o] = lastSeg' /\ \A p \in Upgraders \ {o} : new'[p] = new[p] /\ upc'[p] = upc[p]
    BY <2>2 DEF TypeUpgrade
  <2>5. NewDistinct'
    BY <1>1, <2>1, <2>3, <2>4 DEF NewDistinct
  <2>6. NewUnnamed'
    BY <1>1, <2>1, <2>3, <2>4 DEF NewUnnamed
  <2>7. NewHeld'
    BY <2>1, <2>4 DEF NewHeld, OthersKeep, Holders
  <2> QED
    BY <2>1, <2>5, <2>6, <2>7
<1>3. CASE Go(o, "finally") /\ UNCHANGED <<current, linked, lastSeg, refs, ver, new, counted>>
  BY <1>1, <1>3 DEF Go, TypeUpgrade, NewDistinct, NewUnnamed, NewHeld, PointerIsLive, Abandoned
<1> QED
  BY <1>2, <1>3 DEF CreateNew

\* The rows are copied.
LEMMA CopyPointer ==
    ASSUME TInv, PInv, NEW o \in Upgraders, Copy(o)
    PROVE  PInv'
<1> USE DEF TInv, TypeOK, PInv
<1>1. UNCHANGED <<old, new, hseg, hpc, current, linked, refs, lastSeg>>
  BY DEF Copy, Go, keyVars, walVars, hydVars, conVars
<1>2. NewDistinct' /\ PointerIsLive'
  BY <1>1 DEF NewDistinct, PointerIsLive, Abandoned
<1>3. NewUnnamed'
  BY <1>1, ConstantsAssumption DEF Copy, Go, NewUnnamed, TypeUpgrade, LocalsOK,
     NewDistinct
<1>4. NewHeld'
  BY <1>1, ConstantsAssumption DEF Copy, Go, NewHeld, TypeUpgrade, TypeSegments,
     NewDistinct, LocalsOK
<1> QED
  BY <1>2, <1>3, <1>4

\* The compare-and-set of the pointer.
LEMMA FlipPointer ==
    ASSUME TInv, PInv, NEW o \in Upgraders, Flip(o)
    PROVE  PInv'
<1> USE DEF TInv, TypeOK, PInv
<1>1. UNCHANGED <<old, new, hseg, hpc, linked, refs, lastSeg>>
  BY DEF Flip, Go, keyVars, walVars, hydVars, conVars
<1>2. NewDistinct'
  BY <1>1 DEF NewDistinct
<1>3. NewUnnamed'
  BY <1>1, ConstantsAssumption DEF Flip, Go, NewUnnamed, TypeUpgrade, LocalsOK,
     NewDistinct
<1>4. NewHeld'
  BY <1>1, ConstantsAssumption DEF Flip, Go, NewHeld, TypeUpgrade, TypeSegments,
     NewDistinct, LocalsOK
<1>5. PointerIsLive'
  BY <1>1, ConstantsAssumption DEF Flip, Go, PointerIsLive, Abandoned, TypeUpgrade, TypeSegments,
     NewHeld, NewUnnamed
<1> QED
  BY <1>2, <1>3, <1>4, <1>5

\* The pause key is cleared.
LEMMA ClearPausePointer ==
    ASSUME TInv, PInv, NEW o \in Upgraders, ClearPause(o)
    PROVE  PInv'
<1> USE DEF TInv, TypeOK, PInv
<1>1. UNCHANGED <<old, new, hseg, hpc, current, linked, refs, lastSeg>>
  BY DEF ClearPause, Go, segVars, walVars, hydVars, conVars
<1>2. NewDistinct' /\ PointerIsLive'
  BY <1>1 DEF NewDistinct, PointerIsLive, Abandoned
<1>3. NewUnnamed'
  BY <1>1, ConstantsAssumption DEF ClearPause, Go, NewUnnamed, TypeUpgrade, LocalsOK,
     NewDistinct
<1>4. NewHeld'
  BY <1>1, ConstantsAssumption DEF ClearPause, Go, NewHeld, TypeUpgrade, TypeSegments,
     NewDistinct, LocalsOK
<1> QED
  BY <1>2, <1>3, <1>4

\* The wait for consumers ends.
LEMMA WaitEndsPointer ==
    ASSUME TInv, PInv, NEW o \in Upgraders, WaitEnds(o)
    PROVE  PInv'
<1> USE DEF TInv, TypeOK, PInv
<1>1. UNCHANGED <<old, new, hseg, hpc, current, linked, refs, lastSeg>>
  BY DEF WaitEnds, Go, segVars, keyVars, walVars, hydVars, conVars
<1>2. NewDistinct' /\ PointerIsLive'
  BY <1>1 DEF NewDistinct, PointerIsLive, Abandoned
<1>3. NewUnnamed'
  BY <1>1, ConstantsAssumption DEF WaitEnds, Go, NewUnnamed, TypeUpgrade, LocalsOK,
     NewDistinct
<1>4. NewHeld'
  BY <1>1, ConstantsAssumption DEF WaitEnds, Go, NewHeld, TypeUpgrade, TypeSegments,
     NewDistinct, LocalsOK
<1> QED
  BY <1>2, <1>3, <1>4

\* An exception in the try block.
LEMMA RaisePointer ==
    ASSUME TInv, PInv, NEW o \in Upgraders, Raise(o)
    PROVE  PInv'
<1> USE DEF TInv, TypeOK, PInv
<1>1. UNCHANGED <<old, new, hseg, hpc, current, linked, refs, lastSeg>>
  BY DEF Raise, Go, Spend, segVars, keyVars, walVars, hydVars, conVars
<1>2. NewDistinct' /\ PointerIsLive'
  BY <1>1 DEF NewDistinct, PointerIsLive, Abandoned
<1>3. NewUnnamed'
  BY <1>1, ConstantsAssumption DEF Raise, Go, Spend, NewUnnamed, TypeUpgrade, LocalsOK,
     NewDistinct
<1>4. NewHeld'
  BY <1>1, ConstantsAssumption DEF Raise, Go, Spend, NewHeld, TypeUpgrade, TypeSegments,
     NewDistinct, LocalsOK
<1> QED
  BY <1>2, <1>3, <1>4

\* A failure that is suppressed.
LEMMA SuppressedPointer ==
    ASSUME TInv, PInv, NEW o \in Upgraders, Suppressed(o)
    PROVE  PInv'
<1> USE DEF TInv, TypeOK, PInv
<1>1. UNCHANGED <<old, new, hseg, hpc, current, linked, refs, lastSeg>>
  BY DEF Suppressed, Go, Spend, segVars, keyVars, walVars, hydVars, conVars
<1>2. NewDistinct' /\ PointerIsLive'
  BY <1>1 DEF NewDistinct, PointerIsLive, Abandoned
<1>3. NewUnnamed'
  BY <1>1, ConstantsAssumption DEF Suppressed, Go, Spend, NewUnnamed, TypeUpgrade, LocalsOK,
     NewDistinct
<1>4. NewHeld'
  BY <1>1, ConstantsAssumption DEF Suppressed, Go, Spend, NewHeld, TypeUpgrade, TypeSegments,
     NewDistinct, LocalsOK
<1> QED
  BY <1>2, <1>3, <1>4

\* The new segment is removed.
LEMMA CleanupOrphanPointer ==
    ASSUME TInv, PInv, NEW o \in Upgraders, CleanupOrphan(o)
    PROVE  PInv'
<1> USE DEF TInv, TypeOK, PInv
<1>1. UNCHANGED <<old, new, hseg, hpc, current, lastSeg>>
  BY DEF CleanupOrphan, Go, keyVars, walVars, hydVars, conVars
<1>2. NewDistinct'
  BY <1>1 DEF NewDistinct
<1>3. NewUnnamed'
  BY <1>1, ConstantsAssumption DEF CleanupOrphan, Go, NewUnnamed, TypeUpgrade, LocalsOK,
     NewDistinct
<1>4. NewHeld'
  BY <1>1, ConstantsAssumption DEF CleanupOrphan, Go, NewHeld, TypeUpgrade, TypeSegments,
     NewDistinct, LocalsOK
<1>5. PointerIsLive'
  BY <1>1, ConstantsAssumption DEF CleanupOrphan, Go, PointerIsLive, Abandoned, TypeUpgrade,
     TypeSegments, NewHeld, NewUnnamed
<1> QED
  BY <1>2, <1>3, <1>4, <1>5

\* The removal of the new segment fails in part.
LEMMA CleanupOrphanFailsPointer ==
    ASSUME TInv, PInv, NEW o \in Upgraders, CleanupOrphanFails(o)
    PROVE  PInv'
<1> USE DEF TInv, TypeOK, PInv
<1>1. UNCHANGED <<old, new, hseg, hpc, current, lastSeg>>
  BY DEF CleanupOrphanFails, Go, Spend, keyVars, walVars, hydVars, conVars
<1>2. NewDistinct'
  BY <1>1 DEF NewDistinct
<1>3. NewUnnamed'
  BY <1>1, ConstantsAssumption DEF CleanupOrphanFails, Go, Spend, NewUnnamed, TypeUpgrade, LocalsOK,
     NewDistinct
<1>4. /\ \A s \in Segs : s # new[o] => refs'[s] = refs[s]
      /\ \A s : s # new[o] => (s \in linked' <=> s \in linked)
  BY DEF CleanupOrphanFails, TypeSegments
<1>5. NewHeld'
  <2> SUFFICES ASSUME NEW p \in Upgraders, upc'[p] \in {"created", "copied"}
               PROVE  new[p] \in linked' /\ p \in refs'[new[p]]
    BY <1>1 DEF NewHeld
  <2>1. upc[p] = upc'[p] /\ p # o
    BY DEF CleanupOrphanFails, Go, TypeUpgrade
  <2>2. new[p] # new[o] /\ new[p] \in linked /\ p \in refs[new[p]] /\ new[p] \in Segs
    BY <2>1, NamesAreSegments DEF NewDistinct, NewHeld, LocalsOK
  <2> QED
    BY <1>4, <2>2
<1>6. PointerIsLive'
  <2>1. new[o] # current
    BY DEF CleanupOrphanFails, NewUnnamed
  <2>2. Abandoned' = Abandoned
    BY <1>1 DEF Abandoned
  <2> QED
    BY <1>1, <1>4, <2>1, <2>2, NamesAreSegments DEF PointerIsLive
<1> QED
  BY <1>2, <1>3, <1>5, <1>6

\* The old segment is closed.
LEMMA CloseOldPointer ==
    ASSUME TInv, PInv, NEW o \in Upgraders, CloseOld(o)
    PROVE  PInv'
<1> USE DEF TInv, TypeOK, PInv
<1>1. UNCHANGED <<old, new, hseg, hpc, lastSeg>>
  BY DEF CloseOld, Go, DropRef, keyVars, walVars, hydVars, conVars
<1>2. NewDistinct'
  BY <1>1 DEF NewDistinct
<1>3. NewUnnamed'
  BY <1>1, ConstantsAssumption DEF CloseOld, Go, DropRef, NewUnnamed, TypeUpgrade,
     LocalsOK, NewDistinct
<1>4. NewHeld'
  <2>1. OthersKeep(o)
    <3>1. CASE old[o] # 0
      BY <1>1, <3>1, DropKeeps DEF CloseOld
    <3>2. CASE old[o] = 0
      BY <3>2 DEF CloseOld, OthersKeep
    <3> QED
      BY <3>1, <3>2
  <2>2. \A q \in Upgraders : upc'[q] \in {"created", "copied"} =>
            q # o /\ upc'[q] = upc[q] /\ new'[q] = new[q]
    BY <1>1, ConstantsAssumption DEF CloseOld, TypeUpgrade, Go
  <2> QED
    BY <2>1, <2>2, HeldIsKept
<1>5. PointerIsLive'
  <2>1. CASE old[o] # 0
    BY <1>1, <2>1, DropKeeps DEF CloseOld
  <2>2. CASE old[o] = 0
    BY <1>1, <2>2 DEF CloseOld, PointerIsLive, Abandoned
  <2> QED
    BY <2>1, <2>2
<1> QED
  BY <1>2, <1>3, <1>4, <1>5

\* The lock is released.
LEMMA ReleaseLockPointer ==
    ASSUME TInv, PInv, NEW o \in Upgraders, ReleaseLock(o)
    PROVE  PInv'
<1> USE DEF TInv, TypeOK, PInv
<1>1. UNCHANGED <<old, new, hseg, hpc, current, linked, refs, lastSeg>>
  BY DEF ReleaseLock, Go, ReleaseIfOwned, segVars, walVars, hydVars, conVars
<1>2. NewDistinct' /\ PointerIsLive'
  BY <1>1 DEF NewDistinct, PointerIsLive, Abandoned
<1>3. NewUnnamed'
  BY <1>1, ConstantsAssumption DEF ReleaseLock, Go, ReleaseIfOwned, NewUnnamed,
     TypeUpgrade, LocalsOK, NewDistinct
<1>4. NewHeld'
  BY <1>1, ConstantsAssumption DEF ReleaseLock, Go, ReleaseIfOwned, NewHeld, TypeUpgrade,
     TypeSegments, NewDistinct, LocalsOK
<1> QED
  BY <1>2, <1>3, <1>4

\* The call ends.
LEMMA DeletePausePointer ==
    ASSUME TInv, PInv, NEW o \in Upgraders, DeletePause(o)
    PROVE  PInv'
<1> USE DEF TInv, TypeOK, PInv
<1>1. UNCHANGED <<hseg, hpc, current, linked, lastSeg>>
  BY DEF DeletePause, Go, LeaveRefs, Forget, walVars, hydVars, conVars
<1>2. NewDistinct'
  BY <1>1, ConstantsAssumption DEF DeletePause, Go, LeaveRefs, Forget, NewDistinct,
     TypeUpgrade, TypeHydrate, LocalsOK
<1>3. NewUnnamed'
  BY <1>1, ConstantsAssumption DEF DeletePause, Go, LeaveRefs, Forget, NewUnnamed,
     TypeUpgrade, LocalsOK, NewDistinct
<1>4. NewHeld'
  <2>1. OthersKeep(o)
    BY <1>1, LeaveKeeps DEF DeletePause, PartialsStay
  <2>2. \A q \in Upgraders : upc'[q] \in {"created", "copied"} =>
            q # o /\ upc'[q] = upc[q] /\ new'[q] = new[q]
    BY <1>1, ConstantsAssumption DEF DeletePause, TypeUpgrade, Go, Forget
  <2> QED
    BY <2>1, <2>2, HeldIsKept
<1>5. PointerIsLive'
  BY <1>1, LeaveKeeps DEF DeletePause, PartialsStay
<1> QED
  BY <1>2, <1>3, <1>4, <1>5

\* The upgrading process is killed.
LEMMA UpgraderDiesPointer ==
    ASSUME TInv, PInv, NEW o \in Upgraders, UpgraderDies(o)
    PROVE  PInv'
<1> USE DEF TInv, TypeOK, PInv
<1>1. UNCHANGED <<hseg, hpc, current, linked, lastSeg>>
  BY DEF UpgraderDies, Go, Spend, LeaveRefs, Forget, Active, keyVars, walVars, hydVars,
     conVars
<1>2. NewDistinct'
  BY <1>1, ConstantsAssumption DEF UpgraderDies, Go, Spend, LeaveRefs, Forget, Active,
     NewDistinct, TypeUpgrade, TypeHydrate, LocalsOK
<1>3. NewUnnamed'
  BY <1>1, ConstantsAssumption DEF UpgraderDies, Go, Spend, LeaveRefs, Forget, Active,
     NewUnnamed, TypeUpgrade, LocalsOK, NewDistinct
<1>4. NewHeld'
  <2>1. OthersKeep(o)
    BY <1>1, LeaveKeeps DEF UpgraderDies, PartialsStay
  <2>2. \A q \in Upgraders : upc'[q] \in {"created", "copied"} =>
            q # o /\ upc'[q] = upc[q] /\ new'[q] = new[q]
    BY <1>1, ConstantsAssumption DEF UpgraderDies, TypeUpgrade, Go, Forget
  <2> QED
    BY <2>1, <2>2, HeldIsKept
<1>5. PointerIsLive'
  BY <1>1, LeaveKeeps DEF UpgraderDies, PartialsStay
<1> QED
  BY <1>2, <1>3, <1>4, <1>5

\* hydrate creates the current segment.
LEMMA CreateCurrentPointer ==
    ASSUME TInv, PInv, NEW h \in Hydrators, CreateCurrent(h)
    PROVE  PInv'
<1> USE DEF TInv, TypeOK, PInv
<1>1. UNCHANGED <<upc, old, new>>
  BY DEF CreateCurrent, HGo, CreateSegment, keyVars, walVars, upVars, conVars
<1>2. PICK s \in 1..lastSeg : CreateSegment(h, ver[s], TRUE)
  BY DEF CreateCurrent
<1>3. /\ PointerIsLive' /\ OthersKeep(h)
      /\ lastSeg' \notin 0..lastSeg /\ lastSeg' # 0
      /\ current' = lastSeg'
  <2>1. PartialsStay
    BY DEF CreateCurrent, HGo, TypeHydrate, PartialsStay
  <2> QED
    BY <1>2, <2>1, CreateKeeps
<1>4. /\ \A p \in Upgraders : new[p] \in 0..lastSeg
      /\ \A g \in Hydrators : hseg'[g] \in {hseg[g], lastSeg'}
  BY DEF TypeUpgrade, TypeHydrate, CreateCurrent
<1>5. NewDistinct'
  BY <1>1, <1>3, <1>4 DEF NewDistinct
<1>6. NewUnnamed'
  BY <1>1, <1>3, <1>4 DEF NewUnnamed
<1>7. NewHeld'
  BY <1>1, <1>3, HeldIsKept, ConstantsAssumption
<1> QED
  BY <1>3, <1>5, <1>6, <1>7

\* hydrate fills it.
LEMMA FillPointer ==
    ASSUME TInv, PInv, NEW h \in Hydrators, Fill(h)
    PROVE  PInv'
<1> USE DEF TInv, TypeOK, PInv
<1>1. UNCHANGED <<upc, old, new, current, linked, lastSeg>>
  BY DEF Fill, HGo, LeaveRefs, HForget, keyVars, walVars, upVars, conVars
<1>2. NewUnnamed'
  BY <1>1 DEF NewUnnamed
<1>3. NewDistinct'
  BY <1>1, ConstantsAssumption DEF Fill, HGo, LeaveRefs, HForget, NewDistinct,
     TypeUpgrade, TypeHydrate, LocalsOK
<1>4. PointerIsLive' /\ OthersKeep(h)
  <2>1. PartialsStay
    BY DEF Fill, HGo, HForget, TypeHydrate, PartialsStay
  <2> QED
    BY <1>1, <2>1, LeaveKeeps DEF Fill
<1>5. NewHeld'
  <2>1. \A q \in Upgraders : upc'[q] \in {"created", "copied"} =>
            q # h /\ upc'[q] = upc[q] /\ new'[q] = new[q]
    BY <1>1, ConstantsAssumption DEF Fill, TypeUpgrade
  <2> QED
    BY <1>4, <2>1, HeldIsKept
<1> QED
  BY <1>2, <1>3, <1>4, <1>5

\* hydrate breaks off.
LEMMA HydrateBreaksOffPointer ==
    ASSUME TInv, PInv, NEW h \in Hydrators, HydrateBreaksOff(h)
    PROVE  PInv'
<1> USE DEF TInv, TypeOK, PInv
<1>1. UNCHANGED <<upc, old, new, current, linked, lastSeg>>
  BY DEF HydrateBreaksOff, upVars
<1>2. NewUnnamed'
  BY <1>1 DEF NewUnnamed
<1>3. \A g \in Hydrators : hseg'[g] \in {0, hseg[g]}
  BY DEF HydrateBreaksOff, LeavePartial, HForget, TypeHydrate
<1>4. NewDistinct'
  BY <1>1, <1>3 DEF NewDistinct
<1>5. PointerIsLive' /\ OthersKeep(h)
  <2>1. PartialsStay
    BY DEF HydrateBreaksOff, HGo, HForget, LeavePartial, TypeHydrate, PartialsStay
  <2> QED
    BY <1>1, <2>1, LeaveKeeps DEF HydrateBreaksOff
<1>6. NewHeld'
  <2>1. \A q \in Upgraders : upc'[q] \in {"created", "copied"} =>
            q # h /\ upc'[q] = upc[q] /\ new'[q] = new[q]
    BY <1>1, ConstantsAssumption DEF TypeUpgrade
  <2> QED
    BY <1>5, <2>1, HeldIsKept
<1> QED
  BY <1>2, <1>4, <1>5, <1>6

\* Filling it raises.
LEMMA FillRaisesPointer ==
    ASSUME TInv, PInv, NEW h \in Hydrators, FillRaises(h)
    PROVE  PInv'
<1> USE DEF TInv, TypeOK, PInv
<1>1. UNCHANGED <<upc, old, new, lastSeg>>
  BY DEF FillRaises, HGo, Spend, HForget, keyVars, walVars, upVars, conVars
<1>2. NewDistinct'
  BY <1>1, ConstantsAssumption DEF FillRaises, HGo, Spend, HForget, NewDistinct,
     TypeUpgrade, TypeHydrate, LocalsOK
<1>3. NewUnnamed'
  BY <1>1, ConstantsAssumption DEF FillRaises, HGo, Spend, HForget, NewUnnamed,
     TypeUpgrade, LocalsOK, NewDistinct
<1>4. NewHeld'
  BY <1>1, ConstantsAssumption DEF FillRaises, HGo, Spend, HForget, NewHeld, TypeUpgrade,
     TypeSegments, NewDistinct, LocalsOK
<1>5. PointerIsLive'
  BY <1>1, ConstantsAssumption DEF FillRaises, HGo, Spend, HForget, PointerIsLive, Abandoned,
     TypeUpgrade, TypeSegments, NewHeld, NewUnnamed
<1> QED
  BY <1>2, <1>3, <1>4, <1>5

\* The cleanup after that fails in part.
LEMMA ForceDropFailsPointer ==
    ASSUME TInv, PInv, NEW h \in Hydrators, ForceDropFails(h)
    PROVE  PInv'
<1> USE DEF TInv, TypeOK, PInv
<1>1. UNCHANGED <<upc, old, new, hseg, lastSeg>> /\ current' \in {0, current}
  BY DEF ForceDropFails, LeavePartial, upVars
<1>2. NewDistinct'
  BY <1>1 DEF NewDistinct
<1>3. NewUnnamed'
  <2>1. \A o \in Upgraders : upc[o] \in {"created", "copied", "cleanup"} => new[o] # 0
    BY DEF LocalsOK
  <2> QED
    BY <1>1, <2>1 DEF NewUnnamed
<1>4. \A s \in Segs : s # hseg[h] =>
          /\ s \in linked => s \in linked'
          /\ \A q \in refs[s] : q # h => q \in refs'[s]
          /\ refs[s] # {} => refs'[s] # {}
  BY DEF ForceDropFails, LeaveRefs, TypeSegments
<1>5. NewHeld'
  <2> SUFFICES ASSUME NEW o \in Upgraders, upc[o] \in {"created", "copied"}
               PROVE  new[o] \in linked' /\ o \in refs'[new[o]]
    BY <1>1 DEF NewHeld
  <2>1. /\ new[o] \in Segs /\ new[o] # hseg[h] /\ o # h
        /\ new[o] \in linked /\ o \in refs[new[o]]
    BY NamesAreSegments, ConstantsAssumption DEF NewHeld, NewDistinct, LocalsOK
  <2> QED
    BY <1>4, <2>1
<1>6. PointerIsLive'
  <2> SUFFICES ASSUME current' # 0
               PROVE  refs'[current'] # {} /\ (current' \in linked' \/ Abandoned')
    BY DEF PointerIsLive
  <2>1. /\ current' = current /\ current # 0 /\ current \in Segs /\ LeaveRefs(h)
        /\ refs[current] # {} /\ (current \in linked \/ Abandoned)
    BY NamesAreSegments DEF ForceDropFails, PointerIsLive
  <2>2. refs'[current] # {}
    BY <2>1 DEF LeaveRefs
  <2>3. hpc'[h] = "partial" /\ \A g \in Hydrators : hpc[g] = "partial" => hpc'[g] = "partial"
    BY DEF ForceDropFails, LeavePartial, HGo, TypeHydrate
  <2>4. CASE current = hseg[h] \/ Abandoned
    BY <1>1, <2>1, <2>2, <2>3, <2>4 DEF Abandoned
  <2>5. CASE current # hseg[h] /\ current \in linked
    BY <1>4, <2>1, <2>2, <2>5
  <2> QED
    BY <2>1, <2>4, <2>5
<1> QED
  BY <1>2, <1>3, <1>5, <1>6

\* A consumer starts.
LEMMA StartPointer ==
    ASSUME TInv, PInv, Start
    PROVE  PInv'
<1> USE DEF TInv, TypeOK, PInv
<1>1. UNCHANGED <<upc, old, new, hseg, hpc, current, linked, lastSeg>>
  BY DEF Start, OpenSegment, CanOpen, keyVars, walVars, upVars, hydVars
<1>2. NewDistinct' /\ NewUnnamed'
  BY <1>1 DEF NewDistinct, NewUnnamed
<1>3. NewHeld'
  BY <1>1, ConstantsAssumption DEF Start, OpenSegment, CanOpen, NewHeld, TypeUpgrade,
     TypeSegments, NewDistinct, LocalsOK
<1>4. PointerIsLive'
  BY <1>1, ConstantsAssumption DEF Start, OpenSegment, CanOpen, PointerIsLive, Abandoned,
     TypeUpgrade, TypeSegments, NewHeld, NewUnnamed
<1> QED
  BY <1>2, <1>3, <1>4

\* The parked consumer reopens.
LEMMA ReopenPointer ==
    ASSUME TInv, PInv, Reopen
    PROVE  PInv'
<1> USE DEF TInv, TypeOK, PInv
<1>1. UNCHANGED <<upc, old, new, hseg, hpc, current, lastSeg>>
  BY DEF Reopen, keyVars, walVars, upVars, hydVars
<1>2. NewDistinct' /\ NewUnnamed'
  BY <1>1 DEF NewDistinct, NewUnnamed
<1>3. NewHeld'
  <2>1. OthersKeep("consumer")
    BY NamesAreSegments DEF Reopen, OthersKeep, TypeSegments
  <2> QED
    BY <1>1, <2>1, HeldIsKept, ConstantsAssumption
<1>4. PointerIsLive'
  <2>1. CASE Fits
    <3>1. current \in Segs /\ current \in linked
      BY <2>1, NamesAreSegments DEF Fits, CanOpen
    <3>2. "consumer" \in refs'[current]
      BY <2>1, <3>1 DEF Reopen, TypeSegments
    <3>3. current \in linked'
      BY <2>1, <3>1 DEF Reopen
    <3> QED
      BY <1>1, <3>2, <3>3 DEF PointerIsLive, Abandoned
  <2>2. CASE ~Fits
    BY <1>1, <2>2 DEF Reopen, PointerIsLive, Abandoned
  <2> QED
    BY <2>1, <2>2
<1> QED
  BY <1>2, <1>3, <1>4

\* The consumer exits.
LEMMA ConsumerExitsPointer ==
    ASSUME TInv, PInv, ConsumerExits
    PROVE  PInv'
<1> USE DEF TInv, TypeOK, PInv
<1>1. UNCHANGED <<upc, old, new, hseg, hpc, lastSeg>>
  BY DEF ConsumerExits, DropRef, LeaveRefs, keyVars, walVars, upVars, hydVars
<1>2. NewDistinct'
  BY <1>1 DEF NewDistinct
<1>3. NewUnnamed'
  BY <1>1, ConstantsAssumption DEF ConsumerExits, DropRef, LeaveRefs, NewUnnamed,
     TypeUpgrade, LocalsOK, NewDistinct
<1>4. NewHeld'
  <2>1. OthersKeep("consumer")
    BY <1>1, LeaveKeeps, DropKeeps DEF ConsumerExits, PartialsStay
  <2>2. \A q \in Upgraders : upc'[q] \in {"created", "copied"} =>
            q # "consumer" /\ upc'[q] = upc[q] /\ new'[q] = new[q]
    BY <1>1, ConstantsAssumption DEF ConsumerExits, TypeUpgrade
  <2> QED
    BY <2>1, <2>2, HeldIsKept
<1>5. PointerIsLive'
  BY <1>1, LeaveKeeps, DropKeeps DEF ConsumerExits, PartialsStay
<1> QED
  BY <1>2, <1>3, <1>4, <1>5

\* The consumer crashes.
LEMMA ConsumerCrashesPointer ==
    ASSUME TInv, PInv, ConsumerCrashes
    PROVE  PInv'
<1> USE DEF TInv, TypeOK, PInv
<1>1. UNCHANGED <<upc, old, new, hseg, hpc, current, linked, lastSeg>>
  BY DEF ConsumerCrashes, Spend, LeaveRefs, keyVars, walVars, upVars, hydVars
<1>2. NewDistinct' /\ NewUnnamed'
  BY <1>1 DEF NewDistinct, NewUnnamed
<1>3. NewHeld'
  <2>1. OthersKeep("consumer")
    BY <1>1, LeaveKeeps DEF ConsumerCrashes, PartialsStay
  <2>2. \A q \in Upgraders : upc'[q] \in {"created", "copied"} =>
            q # "consumer" /\ upc'[q] = upc[q] /\ new'[q] = new[q]
    BY <1>1, ConstantsAssumption DEF ConsumerCrashes, TypeUpgrade
  <2> QED
    BY <2>1, <2>2, HeldIsKept
<1>4. PointerIsLive'
  BY <1>1, LeaveKeeps DEF ConsumerCrashes, PartialsStay
<1> QED
  BY <1>2, <1>3, <1>4

\* The server closes its segment.
LEMMA ServerClosesPointer ==
    ASSUME TInv, PInv, ServerCloses
    PROVE  PInv'
<1> USE DEF TInv, TypeOK, PInv
<1>1. UNCHANGED <<upc, old, new, hseg, hpc, lastSeg>>
  BY DEF ServerCloses, DropRef, keyVars, walVars, upVars, hydVars, conVars
<1>2. NewDistinct'
  BY <1>1 DEF NewDistinct
<1>3. NewUnnamed'
  BY <1>1, ConstantsAssumption DEF ServerCloses, DropRef, NewUnnamed, TypeUpgrade,
     LocalsOK, NewDistinct
<1>4. NewHeld'
  <2>1. OthersKeep("server")
    BY <1>1, DropKeeps DEF ServerCloses
  <2>2. \A q \in Upgraders : upc'[q] \in {"created", "copied"} =>
            q # "server" /\ upc'[q] = upc[q] /\ new'[q] = new[q]
    BY <1>1, ConstantsAssumption DEF ServerCloses, TypeUpgrade
  <2> QED
    BY <2>1, <2>2, HeldIsKept
<1>5. PointerIsLive'
  BY <1>1, DropKeeps DEF ServerCloses
<1> QED
  BY <1>2, <1>3, <1>4, <1>5

\* The watchdog reaps.
LEMMA ReapPointer ==
    ASSUME TInv, PInv, Reap
    PROVE  PInv'
<1> USE DEF TInv, TypeOK, PInv
<1>1. UNCHANGED <<upc, old, new, hseg, hpc, lastSeg>>
  BY DEF Reap, DropRef, keyVars, walVars, upVars, hydVars, conVars
<1>2. NewDistinct'
  BY <1>1 DEF NewDistinct
<1>3. NewUnnamed'
  BY <1>1, ConstantsAssumption DEF Reap, DropRef, NewUnnamed, TypeUpgrade, LocalsOK,
     NewDistinct
<1>4. NewHeld'
  <2>1. OthersKeep("gone")
    BY <1>1, DropKeeps DEF Reap
  <2>2. \A q \in Upgraders : upc'[q] \in {"created", "copied"} =>
            q # "gone" /\ upc'[q] = upc[q] /\ new'[q] = new[q]
    BY <1>1, ConstantsAssumption DEF Reap, TypeUpgrade
  <2> QED
    BY <2>1, <2>2, HeldIsKept
<1>5. PointerIsLive'
  BY <1>1, DropKeeps DEF Reap
<1> QED
  BY <1>2, <1>3, <1>4, <1>5

\* An operator deletes the pointer.
LEMMA OperatorDropsPointer ==
    ASSUME TInv, PInv, OperatorDrops
    PROVE  PInv'
<1> USE DEF TInv, TypeOK, PInv
<1>1. UNCHANGED <<upc, old, new, hseg, hpc, linked, refs, lastSeg>>
  BY DEF OperatorDrops, Spend, keyVars, walVars, upVars, hydVars, conVars
<1>2. NewDistinct' /\ NewHeld'
  BY <1>1 DEF NewDistinct, NewHeld
<1>3. NewUnnamed'
  BY <1>1, ConstantsAssumption DEF OperatorDrops, Spend, NewUnnamed, TypeUpgrade,
     LocalsOK, NewDistinct
<1>4. PointerIsLive'
  BY <1>1, ConstantsAssumption DEF OperatorDrops, Spend, PointerIsLive, Abandoned, TypeUpgrade,
     TypeSegments, NewHeld, NewUnnamed
<1> QED
  BY <1>2, <1>3, <1>4

--------------------------------------------------------------------------------
(* The rows, when operators keep to the runbook *)

\* The operators keep to ADR-014, do not delete the pointer by hand, no reply of a flip
\* is lost and the liveness key does not expire under a running consumer.
Orderly == Runbook /\ Faults \cap {"reply", "livettl", "drop"} = {}

\* The consumer will not touch a row any more.
Still == cpc \in {"down", "stop", "exit"} /\ ~live

\* The consumer runs, and anyone who asks is told.
Serving == cpc \in {"drain", "read", "check", "apply", "park"} \/ (cpc = "stop" /\ live)

LiveOK == cpc \in {"read", "check", "apply", "park"} => live

\* While an upgrade may copy the current segment its rows do not change.
QuietOK ==
    \A o \in Upgraders :
        /\ upc[o] \in {"locked", "drained"} => cpc # "drain"
        /\ upc[o] \in {"quiet", "paused"} => Still
        /\ upc[o] \in {"opened", "created", "copied"} /\ old[o] = current => Still

\* A hydration, and what one that broke off has left, is alone with the pointer: no
\* consumer, no other hydration, no upgrade that has still to open its segment.
HydrateAlone ==
    \A h \in Hydrators : Unfinished(h) =>
        /\ cpc \in {"down", "exit"}
        /\ \A o \in Upgraders : upc[o] \notin {"locked", "drained", "quiet", "paused"}
        /\ \A g \in Hydrators : Unfinished(g) => g = h

\* Until it creates its segment there is none, and then it is that one or none.  No
\* upgrade has it open.
HydrateTarget ==
    \A h \in Hydrators :
        /\ hpc[h] \in {"nosegment", "quiet", "read"} => current = 0
        /\ hpc[h] = "created" => current \in {0, hseg[h]}
        /\ hpc[h] \in {"created", "partial"} =>
               hseg[h] # 0 /\ \A o \in Upgraders : hseg[h] # old[o]

\* What it read from the offline store is all that is acknowledged.
HydrateReads ==
    \A h \in Hydrators : hpc[h] \in {"read", "created"} => Acked \subseteq latest[h]

\* The segment of a running consumer is the current one, and stays so.
ServingOK == Serving => cseg = current /\ current # 0 /\ "consumer" \in refs[cseg]

\* What waits for its acknowledgement is in the current segment.
DoneOK == current # 0 => done \subseteq rows[current]

\* A copy of the current segment is complete.
CopyOK ==
    \A o \in Upgraders : upc[o] = "copied" /\ old[o] = current => rows[new[o]] = rows[old[o]]

StoredOK == Acked \subseteq stored

RInv ==
    /\ LiveOK /\ QuietOK
    /\ HydrateAlone /\ HydrateTarget /\ HydrateReads
    /\ ServingOK /\ DoneOK /\ CopyOK /\ StoredOK /\ RowsSurvive

\* XREADGROUP acknowledges nothing.
LEMMA ReadAcks ==
    ASSUME TypeWal, Read
    PROVE  Acked' = Acked
<1>1. pel' = pel \cup ((cursor + 1)..last) /\ cursor' = last
  BY DEF Read
<1>2. cursor \in Int /\ last \in Int /\ 0 <= cursor /\ cursor <= last
  BY ConstantsAssumption DEF TypeWal
<1>3. \A m : m \in 1..last /\ m \notin (cursor + 1)..last <=> m \in 1..cursor
  BY <1>2
<1> QED
  BY <1>1, <1>3 DEF Acked

\* A flush acknowledges _pending_ack.
LEMMA FlushAcks ==
    ASSUME TypeWal, done \subseteq pel, FlushAndAck, UNCHANGED cursor
    PROVE  Acked' = Acked \cup done
  BY DEF FlushAndAck, Acked, TypeWal

\* A segment that another holder has open keeps the pointer.
LEMMA DropSpares ==
    ASSUME NEW p, NEW S, NEW q, q # p, q \in refs[current], DropRef(p, S)
    PROVE  current' = current
  BY DEF DropRef

\* Nobody takes the current segment from a running consumer.
LEMMA ServingIsKept ==
    ASSUME TInv, PointerIsLive, HydrateAlone, ServingOK, NEW p, p # "consumer",
           OthersKeep(p), Serving' => Serving,
           Serving => cseg' = cseg /\ current' = current
    PROVE  ServingOK'
<1> SUFFICES ASSUME Serving'
             PROVE  cseg' = current' /\ current' # 0 /\ "consumer" \in refs'[cseg']
  BY DEF ServingOK
<1>1. /\ cseg = current /\ current # 0 /\ "consumer" \in refs[current]
      /\ cseg' = cseg /\ current' = current
  BY DEF ServingOK
<1>2. ~Abandoned
  BY DEF Abandoned, HydrateAlone, Unfinished, Serving
<1>3. "consumer" \in refs'[current]
  BY <1>1, <1>2 DEF OthersKeep, PointerIsLive, Holders
<1> QED
  BY <1>1, <1>3

\* The pointer stays or goes: nothing new is unfinished.
LEMMA NoneBegun ==
    ASSUME HydrateTarget, UNCHANGED <<hpc, hseg>>, current' \in {0, current}
    PROVE  \A h \in Hydrators : Unfinished(h)' => Unfinished(h)
  BY DEF HydrateTarget, Hydrating, Unfinished

\* The upgrade lock.
LEMMA AcquireRows ==
    ASSUME Orderly, TInv, PInv, RInv, NEW o \in Upgraders, Acquire(o)
    PROVE  RInv'
<1> USE DEF TInv, TypeOK, PInv, RInv
<1>1. UNCHANGED <<old, new, hseg, hpc, latest, current, linked, refs, lastSeg, rows,
                  cursor, pel, stored, cpc, cseg, live, batch, done>>
  BY DEF Acquire, Go, segVars, walVars, hydVars, conVars
<1>2. /\ LiveOK' /\ HydrateTarget' /\ HydrateReads' /\ ServingOK' /\ DoneOK'
      /\ StoredOK' /\ RowsSurvive'
  BY <1>1 DEF LiveOK, HydrateTarget, HydrateReads, ServingOK, DoneOK, StoredOK,
     RowsSurvive, Acked, Serving, Up, PartFilled
<1>3. QuietOK'
  BY <1>1, ConstantsAssumption DEF Acquire, Go, QuietOK, Still, TypeUpgrade, LocalsOK,
     MayUpgrade, ConsumerShows, Orderly
<1>4. HydrateAlone'
  BY <1>1, ConstantsAssumption DEF Acquire, Go, HydrateAlone, Hydrating, Unfinished, TypeHydrate,
     TypeUpgrade, TypeConsumer, MayUpgrade, Orderly
<1>5. CopyOK'
  BY <1>1, ConstantsAssumption DEF Acquire, Go, CopyOK, TypeUpgrade, LocalsOK
<1> QED
  BY <1>2, <1>3, <1>4, <1>5

\* XPENDING.
LEMMA CheckPendingRows ==
    ASSUME Orderly, TInv, PInv, RInv, NEW o \in Upgraders, CheckPending(o)
    PROVE  RInv'
<1> USE DEF TInv, TypeOK, PInv, RInv
<1>1. UNCHANGED <<old, new, hseg, hpc, latest, current, linked, refs, lastSeg, rows,
                  cursor, pel, stored, cpc, cseg, live, batch, done>>
  BY DEF CheckPending, Go, ReleaseIfOwned, Spend, segVars, walVars, hydVars, conVars
<1>2. /\ LiveOK' /\ HydrateTarget' /\ HydrateReads' /\ ServingOK' /\ DoneOK'
      /\ StoredOK' /\ RowsSurvive'
  BY <1>1 DEF LiveOK, HydrateTarget, HydrateReads, ServingOK, DoneOK, StoredOK,
     RowsSurvive, Acked, Serving, Up, PartFilled
<1>3. QuietOK'
  BY <1>1, ConstantsAssumption DEF CheckPending, Go, ReleaseIfOwned, Spend, QuietOK,
     Still, TypeUpgrade, LocalsOK
<1>4. HydrateAlone'
  BY <1>1, ConstantsAssumption DEF CheckPending, Go, ReleaseIfOwned, Spend, HydrateAlone,
     Hydrating, Unfinished, TypeHydrate, TypeUpgrade, TypeConsumer
<1>5. CopyOK'
  BY <1>1, ConstantsAssumption DEF CheckPending, Go, ReleaseIfOwned, Spend, CopyOK,
     TypeUpgrade, LocalsOK
<1> QED
  BY <1>2, <1>3, <1>4, <1>5

\* The liveness key.
LEMMA CheckLivenessRows ==
    ASSUME Orderly, TInv, PInv, RInv, NEW o \in Upgraders, CheckLiveness(o)
    PROVE  RInv'
<1> USE DEF TInv, TypeOK, PInv, RInv
<1>1. UNCHANGED <<old, new, hseg, hpc, latest, current, linked, refs, lastSeg, rows,
                  cursor, pel, stored, cpc, cseg, live, batch, done>>
  BY DEF CheckLiveness, Go, ReleaseIfOwned, segVars, walVars, hydVars, conVars
<1>2. /\ LiveOK' /\ HydrateTarget' /\ HydrateReads' /\ ServingOK' /\ DoneOK'
      /\ StoredOK' /\ RowsSurvive'
  BY <1>1 DEF LiveOK, HydrateTarget, HydrateReads, ServingOK, DoneOK, StoredOK,
     RowsSurvive, Acked, Serving, Up, PartFilled
<1>3. QuietOK'
  BY <1>1, ConstantsAssumption DEF CheckLiveness, Go, ReleaseIfOwned, QuietOK, Still,
     TypeUpgrade, LocalsOK, LiveOK, TypeConsumer
<1>4. HydrateAlone'
  BY <1>1, ConstantsAssumption DEF CheckLiveness, Go, ReleaseIfOwned, HydrateAlone,
     Hydrating, Unfinished, TypeHydrate, TypeUpgrade, TypeConsumer
<1>5. CopyOK'
  BY <1>1, ConstantsAssumption DEF CheckLiveness, Go, ReleaseIfOwned, CopyOK,
     TypeUpgrade, LocalsOK
<1> QED
  BY <1>2, <1>3, <1>4, <1>5

\* The GET of the liveness key raises.
LEMMA CheckLivenessRaisesRows ==
    ASSUME Orderly, TInv, PInv, RInv, NEW o \in Upgraders, CheckLivenessRaises(o)
    PROVE  RInv'
<1> USE DEF TInv, TypeOK, PInv, RInv
<1>1. UNCHANGED <<old, new, hseg, hpc, latest, current, linked, refs, lastSeg, rows,
                  cursor, pel, stored, cpc, cseg, live, batch, done>>
  BY DEF CheckLivenessRaises, Go, Spend, segVars, keyVars, walVars, hydVars, conVars
<1>2. /\ LiveOK' /\ HydrateTarget' /\ HydrateReads' /\ ServingOK' /\ DoneOK'
      /\ StoredOK' /\ RowsSurvive'
  BY <1>1 DEF LiveOK, HydrateTarget, HydrateReads, ServingOK, DoneOK, StoredOK,
     RowsSurvive, Acked, Serving, Up, PartFilled
<1>3. QuietOK'
  BY <1>1, ConstantsAssumption DEF CheckLivenessRaises, Go, Spend, QuietOK, Still,
     TypeUpgrade, LocalsOK
<1>4. HydrateAlone'
  BY <1>1, ConstantsAssumption DEF CheckLivenessRaises, Go, Spend, HydrateAlone,
     Hydrating, Unfinished, TypeHydrate, TypeUpgrade, TypeConsumer
<1>5. CopyOK'
  BY <1>1, ConstantsAssumption DEF CheckLivenessRaises, Go, Spend, CopyOK, TypeUpgrade,
     LocalsOK
<1> QED
  BY <1>2, <1>3, <1>4, <1>5

\* The pause key is set.
LEMMA SetPauseRows ==
    ASSUME Orderly, TInv, PInv, RInv, NEW o \in Upgraders, SetPause(o)
    PROVE  RInv'
<1> USE DEF TInv, TypeOK, PInv, RInv
<1>1. UNCHANGED <<old, new, hseg, hpc, latest, current, linked, refs, lastSeg, rows,
                  cursor, pel, stored, cpc, cseg, live, batch, done>>
  BY DEF SetPause, Go, segVars, walVars, hydVars, conVars
<1>2. /\ LiveOK' /\ HydrateTarget' /\ HydrateReads' /\ ServingOK' /\ DoneOK'
      /\ StoredOK' /\ RowsSurvive'
  BY <1>1 DEF LiveOK, HydrateTarget, HydrateReads, ServingOK, DoneOK, StoredOK,
     RowsSurvive, Acked, Serving, Up, PartFilled
<1>3. QuietOK'
  BY <1>1, ConstantsAssumption DEF SetPause, Go, QuietOK, Still, TypeUpgrade, LocalsOK
<1>4. HydrateAlone'
  BY <1>1, ConstantsAssumption DEF SetPause, Go, HydrateAlone, Hydrating, Unfinished, TypeHydrate,
     TypeUpgrade, TypeConsumer
<1>5. CopyOK'
  BY <1>1, ConstantsAssumption DEF SetPause, Go, CopyOK, TypeUpgrade, LocalsOK
<1> QED
  BY <1>2, <1>3, <1>4, <1>5

\* open_current of the old segment.
LEMMA OpenOldRows ==
    ASSUME Orderly, TInv, PInv, RInv, NEW o \in Upgraders, OpenOld(o)
    PROVE  RInv'
<1> USE DEF TInv, TypeOK, PInv, RInv
<1>1. UNCHANGED <<new, hseg, hpc, latest, current, linked, lastSeg, rows, cursor, pel,
                  stored, cpc, cseg, live, batch, done>>
  BY DEF OpenOld, Go, OpenSegment, CanOpen, keyVars, walVars, hydVars, conVars
<1>2. /\ LiveOK' /\ HydrateReads' /\ DoneOK' /\ StoredOK' /\ RowsSurvive'
  BY <1>1 DEF LiveOK, HydrateReads, DoneOK, StoredOK, RowsSurvive, Acked, Up, PartFilled
<1>3. QuietOK'
  BY <1>1, ConstantsAssumption DEF OpenOld, Go, OpenSegment, CanOpen, QuietOK, Still,
     TypeUpgrade, LocalsOK
<1>4. HydrateAlone'
  BY <1>1, ConstantsAssumption DEF OpenOld, Go, OpenSegment, CanOpen, HydrateAlone,
     Hydrating, Unfinished, TypeHydrate, TypeUpgrade, TypeConsumer
<1>5. HydrateTarget'
  BY <1>1, ConstantsAssumption DEF OpenOld, Go, OpenSegment, CanOpen, HydrateTarget,
     TypeHydrate, TypeUpgrade, HydrateAlone, Hydrating, Unfinished
<1>6. ServingOK'
  <2>1. \A s \in Segs : refs[s] \subseteq refs'[s]
    BY DEF OpenOld, OpenSegment, TypeSegments
  <2>2. OthersKeep(o) /\ o # "consumer"
    BY <1>1, <2>1, NamesAreSegments, ConstantsAssumption DEF OthersKeep
  <2>3. Serving' => Serving
    BY <1>1 DEF Serving
  <2> QED
    BY <1>1, <2>2, <2>3, ServingIsKept
<1>7. CopyOK'
  BY <1>1, ConstantsAssumption DEF OpenOld, Go, OpenSegment, CanOpen, CopyOK,
     TypeUpgrade, LocalsOK
<1> QED
  BY <1>2, <1>3, <1>4, <1>5, <1>6, <1>7

\* The new segment.
LEMMA CreateNewRows ==
    ASSUME Orderly, TInv, PInv, RInv, NEW o \in Upgraders, CreateNew(o)
    PROVE  RInv'
<1> USE DEF TInv, TypeOK, PInv, RInv
<1>1. UNCHANGED <<old, hseg, hpc, latest, rows, cursor, pel, stored, cpc, cseg, live,
                  batch, done>>
  BY DEF CreateNew, Go, CreateSegment, keyVars, walVars, hydVars, conVars
<1>2. /\ LiveOK' /\ HydrateReads' /\ StoredOK'
  BY <1>1 DEF LiveOK, HydrateReads, StoredOK, Acked
<1>3. QuietOK'
  BY <1>1, ConstantsAssumption DEF CreateNew, Go, CreateSegment, QuietOK, Still,
     TypeUpgrade, LocalsOK
<1>4. HydrateAlone'
  BY <1>1, ConstantsAssumption DEF CreateNew, Go, CreateSegment, HydrateAlone, Hydrating, Unfinished,
     TypeHydrate, TypeUpgrade, TypeConsumer
<1>5. HydrateTarget'
  BY <1>1, ConstantsAssumption DEF CreateNew, Go, CreateSegment, HydrateTarget,
     TypeHydrate, TypeUpgrade
<1>6. ServingOK'
  <2>1. Serving' => Serving
    BY <1>1 DEF Serving
  <2>2. CASE CreateSegment(o, ver[old[o]] + 1, FALSE)
    <3>1. OthersKeep(o) /\ current' = current /\ o # "consumer"
      <4>1. PartialsStay
        BY <1>1 DEF PartialsStay
      <4>2. OthersKeep(o)
        BY <2>2, <4>1, CreateKeeps
      <4> QED
        BY <2>2, <4>2, ConstantsAssumption DEF CreateSegment
    <3> QED
      BY <1>1, <2>1, <3>1, ServingIsKept
  <2>3. CASE UNCHANGED <<current, linked, refs>>
    BY <1>1, <2>3 DEF ServingOK, Serving
  <2> QED
    BY <2>2, <2>3 DEF CreateNew
<1>7. DoneOK'
  BY <1>1, ConstantsAssumption DEF CreateNew, Go, CreateSegment, DoneOK
<1>8. CopyOK'
  BY <1>1, ConstantsAssumption DEF CreateNew, Go, CreateSegment, CopyOK, TypeUpgrade,
     LocalsOK
<1>9. RowsSurvive'
  BY <1>1, ConstantsAssumption DEF CreateNew, Go, CreateSegment, RowsSurvive, Up,
     PartFilled, Acked, TypeHydrate
<1> QED
  BY <1>2, <1>3, <1>4, <1>5, <1>6, <1>7, <1>8, <1>9

\* The rows are copied.
LEMMA CopyRows ==
    ASSUME Orderly, TInv, PInv, RInv, NEW o \in Upgraders, Copy(o)
    PROVE  RInv'
<1> USE DEF TInv, TypeOK, PInv, RInv
<1>1. UNCHANGED <<old, new, hseg, hpc, latest, current, linked, refs, lastSeg, cursor,
                  pel, stored, cpc, cseg, live, batch, done>>
  BY DEF Copy, Go, keyVars, walVars, hydVars, conVars
<1>2. /\ LiveOK' /\ HydrateTarget' /\ HydrateReads' /\ ServingOK' /\ StoredOK'
  BY <1>1 DEF LiveOK, HydrateTarget, HydrateReads, ServingOK, StoredOK, Acked, Serving
<1>3. QuietOK'
  BY <1>1, ConstantsAssumption DEF Copy, Go, QuietOK, Still, TypeUpgrade, LocalsOK
<1>4. HydrateAlone'
  BY <1>1, ConstantsAssumption DEF Copy, Go, HydrateAlone, Hydrating, Unfinished, TypeHydrate,
     TypeUpgrade, TypeConsumer
<1>5. DoneOK'
  <2>1. current # 0 => rows'[current] = rows[current]
    BY NamesAreSegments DEF Copy, NewUnnamed, TypeSegments
  <2> QED
    BY <1>1, <2>1 DEF DoneOK
<1>6. CopyOK'
  <2> SUFFICES ASSUME NEW p \in Upgraders, upc'[p] = "copied", old[p] = current
               PROVE  rows'[new[p]] = rows'[old[p]]
    BY <1>1 DEF CopyOK
  <2>1. rows'[old[p]] = rows[old[p]]
    <3>1. old[p] # 0
      BY DEF Copy, Go, TypeUpgrade, LocalsOK
    <3>2. old[p] \in Segs /\ old[p] # new[o]
      BY <3>1, NamesAreSegments DEF Copy, NewUnnamed
    <3> QED
      BY <3>2 DEF Copy, TypeSegments
  <2>2. CASE p = o
    <3>1. new[o] \in Segs /\ rows' = [rows EXCEPT ![new[o]] = rows[old[o]]]
      BY <2>2, NamesAreSegments DEF Copy, Go, TypeUpgrade
    <3> QED
      BY <2>1, <2>2, <3>1 DEF TypeSegments
  <2>3. CASE p # o
    <3>1. upc[p] = "copied" /\ rows[new[p]] = rows[old[p]]
      BY <2>3 DEF Copy, Go, TypeUpgrade, CopyOK
    <3>2. new[o] # new[p] /\ new[p] \in Segs
      BY <2>3, <3>1, NamesAreSegments DEF Copy, NewDistinct, LocalsOK
    <3>3. rows'[new[p]] = rows[new[p]]
      BY <3>2 DEF Copy, TypeSegments
    <3> QED
      BY <2>1, <3>1, <3>3
  <2> QED
    BY <2>2, <2>3
<1>7. RowsSurvive'
  <2>1. current # 0 => rows'[current] = rows[current]
    BY NamesAreSegments DEF Copy, NewUnnamed, TypeSegments
  <2> QED
    BY <1>1, <2>1 DEF RowsSurvive, Up, PartFilled, Acked
<1> QED
  BY <1>2, <1>3, <1>4, <1>5, <1>6, <1>7

\* The compare-and-set of the pointer.
LEMMA FlipRows ==
    ASSUME Orderly, TInv, PInv, RInv, NEW o \in Upgraders, Flip(o)
    PROVE  RInv'
<1> USE DEF TInv, TypeOK, PInv, RInv
<1>1. UNCHANGED <<old, new, hseg, hpc, latest, linked, refs, lastSeg, rows, cursor,
                  pel, stored, cpc, cseg, live, batch, done>>
  BY DEF Flip, Go, keyVars, walVars, hydVars, conVars
<1>2. /\ LiveOK' /\ HydrateReads' /\ StoredOK'
  BY <1>1 DEF LiveOK, HydrateReads, StoredOK, Acked
<1>3. QuietOK'
  BY <1>1, ConstantsAssumption DEF Flip, Go, QuietOK, Still, TypeUpgrade, LocalsOK,
     NewUnnamed
<1>4. HydrateAlone'
  <2>1. \A h \in Hydrators : Unfinished(h)' => Unfinished(h)
    BY <1>1 DEF Flip, NewDistinct, LocalsOK, Hydrating, Unfinished
  <2>2. \A p \in Upgraders :
            upc'[p] \in {"locked", "drained", "quiet", "paused"} => upc'[p] = upc[p]
    BY DEF Flip, Go, TypeUpgrade
  <2> QED
    BY <1>1, <2>1, <2>2 DEF HydrateAlone
<1>5. HydrateTarget'
  BY <1>1, ConstantsAssumption DEF Flip, Go, HydrateTarget, TypeHydrate, TypeUpgrade,
     NewDistinct, LocalsOK
<1>6. ServingOK'
  BY <1>1, ConstantsAssumption DEF Flip, Go, ServingOK, Serving, QuietOK, Still
<1>7. DoneOK'
  <2>1. CASE current = old[o]
    <3>1. current # 0 /\ rows[new[o]] = rows[current] /\ current' = new[o]
      BY <2>1 DEF Flip, CopyOK, LocalsOK
    <3> QED
      BY <1>1, <3>1 DEF DoneOK
  <2>2. CASE current # old[o]
    BY <1>1, <2>2 DEF Flip, DoneOK
  <2> QED
    BY <2>1, <2>2
<1>8. CopyOK'
  BY <1>1, ConstantsAssumption DEF Flip, Go, CopyOK, TypeUpgrade, LocalsOK, NewUnnamed
<1>9. RowsSurvive'
  BY <1>1, ConstantsAssumption DEF Flip, Go, RowsSurvive, Up, PartFilled, Acked,
     TypeHydrate, CopyOK, NewDistinct, LocalsOK, HydrateTarget
<1> QED
  BY <1>2, <1>3, <1>4, <1>5, <1>6, <1>7, <1>8, <1>9

\* The pause key is cleared.
LEMMA ClearPauseRows ==
    ASSUME Orderly, TInv, PInv, RInv, NEW o \in Upgraders, ClearPause(o)
    PROVE  RInv'
<1> USE DEF TInv, TypeOK, PInv, RInv
<1>1. UNCHANGED <<old, new, hseg, hpc, latest, current, linked, refs, lastSeg, rows,
                  cursor, pel, stored, cpc, cseg, live, batch, done>>
  BY DEF ClearPause, Go, segVars, walVars, hydVars, conVars
<1>2. /\ LiveOK' /\ HydrateTarget' /\ HydrateReads' /\ ServingOK' /\ DoneOK'
      /\ StoredOK' /\ RowsSurvive'
  BY <1>1 DEF LiveOK, HydrateTarget, HydrateReads, ServingOK, DoneOK, StoredOK,
     RowsSurvive, Acked, Serving, Up, PartFilled
<1>3. QuietOK'
  BY <1>1, ConstantsAssumption DEF ClearPause, Go, QuietOK, Still, TypeUpgrade, LocalsOK
<1>4. HydrateAlone'
  BY <1>1, ConstantsAssumption DEF ClearPause, Go, HydrateAlone, Hydrating, Unfinished, TypeHydrate,
     TypeUpgrade, TypeConsumer
<1>5. CopyOK'
  BY <1>1, ConstantsAssumption DEF ClearPause, Go, CopyOK, TypeUpgrade, LocalsOK
<1> QED
  BY <1>2, <1>3, <1>4, <1>5

\* The wait for consumers ends.
LEMMA WaitEndsRows ==
    ASSUME Orderly, TInv, PInv, RInv, NEW o \in Upgraders, WaitEnds(o)
    PROVE  RInv'
<1> USE DEF TInv, TypeOK, PInv, RInv
<1>1. UNCHANGED <<old, new, hseg, hpc, latest, current, linked, refs, lastSeg, rows,
                  cursor, pel, stored, cpc, cseg, live, batch, done>>
  BY DEF WaitEnds, Go, segVars, keyVars, walVars, hydVars, conVars
<1>2. /\ LiveOK' /\ HydrateTarget' /\ HydrateReads' /\ ServingOK' /\ DoneOK'
      /\ StoredOK' /\ RowsSurvive'
  BY <1>1 DEF LiveOK, HydrateTarget, HydrateReads, ServingOK, DoneOK, StoredOK,
     RowsSurvive, Acked, Serving, Up, PartFilled
<1>3. QuietOK'
  BY <1>1, ConstantsAssumption DEF WaitEnds, Go, QuietOK, Still, TypeUpgrade, LocalsOK
<1>4. HydrateAlone'
  BY <1>1, ConstantsAssumption DEF WaitEnds, Go, HydrateAlone, Hydrating, Unfinished, TypeHydrate,
     TypeUpgrade, TypeConsumer
<1>5. CopyOK'
  BY <1>1, ConstantsAssumption DEF WaitEnds, Go, CopyOK, TypeUpgrade, LocalsOK
<1> QED
  BY <1>2, <1>3, <1>4, <1>5

\* An exception in the try block.
LEMMA RaiseRows ==
    ASSUME Orderly, TInv, PInv, RInv, NEW o \in Upgraders, Raise(o)
    PROVE  RInv'
<1> USE DEF TInv, TypeOK, PInv, RInv
<1>1. UNCHANGED <<old, new, hseg, hpc, latest, current, linked, refs, lastSeg, rows,
                  cursor, pel, stored, cpc, cseg, live, batch, done>>
  BY DEF Raise, Go, Spend, segVars, keyVars, walVars, hydVars, conVars
<1>2. /\ LiveOK' /\ HydrateTarget' /\ HydrateReads' /\ ServingOK' /\ DoneOK'
      /\ StoredOK' /\ RowsSurvive'
  BY <1>1 DEF LiveOK, HydrateTarget, HydrateReads, ServingOK, DoneOK, StoredOK,
     RowsSurvive, Acked, Serving, Up, PartFilled
<1>3. QuietOK'
  BY <1>1, ConstantsAssumption DEF Raise, Go, Spend, QuietOK, Still, TypeUpgrade,
     LocalsOK
<1>4. HydrateAlone'
  BY <1>1, ConstantsAssumption DEF Raise, Go, Spend, HydrateAlone, Hydrating, Unfinished,
     TypeHydrate, TypeUpgrade, TypeConsumer
<1>5. CopyOK'
  BY <1>1, ConstantsAssumption DEF Raise, Go, Spend, CopyOK, TypeUpgrade, LocalsOK
<1> QED
  BY <1>2, <1>3, <1>4, <1>5

\* A failure that is suppressed.
LEMMA SuppressedRows ==
    ASSUME Orderly, TInv, PInv, RInv, NEW o \in Upgraders, Suppressed(o)
    PROVE  RInv'
<1> USE DEF TInv, TypeOK, PInv, RInv
<1>1. UNCHANGED <<old, new, hseg, hpc, latest, current, linked, refs, lastSeg, rows,
                  cursor, pel, stored, cpc, cseg, live, batch, done>>
  BY DEF Suppressed, Go, Spend, segVars, keyVars, walVars, hydVars, conVars
<1>2. /\ LiveOK' /\ HydrateTarget' /\ HydrateReads' /\ ServingOK' /\ DoneOK'
      /\ StoredOK' /\ RowsSurvive'
  BY <1>1 DEF LiveOK, HydrateTarget, HydrateReads, ServingOK, DoneOK, StoredOK,
     RowsSurvive, Acked, Serving, Up, PartFilled
<1>3. QuietOK'
  BY <1>1, ConstantsAssumption DEF Suppressed, Go, Spend, QuietOK, Still, TypeUpgrade,
     LocalsOK
<1>4. HydrateAlone'
  BY <1>1, ConstantsAssumption DEF Suppressed, Go, Spend, HydrateAlone, Hydrating, Unfinished,
     TypeHydrate, TypeUpgrade, TypeConsumer
<1>5. CopyOK'
  BY <1>1, ConstantsAssumption DEF Suppressed, Go, Spend, CopyOK, TypeUpgrade, LocalsOK
<1> QED
  BY <1>2, <1>3, <1>4, <1>5

\* The new segment is removed.
LEMMA CleanupOrphanRows ==
    ASSUME Orderly, TInv, PInv, RInv, NEW o \in Upgraders, CleanupOrphan(o)
    PROVE  RInv'
<1> USE DEF TInv, TypeOK, PInv, RInv
<1>1. UNCHANGED <<old, new, hseg, hpc, latest, current, lastSeg, rows, cursor, pel,
                  stored, cpc, cseg, live, batch, done>>
  BY DEF CleanupOrphan, Go, keyVars, walVars, hydVars, conVars
<1>2. /\ LiveOK' /\ HydrateTarget' /\ HydrateReads' /\ DoneOK' /\ StoredOK'
      /\ RowsSurvive'
  BY <1>1 DEF LiveOK, HydrateTarget, HydrateReads, DoneOK, StoredOK, RowsSurvive, Acked,
     Up, PartFilled
<1>3. QuietOK'
  BY <1>1, ConstantsAssumption DEF CleanupOrphan, Go, QuietOK, Still, TypeUpgrade,
     LocalsOK
<1>4. HydrateAlone'
  BY <1>1, ConstantsAssumption DEF CleanupOrphan, Go, HydrateAlone, Hydrating, Unfinished,
     TypeHydrate, TypeUpgrade, TypeConsumer
<1>5. ServingOK'
  <2>1. refs'[current] = refs[current]
    BY NamesAreSegments DEF CleanupOrphan, NewUnnamed, TypeSegments
  <2> QED
    BY <1>1, <2>1 DEF ServingOK, Serving
<1>6. CopyOK'
  BY <1>1, ConstantsAssumption DEF CleanupOrphan, Go, CopyOK, TypeUpgrade, LocalsOK
<1> QED
  BY <1>2, <1>3, <1>4, <1>5, <1>6

\* The removal of the new segment fails in part.
LEMMA CleanupOrphanFailsRows ==
    ASSUME Orderly, TInv, PInv, RInv, NEW o \in Upgraders, CleanupOrphanFails(o)
    PROVE  RInv'
<1> USE DEF TInv, TypeOK, PInv, RInv
<1>1. UNCHANGED <<old, new, hseg, hpc, latest, current, lastSeg, rows, cursor, pel,
                  stored, cpc, cseg, live, batch, done>>
  BY DEF CleanupOrphanFails, Go, Spend, keyVars, walVars, hydVars, conVars
<1>2. /\ LiveOK' /\ HydrateTarget' /\ HydrateReads' /\ DoneOK' /\ StoredOK'
      /\ RowsSurvive'
  BY <1>1 DEF LiveOK, HydrateTarget, HydrateReads, DoneOK, StoredOK, RowsSurvive, Acked,
     Up, PartFilled
<1>3. QuietOK'
  BY <1>1, ConstantsAssumption DEF CleanupOrphanFails, Go, Spend, QuietOK, Still, TypeUpgrade,
     LocalsOK
<1>4. HydrateAlone'
  BY <1>1, ConstantsAssumption DEF CleanupOrphanFails, Go, Spend, HydrateAlone, Hydrating, Unfinished,
     TypeHydrate, TypeUpgrade, TypeConsumer
<1>5. ServingOK'
  <2>1. new[o] # current /\ (refs' = refs \/ refs' = [refs EXCEPT ![new[o]] = {}])
    BY DEF CleanupOrphanFails, NewUnnamed
  <2>2. current # 0 => refs'[current] = refs[current]
    BY <2>1, NamesAreSegments DEF TypeSegments
  <2> QED
    BY <1>1, <2>2 DEF ServingOK, Serving
<1>6. CopyOK'
  BY <1>1, ConstantsAssumption DEF CleanupOrphanFails, Go, Spend, CopyOK, TypeUpgrade, LocalsOK
<1> QED
  BY <1>2, <1>3, <1>4, <1>5, <1>6

\* The old segment is closed.
LEMMA CloseOldRows ==
    ASSUME Orderly, TInv, PInv, RInv, NEW o \in Upgraders, CloseOld(o)
    PROVE  RInv'
<1> USE DEF TInv, TypeOK, PInv, RInv
<1>1. UNCHANGED <<old, new, hseg, hpc, latest, lastSeg, rows, cursor, pel, stored, cpc,
                  cseg, live, batch, done>>
  BY DEF CloseOld, Go, DropRef, keyVars, walVars, hydVars, conVars
<1>2. /\ LiveOK' /\ HydrateReads' /\ StoredOK'
  BY <1>1 DEF LiveOK, HydrateReads, StoredOK, Acked
<1>3. QuietOK'
  BY <1>1, ConstantsAssumption DEF CloseOld, Go, DropRef, QuietOK, Still, TypeUpgrade,
     LocalsOK
<1>4. HydrateAlone'
  <2>1. current' \in {0, current}
    BY DEF CloseOld, DropRef
  <2>2. \A p \in Upgraders :
            upc'[p] \in {"locked", "drained", "quiet", "paused"} => upc'[p] = upc[p]
    BY DEF CloseOld, Go, TypeUpgrade
  <2> QED
    BY <1>1, <2>1, <2>2, NoneBegun DEF HydrateAlone
<1>5. HydrateTarget'
  BY <1>1, ConstantsAssumption DEF CloseOld, Go, DropRef, HydrateTarget, TypeHydrate,
     TypeUpgrade
<1>6. ServingOK'
  <2>1. OthersKeep(o) /\ o # "consumer"
    <3>1. CASE old[o] # 0
      BY <1>1, <3>1, DropKeeps, ConstantsAssumption DEF CloseOld
    <3>2. CASE old[o] = 0
      BY <3>2, ConstantsAssumption DEF CloseOld, OthersKeep
    <3> QED
      BY <3>1, <3>2
  <2>2. Serving => current' = current
    <3>1. CASE old[o] # 0
      BY <2>1, <3>1, DropSpares DEF CloseOld, ServingOK
    <3>2. CASE old[o] = 0
      BY <3>2 DEF CloseOld
    <3> QED
      BY <3>1, <3>2
  <2>3. Serving' => Serving
    BY <1>1 DEF Serving
  <2> QED
    BY <1>1, <2>1, <2>2, <2>3, ServingIsKept
<1>7. DoneOK'
  BY <1>1, ConstantsAssumption DEF CloseOld, Go, DropRef, DoneOK
<1>8. CopyOK'
  BY <1>1, ConstantsAssumption DEF CloseOld, Go, DropRef, CopyOK, TypeUpgrade, LocalsOK
<1>9. RowsSurvive'
  BY <1>1, ConstantsAssumption DEF CloseOld, Go, DropRef, RowsSurvive, Up, PartFilled,
     Acked, TypeHydrate
<1> QED
  BY <1>2, <1>3, <1>4, <1>5, <1>6, <1>7, <1>8, <1>9

\* The lock is released.
LEMMA ReleaseLockRows ==
    ASSUME Orderly, TInv, PInv, RInv, NEW o \in Upgraders, ReleaseLock(o)
    PROVE  RInv'
<1> USE DEF TInv, TypeOK, PInv, RInv
<1>1. UNCHANGED <<old, new, hseg, hpc, latest, current, linked, refs, lastSeg, rows,
                  cursor, pel, stored, cpc, cseg, live, batch, done>>
  BY DEF ReleaseLock, Go, ReleaseIfOwned, segVars, walVars, hydVars, conVars
<1>2. /\ LiveOK' /\ HydrateTarget' /\ HydrateReads' /\ ServingOK' /\ DoneOK'
      /\ StoredOK' /\ RowsSurvive'
  BY <1>1 DEF LiveOK, HydrateTarget, HydrateReads, ServingOK, DoneOK, StoredOK,
     RowsSurvive, Acked, Serving, Up, PartFilled
<1>3. QuietOK'
  BY <1>1, ConstantsAssumption DEF ReleaseLock, Go, ReleaseIfOwned, QuietOK, Still,
     TypeUpgrade, LocalsOK
<1>4. HydrateAlone'
  BY <1>1, ConstantsAssumption DEF ReleaseLock, Go, ReleaseIfOwned, HydrateAlone,
     Hydrating, Unfinished, TypeHydrate, TypeUpgrade, TypeConsumer
<1>5. CopyOK'
  BY <1>1, ConstantsAssumption DEF ReleaseLock, Go, ReleaseIfOwned, CopyOK, TypeUpgrade,
     LocalsOK
<1> QED
  BY <1>2, <1>3, <1>4, <1>5

\* The call ends.
LEMMA DeletePauseRows ==
    ASSUME Orderly, TInv, PInv, RInv, NEW o \in Upgraders, DeletePause(o)
    PROVE  RInv'
<1> USE DEF TInv, TypeOK, PInv, RInv
<1>1. UNCHANGED <<hseg, hpc, latest, current, linked, lastSeg, rows, cursor, pel,
                  stored, cpc, cseg, live, batch, done>>
  BY DEF DeletePause, Go, LeaveRefs, Forget, walVars, hydVars, conVars
<1>2. /\ LiveOK' /\ HydrateReads' /\ DoneOK' /\ StoredOK' /\ RowsSurvive'
  BY <1>1 DEF LiveOK, HydrateReads, DoneOK, StoredOK, RowsSurvive, Acked, Up, PartFilled
<1>3. QuietOK'
  BY <1>1, ConstantsAssumption DEF DeletePause, Go, LeaveRefs, Forget, QuietOK, Still,
     TypeUpgrade, LocalsOK
<1>4. HydrateAlone'
  BY <1>1, ConstantsAssumption DEF DeletePause, Go, LeaveRefs, Forget, HydrateAlone,
     Hydrating, Unfinished, TypeHydrate, TypeUpgrade, TypeConsumer
<1>5. HydrateTarget'
  BY <1>1, ConstantsAssumption DEF DeletePause, Go, LeaveRefs, Forget, HydrateTarget,
     TypeHydrate, TypeUpgrade
<1>6. ServingOK'
  <2>1. OthersKeep(o) /\ o # "consumer"
    <3>1. PartialsStay
      BY <1>1 DEF PartialsStay
    <3> QED
      BY <1>1, <3>1, LeaveKeeps, ConstantsAssumption DEF DeletePause
  <2>2. Serving' => Serving
    BY <1>1 DEF Serving
  <2> QED
    BY <1>1, <2>1, <2>2, ServingIsKept
<1>7. CopyOK'
  BY <1>1, ConstantsAssumption DEF DeletePause, Go, LeaveRefs, Forget, CopyOK,
     TypeUpgrade, LocalsOK
<1> QED
  BY <1>2, <1>3, <1>4, <1>5, <1>6, <1>7

\* The upgrading process is killed.
LEMMA UpgraderDiesRows ==
    ASSUME Orderly, TInv, PInv, RInv, NEW o \in Upgraders, UpgraderDies(o)
    PROVE  RInv'
<1> USE DEF TInv, TypeOK, PInv, RInv
<1>1. UNCHANGED <<hseg, hpc, latest, current, linked, lastSeg, rows, cursor, pel,
                  stored, cpc, cseg, live, batch, done>>
  BY DEF UpgraderDies, Go, Spend, LeaveRefs, Forget, Active, keyVars, walVars, hydVars,
     conVars
<1>2. /\ LiveOK' /\ HydrateReads' /\ DoneOK' /\ StoredOK' /\ RowsSurvive'
  BY <1>1 DEF LiveOK, HydrateReads, DoneOK, StoredOK, RowsSurvive, Acked, Up, PartFilled
<1>3. QuietOK'
  BY <1>1, ConstantsAssumption DEF UpgraderDies, Go, Spend, LeaveRefs, Forget, Active,
     QuietOK, Still, TypeUpgrade, LocalsOK
<1>4. HydrateAlone'
  BY <1>1, ConstantsAssumption DEF UpgraderDies, Go, Spend, LeaveRefs, Forget, Active,
     HydrateAlone, Hydrating, Unfinished, TypeHydrate, TypeUpgrade, TypeConsumer
<1>5. HydrateTarget'
  BY <1>1, ConstantsAssumption DEF UpgraderDies, Go, Spend, LeaveRefs, Forget, Active,
     HydrateTarget, TypeHydrate, TypeUpgrade
<1>6. ServingOK'
  <2>1. OthersKeep(o) /\ o # "consumer"
    <3>1. PartialsStay
      BY <1>1 DEF PartialsStay
    <3> QED
      BY <1>1, <3>1, LeaveKeeps, ConstantsAssumption DEF UpgraderDies
  <2>2. Serving' => Serving
    BY <1>1 DEF Serving
  <2> QED
    BY <1>1, <2>1, <2>2, ServingIsKept
<1>7. CopyOK'
  BY <1>1, ConstantsAssumption DEF UpgraderDies, Go, Spend, LeaveRefs, Forget, Active,
     CopyOK, TypeUpgrade, LocalsOK
<1> QED
  BY <1>2, <1>3, <1>4, <1>5, <1>6, <1>7

\* hydrate finds no pointer, or one.
LEMMA CheckCurrentRows ==
    ASSUME Orderly, TInv, PInv, RInv, NEW h \in Hydrators, CheckCurrent(h)
    PROVE  RInv'
<1> USE DEF TInv, TypeOK, PInv, RInv
<1>1. UNCHANGED <<upc, old, new, hseg, latest, current, linked, refs, lastSeg, rows,
                  cursor, pel, stored, cpc, cseg, live, batch, done>>
  BY DEF CheckCurrent, HGo, segVars, keyVars, walVars, upVars, conVars
<1>2. /\ LiveOK' /\ QuietOK' /\ ServingOK' /\ DoneOK' /\ CopyOK' /\ StoredOK'
  BY <1>1 DEF LiveOK, QuietOK, ServingOK, DoneOK, CopyOK, StoredOK, Still, Serving, Acked
<1>3. HydrateAlone'
  BY <1>1, ConstantsAssumption DEF CheckCurrent, HGo, HydrateAlone, Hydrating, Unfinished,
     TypeHydrate, TypeUpgrade, TypeConsumer, Orderly, MayHydrate, ConsumerShows,
     ServingOK, Serving, HydrateTarget
<1>4. HydrateTarget'
  BY <1>1, ConstantsAssumption DEF CheckCurrent, HGo, HydrateTarget, TypeHydrate,
     TypeUpgrade
<1>5. HydrateReads'
  BY <1>1, ConstantsAssumption DEF CheckCurrent, HGo, HydrateReads, Acked, TypeHydrate
<1>6. RowsSurvive'
  BY <1>1, ConstantsAssumption DEF CheckCurrent, HGo, RowsSurvive, Up, PartFilled,
     Acked, TypeHydrate
<1> QED
  BY <1>2, <1>3, <1>4, <1>5, <1>6

\* hydrate reads the liveness key.
LEMMA CheckConsumerRows ==
    ASSUME Orderly, TInv, PInv, RInv, NEW h \in Hydrators, CheckConsumer(h)
    PROVE  RInv'
<1> USE DEF TInv, TypeOK, PInv, RInv
<1>1. UNCHANGED <<upc, old, new, hseg, latest, current, linked, refs, lastSeg, rows,
                  cursor, pel, stored, cpc, cseg, live, batch, done>>
  BY DEF CheckConsumer, HGo, segVars, keyVars, walVars, upVars, conVars
<1>2. /\ LiveOK' /\ QuietOK' /\ ServingOK' /\ DoneOK' /\ CopyOK' /\ StoredOK'
  BY <1>1 DEF LiveOK, QuietOK, ServingOK, DoneOK, CopyOK, StoredOK, Still, Serving, Acked
<1>3. HydrateAlone'
  BY <1>1, ConstantsAssumption DEF CheckConsumer, HGo, HydrateAlone, Hydrating, Unfinished,
     TypeHydrate, TypeUpgrade, TypeConsumer
<1>4. HydrateTarget'
  BY <1>1, ConstantsAssumption DEF CheckConsumer, HGo, HydrateTarget, TypeHydrate,
     TypeUpgrade
<1>5. HydrateReads'
  BY <1>1, ConstantsAssumption DEF CheckConsumer, HGo, HydrateReads, Acked, TypeHydrate
<1>6. RowsSurvive'
  BY <1>1, ConstantsAssumption DEF CheckConsumer, HGo, RowsSurvive, Up, PartFilled,
     Acked, TypeHydrate
<1> QED
  BY <1>2, <1>3, <1>4, <1>5, <1>6

\* hydrate reads the offline store.
LEMMA ReadLatestRows ==
    ASSUME Orderly, TInv, PInv, RInv, NEW h \in Hydrators, ReadLatest(h)
    PROVE  RInv'
<1> USE DEF TInv, TypeOK, PInv, RInv
<1>1. UNCHANGED <<upc, old, new, hseg, current, linked, refs, lastSeg, rows, cursor,
                  pel, stored, cpc, cseg, live, batch, done>>
  BY DEF ReadLatest, HGo, segVars, keyVars, walVars, upVars, conVars
<1>2. /\ LiveOK' /\ QuietOK' /\ ServingOK' /\ DoneOK' /\ CopyOK' /\ StoredOK'
  BY <1>1 DEF LiveOK, QuietOK, ServingOK, DoneOK, CopyOK, StoredOK, Still, Serving, Acked
<1>3. HydrateAlone'
  BY <1>1, ConstantsAssumption DEF ReadLatest, HGo, HydrateAlone, Hydrating, Unfinished, TypeHydrate,
     TypeUpgrade, TypeConsumer
<1>4. HydrateTarget'
  BY <1>1, ConstantsAssumption DEF ReadLatest, HGo, HydrateTarget, TypeHydrate,
     TypeUpgrade
<1>5. HydrateReads'
  <2> SUFFICES ASSUME NEW g \in Hydrators, hpc'[g] \in {"read", "created"}
               PROVE  Acked \subseteq latest'[g]
    BY <1>1 DEF HydrateReads, Acked
  <2>1. CASE g = h
    BY <2>1 DEF ReadLatest, TypeHydrate, StoredOK
  <2>2. CASE g # h
    BY <2>2 DEF ReadLatest, HGo, TypeHydrate, HydrateReads
  <2> QED
    BY <2>1, <2>2
<1>6. RowsSurvive'
  BY <1>1, ConstantsAssumption DEF ReadLatest, HGo, RowsSurvive, Up, PartFilled, Acked,
     TypeHydrate
<1> QED
  BY <1>2, <1>3, <1>4, <1>5, <1>6

\* hydrate creates the current segment.
LEMMA CreateCurrentRows ==
    ASSUME Orderly, TInv, PInv, RInv, NEW h \in Hydrators, CreateCurrent(h)
    PROVE  RInv'
<1> USE DEF TInv, TypeOK, PInv, RInv
<1>1. UNCHANGED <<upc, old, new, latest, rows, cursor, pel, stored, cpc, cseg, live,
                  batch, done>>
  BY DEF CreateCurrent, HGo, CreateSegment, keyVars, walVars, upVars, conVars
<1>2. current' = lastSeg' /\ lastSeg' \notin 0..lastSeg /\ lastSeg' # 0
  <2>1. PartialsStay
    BY DEF CreateCurrent, HGo, PartialsStay, TypeHydrate
  <2> QED
    BY <2>1, CreateKeeps DEF CreateCurrent
<1>3. \A o \in Upgraders : old[o] # lastSeg'
  BY <1>2 DEF TypeUpgrade
<1>4. /\ hpc[h] = "read" /\ cpc \in {"down", "exit"}
      /\ \A g \in Hydrators : g # h => ~Hydrating(g)
  BY DEF CreateCurrent, HydrateAlone, Hydrating, Unfinished
<1>5. LiveOK' /\ StoredOK'
  BY <1>1 DEF LiveOK, StoredOK, Acked
<1>6. QuietOK'
  BY <1>1, <1>2, <1>3 DEF QuietOK, Still
<1>7. HydrateAlone'
  <2>1. \A g \in Hydrators : g # h => ~Unfinished(g)'
    BY <1>2, <1>4 DEF CreateCurrent, HGo, Hydrating, Unfinished, TypeHydrate
  <2>2. \A o \in Upgraders : upc[o] \notin {"locked", "drained", "quiet", "paused"}
    BY <1>4 DEF HydrateAlone, Hydrating, Unfinished
  <2> QED
    BY <1>1, <1>4, <2>1, <2>2 DEF HydrateAlone
<1>8. HydrateTarget'
  <2>1. \A g \in Hydrators : g # h =>
            hpc'[g] \in {"idle", "partial", "done"} /\ hpc'[g] = hpc[g] /\ hseg'[g] = hseg[g]
    BY <1>4 DEF CreateCurrent, HGo, Hydrating, TypeHydrate, HydratePoints
  <2>2. hpc'[h] = "created" /\ hseg'[h] = lastSeg'
    BY DEF CreateCurrent, HGo, TypeHydrate
  <2> QED
    BY <1>1, <1>2, <1>3, <2>1, <2>2 DEF HydrateTarget
<1>9. HydrateReads'
  BY <1>1 DEF CreateCurrent, HGo, HydrateReads, Acked, TypeHydrate
<1>10. ServingOK'
  BY <1>1, <1>4 DEF ServingOK, Serving
<1>11. DoneOK'
  BY <1>1, <1>4 DEF DoneOK, ConsumerOK
<1>12. CopyOK'
  BY <1>1, <1>2, <1>3 DEF CopyOK
<1>13. RowsSurvive'
  <2>1. hpc'[h] = "created" /\ hseg'[h] = current'
    BY <1>2 DEF CreateCurrent, HGo, TypeHydrate
  <2> QED
    BY <2>1 DEF RowsSurvive, Up, PartFilled
<1> QED
  BY <1>5, <1>6, <1>7, <1>8, <1>9, <1>10, <1>11, <1>12, <1>13

\* hydrate fills it.
LEMMA FillRows ==
    ASSUME Orderly, TInv, PInv, RInv, NEW h \in Hydrators, Fill(h)
    PROVE  RInv'
<1> USE DEF TInv, TypeOK, PInv, RInv
<1>1. UNCHANGED <<upc, old, new, current, linked, lastSeg, cursor, pel, stored, cpc,
                  cseg, live, batch, done>>
  BY DEF Fill, HGo, LeaveRefs, HForget, keyVars, walVars, upVars, conVars
<1>2. /\ LiveOK' /\ QuietOK' /\ StoredOK'
  BY <1>1 DEF LiveOK, QuietOK, StoredOK, Still, Acked
<1>3. HydrateAlone'
  BY <1>1, ConstantsAssumption DEF Fill, HGo, LeaveRefs, HForget, HydrateAlone,
     Hydrating, Unfinished, TypeHydrate, TypeUpgrade, TypeConsumer
<1>4. HydrateTarget'
  BY <1>1, ConstantsAssumption DEF Fill, HGo, LeaveRefs, HForget, HydrateTarget,
     TypeHydrate, TypeUpgrade
<1>5. HydrateReads'
  BY <1>1, ConstantsAssumption DEF Fill, HGo, LeaveRefs, HForget, HydrateReads, Acked,
     TypeHydrate
<1>6. ServingOK'
  <2>1. ~Serving'
    BY <1>1 DEF Fill, HydrateAlone, Hydrating, Unfinished, Serving
  <2> QED
    BY <2>1 DEF ServingOK
<1>7. DoneOK'
  BY <1>1, ConstantsAssumption DEF Fill, HGo, LeaveRefs, HForget, DoneOK
<1>8. CopyOK'
  <2> SUFFICES ASSUME NEW p \in Upgraders, upc[p] = "copied", old[p] = current
               PROVE  rows'[new[p]] = rows'[old[p]]
    BY <1>1 DEF CopyOK
  <2>1. hseg[h] # new[p] /\ hseg[h] # old[p] /\ rows[new[p]] = rows[old[p]]
    BY DEF Fill, NewDistinct, LocalsOK, HydrateTarget, CopyOK
  <2>2. rows'[new[p]] = rows[new[p]] /\ rows'[old[p]] = rows[old[p]]
    BY <2>1 DEF Fill, TypeSegments
  <2> QED
    BY <2>1, <2>2
<1>9. RowsSurvive'
  <2> SUFFICES ASSUME current # 0 PROVE Acked \subseteq rows'[current]
    BY <1>1 DEF RowsSurvive, Up, Acked
  <2>1. current = hseg[h] /\ current \in Segs /\ Acked \subseteq latest[h]
    BY NamesAreSegments DEF Fill, HydrateTarget, HydrateReads
  <2>2. rows'[current] = rows[current] \cup latest[h]
    BY <2>1 DEF Fill, TypeSegments
  <2> QED
    BY <2>1, <2>2
<1> QED
  BY <1>2, <1>3, <1>4, <1>5, <1>6, <1>7, <1>8, <1>9

\* Filling it raises.
LEMMA FillRaisesRows ==
    ASSUME Orderly, TInv, PInv, RInv, NEW h \in Hydrators, FillRaises(h)
    PROVE  RInv'
<1> USE DEF TInv, TypeOK, PInv, RInv
<1>1. UNCHANGED <<upc, old, new, lastSeg, rows, cursor, pel, stored, cpc, cseg, live,
                  batch, done>>
  BY DEF FillRaises, HGo, Spend, HForget, keyVars, walVars, upVars, conVars
<1>2. /\ LiveOK' /\ StoredOK'
  BY <1>1 DEF LiveOK, StoredOK, Acked
<1>3. QuietOK'
  BY <1>1, ConstantsAssumption DEF FillRaises, HGo, Spend, HForget, QuietOK, Still,
     TypeUpgrade, LocalsOK
<1>4. HydrateAlone'
  <2>1. \A g \in Hydrators : Unfinished(g)' => Unfinished(g)
    BY DEF FillRaises, HGo, HForget, HydrateTarget, Hydrating, Unfinished, TypeHydrate
  <2> QED
    BY <1>1, <2>1 DEF HydrateAlone
<1>5. HydrateTarget'
  BY <1>1, ConstantsAssumption DEF FillRaises, HGo, Spend, HForget, HydrateTarget,
     TypeHydrate, TypeUpgrade
<1>6. HydrateReads'
  BY <1>1, ConstantsAssumption DEF FillRaises, HGo, Spend, HForget, HydrateReads, Acked,
     TypeHydrate
<1>7. ServingOK'
  <2>1. ~Serving'
    BY <1>1 DEF FillRaises, HydrateAlone, Hydrating, Unfinished, Serving
  <2> QED
    BY <2>1 DEF ServingOK
<1>8. DoneOK'
  BY <1>1, ConstantsAssumption DEF FillRaises, HGo, Spend, HForget, DoneOK
<1>9. CopyOK'
  BY <1>1, ConstantsAssumption DEF FillRaises, HGo, Spend, HForget, CopyOK, TypeUpgrade,
     LocalsOK
<1>10. RowsSurvive'
  BY <1>1, ConstantsAssumption DEF FillRaises, HGo, Spend, HForget, RowsSurvive, Up,
     PartFilled, Acked, TypeHydrate
<1> QED
  BY <1>2, <1>3, <1>4, <1>5, <1>6, <1>7, <1>8, <1>9, <1>10

\* What a hydration that ends over a part-filled segment leaves is as it was: no
\* reader opens that segment, and no upgrade copies it.
LEMMA PartialRows ==
    ASSUME TInv, PInv, RInv, NEW h \in Hydrators, hpc[h] = "created",
           LeavePartial(h), FillSome(h), current' \in {0, current},
           UNCHANGED <<upc, old, new, lastSeg, cursor, pel, stored, cpc, cseg, live, batch,
                       done>>
    PROVE  RInv'
<1> USE DEF TInv, TypeOK, PInv, RInv
<1>1. /\ hseg' = hseg /\ hpc'[h] = "partial" /\ current \in {0, hseg[h]}
      /\ \A g \in Hydrators : g # h => hpc'[g] = hpc[g] /\ latest'[g] = latest[g]
  BY DEF LeavePartial, HGo, HydrateTarget, TypeHydrate
<1>2. /\ cpc \in {"down", "exit"}
      /\ \A o \in Upgraders : upc[o] \notin {"locked", "drained", "quiet", "paused"}
      /\ \A g \in Hydrators : g # h => ~Unfinished(g)
  BY DEF HydrateAlone, Hydrating, Unfinished
<1>3. hseg[h] # 0 /\ \A o \in Upgraders : hseg[h] # old[o]
  BY DEF HydrateTarget
<1>4. LiveOK' /\ StoredOK' /\ DoneOK'
  BY <1>2 DEF LiveOK, StoredOK, Acked, DoneOK, ConsumerOK
<1>5. \A o \in Upgraders : old[o] # 0 => old[o] # current /\ old[o] # current'
  BY <1>1, <1>3
<1>6. QuietOK'
  BY <1>2, <1>5 DEF QuietOK, LocalsOK
<1>7. HydrateAlone'
  <2>1. \A g \in Hydrators : g # h => ~Unfinished(g)'
    <3> SUFFICES ASSUME NEW g \in Hydrators, g # h PROVE ~Unfinished(g)'
      OBVIOUS
    <3>1. hpc'[g] = hpc[g] /\ ~Unfinished(g) /\ (hpc[g] = "partial" => hseg[g] # 0)
      BY <1>1, <1>2 DEF HydrateTarget
    <3> QED
      BY <1>1, <3>1 DEF Hydrating, Unfinished
  <2> QED
    BY <1>2, <2>1 DEF HydrateAlone
<1>8. HydrateTarget'
  <2> SUFFICES ASSUME NEW g \in Hydrators
               PROVE  /\ hpc'[g] \in {"nosegment", "quiet", "read"} => current' = 0
                      /\ hpc'[g] = "created" => current' \in {0, hseg[g]}
                      /\ hpc'[g] \in {"created", "partial"} =>
                             hseg[g] # 0 /\ \A o \in Upgraders : hseg[g] # old[o]
    BY <1>1 DEF HydrateTarget
  <2>1. CASE g = h
    BY <1>1, <1>3, <2>1
  <2>2. CASE g # h
    BY <1>1, <2>2 DEF HydrateTarget
  <2> QED
    BY <2>1, <2>2
<1>9. HydrateReads'
  BY <1>1 DEF HydrateReads, Acked
<1>10. ServingOK'
  BY <1>2 DEF ServingOK, Serving
<1>11. CopyOK'
  BY <1>5 DEF CopyOK, LocalsOK
<1>12. RowsSurvive'
  BY <1>1 DEF RowsSurvive, Up, PartFilled
<1> QED
  BY <1>4, <1>6, <1>7, <1>8, <1>9, <1>10, <1>11, <1>12

\* hydrate is killed, or raises before it creates a segment.
LEMMA HydrateBreaksOffRows ==
    ASSUME Orderly, TInv, PInv, RInv, NEW h \in Hydrators, HydrateBreaksOff(h)
    PROVE  RInv'
<1> USE DEF TInv, TypeOK, PInv, RInv
<1>1. UNCHANGED <<upc, old, new, current, linked, lastSeg, cursor, pel, stored, cpc,
                  cseg, live, batch, done>>
  BY DEF HydrateBreaksOff, keyVars, walVars, upVars, conVars
<1>2. CASE hpc[h] = "created"
  <2>1. LeavePartial(h) /\ FillSome(h)
    BY <1>2 DEF HydrateBreaksOff
  <2> QED
    BY <1>1, <1>2, <2>1, PartialRows
<1>3. CASE hpc[h] \in {"nosegment", "quiet", "read"}
  <2>1. HGo(h, "done") /\ HForget(h) /\ UNCHANGED rows /\ current = 0
    BY <1>3 DEF HydrateBreaksOff, HydrateTarget
  <2>2. /\ LiveOK' /\ QuietOK' /\ StoredOK' /\ DoneOK' /\ CopyOK'
    BY <1>1, <2>1 DEF LiveOK, QuietOK, StoredOK, Still, Acked, DoneOK, CopyOK
  <2>3. HydrateAlone' /\ HydrateTarget'
    BY <1>1, <2>1 DEF HGo, HForget, HydrateAlone, HydrateTarget, Hydrating, Unfinished,
       TypeHydrate
  <2>4. HydrateReads'
    BY <1>1, <2>1 DEF HGo, HForget, HydrateReads, Acked, TypeHydrate
  <2>5. ~Serving'
    BY <1>1, <1>3 DEF HydrateAlone, Hydrating, Unfinished, Serving
  <2>6. ServingOK' /\ RowsSurvive'
    BY <1>1, <2>1, <2>5 DEF ServingOK, RowsSurvive, Up
  <2> QED
    BY <2>2, <2>3, <2>4, <2>6
<1> QED
  BY <1>2, <1>3 DEF HydrateBreaksOff

\* The cleanup of a failed hydration fails too.
LEMMA ForceDropFailsRows ==
    ASSUME Orderly, TInv, PInv, RInv, NEW h \in Hydrators, ForceDropFails(h)
    PROVE  RInv'
<1>1. /\ UNCHANGED <<upc, old, new, lastSeg, cursor, pel, stored, cpc, cseg, live, batch,
                     done>>
      /\ current' \in {0, current}
  BY DEF ForceDropFails, keyVars, walVars, upVars, conVars
<1> QED
  BY <1>1, PartialRows DEF ForceDropFails

\* A consumer starts.
LEMMA StartRows ==
    ASSUME Orderly, TInv, PInv, RInv, Start
    PROVE  RInv'
<1> USE DEF TInv, TypeOK, PInv, RInv
<1>1. UNCHANGED <<upc, old, new, hseg, hpc, latest, current, linked, lastSeg, rows,
                  cursor, pel, stored, live, done>>
  BY DEF Start, OpenSegment, CanOpen, keyVars, walVars, upVars, hydVars
<1>2. /\ HydrateTarget' /\ HydrateReads' /\ DoneOK' /\ CopyOK' /\ StoredOK'
      /\ RowsSurvive'
  BY <1>1 DEF HydrateTarget, HydrateReads, DoneOK, CopyOK, StoredOK, RowsSurvive, Acked,
     Up, PartFilled
<1>3. LiveOK'
  BY <1>1, ConstantsAssumption DEF Start, OpenSegment, CanOpen, LiveOK, TypeConsumer
<1>4. QuietOK'
  BY <1>1, ConstantsAssumption DEF Start, OpenSegment, CanOpen, QuietOK, Still,
     TypeUpgrade, LocalsOK, Orderly, MayStart, Copying
<1>5. HydrateAlone'
  BY <1>1, ConstantsAssumption DEF Start, OpenSegment, CanOpen, HydrateAlone, Hydrating, Unfinished,
     TypeHydrate, TypeUpgrade, TypeConsumer, Orderly, MayStart
<1>6. ServingOK'
  <2>1. current # 0 /\ current \in Segs
    BY NamesAreSegments, ConstantsAssumption DEF Start, CanOpen, Segs
  <2>2. "consumer" \in refs'[current]
    BY <2>1 DEF Start, OpenSegment, TypeSegments
  <2> QED
    BY <1>1, <2>1, <2>2 DEF Start, ServingOK
<1> QED
  BY <1>2, <1>3, <1>4, <1>5, <1>6

\* The drain ends.
LEMMA DrainEndsRows ==
    ASSUME Orderly, TInv, PInv, RInv, DrainEnds
    PROVE  RInv'
<1> USE DEF TInv, TypeOK, PInv, RInv
<1>1. UNCHANGED <<upc, old, new, hseg, hpc, latest, current, linked, refs, lastSeg,
                  rows, cursor, pel, stored, cseg, batch, done>>
  BY DEF DrainEnds, segVars, keyVars, upVars, hydVars
<1>2. /\ HydrateTarget' /\ HydrateReads' /\ DoneOK' /\ CopyOK' /\ StoredOK'
      /\ RowsSurvive'
  BY <1>1 DEF HydrateTarget, HydrateReads, DoneOK, CopyOK, StoredOK, RowsSurvive, Acked,
     Up, PartFilled
<1>3. LiveOK'
  BY <1>1, ConstantsAssumption DEF DrainEnds, LiveOK, TypeConsumer
<1>4. QuietOK'
  BY <1>1, ConstantsAssumption DEF DrainEnds, QuietOK, Still, TypeUpgrade, LocalsOK
<1>5. HydrateAlone'
  BY <1>1, ConstantsAssumption DEF DrainEnds, HydrateAlone, Hydrating, Unfinished, TypeHydrate,
     TypeUpgrade, TypeConsumer
<1>6. ServingOK'
  BY <1>1, ConstantsAssumption DEF DrainEnds, ServingOK, Serving
<1> QED
  BY <1>2, <1>3, <1>4, <1>5, <1>6

\* XREADGROUP.
LEMMA ReadRows ==
    ASSUME Orderly, TInv, PInv, RInv, Read
    PROVE  RInv'
<1> USE DEF TInv, TypeOK, PInv, RInv
<1>1. UNCHANGED <<upc, old, new, hseg, hpc, latest, current, linked, refs, lastSeg,
                  rows, stored, cseg, live, done>>
  BY DEF Read, segVars, keyVars, upVars, hydVars
<1>2. /\ HydrateTarget' /\ DoneOK' /\ CopyOK'
  BY <1>1 DEF HydrateTarget, DoneOK, CopyOK
<1>3. LiveOK'
  BY <1>1, ConstantsAssumption DEF Read, LiveOK, TypeConsumer
<1>4. QuietOK'
  BY <1>1, ConstantsAssumption DEF Read, QuietOK, Still, TypeUpgrade, LocalsOK
<1>5. HydrateAlone'
  BY <1>1, ConstantsAssumption DEF Read, HydrateAlone, Hydrating, Unfinished, TypeHydrate,
     TypeUpgrade, TypeConsumer
<1>6. HydrateReads'
  BY <1>1, ReadAcks DEF HydrateReads
<1>7. ServingOK'
  BY <1>1, ConstantsAssumption DEF Read, ServingOK, Serving
<1>8. StoredOK'
  BY <1>1, ReadAcks DEF StoredOK
<1>9. RowsSurvive'
  BY <1>1, ReadAcks DEF RowsSurvive, Up, PartFilled
<1> QED
  BY <1>2, <1>3, <1>4, <1>5, <1>6, <1>7, <1>8, <1>9

\* No pause key.
LEMMA NotPausedRows ==
    ASSUME Orderly, TInv, PInv, RInv, NotPaused
    PROVE  RInv'
<1> USE DEF TInv, TypeOK, PInv, RInv
<1>1. UNCHANGED <<upc, old, new, hseg, hpc, latest, current, linked, refs, lastSeg,
                  rows, cursor, pel, stored, cseg, batch, done>>
  BY DEF NotPaused, segVars, keyVars, upVars, hydVars
<1>2. /\ HydrateTarget' /\ HydrateReads' /\ DoneOK' /\ CopyOK' /\ StoredOK'
      /\ RowsSurvive'
  BY <1>1 DEF HydrateTarget, HydrateReads, DoneOK, CopyOK, StoredOK, RowsSurvive, Acked,
     Up, PartFilled
<1>3. LiveOK'
  BY <1>1, ConstantsAssumption DEF NotPaused, LiveOK, TypeConsumer
<1>4. QuietOK'
  BY <1>1, ConstantsAssumption DEF NotPaused, QuietOK, Still, TypeUpgrade, LocalsOK
<1>5. HydrateAlone'
  BY <1>1, ConstantsAssumption DEF NotPaused, HydrateAlone, Hydrating, Unfinished, TypeHydrate,
     TypeUpgrade, TypeConsumer
<1>6. ServingOK'
  BY <1>1, ConstantsAssumption DEF NotPaused, ServingOK, Serving
<1> QED
  BY <1>2, <1>3, <1>4, <1>5, <1>6

\* A pause key.
LEMMA PausedRows ==
    ASSUME Orderly, TInv, PInv, RInv, Paused
    PROVE  RInv'
<1> USE DEF TInv, TypeOK, PInv, RInv
<1>1. UNCHANGED <<upc, old, new, hseg, hpc, latest, current, linked, refs, lastSeg,
                  rows, cursor, cseg, live>>
  BY DEF Paused, FlushAndAck, segVars, keyVars, upVars, hydVars
<1>2. /\ HydrateTarget' /\ CopyOK'
  BY <1>1 DEF HydrateTarget, CopyOK
<1>3. LiveOK'
  BY <1>1, ConstantsAssumption DEF Paused, FlushAndAck, LiveOK, TypeConsumer
<1>4. QuietOK'
  BY <1>1, ConstantsAssumption DEF Paused, FlushAndAck, QuietOK, Still, TypeUpgrade,
     LocalsOK
<1>5. HydrateAlone'
  BY <1>1, ConstantsAssumption DEF Paused, FlushAndAck, HydrateAlone, Hydrating, Unfinished,
     TypeHydrate, TypeUpgrade, TypeConsumer
<1>6. HydrateReads'
  <2>1. \A h \in Hydrators : hpc[h] \notin {"read", "created"}
    BY DEF Paused, HydrateAlone, Hydrating, Unfinished
  <2> QED
    BY <1>1, <2>1 DEF HydrateReads
<1>7. ServingOK'
  BY <1>1, ConstantsAssumption DEF Paused, FlushAndAck, ServingOK, Serving
<1>8. DoneOK'
  BY <1>1, ConstantsAssumption DEF Paused, FlushAndAck, DoneOK
<1>9. StoredOK'
  BY <1>1, ConstantsAssumption DEF Paused, FlushAndAck, StoredOK, Acked
<1>10. RowsSurvive'
  <2>1. Acked' = Acked \cup done
    BY <1>1, FlushAcks DEF Paused, TypeConsumer
  <2> QED
    BY <1>1, <2>1 DEF RowsSurvive, Up, PartFilled, DoneOK
<1> QED
  BY <1>2, <1>3, <1>4, <1>5, <1>6, <1>7, <1>8, <1>9, <1>10

\* A message is applied.
LEMMA ApplyRows ==
    ASSUME Orderly, TInv, PInv, RInv, NEW m \in Msgs, Apply(m)
    PROVE  RInv'
<1> USE DEF TInv, TypeOK, PInv, RInv
<1>1. UNCHANGED <<upc, old, new, hseg, hpc, latest, current, linked, refs, lastSeg,
                  cursor, pel, stored, cpc, cseg, live>>
  BY DEF Apply, keyVars, walVars, upVars, hydVars
<1>2. /\ LiveOK' /\ QuietOK' /\ HydrateAlone' /\ HydrateTarget' /\ HydrateReads'
      /\ ServingOK' /\ StoredOK'
  BY <1>1 DEF LiveOK, QuietOK, HydrateAlone, HydrateTarget, HydrateReads, ServingOK,
     StoredOK, Still, Hydrating, Unfinished, Acked, Serving
<1>3. DoneOK'
  <2>1. cseg = current /\ current \in Segs
    BY NamesAreSegments DEF Apply, ServingOK, Serving
  <2>2. rows'[current] = rows[current] \cup {m} /\ done' = done \cup {m}
    BY <2>1 DEF Apply, TypeSegments
  <2> QED
    BY <1>1, <2>2 DEF DoneOK
<1>4. CopyOK'
  <2>1. \A o \in Upgraders : upc[o] = "copied" => old[o] # current
    BY DEF Apply, QuietOK, Still
  <2> QED
    BY <1>1, <2>1 DEF CopyOK
<1>5. RowsSurvive'
  BY <1>1, ConstantsAssumption DEF Apply, RowsSurvive, Up, PartFilled, Acked,
     TypeHydrate
<1> QED
  BY <1>2, <1>3, <1>4, <1>5

\* The batch is through.
LEMMA ApplyEndsRows ==
    ASSUME Orderly, TInv, PInv, RInv, ApplyEnds
    PROVE  RInv'
<1> USE DEF TInv, TypeOK, PInv, RInv
<1>1. UNCHANGED <<upc, old, new, hseg, hpc, latest, current, linked, refs, lastSeg,
                  rows, cursor, pel, stored, cseg, live, batch, done>>
  BY DEF ApplyEnds, segVars, keyVars, walVars, upVars, hydVars
<1>2. /\ HydrateTarget' /\ HydrateReads' /\ DoneOK' /\ CopyOK' /\ StoredOK'
      /\ RowsSurvive'
  BY <1>1 DEF HydrateTarget, HydrateReads, DoneOK, CopyOK, StoredOK, RowsSurvive, Acked,
     Up, PartFilled
<1>3. LiveOK'
  BY <1>1, ConstantsAssumption DEF ApplyEnds, LiveOK, TypeConsumer
<1>4. QuietOK'
  BY <1>1, ConstantsAssumption DEF ApplyEnds, QuietOK, Still, TypeUpgrade, LocalsOK
<1>5. HydrateAlone'
  BY <1>1, ConstantsAssumption DEF ApplyEnds, HydrateAlone, Hydrating, Unfinished, TypeHydrate,
     TypeUpgrade, TypeConsumer
<1>6. ServingOK'
  BY <1>1, ConstantsAssumption DEF ApplyEnds, ServingOK, Serving
<1> QED
  BY <1>2, <1>3, <1>4, <1>5, <1>6

\* The flush task.
LEMMA TaskFlushesRows ==
    ASSUME Orderly, TInv, PInv, RInv, TaskFlushes
    PROVE  RInv'
<1> USE DEF TInv, TypeOK, PInv, RInv
<1>1. UNCHANGED <<upc, old, new, hseg, hpc, latest, current, linked, refs, lastSeg,
                  rows, cursor, cpc, cseg, live, batch>>
  BY DEF TaskFlushes, FlushAndAck, segVars, keyVars, upVars, hydVars
<1>2. /\ LiveOK' /\ QuietOK' /\ HydrateAlone' /\ HydrateTarget' /\ ServingOK'
      /\ CopyOK'
  BY <1>1 DEF LiveOK, QuietOK, HydrateAlone, HydrateTarget, ServingOK, CopyOK, Still,
     Hydrating, Unfinished, Serving
<1>3. HydrateReads'
  <2>1. \A h \in Hydrators : hpc[h] \notin {"read", "created"}
    BY DEF TaskFlushes, HydrateAlone, Hydrating, Unfinished
  <2> QED
    BY <1>1, <2>1 DEF HydrateReads
<1>4. DoneOK'
  BY <1>1, ConstantsAssumption DEF TaskFlushes, FlushAndAck, DoneOK
<1>5. StoredOK'
  BY <1>1, ConstantsAssumption DEF TaskFlushes, FlushAndAck, StoredOK, Acked
<1>6. RowsSurvive'
  <2>1. Acked' = Acked \cup done
    BY <1>1, FlushAcks DEF TaskFlushes, TypeConsumer
  <2> QED
    BY <1>1, <2>1 DEF RowsSurvive, Up, PartFilled, DoneOK
<1> QED
  BY <1>2, <1>3, <1>4, <1>5, <1>6

\* The parked consumer reopens.
LEMMA ReopenRows ==
    ASSUME Orderly, TInv, PInv, RInv, Reopen
    PROVE  RInv'
<1> USE DEF TInv, TypeOK, PInv, RInv
<1>1. UNCHANGED <<upc, old, new, hseg, hpc, latest, current, lastSeg, rows, cursor,
                  pel, stored, live, batch, done>>
  BY DEF Reopen, keyVars, walVars, upVars, hydVars
<1>2. /\ HydrateTarget' /\ HydrateReads' /\ DoneOK' /\ CopyOK' /\ StoredOK'
      /\ RowsSurvive'
  BY <1>1 DEF HydrateTarget, HydrateReads, DoneOK, CopyOK, StoredOK, RowsSurvive, Acked,
     Up, PartFilled
<1>3. LiveOK'
  BY <1>1, ConstantsAssumption DEF Reopen, LiveOK, TypeConsumer
<1>4. QuietOK'
  BY <1>1, ConstantsAssumption DEF Reopen, QuietOK, Still, TypeUpgrade, LocalsOK
<1>5. HydrateAlone'
  BY <1>1, ConstantsAssumption DEF Reopen, HydrateAlone, Hydrating, Unfinished, TypeHydrate,
     TypeUpgrade, TypeConsumer
<1>6. ServingOK'
  <2>1. cseg = current /\ current # 0 /\ "consumer" \in refs[current]
    BY DEF Reopen, ServingOK, Serving
  <2>2. cseg' = current /\ "consumer" \in refs'[current]
    BY <2>1, NamesAreSegments DEF Reopen, TypeSegments
  <2> QED
    BY <1>1, <2>1, <2>2 DEF ServingOK
<1> QED
  BY <1>2, <1>3, <1>4, <1>5, <1>6

\* stop() of the consumer.
LEMMA StopRows ==
    ASSUME Orderly, TInv, PInv, RInv, Stop
    PROVE  RInv'
<1> USE DEF TInv, TypeOK, PInv, RInv
<1>1. UNCHANGED <<upc, old, new, hseg, hpc, latest, current, linked, refs, lastSeg,
                  rows, cursor, pel, stored, cseg, live, batch, done>>
  BY DEF Stop, segVars, keyVars, walVars, upVars, hydVars
<1>2. /\ HydrateTarget' /\ HydrateReads' /\ DoneOK' /\ CopyOK' /\ StoredOK'
      /\ RowsSurvive'
  BY <1>1 DEF HydrateTarget, HydrateReads, DoneOK, CopyOK, StoredOK, RowsSurvive, Acked,
     Up, PartFilled
<1>3. LiveOK'
  BY <1>1, ConstantsAssumption DEF Stop, LiveOK, TypeConsumer
<1>4. QuietOK'
  BY <1>1, ConstantsAssumption DEF Stop, QuietOK, Still, TypeUpgrade, LocalsOK
<1>5. HydrateAlone'
  BY <1>1, ConstantsAssumption DEF Stop, HydrateAlone, Hydrating, Unfinished, TypeHydrate,
     TypeUpgrade, TypeConsumer
<1>6. ServingOK'
  BY <1>1, ConstantsAssumption DEF Stop, ServingOK, Serving, LiveOK
<1> QED
  BY <1>2, <1>3, <1>4, <1>5, <1>6

\* The final flush.
LEMMA StopEndsRows ==
    ASSUME Orderly, TInv, PInv, RInv, StopEnds
    PROVE  RInv'
<1> USE DEF TInv, TypeOK, PInv, RInv
<1>1. UNCHANGED <<upc, old, new, hseg, hpc, latest, current, linked, refs, lastSeg,
                  rows, cursor, cseg, batch>>
  BY DEF StopEnds, FlushAndAck, segVars, keyVars, upVars, hydVars
<1>2. /\ HydrateTarget' /\ CopyOK'
  BY <1>1 DEF HydrateTarget, CopyOK
<1>3. LiveOK'
  BY <1>1, ConstantsAssumption DEF StopEnds, FlushAndAck, LiveOK, TypeConsumer
<1>4. QuietOK'
  BY <1>1, ConstantsAssumption DEF StopEnds, FlushAndAck, QuietOK, Still, TypeUpgrade,
     LocalsOK
<1>5. HydrateAlone'
  BY <1>1, ConstantsAssumption DEF StopEnds, FlushAndAck, HydrateAlone, Hydrating, Unfinished,
     TypeHydrate, TypeUpgrade, TypeConsumer
<1>6. HydrateReads'
  <2>1. \A h \in Hydrators : hpc[h] \notin {"read", "created"}
    BY DEF StopEnds, HydrateAlone, Hydrating, Unfinished
  <2> QED
    BY <1>1, <2>1 DEF HydrateReads
<1>7. ServingOK'
  BY <1>1, ConstantsAssumption DEF StopEnds, FlushAndAck, ServingOK, Serving
<1>8. DoneOK'
  BY <1>1, ConstantsAssumption DEF StopEnds, FlushAndAck, DoneOK
<1>9. StoredOK'
  BY <1>1, ConstantsAssumption DEF StopEnds, FlushAndAck, StoredOK, Acked
<1>10. RowsSurvive'
  <2>1. Acked' = Acked \cup done
    BY <1>1, FlushAcks DEF StopEnds, TypeConsumer
  <2> QED
    BY <1>1, <2>1 DEF RowsSurvive, Up, PartFilled, DoneOK
<1> QED
  BY <1>2, <1>3, <1>4, <1>5, <1>6, <1>7, <1>8, <1>9, <1>10

\* The consumer exits.
LEMMA ConsumerExitsRows ==
    ASSUME Orderly, TInv, PInv, RInv, ConsumerExits
    PROVE  RInv'
<1> USE DEF TInv, TypeOK, PInv, RInv
<1>1. UNCHANGED <<upc, old, new, hseg, hpc, latest, lastSeg, rows, cursor, pel, stored,
                  live, batch, done>>
  BY DEF ConsumerExits, DropRef, LeaveRefs, keyVars, walVars, upVars, hydVars
<1>2. /\ HydrateReads' /\ StoredOK'
  BY <1>1 DEF HydrateReads, StoredOK, Acked
<1>3. LiveOK'
  BY <1>1, ConstantsAssumption DEF ConsumerExits, DropRef, LeaveRefs, LiveOK,
     TypeConsumer
<1>4. QuietOK'
  BY <1>1, ConstantsAssumption DEF ConsumerExits, DropRef, LeaveRefs, QuietOK, Still,
     TypeUpgrade, LocalsOK
<1>5. HydrateAlone'
  <2>1. current' \in {0, current} /\ cpc' = "down"
    BY DEF ConsumerExits, DropRef
  <2> QED
    BY <1>1, <2>1, NoneBegun DEF HydrateAlone
<1>6. HydrateTarget'
  BY <1>1, ConstantsAssumption DEF ConsumerExits, DropRef, LeaveRefs, HydrateTarget,
     TypeHydrate, TypeUpgrade
<1>7. ServingOK'
  BY <1>1, ConstantsAssumption DEF ConsumerExits, DropRef, LeaveRefs, ServingOK, Serving
<1>8. DoneOK'
  BY <1>1, ConstantsAssumption DEF ConsumerExits, DropRef, LeaveRefs, DoneOK
<1>9. CopyOK'
  BY <1>1, ConstantsAssumption DEF ConsumerExits, DropRef, LeaveRefs, CopyOK,
     TypeUpgrade, LocalsOK
<1>10. RowsSurvive'
  BY <1>1, ConstantsAssumption DEF ConsumerExits, DropRef, LeaveRefs, RowsSurvive, Up,
     PartFilled, Acked, TypeHydrate
<1> QED
  BY <1>2, <1>3, <1>4, <1>5, <1>6, <1>7, <1>8, <1>9, <1>10

\* The consumer crashes.
LEMMA ConsumerCrashesRows ==
    ASSUME Orderly, TInv, PInv, RInv, ConsumerCrashes
    PROVE  RInv'
<1> USE DEF TInv, TypeOK, PInv, RInv
<1>1. UNCHANGED <<upc, old, new, hseg, hpc, latest, current, linked, lastSeg, rows,
                  cursor, pel, stored, live>>
  BY DEF ConsumerCrashes, Spend, LeaveRefs, keyVars, walVars, upVars, hydVars
<1>2. /\ HydrateTarget' /\ HydrateReads' /\ CopyOK' /\ StoredOK' /\ RowsSurvive'
  BY <1>1 DEF HydrateTarget, HydrateReads, CopyOK, StoredOK, RowsSurvive, Acked, Up,
     PartFilled
<1>3. LiveOK'
  BY <1>1, ConstantsAssumption DEF ConsumerCrashes, Spend, LeaveRefs, LiveOK,
     TypeConsumer
<1>4. QuietOK'
  BY <1>1, ConstantsAssumption DEF ConsumerCrashes, Spend, LeaveRefs, QuietOK, Still,
     TypeUpgrade, LocalsOK
<1>5. HydrateAlone'
  BY <1>1, ConstantsAssumption DEF ConsumerCrashes, Spend, LeaveRefs, HydrateAlone,
     Hydrating, Unfinished, TypeHydrate, TypeUpgrade, TypeConsumer
<1>6. ServingOK'
  BY <1>1, ConstantsAssumption DEF ConsumerCrashes, Spend, LeaveRefs, ServingOK, Serving
<1>7. DoneOK'
  BY <1>1, ConstantsAssumption DEF ConsumerCrashes, Spend, LeaveRefs, DoneOK
<1> QED
  BY <1>2, <1>3, <1>4, <1>5, <1>6, <1>7

\* The server closes its segment.
LEMMA ServerClosesRows ==
    ASSUME Orderly, TInv, PInv, RInv, ServerCloses
    PROVE  RInv'
<1> USE DEF TInv, TypeOK, PInv, RInv
<1>1. UNCHANGED <<upc, old, new, hseg, hpc, latest, lastSeg, rows, cursor, pel, stored,
                  cpc, cseg, live, batch, done>>
  BY DEF ServerCloses, DropRef, keyVars, walVars, upVars, hydVars, conVars
<1>2. /\ LiveOK' /\ HydrateAlone' /\ HydrateReads' /\ StoredOK'
  <2>1. current' \in {0, current}
    BY DEF ServerCloses, DropRef
  <2>2. HydrateAlone'
    BY <1>1, <2>1, NoneBegun DEF HydrateAlone
  <2> QED
    BY <1>1, <2>2 DEF LiveOK, HydrateReads, StoredOK, Acked
<1>3. QuietOK'
  BY <1>1, ConstantsAssumption DEF ServerCloses, DropRef, QuietOK, Still, TypeUpgrade,
     LocalsOK
<1>4. HydrateTarget'
  BY <1>1, ConstantsAssumption DEF ServerCloses, DropRef, HydrateTarget, TypeHydrate,
     TypeUpgrade
<1>5. ServingOK'
  <2>1. OthersKeep("server") /\ "server" # "consumer"
    BY <1>1, DropKeeps, ConstantsAssumption DEF ServerCloses
  <2>2. Serving => current' = current
    BY <1>1, <2>1, DropSpares DEF ServerCloses, ServingOK
  <2>3. Serving' => Serving
    BY <1>1 DEF Serving
  <2> QED
    BY <1>1, <2>1, <2>2, <2>3, ServingIsKept
<1>6. DoneOK'
  BY <1>1, ConstantsAssumption DEF ServerCloses, DropRef, DoneOK
<1>7. CopyOK'
  BY <1>1, ConstantsAssumption DEF ServerCloses, DropRef, CopyOK, TypeUpgrade, LocalsOK
<1>8. RowsSurvive'
  BY <1>1, ConstantsAssumption DEF ServerCloses, DropRef, RowsSurvive, Up, PartFilled,
     Acked, TypeHydrate
<1> QED
  BY <1>2, <1>3, <1>4, <1>5, <1>6, <1>7, <1>8

\* The watchdog reaps.
LEMMA ReapRows ==
    ASSUME Orderly, TInv, PInv, RInv, Reap
    PROVE  RInv'
<1> USE DEF TInv, TypeOK, PInv, RInv
<1>1. UNCHANGED <<upc, old, new, hseg, hpc, latest, lastSeg, rows, cursor, pel, stored,
                  cpc, cseg, live, batch, done>>
  BY DEF Reap, DropRef, keyVars, walVars, upVars, hydVars, conVars
<1>2. /\ LiveOK' /\ HydrateAlone' /\ HydrateReads' /\ StoredOK'
  <2>1. current' \in {0, current}
    BY DEF Reap, DropRef
  <2>2. HydrateAlone'
    BY <1>1, <2>1, NoneBegun DEF HydrateAlone
  <2> QED
    BY <1>1, <2>2 DEF LiveOK, HydrateReads, StoredOK, Acked
<1>3. QuietOK'
  BY <1>1, ConstantsAssumption DEF Reap, DropRef, QuietOK, Still, TypeUpgrade, LocalsOK
<1>4. HydrateTarget'
  BY <1>1, ConstantsAssumption DEF Reap, DropRef, HydrateTarget, TypeHydrate, TypeUpgrade
<1>5. ServingOK'
  <2>1. OthersKeep("gone") /\ "gone" # "consumer"
    BY <1>1, DropKeeps, ConstantsAssumption DEF Reap
  <2>2. Serving => current' = current
    BY <1>1, <2>1, DropSpares DEF Reap, ServingOK
  <2>3. Serving' => Serving
    BY <1>1 DEF Serving
  <2> QED
    BY <1>1, <2>1, <2>2, <2>3, ServingIsKept
<1>6. DoneOK'
  BY <1>1, ConstantsAssumption DEF Reap, DropRef, DoneOK
<1>7. CopyOK'
  BY <1>1, ConstantsAssumption DEF Reap, DropRef, CopyOK, TypeUpgrade, LocalsOK
<1>8. RowsSurvive'
  BY <1>1, ConstantsAssumption DEF Reap, DropRef, RowsSurvive, Up, PartFilled, Acked,
     TypeHydrate
<1> QED
  BY <1>2, <1>3, <1>4, <1>5, <1>6, <1>7, <1>8

\* The liveness key expires.
LEMMA LivenessExpiresRows ==
    ASSUME Orderly, TInv, PInv, RInv, LivenessExpires
    PROVE  RInv'
<1> USE DEF TInv, TypeOK, PInv, RInv
<1>1. UNCHANGED <<upc, old, new, hseg, hpc, latest, current, linked, refs, lastSeg,
                  rows, cursor, pel, stored, cpc, cseg, batch, done>>
  BY DEF LivenessExpires, Spend, segVars, keyVars, upVars, hydVars, conVars
<1>2. /\ HydrateAlone' /\ HydrateTarget' /\ HydrateReads' /\ DoneOK' /\ CopyOK'
      /\ StoredOK' /\ RowsSurvive'
  BY <1>1 DEF HydrateAlone, HydrateTarget, HydrateReads, DoneOK, CopyOK, StoredOK,
     RowsSurvive, Hydrating, Unfinished, Acked, Up, PartFilled
<1>3. LiveOK'
  BY <1>1, ConstantsAssumption DEF LivenessExpires, Spend, LiveOK, TypeConsumer, Orderly
<1>4. QuietOK'
  BY <1>1, ConstantsAssumption DEF LivenessExpires, Spend, QuietOK, Still, TypeUpgrade,
     LocalsOK
<1>5. ServingOK'
  BY <1>1, ConstantsAssumption DEF LivenessExpires, Spend, ServingOK, Serving, Orderly
<1> QED
  BY <1>2, <1>3, <1>4, <1>5

--------------------------------------------------------------------------------
(* The online store that readers see *)

\* What is served, as Online is given it.
Served == IF Up THEN rows[current] ELSE {}

\* Who holds it, as Online is given it.
Held == IF Up THEN refs[current] ELSE {}

\* A step after which readers find the same rows, and nothing else is acknowledged.
LEMMA SameServed ==
    ASSUME Up' = Up, Served' = Served, Acked' = Acked, PointerIsLive'
    PROVE  [Online!Next]_(Online!vars)
<1>1. CASE Up
  <2>1. refs'[current'] # {} /\ Up = TRUE /\ Up' = TRUE
    BY <1>1 DEF Up, PointerIsLive
  <2>2. Online!Turnover
    BY <2>1 DEF Online!Turnover, Served
  <2> QED
    BY <2>2 DEF Online!Next
<1>2. CASE ~Up
  BY <1>2 DEF Online!vars, Served
<1> QED
  BY <1>1, <1>2

\* A step that changes neither pointer, rows, hydrations nor the pending list.
LEMMA OnlineFrame ==
    ASSUME UNCHANGED <<current, rows, hpc, hseg, cursor, pel>>, PointerIsLive'
    PROVE  [Online!Next]_(Online!vars)
<1>1. Up' = Up /\ Served' = Served /\ Acked' = Acked
  BY DEF Up, PartFilled, Served, Acked
<1> QED
  BY <1>1, SameServed

\* The pointer stays, or goes with the only holder of its segment.
LEMMA PointerGoes ==
    ASSUME current' \in {0, current}, UNCHANGED <<rows, hpc, hseg, cursor, pel>>,
           PointerIsLive', current' # current => \E p : refs[current] = {p}
    PROVE  [Online!Next]_(Online!vars)
<1>1. Acked' = Acked
  BY DEF Acked
<1>2. CASE current' = current
  BY <1>2, OnlineFrame
<1>3. CASE current' = 0 /\ ~Up
  BY <1>1, <1>3, SameServed DEF Up, Served
<1>4. CASE current' = 0 /\ Up
  <2>1. Up' = FALSE /\ Up = TRUE /\ current' # current
    BY <1>4 DEF Up
  <2>2. PICK p : refs[current] = {p}
    BY <2>1
  <2>3. Held = {p} /\ Held' = {}
    BY <2>1, <2>2 DEF Held
  <2>4. Online!Withdraw
    BY <1>1, <2>1, <2>3 DEF Online!Withdraw, Held
  <2> QED
    BY <2>4 DEF Online!Next
<1> QED
  BY <1>2, <1>3, <1>4

\* A reference is dropped: only the last one takes the pointer down.
LEMMA DropGoes ==
    ASSUME NEW p, NEW S, DropRef(p, S)
    PROVE  /\ current' \in {0, current}
           /\ current' # current => \E q : refs[current] = {q}
  BY DEF DropRef

\* A flush confirms what the current segment reflects.
LEMMA FlushConfirms ==
    ASSUME TInv, DoneOK, FlushAndAck, UNCHANGED <<current, refs, rows, hpc, hseg, cursor>>
    PROVE  [Online!Next]_(Online!vars)
<1>1. Acked' = Acked \cup done /\ done \subseteq Msgs
  <2>1. done \subseteq pel /\ pel \subseteq 1..cursor
    BY DEF TInv, TypeOK, TypeConsumer, TypeWal
  <2>2. 1..cursor \subseteq Msgs
    BY ConstantsAssumption DEF TInv, TypeOK, TypeWal, Msgs
  <2> QED
    BY <2>1, <2>2, FlushAcks DEF TInv, TypeOK
<1>2. Up' = Up /\ Served' = Served /\ Held' = Held
  BY DEF Up, PartFilled, Served, Held
<1>3. Up => done \subseteq Served
  BY DEF Up, Served, DoneOK
<1>4. Online!Confirm(done)
  BY <1>1, <1>2, <1>3 DEF Online!Confirm, Served, Held
<1> QED
  BY <1>1, <1>4 DEF Online!Next

LEMMA CreateNewOnline ==
    ASSUME Orderly, TInv, PInv, RInv, PointerIsLive', NEW o \in Upgraders, CreateNew(o)
    PROVE  [Online!Next]_(Online!vars)
<1>1. current' = current
  BY DEF CreateNew, CreateSegment
<1> QED
  BY <1>1, OnlineFrame DEF CreateNew, walVars, hydVars

LEMMA CopyOnline ==
    ASSUME Orderly, TInv, PInv, RInv, PointerIsLive', NEW o \in Upgraders, Copy(o)
    PROVE  [Online!Next]_(Online!vars)
<1>1. UNCHANGED <<current, hpc, hseg, cursor, pel>>
  BY DEF Copy, hydVars, walVars
<1>2. current # 0 => rows'[current] = rows[current]
  BY NamesAreSegments DEF Copy, PInv, NewUnnamed, TInv, TypeOK, TypeSegments
<1>3. Up' = Up /\ Acked' = Acked
  BY <1>1 DEF Up, PartFilled, Acked
<1>4. Served' = Served
  BY <1>1, <1>2, <1>3 DEF Served, Up
<1> QED
  BY <1>3, <1>4, SameServed

LEMMA FlipOnline ==
    ASSUME Orderly, TInv, PInv, RInv, PointerIsLive', NEW o \in Upgraders, Flip(o)
    PROVE  [Online!Next]_(Online!vars)
<1>1. UNCHANGED <<rows, hpc, hseg, cursor, pel>>
  BY DEF Flip, hydVars, walVars
<1>2. CASE current = old[o]
  <2>1. /\ current' = new[o] /\ new[o] # 0 /\ current # 0
        /\ rows[new[o]] = rows[current]
    BY <1>2 DEF Flip, TInv, LocalsOK, RInv, CopyOK
  <2>2. \A h \in Hydrators : hpc[h] \in {"created", "partial"} =>
            hseg[h] # current /\ hseg[h] # new[o]
    BY <1>2, <2>1 DEF RInv, HydrateTarget, PInv, NewDistinct
  <2>3. Up = TRUE /\ Up' = TRUE
    BY <1>1, <2>1, <2>2 DEF Up, PartFilled
  <2>4. Served' = Served /\ Acked' = Acked
    BY <1>1, <2>1, <2>3 DEF Served, Acked
  <2> QED
    BY <2>3, <2>4, SameServed
<1>3. CASE current # old[o]
  BY <1>1, <1>3, OnlineFrame DEF Flip
<1> QED
  BY <1>2, <1>3

LEMMA CloseOldOnline ==
    ASSUME Orderly, TInv, PInv, RInv, PointerIsLive', NEW o \in Upgraders, CloseOld(o)
    PROVE  [Online!Next]_(Online!vars)
<1>1. /\ current' \in {0, current}
      /\ current' # current => \E q : refs[current] = {q}
  BY DropGoes DEF CloseOld
<1> QED
  BY <1>1, PointerGoes DEF CloseOld, hydVars, walVars

LEMMA CheckCurrentOnline ==
    ASSUME Orderly, TInv, PInv, RInv, PointerIsLive', NEW h \in Hydrators, CheckCurrent(h)
    PROVE  [Online!Next]_(Online!vars)
<1>1. Up' = Up
  BY DEF CheckCurrent, HGo, segVars, Up, PartFilled, TInv, TypeOK, TypeHydrate
<1>2. Served' = Served /\ Acked' = Acked
  BY <1>1 DEF CheckCurrent, segVars, walVars, Served, Acked
<1> QED
  BY <1>1, <1>2, SameServed

LEMMA CheckConsumerOnline ==
    ASSUME Orderly, TInv, PInv, RInv, PointerIsLive', NEW h \in Hydrators, CheckConsumer(h)
    PROVE  [Online!Next]_(Online!vars)
<1>1. Up' = Up
  BY DEF CheckConsumer, HGo, segVars, Up, PartFilled, TInv, TypeOK, TypeHydrate
<1>2. Served' = Served /\ Acked' = Acked
  BY <1>1 DEF CheckConsumer, segVars, walVars, Served, Acked
<1> QED
  BY <1>1, <1>2, SameServed

LEMMA ReadLatestOnline ==
    ASSUME Orderly, TInv, PInv, RInv, PointerIsLive', NEW h \in Hydrators, ReadLatest(h)
    PROVE  [Online!Next]_(Online!vars)
<1>1. Up' = Up
  BY DEF ReadLatest, HGo, segVars, Up, PartFilled, TInv, TypeOK, TypeHydrate
<1>2. Served' = Served /\ Acked' = Acked
  BY <1>1 DEF ReadLatest, segVars, walVars, Served, Acked
<1> QED
  BY <1>1, <1>2, SameServed

\* The pointer names the new segment before it has a row: readers wait on.
LEMMA CreateCurrentOnline ==
    ASSUME Orderly, TInv, PInv, RInv, PointerIsLive', NEW h \in Hydrators, CreateCurrent(h)
    PROVE  [Online!Next]_(Online!vars)
<1>1. Up = FALSE
  BY DEF CreateCurrent, RInv, HydrateTarget, Up
<1>2. hpc'[h] = "created" /\ hseg'[h] = current'
  BY DEF CreateCurrent, CreateSegment, HGo, TInv, TypeOK, TypeHydrate
<1>3. Up' = FALSE
  BY <1>2 DEF Up, PartFilled
<1>4. Acked' = Acked
  BY DEF CreateCurrent, walVars, Acked
<1> QED
  BY <1>1, <1>3, <1>4, SameServed DEF Served

\* hydrate brings back everything that is acknowledged.
LEMMA FillOnline ==
    ASSUME Orderly, TInv, PInv, RInv, PointerIsLive', NEW h \in Hydrators, Fill(h)
    PROVE  [Online!Next]_(Online!vars)
<1>1. UNCHANGED <<current, cursor, pel>> /\ Acked' = Acked
  BY DEF Fill, walVars, Acked
<1>2. current \in {0, hseg[h]} /\ hseg[h] # 0
  BY DEF Fill, RInv, HydrateTarget
<1>3. CASE current = 0
  BY <1>1, <1>3, SameServed DEF Served, Up
<1>4. CASE current = hseg[h]
  <2>1. Up = FALSE
    BY <1>4 DEF Up, PartFilled, Fill
  <2>2. ~PartFilled'
    BY <1>1 DEF Fill, HGo, HForget, RInv, HydrateAlone, Hydrating, Unfinished, TInv, TypeOK,
       TypeHydrate, PartFilled
  <2>3. Up' = TRUE
    BY <1>1, <1>2, <1>4, <2>2 DEF Up
  <2>4. Acked \subseteq rows'[current]
    BY <1>1, <2>3, FillRows DEF RInv, RowsSurvive
  <2>5. rows'[current] \subseteq Msgs
    BY <1>2, <1>4, NamesAreSegments, FillTypes DEF TInv, TypeOK, TypeSegments
  <2>6. refs'[current'] # {}
    BY <2>3 DEF Up, PointerIsLive
  <2>7. Online!Restore(rows'[current])
    BY <1>1, <2>1, <2>3, <2>4, <2>6 DEF Online!Restore
  <2> QED
    BY <2>5, <2>7 DEF Online!Next
<1> QED
  BY <1>2, <1>3, <1>4

LEMMA FillRaisesOnline ==
    ASSUME Orderly, TInv, PInv, RInv, PointerIsLive', NEW h \in Hydrators, FillRaises(h)
    PROVE  [Online!Next]_(Online!vars)
<1>1. Up = FALSE
  BY DEF FillRaises, RInv, HydrateTarget, Up, PartFilled
<1>2. Up' = FALSE
  BY DEF FillRaises, Up
<1>3. Acked' = Acked
  BY DEF FillRaises, walVars, Acked
<1> QED
  BY <1>1, <1>2, <1>3, SameServed DEF Served

LEMMA HydrateBreaksOffOnline ==
    ASSUME Orderly, TInv, PInv, RInv, PointerIsLive', NEW h \in Hydrators, HydrateBreaksOff(h)
    PROVE  [Online!Next]_(Online!vars)
<1>1. current' = current /\ Acked' = Acked
  BY DEF HydrateBreaksOff, walVars, Acked
<1>2. CASE hpc[h] \in {"nosegment", "quiet", "read"}
  <2>1. current = 0
    BY <1>2 DEF RInv, HydrateTarget
  <2> QED
    BY <1>1, <2>1, SameServed DEF Up, Served
<1>3. CASE hpc[h] = "created"
  <2>1. current \in {0, hseg[h]} /\ hpc'[h] = "partial" /\ hseg' = hseg
    BY <1>3 DEF HydrateBreaksOff, LeavePartial, HGo, RInv, HydrateTarget, TInv, TypeOK,
       TypeHydrate
  <2>2. Up = FALSE /\ Up' = FALSE
    BY <1>1, <1>3, <2>1 DEF Up, PartFilled
  <2> QED
    BY <1>1, <2>2, SameServed DEF Served
<1> QED
  BY <1>2, <1>3 DEF HydrateBreaksOff

LEMMA ForceDropFailsOnline ==
    ASSUME Orderly, TInv, PInv, RInv, PointerIsLive', NEW h \in Hydrators, ForceDropFails(h)
    PROVE  [Online!Next]_(Online!vars)
<1>1. current' \in {0, current} /\ Acked' = Acked
  BY DEF ForceDropFails, walVars, Acked
<1>2. /\ current \in {0, hseg[h]} /\ hpc[h] = "created"
      /\ hpc'[h] = "partial" /\ hseg' = hseg
  BY DEF ForceDropFails, LeavePartial, HGo, RInv, HydrateTarget, TInv, TypeOK, TypeHydrate
<1>3. Up = FALSE /\ Up' = FALSE
  BY <1>1, <1>2 DEF Up, PartFilled
<1> QED
  BY <1>1, <1>3, SameServed DEF Served

LEMMA ReadOnline ==
    ASSUME Orderly, TInv, PInv, RInv, PointerIsLive', Read
    PROVE  [Online!Next]_(Online!vars)
<1>1. Acked' = Acked
  BY ReadAcks DEF TInv, TypeOK
<1>2. Up' = Up /\ Served' = Served
  BY DEF Read, segVars, hydVars, Up, PartFilled, Served
<1> QED
  BY <1>1, <1>2, SameServed

LEMMA PausedOnline ==
    ASSUME Orderly, TInv, PInv, RInv, PointerIsLive', Paused
    PROVE  [Online!Next]_(Online!vars)
  BY FlushConfirms DEF Paused, segVars, hydVars, RInv

LEMMA TaskFlushesOnline ==
    ASSUME Orderly, TInv, PInv, RInv, PointerIsLive', TaskFlushes
    PROVE  [Online!Next]_(Online!vars)
  BY FlushConfirms DEF TaskFlushes, segVars, hydVars, RInv

LEMMA StopEndsOnline ==
    ASSUME Orderly, TInv, PInv, RInv, PointerIsLive', StopEnds
    PROVE  [Online!Next]_(Online!vars)
  BY FlushConfirms DEF StopEnds, segVars, hydVars, RInv

\* The consumer's segment is the one readers see.
LEMMA ApplyOnline ==
    ASSUME Orderly, TInv, PInv, RInv, PointerIsLive', NEW m \in Msgs, Apply(m)
    PROVE  [Online!Next]_(Online!vars)
<1>1. UNCHANGED <<current, refs, hpc, hseg, cursor, pel>>
  BY DEF Apply, hydVars, walVars
<1>2. cseg = current /\ current # 0 /\ current \in Segs
  BY NamesAreSegments DEF Apply, RInv, ServingOK, Serving
<1>3. ~PartFilled
  BY DEF Apply, RInv, HydrateAlone, Hydrating, Unfinished, PartFilled
<1>4. Up = TRUE /\ Up' = TRUE /\ Acked' = Acked
  BY <1>1, <1>2, <1>3 DEF Up, PartFilled, Acked
<1>5. rows'[current] = rows[current] \cup {m}
  BY <1>2 DEF Apply, TInv, TypeOK, TypeSegments
<1>6. Online!Serve(m)
  BY <1>1, <1>4, <1>5 DEF Online!Serve
<1> QED
  BY <1>6 DEF Online!Next

LEMMA ConsumerExitsOnline ==
    ASSUME Orderly, TInv, PInv, RInv, PointerIsLive', ConsumerExits
    PROVE  [Online!Next]_(Online!vars)
<1>1. /\ current' \in {0, current}
      /\ current' # current => \E q : refs[current] = {q}
  BY DropGoes DEF ConsumerExits
<1> QED
  BY <1>1, PointerGoes DEF ConsumerExits, hydVars, walVars

LEMMA ServerClosesOnline ==
    ASSUME Orderly, TInv, PInv, RInv, PointerIsLive', ServerCloses
    PROVE  [Online!Next]_(Online!vars)
<1>1. /\ current' \in {0, current}
      /\ current' # current => \E q : refs[current] = {q}
  BY DropGoes DEF ServerCloses
<1> QED
  BY <1>1, PointerGoes DEF ServerCloses, hydVars, walVars

LEMMA ReapOnline ==
    ASSUME Orderly, TInv, PInv, RInv, PointerIsLive', Reap
    PROVE  [Online!Next]_(Online!vars)
<1>1. /\ current' \in {0, current}
      /\ current' # current => \E q : refs[current] = {q}
  BY DropGoes DEF Reap
<1> QED
  BY <1>1, PointerGoes DEF Reap, hydVars, walVars

--------------------------------------------------------------------------------
(* Theorems *)

LEMMA InitTypes == Init => TInv
<1> SUFFICES ASSUME Init PROVE TInv
  OBVIOUS
<1>1. 1 \in Segs /\ 0 \in 0..lastSeg /\ lastSeg = 1
  BY ConstantsAssumption DEF Init, Segs
<1>2. refs \in [Segs -> SUBSET Holders]
  BY DEF Init, Holders
<1>3. TypeSegments
  BY <1>1, <1>2 DEF Init, TypeSegments
<1>4. TypeKeys /\ TypeConsumer /\ ConsumerOK /\ budget \in Nat
  BY <1>1, ConstantsAssumption DEF Init, TypeKeys, TypeConsumer, ConsumerOK
<1>5. TypeWal
  BY ConstantsAssumption DEF Init, TypeWal
<1>6. TypeUpgrade /\ TypeHydrate /\ LocalsOK
  BY <1>1 DEF Init, TypeUpgrade, UpgradePoints, TypeHydrate, HydratePoints, LocalsOK
<1>7. VersionsOK
  BY <1>1 DEF Init, VersionsOK
<1> QED
  BY <1>3, <1>4, <1>5, <1>6, <1>7 DEF TInv, TypeOK

LEMMA NextTypes == TInv /\ [Next]_vars => TInv'
<1> SUFFICES ASSUME TInv, [Next]_vars
             PROVE  TInv'
  OBVIOUS
<1>1. ASSUME NEW o \in Upgraders, Acquire(o) \/ UpgradeStep(o) \/ UpgradeFault(o)
      PROVE  TInv'
  <2>1. CASE Acquire(o)
    BY <2>1, AcquireTypes
  <2>2. CASE CheckPending(o)
    BY <2>2, CheckPendingTypes
  <2>3. CASE CheckLiveness(o)
    BY <2>3, CheckLivenessTypes
  <2>4. CASE CheckLivenessRaises(o)
    BY <2>4, CheckLivenessRaisesTypes
  <2>5. CASE SetPause(o)
    BY <2>5, SetPauseTypes
  <2>6. CASE OpenOld(o)
    BY <2>6, OpenOldTypes
  <2>7. CASE CreateNew(o)
    BY <2>7, CreateNewTypes
  <2>8. CASE Copy(o)
    BY <2>8, CopyTypes
  <2>9. CASE Flip(o)
    BY <2>9, FlipTypes
  <2>10. CASE FlipReplyLost(o)
    BY <2>10, FlipReplyLostTypes
  <2>11. CASE ClearPause(o)
    BY <2>11, ClearPauseTypes
  <2>12. CASE WaitEnds(o)
    BY <2>12, WaitEndsTypes
  <2>13. CASE Raise(o)
    BY <2>13, RaiseTypes
  <2>14. CASE CleanupOrphan(o)
    BY <2>14, CleanupOrphanTypes
  <2>15. CASE CloseOld(o)
    BY <2>15, CloseOldTypes
  <2>16. CASE ReleaseLock(o)
    BY <2>16, ReleaseLockTypes
  <2>17. CASE DeletePause(o)
    BY <2>17, DeletePauseTypes
  <2>18. CASE UpgraderDies(o)
    BY <2>18, UpgraderDiesTypes
  <2>19. CASE Suppressed(o)
    BY <2>19, SuppressedTypes
  <2>20. CASE CleanupOrphanFails(o)
    BY <2>20, CleanupOrphanFailsTypes
  <2> QED
    BY <1>1, <2>1, <2>2, <2>3, <2>4, <2>5, <2>6, <2>7, <2>8, <2>9, <2>10, <2>11, <2>12,
       <2>13, <2>14, <2>15, <2>16, <2>17, <2>18, <2>19, <2>20, Zenon
       DEF UpgradeStep, UpgradeFault
<1>2. ASSUME NEW h \in Hydrators, HydrateStep(h)
      PROVE  TInv'
  <2>1. CASE CheckCurrent(h)
    BY <2>1, CheckCurrentTypes
  <2>2. CASE CheckConsumer(h)
    BY <2>2, CheckConsumerTypes
  <2>3. CASE ReadLatest(h)
    BY <2>3, ReadLatestTypes
  <2>4. CASE CreateCurrent(h)
    BY <2>4, CreateCurrentTypes
  <2>5. CASE Fill(h)
    BY <2>5, FillTypes
  <2>6. CASE FillRaises(h)
    BY <2>6, FillRaisesTypes
  <2>7. CASE HydrateBreaksOff(h)
    BY <2>7, HydrateBreaksOffTypes
  <2>8. CASE ForceDropFails(h)
    BY <2>8, ForceDropFailsTypes
  <2> QED
    BY <1>2, <2>1, <2>2, <2>3, <2>4, <2>5, <2>6, <2>7, <2>8, Zenon
       DEF HydrateStep
<1>3. CASE ConsumerStep
  <2>1. CASE DrainEnds
    BY <2>1, DrainEndsTypes
  <2>2. CASE Read
    BY <2>2, ReadTypes
  <2>3. CASE NotPaused
    BY <2>3, NotPausedTypes
  <2>4. CASE Paused
    BY <2>4, PausedTypes
  <2>5. ASSUME NEW m \in Msgs, Apply(m) PROVE TInv'
    BY <2>5, ApplyTypes
  <2>6. CASE ApplyEnds
    BY <2>6, ApplyEndsTypes
  <2>7. CASE TaskFlushes
    BY <2>7, TaskFlushesTypes
  <2>8. CASE Reopen
    BY <2>8, ReopenTypes
  <2>9. CASE StopEnds
    BY <2>9, StopEndsTypes
  <2>10. CASE ConsumerExits
    BY <2>10, ConsumerExitsTypes
  <2> QED
    BY <1>3, <2>1, <2>2, <2>3, <2>4, <2>5, <2>6, <2>7, <2>8, <2>9, <2>10, Zenon DEF ConsumerStep
<1>4. CASE Start
  BY <1>4, StartTypes
<1>5. CASE Stop
  BY <1>5, StopTypes
<1>6. CASE ConsumerCrashes
  BY <1>6, ConsumerCrashesTypes
<1>7. CASE Write
  BY <1>7, WriteTypes
<1>8. CASE ServerCloses
  BY <1>8, ServerClosesTypes
<1>9. CASE Reap
  BY <1>9, ReapTypes
<1>10. CASE OperatorDrops
  BY <1>10, OperatorDropsTypes
<1>11. CASE LockExpires
  BY <1>11, LockExpiresTypes
<1>12. CASE PauseExpires
  BY <1>12, PauseExpiresTypes
<1>13. CASE LockExpiresEarly
  BY <1>13, LockExpiresEarlyTypes
<1>14. CASE PauseExpiresEarly
  BY <1>14, PauseExpiresEarlyTypes
<1>15. CASE LivenessExpires
  BY <1>15, LivenessExpiresTypes
<1>16. CASE UNCHANGED vars
  BY <1>16 DEF vars, segVars, keyVars, walVars, upVars, hydVars, conVars,
     TInv, TypeOK, TypeSegments, TypeKeys, TypeWal, TypeUpgrade, TypeHydrate, TypeConsumer,
     VersionsOK, ConsumerOK, LocalsOK
<1> QED
  BY <1>1, <1>2, <1>3, <1>4, <1>5, <1>6, <1>7, <1>8, <1>9, <1>10, <1>11, <1>12, <1>13,
     <1>14, <1>15, <1>16, Zenon DEF Next

\* For every constant, every fault and with or without the runbook: the state keeps its
\* types, and what the consumer has in hand is pending.
THEOREM TypeCorrect == Spec => []TypeOK
<1>1. TInv => TypeOK
  BY DEF TInv
<1> QED
  BY <1>1, InitTypes, NextTypes, PTL DEF Spec

LEMMA InitPointer == Init => PInv
<1> SUFFICES ASSUME Init PROVE PInv
  OBVIOUS
<1>1. 1 \in Segs
  BY ConstantsAssumption DEF Segs
<1>2. PointerIsLive
  BY <1>1 DEF Init, PointerIsLive, Abandoned
<1>3. NewDistinct /\ NewUnnamed /\ NewHeld
  BY DEF Init, NewDistinct, NewUnnamed, NewHeld
<1> QED
  BY <1>2, <1>3 DEF PInv

LEMMA PointerFrame ==
    ASSUME PInv, UNCHANGED <<upc, old, new, hseg, current, linked, refs>>, PartialsStay
    PROVE  PInv'
  BY DEF PInv, NewDistinct, NewUnnamed, NewHeld, PointerIsLive, Abandoned, PartialsStay

LEMMA NextPointer == "reply" \notin Faults /\ TInv /\ PInv /\ [Next]_vars => PInv'
<1> SUFFICES ASSUME "reply" \notin Faults, TInv, PInv, [Next]_vars
             PROVE  PInv'
  OBVIOUS
<1>1. ASSUME NEW o \in Upgraders, Acquire(o) \/ UpgradeStep(o) \/ UpgradeFault(o)
      PROVE  PInv'
  <2>1. CASE Acquire(o)
    BY <2>1, AcquirePointer
  <2>2. CASE CheckPending(o)
    BY <2>2, CheckPendingPointer
  <2>3. CASE CheckLiveness(o)
    BY <2>3, CheckLivenessPointer
  <2>4. CASE CheckLivenessRaises(o)
    BY <2>4, CheckLivenessRaisesPointer
  <2>5. CASE SetPause(o)
    BY <2>5, SetPausePointer
  <2>6. CASE OpenOld(o)
    BY <2>6, OpenOldPointer
  <2>7. CASE CreateNew(o)
    BY <2>7, CreateNewPointer
  <2>8. CASE Copy(o)
    BY <2>8, CopyPointer
  <2>9. CASE Flip(o)
    BY <2>9, FlipPointer
  <2>10. CASE FlipReplyLost(o)
    BY <2>10, ConstantsAssumption DEF FlipReplyLost, Spend
  <2>11. CASE ClearPause(o)
    BY <2>11, ClearPausePointer
  <2>12. CASE WaitEnds(o)
    BY <2>12, WaitEndsPointer
  <2>13. CASE Raise(o)
    BY <2>13, RaisePointer
  <2>14. CASE CleanupOrphan(o)
    BY <2>14, CleanupOrphanPointer
  <2>15. CASE CloseOld(o)
    BY <2>15, CloseOldPointer
  <2>16. CASE ReleaseLock(o)
    BY <2>16, ReleaseLockPointer
  <2>17. CASE DeletePause(o)
    BY <2>17, DeletePausePointer
  <2>18. CASE UpgraderDies(o)
    BY <2>18, UpgraderDiesPointer
  <2>19. CASE Suppressed(o)
    BY <2>19, SuppressedPointer
  <2>20. CASE CleanupOrphanFails(o)
    BY <2>20, CleanupOrphanFailsPointer
  <2> QED
    BY <1>1, <2>1, <2>2, <2>3, <2>4, <2>5, <2>6, <2>7, <2>8, <2>9, <2>10, <2>11, <2>12,
       <2>13, <2>14, <2>15, <2>16, <2>17, <2>18, <2>19, <2>20, Zenon
       DEF UpgradeStep, UpgradeFault
<1>2. ASSUME NEW h \in Hydrators, HydrateStep(h)
      PROVE  PInv'
  <2>1. CASE CheckCurrent(h)
    BY <2>1, PointerFrame DEF CheckCurrent, HGo, PartialsStay, TInv, TypeOK, TypeHydrate, segVars, keyVars, walVars, upVars, conVars
  <2>2. CASE CheckConsumer(h)
    BY <2>2, PointerFrame DEF CheckConsumer, HGo, PartialsStay, TInv, TypeOK, TypeHydrate, segVars, keyVars, walVars, upVars, conVars
  <2>3. CASE ReadLatest(h)
    BY <2>3, PointerFrame DEF ReadLatest, HGo, PartialsStay, TInv, TypeOK, TypeHydrate, segVars, keyVars, walVars, upVars, conVars
  <2>4. CASE CreateCurrent(h)
    BY <2>4, CreateCurrentPointer
  <2>5. CASE Fill(h)
    BY <2>5, FillPointer
  <2>6. CASE FillRaises(h)
    BY <2>6, FillRaisesPointer
  <2>7. CASE HydrateBreaksOff(h)
    BY <2>7, HydrateBreaksOffPointer
  <2>8. CASE ForceDropFails(h)
    BY <2>8, ForceDropFailsPointer
  <2> QED
    BY <1>2, <2>1, <2>2, <2>3, <2>4, <2>5, <2>6, <2>7, <2>8, Zenon
       DEF HydrateStep
<1>3. CASE ConsumerStep
  <2>1. CASE DrainEnds
    BY <2>1, PointerFrame DEF PartialsStay, DrainEnds, segVars, keyVars, upVars, hydVars
  <2>2. CASE Read
    BY <2>2, PointerFrame DEF PartialsStay, Read, segVars, keyVars, upVars, hydVars
  <2>3. CASE NotPaused
    BY <2>3, PointerFrame DEF PartialsStay, NotPaused, segVars, keyVars, upVars, hydVars
  <2>4. CASE Paused
    BY <2>4, PointerFrame DEF PartialsStay, Paused, FlushAndAck, segVars, keyVars, upVars, hydVars
  <2>5. ASSUME NEW m \in Msgs, Apply(m) PROVE PInv'
    BY <2>5, PointerFrame DEF PartialsStay, Apply, keyVars, walVars, upVars, hydVars
  <2>6. CASE ApplyEnds
    BY <2>6, PointerFrame DEF PartialsStay, ApplyEnds, segVars, keyVars, walVars, upVars, hydVars
  <2>7. CASE TaskFlushes
    BY <2>7, PointerFrame DEF PartialsStay, TaskFlushes, FlushAndAck, segVars, keyVars, upVars, hydVars
  <2>8. CASE Reopen
    BY <2>8, ReopenPointer
  <2>9. CASE StopEnds
    BY <2>9, PointerFrame DEF PartialsStay, StopEnds, FlushAndAck, segVars, keyVars, upVars, hydVars
  <2>10. CASE ConsumerExits
    BY <2>10, ConsumerExitsPointer
  <2> QED
    BY <1>3, <2>1, <2>2, <2>3, <2>4, <2>5, <2>6, <2>7, <2>8, <2>9, <2>10, Zenon DEF ConsumerStep
<1>4. CASE Start
  BY <1>4, StartPointer
<1>5. CASE Stop
  BY <1>5, PointerFrame DEF PartialsStay, Stop, segVars, keyVars, walVars, upVars, hydVars
<1>6. CASE ConsumerCrashes
  BY <1>6, ConsumerCrashesPointer
<1>7. CASE Write
  BY <1>7, PointerFrame DEF PartialsStay, Write, segVars, keyVars, upVars, hydVars, conVars
<1>8. CASE ServerCloses
  BY <1>8, ServerClosesPointer
<1>9. CASE Reap
  BY <1>9, ReapPointer
<1>10. CASE OperatorDrops
  BY <1>10, OperatorDropsPointer
<1>11. CASE LockExpires
  BY <1>11, PointerFrame DEF PartialsStay, LockExpires, segVars, walVars, upVars, hydVars, conVars
<1>12. CASE PauseExpires
  BY <1>12, PointerFrame DEF PartialsStay, PauseExpires, segVars, walVars, upVars, hydVars, conVars
<1>13. CASE LockExpiresEarly
  BY <1>13, PointerFrame DEF PartialsStay, LockExpiresEarly, Spend, segVars, walVars, upVars, hydVars, conVars
<1>14. CASE PauseExpiresEarly
  BY <1>14, PointerFrame DEF PartialsStay, PauseExpiresEarly, Spend, segVars, walVars, upVars, hydVars, conVars
<1>15. CASE LivenessExpires
  BY <1>15, PointerFrame DEF PartialsStay, LivenessExpires, Spend, segVars, keyVars, upVars, hydVars, conVars
<1>16. CASE UNCHANGED vars
  BY <1>16, PointerFrame DEF PartialsStay, vars, segVars, keyVars, walVars, upVars, hydVars, conVars
<1> QED
  BY <1>1, <1>2, <1>3, <1>4, <1>5, <1>6, <1>7, <1>8, <1>9, <1>10, <1>11, <1>12, <1>13,
     <1>14, <1>15, <1>16, Zenon DEF Next

\* Unless the reply of a flip is lost, schema:current never names a segment that nobody
\* holds, and one that is gone only when the cleanup of a failed hydration failed: in any
\* interleaving of upgrades, hydrations, kills, cleanups that fail half way, closes,
\* crashes and expiries, whether or not operators keep to the runbook.
THEOREM PointerStaysLive ==
    ASSUME "reply" \notin Faults
    PROVE  Spec => []PointerIsLive
<1>1. Init => TInv /\ PInv
  BY InitTypes, InitPointer
<1>2. TInv /\ PInv /\ [Next]_vars => (TInv /\ PInv)'
  BY NextTypes, NextPointer
<1>3. TInv /\ PInv => PointerIsLive
  BY DEF PInv
<1> QED
  BY <1>1, <1>2, <1>3, PTL DEF Spec

LEMMA InitRows == Init => RInv
<1> SUFFICES ASSUME Init PROVE RInv
  OBVIOUS
<1>1. Acked = {}
  BY DEF Init, Acked
<1>2. LiveOK /\ QuietOK /\ HydrateAlone /\ HydrateTarget /\ HydrateReads
  BY DEF Init, LiveOK, QuietOK, HydrateAlone, HydrateTarget, HydrateReads, Hydrating, Unfinished
<1>3. ServingOK /\ DoneOK /\ CopyOK
  BY DEF Init, ServingOK, Serving, DoneOK, CopyOK
<1>4. StoredOK /\ RowsSurvive
  BY <1>1 DEF StoredOK, RowsSurvive
<1> QED
  BY <1>2, <1>3, <1>4 DEF RInv

LEMMA RowsFrame ==
    ASSUME RInv, UNCHANGED <<upc, old, new, hseg, hpc, latest, current, refs, rows, cursor,
                             pel, stored, cpc, cseg, live, done>>
    PROVE  RInv'
<1>1. LiveOK' /\ QuietOK' /\ ServingOK' /\ DoneOK'
  BY DEF RInv, LiveOK, QuietOK, Still, ServingOK, Serving, DoneOK
<1>2. HydrateAlone' /\ HydrateTarget' /\ HydrateReads'
  BY DEF RInv, HydrateAlone, Hydrating, Unfinished, HydrateTarget, HydrateReads, Acked
<1>3. CopyOK' /\ StoredOK' /\ RowsSurvive'
  BY DEF RInv, CopyOK, StoredOK, RowsSurvive, Up, PartFilled, Acked
<1> QED
  BY <1>1, <1>2, <1>3 DEF RInv

LEMMA NextRows == Orderly /\ TInv /\ PInv /\ RInv /\ [Next]_vars => RInv'
<1> SUFFICES ASSUME Orderly, TInv, PInv, RInv, [Next]_vars
             PROVE  RInv'
  OBVIOUS
<1>1. ASSUME NEW o \in Upgraders, Acquire(o) \/ UpgradeStep(o) \/ UpgradeFault(o)
      PROVE  RInv'
  <2>1. CASE Acquire(o)
    BY <2>1, AcquireRows
  <2>2. CASE CheckPending(o)
    BY <2>2, CheckPendingRows
  <2>3. CASE CheckLiveness(o)
    BY <2>3, CheckLivenessRows
  <2>4. CASE CheckLivenessRaises(o)
    BY <2>4, CheckLivenessRaisesRows
  <2>5. CASE SetPause(o)
    BY <2>5, SetPauseRows
  <2>6. CASE OpenOld(o)
    BY <2>6, OpenOldRows
  <2>7. CASE CreateNew(o)
    BY <2>7, CreateNewRows
  <2>8. CASE Copy(o)
    BY <2>8, CopyRows
  <2>9. CASE Flip(o)
    BY <2>9, FlipRows
  <2>10. CASE FlipReplyLost(o)
    BY <2>10, ConstantsAssumption DEF FlipReplyLost, Spend, Orderly
  <2>11. CASE ClearPause(o)
    BY <2>11, ClearPauseRows
  <2>12. CASE WaitEnds(o)
    BY <2>12, WaitEndsRows
  <2>13. CASE Raise(o)
    BY <2>13, RaiseRows
  <2>14. CASE CleanupOrphan(o)
    BY <2>14, CleanupOrphanRows
  <2>15. CASE CloseOld(o)
    BY <2>15, CloseOldRows
  <2>16. CASE ReleaseLock(o)
    BY <2>16, ReleaseLockRows
  <2>17. CASE DeletePause(o)
    BY <2>17, DeletePauseRows
  <2>18. CASE UpgraderDies(o)
    BY <2>18, UpgraderDiesRows
  <2>19. CASE Suppressed(o)
    BY <2>19, SuppressedRows
  <2>20. CASE CleanupOrphanFails(o)
    BY <2>20, CleanupOrphanFailsRows
  <2> QED
    BY <1>1, <2>1, <2>2, <2>3, <2>4, <2>5, <2>6, <2>7, <2>8, <2>9, <2>10, <2>11, <2>12,
       <2>13, <2>14, <2>15, <2>16, <2>17, <2>18, <2>19, <2>20, Zenon
       DEF UpgradeStep, UpgradeFault
<1>2. ASSUME NEW h \in Hydrators, HydrateStep(h)
      PROVE  RInv'
  <2>1. CASE CheckCurrent(h)
    BY <2>1, CheckCurrentRows
  <2>2. CASE CheckConsumer(h)
    BY <2>2, CheckConsumerRows
  <2>3. CASE ReadLatest(h)
    BY <2>3, ReadLatestRows
  <2>4. CASE CreateCurrent(h)
    BY <2>4, CreateCurrentRows
  <2>5. CASE Fill(h)
    BY <2>5, FillRows
  <2>6. CASE FillRaises(h)
    BY <2>6, FillRaisesRows
  <2>7. CASE HydrateBreaksOff(h)
    BY <2>7, HydrateBreaksOffRows
  <2>8. CASE ForceDropFails(h)
    BY <2>8, ForceDropFailsRows
  <2> QED
    BY <1>2, <2>1, <2>2, <2>3, <2>4, <2>5, <2>6, <2>7, <2>8, Zenon
       DEF HydrateStep
<1>3. CASE ConsumerStep
  <2>1. CASE DrainEnds
    BY <2>1, DrainEndsRows
  <2>2. CASE Read
    BY <2>2, ReadRows
  <2>3. CASE NotPaused
    BY <2>3, NotPausedRows
  <2>4. CASE Paused
    BY <2>4, PausedRows
  <2>5. ASSUME NEW m \in Msgs, Apply(m) PROVE RInv'
    BY <2>5, ApplyRows
  <2>6. CASE ApplyEnds
    BY <2>6, ApplyEndsRows
  <2>7. CASE TaskFlushes
    BY <2>7, TaskFlushesRows
  <2>8. CASE Reopen
    BY <2>8, ReopenRows
  <2>9. CASE StopEnds
    BY <2>9, StopEndsRows
  <2>10. CASE ConsumerExits
    BY <2>10, ConsumerExitsRows
  <2> QED
    BY <1>3, <2>1, <2>2, <2>3, <2>4, <2>5, <2>6, <2>7, <2>8, <2>9, <2>10, Zenon DEF ConsumerStep
<1>4. CASE Start
  BY <1>4, StartRows
<1>5. CASE Stop
  BY <1>5, StopRows
<1>6. CASE ConsumerCrashes
  BY <1>6, ConsumerCrashesRows
<1>7. CASE Write
  BY <1>7, RowsFrame DEF Write, segVars, keyVars, upVars, hydVars, conVars
<1>8. CASE ServerCloses
  BY <1>8, ServerClosesRows
<1>9. CASE Reap
  BY <1>9, ReapRows
<1>10. CASE OperatorDrops
  BY <1>10, ConstantsAssumption DEF OperatorDrops, Spend, Orderly
<1>11. CASE LockExpires
  BY <1>11, RowsFrame DEF LockExpires, segVars, walVars, upVars, hydVars, conVars
<1>12. CASE PauseExpires
  BY <1>12, RowsFrame DEF PauseExpires, segVars, walVars, upVars, hydVars, conVars
<1>13. CASE LockExpiresEarly
  BY <1>13, RowsFrame DEF LockExpiresEarly, Spend, segVars, walVars, upVars, hydVars, conVars
<1>14. CASE PauseExpiresEarly
  BY <1>14, RowsFrame DEF PauseExpiresEarly, Spend, segVars, walVars, upVars, hydVars, conVars
<1>15. CASE LivenessExpires
  BY <1>15, LivenessExpiresRows
<1>16. CASE UNCHANGED vars
  BY <1>16, RowsFrame DEF vars, segVars, keyVars, walVars, upVars, hydVars, conVars
<1> QED
  BY <1>1, <1>2, <1>3, <1>4, <1>5, <1>6, <1>7, <1>8, <1>9, <1>10, <1>11, <1>12, <1>13,
     <1>14, <1>15, <1>16, Zenon DEF Next

\* When operators keep to the runbook, whatever is acknowledged is in the segment that
\* readers open, through any number of upgrades, hydrations, exceptions, kills of either,
\* failed cleanups, crashes and expired locks.
THEOREM AckedRowsSurvive ==
    ASSUME Orderly
    PROVE  Spec => []RowsSurvive
<1>1. "reply" \notin Faults
  BY DEF Orderly
<1>2. Init => TInv /\ PInv /\ RInv
  BY InitTypes, InitPointer, InitRows
<1>3. TInv /\ PInv /\ RInv /\ [Next]_vars => (TInv /\ PInv /\ RInv)'
  BY <1>1, NextTypes, NextPointer, NextRows
<1>4. TInv /\ PInv /\ RInv => RowsSurvive
  BY DEF RInv
<1> QED
  BY <1>2, <1>3, <1>4, PTL DEF Spec

LEMMA InitOnline == Init => Online!Init
<1> SUFFICES ASSUME Init PROVE Online!Init
  OBVIOUS
<1>1. Up = TRUE /\ Acked = {}
  BY DEF Init, Up, PartFilled, Acked
<1>2. rows[current] = {} /\ refs[current] # {}
  <2>1. current = 1 /\ 1 \in Segs
    BY ConstantsAssumption DEF Init, Segs
  <2>2. rows[1] = {} /\ refs[1] = {"server"}
    BY <2>1 DEF Init
  <2> QED
    BY <2>1, <2>2
<1> QED
  BY <1>1, <1>2 DEF Online!Init

LEMMA NextOnline ==
    Orderly /\ TInv /\ PInv /\ RInv /\ [Next]_vars => [Online!Next]_(Online!vars)
<1> SUFFICES ASSUME Orderly, TInv, PInv, RInv, [Next]_vars
             PROVE  [Online!Next]_(Online!vars)
  OBVIOUS
<1>0. PointerIsLive'
  BY NextPointer DEF Orderly, PInv
<1>1. ASSUME NEW o \in Upgraders, Acquire(o) \/ UpgradeStep(o) \/ UpgradeFault(o)
      PROVE  [Online!Next]_(Online!vars)
  <2>1. CASE Acquire(o)
    BY <1>0, <2>1, OnlineFrame DEF Acquire, Go, segVars, walVars, hydVars, conVars
  <2>2. CASE CheckPending(o)
    BY <1>0, <2>2, OnlineFrame DEF CheckPending, Go, ReleaseIfOwned, Spend, segVars, walVars, hydVars, conVars
  <2>3. CASE CheckLiveness(o)
    BY <1>0, <2>3, OnlineFrame DEF CheckLiveness, Go, ReleaseIfOwned, segVars, walVars, hydVars, conVars
  <2>4. CASE CheckLivenessRaises(o)
    BY <1>0, <2>4, OnlineFrame DEF CheckLivenessRaises, Go, Spend, segVars, keyVars, walVars, hydVars, conVars
  <2>5. CASE SetPause(o)
    BY <1>0, <2>5, OnlineFrame DEF SetPause, Go, segVars, walVars, hydVars, conVars
  <2>6. CASE OpenOld(o)
    BY <1>0, <2>6, OnlineFrame DEF OpenOld, Go, OpenSegment, CanOpen, keyVars, walVars, hydVars, conVars
  <2>7. CASE CreateNew(o)
    BY <1>0, <2>7, CreateNewOnline
  <2>8. CASE Copy(o)
    BY <1>0, <2>8, CopyOnline
  <2>9. CASE Flip(o)
    BY <1>0, <2>9, FlipOnline
  <2>10. CASE FlipReplyLost(o)
    BY <2>10, ConstantsAssumption DEF FlipReplyLost, Spend, Orderly
  <2>11. CASE ClearPause(o)
    BY <1>0, <2>11, OnlineFrame DEF ClearPause, Go, segVars, walVars, hydVars, conVars
  <2>12. CASE WaitEnds(o)
    BY <1>0, <2>12, OnlineFrame DEF WaitEnds, Go, segVars, keyVars, walVars, hydVars, conVars
  <2>13. CASE Raise(o)
    BY <1>0, <2>13, OnlineFrame DEF Raise, Go, Spend, segVars, keyVars, walVars, hydVars, conVars
  <2>14. CASE CleanupOrphan(o)
    BY <1>0, <2>14, OnlineFrame DEF CleanupOrphan, Go, keyVars, walVars, hydVars, conVars
  <2>15. CASE CloseOld(o)
    BY <1>0, <2>15, CloseOldOnline
  <2>16. CASE ReleaseLock(o)
    BY <1>0, <2>16, OnlineFrame DEF ReleaseLock, Go, ReleaseIfOwned, segVars, walVars, hydVars, conVars
  <2>17. CASE DeletePause(o)
    BY <1>0, <2>17, OnlineFrame DEF DeletePause, Go, LeaveRefs, Forget, walVars, hydVars, conVars
  <2>18. CASE UpgraderDies(o)
    BY <1>0, <2>18, OnlineFrame DEF UpgraderDies, Go, Spend, LeaveRefs, Forget, Active, keyVars, walVars, hydVars,
       conVars
  <2>19. CASE Suppressed(o)
    BY <1>0, <2>19, OnlineFrame DEF Suppressed, Go, Spend, segVars, keyVars, walVars, hydVars, conVars
  <2>20. CASE CleanupOrphanFails(o)
    BY <1>0, <2>20, OnlineFrame DEF CleanupOrphanFails, Go, Spend, keyVars, walVars, hydVars, conVars
  <2> QED
    BY <1>1, <2>1, <2>2, <2>3, <2>4, <2>5, <2>6, <2>7, <2>8, <2>9, <2>10, <2>11, <2>12,
       <2>13, <2>14, <2>15, <2>16, <2>17, <2>18, <2>19, <2>20, Zenon
       DEF UpgradeStep, UpgradeFault
<1>2. ASSUME NEW h \in Hydrators, HydrateStep(h)
      PROVE  [Online!Next]_(Online!vars)
  <2>1. CASE CheckCurrent(h)
    BY <1>0, <2>1, CheckCurrentOnline
  <2>2. CASE CheckConsumer(h)
    BY <1>0, <2>2, CheckConsumerOnline
  <2>3. CASE ReadLatest(h)
    BY <1>0, <2>3, ReadLatestOnline
  <2>4. CASE CreateCurrent(h)
    BY <1>0, <2>4, CreateCurrentOnline
  <2>5. CASE Fill(h)
    BY <1>0, <2>5, FillOnline
  <2>6. CASE FillRaises(h)
    BY <1>0, <2>6, FillRaisesOnline
  <2>7. CASE HydrateBreaksOff(h)
    BY <1>0, <2>7, HydrateBreaksOffOnline
  <2>8. CASE ForceDropFails(h)
    BY <1>0, <2>8, ForceDropFailsOnline
  <2> QED
    BY <1>2, <2>1, <2>2, <2>3, <2>4, <2>5, <2>6, <2>7, <2>8, Zenon
       DEF HydrateStep
<1>3. CASE ConsumerStep
  <2>1. CASE DrainEnds
    BY <1>0, <2>1, OnlineFrame DEF DrainEnds, segVars, keyVars, upVars, hydVars
  <2>2. CASE Read
    BY <1>0, <2>2, ReadOnline
  <2>3. CASE NotPaused
    BY <1>0, <2>3, OnlineFrame DEF NotPaused, segVars, keyVars, upVars, hydVars
  <2>4. CASE Paused
    BY <1>0, <2>4, PausedOnline
  <2>5. ASSUME NEW m \in Msgs, Apply(m) PROVE [Online!Next]_(Online!vars)
    BY <1>0, <2>5, ApplyOnline
  <2>6. CASE ApplyEnds
    BY <1>0, <2>6, OnlineFrame DEF ApplyEnds, segVars, keyVars, walVars, upVars, hydVars
  <2>7. CASE TaskFlushes
    BY <1>0, <2>7, TaskFlushesOnline
  <2>8. CASE Reopen
    BY <1>0, <2>8, OnlineFrame DEF Reopen, keyVars, walVars, upVars, hydVars
  <2>9. CASE StopEnds
    BY <1>0, <2>9, StopEndsOnline
  <2>10. CASE ConsumerExits
    BY <1>0, <2>10, ConsumerExitsOnline
  <2> QED
    BY <1>3, <2>1, <2>2, <2>3, <2>4, <2>5, <2>6, <2>7, <2>8, <2>9, <2>10, Zenon DEF ConsumerStep
<1>4. CASE Start
  BY <1>0, <1>4, OnlineFrame DEF Start, OpenSegment, CanOpen, keyVars, walVars, upVars, hydVars
<1>5. CASE Stop
  BY <1>0, <1>5, OnlineFrame DEF Stop, segVars, keyVars, walVars, upVars, hydVars
<1>6. CASE ConsumerCrashes
  BY <1>0, <1>6, OnlineFrame DEF ConsumerCrashes, Spend, LeaveRefs, keyVars, walVars, upVars, hydVars
<1>7. CASE Write
  BY <1>0, <1>7, OnlineFrame DEF Write, segVars, keyVars, upVars, hydVars, conVars
<1>8. CASE ServerCloses
  BY <1>0, <1>8, ServerClosesOnline
<1>9. CASE Reap
  BY <1>0, <1>9, ReapOnline
<1>10. CASE OperatorDrops
  BY <1>10, ConstantsAssumption DEF OperatorDrops, Spend, Orderly
<1>11. CASE LockExpires
  BY <1>0, <1>11, OnlineFrame DEF LockExpires, segVars, walVars, upVars, hydVars, conVars
<1>12. CASE PauseExpires
  BY <1>0, <1>12, OnlineFrame DEF PauseExpires, segVars, walVars, upVars, hydVars, conVars
<1>13. CASE LockExpiresEarly
  BY <1>0, <1>13, OnlineFrame DEF LockExpiresEarly, Spend, segVars, walVars, upVars, hydVars, conVars
<1>14. CASE PauseExpiresEarly
  BY <1>0, <1>14, OnlineFrame DEF PauseExpiresEarly, Spend, segVars, walVars, upVars, hydVars, conVars
<1>15. CASE LivenessExpires
  BY <1>0, <1>15, OnlineFrame DEF LivenessExpires, Spend, segVars, keyVars, upVars, hydVars, conVars
<1>16. CASE UNCHANGED vars
  BY <1>0, <1>16, OnlineFrame DEF vars, segVars, keyVars, walVars, upVars, hydVars, conVars
<1> QED
  BY <1>1, <1>2, <1>3, <1>4, <1>5, <1>6, <1>7, <1>8, <1>9, <1>10, <1>11, <1>12, <1>13,
     <1>14, <1>15, <1>16, Zenon DEF Next

\* The segments, pointers and processes implement the online store: every step of an
\* upgrade, a hydration (a killed one and a cleanup that fails included), the consumer or
\* the watchdog is a step that OnlineStore allows its readers to see, or one they cannot
\* see.
THEOREM StoreIsImplemented ==
    ASSUME Orderly
    PROVE  Spec => ImplementsOnlineStore
<1>1. "reply" \notin Faults
  BY DEF Orderly
<1>2. Init => TInv /\ PInv /\ RInv
  BY InitTypes, InitPointer, InitRows
<1>3. TInv /\ PInv /\ RInv /\ [Next]_vars => (TInv /\ PInv /\ RInv)'
  BY <1>1, NextTypes, NextPointer, NextRows
<1>4. Init => Online!Init
  BY InitOnline
<1>5. TInv /\ PInv /\ RInv /\ [Next]_vars => [Online!Next]_(Online!vars)
  BY NextOnline
<1> QED
  BY <1>2, <1>3, <1>4, <1>5, PTL DEF Spec, ImplementsOnlineStore, Online!Spec

================================================================================
