------------------------------- MODULE WalProofs -------------------------------
(*****************************************************************************)
(* The deferred-XACK argument of Wal, for every stream length, batch size,   *)
(* pending limit, set of poison messages and number of faults.               *)
(*****************************************************************************)
EXTENDS Wal, FiniteSetTheorems, TLAPS

\* What makes NothingLost inductive: an id the consumer will acknowledge names a
\* row that is in the offline buffer or on disk, and an id whose XACK is in
\* flight names a row on disk.
AckBacked ==
    /\ Range(pending) \subseteq buffered \cup durable
    /\ Range(applied) \subseteq buffered \cup durable
    /\ Range(mainSnap) \subseteq durable
    /\ Range(taskSnap) \subseteq durable

IInv == TypeOK /\ AckBacked /\ NothingLost

--------------------------------------------------------------------------------
(* Facts about the helpers *)

\* The entries a page leaves out are newer than those it returns: no undelivered
\* entry lies below the newest one that XREADGROUP delivers.
LEMMA PageIsPrefix ==
    ASSUME NEW n \in Nat, NEW S \in SUBSET (1..n), NEW k \in Nat,
           NEW m \in Page(S, k), NEW x \in S, x <= m
    PROVE  x \in Page(S, k)
<1> DEFINE Below(y) == {z \in S : z < y}
<1>0. m \in Int /\ x \in Int /\ n \in Int /\ \A z \in S : z \in Int
  BY DEF Page
<1>1. IsFiniteSet(S)
  <2>1. IsFiniteSet(1..n)
    BY <1>0, FS_Interval
  <2> QED
    BY <2>1, FS_Subset
<1>2. IsFiniteSet(Below(m)) /\ Below(x) \subseteq Below(m)
  <2>1. Below(m) \subseteq S
    OBVIOUS
  <2>2. ASSUME NEW z \in Below(x) PROVE z \in Below(m)
    BY <1>0
  <2> QED
    BY <1>1, <2>1, <2>2, FS_Subset
<1>3. Cardinality(Below(x)) <= Cardinality(Below(m))
  BY <1>2, FS_Subset
<1>4. Cardinality(Below(m)) < k
  BY DEF Page
<1>5. Cardinality(Below(x)) \in Nat /\ Cardinality(Below(m)) \in Nat
  BY <1>2, FS_Subset, FS_CardinalityType
<1>6. Cardinality(Below(x)) < k
  BY <1>3, <1>4, <1>5
<1> QED
  BY <1>6 DEF Page

\* del pending[:len(snapshot)] invents no id.
LEMMA TrimRange ==
    ASSUME NEW S, NEW s \in Seq(S), NEW t \in Seq(S)
    PROVE  /\ TrimPrefix(s, t) \in Seq(S)
           /\ Range(TrimPrefix(s, t)) \subseteq Range(s)
<1>1. Len(s) \in Nat /\ Len(t) \in Nat
  OBVIOUS
<1>2. \A i \in Len(t) + 1 .. Len(s) : i \in 1..Len(s) /\ s[i] \in S
  BY <1>1
<1> QED
  BY <1>1, <1>2 DEF TrimPrefix, Range

\* The empty snapshot.
LEMMA EmptySeq == ASSUME NEW S PROVE <<>> \in Seq(S)
OBVIOUS

\* A pipeline that breaks has SET keys of the batch only.
LEMMA PrefixRange ==
    ASSUME NEW S, NEW s \in Seq(S), NEW k \in 0..Len(s)
    PROVE  Range(SubSeq(s, 1, k)) \subseteq S
<1>1. \A i \in 1..k : i \in 1..Len(s) /\ s[i] \in S
  OBVIOUS
<1> QED
  BY <1>1 DEF Range

\* A page holds entries of what it was read from.
LEMMA PageSubset == ASSUME NEW S, NEW k PROVE Page(S, k) \subseteq S
BY DEF Page

\* pending_ack.extend(applied).
LEMMA ConcatRange ==
    ASSUME NEW S, NEW s \in Seq(S), NEW t \in Seq(S)
    PROVE  s \o t \in Seq(S) /\ Range(s \o t) \subseteq Range(s) \cup Range(t)
BY DEF Range

\* applied.append(id).
LEMMA AppendRange ==
    ASSUME NEW S, NEW s \in Seq(S), NEW x \in S
    PROVE  Append(s, x) \in Seq(S) /\ Range(Append(s, x)) \subseteq Range(s) \cup {x}
BY DEF Range

\* Nothing is acknowledged by an empty snapshot.
LEMMA EmptyRange == Range(<<>>) = {}
BY DEF Range

\* The ids of a sequence.
LEMMA RangeType ==
    ASSUME NEW S, NEW s \in Seq(S)
    PROVE  Range(s) \subseteq S
BY DEF Range

\* An XADD leaves the sequences of ids well typed.
LEMMA SeqMonotone ==
    ASSUME NEW n \in Nat, NEW k \in Nat, n <= k, NEW s \in Seq(1..n)
    PROVE  s \in Seq(1..k)
OBVIOUS

--------------------------------------------------------------------------------
(* The inductive invariant *)

\* A fault keeps the budget well typed.
LEMMA SpendType ==
    ASSUME budget \in [Faults -> Nat], NEW f \in Faults, Spend(f)
    PROVE  budget' \in [Faults -> Nat]
BY DEF Spend

\* What offline.flush() does to the stores, whether or not it raises: no row
\* leaves them, and when the XACK follows every buffered row is on disk.
LEMMA FlushEffect ==
    ASSUME NEW acking \in BOOLEAN, FlushPending(acking), budget \in [Faults -> Nat]
    PROVE  /\ budget' \in [Faults -> Nat]
           /\ durable \subseteq durable'
           /\ buffered \cup durable = buffered' \cup durable'
           /\ acking => buffered \subseteq durable'
<1>1. budget' \in [Faults -> Nat]
  BY SpendType DEF FlushPending, FlushRaises, Faults
<1> QED
  BY <1>1 DEF FlushPending, FlushOk, FlushRaises

\* A delivery moves the cursor only over entries it makes pending, or that the
\* stream has trimmed.
LEMMA DeliverLosesNothing ==
    ASSUME TypeRedis, NothingLost, UNCHANGED <<last, trimmed, durable>>,
           Deliver({}) \/ Deliver(Page(Undelivered, BatchCount))
    PROVE  NothingLost'
<1>1. /\ cursor \in 0..last /\ trimmed \in 0..last /\ last \in Nat
      /\ pel \subseteq pel'
  BY DEF Deliver, TypeRedis
<1>2. ASSUME NEW m \in 1..last, m > trimmed, m > cursor, ~(m > cursor')
      PROVE  m \in pel'
  <2>1. PICK c \in Page(Undelivered, BatchCount) :
            /\ IsNewest(c, Page(Undelivered, BatchCount))
            /\ cursor' = c /\ pel' = pel \cup Page(Undelivered, BatchCount)
    BY <1>1, <1>2 DEF Deliver
  <2>2. last \in Nat /\ BatchCount \in Nat /\ Undelivered \in SUBSET (1..last)
    BY <1>1, ConstantsAssumption DEF Undelivered
  <2>3. c \in 1..last /\ m \in Undelivered
    BY <1>2, <2>1, <2>2, PageSubset DEF Undelivered
  <2>4. m \in Page(Undelivered, BatchCount)
    BY <1>2, <2>1, <2>2, <2>3, PageIsPrefix
  <2> QED
    BY <2>1, <2>4
<1> QED
  BY <1>1, <1>2 DEF NothingLost

\* What a delivery does to the types of the group.
LEMMA DeliverType ==
    ASSUME TypeRedis, NEW S, S \subseteq 1..last, Deliver({}) \/ Deliver(S)
    PROVE  cursor' \in 0..last /\ pel' \subseteq 1..last
<1>1. cursor' = cursor \/ cursor' \in S
  BY DEF Deliver
<1>2. pel' = pel \/ pel' = pel \cup S
  BY DEF Deliver
<1>3. last \in Nat /\ cursor \in 0..last /\ pel \subseteq 1..last
  BY ConstantsAssumption DEF TypeRedis
<1>4. \A x \in S : x \in 0..last
  BY <1>3
<1> QED
  BY <1>1, <1>2, <1>3, <1>4

\* The empty system satisfies the invariant.
LEMMA InitIInv == Init => IInv
<1> SUFFICES ASSUME Init PROVE IInv
  OBVIOUS
<1>1. TypeRedis /\ TypeStores /\ budget \in [Faults -> Nat]
  BY ConstantsAssumption DEF Init, TypeRedis, TypeStores
<1>2. TypeCoroutine /\ TypeFlushTask
  BY DEF Init, TypeCoroutine, TypeFlushTask, Points
<1>5. TypeFlags
  BY DEF Init, TypeFlags
<1>3. AckBacked
  BY EmptyRange DEF Init, AckBacked
<1>4. NothingLost
  BY DEF Init, NothingLost
<1> QED
  BY <1>1, <1>2, <1>3, <1>4, <1>5 DEF IInv, TypeOK

\* Every step preserves it: one case per action.
LEMMA StepIInv == IInv /\ [Next]_vars => IInv'
<1> SUFFICES ASSUME IInv, [Next]_vars PROVE IInv'
  OBVIOUS
<1> USE DEF IInv, TypeOK, streamVars, groupVars, storeVars, batchVars, ackVars,
            taskVars
<1>1. CASE Write
  <2>1. /\ last' \in 0..MaxMsgs /\ last \in Nat /\ last' = last + 1
        /\ trimmed' \in 0..last' /\ trimmed <= trimmed'
    BY <1>1, ConstantsAssumption DEF Write, TypeRedis
  <2>2. budget' \in [Faults -> Nat]
    BY <1>1 DEF Write
  <2>3. TypeRedis' /\ TypeStores'
    BY <1>1, <2>1 DEF Write, TypeRedis, TypeStores
  <2>4. TypeCoroutine' /\ TypeFlushTask'
    BY <1>1, <2>1, SeqMonotone DEF Write, TypeCoroutine, TypeFlushTask
  <2>5. TypeFlags'
    BY <1>1 DEF Write, TypeFlags
  <2>6. AckBacked'
    BY <1>1 DEF Write, AckBacked
  <2>7. NothingLost'
    BY <1>1, <2>1 DEF Write, TypeRedis, NothingLost
  <2> QED
    BY <2>2, <2>3, <2>4, <2>5, <2>6, <2>7
<1>2. CASE OrchestratorSeesNoPending
  <2>1. budget' \in [Faults -> Nat]
    BY <1>2, SpendType DEF OrchestratorSeesNoPending, Faults
  <2>2. TypeRedis' /\ TypeStores'
    BY <1>2 DEF OrchestratorSeesNoPending, TypeRedis, TypeStores
  <2>3. TypeCoroutine' /\ TypeFlushTask'
    BY <1>2 DEF OrchestratorSeesNoPending, TypeCoroutine, TypeFlushTask,
       Points
  <2>4. TypeFlags'
    BY <1>2 DEF OrchestratorSeesNoPending, TypeFlags
  <2>5. AckBacked'
    BY <1>2 DEF OrchestratorSeesNoPending, AckBacked
  <2>6. NothingLost'
    BY <1>2 DEF OrchestratorSeesNoPending, NothingLost
  <2> QED
    BY <2>1, <2>2, <2>3, <2>4, <2>5, <2>6
<1>3. CASE OrchestratorSeesNoConsumer
  <2>1. TypeRedis' /\ TypeStores'
    BY <1>3 DEF OrchestratorSeesNoConsumer, TypeRedis, TypeStores
  <2>2. TypeCoroutine' /\ TypeFlushTask'
    BY <1>3 DEF OrchestratorSeesNoConsumer, TypeCoroutine, TypeFlushTask, Points
  <2>3. TypeFlags' /\ budget' \in [Faults -> Nat]
    BY <1>3 DEF OrchestratorSeesNoConsumer, TypeFlags
  <2>4. AckBacked' /\ NothingLost'
    BY <1>3 DEF OrchestratorSeesNoConsumer, AckBacked, NothingLost
  <2> QED
    BY <2>1, <2>2, <2>3, <2>4
<1>4. CASE OrchestratorSetsPause
  <2>1. TypeRedis' /\ TypeStores'
    BY <1>4 DEF OrchestratorSetsPause, TypeRedis, TypeStores
  <2>2. TypeCoroutine' /\ TypeFlushTask'
    BY <1>4 DEF OrchestratorSetsPause, TypeCoroutine, TypeFlushTask, Points
  <2>3. TypeFlags' /\ budget' \in [Faults -> Nat]
    BY <1>4 DEF OrchestratorSetsPause, TypeFlags
  <2>4. AckBacked' /\ NothingLost'
    BY <1>4 DEF OrchestratorSetsPause, AckBacked, NothingLost
  <2> QED
    BY <2>1, <2>2, <2>3, <2>4
<1>5. CASE OrchestratorClearsPause
  <2>1. TypeRedis' /\ TypeStores'
    BY <1>5 DEF OrchestratorClearsPause, TypeRedis, TypeStores
  <2>2. TypeCoroutine' /\ TypeFlushTask'
    BY <1>5 DEF OrchestratorClearsPause, TypeCoroutine, TypeFlushTask, Points
  <2>3. TypeFlags' /\ budget' \in [Faults -> Nat]
    BY <1>5 DEF OrchestratorClearsPause, TypeFlags
  <2>4. AckBacked' /\ NothingLost'
    BY <1>5 DEF OrchestratorClearsPause, AckBacked, NothingLost
  <2> QED
    BY <2>1, <2>2, <2>3, <2>4
<1>6. CASE DestroyGroup
  <2>1. budget' \in [Faults -> Nat]
    BY <1>6, SpendType DEF DestroyGroup, Faults
  <2>2. TypeRedis' /\ TypeStores'
    BY <1>6 DEF DestroyGroup, TypeRedis, TypeStores
  <2>3. TypeCoroutine' /\ TypeFlushTask'
    BY <1>6 DEF DestroyGroup, TypeCoroutine, TypeFlushTask, Points
  <2>4. TypeFlags'
    BY <1>6 DEF DestroyGroup, TypeFlags
  <2>5. AckBacked'
    BY <1>6 DEF DestroyGroup, AckBacked
  <2>6. NothingLost'
    BY <1>6 DEF DestroyGroup, TypeRedis, NothingLost
  <2> QED
    BY <2>1, <2>2, <2>3, <2>4, <2>5, <2>6
<1>7. CASE LivenessExpires
  <2>1. TypeRedis' /\ TypeStores'
    BY <1>7 DEF LivenessExpires, TypeRedis, TypeStores
  <2>2. TypeCoroutine' /\ TypeFlushTask'
    BY <1>7 DEF LivenessExpires, TypeCoroutine, TypeFlushTask, Points
  <2>3. TypeFlags' /\ budget' \in [Faults -> Nat]
    BY <1>7 DEF LivenessExpires, TypeFlags
  <2>4. AckBacked' /\ NothingLost'
    BY <1>7 DEF LivenessExpires, AckBacked, NothingLost
  <2> QED
    BY <2>1, <2>2, <2>3, <2>4
<1>8. CASE Start
  <2>1. TypeRedis' /\ TypeStores'
    BY <1>8 DEF Start, TypeRedis, TypeStores
  <2>2. TypeCoroutine' /\ TypeFlushTask'
    BY <1>8, ConstantsAssumption
    DEF Start, TypeRedis, TypeCoroutine, TypeFlushTask, Points
  <2>3. TypeFlags' /\ budget' \in [Faults -> Nat]
    BY <1>8 DEF Start, TypeFlags
  <2>4. AckBacked' /\ NothingLost'
    BY <1>8 DEF Start, AckBacked, NothingLost
  <2> QED
    BY <2>1, <2>2, <2>3, <2>4
<1>9. CASE DrainPage
  <2>1. lastId' \in 0..last' /\ batch' \subseteq 1..last'
    <3> DEFINE own == {m \in pel : m > lastId}
    <3>1. Page(own, BatchCount) \subseteq own
      BY PageSubset
    <3>2. lastId' \in Page(own, BatchCount) /\ batch' \subseteq Page(own, BatchCount)
      BY <1>9 DEF DrainPage
    <3>3. own \subseteq 1..last /\ last' = last
      BY <1>9 DEF DrainPage, TypeRedis
    <3> HIDE DEF own
    <3>4. lastId' \in 1..last /\ batch' \subseteq 1..last
      BY <3>1, <3>2, <3>3
    <3>5. last \in Nat
      BY ConstantsAssumption DEF TypeRedis
    <3> QED
      BY <3>3, <3>4, <3>5
  <2>2. budget' \in [Faults -> Nat]
    BY <1>9 DEF DrainPage
  <2>3. TypeRedis' /\ TypeStores'
    BY <1>9 DEF DrainPage, TypeRedis, TypeStores
  <2>4. TypeCoroutine' /\ TypeFlushTask'
    BY <1>9, <2>1 DEF DrainPage, TypeCoroutine, TypeFlushTask, Points
  <2>5. TypeFlags'
    BY <1>9 DEF DrainPage, TypeFlags
  <2>6. AckBacked'
    BY <1>9 DEF DrainPage, AckBacked
  <2>7. NothingLost'
    BY <1>9 DEF DrainPage, NothingLost
  <2> QED
    BY <2>2, <2>3, <2>4, <2>5, <2>6, <2>7
<1>10. CASE DrainEnds
  <2>1. budget' \in [Faults -> Nat]
    BY <1>10, SpendType DEF DrainEnds, Faults
  <2>2. TypeRedis' /\ TypeStores'
    BY <1>10 DEF DrainEnds, TypeRedis, TypeStores
  <2>3. TypeCoroutine' /\ TypeFlushTask'
    BY <1>10 DEF DrainEnds, TypeCoroutine, TypeFlushTask, Points
  <2>4. TypeFlags'
    BY <1>10 DEF DrainEnds, TypeFlags
  <2>5. AckBacked'
    BY <1>10 DEF DrainEnds, AckBacked
  <2>6. NothingLost'
    BY <1>10 DEF DrainEnds, NothingLost
  <2> QED
    BY <2>1, <2>2, <2>3, <2>4, <2>5, <2>6
<1>11. CASE DrainRaises
  <2>1. TypeRedis' /\ TypeStores'
    BY <1>11 DEF DrainRaises, TypeRedis, TypeStores
  <2>2. TypeCoroutine' /\ TypeFlushTask'
    BY <1>11 DEF DrainRaises, TypeCoroutine, TypeFlushTask, Points
  <2>3. TypeFlags' /\ budget' \in [Faults -> Nat]
    BY <1>11, SpendType DEF DrainRaises, TypeFlags, Faults
  <2>4. AckBacked' /\ NothingLost'
    BY <1>11 DEF DrainRaises, AckBacked, NothingLost
  <2> QED
    BY <2>1, <2>2, <2>3, <2>4
<1>12. CASE ReadNewBatch
  <2>1. Page(Undelivered, BatchCount) \subseteq 1..last
    BY DEF Page, Undelivered
  <2>2. Deliver(Page(Undelivered, BatchCount))
    BY <1>12 DEF ReadNewBatch
  <2>3. cursor' \in 0..last /\ pel' \subseteq 1..last
    BY <2>1, <2>2, DeliverType
  <2>4. budget' \in [Faults -> Nat]
    BY <1>12 DEF ReadNewBatch
  <2>5. TypeRedis' /\ TypeStores'
    BY <1>12, <2>3 DEF ReadNewBatch, TypeRedis, TypeStores
  <2>6. TypeCoroutine' /\ TypeFlushTask'
    BY <1>12, <2>1 DEF ReadNewBatch, TypeCoroutine, TypeFlushTask, Points
  <2>7. TypeFlags'
    BY <1>12 DEF ReadNewBatch, TypeFlags
  <2>8. AckBacked'
    BY <1>12 DEF ReadNewBatch, AckBacked
  <2>9. NothingLost'
    BY <1>12, <2>2, DeliverLosesNothing DEF ReadNewBatch
  <2> QED
    BY <2>4, <2>5, <2>6, <2>7, <2>8, <2>9
<1>13. CASE ReadFindsNoGroup
  <2>1. TypeRedis' /\ TypeStores'
    BY <1>13 DEF ReadFindsNoGroup, TypeRedis, TypeStores
  <2>2. TypeCoroutine' /\ TypeFlushTask'
    BY <1>13 DEF ReadFindsNoGroup, TypeCoroutine, TypeFlushTask, Points
  <2>3. TypeFlags' /\ budget' \in [Faults -> Nat]
    BY <1>13 DEF ReadFindsNoGroup, TypeFlags
  <2>4. AckBacked' /\ NothingLost'
    BY <1>13 DEF ReadFindsNoGroup, AckBacked, NothingLost
  <2> QED
    BY <2>1, <2>2, <2>3, <2>4
<1>14. CASE ReadRaises
  <2>1. Page(Undelivered, BatchCount) \subseteq 1..last
    BY DEF Page, Undelivered
  <2>2. Deliver({}) \/ Deliver(Page(Undelivered, BatchCount))
    BY <1>14 DEF ReadRaises
  <2>3. cursor' \in 0..last /\ pel' \subseteq 1..last
    BY <2>1, <2>2, DeliverType
  <2>4. budget' \in [Faults -> Nat]
    BY <1>14, SpendType DEF ReadRaises, Faults
  <2>5. TypeRedis' /\ TypeStores'
    BY <1>14, <2>3 DEF ReadRaises, TypeRedis, TypeStores
  <2>6. TypeCoroutine' /\ TypeFlushTask'
    BY <1>14 DEF ReadRaises, TypeCoroutine, TypeFlushTask, Points
  <2>7. TypeFlags'
    BY <1>14 DEF ReadRaises, TypeFlags
  <2>8. AckBacked'
    BY <1>14 DEF ReadRaises, AckBacked
  <2>9. NothingLost'
    BY <1>14, <2>2, DeliverLosesNothing DEF ReadRaises
  <2> QED
    BY <2>4, <2>5, <2>6, <2>7, <2>8, <2>9
<1>15. CASE NotPaused
  <2>1. TypeRedis' /\ TypeStores'
    BY <1>15 DEF NotPaused, TypeRedis, TypeStores
  <2>2. TypeCoroutine' /\ TypeFlushTask'
    BY <1>15 DEF NotPaused, TypeCoroutine, TypeFlushTask, Points
  <2>3. TypeFlags' /\ budget' \in [Faults -> Nat]
    BY <1>15 DEF NotPaused, TypeFlags
  <2>4. AckBacked' /\ NothingLost'
    BY <1>15 DEF NotPaused, AckBacked, NothingLost
  <2> QED
    BY <2>1, <2>2, <2>3, <2>4
<1>16. CASE Paused
  <2>1. /\ budget' \in [Faults -> Nat]
        /\ durable \subseteq durable' /\ buffered \cup durable = buffered' \cup durable'
        /\ mainSnap' = <<>> \/ (mainSnap' = pending /\ buffered \subseteq durable')
    BY <1>16, FlushEffect DEF Paused
  <2>2. pc' \in {"pauseack", "park"}
    BY <1>16 DEF Paused
  <2>3. mainSnap' \in Seq(1..last)
    BY <2>1, EmptySeq DEF TypeFlushTask
  <2>4. budget' \in [Faults -> Nat]
    BY <2>1
  <2>5. TypeRedis' /\ TypeStores'
    BY <1>16, <2>1 DEF Paused, Xack, TypeRedis, TypeStores
  <2>6. TypeCoroutine' /\ TypeFlushTask'
    BY <1>16, <2>2, <2>3 DEF Paused, TypeCoroutine, TypeFlushTask, Points
  <2>7. TypeFlags'
    BY <1>16 DEF Paused, TypeFlags
  <2>8. AckBacked'
    BY <1>16, <2>1, EmptyRange DEF Paused, AckBacked
  <2>9. NothingLost'
    BY <1>16, <2>1 DEF Paused, Xack, AckBacked, TypeRedis, NothingLost
  <2> QED
    BY <2>4, <2>5, <2>6, <2>7, <2>8, <2>9
<1>17. CASE PauseAck
  <2>1. /\ TrimPrefix(pending, mainSnap) \in Seq(1..last)
        /\ Range(TrimPrefix(pending, mainSnap)) \subseteq Range(pending)
    BY TrimRange DEF TypeCoroutine, TypeFlushTask
  <2>2. budget' \in [Faults -> Nat]
    BY <1>17 DEF PauseAck, Xack
  <2>3. TypeRedis' /\ TypeStores'
    BY <1>17 DEF PauseAck, Xack, TypeRedis, TypeStores
  <2>4. TypeCoroutine' /\ TypeFlushTask'
    BY <1>17, <2>1 DEF PauseAck, TypeCoroutine, TypeFlushTask, Points
  <2>5. TypeFlags'
    BY <1>17 DEF PauseAck, Xack, TypeFlags
  <2>6. AckBacked'
    BY <1>17, <2>1, EmptyRange DEF PauseAck, AckBacked
  <2>7. NothingLost'
    BY <1>17 DEF PauseAck, Xack, AckBacked, TypeRedis, NothingLost
  <2> QED
    BY <2>2, <2>3, <2>4, <2>5, <2>6, <2>7
<1>18. CASE Park
  <2>1. TypeRedis' /\ TypeStores'
    BY <1>18 DEF Park, TypeRedis, TypeStores
  <2>2. TypeCoroutine' /\ TypeFlushTask'
    BY <1>18 DEF Park, TypeCoroutine, TypeFlushTask, Points
  <2>3. TypeFlags' /\ budget' \in [Faults -> Nat]
    BY <1>18 DEF Park, TypeFlags
  <2>4. AckBacked' /\ NothingLost'
    BY <1>18 DEF Park, AckBacked, NothingLost
  <2> QED
    BY <2>1, <2>2, <2>3, <2>4
<1>19. CASE Reopen
  <2>1. TypeRedis' /\ TypeStores'
    BY <1>19 DEF Reopen, TypeRedis, TypeStores
  <2>2. TypeCoroutine' /\ TypeFlushTask'
    BY <1>19 DEF Reopen, TypeCoroutine, TypeFlushTask, Points
  <2>3. TypeFlags' /\ budget' \in [Faults -> Nat]
    BY <1>19 DEF Reopen, TypeFlags
  <2>4. AckBacked' /\ NothingLost'
    BY <1>19 DEF Reopen, AckBacked, NothingLost
  <2> QED
    BY <2>1, <2>2, <2>3, <2>4
<1>20. CASE PauseCheckRaises
  <2>1. TypeRedis' /\ TypeStores'
    BY <1>20 DEF PauseCheckRaises, TypeRedis, TypeStores
  <2>2. TypeCoroutine' /\ TypeFlushTask'
    BY <1>20 DEF PauseCheckRaises, TypeCoroutine, TypeFlushTask, Points
  <2>3. TypeFlags' /\ budget' \in [Faults -> Nat]
    BY <1>20, SpendType DEF PauseCheckRaises, TypeFlags, Faults
  <2>4. AckBacked' /\ NothingLost'
    BY <1>20 DEF PauseCheckRaises, AckBacked, NothingLost
  <2> QED
    BY <2>1, <2>2, <2>3, <2>4
<1>21. CASE EnterBatch
  <2>1. TypeRedis' /\ TypeStores'
    BY <1>21 DEF EnterBatch, TypeRedis, TypeStores
  <2>2. TypeCoroutine' /\ TypeFlushTask'
    BY <1>21 DEF EnterBatch, TypeCoroutine, TypeFlushTask, Points
  <2>3. TypeFlags' /\ budget' \in [Faults -> Nat]
    BY <1>21 DEF EnterBatch, TypeFlags
  <2>4. AckBacked' /\ NothingLost'
    BY <1>21, EmptyRange DEF EnterBatch, AckBacked, NothingLost
  <2> QED
    BY <2>1, <2>2, <2>3, <2>4
<1>22. CASE \E m \in Msgs : Apply(m)
  <2>1. PICK m \in Msgs : Apply(m)
    BY <1>22
  <2>2. m \in 1..last
    BY <2>1 DEF Apply, IsOldest, TypeCoroutine
  <2>3. /\ Append(applied, m) \in Seq(1..last)
        /\ Range(Append(applied, m)) \subseteq Range(applied) \cup {m}
    BY <2>2, AppendRange DEF TypeCoroutine
  <2>4. online' \in [Entities -> 0..last] /\ buffered' \subseteq 1..last
    <3>1. m \in 0..last
      BY <2>2 DEF TypeRedis
    <3>2. \/ online' = online
          \/ online' = [online EXCEPT ![EntityOf[m]] = m]
      BY <2>1 DEF Apply
    <3>3. buffered' \subseteq buffered \cup {m}
      BY <2>1 DEF Apply
    <3> QED
      BY <2>2, <3>1, <3>2, <3>3 DEF TypeStores
  <2>5. budget' \in [Faults -> Nat]
    BY <2>1 DEF Apply
  <2>6. TypeRedis' /\ TypeStores'
    BY <2>1, <2>4 DEF Apply, TypeRedis, TypeStores
  <2>7. TypeCoroutine' /\ TypeFlushTask'
    BY <2>1, <2>3 DEF Apply, TypeCoroutine, TypeFlushTask
  <2>8. TypeFlags'
    BY <2>1 DEF Apply, TypeFlags
  <2>9. AckBacked'
    BY <2>1, <2>3 DEF Apply, AckBacked
  <2>10. NothingLost'
    BY <2>1 DEF Apply, NothingLost
  <2> QED
    BY <2>5, <2>6, <2>7, <2>8, <2>9, <2>10
<1>23. CASE ApplyEnds
  <2>1. TypeRedis' /\ TypeStores'
    BY <1>23 DEF ApplyEnds, TypeRedis, TypeStores
  <2>2. TypeCoroutine' /\ TypeFlushTask'
    BY <1>23 DEF ApplyEnds, NextRead, TypeCoroutine, TypeFlushTask, Points
  <2>3. TypeFlags' /\ budget' \in [Faults -> Nat]
    BY <1>23 DEF ApplyEnds, TypeFlags
  <2>4. AckBacked' /\ NothingLost'
    BY <1>23 DEF ApplyEnds, AckBacked, NothingLost
  <2> QED
    BY <2>1, <2>2, <2>3, <2>4
<1>24. CASE Signal
  <2>1. /\ pending \o applied \in Seq(1..last)
        /\ Range(pending \o applied) \subseteq Range(pending) \cup Range(applied)
        /\ Range(applied) \subseteq 1..last
    BY ConcatRange, RangeType DEF TypeCoroutine, TypeFlushTask
  <2>2. budget' \in [Faults -> Nat]
    BY <1>24 DEF Signal
  <2>3. TypeRedis' /\ TypeStores'
    BY <1>24, <2>1 DEF Signal, TypeRedis, TypeStores
  <2>4. TypeCoroutine' /\ TypeFlushTask'
    BY <1>24, <2>1 DEF Signal, NextRead, TypeCoroutine, TypeFlushTask, Points
  <2>5. TypeFlags'
    BY <1>24 DEF Signal, TypeFlags
  <2>6. AckBacked'
    BY <1>24, <2>1, EmptyRange DEF Signal, AckBacked
  <2>7. NothingLost'
    BY <1>24 DEF Signal, NothingLost
  <2> QED
    BY <2>2, <2>3, <2>4, <2>5, <2>6, <2>7
<1>25. CASE SignalRaises
  <2>1. processed' \subseteq 1..last
    BY <1>25, PrefixRange DEF SignalRaises, TypeRedis, TypeCoroutine
  <2>2. budget' \in [Faults -> Nat]
    BY <1>25, SpendType DEF SignalRaises, Faults
  <2>3. TypeRedis' /\ TypeStores'
    BY <1>25, <2>1 DEF SignalRaises, TypeRedis, TypeStores
  <2>4. TypeCoroutine' /\ TypeFlushTask'
    BY <1>25 DEF SignalRaises, TypeCoroutine, TypeFlushTask, Points
  <2>5. TypeFlags'
    BY <1>25 DEF SignalRaises, TypeFlags
  <2>6. AckBacked'
    BY <1>25, EmptyRange DEF SignalRaises, AckBacked
  <2>7. NothingLost'
    BY <1>25 DEF SignalRaises, NothingLost
  <2> QED
    BY <2>2, <2>3, <2>4, <2>5, <2>6, <2>7
<1>26. CASE TaskWakes
  <2>1. TypeRedis' /\ TypeStores'
    BY <1>26 DEF TaskWakes, TypeRedis, TypeStores
  <2>2. TypeCoroutine' /\ TypeFlushTask'
    BY <1>26 DEF TaskWakes, TypeCoroutine, TypeFlushTask, Points
  <2>3. TypeFlags' /\ budget' \in [Faults -> Nat]
    BY <1>26 DEF TaskWakes, TypeFlags
  <2>4. AckBacked' /\ NothingLost'
    BY <1>26 DEF TaskWakes, AckBacked, NothingLost
  <2> QED
    BY <2>1, <2>2, <2>3, <2>4
<1>27. CASE TaskRenews
  <2>1. TypeRedis' /\ TypeStores'
    BY <1>27 DEF TaskRenews, TypeRedis, TypeStores
  <2>2. TypeCoroutine' /\ TypeFlushTask'
    BY <1>27 DEF TaskRenews, TypeCoroutine, TypeFlushTask, Points
  <2>3. TypeFlags' /\ budget' \in [Faults -> Nat]
    BY <1>27 DEF TaskRenews, TypeFlags
  <2>4. AckBacked' /\ NothingLost'
    BY <1>27 DEF TaskRenews, AckBacked, NothingLost
  <2> QED
    BY <2>1, <2>2, <2>3, <2>4
<1>28. CASE TaskStops
  <2>1. TypeRedis' /\ TypeStores'
    BY <1>28 DEF TaskStops, TypeRedis, TypeStores
  <2>2. TypeCoroutine' /\ TypeFlushTask'
    BY <1>28 DEF TaskStops, TypeCoroutine, TypeFlushTask, Points
  <2>3. TypeFlags' /\ budget' \in [Faults -> Nat]
    BY <1>28 DEF TaskStops, TypeFlags
  <2>4. AckBacked' /\ NothingLost'
    BY <1>28 DEF TaskStops, AckBacked, NothingLost
  <2> QED
    BY <2>1, <2>2, <2>3, <2>4
<1>29. CASE TaskFlushes
  <2>1. /\ budget' \in [Faults -> Nat]
        /\ durable \subseteq durable' /\ buffered \cup durable = buffered' \cup durable'
        /\ taskSnap' = <<>> \/ (taskSnap' = pending /\ buffered \subseteq durable')
    BY <1>29, FlushEffect DEF TaskFlushes
  <2>2. task' \in {"ack", "wait"}
    BY <1>29 DEF TaskFlushes
  <2>3. taskSnap' \in Seq(1..last)
    BY <2>1, EmptySeq DEF TypeFlushTask
  <2>4. budget' \in [Faults -> Nat]
    BY <2>1
  <2>5. TypeRedis' /\ TypeStores'
    BY <1>29, <2>1 DEF TaskFlushes, Xack, TypeRedis, TypeStores
  <2>6. TypeCoroutine' /\ TypeFlushTask'
    BY <1>29, <2>2, <2>3 DEF TaskFlushes, TypeCoroutine, TypeFlushTask, Points
  <2>7. TypeFlags'
    BY <1>29 DEF TaskFlushes, TypeFlags
  <2>8. AckBacked'
    BY <1>29, <2>1, EmptyRange DEF TaskFlushes, AckBacked
  <2>9. NothingLost'
    BY <1>29, <2>1 DEF TaskFlushes, Xack, AckBacked, TypeRedis, NothingLost
  <2> QED
    BY <2>4, <2>5, <2>6, <2>7, <2>8, <2>9
<1>30. CASE TaskAcks
  <2>1. /\ TrimPrefix(pending, taskSnap) \in Seq(1..last)
        /\ Range(TrimPrefix(pending, taskSnap)) \subseteq Range(pending)
    BY TrimRange DEF TypeCoroutine, TypeFlushTask
  <2>2. budget' \in [Faults -> Nat]
    BY <1>30 DEF TaskAcks, Xack
  <2>3. TypeRedis' /\ TypeStores'
    BY <1>30 DEF TaskAcks, Xack, TypeRedis, TypeStores
  <2>4. TypeCoroutine' /\ TypeFlushTask'
    BY <1>30, <2>1 DEF TaskAcks, TypeCoroutine, TypeFlushTask, Points
  <2>5. TypeFlags'
    BY <1>30 DEF TaskAcks, Xack, TypeFlags
  <2>6. AckBacked'
    BY <1>30, <2>1, EmptyRange DEF TaskAcks, AckBacked
  <2>7. NothingLost'
    BY <1>30 DEF TaskAcks, Xack, AckBacked, TypeRedis, NothingLost
  <2> QED
    BY <2>2, <2>3, <2>4, <2>5, <2>6, <2>7
<1>31. CASE TaskAckRaises
  <2>1. budget' \in [Faults -> Nat]
    BY <1>31, SpendType DEF TaskAckRaises, Xack, Faults
  <2>2. TypeRedis' /\ TypeStores'
    BY <1>31 DEF TaskAckRaises, Xack, TypeRedis, TypeStores
  <2>3. TypeCoroutine' /\ TypeFlushTask'
    BY <1>31 DEF TaskAckRaises, TypeCoroutine, TypeFlushTask, Points
  <2>4. TypeFlags'
    BY <1>31 DEF TaskAckRaises, Xack, TypeFlags
  <2>5. AckBacked'
    BY <1>31, EmptyRange DEF TaskAckRaises, AckBacked
  <2>6. NothingLost'
    BY <1>31 DEF TaskAckRaises, Xack, AckBacked, TypeRedis, NothingLost
  <2> QED
    BY <2>1, <2>2, <2>3, <2>4, <2>5, <2>6
<1>32. CASE StopSeen
  <2>1. TypeRedis' /\ TypeStores'
    BY <1>32 DEF StopSeen, TypeRedis, TypeStores
  <2>2. TypeCoroutine' /\ TypeFlushTask'
    BY <1>32 DEF StopSeen, TypeCoroutine, TypeFlushTask, Points
  <2>3. TypeFlags' /\ budget' \in [Faults -> Nat]
    BY <1>32 DEF StopSeen, TypeFlags
  <2>4. AckBacked' /\ NothingLost'
    BY <1>32 DEF StopSeen, AckBacked, NothingLost
  <2> QED
    BY <2>1, <2>2, <2>3, <2>4
<1>33. CASE CancelIsSwallowed
  <2>1. TypeRedis' /\ TypeStores'
    BY <1>33 DEF CancelIsSwallowed, TypeRedis, TypeStores
  <2>2. TypeCoroutine' /\ TypeFlushTask'
    BY <1>33 DEF CancelIsSwallowed, TypeCoroutine, TypeFlushTask, Points
  <2>3. TypeFlags' /\ budget' \in [Faults -> Nat]
    BY <1>33 DEF CancelIsSwallowed, TypeFlags
  <2>4. AckBacked' /\ NothingLost'
    BY <1>33 DEF CancelIsSwallowed, AckBacked, NothingLost
  <2> QED
    BY <2>1, <2>2, <2>3, <2>4
<1>34. CASE CancelReraises
  <2>1. TypeRedis' /\ TypeStores'
    BY <1>34 DEF CancelReraises, TypeRedis, TypeStores
  <2>2. TypeCoroutine' /\ TypeFlushTask'
    BY <1>34 DEF CancelReraises, TypeCoroutine, TypeFlushTask, Points
  <2>3. TypeFlags' /\ budget' \in [Faults -> Nat]
    BY <1>34 DEF CancelReraises, TypeFlags
  <2>4. AckBacked' /\ NothingLost'
    BY <1>34 DEF CancelReraises, AckBacked, NothingLost
  <2> QED
    BY <2>1, <2>2, <2>3, <2>4
<1>35. CASE CancelAndFlush
  <2>1. /\ budget' \in [Faults -> Nat]
        /\ durable \subseteq durable' /\ buffered \cup durable = buffered' \cup durable'
        /\ mainSnap' = <<>> \/ (mainSnap' = pending /\ buffered \subseteq durable')
    BY <1>35, FlushEffect DEF CancelAndFlush
  <2>2. pc' \in {"finalack", "close"}
    BY <1>35 DEF CancelAndFlush
  <2>3. mainSnap' \in Seq(1..last)
    BY <2>1, EmptySeq DEF TypeFlushTask
  <2>4. budget' \in [Faults -> Nat]
    BY <2>1
  <2>5. TypeRedis' /\ TypeStores'
    BY <1>35, <2>1 DEF CancelAndFlush, Xack, TypeRedis, TypeStores
  <2>6. TypeCoroutine' /\ TypeFlushTask'
    BY <1>35, <2>2, <2>3 DEF CancelAndFlush, TypeCoroutine, TypeFlushTask,
       Points
  <2>7. TypeFlags'
    BY <1>35 DEF CancelAndFlush, TypeFlags
  <2>8. AckBacked'
    BY <1>35, <2>1, EmptyRange DEF CancelAndFlush, AckBacked
  <2>9. NothingLost'
    BY <1>35, <2>1 DEF CancelAndFlush, Xack, AckBacked, TypeRedis, NothingLost
  <2> QED
    BY <2>4, <2>5, <2>6, <2>7, <2>8, <2>9
<1>36. CASE FinalAck
  <2>1. /\ TrimPrefix(pending, mainSnap) \in Seq(1..last)
        /\ Range(TrimPrefix(pending, mainSnap)) \subseteq Range(pending)
    BY TrimRange DEF TypeCoroutine, TypeFlushTask
  <2>2. budget' \in [Faults -> Nat]
    BY <1>36 DEF FinalAck, Xack
  <2>3. TypeRedis' /\ TypeStores'
    BY <1>36 DEF FinalAck, Xack, TypeRedis, TypeStores
  <2>4. TypeCoroutine' /\ TypeFlushTask'
    BY <1>36, <2>1 DEF FinalAck, TypeCoroutine, TypeFlushTask, Points
  <2>5. TypeFlags'
    BY <1>36 DEF FinalAck, Xack, TypeFlags
  <2>6. AckBacked'
    BY <1>36, <2>1, EmptyRange DEF FinalAck, AckBacked
  <2>7. NothingLost'
    BY <1>36 DEF FinalAck, Xack, AckBacked, TypeRedis, NothingLost
  <2> QED
    BY <2>2, <2>3, <2>4, <2>5, <2>6, <2>7
<1>37. CASE XackRaises
  <2>1. budget' \in [Faults -> Nat]
    BY <1>37, SpendType DEF XackRaises, Xack, Faults
  <2>2. TypeRedis' /\ TypeStores'
    BY <1>37 DEF XackRaises, Xack, TypeRedis, TypeStores
  <2>3. TypeCoroutine' /\ TypeFlushTask'
    BY <1>37 DEF XackRaises, TypeCoroutine, TypeFlushTask, Points
  <2>4. TypeFlags'
    BY <1>37 DEF XackRaises, Xack, TypeFlags
  <2>5. AckBacked'
    BY <1>37, EmptyRange DEF XackRaises, AckBacked
  <2>6. NothingLost'
    BY <1>37 DEF XackRaises, Xack, AckBacked, TypeRedis, NothingLost
  <2> QED
    BY <2>1, <2>2, <2>3, <2>4, <2>5, <2>6
<1>38. CASE Close
  <2>1. durable \subseteq durable' /\ buffered \cup durable = buffered' \cup durable'
        /\ budget' \in [Faults -> Nat]
    BY <1>38, SpendType DEF Close, FlushOk, FlushRaises, Faults
  <2>2. budget' \in [Faults -> Nat]
    BY <2>1
  <2>3. TypeRedis' /\ TypeStores'
    BY <1>38, <2>1 DEF Close, TypeRedis, TypeStores
  <2>4. TypeCoroutine' /\ TypeFlushTask'
    BY <1>38 DEF Close, TypeCoroutine, TypeFlushTask, Points
  <2>5. TypeFlags'
    BY <1>38 DEF Close, TypeFlags
  <2>6. AckBacked'
    BY <1>38, <2>1 DEF Close, AckBacked
  <2>7. NothingLost'
    BY <1>38, <2>1 DEF Close, NothingLost
  <2> QED
    BY <2>2, <2>3, <2>4, <2>5, <2>6, <2>7
<1>39. CASE Stop
  <2>1. budget' \in [Faults -> Nat]
    BY <1>39, SpendType DEF Stop, Faults
  <2>2. TypeRedis' /\ TypeStores'
    BY <1>39 DEF Stop, TypeRedis, TypeStores
  <2>3. TypeCoroutine' /\ TypeFlushTask'
    BY <1>39 DEF Stop, TypeCoroutine, TypeFlushTask, Points
  <2>4. TypeFlags'
    BY <1>39 DEF Stop, TypeFlags
  <2>5. AckBacked'
    BY <1>39 DEF Stop, AckBacked
  <2>6. NothingLost'
    BY <1>39 DEF Stop, NothingLost
  <2> QED
    BY <2>1, <2>2, <2>3, <2>4, <2>5, <2>6
<1>40. CASE Crash
  <2>1. budget' \in [Faults -> Nat]
    BY <1>40, SpendType DEF Crash, LoseProcess, Faults
  <2>2. TypeRedis' /\ TypeStores'
    BY <1>40 DEF Crash, LoseProcess, TypeRedis, TypeStores
  <2>3. TypeCoroutine' /\ TypeFlushTask'
    BY <1>40 DEF Crash, LoseProcess, TypeRedis, TypeCoroutine, TypeFlushTask,
       Points
  <2>4. TypeFlags'
    BY <1>40 DEF Crash, LoseProcess, TypeFlags
  <2>5. AckBacked'
    BY <1>40, EmptyRange DEF Crash, LoseProcess, AckBacked
  <2>6. NothingLost'
    BY <1>40 DEF Crash, LoseProcess, NothingLost
  <2> QED
    BY <2>1, <2>2, <2>3, <2>4, <2>5, <2>6
<1>41. CASE Exit
  <2>1. budget' \in [Faults -> Nat]
    BY <1>41 DEF Exit, LoseProcess
  <2>2. TypeRedis' /\ TypeStores'
    BY <1>41 DEF Exit, LoseProcess, TypeRedis, TypeStores
  <2>3. TypeCoroutine' /\ TypeFlushTask'
    BY <1>41 DEF Exit, LoseProcess, TypeRedis, TypeCoroutine, TypeFlushTask,
       Points
  <2>4. TypeFlags'
    BY <1>41 DEF Exit, LoseProcess, TypeFlags
  <2>5. AckBacked'
    BY <1>41, EmptyRange DEF Exit, LoseProcess, AckBacked
  <2>6. NothingLost'
    BY <1>41 DEF Exit, LoseProcess, NothingLost
  <2> QED
    BY <2>1, <2>2, <2>3, <2>4, <2>5, <2>6
<1>42. CASE UNCHANGED vars
  BY <1>42
  DEF vars, TypeRedis, TypeStores, TypeCoroutine, TypeFlushTask, TypeFlags,
      AckBacked, NothingLost
<1> QED
  BY <1>1, <1>2, <1>3, <1>4, <1>5, <1>6, <1>7, <1>8, <1>9, <1>10, <1>11,
     <1>12, <1>13, <1>14, <1>15, <1>16, <1>17, <1>18, <1>19, <1>20, <1>21,
     <1>22, <1>23, <1>24, <1>25, <1>26, <1>27, <1>28, <1>29, <1>30, <1>31,
     <1>32, <1>33, <1>34, <1>35, <1>36, <1>37, <1>38, <1>39, <1>40, <1>41,
     <1>42
  DEF Next, Coroutine, FlushTask, RedisErrors, Orchestrator

--------------------------------------------------------------------------------
(* Theorems *)

\* Types, the backing of every id that will be acknowledged and NothingLost
\* together are inductive.
THEOREM InductiveInvariant == Spec => []IInv
BY InitIInv, StepIInv, PTL DEF Spec

\* Type correctness, for every value of the constants.
THEOREM TypeCorrect == Spec => []TypeOK
BY InductiveInvariant, PTL DEF IInv

\* No message is lost between Redis and the disk: whatever crashes, raises or is
\* cancelled, an acknowledged message has a row in the offline store.
THEOREM NoMessageLost == Spec => []NothingLost
BY InductiveInvariant, PTL DEF IInv

--------------------------------------------------------------------------------
(* The budgets *)

\* No fault is counted more often than its bound.
BudgetLow == budget \in [Faults -> Nat] /\ \A f \in Faults : budget[f] <= Budget[f]

\* A step leaves the budgets alone or spends one of them.
LEMMA SpendsOne ==
    ASSUME [Next]_vars
    PROVE  UNCHANGED budget \/ \E f \in Faults : Spend(f)
<1> USE DEF streamVars, groupVars, storeVars, batchVars, ackVars, taskVars, Faults
<1>1. CASE Write
  BY <1>1 DEF Write
<1>2. CASE OrchestratorSeesNoPending
  BY <1>2 DEF OrchestratorSeesNoPending
<1>3. CASE OrchestratorSeesNoConsumer
  BY <1>3 DEF OrchestratorSeesNoConsumer
<1>4. CASE OrchestratorSetsPause
  BY <1>4 DEF OrchestratorSetsPause
<1>5. CASE OrchestratorClearsPause
  BY <1>5 DEF OrchestratorClearsPause
<1>6. CASE DestroyGroup
  BY <1>6 DEF DestroyGroup
<1>7. CASE LivenessExpires
  BY <1>7 DEF LivenessExpires
<1>8. CASE Start
  BY <1>8 DEF Start
<1>9. CASE DrainPage
  BY <1>9 DEF DrainPage
<1>10. CASE DrainEnds
  BY <1>10 DEF DrainEnds
<1>11. CASE DrainRaises
  BY <1>11 DEF DrainRaises
<1>12. CASE ReadNewBatch
  BY <1>12 DEF ReadNewBatch
<1>13. CASE ReadFindsNoGroup
  BY <1>13 DEF ReadFindsNoGroup
<1>14. CASE ReadRaises
  BY <1>14 DEF ReadRaises
<1>15. CASE NotPaused
  BY <1>15 DEF NotPaused
<1>16. CASE Paused
  BY <1>16 DEF Paused, FlushPending, FlushRaises
<1>17. CASE PauseAck
  BY <1>17 DEF PauseAck
<1>18. CASE Park
  BY <1>18 DEF Park
<1>19. CASE Reopen
  BY <1>19 DEF Reopen
<1>20. CASE PauseCheckRaises
  BY <1>20 DEF PauseCheckRaises
<1>21. CASE EnterBatch
  BY <1>21 DEF EnterBatch
<1>22. ASSUME NEW m \in Msgs, Apply(m) PROVE UNCHANGED budget \/ \E f \in Faults : Spend(f)
  BY <1>22 DEF Apply
<1>23. CASE ApplyEnds
  BY <1>23 DEF ApplyEnds
<1>24. CASE Signal
  BY <1>24 DEF Signal
<1>25. CASE SignalRaises
  BY <1>25 DEF SignalRaises
<1>26. CASE TaskWakes
  BY <1>26 DEF TaskWakes
<1>27. CASE TaskRenews
  BY <1>27 DEF TaskRenews
<1>28. CASE TaskStops
  BY <1>28 DEF TaskStops
<1>29. CASE TaskFlushes
  BY <1>29 DEF TaskFlushes, FlushPending, FlushRaises
<1>30. CASE TaskAcks
  BY <1>30 DEF TaskAcks
<1>31. CASE TaskAckRaises
  BY <1>31 DEF TaskAckRaises
<1>32. CASE StopSeen
  BY <1>32 DEF StopSeen
<1>33. CASE CancelIsSwallowed
  BY <1>33 DEF CancelIsSwallowed
<1>34. CASE CancelReraises
  BY <1>34 DEF CancelReraises
<1>35. CASE CancelAndFlush
  BY <1>35 DEF CancelAndFlush, FlushPending, FlushRaises
<1>36. CASE FinalAck
  BY <1>36 DEF FinalAck
<1>37. CASE XackRaises
  BY <1>37 DEF XackRaises
<1>38. CASE Close
  BY <1>38 DEF Close, FlushRaises, FlushOk
<1>39. CASE Stop
  BY <1>39 DEF Stop
<1>40. CASE Crash
  BY <1>40 DEF Crash
<1>41. CASE Exit
  BY <1>41 DEF Exit
<1>42. CASE UNCHANGED vars
  BY <1>42 DEF vars
<1> QED
  BY <1>1, <1>2, <1>3, <1>4, <1>5, <1>6, <1>7, <1>8, <1>9, <1>10, <1>11, <1>12, <1>13,
     <1>14, <1>15, <1>16, <1>17, <1>18, <1>19, <1>20, <1>21, <1>22, <1>23, <1>24, <1>25,
     <1>26, <1>27, <1>28, <1>29, <1>30, <1>31, <1>32, <1>33, <1>34, <1>35, <1>36, <1>37,
     <1>38, <1>39, <1>40, <1>41, <1>42
  DEF Next, Coroutine, FlushTask, RedisErrors, Orchestrator

\* What a fault that has not happened yet says of the step before.
LEMMA Frugal ==
    ASSUME BudgetLow, [Next]_vars
    PROVE  /\ BudgetLow'
           /\ \A f \in Faults : Unused(f)' => Unused(f) /\ ~Spend(f)
<1>1. ASSUME NEW f \in Faults, Spend(f)
      PROVE  BudgetLow' /\ \A g \in Faults : Unused(g)' => g # f /\ Unused(g)
  <2>1. /\ budget[f] \in Nat /\ budget[f] > 0 /\ budget[f] <= Budget[f]
        /\ budget' = [budget EXCEPT ![f] = budget[f] - 1] /\ Budget[f] \in Nat
    BY <1>1, ConstantsAssumption DEF Spend, BudgetLow
  <2>2. budget'[f] = budget[f] - 1 /\ budget'[f] < Budget[f] /\ budget'[f] \in Nat
    BY <2>1 DEF BudgetLow
  <2>3. \A g \in Faults : g # f => budget'[g] = budget[g]
    BY <2>1 DEF BudgetLow
  <2>4. BudgetLow'
    <3>1. budget' \in [Faults -> Nat]
      BY <2>1, <2>2 DEF BudgetLow
    <3>2. ASSUME NEW g \in Faults PROVE budget'[g] <= Budget[g]
      BY <2>1, <2>2, <2>3 DEF BudgetLow
    <3> QED
      BY <3>1, <3>2 DEF BudgetLow
  <2>5. ASSUME NEW g \in Faults, Unused(g)' PROVE g # f /\ Unused(g)
    <3>1. budget'[g] = Budget[g]
      BY <2>5 DEF Unused
    <3>2. g # f
      BY <2>1, <2>2, <3>1
    <3> QED
      BY <2>3, <3>1, <3>2 DEF Unused
  <2> QED
    BY <2>4, <2>5
<1>2. ASSUME UNCHANGED budget PROVE BudgetLow' /\ \A g \in Faults : Unused(g)' => Unused(g)
  BY <1>2 DEF BudgetLow, Unused
<1>3. ASSUME NEW f \in Faults, Spend(f) PROVE budget' # budget
  <2>1. budget[f] \in Nat /\ budget'[f] = budget[f] - 1
    BY <1>3 DEF Spend, BudgetLow
  <2> QED
    BY <2>1
<1>4. BudgetLow' /\ \A f \in Faults : Unused(f)' => Unused(f)
  BY <1>1, <1>2, SpendsOne
<1>5. ASSUME NEW f \in Faults, Unused(f)', Spend(f) PROVE FALSE
  BY <1>1, <1>5
<1> QED
  BY <1>4, <1>5

--------------------------------------------------------------------------------
(* One _flush_and_ack at a time *)

IsPrefixOf(s, t) == Len(s) <= Len(t) /\ \A i \in 1..Len(s) : s[i] = t[i]

\* While no upgrade pauses the consumer, one _flush_and_ack runs at a time: the
\* flush task exists only beside the read loop, and an XACK in flight names a
\* prefix of _pending_ack.
OneFlush ==
    /\ orch = "idle" /\ pc \notin {"pauseack", "park"}
    /\ pc \in {"read", "check", "cancel", "join", "finalack", "close"} => phase = "loop"
    /\ pc \in {"down", "drain", "finalack", "close"} => task = "none"
    /\ phase = "drain" => task = "none"
    /\ pc = "drain" => phase = "drain"

SnapsArePrefixes ==
    /\ task = "ack" => IsPrefixOf(taskSnap, pending)
    /\ task # "ack" => taskSnap = <<>>
    /\ pc = "finalack" => IsPrefixOf(mainSnap, pending)

SnapInv == Unused("pause") => OneFlush /\ SnapsArePrefixes


\* A step without a pause before it.
LEMMA NotPausing ==
    ASSUME BudgetLow, [Next]_vars, Unused("pause")'
    PROVE  Unused("pause") /\ ~Spend("pause")
BY Frugal DEF Faults

\* The flush task exists only beside the read loop.
LEMMA OneFlushStep ==
    ASSUME BudgetLow, OneFlush, TypeCoroutine, [Next]_vars, Unused("pause")'
    PROVE  OneFlush'
<1> USE DEF streamVars, groupVars, storeVars, batchVars, ackVars, taskVars
<1>1. CASE Write
  BY <1>1 DEF Write, OneFlush, TypeCoroutine
<1>2. CASE OrchestratorSeesNoPending
  BY <1>2, NotPausing DEF OrchestratorSeesNoPending, OneFlush, TypeCoroutine
<1>3. CASE OrchestratorSeesNoConsumer
  BY <1>3 DEF OrchestratorSeesNoConsumer, OneFlush, TypeCoroutine
<1>4. CASE OrchestratorSetsPause
  BY <1>4 DEF OrchestratorSetsPause, OneFlush, TypeCoroutine
<1>5. CASE OrchestratorClearsPause
  BY <1>5 DEF OrchestratorClearsPause, OneFlush, TypeCoroutine
<1>6. CASE DestroyGroup
  BY <1>6 DEF DestroyGroup, OneFlush, TypeCoroutine
<1>7. CASE LivenessExpires
  BY <1>7 DEF LivenessExpires, OneFlush, TypeCoroutine
<1>8. CASE Start
  BY <1>8 DEF Start, OneFlush, TypeCoroutine
<1>9. CASE DrainPage
  BY <1>9 DEF DrainPage, OneFlush, TypeCoroutine
<1>10. CASE DrainEnds
  BY <1>10 DEF DrainEnds, OneFlush, TypeCoroutine
<1>11. CASE DrainRaises
  BY <1>11 DEF DrainRaises, OneFlush, TypeCoroutine
<1>12. CASE ReadNewBatch
  BY <1>12 DEF ReadNewBatch, OneFlush, TypeCoroutine
<1>13. CASE ReadFindsNoGroup
  BY <1>13 DEF ReadFindsNoGroup, OneFlush, TypeCoroutine
<1>14. CASE ReadRaises
  BY <1>14 DEF ReadRaises, OneFlush, TypeCoroutine
<1>15. CASE NotPaused
  BY <1>15 DEF NotPaused, OneFlush, TypeCoroutine
<1>16. CASE Paused
  BY <1>16 DEF Paused, OneFlush, TypeCoroutine
<1>17. CASE PauseAck
  BY <1>17 DEF PauseAck, OneFlush, TypeCoroutine
<1>18. CASE Park
  BY <1>18 DEF Park, OneFlush, TypeCoroutine
<1>19. CASE Reopen
  BY <1>19 DEF Reopen, OneFlush, TypeCoroutine
<1>20. CASE PauseCheckRaises
  BY <1>20 DEF PauseCheckRaises, OneFlush, TypeCoroutine
<1>21. CASE EnterBatch
  BY <1>21 DEF EnterBatch, OneFlush, TypeCoroutine
<1>22. ASSUME NEW m \in Msgs, Apply(m) PROVE OneFlush'
  BY <1>22 DEF Apply, OneFlush, TypeCoroutine
<1>23. CASE ApplyEnds
  BY <1>23 DEF ApplyEnds, NextRead, OneFlush, TypeCoroutine
<1>24. CASE Signal
  BY <1>24 DEF Signal, NextRead, OneFlush, TypeCoroutine
<1>25. CASE SignalRaises
  BY <1>25 DEF SignalRaises, OneFlush, TypeCoroutine
<1>26. CASE TaskWakes
  BY <1>26 DEF TaskWakes, OneFlush, TypeCoroutine
<1>27. CASE TaskRenews
  BY <1>27 DEF TaskRenews, OneFlush, TypeCoroutine
<1>28. CASE TaskStops
  BY <1>28 DEF TaskStops, OneFlush, TypeCoroutine
<1>29. CASE TaskFlushes
  BY <1>29 DEF TaskFlushes, OneFlush, TypeCoroutine
<1>30. CASE TaskAcks
  BY <1>30 DEF TaskAcks, OneFlush, TypeCoroutine
<1>31. CASE TaskAckRaises
  BY <1>31 DEF TaskAckRaises, OneFlush, TypeCoroutine
<1>32. CASE StopSeen
  BY <1>32 DEF StopSeen, OneFlush, TypeCoroutine
<1>33. CASE CancelIsSwallowed
  BY <1>33 DEF CancelIsSwallowed, OneFlush, TypeCoroutine
<1>34. CASE CancelReraises
  BY <1>34 DEF CancelReraises, OneFlush, TypeCoroutine
<1>35. CASE CancelAndFlush
  BY <1>35 DEF CancelAndFlush, OneFlush, TypeCoroutine
<1>36. CASE FinalAck
  BY <1>36 DEF FinalAck, OneFlush, TypeCoroutine
<1>37. CASE XackRaises
  BY <1>37 DEF XackRaises, OneFlush, TypeCoroutine
<1>38. CASE Close
  BY <1>38 DEF Close, OneFlush, TypeCoroutine
<1>39. CASE Stop
  BY <1>39 DEF Stop, OneFlush, TypeCoroutine
<1>40. CASE Crash
  BY <1>40 DEF Crash, LoseProcess, OneFlush, TypeCoroutine
<1>41. CASE Exit
  BY <1>41 DEF Exit, LoseProcess, OneFlush, TypeCoroutine
<1>42. CASE UNCHANGED vars
  BY <1>42 DEF vars, OneFlush
<1> QED
  BY <1>1, <1>2, <1>3, <1>4, <1>5, <1>6, <1>7, <1>8, <1>9, <1>10, <1>11, <1>12, <1>13,
     <1>14, <1>15, <1>16, <1>17, <1>18, <1>19, <1>20, <1>21, <1>22, <1>23, <1>24, <1>25,
     <1>26, <1>27, <1>28, <1>29, <1>30, <1>31, <1>32, <1>33, <1>34, <1>35, <1>36, <1>37,
     <1>38, <1>39, <1>40, <1>41, <1>42
  DEF Next, Coroutine, FlushTask, RedisErrors, Orchestrator

\* The flush task and the coroutine acknowledge prefixes of _pending_ack.
LEMMA SnapsStep ==
    ASSUME IInv, BudgetLow, OneFlush, SnapsArePrefixes, [Next]_vars, Unused("pause")'
    PROVE  SnapsArePrefixes'
<1> USE DEF streamVars, groupVars, storeVars, batchVars, ackVars, taskVars
<1>0. /\ pending \in Seq(1..last) /\ applied \in Seq(1..last)
      /\ pc \notin {"pauseack", "park"} /\ orch # "paused"
  BY DEF IInv, TypeOK, TypeFlushTask, TypeCoroutine, OneFlush
<1>1. ASSUME UNCHANGED <<pending, mainSnap, taskSnap>>,
             task' = "ack" <=> task = "ack", pc' = "finalack" => pc = "finalack"
      PROVE  SnapsArePrefixes'
  BY <1>1 DEF SnapsArePrefixes
<1>2. CASE Write \/ Orchestrator \/ DestroyGroup \/ LivenessExpires \/ Stop
  BY <1>1, <1>2
  DEF Write, Orchestrator, OrchestratorSeesNoPending, OrchestratorSeesNoConsumer,
      OrchestratorSetsPause, OrchestratorClearsPause, DestroyGroup, LivenessExpires, Stop
<1>3. CASE Start \/ DrainPage \/ DrainRaises
  BY <1>1, <1>3 DEF Start, DrainPage, DrainRaises
<1>4. CASE DrainEnds
  BY <1>1, <1>4 DEF DrainEnds, OneFlush
<1>5. CASE ReadNewBatch \/ ReadFindsNoGroup \/ ReadRaises
  BY <1>1, <1>5 DEF ReadNewBatch, ReadFindsNoGroup, ReadRaises
<1>6. CASE NotPaused \/ Park \/ Reopen \/ PauseCheckRaises
  BY <1>1, <1>6 DEF NotPaused, Park, Reopen, PauseCheckRaises
<1>7. CASE Paused \/ PauseAck
  BY <1>0, <1>7 DEF Paused, PauseAck
<1>8. CASE EnterBatch \/ ApplyEnds \/ StopSeen \/ CancelIsSwallowed
  BY <1>1, <1>8 DEF EnterBatch, ApplyEnds, NextRead, StopSeen, CancelIsSwallowed
<1>9. ASSUME NEW m \in Msgs, Apply(m) PROVE SnapsArePrefixes'
  BY <1>1, <1>9 DEF Apply
<1>10. CASE SignalRaises
  BY <1>1, <1>10 DEF SignalRaises
<1>11. CASE Signal
  <2>1. pending' = pending \o applied /\ UNCHANGED <<task, taskSnap>> /\ pc' # "finalack"
    BY <1>11 DEF Signal, NextRead
  <2>2. ASSUME task = "ack" PROVE IsPrefixOf(taskSnap, pending \o applied)
    <3>1. taskSnap \in Seq(1..last) /\ IsPrefixOf(taskSnap, pending)
      BY <2>2 DEF IInv, TypeOK, TypeFlushTask, SnapsArePrefixes
    <3> QED
      BY <1>0, <3>1 DEF IsPrefixOf
  <2> QED
    BY <2>1, <2>2 DEF SnapsArePrefixes
<1>12. CASE TaskWakes \/ TaskRenews \/ TaskStops
  BY <1>1, <1>12 DEF TaskWakes, TaskRenews, TaskStops
<1>13. CASE TaskFlushes
  <2>1. /\ \/ task' = "ack" /\ taskSnap' = pending
           \/ task' # "ack" /\ taskSnap' = <<>>
        /\ UNCHANGED <<pending, mainSnap, pc>>
    BY <1>13 DEF TaskFlushes
  <2>2. IsPrefixOf(pending, pending)
    BY <1>0 DEF IsPrefixOf
  <2> QED
    BY <2>1, <2>2 DEF SnapsArePrefixes
<1>14. CASE TaskAcks \/ TaskAckRaises
  BY <1>14 DEF TaskAcks, TaskAckRaises, OneFlush, SnapsArePrefixes
<1>15. CASE CancelReraises
  BY <1>1, <1>15 DEF CancelReraises
<1>16. CASE CancelAndFlush
  <2>1. /\ task' = "none" /\ taskSnap' = <<>> /\ UNCHANGED pending
        /\ pc' = "finalack" => mainSnap' = pending
    BY <1>16 DEF CancelAndFlush
  <2>2. IsPrefixOf(pending, pending)
    BY <1>0 DEF IsPrefixOf
  <2> QED
    BY <2>1, <2>2 DEF SnapsArePrefixes
<1>17. CASE FinalAck \/ XackRaises
  BY <1>17 DEF FinalAck, XackRaises, OneFlush, SnapsArePrefixes
<1>18. CASE Close
  BY <1>1, <1>18 DEF Close, FlushOk, FlushRaises
<1>19. CASE Crash \/ Exit
  BY <1>19 DEF Crash, Exit, LoseProcess, SnapsArePrefixes
<1>20. CASE UNCHANGED vars
  BY <1>1, <1>20 DEF vars
<1> QED
  BY <1>2, <1>3, <1>4, <1>5, <1>6, <1>7, <1>8, <1>9, <1>10, <1>11, <1>12, <1>13, <1>14,
     <1>15, <1>16, <1>17, <1>18, <1>19, <1>20
  DEF Next, Coroutine, FlushTask, RedisErrors

\* The budgets and the snapshots, in every reachable state.
LEMMA SnapInvariant == Spec => [](BudgetLow /\ SnapInv)
<1>1. Init => BudgetLow /\ SnapInv
  BY ConstantsAssumption
  DEF Init, BudgetLow, SnapInv, OneFlush, SnapsArePrefixes
<1>2. IInv /\ BudgetLow /\ SnapInv /\ [Next]_vars => (BudgetLow /\ SnapInv)'
  <2> SUFFICES ASSUME IInv, BudgetLow, SnapInv, [Next]_vars PROVE BudgetLow' /\ SnapInv'
    OBVIOUS
  <2>1. BudgetLow'
    BY Frugal
  <2>2. ASSUME Unused("pause")' PROVE (OneFlush /\ SnapsArePrefixes)'
    <3>1. OneFlush /\ SnapsArePrefixes
      BY <2>2, NotPausing DEF SnapInv
    <3>2. TypeCoroutine
      BY DEF IInv, TypeOK
    <3> QED
      BY <2>2, <3>1, <3>2, OneFlushStep, SnapsStep
  <2> QED
    BY <2>1, <2>2 DEF SnapInv
<1> QED
  BY <1>1, <1>2, InductiveInvariant, PTL DEF Spec

\* del pending[:len(snapshot)] removes the ids of the snapshot.
LEMMA TrimDrops ==
    ASSUME NEW S, NEW s \in Seq(S), NEW t \in Seq(S), IsPrefixOf(t, s)
    PROVE  Range(s) \subseteq Range(t) \cup Range(TrimPrefix(s, t))
<1>1. Len(s) \in Nat /\ Len(t) \in Nat /\ Len(t) <= Len(s)
  BY DEF IsPrefixOf
<1> DEFINE r == TrimPrefix(s, t)
<1>2. Len(r) = Len(s) - Len(t) /\ \A i \in 1..Len(r) : r[i] = s[Len(t) + i]
  BY <1>1 DEF TrimPrefix
<1>3. r \in Seq(S)
  BY TrimRange
<1>4. ASSUME NEW i \in 1..Len(s) PROVE s[i] \in Range(t) \cup Range(r)
  <2>1. CASE i <= Len(t)
    <3>1. i \in 1..Len(t) /\ t[i] = s[i]
      BY <1>1, <2>1 DEF IsPrefixOf
    <3> QED
      BY <3>1 DEF Range
  <2>2. CASE i > Len(t)
    <3> HIDE DEF r
    <3>1. i - Len(t) \in 1..Len(r)
      BY <1>1, <1>2, <2>2
    <3>2. r[i - Len(t)] = s[Len(t) + (i - Len(t))]
      BY <1>2, <3>1
    <3>3. s[Len(t) + (i - Len(t))] = s[i]
      BY <1>1
    <3>4. r[i - Len(t)] \in Range(r)
      BY <1>3, <3>1 DEF Range
    <3> QED
      BY <3>2, <3>3, <3>4
  <2> QED
    BY <1>1, <2>1, <2>2
<1> QED
  BY <1>4 DEF Range

\* No id leaves _pending_ack without its XACK: for every interleaving of the flush
\* task, the coroutine, crashes and errors, as long as no upgrade pauses the
\* consumer (a pause can have two _flush_and_ack in flight: see the README).
THEOREM TrimsAreAcked == Budget["pause"] = 0 => (Spec => TrimsOnlyAcked)
<1> SUFFICES ASSUME Budget["pause"] = 0 PROVE Spec => TrimsOnlyAcked
  OBVIOUS
<1> DEFINE Trim == pc' # "down" => (Range(pending) \ Range(pending')) \cap pel' = {}
<1>1. IInv /\ BudgetLow /\ SnapInv /\ [Next]_vars => [Trim]_vars
  <2> SUFFICES ASSUME IInv, BudgetLow, SnapInv, [Next]_vars, pc' # "down"
               PROVE  \A x \in Range(pending) : x \in Range(pending') \/ x \notin pel'
    OBVIOUS
  <2> USE DEF streamVars, groupVars, storeVars, batchVars, ackVars, taskVars
  <2>1. OneFlush /\ SnapsArePrefixes
    BY DEF BudgetLow, SnapInv, Unused, Faults
  <2>2. /\ pending \in Seq(1..last) /\ applied \in Seq(1..last)
        /\ taskSnap \in Seq(1..last) /\ mainSnap \in Seq(1..last)
    BY DEF IInv, TypeOK, TypeFlushTask, TypeCoroutine
  <2>3. CASE UNCHANGED pending
    BY <2>3
  <2>4. CASE Signal
    <3>1. pending' = pending \o applied
      BY <2>4 DEF Signal
    <3>2. \A i \in 1..Len(pending) : i \in 1..Len(pending') /\ pending'[i] = pending[i]
      BY <2>2, <3>1
    <3>3. pending' \in Seq(1..last)
      BY <2>2, <3>1
    <3> QED
      BY <2>2, <3>2, <3>3 DEF Range
  <2>5. CASE TaskAcks
    <3>1. pending' = TrimPrefix(pending, taskSnap) /\ pel' = pel \ Range(taskSnap)
      BY <2>5 DEF TaskAcks, Xack
    <3>2. IsPrefixOf(taskSnap, pending)
      BY <2>1, <2>5 DEF TaskAcks, SnapsArePrefixes
    <3> QED
      BY <2>2, <3>1, <3>2, TrimDrops
  <2>6. CASE FinalAck
    <3>1. pending' = TrimPrefix(pending, mainSnap) /\ pel' = pel \ Range(mainSnap)
      BY <2>6 DEF FinalAck, Xack
    <3>2. IsPrefixOf(mainSnap, pending)
      BY <2>1, <2>6 DEF FinalAck, SnapsArePrefixes
    <3> QED
      BY <2>2, <3>1, <3>2, TrimDrops
  <2>7. CASE PauseAck
    BY <2>1, <2>7 DEF PauseAck, OneFlush
  <2>8. CASE Crash \/ Exit
    BY <2>8 DEF Crash, Exit, LoseProcess
  <2>9. CASE Write \/ Orchestrator \/ DestroyGroup \/ LivenessExpires \/ Stop
    BY <2>3, <2>9
    DEF Write, Orchestrator, OrchestratorSeesNoPending, OrchestratorSeesNoConsumer,
        OrchestratorSetsPause, OrchestratorClearsPause, DestroyGroup, LivenessExpires, Stop
  <2>10. CASE Start \/ DrainPage \/ DrainEnds \/ DrainRaises
    BY <2>3, <2>10 DEF Start, DrainPage, DrainEnds, DrainRaises
  <2>11. CASE ReadNewBatch \/ ReadFindsNoGroup \/ ReadRaises
    BY <2>3, <2>11 DEF ReadNewBatch, ReadFindsNoGroup, ReadRaises
  <2>12. CASE NotPaused \/ Paused \/ Park \/ Reopen \/ PauseCheckRaises
    BY <2>3, <2>12 DEF NotPaused, Paused, Park, Reopen, PauseCheckRaises
  <2>13. CASE EnterBatch \/ ApplyEnds \/ SignalRaises \/ \E m \in Msgs : Apply(m)
    BY <2>3, <2>13 DEF EnterBatch, ApplyEnds, SignalRaises, Apply
  <2>14. CASE TaskWakes \/ TaskRenews \/ TaskStops \/ TaskFlushes \/ TaskAckRaises
    BY <2>3, <2>14 DEF TaskWakes, TaskRenews, TaskStops, TaskFlushes, TaskAckRaises
  <2>15. CASE StopSeen \/ CancelIsSwallowed \/ CancelReraises \/ CancelAndFlush
    BY <2>3, <2>15 DEF StopSeen, CancelIsSwallowed, CancelReraises, CancelAndFlush
  <2>16. CASE XackRaises \/ Close
    BY <2>3, <2>16 DEF XackRaises, Close
  <2>17. CASE UNCHANGED vars
    BY <2>3, <2>17 DEF vars
  <2> QED
    BY <2>4, <2>5, <2>6, <2>7, <2>8, <2>9, <2>10, <2>11, <2>12, <2>13, <2>14, <2>15,
       <2>16, <2>17
    DEF Next, Coroutine, FlushTask, RedisErrors
<1> QED
  BY <1>1, SnapInvariant, InductiveInvariant, PTL DEF Spec, TrimsOnlyAcked

--------------------------------------------------------------------------------
(* The back-pressure ceiling *)

\* _pending_ack and the batch in hand, where the back-pressure ceiling is 2 *
\* MaxPendingAck: after stop() no further batch is read.
BatchBounded ==
    /\ pc \in {"check", "process", "apply"} =>
           IsFiniteSet(batch) /\ Cardinality(batch) <= BatchCount
    /\ pc = "apply" => Cardinality(batch) + Len(applied) <= BatchCount
    /\ pc = "signal" => Len(applied) <= BatchCount

CeilingKept ==
    /\ ~stop \/ pc \in {"check", "process", "apply", "signal", "pauseack", "park"} =>
           Len(pending) < 2 * MaxPendingAck + BatchCount
    /\ ~stop /\ pc \in {"apply", "signal"} => Len(pending) < 2 * MaxPendingAck
    /\ PendingBounded

BoundInv == BatchBounded /\ CeilingKept


\* XREADGROUP with COUNT k returns at most k entries.
LEMMA PageCardinality ==
    ASSUME NEW n \in Nat, NEW S \in SUBSET (1..n), NEW k \in Nat
    PROVE  IsFiniteSet(Page(S, k)) /\ Cardinality(Page(S, k)) <= k
<1> DEFINE Below(y) == {z \in S : z < y}
           P == Page(S, k)
           rank == [m \in P |-> Cardinality(Below(m))]
<1>1. (\A m \in S : m \in Int) /\ P \subseteq S /\ k - 1 \in Int
  BY DEF Page
<1>2. IsFiniteSet(S)
  <2>1. 1 \in Int /\ n \in Int
    OBVIOUS
  <2> QED
    BY <2>1, FS_Interval, FS_Subset
<1>3. \A m \in S : IsFiniteSet(Below(m)) /\ Cardinality(Below(m)) \in Nat
  <2> SUFFICES ASSUME NEW m \in S
               PROVE  IsFiniteSet(Below(m)) /\ Cardinality(Below(m)) \in Nat
    OBVIOUS
  <2>1. Below(m) \in SUBSET S
    OBVIOUS
  <2> QED
    BY <1>2, <2>1, FS_Subset, FS_CardinalityType
<1>4. rank \in [P -> 0..(k - 1)]
  <2>1. ASSUME NEW m \in P PROVE Cardinality(Below(m)) \in 0..(k - 1)
    <3>1. Cardinality(Below(m)) < k
      BY DEF Page
    <3>2. Cardinality(Below(m)) \in Nat
      BY <1>1, <1>3
    <3> HIDE DEF Below
    <3> QED
      BY <3>1, <3>2
  <2> HIDE DEF P
  <2> QED
    BY <2>1
<1>5. ASSUME NEW a \in P, NEW b \in P, rank[a] = rank[b] PROVE a = b
  <2>1. ASSUME NEW x \in S, NEW y \in S, x < y
        PROVE  Cardinality(Below(x)) # Cardinality(Below(y))
    <3>1. Below(x) \in SUBSET Below(y) /\ x \in Below(y) /\ x \notin Below(x)
      <4>1. x \in Int /\ y \in Int
        BY <1>1
      <4>2. ASSUME NEW z \in S, z < x PROVE z < y
        BY <1>1, <2>1, <4>1, <4>2
      <4>3. ~(x < x)
        BY <4>1
      <4> QED
        BY <2>1, <4>2, <4>3
    <3>2. IsFiniteSet(Below(y))
      BY <1>3
    <3> HIDE DEF Below
    <3> QED
      BY <3>1, <3>2, FS_Subset
  <2>2. a \in S /\ b \in S /\ Cardinality(Below(a)) = Cardinality(Below(b))
    BY <1>1, <1>5
  <2>3. a \in Int /\ b \in Int /\ ~(a < b) /\ ~(b < a)
    BY <1>1, <2>1, <2>2
  <2> QED
    BY <2>3
<1>6. rank \in Injection(P, 0..(k - 1))
  BY <1>4, <1>5 DEF Injection, IsInjective
<1>7. IsFiniteSet(0..(k - 1)) /\ Cardinality(0..(k - 1)) = k
  BY <1>1, FS_Interval
<1> QED
  BY <1>6, <1>7, FS_Injection

\* del pending[:len(snapshot)] does not lengthen the list.
LEMMA TrimShortens ==
    ASSUME NEW S, NEW s \in Seq(S), NEW t \in Seq(S)
    PROVE  Len(TrimPrefix(s, t)) <= Len(s) /\ Len(TrimPrefix(s, t)) \in Nat
BY DEF TrimPrefix

\* A batch has at most BatchCount messages, and so have the ids applied from it.
LEMMA BatchStep ==
    ASSUME IInv, BatchBounded, [Next]_vars
    PROVE  BatchBounded'
<1> USE DEF streamVars, groupVars, storeVars, batchVars, ackVars, taskVars
<1>0. /\ BatchCount \in Nat /\ last \in Nat /\ applied \in Seq(1..last)
      /\ pel \subseteq 1..last /\ Undelivered \subseteq 1..last
  BY ConstantsAssumption
  DEF IInv, TypeOK, TypeRedis, TypeCoroutine, Undelivered
<1>1. ASSUME UNCHANGED <<batch, applied>>,
             pc' \in {"check", "process", "apply", "signal"} => pc' = pc
      PROVE  BatchBounded'
  BY <1>1 DEF BatchBounded
<1>2. ASSUME pc' \notin {"check", "process", "apply", "signal"} PROVE BatchBounded'
  BY <1>2 DEF BatchBounded
<1>3. ASSUME NEW S \in SUBSET (1..last), batch' \subseteq Page(S, BatchCount),
             pc' \in {"check", "process"}
      PROVE  BatchBounded'
  <2>1. /\ IsFiniteSet(Page(S, BatchCount))
        /\ Cardinality(Page(S, BatchCount)) <= BatchCount
        /\ Cardinality(Page(S, BatchCount)) \in Nat
    BY <1>0, PageCardinality, FS_CardinalityType
  <2>2. /\ IsFiniteSet(batch') /\ Cardinality(batch') \in Nat
        /\ Cardinality(batch') <= Cardinality(Page(S, BatchCount))
    BY <1>3, <2>1, FS_Subset, FS_CardinalityType
  <2> QED
    BY <1>0, <1>3, <2>1, <2>2 DEF BatchBounded
<1>4. CASE ReadNewBatch
  BY <1>0, <1>3, <1>4 DEF ReadNewBatch
<1>5. CASE DrainPage
  <2>1. {m \in pel : m > lastId} \in SUBSET (1..last)
    BY <1>0
  <2>2. batch' \subseteq Page({m \in pel : m > lastId}, BatchCount) /\ pc' = "process"
    BY <1>5 DEF DrainPage
  <2> QED
    BY <1>3, <2>1, <2>2
<1>6. CASE ReadFindsNoGroup
  <2>1. batch' = {} /\ pc' = "check"
    BY <1>6 DEF ReadFindsNoGroup
  <2> QED
    BY <1>0, <2>1, FS_EmptySet DEF BatchBounded
<1>7. CASE NotPaused
  <2>1. UNCHANGED <<batch, applied>> /\ pc = "check" /\ pc' \in {"read", "process"}
    BY <1>7 DEF NotPaused
  <2> QED
    BY <2>1 DEF BatchBounded
<1>8. CASE EnterBatch
  <2>1. pc = "process" /\ batch' = batch /\ applied' = <<>> /\ pc' = "apply"
    BY <1>8 DEF EnterBatch
  <2>2. IsFiniteSet(batch) /\ Cardinality(batch) <= BatchCount /\ Cardinality(batch) \in Nat
    BY <2>1, FS_CardinalityType DEF BatchBounded
  <2> QED
    BY <1>0, <2>1, <2>2 DEF BatchBounded
<1>9. ASSUME NEW m \in Msgs, Apply(m) PROVE BatchBounded'
  <2>1. /\ pc = "apply" /\ pc' = "apply" /\ m \in batch /\ batch' = batch \ {m}
        /\ applied' = applied \/ applied' = Append(applied, m)
    BY <1>9 DEF Apply, IsOldest
  <2>2. IsFiniteSet(batch) /\ Cardinality(batch) \in Nat
    BY <2>1, FS_CardinalityType DEF BatchBounded
  <2>3. IsFiniteSet(batch') /\ Cardinality(batch') = Cardinality(batch) - 1
    BY <2>1, <2>2, FS_RemoveElement
  <2>4. m \in 1..last
    BY <2>1 DEF IInv, TypeOK, TypeCoroutine
  <2>5. Len(applied') <= Len(applied) + 1 /\ Len(applied') \in Nat /\ Len(applied) \in Nat
    BY <1>0, <2>1, <2>4
  <2> QED
    BY <1>0, <2>1, <2>2, <2>3, <2>5 DEF BatchBounded
<1>10. CASE ApplyEnds
  <2>1. /\ pc = "apply" /\ batch = {} /\ UNCHANGED <<batch, applied>>
        /\ pc' \in {"drain", "read", "signal"}
    BY <1>10 DEF ApplyEnds, NextRead
  <2>2. Len(applied) <= BatchCount
    BY <1>0, <2>1, FS_EmptySet DEF BatchBounded
  <2> QED
    BY <2>1, <2>2 DEF BatchBounded
<1>11. CASE Signal \/ SignalRaises
  BY <1>2, <1>11 DEF Signal, SignalRaises, NextRead
<1>12. CASE Paused \/ PauseAck \/ Park \/ Reopen \/ PauseCheckRaises
  BY <1>2, <1>12 DEF Paused, PauseAck, Park, Reopen, PauseCheckRaises
<1>13. CASE Start \/ DrainEnds \/ DrainRaises \/ ReadRaises
  BY <1>2, <1>13 DEF Start, DrainEnds, DrainRaises, ReadRaises
<1>14. CASE StopSeen \/ CancelIsSwallowed \/ CancelReraises \/ CancelAndFlush
  BY <1>2, <1>14 DEF StopSeen, CancelIsSwallowed, CancelReraises, CancelAndFlush
<1>15. CASE FinalAck \/ XackRaises \/ Close
  BY <1>2, <1>15 DEF FinalAck, XackRaises, Close
<1>16. CASE Crash \/ Exit
  BY <1>2, <1>16 DEF Crash, Exit, LoseProcess
<1>17. CASE TaskWakes \/ TaskRenews \/ TaskStops \/ TaskFlushes \/ TaskAcks \/ TaskAckRaises
  BY <1>1, <1>17
  DEF TaskWakes, TaskRenews, TaskStops, TaskFlushes, TaskAcks, TaskAckRaises
<1>18. CASE Write \/ Orchestrator \/ DestroyGroup \/ LivenessExpires \/ Stop
  BY <1>1, <1>18
  DEF Write, Orchestrator, OrchestratorSeesNoPending, OrchestratorSeesNoConsumer,
      OrchestratorSetsPause, OrchestratorClearsPause, DestroyGroup, LivenessExpires, Stop
<1>19. CASE UNCHANGED vars
  BY <1>1, <1>19 DEF vars
<1> QED
  BY <1>4, <1>5, <1>6, <1>7, <1>8, <1>9, <1>10, <1>11, <1>12, <1>13, <1>14, <1>15,
     <1>16,
     <1>17, <1>18, <1>19
  DEF Next, Coroutine, FlushTask, RedisErrors

\* A batch enters below the ceiling, and after stop() at most the one in hand.
LEMMA CeilingStep ==
    ASSUME IInv, BatchBounded, CeilingKept, [Next]_vars
    PROVE  CeilingKept'
<1> USE DEF streamVars, groupVars, storeVars, batchVars, ackVars, taskVars
<1>0. /\ BatchCount \in Nat /\ MaxPendingAck \in Nat \ {0} /\ last \in Nat
      /\ pending \in Seq(1..last) /\ applied \in Seq(1..last)
      /\ mainSnap \in Seq(1..last) /\ taskSnap \in Seq(1..last)
      /\ stop \in BOOLEAN /\ Len(pending) \in Nat /\ Len(applied) \in Nat
  BY ConstantsAssumption
  DEF IInv, TypeOK, TypeRedis, TypeCoroutine, TypeFlushTask, TypeFlags
<1> DEFINE Held == {"check", "process", "apply", "signal", "pauseack", "park"}
<1>1. ASSUME Len(pending') <= Len(pending), Len(pending') \in Nat, stop' = stop,
             pc' \in Held => pc \in Held, pc' \in {"apply", "signal"} => pc \in {"apply", "signal"}
      PROVE  CeilingKept'
  BY <1>0, <1>1 DEF CeilingKept, PendingBounded
<1>2. ASSUME UNCHANGED <<pending, stop>>, pc' \in Held => pc \in Held,
             pc' \in {"apply", "signal"} => pc \in {"apply", "signal"}
      PROVE  CeilingKept'
  BY <1>0, <1>1, <1>2
<1>3. ASSUME ~stop, UNCHANGED <<pending, stop>>, pc' \notin {"apply", "signal"}
      PROVE  CeilingKept'
  BY <1>0, <1>3 DEF CeilingKept, PendingBounded
<1>4. CASE EnterBatch
  <2>1. /\ pc = "process" /\ pc' = "apply" /\ UNCHANGED <<pending, stop>>
        /\ Len(pending) < 2 * MaxPendingAck \/ stop
    BY <1>4 DEF EnterBatch
  <2> QED
    BY <1>0, <2>1 DEF CeilingKept, PendingBounded
<1>5. CASE Signal
  <2>1. /\ pc = "signal" /\ pc' \in {"drain", "read"} /\ stop' = stop
        /\ pending' = pending \o applied
    BY <1>5 DEF Signal, NextRead
  <2>2. Len(pending') = Len(pending) + Len(applied) /\ Len(applied) <= BatchCount
    BY <1>0, <2>1 DEF BatchBounded
  <2>3. /\ Len(pending) < 2 * MaxPendingAck + BatchCount
        /\ ~stop => Len(pending) < 2 * MaxPendingAck
    BY <2>1 DEF CeilingKept
  <2> QED
    BY <1>0, <2>1, <2>2, <2>3 DEF CeilingKept, PendingBounded
<1>6. CASE Stop
  <2>1. ~stop /\ stop' /\ UNCHANGED <<pending, pc>>
    BY <1>6 DEF Stop
  <2> QED
    BY <1>0, <2>1 DEF CeilingKept, PendingBounded
<1>7. CASE Reopen
  <2>1. pc = "park" /\ pc' = "read" /\ UNCHANGED pending
    BY <1>7 DEF Reopen
  <2> QED
    BY <1>0, <2>1 DEF CeilingKept, PendingBounded
<1>8. CASE DrainPage \/ ReadNewBatch \/ ReadFindsNoGroup
  BY <1>3, <1>8 DEF DrainPage, ReadNewBatch, ReadFindsNoGroup
<1>9. CASE TaskAcks
  <2>1. pending' = TrimPrefix(pending, taskSnap) /\ UNCHANGED <<stop, pc>>
    BY <1>9 DEF TaskAcks
  <2> QED
    BY <1>0, <1>1, <2>1, TrimShortens
<1>10. CASE PauseAck \/ FinalAck
  <2>1. /\ pending' = TrimPrefix(pending, mainSnap) /\ UNCHANGED stop
        /\ pc' \in {"park", "close"} /\ (pc' = "park" => pc = "pauseack")
    BY <1>10 DEF PauseAck, FinalAck
  <2> QED
    BY <1>0, <1>1, <2>1, TrimShortens
<1>11. CASE Crash \/ Exit
  <2>1. pending' = <<>> /\ pc' = "down"
    BY <1>11 DEF Crash, Exit, LoseProcess
  <2>2. Len(pending') = 0
    BY <2>1
  <2> QED
    BY <1>0, <2>1, <2>2 DEF CeilingKept, PendingBounded
<1>12. ASSUME NEW m \in Msgs, Apply(m) PROVE CeilingKept'
  BY <1>2, <1>12 DEF Apply
<1>13. CASE ApplyEnds \/ SignalRaises
  BY <1>2, <1>13 DEF ApplyEnds, SignalRaises, NextRead
<1>14. CASE NotPaused \/ Paused \/ Park \/ PauseCheckRaises
  BY <1>2, <1>14 DEF NotPaused, Paused, Park, PauseCheckRaises
<1>15. CASE Start \/ DrainEnds \/ DrainRaises \/ ReadRaises
  BY <1>2, <1>15 DEF Start, DrainEnds, DrainRaises, ReadRaises
<1>16. CASE StopSeen \/ CancelIsSwallowed \/ CancelReraises \/ CancelAndFlush
  BY <1>2, <1>16 DEF StopSeen, CancelIsSwallowed, CancelReraises, CancelAndFlush
<1>17. CASE XackRaises \/ Close
  BY <1>2, <1>17 DEF XackRaises, Close
<1>18. CASE TaskWakes \/ TaskRenews \/ TaskStops \/ TaskFlushes \/ TaskAckRaises
  BY <1>2, <1>18 DEF TaskWakes, TaskRenews, TaskStops, TaskFlushes, TaskAckRaises
<1>19. CASE Write \/ Orchestrator \/ DestroyGroup \/ LivenessExpires
  BY <1>2, <1>19
  DEF Write, Orchestrator, OrchestratorSeesNoPending, OrchestratorSeesNoConsumer,
      OrchestratorSetsPause, OrchestratorClearsPause, DestroyGroup, LivenessExpires
<1>20. CASE UNCHANGED vars
  BY <1>2, <1>20 DEF vars
<1> QED
  BY <1>4, <1>5, <1>6, <1>7, <1>8, <1>9, <1>10, <1>11, <1>12, <1>13, <1>14, <1>15,
     <1>16,
     <1>17, <1>18, <1>19, <1>20
  DEF Next, Coroutine, FlushTask, RedisErrors

\* _pending_ack never reaches 2 * max_pending_ack plus two batches, for every
\* limit, batch size and number of faults, pauses and stops.
THEOREM PendingIsBounded == Spec => []PendingBounded
<1>1. Init => BoundInv
  BY ConstantsAssumption DEF Init, BoundInv, BatchBounded, CeilingKept, PendingBounded
<1>2. IInv /\ BoundInv /\ [Next]_vars => BoundInv'
  BY BatchStep, CeilingStep DEF BoundInv
<1>3. BoundInv => PendingBounded
  BY DEF BoundInv, CeilingKept
<1> QED
  BY <1>1, <1>2, <1>3, InductiveInvariant, PTL DEF Spec

--------------------------------------------------------------------------------
(* Read your own writes *)

\* MAXLEN has not reached an entry that is still pending.
PendingKept == \A m \in pel : m > trimmed

Good == pel \ Poison

\* A batch is in hand only between its read and its last _apply.
InHand ==
    /\ batch # {} => pc \in {"check", "process", "apply"}
    /\ applied # <<>> => pc \in {"apply", "signal"}

\* Everything the consumer knows of was delivered.
Delivered ==
    /\ pel \subseteq 1..cursor /\ processed \subseteq 1..cursor
    /\ Range(pending) \subseteq 1..cursor
    /\ processed \cap Poison = {} /\ Range(applied) \cap Poison = {}

\* The batch is applied in id order, and every row applied from it is visible.
InOrder ==
    /\ batch \cup Range(applied) \subseteq pel
    /\ \A i \in 1..Len(applied), b \in batch : applied[i] < b
    /\ \A i, j \in 1..Len(applied) : i < j => applied[i] < applied[j]
    /\ \A i \in 1..Len(applied) : Visible(applied[i])

Draining == phase = "drain" /\ pc \in {"drain", "process", "apply", "signal"}

\* _drain_pel has replayed what is pending up to lastId, but for the batch in hand.
DrainedSoFar ==
    /\ \A x \in Good : x <= lastId => x \in Range(pending) \cup Range(applied) \cup batch
    /\ \A b \in batch : b <= lastId /\ \A m \in pel : b < m /\ m <= lastId => m \in batch
    /\ \A i \in 1..Len(applied) : applied[i] <= lastId

Serving == phase = "loop" /\ pc \in {"read", "check", "process", "apply", "signal"}

\* In the read loop everything pending is in hand or in _pending_ack, and the
\* batch in hand is newer than all that was processed.
CaughtUp ==
    /\ Good \subseteq Range(pending) \cup Range(applied) \cup batch
    /\ (batch \cup Range(applied)) \cap Range(pending) = {}
    /\ \A b \in batch, m \in processed : m < b

\* _pending_ack names a message only behind every older one that is pending: so a
\* prefix of it is acknowledged oldest first.
AckOrder ==
    \A i \in 1..Len(pending), x \in Good :
        x < pending[i] => \E j \in 1..i - 1 : pending[j] = x

\* A processed message is acknowledged only after every older one.
AckedOldestFirst == \A x \in Good, m \in processed : x < m => m \in pel

\* A row the drain has overwritten with an older one will be replayed by it.
Replayed(m) == m \in pel /\ (pc = "down" \/ (Draining /\ (m > lastId \/ m \in batch)))

VisibleOrReplayed == \A m \in processed : Visible(m) \/ Replayed(m)

CalmBody ==
    /\ ~stop
    /\ Delivered /\ InOrder
    /\ Draining => DrainedSoFar
    /\ Serving => CaughtUp
    /\ AckOrder /\ AckedOldestFirst
    /\ VisibleOrReplayed

CalmInv == Calm => CalmBody

\* A step in which nobody has stopped, paused or destroyed anything yet.
LEMMA CalmStep ==
    ASSUME BudgetLow, [Next]_vars, Calm'
    PROVE  Calm /\ ~Spend("stop") /\ ~Spend("pause") /\ ~Spend("destroy")
BY Frugal DEF Calm, Faults

\* Elements of a sequence and their indices.
LEMMA InRange ==
    ASSUME NEW S, NEW s \in Seq(S)
    PROVE  /\ \A i \in 1..Len(s) : s[i] \in Range(s)
           /\ \A x \in Range(s) : \E i \in 1..Len(s) : s[i] = x
BY DEF Range

\* The ids after applied.append.
LEMMA AppendIds ==
    ASSUME NEW S, NEW s \in Seq(S), NEW x \in S
    PROVE  Range(Append(s, x)) = Range(s) \cup {x}
<1> DEFINE t == Append(s, x)
<1>1. /\ Len(s) \in Nat /\ Len(t) = Len(s) + 1 /\ t[Len(s) + 1] = x /\ t \in Seq(S)
      /\ \A i \in 1..Len(s) : t[i] = s[i]
  OBVIOUS
<1> HIDE DEF t
<1>2. \A i \in 1..Len(t) : i \in 1..Len(s) \/ i = Len(s) + 1
  BY <1>1
<1>3. \A i \in 1..Len(s) : i \in 1..Len(t)
  BY <1>1
<1>4. Len(s) + 1 \in 1..Len(t)
  BY <1>1
<1>5. \A y \in Range(t) : y \in Range(s) \/ y = x
  <2> SUFFICES ASSUME NEW y \in Range(t) PROVE y \in Range(s) \/ y = x
    OBVIOUS
  <2>1. PICK i \in 1..Len(t) : t[i] = y
    BY <1>1, InRange
  <2>2. CASE i \in 1..Len(s)
    BY <1>1, <2>1, <2>2, InRange
  <2>3. CASE i = Len(s) + 1
    BY <1>1, <2>1, <2>3
  <2> QED
    BY <1>2, <2>2, <2>3
<1>6. x \in Range(t)
  BY <1>1, <1>4, InRange
<1>7. \A y \in Range(s) : y \in Range(t)
  <2> SUFFICES ASSUME NEW y \in Range(s) PROVE y \in Range(t)
    OBVIOUS
  <2>1. PICK i \in 1..Len(s) : s[i] = y
    BY InRange
  <2>2. t[i] = y /\ i \in 1..Len(t)
    BY <1>1, <1>3, <2>1
  <2> QED
    BY <1>1, <2>2, InRange
<1>8. Range(t) = Range(s) \cup {x}
  BY <1>5, <1>6, <1>7
<1> QED
  BY <1>8 DEF t

\* The ids after pending_ack.extend.
LEMMA ConcatIds ==
    ASSUME NEW S, NEW s \in Seq(S), NEW r \in Seq(S)
    PROVE  Range(s \o r) = Range(s) \cup Range(r)
<1> DEFINE t == s \o r
<1>1. /\ Len(s) \in Nat /\ Len(r) \in Nat /\ Len(t) = Len(s) + Len(r) /\ t \in Seq(S)
      /\ \A i \in 1..Len(s) : t[i] = s[i]
      /\ \A i \in 1..Len(r) : t[Len(s) + i] = r[i]
  OBVIOUS
<1> HIDE DEF t
<1>2. Range(t) \subseteq Range(s) \cup Range(r)
  BY ConcatRange DEF t
<1>3. \A y \in Range(s) : y \in Range(t)
  <2> SUFFICES ASSUME NEW y \in Range(s) PROVE y \in Range(t)
    OBVIOUS
  <2>1. PICK i \in 1..Len(s) : s[i] = y
    BY InRange
  <2>2. t[i] = y /\ i \in 1..Len(t)
    BY <1>1, <2>1
  <2> QED
    BY <1>1, <2>2, InRange
<1>4. \A y \in Range(r) : y \in Range(t)
  <2> SUFFICES ASSUME NEW y \in Range(r) PROVE y \in Range(t)
    OBVIOUS
  <2>1. PICK i \in 1..Len(r) : r[i] = y
    BY InRange
  <2>2. t[Len(s) + i] = y /\ Len(s) + i \in 1..Len(t)
    BY <1>1, <2>1
  <2> QED
    BY <1>1, <2>2, InRange
<1>5. Range(t) = Range(s) \cup Range(r)
  BY <1>2, <1>3, <1>4
<1> QED
  BY <1>5 DEF t

\* The batch in hand, step by step.
LEMMA InHandStep ==
    ASSUME InHand, [Next]_vars
    PROVE  InHand'
<1> USE DEF streamVars, groupVars, storeVars, batchVars, ackVars, taskVars
<1>1. CASE Write \/ Orchestrator \/ DestroyGroup \/ LivenessExpires \/ Stop
  BY <1>1
  DEF Write, Orchestrator, OrchestratorSeesNoPending, OrchestratorSeesNoConsumer,
      OrchestratorSetsPause, OrchestratorClearsPause, DestroyGroup, LivenessExpires, Stop,
      InHand
<1>2. CASE Start \/ DrainPage \/ DrainEnds \/ DrainRaises
  BY <1>2 DEF Start, DrainPage, DrainEnds, DrainRaises, InHand
<1>3. CASE ReadNewBatch \/ ReadFindsNoGroup \/ ReadRaises
  BY <1>3 DEF ReadNewBatch, ReadFindsNoGroup, ReadRaises, InHand
<1>4. CASE NotPaused \/ Paused \/ PauseAck \/ Park \/ Reopen \/ PauseCheckRaises
  BY <1>4 DEF NotPaused, Paused, PauseAck, Park, Reopen, PauseCheckRaises, InHand
<1>5. CASE EnterBatch \/ ApplyEnds \/ Signal \/ SignalRaises
  BY <1>5 DEF EnterBatch, ApplyEnds, Signal, SignalRaises, InHand
<1>6. ASSUME NEW m \in Msgs, Apply(m) PROVE InHand'
  BY <1>6 DEF Apply, InHand
<1>7. CASE TaskWakes \/ TaskRenews \/ TaskStops \/ TaskFlushes \/ TaskAcks \/ TaskAckRaises
  BY <1>7
  DEF TaskWakes, TaskRenews, TaskStops, TaskFlushes, TaskAcks, TaskAckRaises, InHand
<1>8. CASE StopSeen \/ CancelIsSwallowed \/ CancelReraises \/ CancelAndFlush
  BY <1>8 DEF StopSeen, CancelIsSwallowed, CancelReraises, CancelAndFlush, InHand
<1>9. CASE FinalAck \/ XackRaises \/ Close
  BY <1>9 DEF FinalAck, XackRaises, Close, InHand
<1>10. CASE Crash \/ Exit
  BY <1>10 DEF Crash, Exit, LoseProcess, InHand
<1>11. CASE UNCHANGED vars
  BY <1>11 DEF vars, InHand
<1> QED
  BY <1>1, <1>2, <1>3, <1>4, <1>5, <1>6, <1>7, <1>8, <1>9, <1>10, <1>11
  DEF Next, Coroutine, FlushTask, RedisErrors

\* A step of nobody's messages: the points the coroutine passes keep their claims.
LEMMA CalmFrame ==
    ASSUME CalmBody,
           UNCHANGED <<pel, cursor, processed, pending, applied, batch, online, stop>>,
           Draining' => Draining /\ lastId' = lastId, Serving' => Serving,
           \A m \in pel : Replayed(m) => Replayed(m)'
    PROVE  CalmBody'
<1>1. Delivered' /\ InOrder' /\ AckOrder' /\ AckedOldestFirst' /\ ~stop'
  BY DEF Visible, CalmBody, Delivered, InOrder, AckOrder, AckedOldestFirst, Good
<1>2. Draining' => DrainedSoFar'
  BY DEF CalmBody, DrainedSoFar, Good
<1>3. Serving' => CaughtUp'
  BY DEF CalmBody, CaughtUp, Good
<1>4. VisibleOrReplayed'
  <2> SUFFICES ASSUME NEW m \in processed
               PROVE  Visible(m) \/ Replayed(m)'
    BY DEF Visible, VisibleOrReplayed
  <2>1. Visible(m) \/ Replayed(m)
    BY DEF Visible, CalmBody, VisibleOrReplayed
  <2>2. Replayed(m) => m \in pel
    BY DEF Replayed
  <2> QED
    BY <2>1, <2>2
<1> QED
  BY <1>1, <1>2, <1>3, <1>4 DEF CalmBody

\* The process is lost: what was pending will be replayed.
LEMMA CalmLoses ==
    ASSUME CalmBody, LoseProcess, UNCHANGED <<pel, cursor, processed, online>>
    PROVE  CalmBody'
<1>1. /\ pc' = "down" /\ batch' = {} /\ applied' = <<>> /\ pending' = <<>> /\ ~stop'
      /\ Range(applied') = {} /\ Range(pending') = {} /\ Len(pending') = 0 /\ Len(applied') = 0
  BY EmptyRange DEF LoseProcess
<1>2. Delivered' /\ InOrder'
  BY <1>1 DEF Visible, CalmBody, Delivered, InOrder
<1>3. AckOrder' /\ AckedOldestFirst'
  BY <1>1 DEF CalmBody, AckOrder, AckedOldestFirst, Good
<1>4. ~Draining' /\ ~Serving'
  BY <1>1 DEF Draining, Serving
<1>5. VisibleOrReplayed'
  BY <1>1 DEF Visible, CalmBody, VisibleOrReplayed, Replayed
<1> QED
  BY <1>1, <1>2, <1>3, <1>4, <1>5 DEF CalmBody

\* An XACK of a prefix of _pending_ack, with or without the del that follows it.
LEMMA CalmAcks ==
    ASSUME IInv, CalmBody, ~Draining, pc # "down", ~Draining', Serving' => Serving,
           NEW s \in Seq(1..last), IsPrefixOf(s, pending), pel' = pel \ Range(s),
           pending' = pending \/ pending' = TrimPrefix(pending, s),
           (batch \cup Range(applied)) \cap Range(pending) = {},
           UNCHANGED <<cursor, processed, applied, batch, online, stop>>
    PROVE  CalmBody'
<1>1. /\ pending \in Seq(1..last) /\ last \in Nat
      /\ Range(pending') \subseteq Range(pending) /\ pending' \in Seq(1..last)
  BY TrimRange DEF IInv, TypeOK, TypeFlushTask, TypeRedis
<1>2. Range(pending) \subseteq Range(s) \cup Range(pending')
  BY <1>1, TrimDrops
<1>3. Range(s) \subseteq Range(pending)
  <2>1. ASSUME NEW i \in 1..Len(s) PROVE i \in 1..Len(pending) /\ s[i] = pending[i]
    BY <1>1 DEF IsPrefixOf
  <2> QED
    BY <1>1, <2>1, InRange, SMTT(60)
<1>4. Delivered'
  BY <1>1 DEF CalmBody, Delivered
<1>5. InOrder'
  BY <1>3 DEF Visible, CalmBody, InOrder
<1>6. Serving' => CaughtUp'
  <2> SUFFICES ASSUME Serving PROVE CaughtUp'
    OBVIOUS
  <2>1. CaughtUp
    BY DEF CalmBody
  <2> QED
    BY <1>1, <1>2, <2>1 DEF CaughtUp, Good
<1>7. AckOrder'
  <2>1. CASE pending' = pending
    BY <2>1 DEF CalmBody, AckOrder, Good
  <2>2. CASE pending' = TrimPrefix(pending, s)
    <3>1. /\ Len(s) \in Nat /\ Len(pending) \in Nat /\ Len(s) <= Len(pending)
          /\ Len(pending') = Len(pending) - Len(s)
          /\ \A i \in 1..Len(pending') : pending'[i] = pending[Len(s) + i]
      BY <1>1, <2>2 DEF TrimPrefix, IsPrefixOf
    <3> SUFFICES ASSUME NEW i \in 1..Len(pending'), NEW x \in Good', x < pending'[i]
                 PROVE  \E j \in 1..i - 1 : pending'[j] = x
      BY DEF AckOrder
    <3>2. x \in Good /\ x \notin Range(s) /\ Len(s) + i \in 1..Len(pending)
      BY <3>1 DEF Good
    <3>3. PICK j \in 1..(Len(s) + i) - 1 : pending[j] = x
      BY <3>1, <3>2 DEF CalmBody, AckOrder
    <3>4. j > Len(s)
      <4>1. ASSUME j <= Len(s) PROVE FALSE
        <5>1. j \in 1..Len(s) /\ s[j] = x
          BY <3>1, <3>3, <4>1 DEF IsPrefixOf
        <5> QED
          BY <3>2, <5>1, InRange
      <4> QED
        BY <3>1, <4>1
    <3>5. /\ j - Len(s) \in 1..i - 1 /\ j - Len(s) \in 1..Len(pending')
          /\ Len(s) + (j - Len(s)) = j
      BY <3>1, <3>4
    <3>6. pending'[j - Len(s)] = x
      BY <3>1, <3>3, <3>5
    <3> QED
      BY <3>5, <3>6
  <2> QED
    BY <2>1, <2>2
<1>8. AckedOldestFirst'
  <2> SUFFICES ASSUME NEW x \in Good', NEW m \in processed, x < m, m \in Range(s)
               PROVE  FALSE
    BY DEF CalmBody, AckedOldestFirst, Good
  <2>1. PICK i \in 1..Len(s) : s[i] = m
    BY InRange
  <2>2. /\ Len(s) \in Nat /\ Len(pending) \in Nat
        /\ i \in 1..Len(pending) /\ pending[i] = m /\ x \in Good /\ x \notin Range(s)
    BY <1>1, <2>1 DEF IsPrefixOf, Good
  <2>3. PICK j \in 1..i - 1 : pending[j] = x
    BY <2>2 DEF CalmBody, AckOrder
  <2>4. j \in 1..Len(s) /\ s[j] = x
    BY <2>1, <2>2, <2>3 DEF IsPrefixOf
  <2> QED
    BY <2>2, <2>4, InRange
<1>9. VisibleOrReplayed'
  BY DEF Visible, CalmBody, VisibleOrReplayed, Replayed
<1> QED
  BY <1>4, <1>5, <1>6, <1>7, <1>8, <1>9 DEF CalmBody

\* _apply of one message.
LEMMA CalmApplies ==
    ASSUME IInv, InHand, CalmBody, NEW x \in Msgs, Apply(x)
    PROVE  CalmBody'
<1> USE DEF streamVars, groupVars, storeVars, batchVars, ackVars, taskVars
<1>1. /\ pc = "apply" /\ pc' = "apply" /\ x \in batch /\ batch' = batch \ {x}
      /\ \A b \in batch : x <= b
      /\ UNCHANGED <<pel, cursor, processed, pending, phase, lastId, stop>>
  BY DEF Apply, IsOldest
<1>2. /\ last \in Nat /\ batch \subseteq 1..last /\ pel \subseteq 1..last
      /\ processed \subseteq 1..last /\ last <= MaxMsgs
      /\ applied \in Seq(1..last) /\ online \in [Entities -> 0..last]
      /\ lastId \in 0..last /\ MaxMsgs \in Nat
  BY ConstantsAssumption DEF IInv, TypeOK, TypeRedis, TypeStores, TypeCoroutine
<1>3. /\ x \in pel /\ \A b \in batch' : x < b
      /\ Delivered /\ InOrder /\ AckOrder /\ AckedOldestFirst /\ VisibleOrReplayed
      /\ Draining => DrainedSoFar
      /\ Serving => CaughtUp
      /\ Draining \/ Serving
  <2>1. \A b \in batch' : x < b
    BY <1>1, <1>2
  <2>2. Draining \/ Serving
    BY <1>1 DEF Draining, Serving, IInv, TypeOK, TypeCoroutine
  <2> QED
    BY <1>1, <2>1, <2>2 DEF Visible, CalmBody, InOrder
<1>4. AckOrder' /\ AckedOldestFirst' /\ (Draining' <=> Draining) /\ (Serving' <=> Serving)
  BY <1>1, <1>3 DEF AckOrder, AckedOldestFirst, Good, Draining, Serving
<1>5. CASE x \in Poison
  <2>1. applied' = applied
    BY <1>5 DEF Apply
  <2>0. \A m \in 1..last : Visible(m) => Visible(m)'
    <3>1. /\ x \in Msgs /\ EntityOf \in [Msgs -> Entities]
          /\ \A m \in 1..last : m \in Msgs
      BY <1>2, ConstantsAssumption DEF Msgs
    <3>2. CASE x \in Halfway
      <4>1. online' = [online EXCEPT ![EntityOf[x]] = x]
        BY <3>2 DEF Apply
      <4> QED
        BY <1>2, <3>1, <3>2, <4>1 DEF Visible
    <3>3. CASE x \notin Halfway
      BY <1>5, <3>3 DEF Apply, Visible
    <3> QED
      BY <3>2, <3>3
  <2>2. Delivered' /\ InOrder'
    <3>1. \A i \in 1..Len(applied) : applied[i] \in 1..last /\ Visible(applied[i])
      BY <1>2, <1>3 DEF InOrder
    <3>2. \A i \in 1..Len(applied) : Visible(applied[i])'
      BY <2>0, <2>1, <3>1 DEF Visible
    <3> QED
      BY <1>1, <1>3, <2>1, <3>2 DEF Delivered, InOrder
  <2>3. Draining => DrainedSoFar'
    <3> SUFFICES ASSUME Draining PROVE DrainedSoFar'
      OBVIOUS
    <3>1. ASSUME NEW y \in Good', y <= lastId
          PROVE  y \in Range(pending) \cup Range(applied) \cup batch'
      BY <1>1, <1>3, <1>5, <3>1 DEF DrainedSoFar, Good
    <3>2. ASSUME NEW b \in batch'
          PROVE  b <= lastId /\ \A m \in pel : b < m /\ m <= lastId => m \in batch'
      <4>1. b \in batch /\ x < b /\ b \in Int /\ x \in Int
        BY <1>1, <1>2, <1>3
      <4>2. ASSUME NEW m \in pel, b < m, m <= lastId PROVE m \in batch'
        <5>1. m \in batch /\ m \in Int
          BY <1>2, <1>3, <4>1, <4>2 DEF DrainedSoFar
        <5>2. m # x
          BY <4>1, <4>2, <5>1
        <5> QED
          BY <1>1, <5>1, <5>2
      <4> QED
        BY <1>3, <4>1, <4>2 DEF DrainedSoFar
    <3> QED
      BY <1>1, <1>3, <2>1, <3>1, <3>2 DEF DrainedSoFar
  <2>4. Serving => CaughtUp'
    BY <1>1, <1>3, <1>5, <2>1 DEF CaughtUp, Good
  <2>5. VisibleOrReplayed'
    <3>1. x \notin processed
      BY <1>3, <1>5 DEF Delivered
    <3> SUFFICES ASSUME NEW m \in processed PROVE Visible(m)' \/ Replayed(m)'
      BY <1>1 DEF VisibleOrReplayed
    <3>2. m \in 1..last /\ m # x /\ (Visible(m) \/ Replayed(m))
      BY <1>2, <1>3, <3>1 DEF VisibleOrReplayed
    <3>3. CASE Visible(m)
      BY <2>0, <3>2, <3>3
    <3>4. CASE Replayed(m)
      BY <1>1, <1>4, <3>2, <3>4 DEF Replayed
    <3> QED
      BY <3>2, <3>3, <3>4
  <2> QED
    BY <1>1, <1>4, <2>2, <2>3, <2>4, <2>5 DEF CalmBody
<1>6. CASE x \notin Poison
  <2>1. online' = [online EXCEPT ![EntityOf[x]] = x] /\ applied' = Append(applied, x)
    BY <1>6, ConstantsAssumption DEF Apply
  <2>2. /\ x \in 1..last /\ Len(applied) \in Nat /\ Len(applied') = Len(applied) + 1
        /\ applied'[Len(applied) + 1] = x
        /\ \A i \in 1..Len(applied) : applied'[i] = applied[i]
        /\ applied' \in Seq(1..last)
    BY <1>1, <1>2, <2>1
  <2>3. Range(applied') = Range(applied) \cup {x}
    BY <1>2, <2>1, <2>2, AppendIds, SMTT(60)
  <2>4. \A m \in 1..last : m \in Msgs /\ EntityOf[m] \in Entities
    BY <1>2, ConstantsAssumption DEF Msgs
  <2>5. \A m \in 1..last : online'[EntityOf[m]] =
                               IF EntityOf[m] = EntityOf[x] THEN x ELSE online[EntityOf[m]]
    BY <1>2, <2>1, <2>2, <2>4
  <2>6. Delivered'
    BY <1>1, <1>3, <1>6, <2>3 DEF Delivered
  <2>7. InOrder'
    <3>1. batch' \cup Range(applied') \subseteq pel'
      BY <1>1, <1>3, <2>3 DEF Visible, InOrder
    <3>2. \A i \in 1..Len(applied) : applied[i] < x /\ applied[i] \in 1..last
      BY <1>1, <1>2, <1>3 DEF Visible, InOrder
    <3>3. \A i \in 1..Len(applied') : i \in 1..Len(applied) \/ i = Len(applied) + 1
      BY <2>2
    <3>4. \A i \in 1..Len(applied'), b \in batch' : applied'[i] < b
      BY <1>1, <1>3, <2>2, <3>3 DEF Visible, InOrder
    <3>5. \A i, j \in 1..Len(applied') : i < j => applied'[i] < applied'[j]
      <4> SUFFICES ASSUME NEW i \in 1..Len(applied'), NEW j \in 1..Len(applied'), i < j
                   PROVE  applied'[i] < applied'[j]
        OBVIOUS
      <4>1. i \in 1..Len(applied)
        BY <2>2
      <4>2. CASE j = Len(applied) + 1
        BY <2>2, <3>2, <4>1, <4>2
      <4>3. CASE j \in 1..Len(applied)
        BY <1>3, <2>2, <4>1, <4>3 DEF Visible, InOrder
      <4> QED
        BY <3>3, <4>2, <4>3
    <3>6. \A i \in 1..Len(applied') : Visible(applied[i])'
      <4> SUFFICES ASSUME NEW i \in 1..Len(applied')
                   PROVE  Visible(applied[i])'
        OBVIOUS
      <4>1. CASE i = Len(applied) + 1
        <5>1. applied'[i] = x /\ online'[EntityOf[x]] = x /\ x \in Int
          BY <2>2, <2>5, <4>1
        <5> QED
          BY <5>1 DEF Visible
      <4>2. CASE i \in 1..Len(applied)
        <5>1. applied'[i] = applied[i] /\ applied[i] < x /\ applied[i] \in 1..last
          BY <2>2, <3>2, <4>2
        <5>2. Visible(applied[i])
          BY <1>3, <4>2 DEF InOrder
        <5>3. \/ online'[EntityOf[applied[i]]] = x
              \/ online'[EntityOf[applied[i]]] = online[EntityOf[applied[i]]]
          BY <2>5, <5>1
        <5>4. x \in Int /\ applied[i] \in Int
          BY <2>2, <5>1
        <5> QED
          BY <5>1, <5>2, <5>3, <5>4 DEF Visible
      <4> QED
        BY <3>3, <4>1, <4>2
    <3> QED
      BY <3>1, <3>4, <3>5, <3>6 DEF Visible, InOrder
  <2>8. Draining => DrainedSoFar'
    <3> SUFFICES ASSUME Draining PROVE DrainedSoFar'
      OBVIOUS
    <3>1. ASSUME NEW y \in Good', y <= lastId
          PROVE  y \in Range(pending) \cup Range(applied') \cup batch'
      BY <1>1, <1>3, <2>3, <3>1 DEF DrainedSoFar, Good
    <3>2. ASSUME NEW b \in batch'
          PROVE  b <= lastId /\ \A m \in pel : b < m /\ m <= lastId => m \in batch'
      <4>1. b \in batch /\ x < b /\ b \in Int /\ x \in Int
        BY <1>1, <1>2, <1>3
      <4>2. ASSUME NEW m \in pel, b < m, m <= lastId PROVE m \in batch'
        <5>1. m \in batch /\ m \in Int
          BY <1>2, <1>3, <4>1, <4>2 DEF DrainedSoFar
        <5>2. m # x
          BY <4>1, <4>2, <5>1
        <5> QED
          BY <1>1, <5>1, <5>2
      <4> QED
        BY <1>3, <4>1, <4>2 DEF DrainedSoFar
    <3>3. \A i \in 1..Len(applied') : applied'[i] <= lastId
      <4>1. x <= lastId /\ \A i \in 1..Len(applied) : applied[i] <= lastId
        BY <1>1, <1>3 DEF DrainedSoFar
      <4> QED
        BY <2>2, <4>1
    <3> QED
      BY <1>1, <3>1, <3>2, <3>3 DEF DrainedSoFar
  <2>9. Serving => CaughtUp'
    BY <1>1, <1>3, <2>3 DEF CaughtUp, Good
  <2>10. VisibleOrReplayed'
    <3> SUFFICES ASSUME NEW m \in processed
                 PROVE  Visible(m)' \/ Replayed(m)'
      BY <1>1 DEF Visible, VisibleOrReplayed
    <3>1. m \in 1..last /\ m \in Int /\ x \in Int
      BY <1>2, <2>2
    <3>2. CASE EntityOf[m] # EntityOf[x]
      <4>1. online'[EntityOf[m]] = online[EntityOf[m]] /\ m # x
        BY <2>5, <3>1, <3>2
      <4> QED
        BY <1>1, <1>3, <1>4, <4>1 DEF Visible, VisibleOrReplayed, Replayed
    <3>3. CASE EntityOf[m] = EntityOf[x] /\ m <= x
      BY <2>5, <3>1, <3>3 DEF Visible
    <3>4. CASE m > x /\ Draining
      <4>1. m \in pel
        BY <1>3, <1>6, <3>4 DEF AckedOldestFirst, Good
      <4>2. m > lastId \/ m \in batch
        BY <1>1, <1>2, <1>3, <3>1, <3>4, <4>1 DEF DrainedSoFar
      <4>3. m # x
        BY <3>1, <3>4
      <4> QED
        BY <1>1, <1>4, <3>4, <4>1, <4>2, <4>3 DEF Replayed
    <3>5. CASE m > x /\ Serving
      <4>1. m < x
        BY <1>1, <1>3, <3>5 DEF CaughtUp
      <4> QED
        BY <3>1, <3>5, <4>1
    <3> QED
      BY <1>3, <3>1, <3>2, <3>3, <3>4, <3>5
  <2> QED
    BY <1>1, <1>4, <2>6, <2>7, <2>8, <2>9, <2>10 DEF CalmBody
<1> QED
  BY <1>5, <1>6

\* The keys SET by the pipeline, and the ids that join _pending_ack when it returns.
LEMMA CalmSignals ==
    ASSUME IInv, InHand, CalmBody, Signal \/ SignalRaises
    PROVE  CalmBody'
<1> USE DEF streamVars, groupVars, storeVars, batchVars, ackVars, taskVars
<1>1. /\ pc = "signal" /\ applied' = <<>> /\ batch' = batch /\ batch = {}
      /\ UNCHANGED <<pel, cursor, phase, lastId, online, stop>>
  BY DEF Signal, SignalRaises, InHand
<1>2. /\ last \in Nat /\ applied \in Seq(1..last) /\ pending \in Seq(1..last)
      /\ Len(applied) \in Nat /\ Len(pending) \in Nat /\ pel \subseteq 1..last
      /\ phase \in {"drain", "loop"}
  BY DEF IInv, TypeOK, TypeRedis, TypeCoroutine, TypeFlushTask
<1>3. /\ Delivered /\ InOrder /\ AckOrder /\ AckedOldestFirst /\ VisibleOrReplayed /\ ~stop
      /\ Draining => DrainedSoFar
      /\ Serving => CaughtUp
      /\ Draining \/ Serving
  BY <1>1, <1>2 DEF CalmBody, Draining, Serving
<1>4. processed \subseteq processed' /\ processed' \subseteq processed \cup Range(applied)
  <2>1. CASE Signal
    BY <2>1 DEF Signal
  <2>2. CASE SignalRaises
    <3>1. PICK k \in 0..Len(applied) : processed' = processed \cup Range(SubSeq(applied, 1, k))
      BY <2>2 DEF SignalRaises
    <3>2. \A i \in 1..k : i \in 1..Len(applied) /\ applied[i] \in Range(applied)
      BY <1>2, InRange
    <3>3. Range(SubSeq(applied, 1, k)) \subseteq Range(applied)
      BY <1>2, <3>2 DEF Range
    <3> QED
      BY <3>1, <3>3
  <2> QED
    BY <2>1, <2>2
<1>5. ASSUME NEW m \in Range(applied)
      PROVE  m \in pel /\ Visible(m) /\ m \notin Poison
  <2>1. PICK i \in 1..Len(applied) : applied[i] = m
    BY <1>2, InRange
  <2>2. m \in pel /\ Visible(m)
    BY <1>3, <2>1 DEF InOrder
  <2> QED
    BY <1>3, <2>2 DEF Delivered
<1>6. Range(applied') = {} /\ Len(applied') = 0
  BY <1>1, EmptyRange
<1>7. AckedOldestFirst'
  BY <1>1, <1>3, <1>4, <1>5 DEF AckedOldestFirst, Good
<1>8. InOrder'
  BY <1>1, <1>6 DEF Visible, InOrder
<1>9. CASE Signal
  <2>1. pending' = pending \o applied /\ pc' = NextRead
    BY <1>9 DEF Signal
  <2>2. Range(pending') = Range(pending) \cup Range(applied)
    BY <1>2, <2>1, ConcatIds
  <2>3. /\ Len(pending') = Len(pending) + Len(applied)
        /\ \A i \in 1..Len(pending) : pending'[i] = pending[i]
        /\ \A i \in 1..Len(applied) : pending'[Len(pending) + i] = applied[i]
    BY <1>2, <2>1
  <2>4. Delivered'
    <3>1. Range(applied) \subseteq 1..cursor
      BY <1>3, <1>5 DEF Delivered
    <3> QED
      BY <1>1, <1>3, <1>4, <1>5, <1>6, <2>2, <3>1 DEF Delivered
  <2>5. Draining' => Draining /\ DrainedSoFar'
    BY <1>1, <1>3, <1>6, <2>1, <2>2 DEF Draining, DrainedSoFar, Good, NextRead
  <2>6. Serving' => Serving /\ CaughtUp'
    BY <1>1, <1>3, <1>6, <2>1, <2>2 DEF Serving, CaughtUp, Good, NextRead
  <2>7. AckOrder'
    <3> SUFFICES ASSUME NEW i \in 1..Len(pending'), NEW x \in Good, x < pending'[i]
                 PROVE  \E j \in 1..i - 1 : pending'[j] = x
      BY <1>1 DEF AckOrder, Good
    <3>0. i \in Nat /\ x \in Int
      BY <1>2, <2>3 DEF Good
    <3>1. CASE i <= Len(pending)
      <4>1. i \in 1..Len(pending) /\ x < pending[i]
        BY <1>2, <2>3, <3>0, <3>1
      <4>2. PICK j \in 1..i - 1 : pending[j] = x
        BY <1>3, <4>1 DEF AckOrder
      <4>3. j \in 1..Len(pending)
        BY <1>2, <3>0, <3>1, <4>2
      <4> QED
        BY <2>3, <4>2, <4>3
    <3>2. CASE i > Len(pending)
      <4> DEFINE k == i - Len(pending)
      <4>1. k \in 1..Len(applied) /\ i = Len(pending) + k
        BY <1>2, <2>3, <3>0, <3>2
      <4> HIDE DEF k
      <4>2. x < applied[k] /\ applied[k] \in Int
        BY <1>2, <2>3, <4>1
      <4>3. x \in Range(pending) \cup Range(applied)
        <5>1. CASE Draining
          <6>1. applied[k] <= lastId /\ lastId \in Int
            BY <1>3, <4>1, <5>1 DEF DrainedSoFar, IInv, TypeOK, TypeCoroutine
          <6>2. x <= lastId
            BY <3>0, <4>2, <6>1
          <6> QED
            BY <1>1, <1>3, <5>1, <6>2 DEF DrainedSoFar
        <5>2. CASE Serving
          BY <1>1, <1>3, <5>2 DEF CaughtUp
        <5> QED
          BY <1>3, <5>1, <5>2
      <4>4. CASE x \in Range(pending)
        <5>1. PICK j \in 1..Len(pending) : pending[j] = x
          BY <1>2, <4>4, InRange
        <5>2. j \in 1..i - 1
          BY <1>2, <3>0, <3>2, <5>1
        <5> QED
          BY <2>3, <5>1, <5>2
      <4>5. CASE x \in Range(applied)
        <5>1. PICK j \in 1..Len(applied) : applied[j] = x
          BY <1>2, <4>5, InRange
        <5>2. j < k
          <6>1. ASSUME ~(j < k) PROVE FALSE
            <7>1. j = k \/ k < j
              BY <1>2, <4>1, <5>1, <6>1
            <7>2. applied[k] <= applied[j]
              <8>1. CASE j = k
                BY <4>2, <8>1
              <8>2. CASE k < j
                <9>1. applied[k] < applied[j]
                  BY <1>3, <4>1, <5>1, <8>2 DEF Visible, InOrder
                <9> QED
                  BY <3>0, <4>2, <5>1, <9>1
              <8> QED
                BY <7>1, <8>1, <8>2
            <7> QED
              BY <3>0, <4>2, <5>1, <7>2
          <6> QED
            BY <6>1
        <5>3. Len(pending) + j \in 1..i - 1 /\ pending'[Len(pending) + j] = x
          BY <1>2, <2>3, <4>1, <5>1, <5>2
        <5> QED
          BY <5>3
      <4> QED
        BY <4>3, <4>4, <4>5
    <3> QED
      BY <1>2, <3>0, <3>1, <3>2
  <2>8. VisibleOrReplayed'
    <3> SUFFICES ASSUME NEW m \in processed'
                 PROVE  Visible(m) \/ Replayed(m)'
      BY <1>1 DEF Visible, VisibleOrReplayed
    <3>1. CASE m \in Range(applied)
      BY <1>5, <3>1
    <3>2. CASE m \in processed
      <4>1. Draining => Draining'
        BY <1>1, <2>1 DEF Draining, NextRead
      <4> QED
        BY <1>1, <1>3, <3>2, <4>1 DEF Visible, VisibleOrReplayed, Replayed
    <3> QED
      BY <1>4, <3>1, <3>2
  <2> QED
    BY <1>1, <1>3, <1>7, <1>8, <2>4, <2>5, <2>6, <2>7, <2>8 DEF CalmBody
<1>10. CASE SignalRaises
  <2>1. pending' = pending /\ pc' = IF phase = "drain" THEN "down" ELSE "cancel"
    BY <1>10 DEF SignalRaises
  <2>2. Delivered'
    <3>1. Range(applied) \subseteq 1..cursor
      BY <1>3, <1>5 DEF Delivered
    <3> QED
      BY <1>1, <1>3, <1>4, <1>5, <1>6, <2>1, <3>1 DEF Delivered
  <2>3. ~Draining' /\ ~Serving'
    BY <1>1, <2>1 DEF Draining, Serving
  <2>4. AckOrder'
    BY <1>1, <1>3, <2>1 DEF AckOrder, Good
  <2>5. VisibleOrReplayed'
    <3> SUFFICES ASSUME NEW m \in processed'
                 PROVE  Visible(m) \/ Replayed(m)'
      BY <1>1 DEF Visible, VisibleOrReplayed
    <3>1. CASE m \in Range(applied)
      BY <1>5, <3>1
    <3>2. CASE m \in processed
      BY <1>1, <1>3, <2>1, <3>2 DEF Visible, VisibleOrReplayed, Replayed, Draining
    <3> QED
      BY <1>4, <3>1, <3>2
  <2> QED
    BY <1>1, <1>3, <1>7, <1>8, <2>2, <2>3, <2>4, <2>5 DEF CalmBody
<1> QED
  BY <1>9, <1>10

\* _drain_pel: its first read, a page, its end.
LEMMA CalmStarts ==
    ASSUME IInv, InHand, CalmBody, Start
    PROVE  CalmBody'
<1> USE DEF streamVars, groupVars, storeVars, batchVars, ackVars, taskVars
<1>1. /\ pc = "down" /\ pc' = "drain" /\ phase' = "drain" /\ lastId' = 0
      /\ batch = {} /\ applied = <<>> /\ pel \subseteq 1..last /\ last \in Nat
      /\ UNCHANGED <<pel, cursor, processed, pending, applied, batch, online, stop>>
  BY DEF Start, InHand, IInv, TypeOK, TypeRedis
<1>2. Delivered' /\ InOrder' /\ AckOrder' /\ AckedOldestFirst' /\ ~stop'
  BY <1>1 DEF Visible, CalmBody, Delivered, InOrder, AckOrder, AckedOldestFirst, Good
<1>3. DrainedSoFar' /\ ~Serving'
  BY <1>1 DEF DrainedSoFar, Serving, Good
<1>4. VisibleOrReplayed'
  <2> SUFFICES ASSUME NEW m \in processed
               PROVE  Visible(m) \/ Replayed(m)'
    BY <1>1 DEF Visible, VisibleOrReplayed
  <2>1. CASE Visible(m)
    BY <2>1
  <2>2. CASE m \in pel
    <3>1. m > 0
      BY <1>1, <2>2
    <3> QED
      BY <1>1, <2>2, <3>1 DEF Replayed, Draining
  <2> QED
    BY <2>1, <2>2 DEF Visible, CalmBody, VisibleOrReplayed, Replayed
<1> QED
  BY <1>2, <1>3, <1>4 DEF CalmBody

\* A page holds everything that is pending up to the id where the next one begins.
LEMMA CalmDrains ==
    ASSUME IInv, InHand, CalmBody, PendingKept, DrainPage, phase = "drain"
    PROVE  CalmBody'
<1> USE DEF streamVars, groupVars, storeVars, batchVars, ackVars, taskVars
<1> DEFINE rest == {m \in pel : m > lastId}
           page == Page(rest, BatchCount)
<1>1. /\ pc = "drain" /\ pc' = "process" /\ phase' = "drain"
      /\ batch' = {m \in page : m > trimmed}
      /\ batch = {} /\ applied = <<>>
      /\ UNCHANGED <<pel, cursor, processed, pending, applied, online, stop>>
  BY DEF DrainPage, InHand
<1>2. IsNewest(lastId', page)
  BY DEF DrainPage
<1>3. /\ last \in Nat /\ pel \subseteq 1..last /\ lastId \in 0..last
      /\ rest \in SUBSET (1..last) /\ BatchCount \in Nat
  <2>1. last \in Nat /\ pel \subseteq 1..last /\ lastId \in 0..last
    BY ConstantsAssumption DEF IInv, TypeOK, TypeRedis, TypeCoroutine
  <2> QED
    BY <2>1, ConstantsAssumption
<1>4. page \subseteq rest
  BY PageSubset
<1>5. batch' = page
  BY <1>1, <1>4 DEF PendingKept
<1>6. /\ lastId' \in page /\ lastId' \in Int /\ lastId' > lastId
      /\ \A b \in page : b <= lastId'
  BY <1>2, <1>3, <1>4 DEF IsNewest
<1>7. ASSUME NEW m \in pel, m > lastId, m <= lastId' PROVE m \in page
  <2>1. m \in rest
    BY <1>7
  <2> HIDE DEF rest
  <2> QED
    BY <1>3, <1>6, <1>7, <2>1, PageIsPrefix
<1> HIDE DEF page, rest
<1>8. /\ Delivered /\ InOrder /\ AckOrder /\ AckedOldestFirst /\ VisibleOrReplayed /\ ~stop
      /\ Draining /\ DrainedSoFar
  BY <1>1 DEF CalmBody, Draining
<1>9. page \subseteq pel /\ \A b \in page : b > lastId /\ b \in Int
  BY <1>3, <1>4 DEF rest
<1>10. Range(applied) = {} /\ Len(applied) = 0
  BY <1>1, EmptyRange
<1>11. Delivered' /\ AckOrder' /\ AckedOldestFirst'
  BY <1>1, <1>8 DEF Delivered, AckOrder, AckedOldestFirst, Good
<1>12. InOrder'
  BY <1>1, <1>5, <1>9, <1>10 DEF Visible, InOrder
<1>13. DrainedSoFar'
  <2>1. ASSUME NEW x \in Good, x <= lastId'
        PROVE  x \in Range(pending) \cup page
    <3>1. x \in pel /\ x \in Int
      BY <1>3 DEF Good
    <3>2. CASE x <= lastId
      BY <1>1, <1>8, <1>10, <3>2 DEF DrainedSoFar
    <3>3. CASE x > lastId
      BY <1>7, <2>1, <3>1, <3>3
    <3> QED
      BY <1>3, <3>1, <3>2, <3>3
  <2>2. ASSUME NEW b \in page, NEW m \in pel, b < m, m <= lastId' PROVE m \in page
    <3>1. m \in Int /\ b \in Int /\ b > lastId /\ lastId \in Int
      BY <1>3, <1>9
    <3>2. m > lastId
      BY <2>2, <3>1
    <3> QED
      BY <1>7, <2>2, <3>2
  <2>3. \A x \in Good' :
            x <= lastId' => x \in Range(pending') \cup Range(applied') \cup batch'
    BY <1>1, <1>5, <2>1 DEF Good
  <2>4. \A b \in batch' :
            b <= lastId' /\ \A m \in pel' : b < m /\ m <= lastId' => m \in batch'
    BY <1>1, <1>5, <1>6, <2>2
  <2>5. \A i \in 1..Len(applied') : applied'[i] <= lastId'
    BY <1>1, <1>10
  <2> QED
    BY <2>3, <2>4, <2>5 DEF DrainedSoFar
<1>14. VisibleOrReplayed'
  <2> SUFFICES ASSUME NEW m \in processed
               PROVE  Visible(m) \/ Replayed(m)'
    BY <1>1 DEF Visible, VisibleOrReplayed
  <2>1. CASE Visible(m)
    BY <2>1
  <2>2. CASE Replayed(m)
    <3>1. m \in pel /\ m > lastId /\ m \in Int
      BY <1>1, <1>3, <2>2 DEF Replayed
    <3>2. m > lastId' \/ m \in page
      BY <1>6, <1>7, <3>1
    <3> QED
      BY <1>1, <1>5, <3>1, <3>2 DEF Replayed, Draining
  <2> QED
    BY <1>8, <2>1, <2>2 DEF Visible, VisibleOrReplayed
<1>15. ~Serving'
  BY <1>1 DEF Serving
<1> QED
  BY <1>1, <1>8, <1>11, <1>12, <1>13, <1>14, <1>15 DEF CalmBody

\* Nothing is left to replay: every processed row is visible again.
LEMMA CalmCatchesUp ==
    ASSUME IInv, InHand, CalmBody, DrainEnds, phase = "drain"
    PROVE  CalmBody'
<1> USE DEF streamVars, groupVars, storeVars, batchVars, ackVars, taskVars
<1>1. /\ pc = "drain" /\ pc' = "read" /\ phase' = "loop" /\ ~stop
      /\ batch = {} /\ applied = <<>> /\ Range(applied) = {}
      /\ UNCHANGED <<pel, cursor, processed, pending, applied, batch, online, stop>>
  BY EmptyRange DEF DrainEnds, InHand, CalmBody
<1>2. {m \in pel : m > lastId} = {}
  BY <1>1 DEF DrainEnds
<1>3. \A m \in pel : m <= lastId
  BY <1>2 DEF IInv, TypeOK, TypeRedis, TypeCoroutine
<1>4. Draining /\ DrainedSoFar
  BY <1>1 DEF CalmBody, Draining
<1>5. Delivered' /\ InOrder' /\ AckOrder' /\ AckedOldestFirst' /\ ~stop'
  BY <1>1 DEF Visible, CalmBody, Delivered, InOrder, AckOrder, AckedOldestFirst, Good
<1>6. CaughtUp'
  BY <1>1, <1>3, <1>4 DEF CaughtUp, DrainedSoFar, Good
<1>7. VisibleOrReplayed'
  <2>1. \A m \in processed : ~Replayed(m)
    BY <1>1, <1>2 DEF Replayed
  <2> QED
    BY <1>1, <2>1 DEF Visible, CalmBody, VisibleOrReplayed
<1>8. ~Draining'
  BY <1>1 DEF Draining
<1> QED
  BY <1>5, <1>6, <1>7, <1>8 DEF CalmBody

\* XREADGROUP ">": what it delivers is newer than everything the consumer knows.
LEMMA CalmReads ==
    ASSUME IInv, InHand, CalmBody, pc = "read", phase = "loop",
           ReadNewBatch \/ ReadRaises
    PROVE  CalmBody'
<1> USE DEF streamVars, groupVars, storeVars, batchVars, ackVars, taskVars
<1>1. PICK S \in SUBSET Undelivered :
          /\ Deliver(S)
          /\ ReadNewBatch => batch' = S
          /\ ReadRaises => batch' = batch
  <2>1. Page(Undelivered, BatchCount) \subseteq Undelivered
    BY PageSubset
  <2>2. CASE ReadNewBatch
    BY <2>1, <2>2 DEF ReadNewBatch, ReadRaises
  <2>3. CASE ReadRaises
    BY <2>1, <2>3 DEF ReadNewBatch, ReadRaises
  <2> QED
    BY <2>2, <2>3
<1>2. /\ batch = {} /\ applied = <<>> /\ Range(applied) = {} /\ Len(applied) = 0
      /\ pc' \in {"check", "cancel"} /\ (pc' = "check" => batch' = S)
      /\ batch' \in {{}, S}
      /\ UNCHANGED <<processed, pending, applied, online, stop, phase>>
  BY <1>1, EmptyRange DEF ReadNewBatch, ReadRaises, InHand
<1>3. /\ cursor \in Nat /\ last \in Nat /\ pel \subseteq 1..last /\ pending \in Seq(1..last)
      /\ processed \subseteq 1..last /\ pel' = pel \cup S
      /\ \A x \in S : x \in 1..last /\ x > cursor
  BY <1>1 DEF Undelivered, Deliver, IInv, TypeOK, TypeRedis, TypeFlushTask
<1>4. cursor' \in Nat /\ cursor <= cursor' /\ \A x \in S : x <= cursor'
  <2>1. CASE S = {} /\ cursor' = cursor
    BY <1>3, <2>1
  <2>2. CASE \E c \in S : IsNewest(c, S) /\ cursor' = c
    BY <1>3, <2>2 DEF IsNewest
  <2> QED
    BY <1>1, <2>1, <2>2 DEF Deliver
<1>5. /\ Delivered /\ InOrder /\ AckOrder /\ AckedOldestFirst /\ VisibleOrReplayed /\ ~stop
      /\ CaughtUp
  BY DEF CalmBody, Serving
<1>6. /\ \A m \in processed : m \in Int /\ m <= cursor
      /\ \A m \in Range(pending) : m \in Int /\ m <= cursor
      /\ \A m \in S : m \in Int /\ m \notin processed /\ m \notin Range(pending)
  BY <1>3, <1>5 DEF Delivered
<1>7. Delivered'
  <2>1. 1..cursor \subseteq 1..cursor'
    BY <1>3, <1>4
  <2>2. S \subseteq 1..cursor'
    BY <1>3, <1>4
  <2> QED
    BY <1>2, <1>3, <1>5, <2>1, <2>2 DEF Delivered
<1>8. InOrder'
  BY <1>2, <1>3 DEF Visible, InOrder
<1>9. Serving' => CaughtUp'
  <2> SUFFICES ASSUME batch' = S PROVE CaughtUp'
    BY <1>2 DEF Serving
  <2>1. \A b \in S, m \in processed : m < b
    BY <1>3, <1>6
  <2> QED
    BY <1>2, <1>3, <1>5, <1>6, <2>1 DEF CaughtUp, Good
<1>10. AckOrder'
  <2> SUFFICES ASSUME NEW i \in 1..Len(pending), NEW x \in Good', x < pending[i]
               PROVE  \E j \in 1..i - 1 : pending[j] = x
    BY <1>2 DEF AckOrder
  <2>1. pending[i] \in Int /\ pending[i] <= cursor
    BY <1>3, <1>6, InRange
  <2>2. x \notin S
    BY <1>3, <1>6, <2>1
  <2>3. x \in Good
    BY <1>3, <2>2 DEF Good
  <2> QED
    BY <1>5, <2>3 DEF AckOrder
<1>11. AckedOldestFirst'
  <2> SUFFICES ASSUME NEW x \in Good', NEW m \in processed, x < m PROVE m \in pel
    BY <1>2, <1>3 DEF AckedOldestFirst
  <2>1. x \notin S
    BY <1>3, <1>6
  <2>2. x \in Good
    BY <1>3, <2>1 DEF Good
  <2> QED
    BY <1>5, <2>2 DEF AckedOldestFirst
<1>12. VisibleOrReplayed'
  BY <1>2, <1>5 DEF Visible, VisibleOrReplayed, Replayed, Draining
<1>13. ~Draining'
  BY <1>2 DEF Draining
<1> QED
  BY <1>2, <1>5, <1>7, <1>8, <1>9, <1>10, <1>11, <1>12, <1>13 DEF CalmBody

\* Every step of a consumer that nobody stops or pauses.
LEMMA CalmBodyStep ==
    ASSUME IInv, BudgetLow, OneFlush, SnapsArePrefixes, InHand, CalmBody, PendingKept,
           [Next]_vars, Calm'
    PROVE  CalmBody'
<1> USE DEF streamVars, groupVars, storeVars, batchVars, ackVars, taskVars
<1>0. /\ ~Spend("stop") /\ ~Spend("pause") /\ ~Spend("destroy")
      /\ pc \notin {"pauseack", "park"} /\ orch # "paused"
      /\ taskSnap \in Seq(1..last) /\ mainSnap \in Seq(1..last)
      /\ phase \in {"drain", "loop"}
  BY CalmStep DEF OneFlush, IInv, TypeOK, TypeCoroutine, TypeFlushTask
<1> DEFINE Kept == UNCHANGED <<pel, cursor, processed, pending, applied, batch, online, stop>>
<1>1. ASSUME Kept, UNCHANGED <<pc, phase, lastId>> PROVE CalmBody'
  BY <1>1, CalmFrame DEF Draining, Serving, Replayed
<1>2. ASSUME Kept, pc # "down", ~Draining, ~Draining', Serving' => Serving
      PROVE  CalmBody'
  BY <1>2, CalmFrame DEF Replayed
<1>3. CASE Write \/ Orchestrator \/ LivenessExpires
  BY <1>1, <1>3
  DEF Write, Orchestrator, OrchestratorSeesNoPending, OrchestratorSeesNoConsumer,
      OrchestratorSetsPause, OrchestratorClearsPause, LivenessExpires
<1>4. CASE DestroyGroup \/ Stop
  BY <1>0, <1>4 DEF DestroyGroup, Stop
<1>5. CASE Start
  BY <1>5, CalmStarts
<1>6. CASE DrainPage \/ DrainEnds \/ DrainRaises
  <2>1. CASE phase = "drain"
    <3>1. CASE DrainPage
      BY <2>1, <3>1, CalmDrains
    <3>2. CASE DrainEnds
      BY <2>1, <3>2, CalmCatchesUp
    <3>3. CASE DrainRaises
      <4>1. Kept /\ pc' = "down"
        BY <3>3 DEF DrainRaises
      <4> QED
        BY <4>1, CalmFrame DEF Draining, Serving, Replayed
    <3> QED
      BY <1>6, <3>1, <3>2, <3>3
  <2>2. phase = "drain"
    BY <1>0, <1>6 DEF DrainPage, DrainEnds, DrainRaises, OneFlush
  <2> QED
    BY <2>1, <2>2
<1>7. CASE ReadNewBatch \/ ReadRaises
  <2>1. pc = "read" /\ phase = "loop"
    BY <1>7 DEF ReadNewBatch, ReadRaises, OneFlush
  <2> QED
    BY <1>7, <2>1, CalmReads
<1>8. CASE ReadFindsNoGroup
  <2>1. Kept /\ pc = "read" /\ pc' = "check" /\ phase = "loop" /\ phase' = phase
    BY <1>8 DEF ReadFindsNoGroup, InHand, OneFlush
  <2> QED
    BY <1>2, <2>1 DEF Draining, Serving
<1>9. CASE NotPaused
  <2>1. Kept /\ pc = "check" /\ pc' \in {"read", "process"} /\ phase = "loop" /\ phase' = phase
    BY <1>9 DEF NotPaused, OneFlush
  <2> QED
    BY <1>2, <2>1 DEF Draining, Serving
<1>10. CASE Paused \/ PauseAck \/ Park \/ Reopen
  BY <1>0, <1>10 DEF Paused, PauseAck, Park, Reopen
<1>11. CASE PauseCheckRaises
  <2>1. /\ pc = "check" /\ pc' = "cancel" /\ batch' = {} /\ applied = <<>>
        /\ UNCHANGED <<pel, cursor, processed, pending, applied, online, stop>>
    BY <1>0, <1>11 DEF PauseCheckRaises, InHand
  <2>2. Delivered' /\ InOrder' /\ AckOrder' /\ AckedOldestFirst' /\ ~stop'
    BY <2>1 DEF Visible, CalmBody, Delivered, InOrder, AckOrder, AckedOldestFirst, Good
  <2>3. ~Draining' /\ ~Serving' /\ VisibleOrReplayed'
    BY <2>1 DEF Visible, CalmBody, Draining, Serving, VisibleOrReplayed, Replayed
  <2> QED
    BY <2>2, <2>3 DEF CalmBody
<1>12. CASE EnterBatch
  <2>1. Kept /\ pc = "process" /\ pc' = "apply" /\ UNCHANGED <<phase, lastId>>
    BY <1>12 DEF EnterBatch, InHand
  <2> QED
    BY <2>1, CalmFrame DEF Draining, Serving, Replayed
<1>13. ASSUME NEW m \in Msgs, Apply(m) PROVE CalmBody'
  BY <1>13, CalmApplies
<1>14. CASE ApplyEnds
  <2>1. /\ Kept /\ pc = "apply" /\ UNCHANGED <<phase, lastId>>
        /\ pc' \in {NextRead, "signal"}
    BY <1>14 DEF ApplyEnds
  <2> QED
    BY <1>0, <2>1, CalmFrame DEF NextRead, Draining, Serving, Replayed
<1>15. CASE Signal \/ SignalRaises
  BY <1>15, CalmSignals
<1>16. CASE TaskWakes \/ TaskRenews \/ TaskStops \/ TaskFlushes
  BY <1>1, <1>16 DEF TaskWakes, TaskRenews, TaskStops, TaskFlushes
<1>17. ASSUME NEW s \in Seq(1..last), IsPrefixOf(s, pending), pel' = pel \ Range(s),
              pending' = pending \/ pending' = TrimPrefix(pending, s),
              phase = "loop", phase' = phase, pc # "down", Serving' => Serving,
              UNCHANGED <<cursor, processed, applied, batch, online, stop>>
       PROVE  CalmBody'
  <2>1. ~Draining /\ ~Draining'
    BY <1>17 DEF Draining
  <2>2. (batch \cup Range(applied)) \cap Range(pending) = {}
    <3>1. CASE Serving
      BY <3>1 DEF CalmBody, CaughtUp
    <3>2. CASE ~Serving
      BY <1>17, <3>2, EmptyRange DEF Serving, InHand
    <3> QED
      BY <3>1, <3>2
  <2> QED
    BY <1>17, <2>1, <2>2, CalmAcks
<1>18. CASE TaskAcks \/ TaskAckRaises
  <2>1. /\ task = "ack" /\ phase = "loop" /\ phase' = phase /\ pc' = pc /\ pc # "down"
        /\ UNCHANGED <<cursor, processed, applied, batch, online, stop, lastId>>
        /\ pending' = pending \/ pending' = TrimPrefix(pending, taskSnap)
        /\ pel' = pel \ Range(taskSnap) \/ (pel' = pel /\ pending' = pending)
    BY <1>0, <1>18 DEF TaskAcks, TaskAckRaises, Xack, OneFlush
  <2>2. CASE pel' = pel /\ pending' = pending
    BY <1>1, <2>1, <2>2
  <2>3. CASE pel' = pel \ Range(taskSnap)
    <3>1. IsPrefixOf(taskSnap, pending)
      BY <2>1 DEF SnapsArePrefixes
    <3> QED
      BY <1>0, <1>17, <2>1, <2>3, <3>1 DEF Serving
  <2> QED
    BY <2>1, <2>2, <2>3
<1>19. CASE StopSeen \/ CancelIsSwallowed
  <2>1. Kept /\ phase = "loop" /\ phase' = phase /\ pc # "down" /\ pc' \in {"cancel", "join"}
    BY <1>19 DEF StopSeen, CancelIsSwallowed, OneFlush
  <2> QED
    BY <1>2, <2>1 DEF Draining, Serving
<1>20. CASE CancelReraises \/ Close
  <2>1. Kept /\ phase = "loop" /\ phase' = phase /\ pc # "down" /\ pc' = "down"
    BY <1>20 DEF CancelReraises, Close, OneFlush
  <2> QED
    BY <1>2, <2>1 DEF Draining, Serving
<1>21. CASE CancelAndFlush
  <2>1. /\ pc \in {"cancel", "join"} /\ phase = "loop" /\ phase' = phase
        /\ pc' \in {"finalack", "close"}
        /\ UNCHANGED <<cursor, processed, pending, applied, batch, online, stop, lastId>>
        /\ pel' = pel \/ (task = "ack" /\ pel' = pel \ Range(taskSnap))
    BY <1>21 DEF CancelAndFlush, Xack, OneFlush
  <2>2. CASE pel' = pel
    BY <1>2, <2>1, <2>2 DEF Draining, Serving
  <2>3. CASE task = "ack" /\ pel' = pel \ Range(taskSnap)
    <3>1. IsPrefixOf(taskSnap, pending)
      BY <2>3 DEF SnapsArePrefixes
    <3> QED
      BY <1>0, <1>17, <2>1, <2>3, <3>1 DEF Serving
  <2> QED
    BY <2>1, <2>2, <2>3
<1>22. CASE FinalAck \/ XackRaises
  <2>1. /\ pc = "finalack" /\ pc' = "close" /\ phase = "loop" /\ phase' = phase
        /\ UNCHANGED <<cursor, processed, applied, batch, online, stop, lastId>>
        /\ pending' = pending \/ pending' = TrimPrefix(pending, mainSnap)
        /\ pel' = pel \ Range(mainSnap) \/ (pel' = pel /\ pending' = pending)
    BY <1>0, <1>22 DEF FinalAck, XackRaises, Xack, OneFlush
  <2>2. CASE pel' = pel /\ pending' = pending
    BY <1>2, <2>1, <2>2 DEF Draining, Serving
  <2>3. CASE pel' = pel \ Range(mainSnap)
    <3>1. IsPrefixOf(mainSnap, pending)
      BY <2>1 DEF SnapsArePrefixes
    <3> QED
      BY <1>0, <1>17, <2>1, <2>3, <3>1 DEF Serving
  <2> QED
    BY <2>1, <2>2, <2>3
<1>23. CASE Crash \/ Exit
  BY <1>23, CalmLoses DEF Crash, Exit
<1>24. CASE UNCHANGED vars
  BY <1>1, <1>24 DEF vars
<1> QED
  BY <1>3, <1>4, <1>5, <1>6, <1>7, <1>8, <1>9, <1>10, <1>11, <1>12, <1>13, <1>14, <1>15,
     <1>16, <1>18, <1>19, <1>20, <1>21, <1>22, <1>23, <1>24
  DEF Next, Coroutine, FlushTask, RedisErrors

\* Read-your-own-writes for every stream, batch size, set of poison messages, also
\* those whose row is inserted before they are rejected, and
\* number of crashes, failed flushes and Redis errors: as long as MAXLEN does not
\* trim an entry that is still pending.
THEOREM WritesAreRead == Spec /\ []PendingKept => []ReadYourWrites
<1>1. Init => InHand /\ CalmInv
  <2> SUFFICES ASSUME Init PROVE InHand /\ CalmBody
    BY DEF CalmInv
  <2>1. /\ batch = {} /\ applied = <<>> /\ pending = <<>> /\ pel = {} /\ processed = {}
        /\ ~stop /\ pc = "down" /\ Range(applied) = {} /\ Range(pending) = {}
        /\ Len(applied) = 0 /\ Len(pending) = 0
    BY EmptyRange DEF Init
  <2>2. InHand /\ Delivered /\ InOrder
    BY <2>1 DEF Visible, InHand, Delivered, InOrder
  <2>3. AckOrder /\ AckedOldestFirst /\ VisibleOrReplayed
    BY <2>1 DEF Visible, AckOrder, AckedOldestFirst, VisibleOrReplayed
  <2>4. ~Draining /\ ~Serving
    BY <2>1 DEF Draining, Serving
  <2> QED
    BY <2>1, <2>2, <2>3, <2>4 DEF CalmBody
<1>2. IInv /\ BudgetLow /\ SnapInv /\ PendingKept /\ InHand /\ CalmInv /\ [Next]_vars
         => (InHand /\ CalmInv)'
  <2> SUFFICES ASSUME IInv, BudgetLow, SnapInv, PendingKept, InHand, CalmInv, [Next]_vars
               PROVE  InHand' /\ CalmInv'
    OBVIOUS
  <2>1. InHand'
    BY InHandStep
  <2>2. ASSUME Calm' PROVE CalmBody'
    <3>1. CalmBody /\ OneFlush /\ SnapsArePrefixes
      BY <2>2, CalmStep DEF Calm, CalmInv, SnapInv
    <3> QED
      BY <2>2, <3>1, CalmBodyStep
  <2> QED
    BY <2>1, <2>2 DEF CalmInv
<1>3. SnapInv /\ CalmInv => ReadYourWrites
  <2> SUFFICES ASSUME SnapInv, CalmInv, pc = "read", Calm
               PROVE  \A m \in processed : Visible(m)
    BY DEF ReadYourWrites, Calm
  <2>1. phase = "loop" /\ CalmBody
    BY DEF SnapInv, CalmInv, Calm, OneFlush
  <2>2. \A m \in processed : ~Replayed(m)
    BY <2>1 DEF Replayed, Draining
  <2> QED
    BY <2>1, <2>2 DEF Visible, CalmBody, VisibleOrReplayed
<1> QED
  BY <1>1, <1>2, <1>3, InductiveInvariant, SnapInvariant, PTL DEF Spec

--------------------------------------------------------------------------------
(* The refinement of DurableLog *)

Owed == Undelivered \cup pel

\* A step that writes nothing and forgets only what is on disk.
LEMMA Settles ==
    ASSUME last' = last, trimmed' = trimmed, durable \subseteq durable',
           durable' \subseteq 1..last, Owed' \subseteq Owed, Owed \ Owed' \subseteq durable
    PROVE  Log!Next
BY DEF Owed, Log!Next, Log!Settle

\* A delivery moves messages from the stream to the pending list: nothing else is owed
\* after it, and nothing less.
LEMMA DeliveryOwesTheSame ==
    ASSUME TypeRedis, UNCHANGED <<last, trimmed>>,
           Deliver({}) \/ Deliver(Page(Undelivered, BatchCount))
    PROVE  Owed' = Owed
<1> DEFINE page == Page(Undelivered, BatchCount)
<1>1. /\ cursor \in 0..last /\ trimmed \in 0..last /\ last \in Nat /\ BatchCount \in Nat
      /\ last' = last /\ trimmed' = trimmed
  BY ConstantsAssumption DEF TypeRedis
<1>2. page \subseteq Undelivered /\ Undelivered \in SUBSET (1..last)
  BY PageSubset DEF Undelivered
<1>3. CASE cursor' = cursor /\ pel' = pel
  BY <1>1, <1>3 DEF Owed, Undelivered
<1>4. ASSUME NEW c \in page, IsNewest(c, page), cursor' = c, pel' = pel \cup page
      PROVE  Owed' = Owed
  <2>1. c \in 1..last /\ c > cursor
    BY <1>2, <1>4 DEF Undelivered
  <2>2. ASSUME NEW m \in Undelivered PROVE m \in Owed'
    <3>1. m \in 1..last /\ m > cursor /\ m > trimmed
      BY DEF Undelivered
    <3>2. CASE m <= c
      <4>1. m \in page
        BY <1>1, <1>2, <1>4, <3>2, PageIsPrefix
      <4> QED
        BY <1>4, <4>1 DEF Owed
    <3>3. CASE m > c
      BY <1>1, <1>4, <3>1, <3>3 DEF Owed, Undelivered
    <3> QED
      BY <2>1, <3>1, <3>2, <3>3
  <2>3. ASSUME NEW m \in Undelivered' PROVE m \in Undelivered
    BY <1>1, <1>4, <2>1 DEF Undelivered
  <2> QED
    BY <1>2, <1>4, <2>2, <2>3 DEF Owed
<1> QED
  BY <1>3, <1>4 DEF Deliver

\* An XACK of a snapshot that is on disk, executed or not.
LEMMA AckSettles ==
    ASSUME last' = last, trimmed' = trimmed, cursor' = cursor, durable \subseteq durable',
           durable' \subseteq 1..last, NEW snap, Range(snap) \subseteq durable,
           Xack(snap) \/ pel' = pel
    PROVE  Log!Next
<1>1. Undelivered' = Undelivered
  BY DEF Undelivered
<1>2. Owed' \subseteq Owed /\ Owed \ Owed' \subseteq durable
  BY <1>1 DEF Owed, Xack
<1> QED
  BY <1>2, Settles

\* A step that leaves stream and group alone.
LEMMA QuietSettles ==
    ASSUME UNCHANGED <<last, trimmed, cursor, pel>>, durable \subseteq durable',
           durable' \subseteq 1..last
    PROVE  Log!Next
<1>1. Owed' = Owed
  BY DEF Owed, Undelivered
<1> QED
  BY <1>1, Settles

LEMMA WriteAppends == ASSUME IInv, Write PROVE Log!Next
<1>1. /\ last \in Nat /\ trimmed \in 0..last /\ cursor \in 0..last /\ MaxLen \in Nat \ {0}
      /\ pel \subseteq 1..last
  BY ConstantsAssumption DEF IInv, TypeOK, TypeRedis
<1>2. PICK t \in trimmed..(last + 1) : /\ t = trimmed \/ last + 1 - t >= MaxLen
                                       /\ trimmed' = t
  <2>1. last' = last + 1
    BY DEF Write
  <2>2. \E t \in trimmed..last' : (t = trimmed \/ last' - t >= MaxLen) /\ trimmed' = t
    BY DEF Write
  <2> QED
    BY <1>1, <2>1, <2>2
<1>3. last' = last + 1 /\ cursor' = cursor /\ pel' = pel /\ durable' = durable
  BY DEF Write, groupVars, storeVars
<1>4. last' \in Undelivered'
  BY <1>1, <1>2, <1>3 DEF Undelivered
<1>5. ASSUME NEW m \in Undelivered', m # last' PROVE m \in Undelivered
  BY <1>1, <1>2, <1>3, <1>5 DEF Undelivered
<1>6. ASSUME NEW m \in Owed, m \notin Owed' PROVE trimmed < m /\ m <= t
  <2>1. m \in Undelivered
    BY <1>3, <1>6 DEF Owed
  <2>2. m \in 1..last /\ m > cursor /\ m > trimmed
    BY <2>1 DEF Undelivered
  <2>3. m \notin Undelivered'
    BY <1>6 DEF Owed
  <2> QED
    BY <1>1, <1>2, <1>3, <2>2, <2>3 DEF Undelivered
<1>7. Owed' \subseteq Owed \cup {last'} /\ last' \in Owed'
  BY <1>3, <1>4, <1>5 DEF Owed
<1>8. Log!Append(t)
  BY <1>2, <1>3, <1>6, <1>7 DEF Log!Append, Owed
<1> QED
  BY <1>2, <1>8 DEF Log!Next

LEMMA DestroyRepeats == ASSUME IInv, DestroyGroup PROVE Log!Next
<1>1. last \in Nat /\ trimmed \in 0..last
  BY ConstantsAssumption DEF IInv, TypeOK, TypeRedis
<1>2. /\ last' = last /\ trimmed' = trimmed /\ durable' = durable /\ cursor' = 0
      /\ pel' = {}
  BY DEF DestroyGroup, streamVars, storeVars
<1>3. Owed' = (trimmed + 1)..last
  <2>1. Undelivered' = {m \in 1..last : m > 0 /\ m > trimmed}
    BY <1>2 DEF Undelivered
  <2> QED
    BY <1>1, <1>2, <2>1 DEF Owed
<1>4. Log!Again
  BY <1>2, <1>3 DEF Log!Again, Owed
<1> QED
  BY <1>4 DEF Log!Next

LEMMA LogStep == ASSUME IInv, IInv', [Next]_vars PROVE [Log!Next]_(Log!vars)
<1> USE DEF streamVars, groupVars, storeVars, batchVars, ackVars, taskVars
<1>0. /\ TypeRedis /\ budget \in [Faults -> Nat] /\ durable \subseteq 1..last
      /\ durable' \subseteq 1..last'
      /\ Range(mainSnap) \subseteq durable /\ Range(taskSnap) \subseteq durable
  BY DEF IInv, TypeOK, TypeStores, AckBacked
<1>1. CASE Write
  BY <1>1, WriteAppends
<1>2. CASE DestroyGroup
  BY <1>2, DestroyRepeats
<1>3. CASE ReadNewBatch \/ ReadRaises
  <2>1. /\ UNCHANGED <<last, trimmed, durable>>
        /\ Deliver({}) \/ Deliver(Page(Undelivered, BatchCount))
    BY <1>3 DEF ReadNewBatch, ReadRaises
  <2>2. Owed' = Owed
    BY <1>0, <2>1, DeliveryOwesTheSame
  <2> QED
    BY <1>0, <2>1, <2>2, Settles
<1>4. CASE PauseAck \/ FinalAck \/ XackRaises
  <2>1. /\ UNCHANGED <<last, trimmed, cursor, durable>>
        /\ Xack(mainSnap) \/ pel' = pel
    BY <1>4 DEF PauseAck, FinalAck, XackRaises
  <2> QED
    BY <1>0, <2>1, AckSettles
<1>5. CASE TaskAcks \/ TaskAckRaises
  <2>1. /\ UNCHANGED <<last, trimmed, cursor, durable>>
        /\ Xack(taskSnap) \/ pel' = pel
    BY <1>5 DEF TaskAcks, TaskAckRaises
  <2> QED
    BY <1>0, <2>1, AckSettles
<1>6. CASE CancelAndFlush
  <2>1. /\ UNCHANGED <<last, trimmed, cursor>>
        /\ Xack(taskSnap) \/ pel' = pel
        /\ \E acking \in BOOLEAN : FlushPending(acking)
    BY <1>6 DEF CancelAndFlush
  <2>2. durable \subseteq durable'
    BY <1>0, <2>1, FlushEffect
  <2> QED
    BY <1>0, <2>1, <2>2, AckSettles
<1>7. CASE Paused \/ TaskFlushes
  <2>1. /\ UNCHANGED <<last, trimmed, cursor, pel>>
        /\ \E acking \in BOOLEAN : FlushPending(acking)
    BY <1>7 DEF Paused, TaskFlushes
  <2>2. durable \subseteq durable'
    BY <1>0, <2>1, FlushEffect
  <2> QED
    BY <1>0, <2>1, <2>2, QuietSettles
<1>8. CASE Close
  <2>1. UNCHANGED <<last, trimmed, cursor, pel>> /\ durable \subseteq durable'
    BY <1>8 DEF Close, FlushOk, FlushRaises
  <2> QED
    BY <1>0, <2>1, QuietSettles
<1>9. ASSUME UNCHANGED <<last, trimmed, cursor, pel, durable>> PROVE Log!Next
  BY <1>0, <1>9, QuietSettles
<1>10. CASE Orchestrator \/ LivenessExpires \/ Stop \/ Crash \/ Exit
  BY <1>9, <1>10
  DEF Orchestrator, OrchestratorSeesNoPending, OrchestratorSeesNoConsumer,
      OrchestratorSetsPause, OrchestratorClearsPause, LivenessExpires, Stop, Crash, Exit
<1>11. CASE Start \/ DrainPage \/ DrainEnds \/ DrainRaises \/ ReadFindsNoGroup
  BY <1>9, <1>11 DEF Start, DrainPage, DrainEnds, DrainRaises, ReadFindsNoGroup
<1>12. CASE NotPaused \/ Park \/ Reopen \/ PauseCheckRaises
  BY <1>9, <1>12 DEF NotPaused, Park, Reopen, PauseCheckRaises
<1>13. CASE EnterBatch \/ ApplyEnds \/ Signal \/ SignalRaises \/ \E m \in Msgs : Apply(m)
  BY <1>9, <1>13 DEF EnterBatch, ApplyEnds, Signal, SignalRaises, Apply
<1>14. CASE TaskWakes \/ TaskRenews \/ TaskStops
  BY <1>9, <1>14 DEF TaskWakes, TaskRenews, TaskStops
<1>15. CASE StopSeen \/ CancelIsSwallowed \/ CancelReraises
  BY <1>9, <1>15 DEF StopSeen, CancelIsSwallowed, CancelReraises
<1>16. CASE UNCHANGED vars
  BY <1>9, <1>16 DEF vars
<1> QED
  BY <1>1, <1>2, <1>3, <1>4, <1>5, <1>6, <1>7, <1>8, <1>10, <1>11, <1>12, <1>13, <1>14,
     <1>15, <1>16
  DEF Next, Coroutine, FlushTask, RedisErrors

\* The write path implements the durable log, for every stream length and MAXLEN and any
\* number of crashes, failed flushes, Redis errors, pauses, stops and destroyed groups:
\* what it forgets (XACK) is on disk already, what MAXLEN drops is not among the newest
\* MaxLen, and no other step, of the coroutine or the flush task, alters what is owed.
THEOREM LogIsImplemented == Spec => ImplementsDurableLog
<1>1. Init => Log!Init
  BY DEF Init, Log!Init, Undelivered
<1>2. IInv /\ IInv' /\ [Next]_vars => [Log!Next]_(Log!vars)
  BY LogStep
<1> QED
  BY <1>1, <1>2, InductiveInvariant, PTL DEF Spec, ImplementsDurableLog, Log!Spec

================================================================================
