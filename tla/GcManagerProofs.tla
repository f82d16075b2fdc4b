---------------------------- MODULE GcManagerProofs -----------------------------
(*****************************************************************************)
(* start_collector, stop_collector and fork over each other: proved for any  *)
(* number of callers, timers and forks.                                      *)
(*****************************************************************************)
EXTENDS GcManager, TLAPS

\* A stop that has signalled has a thread in hand.
CallsOK ==
    \A c \in Callers : pc[c] = "join" => taken[c] \in signalled

\* A process that always wants the callback has it installed while a timer is named: a
\* start that finds the timer running finds nothing to do.
ThreadImpliesCallback == thread # None /\ FALSE \notin asked => installed

\* Under an installed callback nobody is between the halves of a stop, and a
\* collection that began under it has its start stored, or is about to store it.
ObservedOK ==
    /\ gc = None => ~watched /\ ~inCallback
    /\ ~overlap /\ installed => \A c \in Callers : pc[c] = "idle"
    /\ ~overlap /\ watched => pauseStart \/ inCallback

IInv ==
    /\ TypeOK /\ CallsOK /\ ThreadImpliesCallback
    /\ NoOrphan /\ ObservedOK /\ EveryPauseObserved

--------------------------------------------------------------------------------
(* One lemma per action *)

\* start_collector.
LEMMA StartStep ==
    ASSUME IInv, NEW c \in Callers, NEW wanted \in BOOLEAN, NEW install \in BOOLEAN,
           Start(c, wanted, install)
    PROVE  IInv'
<1> USE DEF IInv
<1>1. TypeOK'
  BY GcAssumption DEF Start, gcVars, callVars, Unborn, ThreadRunning, TypeOK
<1>2. CallsOK'
  BY GcAssumption DEF Start, gcVars, callVars, Unborn, ThreadRunning, TypeOK, CallsOK
<1>3. ThreadImpliesCallback'
  BY GcAssumption DEF Start, gcVars, callVars, Unborn, ThreadRunning, TypeOK, ThreadImpliesCallback
<1>4. NoOrphan'
  <2> SUFFICES ASSUME asked' # BOOLEAN, NEW i \in Timers, Alive(i)', i \notin signalled'
               PROVE  i = thread' \/ \E d \in Callers : pc'[d] = "signal" /\ taken'[d] = i
    BY DEF NoOrphan
  <2>1. asked' = asked \cup {install} /\ asked \subseteq BOOLEAN
    BY DEF Start, TypeOK
  <2>2. asked # BOOLEAN
    BY <2>1, Zenon
  <2>3. signalled' = signalled /\ pc' = pc /\ taken' = taken
    BY DEF Start, callVars
  <2>4. CASE timer[i] = "unborn"
    BY <2>4 DEF Start, TypeOK, Alive
  <2>5. CASE timer[i] # "unborn"
    <3>1. Alive(i)
      BY <2>5 DEF Start, TypeOK, Alive, Unborn
    <3>2. i = thread \/ \E d \in Callers : pc[d] = "signal" /\ taken[d] = i
      BY <2>2, <2>3, <3>1 DEF NoOrphan
    <3>3. CASE i = thread /\ thread' # thread
      <4>1. wanted /\ ThreadRunning
        BY <3>1, <3>3, GcAssumption DEF Start, ThreadRunning
      <4>2. install /\ ~installed
        BY <4>1 DEF Start
      <4>3. thread # None
        BY <4>1 DEF ThreadRunning
      <4>4. FALSE \in asked
        BY <4>2, <4>3 DEF ThreadImpliesCallback
      <4>5. TRUE \in asked'
        BY <2>1, <4>2, Zenon
      <4>6. asked' = BOOLEAN
        BY <2>1, <4>4, <4>5, Zenon
      <4> QED
        BY <4>6
    <3> QED
      BY <2>3, <3>2, <3>3
  <2> QED
    BY <2>4, <2>5
<1>5. ObservedOK'
  BY GcAssumption DEF Start, gcVars, callVars, Unborn, ThreadRunning, TypeOK, ObservedOK
<1>6. EveryPauseObserved'
  BY GcAssumption DEF Start, gcVars, callVars, Unborn, ThreadRunning, TypeOK, ObservedOK, EveryPauseObserved
<1> QED
  BY <1>1, <1>2, <1>3, <1>4, <1>5, <1>6

\* The first half of stop_collector.
LEMMA StopStep ==
    ASSUME IInv, NEW c \in Callers, Stop(c)
    PROVE  IInv'
<1> USE DEF IInv
<1>1. TypeOK'
  BY GcAssumption DEF Stop, TypeOK
<1>2. CallsOK'
  BY GcAssumption DEF Stop, TypeOK, CallsOK
<1>3. ThreadImpliesCallback'
  BY GcAssumption DEF Stop, TypeOK, ThreadImpliesCallback
<1>4. NoOrphan'
  BY GcAssumption DEF Stop, TypeOK, NoOrphan, Alive
<1>5. ObservedOK'
  BY GcAssumption DEF Stop, TypeOK, ObservedOK
<1>6. EveryPauseObserved'
  BY GcAssumption DEF Stop, TypeOK, ObservedOK, EveryPauseObserved
<1> QED
  BY <1>1, <1>2, <1>3, <1>4, <1>5, <1>6

\* stop_event.set().
LEMMA SignalStep ==
    ASSUME IInv, NEW c \in Callers, Signal(c)
    PROVE  IInv'
<1> USE DEF IInv
<1>1. TypeOK'
  BY GcAssumption DEF Signal, gcVars, TypeOK
<1>2. CallsOK'
  BY GcAssumption DEF Signal, gcVars, TypeOK, CallsOK
<1>3. ThreadImpliesCallback'
  BY GcAssumption DEF Signal, gcVars, TypeOK, ThreadImpliesCallback
<1>4. NoOrphan'
  BY GcAssumption DEF Signal, gcVars, TypeOK, NoOrphan, Alive
<1>5. ObservedOK'
  BY GcAssumption DEF Signal, gcVars, TypeOK, ObservedOK
<1>6. EveryPauseObserved'
  BY GcAssumption DEF Signal, gcVars, TypeOK, ObservedOK, EveryPauseObserved
<1> QED
  BY <1>1, <1>2, <1>3, <1>4, <1>5, <1>6

\* The join.
LEMMA JoinStep ==
    ASSUME IInv, NEW c \in Callers, Join(c)
    PROVE  IInv'
<1> USE DEF IInv
<1>1. TypeOK'
  <2>1. taken[c] \in Timers
    BY DEF Join, TypeOK, CallsOK
  <2> QED
    BY <2>1, GcAssumption DEF Join, gcVars, TypeOK
<1>2. CallsOK'
  BY GcAssumption DEF Join, gcVars, TypeOK, CallsOK
<1>3. ThreadImpliesCallback'
  BY GcAssumption DEF Join, gcVars, TypeOK, ThreadImpliesCallback
<1>4. NoOrphan'
  BY GcAssumption DEF Join, gcVars, TypeOK, NoOrphan, Alive
<1>5. ObservedOK'
  BY GcAssumption DEF Join, gcVars, TypeOK, ObservedOK
<1>6. EveryPauseObserved'
  BY GcAssumption DEF Join, gcVars, TypeOK, ObservedOK, EveryPauseObserved
<1> QED
  BY <1>1, <1>2, <1>3, <1>4, <1>5, <1>6

\* The end of stop_collector.
LEMMA ResetStep ==
    ASSUME IInv, NEW c \in Callers, Reset(c)
    PROVE  IInv'
<1> USE DEF IInv
<1>1. TypeOK'
  BY GcAssumption DEF Reset, gcVars, TypeOK
<1>2. CallsOK'
  BY GcAssumption DEF Reset, gcVars, TypeOK, CallsOK
<1>3. ThreadImpliesCallback'
  BY GcAssumption DEF Reset, gcVars, TypeOK, ThreadImpliesCallback
<1>4. NoOrphan'
  BY GcAssumption DEF Reset, gcVars, TypeOK, NoOrphan, Alive
<1>5. ObservedOK'
  BY GcAssumption DEF Reset, gcVars, TypeOK, ObservedOK
<1>6. EveryPauseObserved'
  BY GcAssumption DEF Reset, gcVars, TypeOK, ObservedOK, EveryPauseObserved
<1> QED
  BY <1>1, <1>2, <1>3, <1>4, <1>5, <1>6

\* A fork, seen from the child.
LEMMA ForkStep ==
    ASSUME IInv, NEW c \in Callers, Fork(c)
    PROVE  IInv'
<1> USE DEF IInv
<1>1. TypeOK'
  <2>1. watched = FALSE /\ watched' = watched
    BY DEF Fork, ObservedOK, TypeOK
  <2>2. timer' \in [Timers -> {"unborn", "waiting", "collecting", "exited"}]
    BY DEF Fork, TypeOK, Alive
  <2>3. forks' \in 0..MaxForks
    BY GcAssumption DEF Fork, TypeOK
  <2>4. /\ pc' \in [Callers -> {"idle", "signal", "join", "reset"}]
        /\ taken' \in [Callers -> Timers \cup {None}]
        /\ \A d \in Callers : taken'[d] = None
    BY DEF Fork
  <2>5. /\ ({installed, observers, pauseStart, inCallback, watched, lost,
             overlap} \cup asked)' \subseteq BOOLEAN
        /\ thread' = None /\ zombies' = {} /\ signalled' = signalled /\ gc' = gc
    BY DEF Fork, TypeOK
  <2> QED
    BY <2>1, <2>2, <2>3, <2>4, <2>5 DEF TypeOK
<1>2. CallsOK'
  BY GcAssumption DEF Fork, Alive, TypeOK, CallsOK
<1>3. ThreadImpliesCallback'
  BY GcAssumption DEF Fork, Alive, TypeOK, ThreadImpliesCallback
<1>4. NoOrphan'
  BY GcAssumption DEF Fork, Alive, TypeOK, NoOrphan, Alive
<1>5. ObservedOK'
  BY GcAssumption DEF Fork, Alive, TypeOK, ObservedOK
<1>6. EveryPauseObserved'
  BY GcAssumption DEF Fork, Alive, TypeOK, ObservedOK, EveryPauseObserved
<1> QED
  BY <1>1, <1>2, <1>3, <1>4, <1>5, <1>6

\* A timer begins a sweep.
LEMMA SweepStep ==
    ASSUME IInv, NEW i \in Timers, Sweep(i)
    PROVE  IInv'
<1> USE DEF IInv
<1>1. TypeOK'
  BY GcAssumption DEF Sweep, CollectionBegins, gcVars, callVars, TypeOK
<1>2. CallsOK'
  BY GcAssumption DEF Sweep, CollectionBegins, gcVars, callVars, TypeOK, CallsOK
<1>3. ThreadImpliesCallback'
  BY GcAssumption DEF Sweep, CollectionBegins, gcVars, callVars, TypeOK, ThreadImpliesCallback
<1>4. NoOrphan'
  BY GcAssumption DEF Sweep, CollectionBegins, gcVars, callVars, TypeOK, NoOrphan, Alive
<1>5. ObservedOK'
  BY GcAssumption DEF Sweep, CollectionBegins, gcVars, callVars, TypeOK, ObservedOK
<1>6. EveryPauseObserved'
  BY GcAssumption DEF Sweep, CollectionBegins, gcVars, callVars, TypeOK, ObservedOK, EveryPauseObserved
<1> QED
  BY <1>1, <1>2, <1>3, <1>4, <1>5, <1>6

\* A sweep ends.
LEMMA SweepEndsStep ==
    ASSUME IInv, NEW i \in Timers, SweepEnds(i)
    PROVE  IInv'
<1> USE DEF IInv
<1>1. TypeOK'
  BY GcAssumption DEF SweepEnds, gcVars, callVars, TypeOK
<1>2. CallsOK'
  BY GcAssumption DEF SweepEnds, gcVars, callVars, TypeOK, CallsOK
<1>3. ThreadImpliesCallback'
  BY GcAssumption DEF SweepEnds, gcVars, callVars, TypeOK, ThreadImpliesCallback
<1>4. NoOrphan'
  BY GcAssumption DEF SweepEnds, gcVars, callVars, TypeOK, NoOrphan, Alive
<1>5. ObservedOK'
  BY GcAssumption DEF SweepEnds, gcVars, callVars, TypeOK, ObservedOK
<1>6. EveryPauseObserved'
  BY GcAssumption DEF SweepEnds, gcVars, callVars, TypeOK, ObservedOK, EveryPauseObserved
<1> QED
  BY <1>1, <1>2, <1>3, <1>4, <1>5, <1>6

\* A timer exits.
LEMMA TimerExitsStep ==
    ASSUME IInv, NEW i \in Timers, TimerExits(i)
    PROVE  IInv'
<1> USE DEF IInv
<1>1. TypeOK'
  BY GcAssumption DEF TimerExits, gcVars, callVars, TypeOK
<1>2. CallsOK'
  BY GcAssumption DEF TimerExits, gcVars, callVars, TypeOK, CallsOK
<1>3. ThreadImpliesCallback'
  BY GcAssumption DEF TimerExits, gcVars, callVars, TypeOK, ThreadImpliesCallback
<1>4. NoOrphan'
  BY GcAssumption DEF TimerExits, gcVars, callVars, TypeOK, NoOrphan, Alive
<1>5. ObservedOK'
  BY GcAssumption DEF TimerExits, gcVars, callVars, TypeOK, ObservedOK
<1>6. EveryPauseObserved'
  BY GcAssumption DEF TimerExits, gcVars, callVars, TypeOK, ObservedOK, EveryPauseObserved
<1> QED
  BY <1>1, <1>2, <1>3, <1>4, <1>5, <1>6

\* CPython collects by itself.
LEMMA OrganicBeginsStep ==
    ASSUME IInv, OrganicBegins
    PROVE  IInv'
<1> USE DEF IInv
<1>1. TypeOK'
  BY GcAssumption DEF OrganicBegins, CollectionBegins, callVars, TypeOK
<1>2. CallsOK'
  BY GcAssumption DEF OrganicBegins, CollectionBegins, callVars, TypeOK, CallsOK
<1>3. ThreadImpliesCallback'
  BY GcAssumption DEF OrganicBegins, CollectionBegins, callVars, TypeOK, ThreadImpliesCallback
<1>4. NoOrphan'
  BY GcAssumption DEF OrganicBegins, CollectionBegins, callVars, TypeOK, NoOrphan, Alive
<1>5. ObservedOK'
  BY GcAssumption DEF OrganicBegins, CollectionBegins, callVars, TypeOK, ObservedOK
<1>6. EveryPauseObserved'
  BY GcAssumption DEF OrganicBegins, CollectionBegins, callVars, TypeOK, ObservedOK, EveryPauseObserved
<1> QED
  BY <1>1, <1>2, <1>3, <1>4, <1>5, <1>6

\* The start phase of the callback.
LEMMA CallbackStartsStep ==
    ASSUME IInv, CallbackStarts
    PROVE  IInv'
<1> USE DEF IInv
<1>1. TypeOK'
  BY GcAssumption DEF CallbackStarts, callVars, TypeOK
<1>2. CallsOK'
  BY GcAssumption DEF CallbackStarts, callVars, TypeOK, CallsOK
<1>3. ThreadImpliesCallback'
  BY GcAssumption DEF CallbackStarts, callVars, TypeOK, ThreadImpliesCallback
<1>4. NoOrphan'
  BY GcAssumption DEF CallbackStarts, callVars, TypeOK, NoOrphan, Alive
<1>5. ObservedOK'
  BY GcAssumption DEF CallbackStarts, callVars, TypeOK, ObservedOK
<1>6. EveryPauseObserved'
  BY GcAssumption DEF CallbackStarts, callVars, TypeOK, ObservedOK, EveryPauseObserved
<1> QED
  BY <1>1, <1>2, <1>3, <1>4, <1>5, <1>6

\* The stop phase of a collection.
LEMMA CollectionEndsStep ==
    ASSUME IInv, CollectionEnds
    PROVE  IInv'
<1> USE DEF IInv
<1>1. TypeOK'
  BY GcAssumption DEF CollectionEnds, callVars, TypeOK
<1>2. CallsOK'
  BY GcAssumption DEF CollectionEnds, callVars, TypeOK, CallsOK
<1>3. ThreadImpliesCallback'
  BY GcAssumption DEF CollectionEnds, callVars, TypeOK, ThreadImpliesCallback
<1>4. NoOrphan'
  BY GcAssumption DEF CollectionEnds, callVars, TypeOK, NoOrphan, Alive
<1>5. ObservedOK'
  BY GcAssumption DEF CollectionEnds, callVars, TypeOK, ObservedOK
<1>6. EveryPauseObserved'
  BY GcAssumption DEF CollectionEnds, callVars, TypeOK, ObservedOK, EveryPauseObserved
<1> QED
  BY <1>1, <1>2, <1>3, <1>4, <1>5, <1>6

--------------------------------------------------------------------------------
(* The invariant *)

LEMMA InitInvariant == Init => IInv
<1> SUFFICES ASSUME Init PROVE IInv
  OBVIOUS
<1>1. TypeOK
  <2>1. ({installed, observers, pauseStart, inCallback, watched, lost, overlap} \cup asked)
            \subseteq BOOLEAN
    BY DEF Init
  <2>2. forks \in 0..MaxForks
    BY GcAssumption DEF Init
  <2> QED
    BY <2>1, <2>2 DEF Init, TypeOK
<1>2. CallsOK /\ ThreadImpliesCallback
  BY DEF Init, CallsOK, ThreadImpliesCallback
<1>3. NoOrphan
  BY DEF Init, NoOrphan, Alive
<1>4. ObservedOK /\ EveryPauseObserved
  BY DEF Init, ObservedOK, EveryPauseObserved
<1> QED
  BY <1>1, <1>2, <1>3, <1>4 DEF IInv

LEMMA NextInvariant == IInv /\ [Next]_vars => IInv'
<1> SUFFICES ASSUME IInv, [Next]_vars PROVE IInv'
  OBVIOUS
<1>1. ASSUME NEW c \in Callers, NEW wanted \in BOOLEAN, NEW install \in BOOLEAN,
             Start(c, wanted, install)
      PROVE  IInv'
  BY <1>1, StartStep
<1>2. ASSUME NEW c \in Callers, Stop(c) PROVE IInv'
  BY <1>2, StopStep
<1>3. ASSUME NEW c \in Callers, Signal(c) PROVE IInv'
  BY <1>3, SignalStep
<1>4. ASSUME NEW c \in Callers, Join(c) PROVE IInv'
  BY <1>4, JoinStep
<1>5. ASSUME NEW c \in Callers, Reset(c) PROVE IInv'
  BY <1>5, ResetStep
<1>6. ASSUME NEW c \in Callers, Fork(c) PROVE IInv'
  BY <1>6, ForkStep
<1>7. ASSUME NEW i \in Timers, Sweep(i) PROVE IInv'
  BY <1>7, SweepStep
<1>8. ASSUME NEW i \in Timers, SweepEnds(i) PROVE IInv'
  BY <1>8, SweepEndsStep
<1>9. ASSUME NEW i \in Timers, TimerExits(i) PROVE IInv'
  BY <1>9, TimerExitsStep
<1>10. CASE OrganicBegins
  BY <1>10, OrganicBeginsStep
<1>11. CASE CallbackStarts
  BY <1>11, CallbackStartsStep
<1>12. CASE CollectionEnds
  BY <1>12, CollectionEndsStep
<1>13. CASE UNCHANGED vars
  BY <1>13 DEF vars, callVars, gcVars, IInv, TypeOK, CallsOK, ThreadImpliesCallback,
     NoOrphan, Alive, ObservedOK, EveryPauseObserved
<1> QED
  BY <1>1, <1>2, <1>3, <1>4, <1>5, <1>6, <1>7, <1>8, <1>9, <1>10, <1>11, <1>12, <1>13,
     Zenon DEF Next

\* The inductive invariant holds in every state: what start_collector, stop_collector,
\* the callback and a fork do under and outside _lock keeps it.
THEOREM Invariant == Spec => []IInv
  BY InitInvariant, NextInvariant, PTL DEF Spec

\* The state keeps its types; a caller holds a thread only while it stops it.
THEOREM TypeCorrect == Spec => []TypeOK
<1>1. IInv => TypeOK
  BY DEF IInv
<1> QED
  BY <1>1, Invariant, PTL

\* However start_collector, stop_collector and fork run over each other, a timer thread
\* that has not been told to stop is named by _state or in the hands of a stop.
THEOREM NoTimerIsOrphaned == Spec => []NoOrphan
<1>1. IInv => NoOrphan
  BY DEF IInv
<1> QED
  BY <1>1, Invariant, PTL

\* Unless a start ran between the halves of a stop, the installed callback has its
\* observers and no collection that ran under it ended unobserved.
THEOREM PausesAreObserved == Spec => []EveryPauseObserved
<1>1. IInv => EveryPauseObserved
  BY DEF IInv
<1> QED
  BY <1>1, Invariant, PTL

================================================================================
