------------------------------- MODULE GcManager --------------------------------
(*****************************************************************************)
(* The process-wide GC manager: start_collector and stop_collector called    *)
(* from any thread, the gen-2 timer threads they start and stop, the pause   *)
(* callback that CPython's collector calls, and os.fork.                     *)
(*                                                                           *)
(* What runs under _lock is one step; stop_collector signals, joins and      *)
(* resets after it has released the lock.  The generations do not touch each *)
(* other, one stands for all.  CPython runs one collection at a time: while  *)
(* one is under way gc.collect returns at once.                              *)
(*****************************************************************************)
EXTENDS Integers, FiniteSets

CONSTANTS
    Callers,        \* threads that call start_collector and stop_collector
    None,
    Organic,        \* a collection that CPython starts by itself
    MaxTimers,      \* bound: timer threads a process starts
    MaxForks        \* bound: forks, the child is followed

Timers == 1..MaxTimers

ASSUME GcAssumption ==
    /\ IsFiniteSet(Callers)
    /\ MaxTimers \in Nat /\ MaxForks \in Nat
    /\ None \notin Timers /\ Organic \notin Timers \cup {None}

VARIABLES
    asked,        \* history: the install_callback arguments this process has passed
    installed,    \* _gc_callback in gc.callbacks
    observers,    \* is _observers filled?
    pauseStart,   \* is _pause_starts[gen] set?
    thread,       \* _state.thread, and the timer _state.stop_event belongs to
    zombies,      \* _zombies
    timer,        \* where each timer thread is
    signalled,    \* timers whose stop event is set
    pc, taken,    \* each caller of stop_collector: where it is, the thread it took
    gc,           \* whose collection is under way
    inCallback,   \* is the callback about to store the start of the pause?
    watched,      \* has the callback been installed since the collection began?
    lost,         \* did such a collection end without an observation?
    overlap,      \* did a start run between the two halves of a stop?
    forks

callVars == <<pc, taken>>
gcVars   == <<gc, inCallback, watched, lost>>
vars == <<asked, installed, observers, pauseStart, thread, zombies, timer, signalled,
          callVars, gcVars, overlap, forks>>

Alive(i) == timer[i] \in {"waiting", "collecting"}

ThreadRunning == thread # None /\ Alive(thread)

--------------------------------------------------------------------------------
(* start_collector *)

\* A timer thread that has not been started.
Unborn(i) == timer[i] = "unborn" /\ \A j \in 1..(i - 1) : timer[j] # "unborn"

\* Mutant: it is not asked whether a timer is running.
StartAlways(c, wanted, install) ==
    /\ pc[c] = "idle"
    /\ installed' = (installed \/ install)
    /\ observers' = (observers \/ install)
    /\ \/ /\ wanted
          /\ \E i \in Timers :
                /\ Unborn(i)
                /\ timer' = [timer EXCEPT ![i] = "waiting"]
                /\ thread' = i
       \/ ~wanted /\ UNCHANGED <<timer, thread>>
    /\ asked' = asked \cup {install}
    /\ overlap' = (overlap \/ \E d \in Callers : pc[d] # "idle")
    /\ UNCHANGED <<pauseStart, zombies, signalled, callVars, gcVars, forks>>

\* The observers are created before the callback is installed; the timer, if one is
\* wanted, gets an event of its own.  Nothing is done when what is asked for is there
\* already; when only the callback is missing, a wanted timer is started all the same.
Start(c, wanted, install) ==
    /\ pc[c] = "idle"
    /\ (install /\ ~installed) \/ (wanted /\ ~ThreadRunning)
    /\ installed' = (installed \/ install)
    /\ observers' = (observers \/ install)
    /\ \/ /\ wanted
          /\ \E i \in Timers :
                /\ Unborn(i)
                /\ timer' = [timer EXCEPT ![i] = "waiting"]
                /\ thread' = i
       \/ ~wanted /\ UNCHANGED <<timer, thread>>
    /\ asked' = asked \cup {install}
    /\ overlap' = (overlap \/ \E d \in Callers : pc[d] # "idle")
    /\ UNCHANGED <<pauseStart, zombies, signalled, callVars, gcVars, forks>>

--------------------------------------------------------------------------------
(* stop_collector *)

\* Mutant: the callback stays until the accumulator is reset.
StopKeepsCallback(c) ==
    /\ pc[c] = "idle"
    /\ installed \/ thread # None
    /\ taken' = [taken EXCEPT ![c] = thread]
    /\ thread' = None
    /\ pc' = [pc EXCEPT ![c] = "signal"]
    /\ UNCHANGED <<asked, installed, observers, pauseStart, zombies, timer, signalled,
                   gcVars, overlap, forks>>

\* Under the lock: the callback is removed, the thread and its event are taken.
Stop(c) ==
    /\ pc[c] = "idle"
    /\ installed \/ thread # None
    /\ installed' = FALSE
    /\ watched' = FALSE
    /\ taken' = [taken EXCEPT ![c] = thread]
    /\ thread' = None
    /\ pc' = [pc EXCEPT ![c] = "signal"]
    /\ UNCHANGED <<asked, observers, pauseStart, zombies, timer, signalled, gc,
                   inCallback, lost, overlap, forks>>

\* stop_event.set()
Signal(c) ==
    /\ pc[c] = "signal"
    /\ signalled' = signalled \cup ({taken[c]} \ {None})
    /\ pc' = [pc EXCEPT ![c] = IF taken[c] = None THEN "reset" ELSE "join"]
    /\ UNCHANGED <<asked, installed, observers, pauseStart, thread, zombies, timer,
                   taken, gcVars, overlap, forks>>

\* join returns: the timer has exited, or the timeout is over and it is a zombie.
Join(c) ==
    /\ pc[c] = "join"
    /\ zombies' = IF Alive(taken[c]) THEN zombies \cup {taken[c]} ELSE zombies
    /\ pc' = [pc EXCEPT ![c] = "reset"]
    /\ UNCHANGED <<asked, installed, observers, pauseStart, thread, timer, signalled,
                   taken, gcVars, overlap, forks>>

\* Mutant: the join's thread is kept.
ResetKeepsThread(c) ==
    /\ pc[c] = "reset"
    /\ pauseStart' = FALSE
    /\ observers' = FALSE
    /\ pc' = [pc EXCEPT ![c] = "idle"]
    /\ UNCHANGED <<asked, installed, thread, zombies, timer, signalled, taken, gcVars,
                   overlap, forks>>

\* finally: the accumulator and the observers are cleared.
Reset(c) ==
    /\ pc[c] = "reset"
    /\ pauseStart' = FALSE
    /\ observers' = FALSE
    /\ taken' = [taken EXCEPT ![c] = None]
    /\ pc' = [pc EXCEPT ![c] = "idle"]
    /\ UNCHANGED <<asked, installed, thread, zombies, timer, signalled, gcVars, overlap,
                   forks>>

--------------------------------------------------------------------------------
(* A collection, and the callback in its start and stop phases *)

\* The start phase calls the callback if it is in gc.callbacks.
CollectionBegins(who) ==
    /\ gc' = who
    /\ inCallback' = installed
    /\ watched' = installed
    /\ UNCHANGED lost

OrganicBegins ==
    /\ gc = None
    /\ CollectionBegins(Organic)
    /\ UNCHANGED <<asked, installed, observers, pauseStart, thread, zombies, timer,
                   signalled, callVars, overlap, forks>>

\* _pause_starts[gen] = perf_counter()
CallbackStarts ==
    /\ inCallback
    /\ pauseStart' = TRUE
    /\ inCallback' = FALSE
    /\ UNCHANGED <<asked, installed, observers, thread, zombies, timer, signalled,
                   callVars, gc, watched, lost, overlap, forks>>

\* The stop phase: the callback, if it is installed, clears the start and observes
\* the pause; without observers the IndexError is swallowed.
CollectionEnds ==
    /\ gc # None /\ ~inCallback
    /\ gc' = None
    /\ pauseStart' = (pauseStart /\ ~installed)
    /\ lost' = (lost \/ (watched /\ ~(pauseStart /\ observers)))
    /\ watched' = FALSE
    /\ UNCHANGED <<asked, installed, observers, thread, zombies, timer, signalled,
                   callVars, inCallback, overlap, forks>>

--------------------------------------------------------------------------------
(* _collector_loop *)

\* wait times out: gc.collect(2).
Sweep(i) ==
    /\ timer[i] = "waiting" /\ i \notin signalled
    /\ timer' = [timer EXCEPT ![i] = "collecting"]
    /\ IF gc = None THEN CollectionBegins(i) ELSE UNCHANGED gcVars
    /\ UNCHANGED <<asked, installed, observers, pauseStart, thread, zombies, signalled,
                   callVars, overlap, forks>>

\* gc.collect returns.
SweepEnds(i) ==
    /\ timer[i] = "collecting" /\ gc # i
    /\ timer' = [timer EXCEPT ![i] = "waiting"]
    /\ UNCHANGED <<asked, installed, observers, pauseStart, thread, zombies, signalled,
                   callVars, gcVars, overlap, forks>>

\* wait returns True.
TimerExits(i) ==
    /\ timer[i] = "waiting" /\ i \in signalled
    /\ timer' = [timer EXCEPT ![i] = "exited"]
    /\ UNCHANGED <<asked, installed, observers, pauseStart, thread, zombies, signalled,
                   callVars, gcVars, overlap, forks>>

--------------------------------------------------------------------------------
(* os.fork: the child has the thread that forked and no other *)

\* Mutant: the thread reference is inherited.
ForkKeepsThread(c) ==
    /\ pc[c] = "idle" /\ gc = None /\ forks < MaxForks
    /\ forks' = forks + 1
    /\ timer' = [i \in Timers |-> IF Alive(i) THEN "exited" ELSE timer[i]]
    /\ pc' = [d \in Callers |-> "idle"]
    /\ taken' = [d \in Callers |-> None]
    /\ zombies' = {}
    /\ pauseStart' = FALSE /\ observers' = FALSE /\ installed' = FALSE
    /\ asked' = {} /\ overlap' = FALSE /\ lost' = FALSE
    /\ UNCHANGED <<thread, signalled, gc, inCallback, watched>>

\* No collection is under way.  _reset_after_fork clears the rest.
Fork(c) ==
    /\ pc[c] = "idle" /\ gc = None /\ forks < MaxForks
    /\ forks' = forks + 1
    /\ timer' = [i \in Timers |-> IF Alive(i) THEN "exited" ELSE timer[i]]
    /\ pc' = [d \in Callers |-> "idle"]
    /\ taken' = [d \in Callers |-> None]
    /\ thread' = None
    /\ zombies' = {}
    /\ pauseStart' = FALSE /\ observers' = FALSE /\ installed' = FALSE
    /\ asked' = {} /\ overlap' = FALSE /\ lost' = FALSE
    /\ UNCHANGED <<signalled, gc, inCallback, watched>>

--------------------------------------------------------------------------------
Init ==
    /\ asked = {}
    /\ installed = FALSE /\ observers = FALSE /\ pauseStart = FALSE
    /\ thread = None /\ zombies = {}
    /\ timer = [i \in Timers |-> "unborn"]
    /\ signalled = {}
    /\ pc = [c \in Callers |-> "idle"]
    /\ taken = [c \in Callers |-> None]
    /\ gc = None /\ inCallback = FALSE /\ watched = FALSE /\ lost = FALSE
    /\ overlap = FALSE
    /\ forks = 0

Next ==
    \/ \E c \in Callers :
          \/ \E wanted, install \in BOOLEAN : Start(c, wanted, install)
          \/ Stop(c) \/ Signal(c) \/ Join(c) \/ Reset(c)
          \/ Fork(c)
    \/ \E i \in Timers : Sweep(i) \/ SweepEnds(i) \/ TimerExits(i)
    \/ OrganicBegins \/ CallbackStarts \/ CollectionEnds

Spec == Init /\ [][Next]_vars

\* Threads are scheduled: a collection ends, a timer's wait returns.  Nobody has to
\* call start_collector or stop_collector; a stop that has begun goes on.
Fairness ==
    /\ \A c \in Callers : WF_vars(Signal(c)) /\ WF_vars(Join(c)) /\ WF_vars(Reset(c))
    /\ \A i \in Timers :
          WF_vars(Sweep(i)) /\ WF_vars(SweepEnds(i)) /\ WF_vars(TimerExits(i))
    /\ WF_vars(CallbackStarts) /\ WF_vars(CollectionEnds)

FairSpec == Spec /\ Fairness

--------------------------------------------------------------------------------
(* Properties *)

\* The types of the state; a caller has taken a thread only while it stops it.
TypeOK ==
    /\ {installed, observers, pauseStart, inCallback, watched, lost, overlap} \cup asked
           \subseteq BOOLEAN
    /\ thread \in Timers \cup {None}
    /\ zombies \subseteq Timers /\ signalled \subseteq Timers
    /\ timer \in [Timers -> {"unborn", "waiting", "collecting", "exited"}]
    /\ pc \in [Callers -> {"idle", "signal", "join", "reset"}]
    /\ taken \in [Callers -> Timers \cup {None}]
    /\ gc \in Timers \cup {None, Organic}
    /\ watched => installed
    /\ \A c \in Callers : pc[c] = "idle" => taken[c] = None
    /\ forks \in 0..MaxForks

\* No timer thread is out of reach: one that has not been told to stop is the one
\* that _state names, where stop_collector will find it, or a stop_collector has it
\* in hand.  A process that always passes the same install_callback cannot start a
\* second one beside it; after one start without the callback, a start with it does.
NoOrphan ==
    asked # BOOLEAN =>
        \A i \in Timers : Alive(i) /\ i \notin signalled =>
            i = thread \/ \E c \in Callers : pc[c] = "signal" /\ taken[c] = i

\* The callback, while it is installed, has observers to report to, and every
\* collection that ran under it was observed: the callback is the first thing a stop
\* removes and the last a start installs.  A start that runs between the two halves
\* of another thread's stop is excluded: that stop clears its observers.
EveryPauseObserved == ~overlap => (installed => observers) /\ ~lost

\* A timer that outlives its join is a zombie, and while one is alive no other timer is
\* started (stop_collector's docstring).  The code does not keep this: nobody reads
\* _zombies (see the README).
ZombiesRefuseStart ==
    [][\A i \in Timers : timer[i] = "unborn" /\ timer'[i] = "waiting" =>
          \A z \in zombies : ~Alive(z)]_vars

\* A second start finds the timer running and starts no other (start_collector,
\* "Idempotent").  The code does not keep this for a second start that asks for the
\* callback as well (see the README).
StartIsIdempotent == [][ThreadRunning /\ thread' # thread => thread' = None]_vars

\* The timer that _state names sweeps, or is replaced: a forked child is never left
\* with a reference to a timer that only its parent has (_reset_after_fork).
TimerSweeps ==
    \A i \in Timers : thread = i ~> (timer[i] = "collecting" \/ thread # i)

================================================================================
