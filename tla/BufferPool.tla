------------------------------- MODULE BufferPool -------------------------------
(*****************************************************************************)
(* BufferPool and BatchBufferPool: a deque of output buffers, taken with     *)
(* popleft and given back with append and without a lock, and the assembly   *)
(* that fills a buffer between the two.                                      *)
(*                                                                           *)
(* popleft, append, len and fill are atomic under the GIL; a thread switch,  *)
(* and a KeyboardInterrupt, may come between any two of them.  The two pools *)
(* have the same code and differ in the shape of a buffer (rows) and in      *)
(* zero_on_return: kind says which one this is.  assemble copies field after *)
(* field and may raise in between; the batch kernel writes its rows in       *)
(* parallel and cannot raise, what raises is checked before it starts.       *)
(* Buffers are used as the module's docstring asks: no reference to one      *)
(* outlives its with block.  A thread may have several checkouts open, and   *)
(* ends them in any order.                                                   *)
(*****************************************************************************)
EXTENDS Integers, Sequences, FiniteSets, SequencesExt

CONSTANTS
    Threads,        \* request threads
    Checkouts,      \* the checkouts that may be open at once
    ThreadOf,       \* the thread of each of them
    Entities,       \* entities that have a row in the segment
    Unknown,        \* an entity id that has none
    None,
    Cells,          \* the cells of a row of a buffer
    MaxSize,        \* max_size
    BatchSize       \* batch_size

Thread(k) == ThreadOf[k]

\* Every buffer that can be alive: the deque may run over, each checkout may hold one.
Buffers == 1..(MaxSize + Cardinality(Threads) + Cardinality(Checkouts))

ASSUME PoolAssumption ==
    /\ IsFiniteSet(Threads) /\ Threads # {}
    /\ IsFiniteSet(Checkouts) /\ ThreadOf \in [Checkouts -> Threads]
    /\ Unknown \notin Entities /\ None \notin Entities \cup {Unknown} \cup Buffers
    /\ MaxSize \in Nat \ {0} /\ BatchSize \in Nat \ {0}

\* The defaults of the two pools.
Single == [rows |-> 1..1, zero |-> TRUE]
Batch  == [rows |-> 1..BatchSize, zero |-> FALSE]

VARIABLES
    kind,       \* which of the two pools this is
    pool,       \* _buffers
    content,    \* what each cell of each buffer holds: None is 0.0
    pc,         \* where each checkout is
    buf,        \* the buffer its with block names
    slot,       \* _buf of the _Checkout
    ids,        \* the ids its body assembles, one for each row
    todo        \* the cells the assembly has still to write

vars == <<kind, pool, content, pc, buf, slot, ids, todo>>

Zeros == [r \in kind.rows |-> [c \in Cells |-> None]]

\* Where the thread is inside __enter__, an assembly or __exit__ of the checkout; at
\* the other points of a body it may turn to another one.
Busy == {"entered", "writing", "zero", "check", "append"}

Runs(k) == \A j \in Checkouts : Thread(j) = Thread(k) /\ j # k => pc[j] \notin Busy

--------------------------------------------------------------------------------
(* __enter__ *)

\* popleft finds a buffer.
EnterHit(k) ==
    /\ pc[k] = "idle" /\ pool # <<>>
    /\ pool' = Tail(pool)
    /\ buf' = [buf EXCEPT ![k] = Head(pool)]
    /\ pc' = [pc EXCEPT ![k] = "entered"]
    /\ UNCHANGED <<kind, content, slot, ids, todo>>

\* A buffer that neither the deque nor a checkout refers to: what np.zeros returns.
Fresh(b) ==
    /\ b \in Buffers
    /\ b \notin Range(pool)
    /\ \A k \in Checkouts : buf[k] # b /\ slot[k] # b

\* IndexError: a new buffer.
EnterMiss(k) ==
    /\ pc[k] = "idle" /\ pool = <<>>
    /\ \E b \in Buffers :
          /\ Fresh(b) /\ \A a \in 1..(b - 1) : ~Fresh(a)
          /\ buf' = [buf EXCEPT ![k] = b]
          /\ content' = [content EXCEPT ![b] = Zeros]
    /\ pc' = [pc EXCEPT ![k] = "entered"]
    /\ UNCHANGED <<kind, pool, slot, ids, todo>>

\* _buf is set and the body runs: it calls assemble or assemble_batch with out = buf.
Body(k) ==
    /\ pc[k] = "entered"
    /\ slot' = [slot EXCEPT ![k] = buf[k]]
    /\ \E q \in [kind.rows -> Entities \cup {Unknown}] : ids' = [ids EXCEPT ![k] = q]
    /\ pc' = [pc EXCEPT ![k] = "called"]
    /\ UNCHANGED <<kind, pool, content, buf, todo>>

--------------------------------------------------------------------------------
(* assemble, assemble_batch *)

\* assemble: no row for the id, EntityNotFoundError.  assemble_batch: an id is
\* empty, ValueError.  Nothing has been written.
AssembleRefuses(k) ==
    /\ pc[k] = "called"
    /\ kind = Single => ids[k][1] = Unknown
    /\ pc' = [pc EXCEPT ![k] = "raised"]
    /\ UNCHANGED <<kind, pool, content, buf, slot, ids, todo>>

\* Mutant: the kernel skips the rows of unknown ids.
AssembleBeginsSkipping(k) ==
    /\ pc[k] = "called"
    /\ kind = Single => ids[k][1] # Unknown
    /\ todo' = [todo EXCEPT ![k] = {x \in kind.rows \X Cells : ids[k][x[1]] # Unknown}]
    /\ pc' = [pc EXCEPT ![k] = "writing"]
    /\ UNCHANGED <<kind, pool, content, buf, slot, ids>>

\* The checks pass: every cell of every row will be written.
AssembleBegins(k) ==
    /\ pc[k] = "called"
    /\ kind = Single => ids[k][1] # Unknown
    /\ todo' = [todo EXCEPT ![k] = kind.rows \X Cells]
    /\ pc' = [pc EXCEPT ![k] = "writing"]
    /\ UNCHANGED <<kind, pool, content, buf, slot, ids>>

\* What the assembly stores for an id: its features, 0.0 for an unknown one.
Value(id) == IF id \in Entities THEN id ELSE None

WriteCell(k, x) ==
    /\ pc[k] = "writing" /\ x \in todo[k]
    /\ content' = [content EXCEPT ![buf[k]][x[1]][x[2]] = Value(ids[k][x[1]])]
    /\ todo' = [todo EXCEPT ![k] = @ \ {x}]
    /\ UNCHANGED <<kind, pool, pc, buf, slot, ids>>

\* assemble meets an unknown dtype code, or the signal handler raises.
AssembleRaises(k) ==
    /\ pc[k] = "writing" /\ kind = Single
    /\ todo' = [todo EXCEPT ![k] = {}]
    /\ pc' = [pc EXCEPT ![k] = "raised"]
    /\ UNCHANGED <<kind, pool, content, buf, slot, ids>>

AssembleReturns(k) ==
    /\ pc[k] = "writing" /\ todo[k] = {}
    /\ pc' = [pc EXCEPT ![k] = "assembled"]
    /\ UNCHANGED <<kind, pool, content, buf, slot, ids, todo>>

--------------------------------------------------------------------------------
(* __exit__ *)

\* Mutant: _buf is kept.
ExitKeepsBuf(k) ==
    /\ pc[k] \in {"assembled", "raised", "idle"} /\ slot[k] # None
    /\ buf' = [buf EXCEPT ![k] = slot[k]]
    /\ UNCHANGED slot
    /\ pc' = [pc EXCEPT ![k] = "zero"]
    /\ UNCHANGED <<kind, pool, content, ids, todo>>

\* The with block ends, by an exception or not; or the _Checkout is used once
\* more, which the cleared _buf makes harmless.
Exit(k) ==
    /\ pc[k] \in {"assembled", "raised", "idle"} /\ slot[k] # None
    /\ buf' = [buf EXCEPT ![k] = slot[k]]
    /\ slot' = [slot EXCEPT ![k] = None]
    /\ pc' = [pc EXCEPT ![k] = "zero"]
    /\ UNCHANGED <<kind, pool, content, ids, todo>>

\* Mutant: zero_on_return is taken for its opposite.
ZeroInverted(k) ==
    /\ pc[k] = "zero"
    /\ IF kind.zero
       THEN UNCHANGED content
       ELSE content' = [content EXCEPT ![buf[k]] = Zeros]
    /\ pc' = [pc EXCEPT ![k] = "check"]
    /\ UNCHANGED <<kind, pool, buf, slot, ids, todo>>

Zero(k) ==
    /\ pc[k] = "zero"
    /\ IF kind.zero
       THEN content' = [content EXCEPT ![buf[k]] = Zeros]
       ELSE UNCHANGED content
    /\ pc' = [pc EXCEPT ![k] = "check"]
    /\ UNCHANGED <<kind, pool, buf, slot, ids, todo>>

\* The buffer is garbage: what it held is gone with it.
Drop(k) == content' = [content EXCEPT ![buf[k]] = Zeros]

\* The thread leaves __exit__: nothing of the request is left.
Leave(k) ==
    /\ buf' = [buf EXCEPT ![k] = None]
    /\ ids' = [ids EXCEPT ![k] = <<>>]
    /\ pc' = [pc EXCEPT ![k] = "idle"]
    /\ UNCHANGED <<kind, todo>>

\* Mutant: the length is not compared.
HasRoomAlways(k) ==
    /\ pc[k] = "check"
    /\ pc' = [pc EXCEPT ![k] = "append"]
    /\ UNCHANGED <<kind, pool, content, buf, slot, ids, todo>>

\* len(_buffers) < max_size
HasRoom(k) ==
    /\ pc[k] = "check" /\ Len(pool) < MaxSize
    /\ pc' = [pc EXCEPT ![k] = "append"]
    /\ UNCHANGED <<kind, pool, content, buf, slot, ids, todo>>

\* The deque is full: the surplus buffer is dropped.
IsFull(k) ==
    /\ pc[k] = "check" /\ Len(pool) >= MaxSize
    /\ Drop(k) /\ Leave(k)
    /\ UNCHANGED <<pool, slot>>

\* Other threads may have appended since the length was read.
AppendBuf(k) ==
    /\ pc[k] = "append"
    /\ pool' = Append(pool, buf[k])
    /\ Leave(k)
    /\ UNCHANGED <<content, slot>>

\* A KeyboardInterrupt outside the body: between popleft and the with block, or
\* inside __exit__.  The buffer is garbage, the deque one shorter.
Interrupt(k) ==
    /\ pc[k] \in {"entered", "zero", "check", "append"}
    /\ Drop(k) /\ Leave(k)
    /\ UNCHANGED <<pool, slot>>

--------------------------------------------------------------------------------
\* __init__ fills the deque.
Init ==
    /\ kind \in {Single, Batch}
    /\ pool = [i \in 1..MaxSize |-> i]
    /\ content = [b \in Buffers |-> Zeros]
    /\ pc = [k \in Checkouts |-> "idle"]
    /\ buf = [k \in Checkouts |-> None]
    /\ slot = [k \in Checkouts |-> None]
    /\ ids = [k \in Checkouts |-> <<>>]
    /\ todo = [k \in Checkouts |-> {}]

Step(k) ==
    /\ Runs(k)
    /\ \/ EnterHit(k) \/ EnterMiss(k) \/ Body(k)
       \/ AssembleRefuses(k) \/ AssembleBegins(k) \/ AssembleRaises(k)
       \/ AssembleReturns(k)
       \/ \E x \in kind.rows \X Cells : WriteCell(k, x)
       \/ Exit(k) \/ Zero(k) \/ HasRoom(k) \/ IsFull(k) \/ AppendBuf(k)
       \/ Interrupt(k)

Next == \E k \in Checkouts : Step(k)

Spec == Init /\ [][Next]_vars

--------------------------------------------------------------------------------
(* Properties *)

Values == Entities \cup {None}
Phases == {"idle", "entered", "called", "writing", "assembled", "raised", "zero",
           "check", "append"}

\* The types of the state; a checkout has a buffer from popleft to the end of __exit__
\* and none when it is idle.
TypeOK ==
    /\ kind \in {Single, Batch}
    /\ pool \in Seq(Buffers)
    /\ content \in [Buffers -> [kind.rows -> [Cells -> Values]]]
    /\ pc \in [Checkouts -> Phases]
    /\ buf \in [Checkouts -> Buffers \cup {None}]
    /\ slot \in [Checkouts -> Buffers \cup {None}]
    /\ ids \in [Checkouts -> [kind.rows -> Entities \cup {Unknown}] \cup {<<>>}]
    /\ todo \in [Checkouts -> SUBSET (kind.rows \X Cells)]
    /\ \A k \in Checkouts : (buf[k] = None) <=> (pc[k] = "idle")

\* A buffer belongs to one checkout or is once in the deque, never both and never
\* twice, although checkouts take no lock and a _Checkout may be left twice
\* (_Checkout.__enter__ and __exit__).
Exclusive ==
    /\ \A i, j \in 1..Len(pool) : pool[i] = pool[j] => i = j
    /\ \A k \in Checkouts : buf[k] # None =>
          /\ buf[k] \notin Range(pool)
          /\ \A u \in Checkouts \ {k} : buf[u] # buf[k]

\* What a request finds in its buffer when the assembly returns is the features of
\* its own ids, 0.0 for unknown ones: the batch pool may skip zeroing because the
\* kernel overwrites every row (BatchBufferPool's load-bearing invariant).
OwnFeatures ==
    \A k \in Checkouts : pc[k] = "assembled" =>
        \A r \in kind.rows, c \in Cells : content[buf[k]][r][c] = Value(ids[k][r])

\* Where buffers are zeroed on return, a body that handles the exception of an
\* assembly, half-way through or not, finds nothing of another request either.
NothingForeign ==
    kind.zero => \A k \in Checkouts : pc[k] \in {"called", "writing", "raised"} =>
        \A r \in kind.rows, c \in Cells : content[buf[k]][r][c] \in {None, Value(ids[k][r])}

\* A burst of misses does not inflate memory: however many buffers were out at once,
\* each thread adds at most one to a deque that was full when it appended, since it
\* has read the length before and holds back no second append (the cap of __exit__).
Bounded == Len(pool) <= MaxSize + Cardinality(Threads) - 1

\* What ADR-005 and the test of concurrent checkouts say of the cap: once all have
\* returned their buffers, "pool.available <= pool.max_size".
CapHolds == (\A k \in Checkouts : pc[k] = "idle") => Len(pool) <= MaxSize

================================================================================
