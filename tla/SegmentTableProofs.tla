--------------------------- MODULE SegmentTableProofs ---------------------------
(*****************************************************************************)
(* What a reader copies is its entity's row: proved for every table size,    *)
(* every hash function and any number of deaths of the writer inside insert. *)
(* The death inside insert_many is excluded (BulkSurvives): after it the     *)
(* invariant is false.                                                       *)
(*****************************************************************************)
EXTENDS SegmentTable, FiniteSetTheorems, TLAPS

\* The process that fills a fresh segment does not die half way.
BulkSurvives == Budget["bulk"] = 0

Owner(s) == pool[idOffset[s]]

\* Rows handed out so far; insert_many keeps its own count until it ends.
Top == IF bulking THEN bulkRows ELSE nextRow

\* Between the home of id and slot s there is no EMPTY slot.
Chain(id, s) ==
    \E k \in Slots : /\ s = SlotAt(id, k)
                     /\ \A j \in 0..(k - 1) : SlotAt(id, j) \in occupied

Filling == wpc \in {"cursors", "pool", "cells", "flags"}

\* A visible slot is complete: its id, its hash and every field of its row.
SlotsBacked ==
    \A s \in occupied :
        /\ rowIndex[s] < Top /\ idOffset[s] < Top
        /\ Owner(s) \in Ids /\ hash[s] = HashOf[Owner(s)]
        /\ \A f \in Fields : /\ cells[rowIndex[s]][f] # 0
                             /\ log[cells[rowIndex[s]][f]] = Owner(s)

\* Visible slots share nothing, and probing reaches each of them.
SlotsDistinct ==
    /\ \A s \in occupied : Chain(Owner(s), s)
    /\ \A s, t \in occupied :
          s # t => /\ Owner(s) # Owner(t)
                   /\ rowIndex[s] # rowIndex[t]
                   /\ idOffset[s] # idOffset[t]

\* The cursors, and what insert_many has still to do.
CursorsOK ==
    /\ poolCursor = nextRow
    /\ bulking => /\ nextRow = 0 /\ wpc \in {"bulk", "pool", "cells", "flags"}
                  /\ bulkRows + Cardinality(bulk) <= Capacity
                  /\ \A s \in occupied : Owner(s) \notin bulk
    /\ wpc = "bulk" => bulking
    /\ budget["bulk"] = 0

\* The row and the pool entry being written belong to nobody else.
FillingOK ==
    Filling =>
        /\ wSlot \notin occupied /\ Chain(wId, wSlot)
        /\ wOffset = wRow
        /\ wRow = IF wpc = "cursors" THEN nextRow ELSE Top - 1
        /\ wpc = "cursors" => ~bulking
        /\ bulking => wId \notin bulk
        /\ \A s \in occupied :
              Owner(s) # wId /\ rowIndex[s] # wRow /\ idOffset[s] # wOffset

\* How far the row is written.
WrittenOK ==
    /\ Filling \/ wpc = "update" => Len(log) > 0 /\ log[Len(log)] = wId
    /\ wpc \in {"cursors", "pool"} => wFields = Fields
    /\ wpc \in {"cells", "flags"} =>
          /\ pool[wOffset] = wId
          /\ \A f \in Fields \ wFields : cells[wRow][f] = Len(log)
    /\ wpc = "flags" =>
          /\ wFields = {}
          /\ hash[wSlot] = HashOf[wId]
          /\ idOffset[wSlot] = wOffset
          /\ rowIndex[wSlot] = wRow
    /\ wpc = "update" => \E s \in occupied : rowIndex[s] = wRow /\ Owner(s) = wId

\* What the reader has established so far stays true.
ReaderOK ==
    /\ rpc \in {"flags", "hash", "id", "row"} => rStep < SlotCapacity /\ rFields = Fields
    /\ rpc \in {"hash", "id", "row"} => rSlot \in occupied
    /\ rpc = "row" => Owner(rSlot) = rId
    /\ rpc = "copy" => \E s \in occupied : rowIndex[s] = rRow /\ Owner(s) = rId

IInv ==
    /\ TypeOK
    /\ SlotsBacked
    /\ SlotsDistinct
    /\ CursorsOK
    /\ FillingOK
    /\ WrittenOK
    /\ ReaderOK
    /\ ReadsOwnRow

--------------------------------------------------------------------------------
(* What a step of the writer keeps *)

\* The log only grows.
LogGrows ==
    /\ Len(log) <= Len(log')
    /\ \A n \in 1..Len(log) : log'[n] = log[n]

\* Visible slots stay visible and keep their entity and their row.
SlotsStay ==
    /\ occupied \subseteq occupied'
    /\ \A s \in occupied : /\ Owner(s)' = Owner(s)
                           /\ rowIndex'[s] = rowIndex[s]

\* The regions that readers use are not written.
TableSame == UNCHANGED <<occupied, slotVars, pool, cells>>

--------------------------------------------------------------------------------
(* Facts about the operators *)

\* Probing stays inside the slot table.
LEMMA SlotAtInSlots ==
    ASSUME NEW id \in Ids, NEW k \in Nat
    PROVE  SlotAt(id, k) \in Slots
<1>1. HashOf[id] + k \in Nat /\ SlotCapacity \in Nat /\ SlotCapacity > 0
  BY TableAssumption
<1>2. ASSUME NEW a \in Nat, NEW n \in Nat, n > 0 PROVE a % n \in 0..(n - 1)
  BY <1>2
<1> QED
  BY <1>1, <1>2 DEF SlotAt, Slots

\* The constants, in the form the steps need.
LEMMA ConstantFacts ==
    /\ Capacity \in Nat /\ Capacity > 0 /\ SlotCapacity \in Nat /\ SlotCapacity > 0
    /\ 0 \in Rows /\ 0 \in Slots
    /\ \A id \in Ids : HashOf[id] \in Nat
BY TableAssumption DEF Rows, Slots

\* A new call is appended to the log.
LEMMA CallEffect ==
    ASSUME TypeOK, NEW id \in Ids, Call(id)
    PROVE  /\ log' \in Seq(Ids) /\ LogGrows
           /\ Len(log') = Len(log) + 1 /\ log'[Len(log')] = id
           /\ wId' = id
BY DEF TypeOK, TypeWriter, Call, LogGrows

\* An entity is found where its slot is: when the probe of id stops at an EMPTY
\* slot, no visible slot belongs to id.
LEMMA ProbeIsComplete ==
    ASSUME TypeOK, SlotsBacked, SlotsDistinct,
           NEW id \in Ids, NEW s \in Slots, ProbeStops(id, s), s \notin occupied
    PROVE  Chain(id, s) /\ \A t \in occupied : Owner(t) # id
<1>1. PICK k \in Slots :
         /\ s = SlotAt(id, k)
         /\ \A j \in 0..(k - 1) :
               SlotAt(id, j) \in occupied /\ ~Holds(SlotAt(id, j), id)
  BY DEF ProbeStops
<1>2. Chain(id, s)
  BY <1>1 DEF Chain
<1>3. ASSUME NEW t \in occupied, Owner(t) = id PROVE FALSE
  <2>1. PICK i \in Slots :
           t = SlotAt(id, i) /\ \A j \in 0..(i - 1) : SlotAt(id, j) \in occupied
    BY <1>3 DEF SlotsDistinct, Chain
  <2>2. Holds(t, id)
    BY <1>3 DEF SlotsBacked, Holds, Owner
  <2>3. i \in Int /\ k \in Int /\ i >= 0 /\ k >= 0
    BY DEF Slots
  <2>4. ~(i < k)
    BY <1>1, <2>1, <2>2, <2>3
  <2>5. ~(k < i)
    BY <1>1, <2>1, <2>3
  <2>6. i # k
    BY <1>1, <2>1
  <2> QED
    BY <2>3, <2>4, <2>5, <2>6
<1> QED
  BY <1>2, <1>3

\* A step that writes no region of the table, and hands out no row twice, keeps
\* the visible slots as they are.
LEMMA TableSameKeepsSlots ==
    ASSUME TypeOK, SlotsBacked, SlotsDistinct, TableSame, LogGrows,
           Top \in Nat, Top' \in Nat, Top <= Top'
    PROVE  SlotsBacked' /\ SlotsDistinct' /\ SlotsStay
<1>1. /\ UNCHANGED <<occupied, hash, idOffset, rowIndex, pool, cells>>
      /\ \A s \in occupied : Owner(s)' = Owner(s)
  BY DEF TableSame, slotVars, Owner
<1>2. ASSUME NEW s \in occupied
      PROVE  /\ rowIndex[s] < Top' /\ idOffset[s] < Top'
             /\ Owner(s) \in Ids /\ hash[s] = HashOf[Owner(s)]
             /\ \A f \in Fields : /\ cells[rowIndex[s]][f] # 0
                                  /\ log'[cells[rowIndex[s]][f]] = Owner(s)
  <2>1. rowIndex[s] < Top' /\ idOffset[s] < Top'
    <3>1. rowIndex[s] \in Int /\ idOffset[s] \in Int /\ rowIndex[s] < Top /\ idOffset[s] < Top
      BY DEF TypeOK, TypeSegment, SlotsBacked, Rows
    <3> QED
      BY <3>1
  <2>2. ASSUME NEW f \in Fields
        PROVE  cells[rowIndex[s]][f] # 0 /\ log'[cells[rowIndex[s]][f]] = Owner(s)
    <3>1. cells[rowIndex[s]][f] \in 0..Len(log) /\ cells[rowIndex[s]][f] # 0
      BY DEF TypeOK, TypeSegment, SlotsBacked
    <3>2. cells[rowIndex[s]][f] \in 1..Len(log)
      BY <3>1 DEF TypeOK, TypeWriter
    <3> QED
      BY <3>1, <3>2 DEF LogGrows, SlotsBacked
  <2> QED
    BY <2>1, <2>2 DEF SlotsBacked
<1>3. SlotsBacked'
  BY <1>1, <1>2 DEF SlotsBacked
<1>4. SlotsDistinct'
  BY <1>1 DEF SlotsDistinct, Chain, SlotAt
<1> QED
  BY <1>1, <1>3, <1>4 DEF SlotsStay

\* A step of the writer that keeps the visible slots disturbs no reader.
LEMMA WriterKeepsReader ==
    ASSUME TypeOK, ReaderOK, ReadsOwnRow, SlotsStay, LogGrows, UNCHANGED rVars
    PROVE  ReaderOK' /\ ReadsOwnRow'
<1>1. UNCHANGED <<rpc, rId, rStep, rRow, rFields, rGot>>
  BY DEF rVars
<1>2. ReaderOK'
  BY <1>1 DEF ReaderOK, SlotsStay, rSlot, SlotAt
<1>3. ASSUME rpc \in {"copy", "hit"}, NEW f \in Fields \ rFields
      PROVE  rGot[f] # 0 /\ log'[rGot[f]] = rId
  <2>1. rGot[f] \in 0..Len(log) /\ rGot[f] # 0 /\ log[rGot[f]] = rId
    BY <1>3 DEF TypeOK, TypeReader, ReadsOwnRow
  <2>2. rGot[f] \in 1..Len(log)
    BY <2>1 DEF TypeOK, TypeWriter
  <2> QED
    BY <2>1, <2>2 DEF LogGrows
<1>4. ReadsOwnRow'
  BY <1>1, <1>3 DEF ReadsOwnRow
<1> QED
  BY <1>2, <1>4

\* Growing the log keeps the types of what refers to it.
LEMMA LogGrowsTypes ==
    ASSUME TypeOK, LogGrows, log' \in Seq(Ids),
           UNCHANGED <<cells, returned, rGot, rSince>>
    PROVE  /\ cells' \in [Rows -> [Fields -> 0..Len(log')]]
           /\ returned' \in [Ids -> 0..Len(log')]
           /\ rGot' \in [Fields -> 0..Len(log')]
           /\ rSince' \in 0..Len(log')
<1>1. 0..Len(log) \subseteq 0..Len(log')
  BY DEF TypeOK, TypeWriter, LogGrows
<1>2. \A r \in Rows : cells[r] \in [Fields -> 0..Len(log')]
  BY <1>1 DEF TypeOK, TypeSegment
<1>3. cells \in [Rows -> [Fields -> 0..Len(log')]]
  BY <1>2 DEF TypeOK, TypeSegment
<1>4. /\ returned \in [Ids -> 0..Len(log')]
      /\ rGot \in [Fields -> 0..Len(log')]
      /\ rSince \in 0..Len(log')
  BY <1>1 DEF TypeOK, TypeWriter, TypeReader
<1> QED
  BY <1>3, <1>4

--------------------------------------------------------------------------------
(* The inductive invariant *)

\* An empty table satisfies it.
LEMMA InitIInv ==
    ASSUME BulkSurvives, Init
    PROVE  IInv
<1>1. TypeSegment
  BY ConstantFacts DEF Init, TypeSegment
<1>2. TypeWriter
  <2>1. log \in Seq(Ids) /\ Len(log) = 0
    BY DEF Init
  <2>2. returned \in [Ids -> 0..Len(log)]
    BY <2>1 DEF Init
  <2>3. bulking \in BOOLEAN
    BY DEF Init
  <2>4. bulk \subseteq Ids /\ bulkRows \in 0..Capacity
    BY ConstantFacts DEF Init
  <2>5. wId \in Ids /\ wSlot \in Slots /\ wOffset \in Rows /\ wRow \in Rows
    BY ConstantFacts DEF Init
  <2> QED
    BY <2>1, <2>2, <2>3, <2>4, <2>5 DEF Init, TypeWriter
<1>3. TypeReader
  BY ConstantFacts DEF Init, TypeReader
<1>4. budget \in [Faults -> Nat] /\ budget["bulk"] = 0
  BY TableAssumption DEF Init, BulkSurvives
<1>5. SlotsBacked /\ SlotsDistinct /\ CursorsOK
  BY <1>4 DEF Init, SlotsBacked, SlotsDistinct, CursorsOK
<1>6. FillingOK /\ WrittenOK /\ ReaderOK /\ ReadsOwnRow
  BY DEF Init, FillingOK, Filling, WrittenOK, ReaderOK, ReadsOwnRow
<1> QED
  BY <1>1, <1>2, <1>3, <1>4, <1>5, <1>6 DEF IInv, TypeOK

\* The steps of a reader: it writes nothing, and what it reads is backed.
LEMMA ReaderStep ==
    ASSUME IInv, Reader
    PROVE  IInv'
<1> USE DEF IInv, TypeOK
<1>1. UNCHANGED <<occupied, slotVars, heapVars, wpc, wVars, bulkVars, log, returned,
                  budget>>
  BY DEF Reader, Lookup, ReadFlags, ReadHash, ReadId, ReadRowIndex, CopyField, ReaderSame
<1>2. UNCHANGED <<occupied, hash, idOffset, rowIndex, nextRow, poolCursor, pool, cells,
                  wpc, wId, wSlot, wOffset, wRow, wFields, bulk, bulkRows, bulking, log,
                  returned, budget>>
  BY <1>1 DEF slotVars, heapVars, wVars, bulkVars
<1>3. TypeSegment' /\ TypeWriter' /\ (budget \in [Faults -> Nat])'
  BY <1>2 DEF TypeSegment, TypeWriter
<1>4. SlotsBacked' /\ SlotsDistinct' /\ CursorsOK'
  <2>1. \A s \in occupied : Owner(s)' = Owner(s)
    BY <1>2 DEF Owner
  <2> QED
    BY <1>2, <2>1 DEF SlotsBacked, SlotsDistinct, CursorsOK, Top, Chain, SlotAt
<1>5. FillingOK' /\ WrittenOK'
  BY <1>2 DEF FillingOK, Filling, WrittenOK, Top, Chain, SlotAt, Owner
<1>6. TypeReader' /\ ReaderOK' /\ ReadsOwnRow'
  <2>1. CASE \E id \in Ids : Lookup(id)
    <3>1. PICK id \in Ids : Lookup(id)
      BY <2>1
    <3>2. returned[id] \in 0..Len(log) /\ Len(log) \in Nat /\ 0 \in 0..Len(log)
      BY DEF TypeWriter
    <3>3. TypeReader'
      BY <1>2, <3>1, <3>2, ConstantFacts DEF Lookup, TypeReader
    <3> QED
      BY <3>1, <3>3, ConstantFacts DEF Lookup, ReaderOK, ReadsOwnRow
  <2>2. ASSUME ProbeOn, rpc \in {"hash", "id"},
               UNCHANGED <<rId, rSince, lookups, rRow, rFields, rGot, log>>
        PROVE  TypeReader' /\ ReaderOK' /\ ReadsOwnRow'
    <3>1. rStep \in Nat /\ rStep < SlotCapacity /\ SlotCapacity \in Nat /\ rFields = Fields
      BY <2>2, ConstantFacts DEF TypeReader, ReaderOK
    <3>2. TypeReader'
      BY <2>2, <3>1 DEF ProbeOn, TypeReader
    <3> QED
      BY <2>2, <3>1, <3>2 DEF ProbeOn, ReaderOK, ReadsOwnRow
  <2>3. CASE ReadFlags
    <3>1. UNCHANGED <<rId, rStep, rRow, rFields, rGot, rSince, lookups>>
      BY <2>3 DEF ReadFlags, ReaderSame
    <3>2. TypeReader'
      BY <1>2, <2>3, <3>1 DEF ReadFlags, TypeReader
    <3>3. rSlot' = rSlot
      BY <3>1 DEF rSlot, SlotAt
    <3> QED
      BY <1>2, <2>3, <3>1, <3>2, <3>3 DEF ReadFlags, ReaderOK, ReadsOwnRow
  <2>4. CASE ReadHash
    <3>1. UNCHANGED <<rId, rRow, rFields, rGot, rSince, lookups, log>> /\ rpc = "hash"
      BY <2>4 DEF ReadHash, ReaderSame
    <3>2. CASE rpc' = "id" /\ UNCHANGED rStep
      <4>1. rSlot' = rSlot
        BY <3>1, <3>2 DEF rSlot, SlotAt
      <4>2. TypeReader'
        BY <3>1, <3>2 DEF TypeReader
      <4> QED
        BY <1>2, <3>1, <3>2, <4>1, <4>2 DEF ReaderOK, ReadsOwnRow
    <3> QED
      BY <2>2, <2>4, <3>1, <3>2 DEF ReadHash
  <2>5. CASE ReadId
    <3>1. UNCHANGED <<rId, rRow, rFields, rGot, rSince, lookups, log>> /\ rpc = "id"
      BY <2>5 DEF ReadId, ReaderSame
    <3>2. CASE pool[idOffset[rSlot]] = rId /\ rpc' = "row" /\ UNCHANGED rStep
      <4>1. rSlot' = rSlot
        BY <3>1, <3>2 DEF rSlot, SlotAt
      <4>2. TypeReader'
        BY <3>1, <3>2 DEF TypeReader
      <4> QED
        BY <1>2, <3>1, <3>2, <4>1, <4>2 DEF ReaderOK, ReadsOwnRow, Owner
    <3> QED
      BY <2>2, <2>5, <3>1, <3>2 DEF ReadId
  <2>6. CASE ReadRowIndex
    <3>1. /\ UNCHANGED <<rId, rStep, rFields, rGot, rSince, lookups>> /\ rpc = "row"
          /\ rRow' = rowIndex[rSlot] /\ rpc' = "copy"
      BY <2>6 DEF ReadRowIndex, ReaderSame
    <3>2. rSlot \in occupied /\ Owner(rSlot) = rId /\ rFields = Fields
      BY <3>1 DEF ReaderOK
    <3>3. rowIndex[rSlot] \in Rows
      BY <3>2 DEF TypeSegment
    <3>4. TypeReader'
      BY <1>2, <3>1, <3>3 DEF TypeReader
    <3>5. ReaderOK'
      BY <1>2, <3>1, <3>2 DEF ReaderOK, Owner
    <3> QED
      BY <3>1, <3>2, <3>4, <3>5 DEF ReadsOwnRow
  <2>7. CASE \E f \in Fields : CopyField(f)
    <3>1. PICK f \in Fields : CopyField(f)
      BY <2>7
    <3>2. /\ UNCHANGED <<rId, rStep, rRow, rSince, lookups>> /\ rpc = "copy"
          /\ rGot' = [rGot EXCEPT ![f] = cells[rRow][f]]
          /\ rFields' = rFields \ {f}
          /\ rpc' \in {"copy", "hit"}
      BY <3>1 DEF CopyField, ReaderSame
    <3>3. PICK s \in occupied : rowIndex[s] = rRow /\ Owner(s) = rId
      BY <3>2 DEF ReaderOK
    <3>4. cells[rRow][f] \in 0..Len(log) /\ cells[rRow][f] # 0 /\ log[cells[rRow][f]] = rId
      BY <3>3 DEF SlotsBacked, TypeSegment, TypeReader
    <3>5. TypeReader'
      BY <1>2, <3>2, <3>4 DEF TypeReader
    <3>6. ReaderOK'
      BY <1>2, <3>2 DEF ReaderOK, Owner
    <3>7. ReadsOwnRow'
      BY <1>2, <3>2, <3>4 DEF ReadsOwnRow, TypeReader
    <3> QED
      BY <3>5, <3>6, <3>7
  <2> QED
    BY <2>1, <2>3, <2>4, <2>5, <2>6, <2>7 DEF Reader
<1> QED
  BY <1>3, <1>4, <1>5, <1>6

--------------------------------------------------------------------------------
(* The steps of the writer *)

\* Every slot index, offset and cursor is a number.
LEMMA NumberFacts ==
    ASSUME TypeOK
    PROVE  /\ Top \in Nat /\ nextRow \in Nat /\ bulkRows \in Nat /\ Len(log) \in Nat
           /\ wRow \in Nat /\ wRow < Capacity /\ wOffset \in Nat
           /\ \A s \in occupied : rowIndex[s] \in Nat /\ idOffset[s] \in Nat
<1>1. nextRow \in Nat /\ bulkRows \in Nat /\ Len(log) \in Nat
  BY ConstantFacts DEF TypeOK, TypeSegment, TypeWriter
<1>2. Top \in Nat
  BY <1>1 DEF Top
<1>3. wRow \in Nat /\ wRow < Capacity /\ wOffset \in Nat
  BY ConstantFacts DEF TypeOK, TypeWriter, Rows
<1>4. \A s \in occupied : rowIndex[s] \in Nat /\ idOffset[s] \in Nat
  <2>1. \A r \in Rows : r \in Nat
    BY DEF Rows
  <2> QED
    BY <2>1 DEF TypeOK, TypeSegment
<1> QED
  BY <1>1, <1>2, <1>3, <1>4

\* No insert_many is under way when a call begins.
LEMMA IdleNotBulking ==
    ASSUME IInv, wpc \in {"idle", "cursors", "update"}
    PROVE  ~bulking /\ Top = nextRow
BY DEF IInv, CursorsOK, Top

\* What a step that writes no region of the table leaves to show.
LEMMA QuietStep ==
    ASSUME IInv, TableSame, LogGrows, log' \in Seq(Ids), UNCHANGED rVars,
           Top' \in Nat, Top <= Top'
    PROVE  /\ SlotsBacked' /\ SlotsDistinct' /\ SlotsStay
           /\ TypeReader' /\ ReaderOK' /\ ReadsOwnRow'
<1>1. SlotsBacked' /\ SlotsDistinct' /\ SlotsStay
  BY TableSameKeepsSlots, NumberFacts DEF IInv
<1>2. ReaderOK' /\ ReadsOwnRow'
  BY <1>1, WriterKeepsReader DEF IInv
<1>3. 0..Len(log) \subseteq 0..Len(log')
  BY NumberFacts DEF LogGrows, IInv
<1>4. UNCHANGED <<rpc, rId, rStep, rRow, rFields, rGot, rSince, lookups>>
  BY DEF rVars
<1>5. rGot' \in [Fields -> 0..Len(log')] /\ rSince' \in 0..Len(log')
  BY <1>3, <1>4 DEF IInv, TypeOK, TypeReader
<1>6. TypeReader'
  BY <1>4, <1>5 DEF IInv, TypeOK, TypeReader
<1> QED
  BY <1>1, <1>2, <1>6

\* An insert finds the entity's slot.
LEMMA InsertUpdatesStep ==
    ASSUME IInv, NEW id \in Ids, NEW s \in Slots, InsertUpdates(id, s)
    PROVE  IInv'
<1>1. /\ UNCHANGED <<occupied, hash, idOffset, rowIndex, nextRow, poolCursor, pool, cells,
                     wSlot, wOffset, bulk, bulkRows, bulking, returned, budget>>
      /\ UNCHANGED rVars
      /\ wRow' = rowIndex[s] /\ wFields' = Fields /\ wpc = "idle" /\ wpc' = "update"
  BY DEF InsertUpdates, slotVars, heapVars, bulkVars
<1>2. /\ log' \in Seq(Ids) /\ LogGrows
      /\ Len(log') = Len(log) + 1 /\ log'[Len(log')] = id /\ wId' = id
  BY CallEffect DEF InsertUpdates, IInv
<1>3. ~bulking /\ Top = nextRow /\ Top' = Top
  BY <1>1, IdleNotBulking DEF Top
<1>4. /\ SlotsBacked' /\ SlotsDistinct' /\ SlotsStay
      /\ TypeReader' /\ ReaderOK' /\ ReadsOwnRow'
  <2>1. TableSame
    BY <1>1 DEF TableSame, slotVars
  <2>2. Top' \in Nat /\ Top <= Top'
    BY <1>3, NumberFacts DEF IInv
  <2> QED
    BY <1>1, <1>2, <2>1, <2>2, QuietStep
<1>5. TypeSegment' /\ TypeWriter' /\ (budget \in [Faults -> Nat])'
  <2>1. UNCHANGED <<rGot, rSince>>
    BY <1>1 DEF rVars
  <2>2. cells' \in [Rows -> [Fields -> 0..Len(log')]] /\ returned' \in [Ids -> 0..Len(log')]
    BY <1>1, <1>2, <2>1, LogGrowsTypes DEF IInv
  <2>3. rowIndex[s] \in Rows
    BY DEF IInv, TypeOK, TypeSegment
  <2> QED
    BY <1>1, <1>2, <2>2, <2>3 DEF IInv, TypeOK, TypeSegment, TypeWriter
<1>6. CursorsOK'
  BY <1>1, <1>3 DEF IInv, CursorsOK
<1>7. FillingOK'
  BY <1>1 DEF FillingOK, Filling
<1>8. WrittenOK'
  <2>1. s \in occupied /\ Owner(s) = id
    BY DEF InsertUpdates, ProbeStops, Holds, Owner
  <2>2. s \in occupied' /\ rowIndex'[s] = wRow' /\ Owner(s)' = id
    BY <1>1, <2>1 DEF Owner
  <2> QED
    BY <1>1, <1>2, <2>2, NumberFacts DEF WrittenOK, Filling, IInv
<1> QED
  BY <1>4, <1>5, <1>6, <1>7, <1>8 DEF IInv, TypeOK

\* An insert takes a new row: the slot and the row are nobody else's.
LEMMA InsertClaimsStep ==
    ASSUME IInv, NEW id \in Ids, NEW s \in Slots, InsertClaims(id, s)
    PROVE  IInv'
<1>1. /\ UNCHANGED <<occupied, hash, idOffset, rowIndex, nextRow, poolCursor, pool, cells,
                     bulk, bulkRows, bulking, returned, budget>>
      /\ UNCHANGED rVars
      /\ wSlot' = s /\ wOffset' = poolCursor /\ wRow' = nextRow /\ wFields' = Fields
      /\ wpc = "idle" /\ wpc' = "cursors"
      /\ s \notin occupied /\ nextRow < Capacity
  BY DEF InsertClaims, slotVars, heapVars, bulkVars
<1>2. /\ log' \in Seq(Ids) /\ LogGrows
      /\ Len(log') = Len(log) + 1 /\ log'[Len(log')] = id /\ wId' = id
  BY CallEffect DEF InsertClaims, IInv
<1>3. ~bulking /\ Top = nextRow /\ Top' = Top /\ poolCursor = nextRow
  BY <1>1, IdleNotBulking DEF Top, IInv, CursorsOK
<1>4. /\ SlotsBacked' /\ SlotsDistinct' /\ SlotsStay
      /\ TypeReader' /\ ReaderOK' /\ ReadsOwnRow'
  <2>1. TableSame
    BY <1>1 DEF TableSame, slotVars
  <2>2. Top' \in Nat /\ Top <= Top'
    BY <1>3, NumberFacts DEF IInv
  <2> QED
    BY <1>1, <1>2, <2>1, <2>2, QuietStep
<1>5. TypeSegment' /\ TypeWriter' /\ (budget \in [Faults -> Nat])'
  <2>1. UNCHANGED <<rGot, rSince>>
    BY <1>1 DEF rVars
  <2>2. cells' \in [Rows -> [Fields -> 0..Len(log')]] /\ returned' \in [Ids -> 0..Len(log')]
    BY <1>1, <1>2, <2>1, LogGrowsTypes DEF IInv
  <2>3. nextRow \in Rows
    BY <1>1, NumberFacts, ConstantFacts DEF IInv, Rows
  <2> QED
    BY <1>1, <1>2, <1>3, <2>2, <2>3 DEF IInv, TypeOK, TypeSegment, TypeWriter
<1>6. CursorsOK'
  BY <1>1, <1>3 DEF IInv, CursorsOK
<1>7. FillingOK'
  <2>1. Chain(id, s) /\ \A t \in occupied : Owner(t) # id
    BY <1>1, ProbeIsComplete DEF IInv, InsertClaims
  <2>2. Chain(wId, wSlot)'
    BY <1>1, <1>2, <2>1 DEF Chain, SlotAt
  <2>3. \A t \in occupied' : Owner(t)' # wId' /\ rowIndex'[t] # wRow' /\ idOffset'[t] # wOffset'
    <3>1. \A t \in occupied : rowIndex[t] # nextRow /\ idOffset[t] # nextRow
      BY <1>3, NumberFacts DEF IInv, SlotsBacked
    <3> QED
      BY <1>1, <1>2, <1>3, <2>1, <3>1 DEF Owner
  <2> QED
    BY <1>1, <1>3, <2>2, <2>3 DEF FillingOK
<1>8. WrittenOK'
  BY <1>1, <1>2, NumberFacts DEF WrittenOK, Filling, IInv
<1> QED
  BY <1>4, <1>5, <1>6, <1>7, <1>8 DEF IInv, TypeOK

\* insert_many takes its next row, into a slot that is nobody else's.
LEMMA BulkRowStep ==
    ASSUME IInv, NEW id \in Ids, NEW s \in Slots, BulkRow(id, s)
    PROVE  IInv'
<1>1. /\ UNCHANGED <<occupied, hash, idOffset, rowIndex, nextRow, poolCursor, pool, cells,
                     bulking, returned, budget>>
      /\ UNCHANGED rVars
      /\ wSlot' = s /\ wOffset' = bulkRows /\ wRow' = bulkRows /\ wFields' = Fields
      /\ wpc = "bulk" /\ wpc' = "pool"
      /\ id \in bulk /\ bulk' = bulk \ {id} /\ bulkRows' = bulkRows + 1
  BY DEF BulkRow, slotVars, heapVars
<1>2. /\ log' \in Seq(Ids) /\ LogGrows
      /\ Len(log') = Len(log) + 1 /\ log'[Len(log')] = id /\ wId' = id
  BY CallEffect DEF BulkRow, IInv
<1>3. bulking /\ Top = bulkRows /\ Top' = bulkRows + 1
  BY <1>1 DEF Top, IInv, CursorsOK
<1>4. /\ bulkRows \in Nat /\ bulkRows < Capacity
      /\ bulkRows + 1 + Cardinality(bulk \ {id}) <= Capacity
  <2>1. bulk \in SUBSET Ids
    BY DEF IInv, TypeOK, TypeWriter
  <2>2. IsFiniteSet(bulk)
    BY <2>1, TableAssumption, FS_Subset
  <2>3. /\ Cardinality(bulk \ {id}) = Cardinality(bulk) - 1
        /\ Cardinality(bulk) \in Nat /\ Cardinality(bulk \ {id}) \in Nat
    BY <1>1, <2>2, FS_RemoveElement, FS_CardinalityType
  <2>4. bulkRows + Cardinality(bulk) <= Capacity
    BY <1>3 DEF IInv, CursorsOK
  <2> QED
    BY <2>3, <2>4, NumberFacts, ConstantFacts DEF IInv
<1>5. /\ SlotsBacked' /\ SlotsDistinct' /\ SlotsStay
      /\ TypeReader' /\ ReaderOK' /\ ReadsOwnRow'
  <2>1. TableSame
    BY <1>1 DEF TableSame, slotVars
  <2>2. Top' \in Nat /\ Top <= Top'
    BY <1>3, <1>4
  <2> QED
    BY <1>1, <1>2, <2>1, <2>2, QuietStep
<1>6. TypeSegment' /\ TypeWriter' /\ (budget \in [Faults -> Nat])'
  <2>1. UNCHANGED <<rGot, rSince>>
    BY <1>1 DEF rVars
  <2>2. cells' \in [Rows -> [Fields -> 0..Len(log')]] /\ returned' \in [Ids -> 0..Len(log')]
    BY <1>1, <1>2, <2>1, LogGrowsTypes DEF IInv
  <2>3. bulkRows \in Rows /\ bulkRows + 1 \in 0..Capacity
    BY <1>4, ConstantFacts DEF Rows
  <2>4. TypeSegment'
    BY <1>1, <2>2 DEF IInv, TypeOK, TypeSegment
  <2>5. TypeWriter'
    BY <1>1, <1>2, <2>2, <2>3 DEF IInv, TypeOK, TypeWriter
  <2> QED
    BY <1>1, <2>4, <2>5 DEF IInv, TypeOK
<1>7. CursorsOK'
  <2>1. \A t \in occupied' : Owner(t)' \notin bulk'
    BY <1>1, <1>3 DEF IInv, CursorsOK, Owner
  <2> QED
    BY <1>1, <1>3, <1>4, <2>1 DEF IInv, CursorsOK
<1>8. FillingOK'
  <2>1. s \notin occupied /\ Chain(id, s) /\ \A t \in occupied : Owner(t) # id
    BY <1>1, <1>3 DEF BulkRow, FirstEmpty, Chain, IInv, CursorsOK
  <2>2. Chain(wId, wSlot)'
    BY <1>1, <1>2, <2>1 DEF Chain, SlotAt
  <2>3. \A t \in occupied' : Owner(t)' # wId' /\ rowIndex'[t] # wRow' /\ idOffset'[t] # wOffset'
    <3>1. \A t \in occupied : rowIndex[t] # bulkRows /\ idOffset[t] # bulkRows
      BY <1>3, NumberFacts DEF IInv, SlotsBacked
    <3> QED
      BY <1>1, <1>2, <2>1, <3>1 DEF Owner
  <2>4. wRow' = Top' - 1
    BY <1>1, <1>3, <1>4
  <2> QED
    BY <1>1, <1>2, <2>1, <2>2, <2>3, <2>4 DEF FillingOK
<1>9. WrittenOK'
  BY <1>1, <1>2, NumberFacts DEF WrittenOK, Filling, IInv
<1> QED
  BY <1>5, <1>6, <1>7, <1>8, <1>9 DEF IInv, TypeOK

\* The cursors advance over the row that was taken.
LEMMA WriteMetadataStep ==
    ASSUME IInv, WriteMetadata
    PROVE  IInv'
<1>1. /\ UNCHANGED <<occupied, hash, idOffset, rowIndex, pool, cells, wId, wSlot, wOffset,
                     wRow, wFields, bulk, bulkRows, bulking, log, returned, budget>>
      /\ UNCHANGED rVars
      /\ nextRow' = wRow + 1 /\ poolCursor' = wOffset + 1
      /\ wpc = "cursors" /\ wpc' = "pool"
  BY DEF WriteMetadata, slotVars, wVars, bulkVars
<1>2. log' \in Seq(Ids) /\ LogGrows
  BY <1>1, NumberFacts DEF LogGrows, IInv, TypeOK, TypeWriter
<1>3. ~bulking /\ wOffset = wRow /\ wRow = nextRow /\ Top = nextRow /\ Top' = wRow + 1
  BY <1>1, IdleNotBulking DEF Top, IInv, FillingOK, Filling
<1>4. /\ SlotsBacked' /\ SlotsDistinct' /\ SlotsStay
      /\ TypeReader' /\ ReaderOK' /\ ReadsOwnRow'
  <2>1. TableSame
    BY <1>1 DEF TableSame, slotVars
  <2>2. Top' \in Nat /\ Top <= Top'
    BY <1>3, NumberFacts DEF IInv
  <2> QED
    BY <1>1, <1>2, <2>1, <2>2, QuietStep
<1>5. TypeSegment' /\ TypeWriter' /\ (budget \in [Faults -> Nat])'
  <2>1. wRow + 1 \in 0..Capacity
    BY NumberFacts, ConstantFacts DEF IInv
  <2>2. TypeSegment'
    BY <1>1, <1>3, <2>1 DEF IInv, TypeOK, TypeSegment
  <2>3. TypeWriter'
    BY <1>1 DEF IInv, TypeOK, TypeWriter
  <2> QED
    BY <1>1, <2>2, <2>3 DEF IInv, TypeOK
<1>6. CursorsOK'
  BY <1>1, <1>3 DEF IInv, CursorsOK
<1>7. FillingOK'
  <2>1. Chain(wId, wSlot)' /\ wSlot' \notin occupied'
    BY <1>1 DEF IInv, FillingOK, Filling, Chain, SlotAt
  <2>2. \A t \in occupied' : Owner(t)' # wId' /\ rowIndex'[t] # wRow' /\ idOffset'[t] # wOffset'
    BY <1>1 DEF IInv, FillingOK, Filling, Owner
  <2>3. wRow' = Top' - 1
    BY <1>1, <1>3, NumberFacts DEF IInv
  <2> QED
    BY <1>1, <1>3, <2>1, <2>2, <2>3 DEF FillingOK
<1>8. WrittenOK'
  BY <1>1 DEF WrittenOK, Filling, IInv
<1> QED
  BY <1>4, <1>5, <1>6, <1>7, <1>8 DEF IInv, TypeOK

\* An update in place returns.
LEMMA UpdateEndsStep ==
    ASSUME IInv, UpdateEnds
    PROVE  IInv'
<1>1. /\ UNCHANGED <<occupied, hash, idOffset, rowIndex, nextRow, poolCursor, pool, cells,
                     wId, wSlot, wOffset, wRow, wFields, bulk, bulkRows, bulking, log,
                     budget>>
      /\ UNCHANGED rVars
      /\ returned' = [returned EXCEPT ![wId] = Len(log)]
      /\ wpc = "update"
  BY DEF UpdateEnds, Return, slotVars, heapVars, wVars, bulkVars
<1>2. log' \in Seq(Ids) /\ LogGrows
  BY <1>1, NumberFacts DEF LogGrows, IInv, TypeOK, TypeWriter
<1>3. ~bulking /\ Top' = Top
  BY <1>1, IdleNotBulking DEF Top
<1>4. wpc' = "idle"
  BY <1>3 DEF UpdateEnds, Return
<1>5. /\ SlotsBacked' /\ SlotsDistinct' /\ SlotsStay
      /\ TypeReader' /\ ReaderOK' /\ ReadsOwnRow'
  <2>1. TableSame
    BY <1>1 DEF TableSame, slotVars
  <2>2. Top' \in Nat /\ Top <= Top'
    BY <1>3, NumberFacts DEF IInv
  <2> QED
    BY <1>1, <1>2, <2>1, <2>2, QuietStep
<1>6. TypeSegment' /\ TypeWriter' /\ (budget \in [Faults -> Nat])'
  <2>1. Len(log) \in 0..Len(log)
    BY NumberFacts DEF IInv
  <2>2. returned' \in [Ids -> 0..Len(log')]
    BY <1>1, <2>1 DEF IInv, TypeOK, TypeWriter
  <2> QED
    BY <1>1, <1>4, <2>2 DEF IInv, TypeOK, TypeSegment, TypeWriter
<1>7. CursorsOK' /\ FillingOK' /\ WrittenOK'
  BY <1>1, <1>3, <1>4 DEF IInv, CursorsOK, FillingOK, WrittenOK, Filling
<1> QED
  BY <1>5, <1>6, <1>7 DEF IInv, TypeOK

\* insert_many begins on an empty table.
LEMMA BulkStartStep ==
    ASSUME IInv, BulkStart
    PROVE  IInv'
<1>1. /\ UNCHANGED <<occupied, hash, idOffset, rowIndex, nextRow, poolCursor, pool, cells,
                     wId, wSlot, wOffset, wRow, wFields, log, returned, budget>>
      /\ UNCHANGED rVars
      /\ bulk' \subseteq Ids /\ Cardinality(bulk') <= Capacity
      /\ bulkRows' = 0 /\ bulking' = TRUE /\ nextRow = 0
      /\ wpc = "idle" /\ wpc' = "bulk"
  BY DEF BulkStart, slotVars, heapVars, wVars
<1>2. log' \in Seq(Ids) /\ LogGrows
  BY <1>1, NumberFacts DEF LogGrows, IInv, TypeOK, TypeWriter
<1>3. Top = 0 /\ Top' = 0
  BY <1>1, IdleNotBulking DEF Top
<1>4. /\ SlotsBacked' /\ SlotsDistinct' /\ SlotsStay
      /\ TypeReader' /\ ReaderOK' /\ ReadsOwnRow'
  <2>1. TableSame
    BY <1>1 DEF TableSame, slotVars
  <2>2. Top' \in Nat /\ Top <= Top'
    BY <1>3
  <2> QED
    BY <1>1, <1>2, <2>1, <2>2, QuietStep
<1>5. TypeSegment' /\ TypeWriter' /\ (budget \in [Faults -> Nat])'
  <2>1. 0 \in 0..Capacity
    BY ConstantFacts
  <2>2. (bulking \in BOOLEAN)'
    BY <1>1
  <2> QED
    BY <1>1, <2>1, <2>2 DEF IInv, TypeOK, TypeSegment, TypeWriter
<1>6. CursorsOK'
  <2>1. occupied = {}
    BY <1>3, NumberFacts DEF IInv, SlotsBacked
  <2>2. 0 + Cardinality(bulk') <= Capacity
    <3>1. bulk' \in SUBSET Ids
      BY <1>1
    <3>2. Cardinality(bulk') \in Nat
      BY <3>1, TableAssumption, FS_Subset, FS_CardinalityType
    <3> QED
      BY <1>1, <3>2
  <2> QED
    BY <1>1, <2>1, <2>2 DEF IInv, CursorsOK
<1>7. FillingOK' /\ WrittenOK'
  BY <1>1 DEF FillingOK, WrittenOK, Filling
<1> QED
  BY <1>4, <1>5, <1>6, <1>7 DEF IInv, TypeOK

\* insert_many writes the cursors back.
LEMMA BulkEndsStep ==
    ASSUME IInv, BulkEnds
    PROVE  IInv'
<1>1. /\ UNCHANGED <<occupied, hash, idOffset, rowIndex, pool, cells, wId, wSlot, wOffset,
                     wRow, wFields, bulk, bulkRows, log, returned, budget>>
      /\ UNCHANGED rVars
      /\ nextRow' = bulkRows /\ poolCursor' = bulkRows
      /\ bulking' = FALSE /\ wpc = "bulk" /\ wpc' = "idle"
  BY DEF BulkEnds, slotVars, wVars
<1>2. log' \in Seq(Ids) /\ LogGrows
  BY <1>1, NumberFacts DEF LogGrows, IInv, TypeOK, TypeWriter
<1>3. bulking /\ Top = bulkRows /\ Top' = bulkRows
  BY <1>1 DEF Top, IInv, CursorsOK
<1>4. /\ SlotsBacked' /\ SlotsDistinct' /\ SlotsStay
      /\ TypeReader' /\ ReaderOK' /\ ReadsOwnRow'
  <2>1. TableSame
    BY <1>1 DEF TableSame, slotVars
  <2>2. Top' \in Nat /\ Top <= Top'
    BY <1>3, NumberFacts DEF IInv
  <2> QED
    BY <1>1, <1>2, <2>1, <2>2, QuietStep
<1>5. TypeSegment' /\ TypeWriter' /\ (budget \in [Faults -> Nat])'
  <2>1. (bulking \in BOOLEAN)'
    BY <1>1
  <2> QED
    BY <1>1, <2>1 DEF IInv, TypeOK, TypeSegment, TypeWriter
<1>6. CursorsOK' /\ FillingOK' /\ WrittenOK'
  BY <1>1 DEF IInv, CursorsOK, FillingOK, WrittenOK, Filling
<1> QED
  BY <1>4, <1>5, <1>6 DEF IInv, TypeOK

\* The writer dies in an insert: a row it has taken stays without a slot.
LEMMA WriterDiesStep ==
    ASSUME IInv, WriterDies
    PROVE  IInv'
<1>1. /\ UNCHANGED <<occupied, hash, idOffset, rowIndex, nextRow, poolCursor, pool, cells,
                     wId, wSlot, wOffset, wRow, wFields, bulkRows, log, returned>>
      /\ UNCHANGED rVars
      /\ bulk' = {} /\ bulking' = FALSE /\ wpc' = "idle"
  BY DEF WriterDies, slotVars, heapVars, wVars
<1>2. log' \in Seq(Ids) /\ LogGrows
  BY <1>1, NumberFacts DEF LogGrows, IInv, TypeOK, TypeWriter
<1>3. ~bulking /\ budget' = [budget EXCEPT !["insert"] = @ - 1] /\ budget["insert"] > 0
  <2>1. ~(budget["bulk"] > 0)
    BY DEF IInv, CursorsOK
  <2>2. CASE bulking
    BY <2>1, <2>2 DEF WriterDies
  <2>3. CASE ~bulking
    BY <2>3 DEF WriterDies
  <2> QED
    BY <2>2, <2>3
<1>4. Top' = Top
  BY <1>1, <1>3 DEF Top
<1>5. /\ SlotsBacked' /\ SlotsDistinct' /\ SlotsStay
      /\ TypeReader' /\ ReaderOK' /\ ReadsOwnRow'
  <2>1. TableSame
    BY <1>1 DEF TableSame, slotVars
  <2>2. Top' \in Nat /\ Top <= Top'
    BY <1>4, NumberFacts DEF IInv
  <2> QED
    BY <1>1, <1>2, <2>1, <2>2, QuietStep
<1>6. budget' \in [Faults -> Nat] /\ budget'["bulk"] = 0
  BY <1>3 DEF IInv, TypeOK, CursorsOK, Faults
<1>7. TypeSegment' /\ TypeWriter'
  <2>1. (bulking \in BOOLEAN)'
    BY <1>1
  <2> QED
    BY <1>1, <2>1 DEF IInv, TypeOK, TypeSegment, TypeWriter
<1>8. CursorsOK' /\ FillingOK' /\ WrittenOK'
  BY <1>1, <1>6 DEF IInv, CursorsOK, FillingOK, WrittenOK, Filling
<1> QED
  BY <1>5, <1>6, <1>7, <1>8 DEF IInv, TypeOK

\* What a step leaves to show that writes only what no visible slot refers to.
LEMMA HiddenStep ==
    ASSUME IInv, UNCHANGED <<occupied, cells, log>>, UNCHANGED rVars, Top' = Top,
           \A s \in occupied : /\ Owner(s)' = Owner(s) /\ hash'[s] = hash[s]
                              /\ rowIndex'[s] = rowIndex[s]
                              /\ idOffset'[s] = idOffset[s]
    PROVE  /\ SlotsBacked' /\ SlotsDistinct'
           /\ TypeReader' /\ ReaderOK' /\ ReadsOwnRow'
<1>1. SlotsBacked'
  BY DEF IInv, SlotsBacked
<1>2. SlotsDistinct'
  BY DEF IInv, SlotsDistinct, Chain, SlotAt
<1>3. LogGrows /\ SlotsStay
  BY NumberFacts DEF IInv, LogGrows, SlotsStay
<1>4. ReaderOK' /\ ReadsOwnRow'
  BY <1>3, WriterKeepsReader DEF IInv
<1>5. TypeReader'
  BY DEF IInv, TypeOK, TypeReader, rVars
<1> QED
  BY <1>1, <1>2, <1>4, <1>5

\* The id goes into a pool entry that no visible slot refers to.
LEMMA WritePoolStep ==
    ASSUME IInv, WritePool
    PROVE  IInv'
<1>1. /\ UNCHANGED <<occupied, hash, idOffset, rowIndex, nextRow, poolCursor, cells, wId,
                     wSlot, wOffset, wRow, wFields, bulk, bulkRows, bulking, log, returned,
                     budget>>
      /\ UNCHANGED rVars
      /\ pool' = [pool EXCEPT ![wOffset] = wId]
      /\ wpc = "pool" /\ wpc' = "cells"
  BY DEF WritePool, slotVars, wVars, bulkVars
<1>2. wId \in Ids /\ wOffset \in Rows /\ pool \in [Rows -> Ids \cup {NoId}]
  BY DEF IInv, TypeOK, TypeSegment, TypeWriter
<1>3. \A s \in occupied : Owner(s)' = Owner(s)
  <2>1. \A s \in occupied : idOffset[s] # wOffset
    BY <1>1 DEF IInv, FillingOK, Filling
  <2> QED
    BY <1>1, <1>2, <2>1 DEF Owner
<1>4. Top' = Top
  BY <1>1 DEF Top
<1>5. SlotsBacked' /\ SlotsDistinct' /\ TypeReader' /\ ReaderOK' /\ ReadsOwnRow'
  BY <1>1, <1>3, <1>4, HiddenStep
<1>6. TypeSegment' /\ TypeWriter' /\ (budget \in [Faults -> Nat])'
  BY <1>1, <1>2 DEF IInv, TypeOK, TypeSegment, TypeWriter
<1>7. CursorsOK'
  BY <1>1, <1>3 DEF IInv, CursorsOK
<1>8. FillingOK'
  <2>1. Chain(wId, wSlot)' /\ wSlot' \notin occupied'
    BY <1>1 DEF IInv, FillingOK, Filling, Chain, SlotAt
  <2>2. \A t \in occupied' : Owner(t)' # wId' /\ rowIndex'[t] # wRow' /\ idOffset'[t] # wOffset'
    BY <1>1, <1>3 DEF IInv, FillingOK, Filling
  <2> QED
    BY <1>1, <1>4, <2>1, <2>2 DEF IInv, FillingOK, Filling
<1>9. WrittenOK'
  <2>1. pool'[wOffset] = wId
    BY <1>1, <1>2
  <2>2. wFields = Fields
    BY <1>1 DEF IInv, WrittenOK
  <2> QED
    BY <1>1, <2>1, <2>2 DEF IInv, WrittenOK, Filling
<1> QED
  BY <1>5, <1>6, <1>7, <1>8, <1>9 DEF IInv, TypeOK

\* A field is stored: in a row without a slot, or in a row of the same entity.
LEMMA WriteFieldStep ==
    ASSUME IInv, NEW f \in Fields, WriteField(f)
    PROVE  IInv'
<1>1. /\ UNCHANGED <<occupied, hash, idOffset, rowIndex, nextRow, poolCursor, pool, wpc,
                     wId, wSlot, wOffset, wRow, bulk, bulkRows, bulking, log, returned,
                     budget>>
      /\ UNCHANGED rVars
      /\ cells' = [cells EXCEPT ![wRow][f] = Len(log)]
      /\ wFields' = wFields \ {f} /\ f \in wFields
      /\ wpc \in {"cells", "update"}
  BY DEF WriteField, slotVars, bulkVars
<1>2. /\ cells \in [Rows -> [Fields -> 0..Len(log)]] /\ wRow \in Rows
      /\ Len(log) \in 0..Len(log) /\ Len(log) > 0 /\ log[Len(log)] = wId
  BY <1>1, NumberFacts DEF IInv, TypeOK, TypeSegment, TypeWriter, WrittenOK, Filling
<1>3. /\ cells' \in [Rows -> [Fields -> 0..Len(log)]]
      /\ \A r \in Rows, g \in Fields :
            cells'[r][g] = IF r = wRow /\ g = f THEN Len(log) ELSE cells[r][g]
  BY <1>1, <1>2
<1>4. \A s \in occupied : Owner(s)' = Owner(s)
  BY <1>1 DEF Owner
<1>5. Top' = Top
  BY <1>1 DEF Top
<1>6. \A s \in occupied : rowIndex[s] = wRow => Owner(s) = wId
  BY <1>1 DEF IInv, FillingOK, Filling, WrittenOK, SlotsDistinct
<1>7. SlotsBacked'
  <2>1. ASSUME NEW s \in occupied, NEW g \in Fields
        PROVE  cells'[rowIndex[s]][g] # 0 /\ log[cells'[rowIndex[s]][g]] = Owner(s)
    <3>1. rowIndex[s] \in Rows
      BY DEF IInv, TypeOK, TypeSegment
    <3>2. CASE rowIndex[s] = wRow /\ g = f
      BY <1>2, <1>3, <1>6, <3>1, <3>2
    <3>3. CASE ~(rowIndex[s] = wRow /\ g = f)
      BY <1>3, <3>1, <3>3 DEF IInv, SlotsBacked
    <3> QED
      BY <3>2, <3>3
  <2> QED
    BY <1>1, <1>4, <1>5, <2>1 DEF IInv, SlotsBacked
<1>8. SlotsDistinct'
  BY <1>1, <1>4 DEF IInv, SlotsDistinct, Chain, SlotAt
<1>9. TypeReader' /\ ReaderOK' /\ ReadsOwnRow'
  <2>1. LogGrows /\ SlotsStay
    BY <1>1, <1>4, NumberFacts DEF IInv, LogGrows, SlotsStay
  <2>2. ReaderOK' /\ ReadsOwnRow'
    BY <1>1, <2>1, WriterKeepsReader DEF IInv
  <2> QED
    BY <1>1, <2>2 DEF IInv, TypeOK, TypeReader, rVars
<1>10. TypeSegment' /\ TypeWriter' /\ (budget \in [Faults -> Nat])'
  BY <1>1, <1>3 DEF IInv, TypeOK, TypeSegment, TypeWriter
<1>11. CursorsOK'
  BY <1>1, <1>4 DEF IInv, CursorsOK
<1>12. FillingOK'
  <2>1. ASSUME Filling
        PROVE  Chain(wId, wSlot)' /\ wSlot' \notin occupied'
    BY <1>1, <2>1 DEF IInv, FillingOK, Chain, SlotAt
  <2>2. ASSUME Filling
        PROVE  \A t \in occupied' :
                  Owner(t)' # wId' /\ rowIndex'[t] # wRow' /\ idOffset'[t] # wOffset'
    BY <1>1, <1>4, <2>2 DEF IInv, FillingOK
  <2>3. Filling' = Filling
    BY <1>1 DEF Filling
  <2> QED
    BY <1>1, <1>5, <2>1, <2>2, <2>3 DEF IInv, FillingOK
<1>13. WrittenOK'
  <2>1. wpc = "cells" => \A g \in Fields \ wFields' : cells'[wRow][g] = Len(log)
    BY <1>1, <1>2, <1>3 DEF IInv, WrittenOK
  <2>2. wpc = "update" => \E s \in occupied' : rowIndex'[s] = wRow' /\ Owner(s)' = wId'
    BY <1>1, <1>4 DEF IInv, WrittenOK
  <2> QED
    BY <1>1, <1>2, <2>1, <2>2 DEF IInv, WrittenOK
<1> QED
  BY <1>7, <1>8, <1>9, <1>10, <1>11, <1>12, <1>13 DEF IInv, TypeOK

\* The fields of an EMPTY slot are written.
LEMMA WriteSlotStep ==
    ASSUME IInv, WriteSlot
    PROVE  IInv'
<1>1. /\ UNCHANGED <<occupied, nextRow, poolCursor, pool, cells, wId, wSlot, wOffset, wRow,
                     wFields, bulk, bulkRows, bulking, log, returned, budget>>
      /\ UNCHANGED rVars
      /\ hash' = [hash EXCEPT ![wSlot] = HashOf[wId]]
      /\ idOffset' = [idOffset EXCEPT ![wSlot] = wOffset]
      /\ rowIndex' = [rowIndex EXCEPT ![wSlot] = wRow]
      /\ wpc = "cells" /\ wpc' = "flags" /\ wFields = {}
  BY DEF WriteSlot, heapVars, wVars, bulkVars
<1>2. /\ wSlot \in Slots /\ wSlot \notin occupied /\ occupied \subseteq Slots
      /\ wOffset \in Rows /\ wRow \in Rows /\ HashOf[wId] \in Nat
      /\ hash \in [Slots -> Nat] /\ idOffset \in [Slots -> Rows]
      /\ rowIndex \in [Slots -> Rows]
  BY <1>1, ConstantFacts DEF IInv, TypeOK, TypeSegment, TypeWriter, FillingOK, Filling
<1>3. \A s \in occupied : /\ hash'[s] = hash[s] /\ rowIndex'[s] = rowIndex[s]
                         /\ idOffset'[s] = idOffset[s]
  BY <1>1, <1>2
<1>4. \A s \in occupied : Owner(s)' = Owner(s)
  BY <1>1, <1>3 DEF Owner
<1>5. Top' = Top
  BY <1>1 DEF Top
<1>6. SlotsBacked' /\ SlotsDistinct' /\ TypeReader' /\ ReaderOK' /\ ReadsOwnRow'
  BY <1>1, <1>3, <1>4, <1>5, HiddenStep
<1>7. TypeSegment' /\ TypeWriter' /\ (budget \in [Faults -> Nat])'
  <2>1. hash' \in [Slots -> Nat] /\ idOffset' \in [Slots -> Rows] /\ rowIndex' \in [Slots -> Rows]
    BY <1>1, <1>2
  <2> QED
    BY <1>1, <2>1 DEF IInv, TypeOK, TypeSegment, TypeWriter
<1>8. CursorsOK'
  BY <1>1, <1>4 DEF IInv, CursorsOK
<1>9. FillingOK'
  <2>1. Chain(wId, wSlot)' /\ wSlot' \notin occupied'
    BY <1>1 DEF IInv, FillingOK, Filling, Chain, SlotAt
  <2>2. \A t \in occupied' : Owner(t)' # wId' /\ rowIndex'[t] # wRow' /\ idOffset'[t] # wOffset'
    BY <1>1, <1>3, <1>4 DEF IInv, FillingOK, Filling
  <2> QED
    BY <1>1, <1>5, <2>1, <2>2 DEF IInv, FillingOK, Filling
<1>10. WrittenOK'
  <2>1. hash'[wSlot] = HashOf[wId] /\ idOffset'[wSlot] = wOffset /\ rowIndex'[wSlot] = wRow
    BY <1>1, <1>2
  <2> QED
    BY <1>1, <2>1 DEF IInv, WrittenOK, Filling
<1> QED
  BY <1>6, <1>7, <1>8, <1>9, <1>10 DEF IInv, TypeOK

\* The slot becomes visible: it is complete, and shares nothing with the others.
LEMMA PublishStep ==
    ASSUME IInv, Publish
    PROVE  IInv'
<1>1. /\ UNCHANGED <<hash, idOffset, rowIndex, nextRow, poolCursor, pool, cells, wId, wSlot,
                     wOffset, wRow, wFields, bulk, bulkRows, bulking, log, budget>>
      /\ UNCHANGED rVars
      /\ occupied' = occupied \cup {wSlot}
      /\ returned' = [returned EXCEPT ![wId] = Len(log)]
      /\ wpc = "flags" /\ wpc' = IF bulking THEN "bulk" ELSE "idle"
  BY DEF Publish, Return, slotVars, heapVars, wVars, bulkVars
<1>2. \A s \in Slots : Owner(s)' = Owner(s)
  BY <1>1 DEF Owner
<1>3. Top' = Top
  BY <1>1 DEF Top
<1>4. /\ wSlot \in Slots /\ occupied \subseteq Slots /\ wId \in Ids
      /\ Owner(wSlot) = wId /\ hash[wSlot] = HashOf[wId]
      /\ rowIndex[wSlot] = wRow /\ idOffset[wSlot] = wOffset
  BY <1>1 DEF IInv, TypeOK, TypeSegment, TypeWriter, WrittenOK, Owner
<1>5. /\ Chain(wId, wSlot) /\ wSlot \notin occupied
      /\ wRow = Top - 1 /\ wOffset = wRow
      /\ bulking => wId \notin bulk
      /\ \A s \in occupied : Owner(s) # wId /\ rowIndex[s] # wRow /\ idOffset[s] # wOffset
  BY <1>1 DEF IInv, FillingOK, Filling
<1>6. SlotsBacked'
  <2>1. rowIndex[wSlot] < Top /\ idOffset[wSlot] < Top
    BY <1>4, <1>5, NumberFacts DEF IInv
  <2>2. \A f \in Fields : cells[wRow][f] # 0 /\ log[cells[wRow][f]] = wId
    BY <1>1, NumberFacts DEF IInv, WrittenOK, Filling
  <2> QED
    BY <1>1, <1>2, <1>3, <1>4, <2>1, <2>2 DEF IInv, SlotsBacked
<1>7. SlotsDistinct'
  <2>1. \A s \in occupied' : Chain(Owner(s), s)'
    <3>1. \A s \in occupied' : Chain(Owner(s), s)
      BY <1>1, <1>4, <1>5 DEF IInv, SlotsDistinct
    <3> QED
      BY <1>1, <1>2, <1>4, <3>1 DEF Chain, SlotAt
  <2>2. \A s, t \in occupied' :
           s # t => Owner(s) # Owner(t) /\ rowIndex[s] # rowIndex[t] /\ idOffset[s] # idOffset[t]
    BY <1>1, <1>4, <1>5 DEF IInv, SlotsDistinct
  <2> QED
    BY <1>1, <1>2, <1>4, <2>1, <2>2 DEF SlotsDistinct
<1>8. TypeReader' /\ ReaderOK' /\ ReadsOwnRow'
  <2>1. LogGrows /\ SlotsStay
    BY <1>1, <1>2, <1>4, NumberFacts DEF IInv, LogGrows, SlotsStay
  <2>2. ReaderOK' /\ ReadsOwnRow'
    BY <1>1, <2>1, WriterKeepsReader DEF IInv
  <2> QED
    BY <1>1, <2>2 DEF IInv, TypeOK, TypeReader, rVars
<1>9. TypeSegment' /\ TypeWriter' /\ (budget \in [Faults -> Nat])'
  <2>1. Len(log) \in 0..Len(log)
    BY NumberFacts DEF IInv
  <2>2. returned' \in [Ids -> 0..Len(log')]
    BY <1>1, <2>1 DEF IInv, TypeOK, TypeWriter
  <2>3. wpc' \in {"idle", "bulk"}
    BY <1>1
  <2>4. TypeWriter'
    BY <1>1, <2>2, <2>3 DEF IInv, TypeOK, TypeWriter
  <2>5. TypeSegment'
    BY <1>1, <1>4 DEF IInv, TypeOK, TypeSegment
  <2> QED
    BY <1>1, <2>4, <2>5 DEF IInv, TypeOK
<1>10. CursorsOK'
  <2>1. bulking => \A s \in occupied' : Owner(s)' \notin bulk'
    BY <1>1, <1>2, <1>4, <1>5 DEF IInv, CursorsOK
  <2> QED
    BY <1>1, <2>1 DEF IInv, CursorsOK
<1>11. FillingOK' /\ WrittenOK'
  BY <1>1 DEF FillingOK, WrittenOK, Filling
<1> QED
  BY <1>6, <1>7, <1>8, <1>9, <1>10, <1>11 DEF IInv, TypeOK

--------------------------------------------------------------------------------
(* The theorems *)

\* Every step keeps the invariant: one case per action.
LEMMA StepIInv == IInv /\ [Next]_vars => IInv'
<1> SUFFICES ASSUME IInv, [Next]_vars PROVE IInv'
  OBVIOUS
<1>1. CASE Writer
  BY <1>1, InsertUpdatesStep, InsertClaimsStep, BulkRowStep, WriteMetadataStep,
     WritePoolStep, WriteSlotStep, PublishStep, UpdateEndsStep, WriteFieldStep,
     BulkStartStep, BulkEndsStep, WriterDiesStep DEF Writer
<1>2. CASE Reader
  BY <1>2, ReaderStep
<1>3. CASE UNCHANGED vars
  <2>1. TableSame /\ UNCHANGED rVars /\ log' = log /\ Top' = Top
    BY <1>3 DEF vars, TableSame, slotVars, heapVars, bulkVars, Top
  <2>2. UNCHANGED <<occupied, hash, idOffset, rowIndex, nextRow, poolCursor, pool, cells,
                    wpc, wId, wSlot, wOffset, wRow, wFields, bulk, bulkRows, bulking, log,
                    returned, budget>>
    BY <1>3 DEF vars, slotVars, heapVars, wVars, bulkVars
  <2>3. SlotsBacked' /\ SlotsDistinct' /\ TypeReader' /\ ReaderOK' /\ ReadsOwnRow'
    BY <2>1, <2>2, HiddenStep DEF Owner
  <2>4. TypeSegment' /\ TypeWriter' /\ (budget \in [Faults -> Nat])'
    BY <2>2 DEF IInv, TypeOK, TypeSegment, TypeWriter
  <2>5. CursorsOK'
    BY <2>2 DEF IInv, CursorsOK, Owner
  <2>6. FillingOK' /\ WrittenOK'
    BY <2>1, <2>2 DEF IInv, FillingOK, WrittenOK, Filling, Owner, Chain, SlotAt
  <2> QED
    BY <2>3, <2>4, <2>5, <2>6 DEF IInv, TypeOK
<1> QED
  BY <1>1, <1>2, <1>3 DEF Next

\* Unless the process dies that fills the fresh segment, whatever lookup finds
\* and assembly copies was written for the entity asked for: for every capacity,
\* hash function and number of deaths inside insert.
THEOREM ReadersGetTheirRow == BulkSurvives => (Spec => []ReadsOwnRow)
<1> SUFFICES ASSUME BulkSurvives PROVE Spec => []ReadsOwnRow
  OBVIOUS
<1>1. Init => IInv
  BY InitIInv
<1>2. IInv => ReadsOwnRow
  BY DEF IInv
<1> QED
  BY <1>1, <1>2, StepIInv, PTL DEF Spec

\* Under the same condition insert never gives an entity a second slot, nor a row
\* to two entities.
THEOREM EntitiesKeepTheirSlot == BulkSurvives => (Spec => []OneSlotPerEntity)
<1> SUFFICES ASSUME BulkSurvives PROVE Spec => []OneSlotPerEntity
  OBVIOUS
<1>1. Init => IInv
  BY InitIInv
<1>2. IInv => OneSlotPerEntity
  BY DEF IInv, SlotsDistinct, OneSlotPerEntity, Owner
<1> QED
  BY <1>1, <1>2, StepIInv, PTL DEF Spec

\* Every index and cursor stays inside its region, for every capacity and hash
\* function, unless the process dies that fills the fresh segment.
THEOREM TypeCorrect == BulkSurvives => (Spec => []TypeOK)
<1> SUFFICES ASSUME BulkSurvives PROVE Spec => []TypeOK
  OBVIOUS
<1>1. Init => IInv
  BY InitIInv
<1>2. IInv => TypeOK
  BY DEF IInv
<1> QED
  BY <1>1, <1>2, StepIInv, PTL DEF Spec

--------------------------------------------------------------------------------
(* The copy of an upgrade *)

\* When there are as many visible slots as rows were handed out, the visible slots
\* have the rows 0, 1, ... nextRow - 1, one each.
LEMMA RowsAreNumbered ==
    ASSUME IInv, wpc = "idle", ~UpgradeRefuses, nextRow > 0
    PROVE  /\ IsFiniteSet(occupied)
           /\ \A s \in occupied : rowIndex[s] \in 0..(nextRow - 1)
           /\ \A i \in 0..(nextRow - 1) : \E s \in occupied : rowIndex[s] = i
<1> DEFINE f == [s \in occupied |-> rowIndex[s]]
           T == 0..(nextRow - 1)
<1>1. nextRow \in Nat /\ Top = nextRow
  BY NumberFacts, IdleNotBulking DEF IInv
<1>2. \A s \in occupied : rowIndex[s] \in T
  BY <1>1, NumberFacts DEF IInv, SlotsBacked
<1>3. IsFiniteSet(T) /\ Cardinality(T) = nextRow
  <2>1. 0 \in Int /\ nextRow - 1 \in Int /\ ~(0 > nextRow - 1)
    BY <1>1
  <2>2. IsFiniteSet(T) /\ Cardinality(T) = nextRow - 1 - 0 + 1
    BY <2>1, FS_Interval
  <2> QED
    BY <1>1, <2>2
<1>4. f \in Injection(occupied, T)
  <2>1. f \in [occupied -> T]
    BY <1>2
  <2>2. IsInjective(f)
    BY DEF IsInjective, IInv, SlotsDistinct
  <2> QED
    BY <2>1, <2>2 DEF Injection
<1>5. Cardinality(occupied) = Cardinality(T)
  BY <1>3 DEF UpgradeRefuses
<1>6. IsFiniteSet(occupied) /\ f \in Surjection(occupied, T)
  BY <1>3, <1>4, <1>5, FS_Injection
<1>7. \A i \in T : \E s \in occupied : rowIndex[s] = i
  BY <1>6 DEF Surjection
<1> QED
  BY <1>2, <1>6, <1>7

\* Ordered by row index, the entity at place i is the one whose row is i.
LEMMA OrderIsRowIndex ==
    ASSUME IInv, wpc = "idle", ~UpgradeRefuses, nextRow > 0, NEW s \in occupied
    PROVE  Cardinality({t \in occupied : rowIndex[t] < rowIndex[s]}) = rowIndex[s]
<1> DEFINE r == rowIndex[s]
           B == {t \in occupied : rowIndex[t] < r}
           T == 0..(r - 1)
           f == [t \in B |-> rowIndex[t]]
<1>1. /\ nextRow \in Nat /\ r \in 0..(nextRow - 1)
      /\ \A t \in occupied : rowIndex[t] \in 0..(nextRow - 1)
      /\ \A i \in 0..(nextRow - 1) : \E t \in occupied : rowIndex[t] = i
  BY RowsAreNumbered, NumberFacts DEF IInv
<1>2. IsFiniteSet(T) /\ Cardinality(T) = r
  <2>1. 0 \in Int /\ r - 1 \in Int /\ r \in Nat
    BY <1>1
  <2>2. IsFiniteSet(T) /\ Cardinality(T) = IF 0 > r - 1 THEN 0 ELSE r - 1 - 0 + 1
    BY <2>1, FS_Interval
  <2> QED
    BY <2>1, <2>2
<1>3. f \in [B -> T]
  BY <1>1
<1>4. IsInjective(f)
  BY DEF IsInjective, IInv, SlotsDistinct
<1>5. \A i \in T : \E t \in B : f[t] = i
  <2> SUFFICES ASSUME NEW i \in T PROVE \E t \in B : f[t] = i
    OBVIOUS
  <2>1. i \in 0..(nextRow - 1) /\ i < r
    BY <1>1
  <2>2. PICK t \in occupied : rowIndex[t] = i
    BY <1>1, <2>1
  <2> QED
    BY <2>1, <2>2
<1>6. f \in Injection(B, T) /\ f \in Surjection(B, T)
  BY <1>3, <1>4, <1>5 DEF Injection, Surjection
<1>7. Cardinality(B) = Cardinality(T)
  BY <1>2, <1>6, FS_Injection
<1> QED
  BY <1>2, <1>7

\* When _build_translation_table accepts the table, every row is copied for the entity
\* it was written for: for every capacity, and any number of deaths inside insert.
THEOREM CopiesAreAligned == BulkSurvives => (Spec => []CopyIsAligned)
<1> SUFFICES ASSUME BulkSurvives PROVE Spec => []CopyIsAligned
  OBVIOUS
<1>1. Init => IInv
  BY InitIInv
<1>2. ASSUME IInv PROVE CopyIsAligned
  <2> SUFFICES ASSUME wpc = "idle", nextRow > 0, ~UpgradeRefuses,
                      NEW i \in 0..(nextRow - 1), NEW f \in Fields
               PROVE  cells[i][f] # 0 /\ log[cells[i][f]] = TranslatedId(i)
    BY DEF CopyIsAligned
  <2> DEFINE P(s) == Cardinality({t \in occupied : rowIndex[t] < rowIndex[s]}) = i
             c == CHOOSE s \in occupied : P(s)
  <2>1. \A s \in occupied : P(s) <=> rowIndex[s] = i
    BY <1>2, OrderIsRowIndex
  <2>2. \E s \in occupied : P(s)
    BY <1>2, <2>1, RowsAreNumbered
  <2>3. c \in occupied /\ P(c)
    BY <2>2
  <2>4. rowIndex[c] = i
    BY <2>1, <2>3
  <2>5. cells[i][f] # 0 /\ log[cells[i][f]] = Owner(c)
    BY <1>2, <2>3, <2>4 DEF IInv, SlotsBacked
  <2>6. TranslatedId(i) = Owner(c)
    BY DEF TranslatedId, Owner
  <2> QED
    BY <2>5, <2>6
<1> QED
  BY <1>1, <1>2, StepIInv, PTL DEF Spec

--------------------------------------------------------------------------------
(* What a lookup must see *)

\* An entity whose insert returned has a visible slot, and its row holds nothing older;
\* how far an update in place is.
ReturnedOK ==
    /\ \A s \in occupied, f \in Fields : cells[rowIndex[s]][f] >= returned[Owner(s)]
    /\ \A id \in Ids : returned[id] # 0 => \E s \in occupied : Owner(s) = id
    /\ wpc = "update" => \A f \in Fields \ wFields : cells[wRow][f] = Len(log)

\* The entity's slot is at or ahead of the reader's probe, and no EMPTY slot before it.
Ahead ==
    \E k \in Slots : /\ k >= rStep
                     /\ \A j \in 0..k : SlotAt(rId, j) \in occupied
                     /\ Owner(SlotAt(rId, k)) = rId

\* A lookup of an entity that had returned does not miss it and copies nothing older.
SinceOK ==
    /\ rSince <= returned[rId]
    /\ rpc \in {"flags", "hash", "id"} /\ rSince # 0 => Ahead
    /\ rpc \in {"copy", "hit"} => \A f \in Fields \ rFields : rGot[f] >= rSince
    /\ rpc = "hit" => rFields = {}

SInv == ReturnedOK /\ SinceOK /\ SeesReturned

\* The writer takes nothing from a visible slot, and leaves the reader alone.
LEMMA WriterKeepsSlots ==
    ASSUME IInv, Writer
    PROVE  SlotsStay /\ UNCHANGED rVars
<1>1. ASSUME UNCHANGED <<occupied, hash, idOffset, rowIndex, pool>>
      PROVE  SlotsStay
  BY <1>1 DEF SlotsStay, Owner
<1>2. ASSUME NEW id \in Ids, NEW s \in Slots,
             InsertUpdates(id, s) \/ InsertClaims(id, s) \/ BulkRow(id, s)
      PROVE  SlotsStay /\ UNCHANGED rVars
  BY <1>1, <1>2 DEF InsertUpdates, InsertClaims, BulkRow, slotVars, heapVars
<1>3. CASE WriteMetadata \/ UpdateEnds \/ BulkStart \/ BulkEnds \/ WriterDies
  BY <1>1, <1>3 DEF WriteMetadata, UpdateEnds, BulkStart, BulkEnds, WriterDies, slotVars,
     heapVars
<1>4. ASSUME NEW f \in Fields, WriteField(f)
      PROVE  SlotsStay /\ UNCHANGED rVars
  BY <1>1, <1>4 DEF WriteField, slotVars
<1>5. CASE WritePool
  <2>1. /\ UNCHANGED <<occupied, hash, idOffset, rowIndex>> /\ UNCHANGED rVars
        /\ pool' = [pool EXCEPT ![wOffset] = wId] /\ wpc = "pool"
    BY <1>5 DEF WritePool, slotVars
  <2>2. \A s \in occupied : idOffset[s] # wOffset
    BY <2>1 DEF IInv, FillingOK, Filling
  <2>3. pool \in [Rows -> Ids \cup {NoId}] /\ \A s \in occupied : idOffset[s] \in Rows
    BY DEF IInv, TypeOK, TypeSegment
  <2> QED
    BY <2>1, <2>2, <2>3 DEF SlotsStay, Owner
<1>6. CASE WriteSlot
  <2>1. /\ UNCHANGED <<occupied, pool>> /\ UNCHANGED rVars
        /\ idOffset' = [idOffset EXCEPT ![wSlot] = wOffset]
        /\ rowIndex' = [rowIndex EXCEPT ![wSlot] = wRow]
        /\ wpc = "cells"
    BY <1>6 DEF WriteSlot, heapVars
  <2>2. wSlot \notin occupied /\ occupied \subseteq Slots
    BY <2>1 DEF IInv, FillingOK, Filling, TypeOK, TypeSegment
  <2>3. \A s \in occupied : idOffset'[s] = idOffset[s] /\ rowIndex'[s] = rowIndex[s]
    BY <2>1, <2>2 DEF IInv, TypeOK, TypeSegment
  <2> QED
    BY <2>1, <2>3 DEF SlotsStay, Owner
<1>7. CASE Publish
  BY <1>7 DEF Publish, slotVars, heapVars, SlotsStay, Owner
<1> QED
  BY <1>2, <1>3, <1>4, <1>5, <1>6, <1>7 DEF Writer

\* The rows of visible slots are not touched, nothing returns.
LEMMA NothingReturns ==
    ASSUME IInv, ReturnedOK, SlotsStay, UNCHANGED <<occupied, cells, returned>>,
           wpc' # "update" \/ wFields' = Fields
    PROVE  ReturnedOK'
<1>1. \A s \in occupied, f \in Fields : cells'[rowIndex'[s]][f] >= returned'[Owner(s)']
  BY DEF ReturnedOK, SlotsStay
<1>2. \A id \in Ids : returned'[id] # 0 => \E s \in occupied' : Owner(s)' = id
  BY DEF ReturnedOK, SlotsStay
<1> QED
  BY <1>1, <1>2 DEF ReturnedOK

\* A step of the writer: an insert that returns has published its row or rewritten it.
LEMMA ReturnedStep ==
    ASSUME IInv, ReturnedOK, Writer
    PROVE  ReturnedOK' /\ \A id \in Ids : returned'[id] >= returned[id]
<1>1. SlotsStay
  BY WriterKeepsSlots
<1>2. /\ Len(log) \in Nat /\ returned \in [Ids -> 0..Len(log)] /\ wId \in Ids
      /\ \A id \in Ids : returned[id] \in Nat /\ returned[id] <= Len(log)
  BY NumberFacts DEF IInv, TypeOK, TypeWriter
<1>3. ASSUME UNCHANGED <<occupied, cells, returned>>, wpc' # "update" \/ wFields' = Fields
      PROVE  ReturnedOK' /\ \A id \in Ids : returned'[id] >= returned[id]
  BY <1>1, <1>2, <1>3, NothingReturns
<1>4. ASSUME NEW id \in Ids, NEW s \in Slots,
             InsertUpdates(id, s) \/ InsertClaims(id, s) \/ BulkRow(id, s)
      PROVE  ReturnedOK' /\ \A i \in Ids : returned'[i] >= returned[i]
  BY <1>3, <1>4 DEF InsertUpdates, InsertClaims, BulkRow, heapVars
<1>5. CASE WriteMetadata \/ BulkStart \/ BulkEnds \/ WriterDies \/ WritePool \/ WriteSlot
  BY <1>3, <1>5 DEF WriteMetadata, BulkStart, BulkEnds, WriterDies, WritePool, WriteSlot,
     heapVars
<1>6. ASSUME NEW f \in Fields, WriteField(f)
      PROVE  ReturnedOK' /\ \A id \in Ids : returned'[id] >= returned[id]
  <2>1. /\ UNCHANGED <<occupied, idOffset, rowIndex, pool, wpc, wRow, log, returned>>
        /\ cells' = [cells EXCEPT ![wRow][f] = Len(log)]
        /\ wFields' = wFields \ {f}
    BY <1>6 DEF WriteField, slotVars
  <2>2. cells \in [Rows -> [Fields -> 0..Len(log)]] /\ wRow \in Rows
    BY DEF IInv, TypeOK, TypeSegment, TypeWriter
  <2>3. \A r \in Rows, g \in Fields :
           cells'[r][g] = IF r = wRow /\ g = f THEN Len(log) ELSE cells[r][g]
    BY <2>1, <2>2
  <2>4. ASSUME NEW s \in occupied, NEW g \in Fields
        PROVE  cells'[rowIndex[s]][g] >= returned[Owner(s)]
    <3>1. rowIndex[s] \in Rows /\ Owner(s) \in Ids
      BY DEF IInv, TypeOK, TypeSegment, SlotsBacked
    <3>2. cells[rowIndex[s]][g] >= returned[Owner(s)] /\ Len(log) >= returned[Owner(s)]
      BY <1>2, <3>1 DEF ReturnedOK
    <3> QED
      BY <2>3, <3>1, <3>2
  <2>5. wpc = "update" => \A g \in Fields \ wFields' : cells'[wRow][g] = Len(log)
    BY <2>1, <2>2, <2>3 DEF ReturnedOK
  <2>6. \A s \in occupied : Owner(s)' = Owner(s)
    BY <2>1 DEF Owner
  <2> QED
    BY <1>2, <2>1, <2>4, <2>5, <2>6 DEF ReturnedOK
<1>7. CASE Publish \/ UpdateEnds
  <2>1. /\ UNCHANGED <<idOffset, rowIndex, pool, cells, log>>
        /\ returned' = [returned EXCEPT ![wId] = Len(log)]
        /\ wpc' # "update"
    BY <1>7 DEF Publish, UpdateEnds, Return, slotVars, heapVars
  <2>2. PICK u \in occupied' : Owner(u)' = wId /\ \A f \in Fields : cells[rowIndex[u]][f] = Len(log)
    <3>1. CASE Publish
      BY <3>1, <2>1 DEF Publish, IInv, WrittenOK, Owner
    <3>2. CASE UpdateEnds
      <4>1. wpc = "update" /\ wFields = {} /\ occupied' = occupied
        BY <3>2 DEF UpdateEnds
      <4>2. PICK s \in occupied : rowIndex[s] = wRow /\ Owner(s) = wId
        BY <4>1 DEF IInv, WrittenOK
      <4>3. \A f \in Fields : cells[wRow][f] = Len(log)
        BY <4>1 DEF ReturnedOK
      <4> QED
        BY <2>1, <4>1, <4>2, <4>3 DEF Owner
    <3> QED
      BY <1>7, <3>1, <3>2
  <2>3. ASSUME NEW s \in occupied', Owner(s)' # wId
        PROVE  s \in occupied /\ Owner(s)' = Owner(s) /\ Owner(s) \in Ids
    <3>1. s \in occupied
      BY <1>7, <2>1, <2>3 DEF Publish, UpdateEnds, IInv, WrittenOK, Owner
    <3> QED
      BY <1>1, <3>1 DEF SlotsStay, IInv, SlotsBacked
  <2>4. \A s \in occupied' : Owner(s)' = wId => s = u
    <3>1. IInv'
      BY <1>7, PublishStep, UpdateEndsStep
    <3> QED
      BY <2>2, <3>1 DEF IInv, SlotsDistinct
  <2>5. \A s \in occupied', f \in Fields : cells'[rowIndex'[s]][f] >= returned'[Owner(s)']
    <3> SUFFICES ASSUME NEW s \in occupied', NEW f \in Fields
                 PROVE  cells[rowIndex[s]][f] >= returned'[Owner(s)']
      BY <2>1
    <3>1. CASE Owner(s)' = wId
      <4>1. s = u /\ returned'[wId] = Len(log)
        BY <1>2, <2>1, <2>4, <3>1
      <4> QED
        BY <1>2, <2>2, <3>1, <4>1
    <3>2. CASE Owner(s)' # wId
      BY <1>2, <2>1, <2>3, <3>2 DEF ReturnedOK
    <3> QED
      BY <3>1, <3>2
  <2>6. \A id \in Ids : returned'[id] # 0 => \E s \in occupied' : Owner(s)' = id
    <3> SUFFICES ASSUME NEW id \in Ids, returned'[id] # 0
                 PROVE  \E s \in occupied' : Owner(s)' = id
      OBVIOUS
    <3>1. CASE id = wId
      BY <2>2, <3>1
    <3>2. CASE id # wId
      <4>1. returned[id] # 0
        BY <1>2, <2>1, <3>2
      <4>2. PICK s \in occupied : Owner(s) = id
        BY <4>1 DEF ReturnedOK
      <4> QED
        BY <1>1, <4>2 DEF SlotsStay
    <3> QED
      BY <3>1, <3>2
  <2>7. \A id \in Ids : returned'[id] >= returned[id]
    BY <1>2, <2>1
  <2> QED
    BY <2>1, <2>5, <2>6, <2>7 DEF ReturnedOK
<1> QED
  BY <1>4, <1>5, <1>6, <1>7 DEF Writer

\* The reader's part, under a step of the writer.
LEMMA SinceUnderWriter ==
    ASSUME IInv, SinceOK, SeesReturned, SlotsStay, UNCHANGED rVars,
           \A id \in Ids : returned'[id] >= returned[id],
           \A id \in Ids : returned'[id] \in Nat
    PROVE  SinceOK' /\ SeesReturned'
<1>1. UNCHANGED <<rpc, rId, rStep, rRow, rFields, rGot, rSince>>
  BY DEF rVars
<1>2. rSince' <= returned'[rId']
  <2>1. rSince \in Nat /\ returned[rId] \in Nat /\ rId \in Ids
    BY NumberFacts DEF IInv, TypeOK, TypeReader, TypeWriter
  <2> QED
    BY <1>1, <2>1 DEF SinceOK
<1>3. Ahead => Ahead'
  <2> SUFFICES ASSUME NEW k \in Slots, k >= rStep,
                      \A j \in 0..k : SlotAt(rId, j) \in occupied,
                      Owner(SlotAt(rId, k)) = rId
               PROVE  Ahead'
    BY DEF Ahead
  <2>1. k \in 0..k
    BY DEF Slots
  <2>2. Owner(SlotAt(rId, k))' = Owner(SlotAt(rId, k))
    BY <1>1, <2>1 DEF SlotsStay, SlotAt
  <2>3. \A j \in 0..k : SlotAt(rId, j)' \in occupied'
    BY <1>1 DEF SlotsStay, SlotAt
  <2> QED
    BY <1>1, <2>2, <2>3 DEF Ahead
<1>4. SinceOK'
  BY <1>1, <1>2, <1>3 DEF SinceOK
<1>5. SeesReturned'
  BY <1>1 DEF SeesReturned
<1> QED
  BY <1>4, <1>5

\* A slot of another hash or of another id is not the one that is looked for.
LEMMA ProbeGoesOn ==
    ASSUME IInv, SinceOK, ReaderOK, rpc \in {"hash", "id"}, ProbeOn,
           UNCHANGED <<occupied, idOffset, pool, rId, rSince>>,
           hash[rSlot] # HashOf[rId] \/ Owner(rSlot) # rId
    PROVE  rSince # 0 => Ahead' /\ rpc' = "flags"
<1> SUFFICES ASSUME rSince # 0 PROVE Ahead' /\ rpc' = "flags"
  OBVIOUS
<1>1. PICK k \in Slots : /\ k >= rStep
                         /\ \A j \in 0..k : SlotAt(rId, j) \in occupied
                         /\ Owner(SlotAt(rId, k)) = rId
  BY DEF SinceOK, Ahead
<1>2. /\ k \in Nat /\ rStep \in Nat /\ SlotCapacity \in Nat /\ k < SlotCapacity /\ k \in 0..k
  BY ConstantFacts DEF Slots, IInv, TypeOK, TypeReader
<1>3. hash[SlotAt(rId, k)] = HashOf[rId]
  BY <1>1, <1>2 DEF IInv, SlotsBacked
<1>4. k # rStep
  BY <1>1, <1>3 DEF rSlot
<1>5. k >= rStep + 1 /\ rStep + 1 < SlotCapacity
  BY <1>1, <1>2, <1>4
<1>6. rStep' = rStep + 1 /\ rpc' = "flags"
  BY <1>5 DEF ProbeOn
<1>7. /\ \A j \in 0..k : SlotAt(rId, j)' \in occupied'
      /\ Owner(SlotAt(rId, k))' = rId'
  BY <1>1 DEF SlotAt, Owner
<1> QED
  BY <1>5, <1>6, <1>7 DEF Ahead, SlotAt

\* A step of the reader.
LEMMA SinceUnderReader ==
    ASSUME IInv, SInv, Reader
    PROVE  SInv'
<1>1. UNCHANGED <<occupied, hash, idOffset, rowIndex, pool, cells, wpc, wRow, wFields, log,
                  returned>>
  BY DEF Reader, Lookup, ReadFlags, ReadHash, ReadId, ReadRowIndex, CopyField, ReaderSame,
     slotVars, heapVars, wVars
<1>2. ReturnedOK'
  BY <1>1 DEF SInv, ReturnedOK, Owner
<1>3. /\ SinceOK /\ SeesReturned /\ ReturnedOK /\ ReaderOK
      /\ rSince \in Nat /\ rStep \in Nat /\ SlotCapacity \in Nat /\ rId \in Ids
      /\ \A id \in Ids : returned[id] \in Nat
  BY NumberFacts, ConstantFacts DEF SInv, IInv, TypeOK, TypeReader, TypeWriter
<1>4. CASE \E id \in Ids : Lookup(id)
  <2>1. PICK id \in Ids : Lookup(id)
    BY <1>4
  <2>2. /\ rpc' = "flags" /\ rId' = id /\ rSince' = returned[id] /\ rStep' = 0
        /\ rFields' = Fields
    BY <2>1 DEF Lookup
  <2>3. rSince' # 0 => Ahead'
    <3> SUFFICES ASSUME returned[id] # 0 PROVE Ahead'
      BY <2>2
    <3>1. PICK s \in occupied : Owner(s) = id
      BY <1>3 DEF ReturnedOK
    <3>2. PICK k \in Slots : s = SlotAt(id, k) /\ \A j \in 0..(k - 1) : SlotAt(id, j) \in occupied
      BY <3>1 DEF IInv, SlotsDistinct, Chain
    <3>3. k \in Nat
      BY DEF Slots
    <3>4. \A j \in 0..k : SlotAt(id, j) \in occupied
      BY <3>1, <3>2, <3>3
    <3>5. Owner(SlotAt(id, k))' = id
      BY <1>1, <3>1, <3>2 DEF Owner, SlotAt
    <3> QED
      BY <1>1, <2>2, <3>3, <3>4, <3>5 DEF Ahead, SlotAt
  <2>4. SinceOK' /\ SeesReturned'
    BY <1>1, <1>3, <2>2, <2>3 DEF SinceOK, SeesReturned
  <2> QED
    BY <1>2, <2>4 DEF SInv
<1>5. ASSUME rpc \in {"hash", "id"}, ProbeOn, UNCHANGED <<rId, rSince>>,
             hash[rSlot] # HashOf[rId] \/ Owner(rSlot) # rId
      PROVE  SInv'
  <2>1. rSince # 0 => Ahead' /\ rpc' = "flags"
    BY <1>1, <1>3, <1>5, ProbeGoesOn
  <2>2. rpc' \in {"flags", "miss"}
    BY <1>5 DEF ProbeOn
  <2>3. SinceOK' /\ SeesReturned'
    BY <1>1, <1>3, <1>5, <2>1, <2>2 DEF SinceOK, SeesReturned
  <2> QED
    BY <1>2, <2>3 DEF SInv
<1>6. CASE ReadFlags
  <2>1. /\ UNCHANGED <<rId, rStep, rRow, rFields, rGot, rSince>> /\ rpc = "flags"
        /\ rpc' = IF rSlot \in occupied THEN "hash" ELSE "miss"
    BY <1>6 DEF ReadFlags, ReaderSame
  <2>2. Ahead => Ahead' /\ rpc' = "hash"
    <3>1. Ahead => rSlot \in occupied
      BY <1>3 DEF Ahead, rSlot, Slots
    <3>2. Ahead => Ahead'
      BY <1>1, <2>1 DEF Ahead, SlotAt, Owner
    <3> QED
      BY <2>1, <3>1, <3>2
  <2>3. SinceOK' /\ SeesReturned'
    BY <1>1, <1>3, <2>1, <2>2 DEF SinceOK, SeesReturned
  <2> QED
    BY <1>2, <2>3 DEF SInv
<1>7. CASE ReadHash \/ ReadId
  <2>1. UNCHANGED <<rId, rFields, rGot, rSince>> /\ rpc \in {"hash", "id"}
    BY <1>7 DEF ReadHash, ReadId, ReaderSame
  <2>2. CASE rpc' \in {"id", "row"} /\ UNCHANGED rStep
    <3>1. Ahead => Ahead'
      BY <1>1, <2>1, <2>2 DEF Ahead, SlotAt, Owner
    <3>2. SinceOK' /\ SeesReturned'
      BY <1>1, <1>3, <2>1, <2>2, <3>1 DEF SinceOK, SeesReturned
    <3> QED
      BY <1>2, <3>2 DEF SInv
  <2>3. CASE ProbeOn /\ (hash[rSlot] # HashOf[rId] \/ Owner(rSlot) # rId)
    BY <1>5, <2>1, <2>3
  <2> QED
    BY <1>7, <2>2, <2>3 DEF ReadHash, ReadId, Owner
<1>8. CASE ReadRowIndex
  <2>1. UNCHANGED <<rId, rFields, rGot, rSince>> /\ rpc' = "copy" /\ rFields = Fields
    BY <1>3, <1>8 DEF ReadRowIndex, ReaderSame, ReaderOK
  <2>2. SinceOK' /\ SeesReturned'
    BY <1>1, <1>3, <2>1 DEF SinceOK, SeesReturned
  <2> QED
    BY <1>2, <2>2 DEF SInv
<1>9. CASE \E f \in Fields : CopyField(f)
  <2>1. PICK f \in Fields : CopyField(f)
    BY <1>9
  <2>2. /\ UNCHANGED <<rId, rSince>> /\ rpc = "copy"
        /\ rGot' = [rGot EXCEPT ![f] = cells[rRow][f]]
        /\ rFields' = rFields \ {f}
        /\ rpc' = IF rFields' = {} THEN "hit" ELSE "copy"
    BY <2>1 DEF CopyField, ReaderSame
  <2>3. PICK s \in occupied : rowIndex[s] = rRow /\ Owner(s) = rId
    BY <1>3, <2>2 DEF ReaderOK
  <2>4. cells[rRow][f] >= returned[rId] /\ cells[rRow][f] \in Nat
    <3>1. cells[rRow][f] \in 0..Len(log)
      BY <2>3 DEF IInv, TypeOK, TypeSegment
    <3> QED
      BY <1>3, <2>3, <3>1 DEF ReturnedOK
  <2>5. cells[rRow][f] >= rSince
    BY <1>3, <2>4 DEF SinceOK
  <2>6. \A g \in Fields \ rFields' : rGot'[g] >= rSince
    <3>1. rGot \in [Fields -> 0..Len(log)]
      BY DEF IInv, TypeOK, TypeReader
    <3> QED
      BY <1>3, <2>2, <2>5, <3>1 DEF SinceOK
  <2>7. SinceOK'
    BY <1>1, <1>3, <2>2, <2>6 DEF SinceOK
  <2>8. SeesReturned'
    BY <2>2, <2>6 DEF SeesReturned
  <2> QED
    BY <1>2, <2>7, <2>8 DEF SInv
<1> QED
  BY <1>4, <1>6, <1>7, <1>8, <1>9 DEF Reader

\* A lookup that begins after an insert of its entity returned finds the entity and
\* copies no field older than that insert, for every capacity and hash function, however
\* inserts, deaths of the writer and the steps of the lookup interleave.
THEOREM LookupsSeeReturned == BulkSurvives => (Spec => []SeesReturned)
<1> SUFFICES ASSUME BulkSurvives PROVE Spec => []SeesReturned
  OBVIOUS
<1>1. Init => IInv /\ SInv
  <2>1. Init => SInv
    BY DEF Init, SInv, ReturnedOK, SinceOK, SeesReturned
  <2> QED
    BY <2>1, InitIInv
<1>2. IInv /\ SInv /\ [Next]_vars => (IInv /\ SInv)'
  <2> SUFFICES ASSUME IInv, SInv, [Next]_vars PROVE IInv' /\ SInv'
    OBVIOUS
  <2>1. IInv'
    BY StepIInv
  <2>2. CASE Writer
    <3>1. /\ SlotsStay /\ UNCHANGED rVars
          /\ ReturnedOK' /\ \A id \in Ids : returned'[id] >= returned[id]
      BY <2>2, WriterKeepsSlots, ReturnedStep DEF SInv
    <3>2. \A id \in Ids : returned'[id] \in Nat
      <4>1. returned' \in [Ids -> 0..Len(log')]
        BY <2>1 DEF IInv, TypeOK, TypeWriter
      <4> QED
        BY <4>1
    <3> QED
      BY <2>1, <3>1, <3>2, SinceUnderWriter DEF SInv
  <2>3. CASE Reader
    BY <2>1, <2>3, SinceUnderReader
  <2>4. CASE UNCHANGED vars
    <3>1. UNCHANGED <<occupied, idOffset, rowIndex, pool, cells, wpc, wRow, wFields, log,
                      returned, rpc, rId, rStep, rFields, rGot, rSince>>
      BY <2>4 DEF vars, slotVars, heapVars, wVars, rVars
    <3>2. ReturnedOK' /\ SeesReturned'
      BY <3>1 DEF SInv, ReturnedOK, SeesReturned, Owner
    <3>3. SinceOK'
      BY <3>1 DEF SInv, SinceOK, Ahead, SlotAt, Owner
    <3> QED
      BY <2>1, <3>2, <3>3 DEF SInv
  <2> QED
    BY <2>1, <2>2, <2>3, <2>4 DEF Next
<1>3. IInv /\ SInv => SeesReturned
  BY DEF SInv
<1> QED
  BY <1>1, <1>2, <1>3, PTL DEF Spec

================================================================================
