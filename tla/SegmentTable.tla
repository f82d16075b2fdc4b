------------------------------ MODULE SegmentTable ------------------------------
(*****************************************************************************)
(* The entity table of one segment: insert and insert_many by its single     *)
(* writer, lookup and the copy of the row by a reader in another process, and *)
(* the copy that a schema upgrade takes of it.                               *)
(*                                                                           *)
(* Memory is shared and written without a lock, so a step is one store or    *)
(* load that the other side can tell apart; the three slot fields stored     *)
(* before the flags are one step, nobody reads them while the slot is EMPTY. *)
(* The n-th insert call writes the value n into every field of a row: log[n] *)
(* is the entity it was for.  The string pool is counted in entries: it has  *)
(* room for Capacity ids of the greatest length, longer ids are refused.     *)
(* Readers do not write, so one of them stands for all.                      *)
(*****************************************************************************)
EXTENDS Integers, Sequences, FiniteSets

CONSTANTS
    Ids,            \* entity ids
    NoId,           \* what a pool entry holds before it is written
    HashOf,         \* hash_entity_id
    Capacity,       \* layout.capacity: rows
    SlotCapacity,   \* layout.slot_capacity
    Fields,         \* the parts of a row that are stored one after the other
    MaxCalls,       \* bound: insert calls and rows of insert_many
    MaxLookups,     \* bound: lookups
    Budget          \* bound: how often the writer dies in insert, in insert_many

Slots == 0..(SlotCapacity - 1)
Rows  == 0..(Capacity - 1)
Faults == {"insert", "bulk"}

ASSUME TableAssumption ==
    /\ IsFiniteSet(Ids) /\ NoId \notin Ids
    /\ HashOf \in [Ids -> Nat]
    /\ Capacity \in Nat \ {0}
    /\ SlotCapacity \in Nat /\ SlotCapacity >= 2 * Capacity
    /\ MaxCalls \in Nat /\ MaxLookups \in Nat
    /\ Budget \in [Faults -> Nat]

VARIABLES
    (* The segment *)
    occupied,     \* slots whose flags are OCCUPIED
    hash,         \* name_hash of each slot
    idOffset,     \* id_offset of each slot
    rowIndex,     \* feature_row_index of each slot
    nextRow,      \* next_free_row_index
    poolCursor,   \* string_pool_cursor
    pool,         \* string pool entries
    cells,        \* feature rows; 0: zero-initialised
    (* The writer *)
    wpc,          \* where it is
    wId, wSlot, wOffset, wRow,
    wFields,      \* fields of the row it has still to store
    bulk,         \* ids insert_many has still to insert
    bulkRows,     \* rows it has inserted
    bulking,      \* is it in insert_many?
    log,          \* entity of every call
    returned,     \* newest call of each entity that returned
    (* The reader *)
    rpc, rId,
    rStep,        \* slots probed so far
    rRow,
    rFields,      \* fields of the row it has still to copy
    rGot,         \* what it has copied of the others
    rSince,       \* returned[rId] when the lookup began
    lookups,
    (* Bound *)
    budget

slotVars == <<hash, idOffset, rowIndex>>
heapVars == <<nextRow, poolCursor, pool, cells>>
wVars    == <<wId, wSlot, wOffset, wRow, wFields>>
bulkVars == <<bulk, bulkRows, bulking>>
rVars    == <<rpc, rId, rStep, rRow, rFields, rGot, rSince, lookups>>

vars == <<occupied, slotVars, heapVars, wpc, wVars, bulkVars, log, returned, rVars,
          budget>>

--------------------------------------------------------------------------------
(* Probing *)

\* The slot that is k probes away from the home of id.
SlotAt(id, k) == (HashOf[id] + k) % SlotCapacity

\* Mutant: equal hashes are taken for equal ids.
HoldsByHash(s, id) ==
    /\ s \in occupied
    /\ hash[s] = HashOf[id]

\* The slot belongs to id: OCCUPIED, the same hash, the same bytes in the pool.
Holds(s, id) ==
    /\ s \in occupied
    /\ hash[s] = HashOf[id]
    /\ pool[idOffset[s]] = id

\* insert's probe of id ends at slot s.
ProbeStops(id, s) ==
    \E k \in Slots :
        /\ s = SlotAt(id, k)
        /\ s \notin occupied \/ Holds(s, id)
        /\ \A j \in 0..(k - 1) :
              SlotAt(id, j) \in occupied /\ ~Holds(SlotAt(id, j), id)

\* The kernel's probe: the first EMPTY slot, ids are not compared.
FirstEmpty(id, s) ==
    \E k \in Slots :
        /\ s = SlotAt(id, k) /\ s \notin occupied
        /\ \A j \in 0..(k - 1) : SlotAt(id, j) \in occupied

--------------------------------------------------------------------------------
(* insert *)

Call(id) ==
    /\ Len(log) < MaxCalls
    /\ log' = Append(log, id)
    /\ wId' = id

\* The entity has a row: it is overwritten in place.
InsertUpdates(id, s) ==
    /\ wpc = "idle"
    /\ ProbeStops(id, s) /\ s \in occupied
    /\ Call(id)
    /\ wRow' = rowIndex[s]
    /\ wFields' = Fields
    /\ wpc' = "update"
    /\ UNCHANGED <<occupied, slotVars, heapVars, wSlot, wOffset, bulkVars, returned,
                   rVars, budget>>

\* Mutant: one row too many is handed out.
InsertClaimsBeyond(id, s) ==
    /\ wpc = "idle"
    /\ ProbeStops(id, s) /\ s \notin occupied
    /\ nextRow <= Capacity
    /\ Call(id)
    /\ wSlot' = s
    /\ wOffset' = poolCursor
    /\ wRow' = nextRow
    /\ wFields' = Fields
    /\ wpc' = "cursors"
    /\ UNCHANGED <<occupied, slotVars, heapVars, bulkVars, returned, rVars, budget>>

\* _insert_into_empty_slot: a row is left.  The cursors are read.
InsertClaims(id, s) ==
    /\ wpc = "idle"
    /\ ProbeStops(id, s) /\ s \notin occupied
    /\ nextRow < Capacity
    /\ Call(id)
    /\ wSlot' = s
    /\ wOffset' = poolCursor
    /\ wRow' = nextRow
    /\ wFields' = Fields
    /\ wpc' = "cursors"
    /\ UNCHANGED <<occupied, slotVars, heapVars, bulkVars, returned, rVars, budget>>

\* Mutant: the row cursor does not advance.
WriteMetadataPoolOnly ==
    /\ wpc = "cursors"
    /\ nextRow' = nextRow
    /\ poolCursor' = wOffset + 1
    /\ wpc' = "pool"
    /\ UNCHANGED <<occupied, slotVars, pool, cells, wVars, bulkVars, log, returned,
                   rVars, budget>>

\* Step 1: the cursors advance.
WriteMetadata ==
    /\ wpc = "cursors"
    /\ nextRow' = wRow + 1
    /\ poolCursor' = wOffset + 1
    /\ wpc' = "pool"
    /\ UNCHANGED <<occupied, slotVars, pool, cells, wVars, bulkVars, log, returned,
                   rVars, budget>>

\* Mutant: the slot is published before the row is written.
WritePoolPublishes ==
    /\ wpc = "pool"
    /\ pool' = [pool EXCEPT ![wOffset] = wId]
    /\ hash' = [hash EXCEPT ![wSlot] = HashOf[wId]]
    /\ idOffset' = [idOffset EXCEPT ![wSlot] = wOffset]
    /\ rowIndex' = [rowIndex EXCEPT ![wSlot] = wRow]
    /\ occupied' = occupied \cup {wSlot}
    /\ wpc' = "cells"
    /\ UNCHANGED <<nextRow, poolCursor, cells, wVars, bulkVars, log, returned, rVars,
                   budget>>

\* Step 2: the string pool entry.
WritePool ==
    /\ wpc = "pool"
    /\ pool' = [pool EXCEPT ![wOffset] = wId]
    /\ wpc' = "cells"
    /\ UNCHANGED <<occupied, slotVars, nextRow, poolCursor, cells, wVars, bulkVars,
                   log, returned, rVars, budget>>

\* Step 3, and the update in place: the row, one field after the other.
WriteField(f) ==
    /\ wpc \in {"cells", "update"} /\ f \in wFields
    /\ cells' = [cells EXCEPT ![wRow][f] = Len(log)]
    /\ wFields' = wFields \ {f}
    /\ UNCHANGED <<occupied, slotVars, nextRow, poolCursor, pool, wpc, wId, wSlot,
                   wOffset, wRow, bulkVars, log, returned, rVars, budget>>

\* Step 4: hash, id offset and row index of the slot.
WriteSlot ==
    /\ wpc = "cells" /\ wFields = {}
    /\ hash' = [hash EXCEPT ![wSlot] = HashOf[wId]]
    /\ idOffset' = [idOffset EXCEPT ![wSlot] = wOffset]
    /\ rowIndex' = [rowIndex EXCEPT ![wSlot] = wRow]
    /\ wpc' = "flags"
    /\ UNCHANGED <<occupied, heapVars, wVars, bulkVars, log, returned, rVars, budget>>

\* The call returns; insert_many goes on with its next row.
Return ==
    /\ wpc' = IF bulking THEN "bulk" ELSE "idle"
    /\ returned' = [returned EXCEPT ![wId] = Len(log)]

\* Step 4, last: the flags make the slot visible.
Publish ==
    /\ wpc = "flags"
    /\ occupied' = occupied \cup {wSlot}
    /\ Return
    /\ UNCHANGED <<slotVars, heapVars, wVars, bulkVars, log, rVars, budget>>

UpdateEnds ==
    /\ wpc = "update" /\ wFields = {}
    /\ Return
    /\ UNCHANGED <<occupied, slotVars, heapVars, wVars, bulkVars, log, rVars, budget>>

--------------------------------------------------------------------------------
(* insert_many, called once by hydrate or upgrade on the segment they created.   *)
(* Its ids are distinct: the point-in-time join and the old table see to that.   *)

BulkStart ==
    /\ wpc = "idle" /\ log = <<>>
    /\ nextRow = 0 /\ poolCursor = 0
    /\ \E S \in SUBSET Ids :
          /\ S # {} /\ Cardinality(S) <= Capacity
          /\ bulk' = S
    /\ bulkRows' = 0
    /\ bulking' = TRUE
    /\ wpc' = "bulk"
    /\ UNCHANGED <<occupied, slotVars, heapVars, wVars, log, returned, rVars, budget>>

\* _insert_many_core: row bulkRows, with a pool cursor of the kernel's own.
BulkRow(id, s) ==
    /\ wpc = "bulk" /\ id \in bulk
    /\ FirstEmpty(id, s)
    /\ Call(id)
    /\ bulk' = bulk \ {id}
    /\ bulkRows' = bulkRows + 1
    /\ wSlot' = s
    /\ wOffset' = bulkRows
    /\ wRow' = bulkRows
    /\ wFields' = Fields
    /\ wpc' = "pool"
    /\ UNCHANGED <<occupied, slotVars, heapVars, bulking, returned, rVars, budget>>

\* The cursors are written back when all rows are in.
BulkEnds ==
    /\ wpc = "bulk" /\ bulk = {}
    /\ nextRow' = bulkRows
    /\ poolCursor' = bulkRows
    /\ bulking' = FALSE
    /\ wpc' = "idle"
    /\ UNCHANGED <<occupied, slotVars, pool, cells, wVars, bulk, bulkRows, log,
                   returned, rVars, budget>>

\* The writing process dies; another one opens the segment and goes on.
WriterDies ==
    /\ wpc # "idle"
    /\ LET f == IF bulking THEN "bulk" ELSE "insert"
       IN  budget[f] > 0 /\ budget' = [budget EXCEPT ![f] = @ - 1]
    /\ wpc' = "idle"
    /\ bulking' = FALSE
    /\ bulk' = {}
    /\ UNCHANGED <<occupied, slotVars, heapVars, wVars, bulkRows, log, returned, rVars>>

--------------------------------------------------------------------------------
(* lookup, then the copy of the row *)

Lookup(id) ==
    /\ rpc \in {"idle", "hit", "miss"} /\ lookups < MaxLookups
    /\ lookups' = lookups + 1
    /\ rId' = id
    /\ rSince' = returned[id]
    /\ rStep' = 0
    /\ rFields' = Fields
    /\ rGot' = [f \in Fields |-> 0]
    /\ rpc' = "flags"
    /\ UNCHANGED <<occupied, slotVars, heapVars, wpc, wVars, bulkVars, log, returned,
                   rRow, budget>>

ReaderSame ==
    UNCHANGED <<occupied, slotVars, heapVars, wpc, wVars, bulkVars, log, returned,
                rId, rSince, lookups, budget>>

rSlot == SlotAt(rId, rStep)

\* The probe goes on with the next slot, or has been through the table.
ProbeOn ==
    /\ rStep' = rStep + 1
    /\ rpc' = IF rStep + 1 < SlotCapacity THEN "flags" ELSE "miss"

ReadFlags ==
    /\ rpc = "flags"
    /\ rpc' = IF rSlot \in occupied THEN "hash" ELSE "miss"
    /\ UNCHANGED <<rStep, rRow, rFields, rGot>>
    /\ ReaderSame

ReadHash ==
    /\ rpc = "hash"
    /\ \/ hash[rSlot] = HashOf[rId] /\ rpc' = "id" /\ UNCHANGED rStep
       \/ hash[rSlot] # HashOf[rId] /\ ProbeOn
    /\ UNCHANGED <<rRow, rFields, rGot>>
    /\ ReaderSame

\* The bytes of the id are compared.
ReadId ==
    /\ rpc = "id"
    /\ \/ pool[idOffset[rSlot]] = rId /\ rpc' = "row" /\ UNCHANGED rStep
       \/ pool[idOffset[rSlot]] # rId /\ ProbeOn
    /\ UNCHANGED <<rRow, rFields, rGot>>
    /\ ReaderSame

ReadRowIndex ==
    /\ rpc = "row"
    /\ rRow' = rowIndex[rSlot]
    /\ rpc' = "copy"
    /\ UNCHANGED <<rStep, rFields, rGot>>
    /\ ReaderSame

\* assembly copies the row, unaware of an update in place.
CopyField(f) ==
    /\ rpc = "copy" /\ f \in rFields
    /\ rGot' = [rGot EXCEPT ![f] = cells[rRow][f]]
    /\ rFields' = rFields \ {f}
    /\ rpc' = IF rFields' = {} THEN "hit" ELSE "copy"
    /\ UNCHANGED <<rStep, rRow>>
    /\ ReaderSame

--------------------------------------------------------------------------------
(* The copy a schema upgrade takes, from a table whose writer was stopped *)

\* Mutant: rows without a slot are overlooked.
UpgradeRefusesSurplus == nextRow > 0 /\ Cardinality(occupied) > nextRow

\* _build_translation_table: every row below next_free_row_index must have a slot.
UpgradeRefuses == nextRow > 0 /\ Cardinality(occupied) # nextRow

\* The entity that row i is copied for: the ids are ordered by row index.
TranslatedId(i) ==
    LET s == CHOOSE s \in occupied :
                Cardinality({t \in occupied : rowIndex[t] < rowIndex[s]}) = i
    IN  pool[idOffset[s]]

--------------------------------------------------------------------------------
Init ==
    /\ occupied = {}
    /\ hash = [s \in Slots |-> 0]
    /\ idOffset = [s \in Slots |-> 0]
    /\ rowIndex = [s \in Slots |-> 0]
    /\ nextRow = 0 /\ poolCursor = 0
    /\ pool = [r \in Rows |-> NoId]
    /\ cells = [r \in Rows |-> [f \in Fields |-> 0]]
    /\ wpc = "idle" /\ wId \in Ids
    /\ wSlot = 0 /\ wOffset = 0 /\ wRow = 0 /\ wFields = {}
    /\ bulk = {} /\ bulkRows = 0 /\ bulking = FALSE
    /\ log = <<>>
    /\ returned = [id \in Ids |-> 0]
    /\ rpc = "idle" /\ rId \in Ids
    /\ rStep = 0 /\ rRow = 0 /\ rSince = 0 /\ lookups = 0
    /\ rFields = {} /\ rGot = [f \in Fields |-> 0]
    /\ budget = Budget

Writer ==
    \/ \E id \in Ids, s \in Slots :
          InsertUpdates(id, s) \/ InsertClaims(id, s) \/ BulkRow(id, s)
    \/ WriteMetadata \/ WritePool \/ WriteSlot \/ Publish \/ UpdateEnds
    \/ \E f \in Fields : WriteField(f)
    \/ BulkStart \/ BulkEnds
    \/ WriterDies

Reader ==
    \/ \E id \in Ids : Lookup(id)
    \/ ReadFlags \/ ReadHash \/ ReadId \/ ReadRowIndex
    \/ \E f \in Fields : CopyField(f)

Next == Writer \/ Reader

Spec == Init /\ [][Next]_vars

--------------------------------------------------------------------------------
(* Properties *)

TypeSegment ==
    /\ occupied \subseteq Slots
    /\ hash \in [Slots -> Nat]
    /\ idOffset \in [Slots -> Rows]
    /\ rowIndex \in [Slots -> Rows]
    /\ nextRow \in 0..Capacity /\ poolCursor \in 0..Capacity
    /\ pool \in [Rows -> Ids \cup {NoId}]
    /\ cells \in [Rows -> [Fields -> 0..Len(log)]]

TypeWriter ==
    /\ wpc \in {"idle", "cursors", "pool", "cells", "flags", "update", "bulk"}
    /\ wId \in Ids /\ wSlot \in Slots
    /\ wOffset \in Rows /\ wRow \in Rows
    /\ wFields \subseteq Fields
    /\ bulk \subseteq Ids /\ bulkRows \in 0..Capacity /\ bulking \in BOOLEAN
    /\ log \in Seq(Ids)
    /\ returned \in [Ids -> 0..Len(log)]

TypeReader ==
    /\ rpc \in {"idle", "flags", "hash", "id", "row", "copy", "hit", "miss"}
    /\ rId \in Ids /\ rStep \in 0..SlotCapacity
    /\ rRow \in Rows
    /\ rFields \subseteq Fields
    /\ rGot \in [Fields -> 0..Len(log)]
    /\ rSince \in 0..Len(log)
    /\ lookups \in Nat

\* Every variable keeps its type: offsets and row indices stay inside the
\* regions that layout.py allots them.
TypeOK ==
    /\ TypeSegment
    /\ TypeWriter
    /\ TypeReader
    /\ budget \in [Faults -> Nat]

\* A reader that found its entity copies only values written for that entity,
\* never a foreign row and never memory that was not written yet, whatever the
\* writer does in the meantime and wherever it died before.
ReadsOwnRow ==
    rpc \in {"copy", "hit"} =>
        \A f \in Fields \ rFields : rGot[f] # 0 /\ log[rGot[f]] = rId

\* A lookup that begins after an insert returned finds the entity, and copies no
\* field older than that insert: published slots are never lost behind an EMPTY
\* one, and a replayed insert does not hide a row.
SeesReturned ==
    /\ rpc = "miss" => rSince = 0
    /\ rpc = "hit" => \A f \in Fields : rGot[f] >= rSince

\* An entity has at most one slot and a row has at most one entity, although an
\* insert that died half way is replayed.
OneSlotPerEntity ==
    \A s, t \in occupied :
        s # t => pool[idOffset[s]] # pool[idOffset[t]] /\ rowIndex[s] # rowIndex[t]

\* When an upgrade accepts the table, the row it copies for an entity is that
\* entity's row, although a writer's death may have left rows without a slot.
CopyIsAligned ==
    wpc = "idle" /\ nextRow > 0 /\ ~UpgradeRefuses =>
        \A i \in 0..(nextRow - 1), f \in Fields :
            cells[i][f] # 0 /\ log[cells[i][f]] = TranslatedId(i)

\* "readers never see a partial write" (docs/ARCHITECTURE.md, 5.1): a lookup that hits
\* has all its fields of one insert.  The code does not keep this for an update, which
\* overwrites the row in place.
ReadsAreWhole == rpc = "hit" => \E n \in DOMAIN log : \A f \in Fields : rGot[f] = n

\* The check in _build_translation_table never fails: once the writer is idle
\* the occupied slots are as many as next_free_row_index.  The code does not keep
\* this once a writer has died inside insert: see the README.
UpgradeAccepts == wpc = "idle" => ~UpgradeRefuses
================================================================================
