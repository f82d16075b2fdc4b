------------------------------- MODULE RowFormat --------------------------------
(*****************************************************************************)
(* The bytes of a feature row.  Five parts of the program derive them from a *)
(* schema, each in its own way, and have to agree: the producer lists the    *)
(* values in the order of the name hashes, the consumer's pack plan puts     *)
(* that list into a row, insert_many scatters columns by the declaration     *)
(* order, assemble reads by the declaration order, and the upgrade finds a   *)
(* field of the old row by its name's hash and casts it into the new one.    *)
(*                                                                           *)
(* One row of one entity, through writes and an upgrade from the schema      *)
(* versions[1] to versions[2].  Messages carry no version: producers of both *)
(* may be running.  A byte remembers the value it is part of, so that a      *)
(* misplaced, torn or reinterpreted field reads as garbage.                  *)
(*****************************************************************************)
EXTENDS Integers, Sequences, FiniteSets, SequencesExt

CONSTANTS
    Names,          \* field names
    NameHash,       \* _hash_name
    FieldsOf,       \* for each name, the dtype and shape it may have in a schema
    Sample,         \* for each dtype, the hard value of the k-th payload
    MaxWrites,      \* bound: rows written
    Capacities,     \* capacities a segment is laid out for
    MaxIdBytes      \* max_id_bytes

HEADER_SIZE        == 16
CACHE_LINE_SIZE    == 64
PAGE_SIZE          == 4096
SLOT_BYTES         == 24
DATA_REGION_OFFSET == 64
STRING_POOL_HEADER_BYTES == 8
LEN_PREFIX_BYTES   == 4

DType == {"float32", "float64", "int32", "int64", "uint8"}
ByteSize == [float32 |-> 4, float64 |-> 8, int32 |-> 4, int64 |-> 8, uint8 |-> 1]

ASSUME FormatAssumption ==
    /\ NameHash \in [Names -> Nat]
    /\ \A n, o \in Names : NameHash[n] = NameHash[o] => n = o
    /\ \A n \in Names :
          FieldsOf[n] \subseteq [name : {n}, dtype : DType, shape : Seq(Nat \ {0})]
    /\ Capacities \subseteq Nat \ {0} /\ MaxIdBytes \in Nat \ {0}
    /\ MaxWrites \in Nat

VARIABLES
    versions,     \* the old and the new schema: each a sequence of fields
    tables,       \* what is derived from each of them, once: the caches of tables and plans
    at,           \* the version of the current segment
    present,      \* has the entity a row?
    row,          \* the bytes of the row that are not zero-initialised
    buffer,       \* _row_buffers: the consumer's, used again and again
    message,      \* the WAL message in flight, <<>> if there is none
    truth,        \* for each field name, what was last written under it
    wrapped,      \* history: the names whose value the packer has wrapped
    writes

vars == <<versions, tables, at, present, row, buffer, message, truth, wrapped, writes>>

--------------------------------------------------------------------------------
(* Values.  What an upgrade's cast, a pack and the float32 output can lose:       *)
(* exact values, the float nearest to the ones that have none, and the low bytes  *)
(* of the integers that a narrower dtype does not hold.                           *)

Zero == "0"
Nearest == [tenth |-> "0.1f", big31 |-> "2^31f", big63 |-> "2^63f"]
FloatTypes == {"float32", "float64"}
Floats == {Zero, "1", "-1", "255", "0.5", "0.1f", "2^31f", "2^63f"}

\* big31 is 2^31 - 1, big63 is 2^63 - 1.
Representable ==
    [float32 |-> Floats,
     float64 |-> Floats \cup {"tenth", "big31"},
     int32   |-> {Zero, "1", "-1", "255", "big31"},
     int64   |-> {Zero, "1", "-1", "255", "big31", "big63"},
     uint8   |-> {Zero, "1", "255"}]

\* A dtype holds a value, a float after rounding it.
Fits(v, d) == v \in Representable[d] \/ (d \in FloatTypes /\ v \in DOMAIN Nearest)
FitsAll(vec, d) == \A e \in DOMAIN vec : Fits(vec[e], d)

\* The low bytes of an integer that does not fit: all ones, for -1, big31 and big63.
LowBytes == [uint8 |-> "255", int32 |-> "-1", int64 |-> "-1"]

\* numpy's astype, asarray and slice assignment, struct's f code.
Cast(v, d) ==
    CASE v \in Representable[d] -> v
      [] v \notin Representable[d] /\ Fits(v, d) -> Nearest[v]
      [] OTHER -> LowBytes[d]

CastAll(vec, d) == [e \in DOMAIN vec |-> Cast(vec[e], d)]

\* A vector with the rounding of the dtype, but no integer wrapped.
Rounded(vec, d) ==
    [e \in DOMAIN vec |-> IF Fits(vec[e], d) THEN Cast(vec[e], d) ELSE vec[e]]

\* A payload's integers are in the range of their dtype; its floats may need rounding.
ASSUME SampleAssumption ==
    \A d \in DType : \A k \in 1..MaxWrites : Fits(Sample[d][k], d)

--------------------------------------------------------------------------------
(* schema.py *)

\* FeatureSchema.__init_subclass__: at least one field, distinct names.
IsSchema(fields) ==
    /\ Len(fields) > 0
    /\ \A i, j \in DOMAIN fields : fields[i].name = fields[j].name => i = j

Schemas ==
    UNION {{s \in [1..k -> UNION {FieldsOf[n] : n \in Names}] : IsSchema(s)} :
              k \in 1..Cardinality(Names)}

\* FeatureField.element_count
ElementCount(f) ==
    LET count[i \in 0..Len(f.shape)] == IF i = 0 THEN 1 ELSE count[i - 1] * f.shape[i]
    IN  count[Len(f.shape)]

ByteCount(f) == ElementCount(f) * ByteSize[f.dtype]

AlignUp(value, alignment) == ((value + alignment - 1) \div alignment) * alignment

\* Where _field_byte_offsets has come to behind each field, and its offsets: declaration
\* order, every field on a cache line of its own.
FieldCursors(fields, base) ==
    LET cursor[i \in 0..Len(fields)] ==
            IF i = 0 THEN base
            ELSE AlignUp(cursor[i - 1], CACHE_LINE_SIZE) + ByteCount(fields[i])
    IN  cursor

FieldByteOffsets(fields, base) ==
    LET cursor == FieldCursors(fields, base)
    IN  [i \in 1..Len(fields) |-> AlignUp(cursor[i - 1], CACHE_LINE_SIZE)]

OffsetTable(fields, base) ==
    LET offsets == FieldByteOffsets(fields, base)
    IN  [i \in 1..Len(fields) |->
            [name_hash |-> NameHash[fields[i].name], byte_offset |-> offsets[i],
             dtype |-> fields[i].dtype, element_count |-> ElementCount(fields[i]),
             byte_count |-> ByteCount(fields[i])]]

\* table.sort(order=key), sorted(rows, key=key): no two entries of a table have the same
\* hash or the same offset.
SortBy(table, key) ==
    LET keys    == {e[key] : e \in Range(table)}
        Rank(e) == Cardinality({k \in keys : k < e[key]})
    IN  [i \in DOMAIN table |-> CHOOSE e \in Range(table) : Rank(e) = i - 1]

\* Sorted by name_hash.
CompileSchema(fields) == SortBy(OffsetTable(fields, HEADER_SIZE), "name_hash")

FirstOffset(table) == Min({e.byte_offset : e \in Range(table)})
LastByte(table) == Max({e.byte_offset + e.byte_count : e \in Range(table)})

\* The same, row-relative.
RowRelative(table) ==
    [i \in DOMAIN table |-> [table[i] EXCEPT !.byte_offset = @ - FirstOffset(table)]]

RowOffsetTable(fields) == RowRelative(CompileSchema(fields))

\* Declaration order, row-relative.
AssemblyTable(fields) == OffsetTable(fields, 0)

\* Mutant: the end of the last field is not rounded up.
RowSizeUnpadded(table) == LastByte(table)

\* Mutant: the last entry of the table is taken for the last field of the row.
RowSizeOfLast(table) ==
    AlignUp(table[Len(table)].byte_offset + table[Len(table)].byte_count, CACHE_LINE_SIZE)

\* row_size, of the row-relative table.
RowSize(table) == AlignUp(LastByte(table), CACHE_LINE_SIZE)

--------------------------------------------------------------------------------
(* layout.py *)

\* 1 << k, for k up to n.
Powers(n) ==
    LET power[k \in 0..n] == IF k = 0 THEN 1 ELSE 2 * power[k - 1]
    IN  power

NextPow2(n) ==
    LET power == Powers(n)
    IN  power[CHOOSE k \in 0..n : power[k] >= n /\ \A j \in 0..(k - 1) : power[j] < n]

ComputeLayout(rowSize, capacity, idBytes) ==
    LET slots     == NextPow2(2 * capacity)
        pool      == AlignUp(DATA_REGION_OFFSET + slots * SLOT_BYTES, CACHE_LINE_SIZE)
        poolData  == pool + STRING_POOL_HEADER_BYTES
        poolBytes == capacity * (LEN_PREFIX_BYTES + idBytes)
        rows      == AlignUp(poolData + poolBytes, CACHE_LINE_SIZE)
    IN  [slot_capacity |-> slots, string_pool_offset |-> pool,
         string_pool_data_offset |-> poolData, string_pool_data_bytes |-> poolBytes,
         feature_rows_offset |-> rows, row_size |-> rowSize,
         total_size |-> AlignUp(rows + capacity * rowSize, PAGE_SIZE)]

--------------------------------------------------------------------------------
(* Bytes *)

ZeroByte == <<>>

\* The bytes of a vector of values of dtype d, stored at an offset.
Put(offset, d, vec) ==
    [a \in offset..(offset + Len(vec) * ByteSize[d] - 1) |->
        LET e == (a - offset) \div ByteSize[d] + 1
        IN  IF vec[e] = Zero THEN ZeroByte
            ELSE <<d, vec[e], (a - offset) % ByteSize[d]>>]

\* Stores over what is there, and a sequence of stores.
Over(new, old) ==
    [a \in DOMAIN new \cup DOMAIN old |-> IF a \in DOMAIN new THEN new[a] ELSE old[a]]

OverAll(stores) ==
    [a \in UNION {DOMAIN stores[k] : k \in DOMAIN stores} |->
        stores[Max({k \in DOMAIN stores : a \in DOMAIN stores[k]})][a]]

\* What count values of dtype d read at an offset.
Get(bytes, offset, d, count) ==
    LET Byte(a) == IF a \in DOMAIN bytes THEN bytes[a] ELSE ZeroByte
        Element(e) ==
            LET from == offset + (e - 1) * ByteSize[d]
                all  == [j \in 0..(ByteSize[d] - 1) |-> Byte(from + j)]
            IN  IF \A j \in DOMAIN all : all[j] = ZeroByte THEN Zero
                ELSE IF all[0] # ZeroByte
                        /\ \A j \in DOMAIN all : all[j] = <<d, all[0][2], j>>
                     THEN all[0][2] ELSE "garbage"
    IN  [e \in 1..count |-> Element(e)]

--------------------------------------------------------------------------------
(* The producer, the consumer's row packer, insert_many and assemble *)

FieldNamed(fields, n) == CHOOSE f \in Range(fields) : f.name = n
NamesOf(fields) == {f.name : f \in Range(fields)}

\* field_order_for: the names by their hash.
FieldOrder(fields, table) ==
    [i \in DOMAIN table |->
        CHOOSE n \in NamesOf(fields) : NameHash[n] = table[i].name_hash]

\* _do_write: values is keyed by name, the message is a list.
Encode(order, values) == [i \in DOMAIN order |-> values[order[i]]]

\* _build_plan's format string: where the pads and codes before a slot bring it to.
Cursors(slots) ==
    LET cursor[k \in DOMAIN slots] ==
            Max({slots[k].byte_offset,
                 IF k = 1 THEN 0 ELSE cursor[k - 1] + slots[k - 1].byte_count})
    IN  cursor

\* The entries of the table with their places in the list, by their offsets.
Tagged(fields, table) ==
    [i \in DOMAIN table |->
        [index |-> i, byte_offset |-> table[i].byte_offset,
         byte_count |-> table[i].byte_count, dtype |-> table[i].dtype,
         count |-> table[i].element_count,
         scalar |-> \E f \in Range(fields) :
                       NameHash[f.name] = table[i].name_hash /\ f.shape = <<>>]]

Slots(fields, table) == SortBy(Tagged(fields, table), "byte_offset")

\* Scalars go where the struct has come to, shaped fields to the offset of the table.
PlanOfSlots(slots, cursor) ==
    [k \in DOMAIN slots |->
        IF slots[k].scalar THEN [slots[k] EXCEPT !.byte_offset = cursor[k]] ELSE slots[k]]

\* _build_plan
PackPlan(slots) == PlanOfSlots(slots, Cursors(slots))

\* struct refuses an integer out of its code's range.  numpy refuses a list of another
\* length only: np.asarray of an out-of-range integer wraps it (numpy < 2, as pinned).
Packs(slot, list) ==
    /\ Len(list[slot.index]) = slot.count
    /\ slot.scalar => FitsAll(list[slot.index], slot.dtype)

\* The stores of some slots, up to the first value that is refused.
PackSlots(plan, which, list) ==
    OverAll([k \in DOMAIN plan |->
        IF k \in which /\ \A j \in which : j <= k => Packs(plan[j], list)
        THEN Put(plan[k].byte_offset, plan[k].dtype,
                 CastAll(list[plan[k].index], plan[k].dtype))
        ELSE <<>>])

\* pack_row_from_list: one struct for all the scalars, which clears the whole row (the
\* shaped fields are pads of its format), then the shaped fields, if it takes all scalars.
PackInto(plan, list, bytes) ==
    LET scalars == {k \in DOMAIN plan : plan[k].scalar}
        packed  == Over(PackSlots(plan, scalars, list),
                        IF scalars = {} THEN bytes ELSE <<>>)
    IN  IF \A k \in scalars : Packs(plan[k], list)
        THEN Over(PackSlots(plan, DOMAIN plan \ scalars, list), packed)
        ELSE packed

\* _prepare_insert_columns and the kernel: each column to its declared field.
InsertMany(fields, table, values) ==
    OverAll([i \in DOMAIN fields |->
        Put(table[i].byte_offset, table[i].dtype,
            CastAll(values[fields[i].name], table[i].dtype))])

\* What assemble and the upgrade read in the field of a table's entry.
ReadField(entry, bytes) == Get(bytes, entry.byte_offset, entry.dtype, entry.element_count)

--------------------------------------------------------------------------------
(* evolution.py *)

Widening ==
    {<<d, d>> : d \in DType} \cup
    {<<"float32", "float64">>, <<"int32", "int64">>, <<"uint8", "int32">>,
     <<"uint8", "int64">>}

\* Mutant: int64 may become int32.
CanUpgradeLossy(old, new) ==
    /\ NamesOf(old) \subseteq NamesOf(new)
    /\ \A n \in NamesOf(old) :
          LET o == FieldNamed(old, n)
              w == FieldNamed(new, n)
          IN  /\ o.shape = w.shape
              /\ <<o.dtype, w.dtype>> \in Widening \cup {<<"int64", "int32">>}
    /\ \A f \in Range(new) : Len(f.shape) < 2

\* can_upgrade; that the version number grows is the order of versions.
CanUpgrade(old, new) ==
    /\ NamesOf(old) \subseteq NamesOf(new)
    /\ \A n \in NamesOf(old) :
          LET o == FieldNamed(old, n)
              w == FieldNamed(new, n)
          IN  /\ o.shape = w.shape
              /\ <<o.dtype, w.dtype>> \in Widening
    /\ \A f \in Range(new) : Len(f.shape) < 2

\* _build_translation_table: the columns of the new schema from a row of the old one.
Translate(oldTable, new, bytes) ==
    [n \in NamesOf(new) |->
        LET w == FieldNamed(new, n)
            from == {e \in Range(oldTable) : e.name_hash = NameHash[n]}
        IN  IF from = {} THEN [e \in 1..ElementCount(w) |-> Zero]
            ELSE CastAll(ReadField(CHOOSE e \in from : TRUE, bytes), w.dtype)]

\* _dry_run_result
DryRunRowSize(fields) == FoldLeft(LAMBDA sum, f : sum + ByteCount(f), 0, fields)

--------------------------------------------------------------------------------
(* Steps *)

CompileFrom(fields, table, slots) ==
    [rows |-> table, rowSize |-> RowSize(table), order |-> FieldOrder(fields, table),
     plan |-> PackPlan(slots), assembly |-> AssemblyTable(fields)]

Compile(fields) ==
    CompileFrom(fields, RowOffsetTable(fields), Slots(fields, RowOffsetTable(fields)))

schema == versions[at]

\* The k-th payload: the first element of a field is the one that is hard to keep.
Payload(fields, k) ==
    [n \in NamesOf(fields) |->
        LET f == FieldNamed(fields, n)
        IN  [e \in 1..ElementCount(f) |-> IF e = 1 THEN Sample[f.dtype][k] ELSE "1"]]

\* What a write of a payload under the current schema should leave there, and the names
\* for which an integer field is too narrow.
Written(values) ==
    [n \in NamesOf(schema) |-> Rounded(values[n], FieldNamed(schema, n).dtype)]
TooWide(values) ==
    {n \in NamesOf(schema) : ~FitsAll(values[n], FieldNamed(schema, n).dtype)}

\* hydrate fills the segment it has created.
Hydrate ==
    /\ at = 1 /\ ~present /\ writes < MaxWrites
    /\ writes' = writes + 1
    /\ row' = InsertMany(schema, tables[at].assembly, Payload(schema, writes'))
    /\ truth' = Written(Payload(schema, writes'))
    /\ present' = TRUE
    /\ UNCHANGED <<versions, tables, at, buffer, message, wrapped>>

\* A producer of either version, the new one only if it can follow the old one.
Produce(v) ==
    /\ message = <<>> /\ writes < MaxWrites
    /\ v = 2 => CanUpgrade(versions[1], versions[2])
    /\ writes' = writes + 1
    /\ LET values == Payload(versions[v], writes')
       IN  message' = <<[list |-> Encode(tables[v].order, values), values |-> values]>>
    /\ UNCHANGED <<versions, tables, at, present, row, buffer, truth, wrapped>>

\* _apply: the list is packed into the buffer, insert copies all of it into the row.
Apply ==
    /\ message # <<>>
    /\ LET plan == tables[at].plan
           list == message[1].list
       IN  /\ Len(list) = Len(plan)
           /\ \A k \in DOMAIN plan : Packs(plan[k], list)
           /\ buffer' = PackInto(plan, list, buffer)
    /\ row' = buffer'
    /\ truth' = Written(message[1].values)
    /\ wrapped' = TooWide(message[1].values)
    /\ present' = TRUE
    /\ message' = <<>>
    /\ UNCHANGED <<versions, tables, at, writes>>

\* A poison pill: another number of values, or one that is refused.  The values before
\* that one are in the buffer already.  The message stays pending.
Poison ==
    /\ message # <<>>
    /\ LET plan == tables[at].plan
           list == message[1].list
       IN  \/ /\ Len(list) # Len(plan)
              /\ UNCHANGED buffer
           \/ /\ Len(list) = Len(plan)
              /\ \E k \in DOMAIN plan : ~Packs(plan[k], list)
              /\ buffer' = PackInto(plan, list, buffer)
    /\ message' = <<>>
    /\ UNCHANGED <<versions, tables, at, present, row, truth, wrapped, writes>>

\* The consumer's buffer is a new one when it attaches to the new segment.
Upgrade ==
    /\ at = 1 /\ CanUpgrade(versions[1], versions[2])
    /\ at' = 2
    /\ IF present
       THEN row' = InsertMany(versions[2], tables[2].assembly,
                              Translate(tables[1].rows, versions[2], row))
       ELSE UNCHANGED row
    /\ truth' = [n \in NamesOf(versions[2]) |->
                    IF present /\ n \in NamesOf(versions[1]) THEN truth[n]
                    ELSE [e \in 1..ElementCount(FieldNamed(versions[2], n)) |-> Zero]]
    /\ buffer' = <<>>
    /\ UNCHANGED <<versions, tables, present, message, wrapped, writes>>

--------------------------------------------------------------------------------
Init ==
    /\ versions \in Schemas \X Schemas
    /\ tables = [v \in {1, 2} |-> Compile(versions[v])]
    /\ at = 1
    /\ present = FALSE
    /\ row = <<>> /\ buffer = <<>>
    /\ message = <<>>
    /\ truth = <<>> /\ wrapped = {}
    /\ writes = 0

Next ==
    \/ Hydrate
    \/ \E v \in {1, 2} : Produce(v)
    \/ Apply \/ Poison
    \/ Upgrade

Spec == Init /\ [][Next]_vars

--------------------------------------------------------------------------------
(* Properties *)

\* The types of the state; every byte that is written lies in the row.
TypeOK ==
    /\ IsSchema(versions[1]) /\ IsSchema(versions[2])
    /\ at \in {1, 2} /\ present \in BOOLEAN
    /\ DOMAIN row \subseteq 0..(tables[at].rowSize - 1)
    /\ DOMAIN buffer \subseteq 0..(tables[at].rowSize - 1)
    /\ present => DOMAIN truth = NamesOf(schema)
    /\ wrapped \subseteq NamesOf(schema)
    /\ Len(message) <= 1
    /\ writes \in 0..MaxWrites

\* A field of integers, a list, that the new version widens.
Widened(n) ==
    \E f \in Range(versions[1]), g \in Range(versions[2]) :
        /\ f.name = n /\ g.name = n
        /\ f.shape # <<>> /\ f.dtype \in {"uint8", "int32"} /\ g.dtype # f.dtype

\* Under a name is what was last written under it, rounded if the field is of floats:
\* whichever of the two writers stored it, in whichever order the schema declares its
\* fields, through an upgrade that reorders, widens and adds fields (which read 0,
\* can_upgrade's widening table), and with messages of producers that have been upgraded
\* earlier or later than the consumer.  The exception are integers that a producer of the
\* new version has written to the narrower field of the old one, which the packer wraps:
\* it meets only lists of a widened integer field, the other fields of the row are right.
NothingLost ==
    present => \A i \in DOMAIN schema :
        LET n == schema[i].name
        IN  IF n \in wrapped THEN Widened(n)
            ELSE ReadField(tables[at].assembly[i], row) = truth[n]

\* An integer outside the range of its field is not stored: its message is a poison pill
\* that stays pending (_apply's comment on pack_row_from_list).  The code does not keep
\* this for lists (see the README).
OutOfRangeIsPoison ==
    present => \A i \in DOMAIN schema :
        ReadField(tables[at].assembly[i], row) = truth[schema[i].name]

\* The segment of c rows of this size, whose fields the table places.
Disjoint(size, table, c) ==
    LET l == ComputeLayout(size, c, MaxIdBytes)
    IN  /\ l.slot_capacity >= 2 * c
        /\ \E k \in 0..(2 * c) : l.slot_capacity = Powers(2 * c)[k]
        /\ DATA_REGION_OFFSET + l.slot_capacity * SLOT_BYTES <= l.string_pool_offset
        /\ l.string_pool_data_offset + l.string_pool_data_bytes <= l.feature_rows_offset
        /\ l.feature_rows_offset + c * l.row_size <= l.total_size
        /\ \A r \in 0..(c - 1), i \in DOMAIN table :
              LET a == l.feature_rows_offset + r * l.row_size + table[i].byte_offset
              IN  /\ a % CACHE_LINE_SIZE = 0
                  /\ a + table[i].byte_count <= l.total_size
                  /\ table[i].byte_offset + table[i].byte_count <=
                        IF i < Len(table) THEN table[i + 1].byte_offset ELSE l.row_size

\* The regions of a segment follow each other without overlap and inside its size,
\* rows and fields start on cache lines of their own, and the slot table is a power of
\* two that is at most half full (compute_layout).
RegionsDisjoint ==
    \A c \in Capacities : Disjoint(tables[at].rowSize, tables[at].assembly, c)

\* The dry run reports the row size that the new segment will have.  The code does not
\* keep this: it adds up the fields without their alignment (see the README).
DryRunMatches == DryRunRowSize(versions[2]) = tables[2].rowSize

================================================================================
