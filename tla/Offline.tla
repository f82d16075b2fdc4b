-------------------------------- MODULE Offline --------------------------------
(*****************************************************************************)
(* ParquetDatasetStore: the writer's buckets and its flush, file by file,    *)
(* and the two reads over the files: read_point_in_time and latest_features. *)
(*                                                                           *)
(* Messages are numbered in the order of their Redis ids; the WAL consumer   *)
(* appends them in this order and, after a restart, appends again those that *)
(* were not acknowledged, so files hold duplicates.  Time is counted in      *)
(* ticks, Day of them a day.  The last tick of a day stands for its last     *)
(* half microsecond: a float of seconds rounds it up to the next day.        *)
(*                                                                           *)
(* A read is one step: it lists the files and loads them.  Files appear by   *)
(* rename, so the state between two steps of the writer is what it can see.  *)
(*****************************************************************************)
EXTENDS Integers, Sequences, FiniteSets, SequencesExt

CONSTANTS
    MaxMsgs,       \* bound: messages the producers write
    Entities,      \* entity ids
    Day,           \* ticks of a day
    EventTimes,    \* bound: event times the producers use
    QueryTimes,    \* bound: as_of times the readers use
    Lookback,      \* lookback_days
    Budget         \* bound: crashes and failed writes

ASSUME ConstantsAssumption ==
    /\ MaxMsgs \in Nat
    /\ Day \in Nat \ {0}
    /\ EventTimes \subseteq Nat
    /\ QueryTimes \subseteq Nat
    /\ \E t \in EventTimes \cup QueryTimes :
          \A u \in EventTimes \cup QueryTimes : u \div Day <= t \div Day
    /\ Lookback \in Nat \ {0}
    /\ Budget \in Nat

Msgs == 1..MaxMsgs

VARIABLES
    (* The stream *)
    info,        \* entity and event time of each message written
    acked,       \* messages up to this one are acknowledged
    (* The writer process *)
    appended,    \* messages up to this one were appended by this process
    dateCache,   \* _date_cache: day number -> partition date
    buffers,     \* _buffers: date -> rows of the bucket
    pc,          \* where flush() is
    snapshot,    \* the buckets flush() has taken
    written,     \* dates whose file flush() knows to be in place
    date,        \* the bucket being written
    (* Disk *)
    files,       \* the dataset's files in listing order: date and rows
    (* Bound *)
    budget

vars == <<info, acked, appended, dateCache, buffers, pc, snapshot, written, date,
          files, budget>>

NoDate == -1

\* Rounding may carry the last tick of the last day into one more date.
LastDay == 1 + CHOOSE d \in {t \div Day : t \in EventTimes \cup QueryTimes} :
                   \A t \in EventTimes \cup QueryTimes : t \div Day <= d
Dates == 0..LastDay
Days == 0..LastDay

Empty == [d \in Dates |-> <<>>]

--------------------------------------------------------------------------------
(* The writer *)

\* fromtimestamp(ns / 1e9).strftime("%Y-%m-%d")
DateOf(t) == IF t % Day = Day - 1 THEN t \div Day + 1 ELSE t \div Day

\* _get_date_str: the first time of a day fixes the date of all its times.
CachedDate(t) ==
    IF dateCache[t \div Day] # NoDate THEN dateCache[t \div Day] ELSE DateOf(t)

\* append of the next message: one that was appended before (by a process that
\* is gone, or before run() raised), or a new one.
Append1(e, t) ==
    LET m == appended + 1
    IN  /\ pc = "idle"
        /\ IF m <= Len(info)
           THEN info[m] = [ent |-> e, time |-> t] /\ UNCHANGED info
           ELSE m \in Msgs /\ info' = Append(info, [ent |-> e, time |-> t])
        /\ appended' = m
        /\ dateCache' = [dateCache EXCEPT ![t \div Day] = CachedDate(t)]
        /\ buffers' = [buffers EXCEPT ![CachedDate(t)] = Append(@, m)]
        /\ UNCHANGED <<acked, pc, snapshot, written, date, files, budget>>

\* flush() takes the buckets and leaves an empty dictionary behind.
FlushBegins ==
    /\ pc = "idle"
    /\ buffers # Empty
    /\ snapshot' = buffers
    /\ buffers' = Empty
    /\ written' = {}
    /\ pc' = "flush"
    /\ UNCHANGED <<info, acked, appended, dateCache, date, files, budget>>

Unwritten == {d \in Dates : snapshot[d] # <<>> /\ d \notin written}

\* _write_table up to the rename: the file is in _tmp, where no reader looks.
WriteTmp(d) ==
    /\ pc = "flush"
    /\ d \in Unwritten
    /\ date' = d
    /\ pc' = "tmp"
    /\ UNCHANGED <<info, acked, appended, dateCache, buffers, snapshot, written, files,
                   budget>>

\* The rename makes the whole file visible; its random name decides where it is
\* listed.
Rename ==
    /\ pc = "tmp"
    /\ \E i \in 1..Len(files) + 1 :
          files' = InsertAt(files, i, [date |-> date, rows |-> snapshot[date]])
    /\ pc' = "renamed"
    /\ UNCHANGED <<info, acked, appended, dateCache, buffers, snapshot, written, date,
                   budget>>

\* fsync of the directory; the bucket counts as written.
SyncDir ==
    /\ pc = "renamed"
    /\ written' = written \cup {date}
    /\ date' = NoDate
    /\ pc' = "flush"
    /\ UNCHANGED <<info, acked, appended, dateCache, buffers, snapshot, files, budget>>

\* Mutant: only the bucket that failed is put back.
FlushRaisesKeepsOne ==
    /\ pc \in {"tmp", "renamed"}
    /\ budget > 0
    /\ budget' = budget - 1
    /\ buffers' = [d \in Dates |-> IF d = date THEN snapshot[d] ELSE <<>>]
    /\ snapshot' = Empty
    /\ written' = {}
    /\ date' = NoDate
    /\ pc' = "idle"
    /\ UNCHANGED <<info, acked, appended, dateCache, files>>

\* Mutant: the snapshot is kept beside the restored buckets.
FlushRaisesKeepsSnapshot ==
    /\ pc \in {"tmp", "renamed"}
    /\ budget > 0
    /\ budget' = budget - 1
    /\ buffers' = [d \in Dates |-> IF d \in written THEN <<>> ELSE snapshot[d]]
    /\ pc' = "idle"
    /\ UNCHANGED <<info, acked, appended, dateCache, snapshot, written, date, files>>

\* Writing, fsync or rename raises, or the fsync of the directory after the
\* rename: every bucket not known to be written goes back to the buffer.
FlushRaises ==
    /\ pc \in {"tmp", "renamed"}
    /\ budget > 0
    /\ budget' = budget - 1
    /\ buffers' = [d \in Dates |-> IF d \in written THEN <<>> ELSE snapshot[d]]
    /\ snapshot' = Empty
    /\ written' = {}
    /\ date' = NoDate
    /\ pc' = "idle"
    /\ UNCHANGED <<info, acked, appended, dateCache, files>>

FlushEnds ==
    /\ pc = "flush"
    /\ Unwritten = {}
    /\ snapshot' = Empty
    /\ written' = {}
    /\ pc' = "ack"
    /\ UNCHANGED <<info, acked, appended, dateCache, buffers, date, files, budget>>

\* The WAL consumer acknowledges what it had appended before the flush.
Xack ==
    /\ pc = "ack"
    /\ acked' = appended
    /\ pc' = "idle"
    /\ UNCHANGED <<info, appended, dateCache, buffers, snapshot, written, date, files,
                   budget>>

\* The process dies; a new store drops _tmp and starts with nothing buffered.
Restart ==
    /\ budget > 0
    /\ budget' = budget - 1
    /\ appended' = acked
    /\ dateCache' = [d \in Days |-> NoDate]
    /\ buffers' = Empty
    /\ snapshot' = Empty
    /\ written' = {}
    /\ date' = NoDate
    /\ pc' = "idle"
    /\ UNCHANGED <<info, acked, files>>

Init ==
    /\ info = <<>> /\ acked = 0 /\ appended = 0
    /\ dateCache = [d \in Days |-> NoDate]
    /\ buffers = Empty /\ snapshot = Empty
    /\ written = {} /\ date = NoDate /\ pc = "idle"
    /\ files = <<>>
    /\ budget = Budget

Next ==
    \/ \E e \in Entities, t \in EventTimes : Append1(e, t)
    \/ FlushBegins
    \/ \E d \in Dates : WriteTmp(d)
    \/ Rename \/ SyncDir \/ FlushRaises \/ FlushEnds
    \/ Xack \/ Restart

Spec == Init /\ [][Next]_vars

--------------------------------------------------------------------------------
(* The reads *)

NoRow == 0

TimeOf(m) == info[m].time
EntOf(m) == info[m].ent

LookbackTicks == Lookback * Day

\* A row of the dataset by its place: the file, as listed, and the row in it.
RowAt(p) == files[p[1]].rows[p[2]]
LoadedAfter(p, r) == r[1] < p[1] \/ (r[1] = p[1] /\ r[2] < p[2])

\* dataset.to_table(filter): the rows of the window, in the files of its dates.
Load(from, to) ==
    LET listed == {i \in DOMAIN files : /\ DateOf(from) <= files[i].date
                                        /\ files[i].date <= DateOf(to)}
    IN  {p \in UNION {{i} \X DOMAIN files[i].rows : i \in listed} :
            from <= TimeOf(RowAt(p)) /\ TimeOf(RowAt(p)) <= to}

\* _dedup_features: one row per message id, or, without the id columns, the last
\* row loaded for each entity and event time.
DedupFeatures(table, hasMsgId) ==
    IF hasMsgId
    THEN {RowAt(p) : p \in table}
    ELSE {RowAt(p) : p \in {r \in table :
              ~ \E s \in table : LoadedAfter(s, r) /\ info[RowAt(s)] = info[RowAt(r)]}}

\* Rows sorted by event time and then by message id, and those of one entity.
Before(m, n) == TimeOf(m) < TimeOf(n) \/ (TimeOf(m) = TimeOf(n) /\ m < n)

Sorted(rows) ==
    [i \in 1..Cardinality(rows) |->
        CHOOSE m \in rows : Cardinality({n \in rows : Before(n, m)}) = i - 1]

Slice(features, e) == Sorted({m \in features : EntOf(m) = e})

\* Mutant: the candidate's age is left to the filter of the whole query table.
AsofRowAnyAge(features, q) ==
    LET slice == Slice(features, q.ent)
        pos   == Cardinality({i \in DOMAIN slice : TimeOf(slice[i]) <= q.asof})
    IN  IF pos = 0 THEN NoRow ELSE slice[pos]

\* _asof_join for one row of the query table: the last row of the entity that is
\* not after the as_of time, unless it is older than the lookback allows.
AsofRow(features, q) ==
    LET slice == Slice(features, q.ent)
        pos   == Cardinality({i \in DOMAIN slice : TimeOf(slice[i]) <= q.asof})
    IN  IF pos = 0 \/ TimeOf(slice[pos]) < q.asof - LookbackTicks
        THEN NoRow
        ELSE slice[pos]

\* read_point_in_time: one window for the whole query table, then the join.
ReadPointInTime(queries, hasMsgId) ==
    LET asofs    == {q.asof : q \in queries}
        features == DedupFeatures(Load(Min(asofs) - LookbackTicks, Max(asofs)), hasMsgId)
    IN  [q \in queries |-> AsofRow(features, q)]

\* Mutant: no upper bound, as if the snapshot were always now.
LatestFeaturesUnbounded(asof, hasMsgId) ==
    LET table == Load(asof - LookbackTicks, Max(EventTimes))
        Newer(p, r) == Before(RowAt(p), RowAt(r))
    IN  {RowAt(p) : p \in {r \in table :
            ~ \E s \in table : EntOf(RowAt(s)) = EntOf(RowAt(r)) /\ Newer(r, s)}}

\* latest_features: of each entity the last row in the order of event time and,
\* if there, message id; rows that are equal so far stay in the order loaded.
LatestFeatures(asof, hasMsgId) ==
    LET table == Load(asof - LookbackTicks, asof)
        Newer(p, r) ==
            \/ TimeOf(RowAt(p)) < TimeOf(RowAt(r))
            \/ TimeOf(RowAt(p)) = TimeOf(RowAt(r)) /\
               IF hasMsgId /\ RowAt(p) # RowAt(r) THEN RowAt(p) < RowAt(r)
               ELSE LoadedAfter(r, p)
    IN  {RowAt(p) : p \in {r \in table :
            ~ \E s \in table : EntOf(RowAt(s)) = EntOf(RowAt(r)) /\ Newer(r, s)}}

--------------------------------------------------------------------------------
(* Properties *)

TypeRows(b) == b \in [Dates -> Seq(1..appended)]

\* Every variable keeps its type; a flush that is over has left nothing in hand,
\* and what is buffered, or was acknowledged, was appended.
TypeOK ==
    /\ info \in Seq([ent : Entities, time : EventTimes])
    /\ Len(info) <= MaxMsgs
    /\ acked \in 0..appended /\ appended \in 0..Len(info)
    /\ dateCache \in [Days -> Dates \cup {NoDate}]
    /\ TypeRows(buffers) /\ TypeRows(snapshot)
    /\ pc \in {"idle", "flush", "tmp", "renamed", "ack"}
    /\ pc \in {"idle", "ack"} => snapshot = Empty /\ written = {}
    /\ pc \notin {"tmp", "renamed"} => date = NoDate
    /\ written \subseteq Dates
    /\ pc \in {"tmp", "renamed"} => date \in Unwritten
    /\ files \in Seq([date : Dates, rows : Seq(1..Len(info)) \ {<<>>}])
    /\ budget \in 0..Budget

Durable == UNION {ToSet(files[i].rows) : i \in DOMAIN files}

\* An acknowledged message is in a file of its own day, the only place where the
\* pruned reads look for it, although buckets are split by day, flushed one by
\* one and restored when one of them fails.
AckedIsReadable ==
    \A m \in 1..acked :
        \E i \in DOMAIN files :
            files[i].date = TimeOf(m) \div Day /\ m \in ToSet(files[i].rows)

Queries == [ent : Entities, asof : QueryTimes]

\* What the docstring promises for one query: the most recent write of the entity
\* not after as_of and within the lookback, both ends inclusive.
Candidates(q) ==
    {m \in Durable : /\ EntOf(m) = q.ent
                     /\ TimeOf(m) <= q.asof
                     /\ TimeOf(m) >= q.asof - LookbackTicks}

Expected(q) ==
    LET rows == Candidates(q)
    IN  IF rows = {} THEN NoRow
        ELSE CHOOSE m \in rows : \A n \in rows : n = m \/ Before(n, m)

\* The same row, or without message ids one of the same event time.
Matches(m, n, hasMsgId) ==
    m = n \/ (~hasMsgId /\ m # NoRow /\ n # NoRow /\ info[m] = info[n])

\* read_point_in_time answers every query of a table as if it were alone and the
\* dataset had neither duplicates nor partitions.
AsOfIsRight ==
    \A p \in Queries :
        LET expected == Expected(p)
        IN  \A q \in Queries, hasMsgId \in BOOLEAN :
               Matches(ReadPointInTime({p, q}, hasMsgId)[p], expected, hasMsgId)

\* latest_features, from which hydrate rebuilds a segment, agrees with a
\* point-in-time read of every entity at the same time, to the row.
LatestAgrees ==
    \A asof \in QueryTimes, hasMsgId \in BOOLEAN :
        LatestFeatures(asof, hasMsgId) =
            {ReadPointInTime({[ent |-> e, asof |-> asof]}, hasMsgId)
                 [[ent |-> e, asof |-> asof]] : e \in Entities} \ {NoRow}

================================================================================
