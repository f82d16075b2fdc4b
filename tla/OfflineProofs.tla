----------------------------- MODULE OfflineProofs -----------------------------
(*****************************************************************************)
(* What is acknowledged is where the pruned reads look for it, and the reads *)
(* return what their definition says, for any number of messages, entities,  *)
(* days, failed writes and crashes.                                          *)
(*****************************************************************************)
EXTENDS Offline, FiniteSetTheorems, WellFoundedInduction, TLAPS

\* No event falls into the last half microsecond of a day, where the writer's float
\* rounds up and the file gets the date of the next day (see the README).
NoLateTick == \A t \in EventTimes : t % Day # Day - 1

DayOf(m) == TimeOf(m) \div Day

\* Message m is in a file of date d.
Filed(m, d) == \E i \in DOMAIN files : files[i].date = d /\ m \in ToSet(files[i].rows)

\* The cache keeps the day itself as the date of a day.
CacheIsDay == \A d \in Days : dateCache[d] \in {NoDate, d}

\* flush() leaves an empty dictionary behind and nothing is appended before its XACK.
NothingBehind == pc # "idle" => buffers = Empty

\* A bucket counts as written only when its file is in place, and it is already in
\* place when the fsync of the directory may still fail.
WrittenIsFiled ==
    /\ \A d \in written : \A m \in ToSet(snapshot[d]) : Filed(m, d)
    /\ pc = "renamed" => \A m \in ToSet(snapshot[date]) : Filed(m, date)

\* A message appended by this process, or acknowledged before it, is in the bucket
\* of its day, in the snapshot of a flush or in a file of its day.
Accounted ==
    \A m \in 1..appended :
        \/ m \in ToSet(buffers[DayOf(m)])
        \/ m \in ToSet(snapshot[DayOf(m)])
        \/ Filed(m, DayOf(m))

FlushInv == NothingBehind /\ WrittenIsFiled

DayInv == CacheIsDay /\ Accounted /\ AckedIsReadable

--------------------------------------------------------------------------------
(* Days and dates *)

\* The day of a time is a natural number.
LEMMA DayIsNat ==
    ASSUME NEW t \in Nat
    PROVE  t \div Day \in Nat
<1>1. Day \in Int /\ Day >= 1
  BY ConstantsAssumption
<1> DEFINE q == t \div Day
<1>2. q \in Int /\ t < q * Day + Day
  BY <1>1
<1>3. ASSUME q < 0 PROVE FALSE
  <2>1. (q + 1) * Day <= 0
    BY <1>1, <1>2, <1>3
  <2> QED
    BY <1>1, <1>2, <2>1
<1> QED
  BY <1>2, <1>3

\* LastDay lies after every day there is.
LEMMA LastDayIsLast ==
    /\ LastDay \in Nat
    /\ \A t \in EventTimes : t \div Day \in Nat /\ t \div Day + 1 <= LastDay
<1> DEFINE D == {t \div Day : t \in EventTimes \cup QueryTimes}
           IsLast(d) == \A t \in EventTimes \cup QueryTimes : t \div Day <= d
<1>1. \A t \in EventTimes \cup QueryTimes : t \div Day \in Nat
  BY DayIsNat, ConstantsAssumption
<1>2. \E d \in D : IsLast(d)
  BY ConstantsAssumption
<1> DEFINE e == CHOOSE d \in D : IsLast(d)
<1>3. e \in D /\ IsLast(e)
  BY <1>2
<1>4. e \in Nat
  BY <1>1, <1>3
<1>5. LastDay = 1 + e
  BY DEF LastDay
<1> HIDE DEF e
<1> QED
  BY <1>1, <1>3, <1>4, <1>5

\* The cache and DateOf give dates, whatever rounding does.
LEMMA DatesAreDates ==
    ASSUME NEW t \in EventTimes, dateCache \in [Days -> Dates \cup {NoDate}]
    PROVE  t \div Day \in Days /\ CachedDate(t) \in Dates
<1>1. t \div Day \in Nat /\ t \div Day + 1 <= LastDay /\ LastDay \in Nat
  BY LastDayIsLast
<1>2. t \div Day \in Days /\ DateOf(t) \in Dates
  BY <1>1 DEF Days, Dates, DateOf
<1> QED
  BY <1>2 DEF CachedDate

\* A row inserted into a sequence leaves the others in it.
LEMMA InsertKeeps ==
    ASSUME NEW S, NEW s \in Seq(S), NEW e \in S, NEW i \in 1..Len(s) + 1
    PROVE  /\ InsertAt(s, i, e) \in Seq(S)
           /\ \E j \in DOMAIN InsertAt(s, i, e) : InsertAt(s, i, e)[j] = e
           /\ \A k \in DOMAIN s : \E j \in DOMAIN InsertAt(s, i, e) :
                 InsertAt(s, i, e)[j] = s[k]
           /\ \A j \in DOMAIN InsertAt(s, i, e) :
                 InsertAt(s, i, e)[j] = e \/ \E k \in DOMAIN s : InsertAt(s, i, e)[j] = s[k]
<1> DEFINE a == SubSeq(s, 1, i - 1)
           b == SubSeq(s, i, Len(s))
           r == InsertAt(s, i, e)
<1>1. /\ a \in Seq(S) /\ Len(a) = i - 1
      /\ \A k \in 1..(i - 1) : a[k] = s[k]
  OBVIOUS
<1>2. /\ b \in Seq(S) /\ Len(b) = Len(s) - i + 1
      /\ \A k \in 1..(Len(s) - i + 1) : b[k] = s[k + i - 1]
  OBVIOUS
<1>3. r = a \o <<e>> \o b
  BY DEF InsertAt
<1> HIDE DEF a, b, r
<1> DEFINE c == a \o <<e>>
<1>4. /\ c \in Seq(S) /\ Len(c) = i
      /\ \A k \in 1..(i - 1) : c[k] = s[k]
      /\ c[i] = e
  BY <1>1
<1>5. r = c \o b
  BY <1>3
<1> HIDE DEF c
<1>6. /\ r \in Seq(S) /\ Len(r) = Len(s) + 1
      /\ \A k \in 1..i : r[k] = c[k]
      /\ \A k \in 1..(Len(s) - i + 1) : r[k + i] = b[k]
  <2>1. r \in Seq(S) /\ Len(r) = Len(c) + Len(b)
    BY <1>2, <1>4, <1>5
  <2>2. Len(c) + Len(b) = Len(s) + 1
    BY <1>2, <1>4
  <2>3. \A k \in 1..Len(c) : r[k] = c[k]
    BY <1>2, <1>4, <1>5
  <2>4. ASSUME NEW k \in 1..Len(b) PROVE r[k + Len(c)] = b[k]
    BY <1>2, <1>4, <1>5
  <2> QED
    BY <1>2, <1>4, <2>1, <2>2, <2>3, <2>4
<1>7. DOMAIN r = 1..(Len(s) + 1) /\ DOMAIN s = 1..Len(s)
  BY <1>6
<1>8. \E j \in DOMAIN r : r[j] = e
  BY <1>4, <1>6, <1>7
<1>9. ASSUME NEW k \in DOMAIN s PROVE \E j \in DOMAIN r : r[j] = s[k]
  <2>1. CASE k < i
    <3>1. k \in DOMAIN r /\ r[k] = s[k]
      BY <1>4, <1>6, <1>7, <2>1
    <3> QED
      BY <3>1
  <2>2. CASE k >= i
    <3>1. k - i + 1 \in 1..(Len(s) - i + 1) /\ k + 1 \in DOMAIN r
      BY <1>7, <2>2
    <3>2. r[(k - i + 1) + i] = b[k - i + 1] /\ b[k - i + 1] = s[(k - i + 1) + i - 1]
      BY <1>2, <1>6, <3>1
    <3>3. (k - i + 1) + i = k + 1 /\ (k - i + 1) + i - 1 = k
      BY <1>7
    <3>4. r[k + 1] = s[k]
      BY <3>2, <3>3
    <3> QED
      BY <3>1, <3>4
  <2> QED
    BY <1>7, <2>1, <2>2
<1>10. ASSUME NEW j \in DOMAIN r PROVE r[j] = e \/ \E k \in DOMAIN s : r[j] = s[k]
  <2>1. CASE j < i
    <3>1. j \in DOMAIN s /\ r[j] = s[j]
      BY <1>4, <1>6, <1>7, <2>1
    <3> QED
      BY <3>1
  <2>2. CASE j = i
    BY <1>4, <1>6, <2>2
  <2>3. CASE j > i
    <3>1. j - i \in 1..(Len(s) - i + 1) /\ j - 1 \in DOMAIN s
      BY <1>7, <2>3
    <3>2. r[(j - i) + i] = b[j - i] /\ b[j - i] = s[(j - i) + i - 1]
      BY <1>2, <1>6, <3>1
    <3>3. (j - i) + i = j /\ (j - i) + i - 1 = j - 1
      BY <1>7
    <3>4. r[j] = s[j - 1]
      BY <3>2, <3>3
    <3> QED
      BY <3>1, <3>4
  <2> QED
    BY <1>7, <2>1, <2>2, <2>3
<1> QED
  BY <1>6, <1>8, <1>9, <1>10 DEF r

--------------------------------------------------------------------------------
(* Types *)

LogType ==
    /\ info \in Seq([ent : Entities, time : EventTimes])
    /\ Len(info) <= MaxMsgs
    /\ acked \in Nat /\ appended \in Nat /\ acked <= appended /\ appended <= Len(info)
    /\ budget \in 0..Budget

WriterType ==
    /\ dateCache \in [Days -> Dates \cup {NoDate}]
    /\ TypeRows(buffers) /\ TypeRows(snapshot)
    /\ written \subseteq Dates

ControlType ==
    /\ pc \in {"idle", "flush", "tmp", "renamed", "ack"}
    /\ pc \in {"idle", "ack"} => snapshot = Empty /\ written = {}
    /\ pc \notin {"tmp", "renamed"} => date = NoDate
    /\ pc \in {"tmp", "renamed"} => date \in Unwritten

FilesType == files \in Seq([date : Dates, rows : Seq(1..Len(info)) \ {<<>>}])

\* The parts of TypeOK.
LEMMA TypeParts == TypeOK <=> LogType /\ WriterType /\ ControlType /\ FilesType
<1>1. TypeOK => LogType
  BY DEF TypeOK, LogType
<1>2. TypeOK => WriterType /\ ControlType /\ FilesType
  BY DEF TypeOK, WriterType, ControlType, FilesType
<1>3. LogType => acked \in 0..appended /\ appended \in 0..Len(info)
  BY DEF LogType
<1>4. LogType /\ WriterType /\ ControlType /\ FilesType => TypeOK
  BY <1>3 DEF TypeOK, LogType, WriterType, ControlType, FilesType
<1> QED
  BY <1>1, <1>2, <1>4

LEMMA SeqMonotone ==
    ASSUME NEW S, NEW T, \A x \in S : x \in T
    PROVE  Seq(S) \subseteq Seq(T)
<1> SUFFICES ASSUME NEW s \in Seq(S) PROVE s \in Seq(T)
  OBVIOUS
<1>1. s \in [1..Len(s) -> S] /\ Len(s) \in Nat
  OBVIOUS
<1>2. s \in [1..Len(s) -> T]
  BY <1>1
<1> QED
  BY <1>1, <1>2

\* Rows that were appended stay rows that were appended.
LEMMA RowsGrow ==
    ASSUME NEW b, NEW m \in Nat, NEW n \in Nat, m <= n,
           b \in [Dates -> Seq(1..m)]
    PROVE  b \in [Dates -> Seq(1..n)]
<1>1. ASSUME NEW s \in Seq(1..m) PROVE s \in Seq(1..n)
  OBVIOUS
<1> QED
  BY <1>1

LEMMA EmptyType == ASSUME NEW n \in Nat PROVE Empty \in [Dates -> Seq(1..n)]
  BY DEF Empty

\* append keeps the types.
LEMMA AppendTypes ==
    ASSUME TypeOK, NEW e \in Entities, NEW t \in EventTimes, Append1(e, t)
    PROVE  TypeOK'
<1> DEFINE m == appended + 1
           d == CachedDate(t)
           R == [ent : Entities, time : EventTimes]
<1>0. LogType /\ WriterType /\ ControlType /\ FilesType
  BY TypeParts
<1>1. d \in Dates /\ t \div Day \in Days
  BY <1>0, DatesAreDates DEF WriterType
<1>2. /\ info' \in Seq(R) /\ Len(info') <= MaxMsgs /\ Len(info) <= Len(info')
      /\ m \in Nat /\ m <= Len(info')
  <2>1. info \in Seq(R) /\ Len(info) \in Nat /\ [ent |-> e, time |-> t] \in R
    BY <1>0 DEF LogType
  <2>2. CASE m <= Len(info)
    BY <1>0, <2>1, <2>2 DEF Append1, LogType
  <2>3. CASE ~(m <= Len(info))
    <3>1. info' = Append(info, [ent |-> e, time |-> t]) /\ m \in 1..MaxMsgs
      BY <2>3 DEF Append1, Msgs
    <3>2. Len(info') = Len(info) + 1 /\ info' \in Seq(R)
      BY <2>1, <3>1
    <3> QED
      BY <1>0, <2>1, <2>3, <3>1, <3>2 DEF LogType
  <2> QED
    BY <2>2, <2>3
<1>3. /\ appended' = m /\ acked' = acked /\ budget' = budget
      /\ pc = "idle" /\ UNCHANGED <<pc, snapshot, written, date, files>>
      /\ dateCache' = [dateCache EXCEPT ![t \div Day] = d]
      /\ buffers' = [buffers EXCEPT ![d] = Append(@, m)]
  BY DEF Append1
<1> HIDE DEF d
<1>4. LogType'
  BY <1>0, <1>2, <1>3 DEF LogType
<1>5. dateCache' \in [Days -> Dates \cup {NoDate}]
  BY <1>0, <1>1, <1>3 DEF WriterType
<1>6. TypeRows(buffers)' /\ TypeRows(snapshot)'
  <2>1. buffers \in [Dates -> Seq(1..m)] /\ snapshot \in [Dates -> Seq(1..m)]
    <3>1. appended \in Nat /\ m \in Nat /\ appended <= m
      BY <1>0 DEF LogType
    <3>2. buffers \in [Dates -> Seq(1..appended)]
          /\ snapshot \in [Dates -> Seq(1..appended)]
      BY <1>0 DEF WriterType, TypeRows
    <3> QED
      BY <3>1, <3>2, RowsGrow
  <2>2. m \in 1..m
    BY <1>0 DEF LogType
  <2>3. Append(buffers[d], m) \in Seq(1..m)
    BY <1>1, <2>1, <2>2
  <2>4. buffers' \in [Dates -> Seq(1..m)]
    BY <1>1, <1>3, <2>1, <2>3
  <2> QED
    BY <1>3, <2>1, <2>4 DEF TypeRows
<1>7. WriterType'
  BY <1>0, <1>3, <1>5, <1>6 DEF WriterType
<1>8. ControlType'
  BY <1>0, <1>3 DEF ControlType, Empty, Unwritten
<1>9. FilesType'
  <2>1. Len(info) \in Nat /\ Len(info') \in Nat
    BY <1>0, <1>2 DEF LogType
  <2>2. ASSUME NEW s \in Seq(1..Len(info)) PROVE s \in Seq(1..Len(info'))
    BY <1>2, <2>1
  <2>3. ASSUME NEW f \in [date : Dates, rows : Seq(1..Len(info)) \ {<<>>}]
        PROVE  f \in [date : Dates, rows : Seq(1..Len(info')) \ {<<>>}]
    BY <2>2
  <2>4. Seq([date : Dates, rows : Seq(1..Len(info)) \ {<<>>}])
           \subseteq Seq([date : Dates, rows : Seq(1..Len(info')) \ {<<>>}])
    BY <2>3, SeqMonotone
  <2> QED
    BY <1>0, <1>3, <2>4 DEF FilesType
<1> QED
  BY <1>4, <1>7, <1>8, <1>9, TypeParts, PTL

\* Every other step keeps the types.
LEMMA TypeStep == TypeOK /\ [Next]_vars => TypeOK'
<1> SUFFICES ASSUME TypeOK, [Next]_vars PROVE TypeOK'
  OBVIOUS
<1>0. LogType /\ WriterType /\ ControlType /\ FilesType
  BY TypeParts
<1>e. Empty' = Empty /\ Empty \in [Dates -> Seq(1..appended)]
      /\ Empty \in [Dates -> Seq(1..acked)]
  <2>1. appended \in Nat /\ acked \in Nat
    BY <1>0 DEF LogType
  <2> QED
    BY <2>1, EmptyType DEF Empty
<1>f. ASSUME LogType', WriterType', ControlType', FilesType' PROVE TypeOK'
  BY <1>f, TypeParts, PTL
<1>1. ASSUME NEW e \in Entities, NEW t \in EventTimes, Append1(e, t) PROVE TypeOK'
  BY <1>1, AppendTypes
<1>2. CASE FlushBegins
  <2>1. LogType'
    BY <1>0, <1>2 DEF FlushBegins, LogType
  <2>2. WriterType'
    BY <1>0, <1>e, <1>2 DEF FlushBegins, WriterType, TypeRows
  <2>3. ControlType'
    BY <1>0, <1>2 DEF FlushBegins, ControlType
  <2>4. FilesType'
    BY <1>0, <1>2 DEF FlushBegins, FilesType
  <2> QED
    BY <1>f, <2>1, <2>2, <2>3, <2>4
<1>3. ASSUME NEW d \in Dates, WriteTmp(d) PROVE TypeOK'
  <2>1. LogType'
    BY <1>0, <1>3 DEF WriteTmp, LogType
  <2>2. WriterType'
    BY <1>0, <1>3 DEF WriteTmp, WriterType, TypeRows
  <2>3. ControlType'
    <3>1. Unwritten' = Unwritten
      BY <1>3 DEF WriteTmp, Unwritten
    <3> QED
      BY <1>0, <1>3, <3>1 DEF WriteTmp, ControlType
  <2>4. FilesType'
    BY <1>0, <1>3 DEF WriteTmp, FilesType
  <2> QED
    BY <1>f, <2>1, <2>2, <2>3, <2>4
<1>4. CASE Rename
  <2>1. LogType'
    BY <1>0, <1>4 DEF Rename, LogType
  <2>2. WriterType'
    BY <1>0, <1>4 DEF Rename, WriterType, TypeRows
  <2>3. ControlType'
    <3>1. Unwritten' = Unwritten
      BY <1>4 DEF Rename, Unwritten
    <3> QED
      BY <1>0, <1>4, <3>1 DEF Rename, ControlType
  <2>4. FilesType'
    <3> DEFINE F == [date : Dates, rows : Seq(1..Len(info)) \ {<<>>}]
               f == [date |-> date, rows |-> snapshot[date]]
    <3>1. date \in Dates /\ snapshot[date] # <<>>
      BY <1>0, <1>4 DEF Rename, ControlType, Unwritten
    <3>2. snapshot \in [Dates -> Seq(1..Len(info))]
      <4>1. appended \in Nat /\ Len(info) \in Nat /\ appended <= Len(info)
        BY <1>0 DEF LogType
      <4>2. snapshot \in [Dates -> Seq(1..appended)]
        BY <1>0 DEF WriterType, TypeRows
      <4> QED
        BY <4>1, <4>2, RowsGrow
    <3>3. snapshot[date] \in Seq(1..Len(info)) \ {<<>>}
      BY <3>1, <3>2
    <3>4. f \in F
      BY <3>1, <3>3
    <3>5. files \in Seq(F)
      BY <1>0 DEF FilesType
    <3>6. PICK i \in 1..Len(files) + 1 : files' = InsertAt(files, i, f)
      BY <1>4 DEF Rename
    <3> HIDE DEF f, F
    <3>7. files' \in Seq(F)
      BY <3>4, <3>5, <3>6, InsertKeeps
    <3> QED
      BY <1>4, <3>7 DEF Rename, FilesType, F
  <2> QED
    BY <1>f, <2>1, <2>2, <2>3, <2>4
<1>5. CASE SyncDir
  <2>1. LogType'
    BY <1>0, <1>5 DEF SyncDir, LogType
  <2>2. WriterType'
    <3>1. date \in Dates
      BY <1>0, <1>5 DEF SyncDir, ControlType, Unwritten
    <3> QED
      BY <1>0, <1>5, <3>1 DEF SyncDir, WriterType, TypeRows
  <2>3. ControlType'
    BY <1>0, <1>5 DEF SyncDir, ControlType
  <2>4. FilesType'
    BY <1>0, <1>5 DEF SyncDir, FilesType
  <2> QED
    BY <1>f, <2>1, <2>2, <2>3, <2>4
<1>6. CASE FlushRaises
  <2>1. LogType'
    BY <1>0, <1>6, ConstantsAssumption DEF FlushRaises, LogType
  <2>2. WriterType'
    <3>1. snapshot \in [Dates -> Seq(1..appended)] /\ appended' = appended
      BY <1>0, <1>6 DEF WriterType, TypeRows, FlushRaises
    <3>2. buffers' \in [Dates -> Seq(1..appended)]
      <4>1. <<>> \in Seq(1..appended)
        OBVIOUS
      <4>2. buffers' = [d \in Dates |-> IF d \in written THEN <<>> ELSE snapshot[d]]
        BY <1>6 DEF FlushRaises
      <4>3. ASSUME NEW d \in Dates
            PROVE  (IF d \in written THEN <<>> ELSE snapshot[d]) \in Seq(1..appended)
        BY <3>1, <4>1
      <4> QED
        BY <4>2, <4>3
    <3> QED
      BY <1>0, <1>e, <1>6, <3>1, <3>2 DEF FlushRaises, WriterType, TypeRows
  <2>3. ControlType'
    BY <1>0, <1>e, <1>6 DEF FlushRaises, ControlType
  <2>4. FilesType'
    BY <1>0, <1>6 DEF FlushRaises, FilesType
  <2> QED
    BY <1>f, <2>1, <2>2, <2>3, <2>4
<1>7. CASE FlushEnds
  <2>1. LogType'
    BY <1>0, <1>7 DEF FlushEnds, LogType
  <2>2. WriterType'
    BY <1>0, <1>e, <1>7 DEF FlushEnds, WriterType, TypeRows
  <2>3. ControlType'
    BY <1>0, <1>e, <1>7 DEF FlushEnds, ControlType
  <2>4. FilesType'
    BY <1>0, <1>7 DEF FlushEnds, FilesType
  <2> QED
    BY <1>f, <2>1, <2>2, <2>3, <2>4
<1>8. CASE Xack
  <2>1. LogType'
    BY <1>0, <1>8 DEF Xack, LogType
  <2>2. WriterType'
    BY <1>0, <1>8 DEF Xack, WriterType, TypeRows
  <2>3. ControlType'
    BY <1>0, <1>e, <1>8 DEF Xack, ControlType
  <2>4. FilesType'
    BY <1>0, <1>8 DEF Xack, FilesType
  <2> QED
    BY <1>f, <2>1, <2>2, <2>3, <2>4
<1>9. CASE Restart
  <2>1. LogType'
    BY <1>0, <1>9, ConstantsAssumption DEF Restart, LogType
  <2>2. WriterType'
    BY <1>0, <1>e, <1>9 DEF Restart, WriterType, TypeRows
  <2>3. ControlType'
    BY <1>0, <1>e, <1>9 DEF Restart, ControlType
  <2>4. FilesType'
    BY <1>0, <1>9 DEF Restart, FilesType
  <2> QED
    BY <1>f, <2>1, <2>2, <2>3, <2>4
<1>10. CASE UNCHANGED vars
  BY <1>10 DEF vars, TypeOK, TypeRows, Empty, Unwritten
<1> QED
  BY <1>1, <1>2, <1>3, <1>4, <1>5, <1>6, <1>7, <1>8, <1>9, <1>10 DEF Next

LEMMA TypeInit == Init => TypeOK
<1> SUFFICES ASSUME Init PROVE TypeOK
  OBVIOUS
<1>1. LogType
  BY ConstantsAssumption DEF Init, LogType
<1>2. WriterType
  BY EmptyType DEF Init, WriterType, TypeRows
<1>3. ControlType /\ FilesType
  BY DEF Init, ControlType, FilesType
<1> QED
  BY <1>1, <1>2, <1>3, TypeParts

\* Type correctness of the writer and its files, for every value of the constants:
\* a flush that is over has left nothing in hand, and no file is empty.
THEOREM TypeCorrect == Spec => []TypeOK
  BY TypeInit, TypeStep, PTL DEF Spec

--------------------------------------------------------------------------------
(* The flush *)

\* The rename puts the bucket into a file and keeps the files there are.
LEMMA RenameFiles ==
    ASSUME TypeOK, Rename
    PROVE  /\ \A m \in ToSet(snapshot[date]) : Filed(m, date)'
           /\ \A m, d : Filed(m, d) => Filed(m, d)'
           /\ \A j \in DOMAIN files' :
                 \/ files'[j].date = date /\ files'[j].rows = snapshot[date]
                 \/ \E k \in DOMAIN files : files'[j] = files[k]
<1> DEFINE F == [date : Dates, rows : Seq(1..Len(info)) \ {<<>>}]
           f == [date |-> date, rows |-> snapshot[date]]
<1>1. f \in F /\ files \in Seq(F)
  <2>1. date \in Dates /\ snapshot[date] # <<>>
    BY DEF Rename, TypeOK, Unwritten
  <2>2. snapshot \in [Dates -> Seq(1..appended)]
        /\ appended \in Nat /\ Len(info) \in Nat /\ appended <= Len(info)
    BY TypeParts DEF LogType, WriterType, TypeRows
  <2>3. snapshot \in [Dates -> Seq(1..Len(info))]
    BY <2>2, RowsGrow
  <2>4. snapshot[date] \in Seq(1..Len(info)) \ {<<>>}
    BY <2>1, <2>3
  <2> QED
    BY <2>1, <2>4 DEF TypeOK
<1>2. PICK i \in 1..Len(files) + 1 : files' = InsertAt(files, i, f)
  BY DEF Rename
<1>3. f.date = date /\ f.rows = snapshot[date]
  OBVIOUS
<1> HIDE DEF f, F
<1>4. /\ \E j \in DOMAIN files' : files'[j] = f
      /\ \A k \in DOMAIN files : \E j \in DOMAIN files' : files'[j] = files[k]
      /\ \A j \in DOMAIN files' : files'[j] = f \/ \E k \in DOMAIN files : files'[j] = files[k]
  BY <1>1, <1>2, InsertKeeps
<1>5. ASSUME NEW m \in ToSet(snapshot[date])
      PROVE  \E j \in DOMAIN files' : files'[j].date = date /\ m \in ToSet(files'[j].rows)
  <2>1. PICK j \in DOMAIN files' : files'[j] = f
    BY <1>4
  <2> QED
    BY <1>3, <2>1
<1>6. ASSUME NEW m, NEW d, Filed(m, d)
      PROVE  \E j \in DOMAIN files' : files'[j].date = d /\ m \in ToSet(files'[j].rows)
  <2>1. PICK k \in DOMAIN files : files[k].date = d /\ m \in ToSet(files[k].rows)
    BY <1>6 DEF Filed
  <2>2. PICK j \in DOMAIN files' : files'[j] = files[k]
    BY <1>4
  <2> QED
    BY <2>1, <2>2
<1>7. \A m \in ToSet(snapshot[date]) :
         \E j \in DOMAIN files' : files'[j].date = date /\ m \in ToSet(files'[j].rows)
  BY <1>5
<1>8. \A m, d : Filed(m, d) =>
         \E j \in DOMAIN files' : files'[j].date = d /\ m \in ToSet(files'[j].rows)
  BY <1>6
<1>9. date' = date
  BY DEF Rename
<1>10. \A j \in DOMAIN files' :
          \/ files'[j].date = date /\ files'[j].rows = snapshot[date]
          \/ \E k \in DOMAIN files : files'[j] = files[k]
  BY <1>3, <1>4
<1> QED
  BY <1>7, <1>8, <1>9, <1>10 DEF Filed, ToSet

\* No step removes a row from the files.
LEMMA FiledStays ==
    ASSUME TypeOK, [Next]_vars, NEW m, NEW d, Filed(m, d)
    PROVE  Filed(m, d)'
<1>1. CASE Rename
  BY <1>1, RenameFiles
<1>2. CASE ~Rename
  <2>1. files' = files
    BY <1>2 DEF Next, vars, Append1, FlushBegins, WriteTmp, SyncDir, FlushRaises,
       FlushEnds, Xack, Restart
  <2> QED
    BY <2>1 DEF Filed, ToSet
<1> QED
  BY <1>1, <1>2

\* Each step keeps the order of snapshot, file and mark.
LEMMA FlushStep ==
    ASSUME TypeOK, FlushInv, [Next]_vars
    PROVE  FlushInv'
<1>e. Empty' = Empty
  BY DEF Empty
<1>n. ToSet(<<>>) = {}
  BY DEF ToSet
<1>1. ASSUME NEW e \in Entities, NEW t \in EventTimes, Append1(e, t) PROVE FlushInv'
  <2>1. pc = "idle" /\ pc' = "idle" /\ UNCHANGED <<snapshot, written, date>>
    BY <1>1 DEF Append1
  <2>2. written = {}
    BY <2>1 DEF TypeOK
  <2> QED
    BY <2>1, <2>2 DEF FlushInv, NothingBehind, WrittenIsFiled
<1>2. CASE FlushBegins
  BY <1>e, <1>2 DEF FlushBegins, FlushInv, NothingBehind, WrittenIsFiled
<1>3. ASSUME NEW d \in Dates, WriteTmp(d) PROVE FlushInv'
  <2>1. NothingBehind'
    BY <1>e, <1>3 DEF WriteTmp, FlushInv, NothingBehind
  <2>2. WrittenIsFiled'
    <3>1. UNCHANGED <<snapshot, written, files>> /\ pc' = "tmp"
      BY <1>3 DEF WriteTmp
    <3> QED
      BY <3>1 DEF FlushInv, WrittenIsFiled, Filed, ToSet
  <2> QED
    BY <2>1, <2>2 DEF FlushInv
<1>4. CASE Rename
  <2>1. NothingBehind'
    BY <1>e, <1>4 DEF Rename, FlushInv, NothingBehind
  <2>2. UNCHANGED <<snapshot, written, date>>
    BY <1>4 DEF Rename
  <2>3. \A x \in written : \A m \in ToSet(snapshot[x]) : Filed(m, x)'
    BY <1>4, RenameFiles DEF FlushInv, WrittenIsFiled
  <2>4. \A m \in ToSet(snapshot[date]) : Filed(m, date)'
    BY <1>4, RenameFiles
  <2> QED
    BY <2>1, <2>2, <2>3, <2>4 DEF FlushInv, WrittenIsFiled, Filed, ToSet
<1>5. CASE SyncDir
  <2>1. NothingBehind'
    BY <1>e, <1>5 DEF SyncDir, FlushInv, NothingBehind
  <2>2. /\ written' = written \cup {date} /\ pc = "renamed" /\ pc' = "flush"
        /\ UNCHANGED <<snapshot, files>>
    BY <1>5 DEF SyncDir
  <2>3. \A x \in written' : \A m \in ToSet(snapshot[x]) : Filed(m, x)
    BY <2>2 DEF FlushInv, WrittenIsFiled
  <2> QED
    BY <2>1, <2>2, <2>3 DEF FlushInv, WrittenIsFiled, Filed, ToSet
<1>6. CASE FlushRaises
  BY <1>e, <1>6 DEF FlushRaises, FlushInv, NothingBehind, WrittenIsFiled
<1>7. CASE FlushEnds
  BY <1>e, <1>7 DEF FlushEnds, FlushInv, NothingBehind, WrittenIsFiled
<1>8. CASE Xack
  <2>1. pc = "ack" /\ pc' = "idle" /\ written' = written /\ written = {}
    BY <1>8 DEF Xack, TypeOK
  <2> QED
    BY <2>1 DEF FlushInv, NothingBehind, WrittenIsFiled
<1>9. CASE Restart
  BY <1>e, <1>9 DEF Restart, FlushInv, NothingBehind, WrittenIsFiled
<1>10. CASE UNCHANGED vars
  BY <1>e, <1>10 DEF vars, FlushInv, NothingBehind, WrittenIsFiled, Filed, ToSet
<1> QED
  BY <1>1, <1>2, <1>3, <1>4, <1>5, <1>6, <1>7, <1>8, <1>9, <1>10 DEF Next

--------------------------------------------------------------------------------
(* The days *)

\* Without late ticks the date of a time is its day, cached or not.
LEMMA CachedDateIsDay ==
    ASSUME NoLateTick, CacheIsDay, NEW t \in EventTimes, t \div Day \in Days
    PROVE  CachedDate(t) = t \div Day
<1>1. DateOf(t) = t \div Day
  BY DEF DateOf, NoLateTick
<1> QED
  BY <1>1 DEF CachedDate, CacheIsDay

\* A known message keeps its day, which is a date.
LEMMA DayStays ==
    ASSUME TypeOK, [Next]_vars, NEW m \in 1..Len(info)
    PROVE  DayOf(m)' = DayOf(m) /\ DayOf(m) \in Dates
<1>1. /\ info \in Seq([ent : Entities, time : EventTimes])
      /\ appended \in Nat /\ appended <= Len(info) /\ Len(info) \in Nat
  BY TypeParts DEF LogType
<1>2. m \in 1..Len(info)
  OBVIOUS
<1>3. info[m].time \in EventTimes
  <2> DEFINE R == [ent : Entities, time : EventTimes]
  <2>1. info \in Seq(R) /\ \A x \in R : x.time \in EventTimes
    BY <1>1
  <2> HIDE DEF R
  <2>2. info[m] \in R
    BY <1>2, <2>1
  <2> QED
    BY <2>1, <2>2
<1>4. DayOf(m) \in Dates
  BY <1>3, LastDayIsLast DEF DayOf, TimeOf, Dates
<1>5. info'[m] = info[m]
  <2>1. CASE info' = info
    BY <2>1
  <2>2. CASE info' # info
    <3>1. PICK e \in Entities, t \in EventTimes : Append1(e, t)
      BY <2>2 DEF Next, vars, FlushBegins, WriteTmp, Rename, SyncDir, FlushRaises,
         FlushEnds, Xack, Restart
    <3>2. info' = Append(info, [ent |-> e, time |-> t])
      BY <2>2, <3>1 DEF Append1
    <3> QED
      BY <1>1, <1>2, <3>2
  <2> QED
    BY <2>1, <2>2
<1> QED
  BY <1>4, <1>5 DEF DayOf, TimeOf

\* Without late ticks a message is appended to the bucket of its day.
LEMMA AppendEffect ==
    ASSUME NoLateTick, TypeOK, CacheIsDay, NEW e \in Entities, NEW t \in EventTimes,
           Append1(e, t), NEW n, n = appended + 1
    PROVE  /\ t \div Day \in Dates
           /\ appended' = n /\ acked' = acked /\ snapshot' = snapshot /\ files' = files
           /\ dateCache' = [dateCache EXCEPT ![t \div Day] = t \div Day]
           /\ buffers' = [buffers EXCEPT ![t \div Day] = Append(@, n)]
           /\ DayOf(n)' = t \div Day
<1> DEFINE d == t \div Day
<1>1. d \in Days /\ d \in Dates /\ CachedDate(t) = d
  <2>1. d \in Days
    BY DatesAreDates DEF TypeOK
  <2> QED
    BY <2>1, CachedDateIsDay DEF Days, Dates
<1>2. /\ appended' = n /\ acked' = acked /\ snapshot' = snapshot /\ files' = files
      /\ dateCache' = [dateCache EXCEPT ![d] = d]
      /\ buffers' = [buffers EXCEPT ![d] = Append(@, n)]
  BY <1>1 DEF Append1
<1>3. info'[n] = [ent |-> e, time |-> t]
  <2>1. info \in Seq([ent : Entities, time : EventTimes])
        /\ appended <= Len(info) /\ Len(info) \in Nat /\ appended \in Nat
    BY TypeParts DEF LogType
  <2>2. CASE n <= Len(info)
    BY <2>2 DEF Append1
  <2>3. CASE ~(n <= Len(info))
    <3>1. info' = Append(info, [ent |-> e, time |-> t]) /\ Len(info) = appended
      BY <2>1, <2>3 DEF Append1
    <3> QED
      BY <2>1, <3>1
  <2> QED
    BY <2>2, <2>3
<1>4. DayOf(n)' = d
  BY <1>3 DEF DayOf, TimeOf
<1> QED
  BY <1>1, <1>2, <1>4

\* Each step keeps every message accounted for.
LEMMA DayStep ==
    ASSUME NoLateTick, TypeOK, FlushInv, DayInv, [Next]_vars
    PROVE  DayInv'
<1>s. /\ appended \in Nat /\ acked \in Nat /\ acked <= appended
      /\ buffers \in [Dates -> Seq(1..appended)]
      /\ snapshot \in [Dates -> Seq(1..appended)]
  BY TypeParts DEF LogType, WriterType, TypeRows
<1>n. ToSet(<<>>) = {} /\ \A d \in Dates : Empty[d] = <<>>
  BY DEF ToSet, Empty
<1>d. \A m \in 1..appended : DayOf(m)' = DayOf(m) /\ DayOf(m) \in Dates
  <2>1. 1..appended \subseteq 1..Len(info)
    BY TypeParts DEF LogType
  <2> QED
    BY <2>1, DayStays
<1>f. \A m, d : Filed(m, d) => Filed(m, d)'
  BY FiledStays
<1>a. ASSUME NEW m \in 1..acked
      PROVE  Filed(m, DayOf(m)) /\ m \in 1..appended
  <2>1. Filed(m, DayOf(m))
    BY DEF DayInv, AckedIsReadable, Filed, DayOf
  <2>2. m \in 1..appended
    BY <1>s
  <2> QED
    BY <2>1, <2>2
<1>k. ASSUME NEW m \in 1..acked PROVE Filed(m, DayOf(m))'
  <2>1. PICK d : d = DayOf(m)
    OBVIOUS
  <2>2. Filed(m, d)
    BY <1>a, <2>1
  <2>3. Filed(m, d)'
    BY <1>f, <2>2
  <2>4. DayOf(m)' = d
    BY <1>a, <1>d, <2>1
  <2> QED
    BY <2>3, <2>4 DEF Filed
<1>r. ASSUME \A m \in 1..acked' : Filed(m, DayOf(m))' PROVE AckedIsReadable'
  BY <1>r DEF AckedIsReadable, Filed, DayOf
<1>1. ASSUME NEW e \in Entities, NEW t \in EventTimes, Append1(e, t) PROVE DayInv'
  <2> DEFINE d == t \div Day
  <2>0. PICK n \in Nat : n = appended + 1
    BY <1>s
  <2>1. d \in Days /\ d \in Dates
    BY <1>1, AppendEffect DEF DayInv, Days, Dates
  <2>2. /\ appended' = n /\ acked' = acked /\ snapshot' = snapshot /\ files' = files
        /\ dateCache' = [dateCache EXCEPT ![d] = d]
        /\ buffers' = [buffers EXCEPT ![d] = Append(@, n)]
    BY <1>1, <2>0, AppendEffect DEF DayInv
  <2>4. DayOf(n)' = d
    BY <1>1, <2>0, AppendEffect DEF DayInv
  <2>5. CacheIsDay'
    BY <2>1, <2>2 DEF DayInv, CacheIsDay, TypeOK, Days
  <2>6. /\ n \in ToSet(buffers'[d])
        /\ \A x \in Dates : \A m \in ToSet(buffers[x]) : m \in ToSet(buffers'[x])
    <3>1. /\ buffers[d] \in Seq(1..appended)
          /\ buffers'[d] = Append(buffers[d], n)
          /\ \A x \in Dates : x # d => buffers'[x] = buffers[x]
      BY <1>s, <2>1, <2>2
    <3>2. /\ Len(buffers[d]) \in Nat /\ Len(buffers'[d]) = Len(buffers[d]) + 1
          /\ DOMAIN buffers'[d] = 1..(Len(buffers[d]) + 1)
          /\ DOMAIN buffers[d] = 1..Len(buffers[d])
          /\ buffers'[d][Len(buffers[d]) + 1] = n
          /\ \A j \in 1..Len(buffers[d]) : buffers'[d][j] = buffers[d][j]
      BY <1>s, <3>1
    <3>3. n \in ToSet(buffers'[d])
      BY <3>2 DEF ToSet
    <3>4. \A m \in ToSet(buffers[d]) : m \in ToSet(buffers'[d])
      BY <3>2 DEF ToSet
    <3> QED
      BY <3>1, <3>3, <3>4
  <2>7. Accounted'
    <3>1. ASSUME NEW m \in 1..appended
          PROVE  (m \in ToSet(buffers[DayOf(m)]) \/ m \in ToSet(snapshot[DayOf(m)])
                     \/ Filed(m, DayOf(m)))'
      <4>1. DayOf(m)' = DayOf(m) /\ DayOf(m) \in Dates
        BY <1>d
      <4>2. CASE Filed(m, DayOf(m))
        <5>1. Filed(m, DayOf(m))'
          BY <1>f, <4>1, <4>2 DEF Filed
        <5> QED
          BY <5>1
      <4>3. CASE m \in ToSet(snapshot[DayOf(m)])
        BY <2>2, <4>1, <4>3 DEF ToSet
      <4>4. CASE m \in ToSet(buffers[DayOf(m)])
        <5>1. m \in ToSet(buffers'[DayOf(m)])
          BY <2>6, <4>1, <4>4
        <5> QED
          BY <4>1, <5>1 DEF ToSet
      <4> QED
        BY <4>2, <4>3, <4>4 DEF DayInv, Accounted
    <3>2. (n \in ToSet(buffers[DayOf(n)]))'
      BY <2>2, <2>4, <2>6 DEF ToSet
    <3>3. \A m \in 1..appended' : m \in 1..appended \/ m = n
      BY <1>s, <2>0, <2>2
    <3> QED
      BY <3>1, <3>2, <3>3 DEF Accounted
  <2> QED
    BY <1>k, <1>r, <2>2, <2>5, <2>7 DEF DayInv
<1>2. ASSUME UNCHANGED <<info, acked, appended, dateCache>>,
             \A m \in 1..appended : DayOf(m) \in Dates =>
                 \/ m \in ToSet(buffers'[DayOf(m)])
                 \/ m \in ToSet(snapshot'[DayOf(m)])
                 \/ Filed(m, DayOf(m))
      PROVE  DayInv'
  <2>1. CacheIsDay'
    BY <1>2 DEF DayInv, CacheIsDay, Days
  <2>2. ASSUME NEW m \in 1..appended
        PROVE  (m \in ToSet(buffers[DayOf(m)]) \/ m \in ToSet(snapshot[DayOf(m)])
                   \/ Filed(m, DayOf(m)))'
    <3>1. DayOf(m)' = DayOf(m) /\ DayOf(m) \in Dates
      BY <1>d
    <3>2. Filed(m, DayOf(m)) => Filed(m, DayOf(m))'
      BY <1>f, <3>1 DEF Filed
    <3>3. (m \in ToSet(buffers'[DayOf(m)])) = (m \in ToSet(buffers[DayOf(m)]))'
      BY <3>1 DEF ToSet
    <3>4. (m \in ToSet(snapshot'[DayOf(m)])) = (m \in ToSet(snapshot[DayOf(m)]))'
      BY <3>1 DEF ToSet
    <3> QED
      BY <1>2, <3>1, <3>2, <3>3, <3>4
  <2>3. Accounted'
    BY <1>2, <2>2 DEF Accounted
  <2> QED
    BY <1>2, <1>k, <1>r, <2>1, <2>3 DEF DayInv
<1>c. \A m \in 1..appended : \/ m \in ToSet(buffers[DayOf(m)])
                             \/ m \in ToSet(snapshot[DayOf(m)])
                             \/ Filed(m, DayOf(m))
  BY DEF DayInv, Accounted
<1>3. CASE FlushBegins
  <2>1. snapshot = Empty /\ snapshot' = buffers
        /\ UNCHANGED <<info, acked, appended, dateCache>>
    BY <1>3 DEF FlushBegins, TypeOK
  <2> QED
    BY <1>2, <1>c, <1>n, <2>1
<1>4. ASSUME NEW x \in Dates, WriteTmp(x) PROVE DayInv'
  <2>1. UNCHANGED <<info, acked, appended, dateCache, buffers, snapshot>>
    BY <1>4 DEF WriteTmp
  <2> QED
    BY <1>2, <1>c, <2>1
<1>5. CASE Rename
  <2>1. UNCHANGED <<info, acked, appended, dateCache, buffers, snapshot>>
    BY <1>5 DEF Rename
  <2> QED
    BY <1>2, <1>c, <2>1
<1>6. CASE SyncDir
  <2>1. UNCHANGED <<info, acked, appended, dateCache, buffers, snapshot>>
    BY <1>6 DEF SyncDir
  <2> QED
    BY <1>2, <1>c, <2>1
<1>7. CASE FlushRaises
  <2>1. /\ buffers' = [x \in Dates |-> IF x \in written THEN <<>> ELSE snapshot[x]]
        /\ UNCHANGED <<info, acked, appended, dateCache>> /\ buffers = Empty
    BY <1>7 DEF FlushRaises, FlushInv, NothingBehind
  <2>2. \A x \in written : \A m \in ToSet(snapshot[x]) : Filed(m, x)
    BY DEF FlushInv, WrittenIsFiled
  <2>3. ASSUME NEW m \in 1..appended, DayOf(m) \in Dates
        PROVE  m \in ToSet(buffers'[DayOf(m)]) \/ Filed(m, DayOf(m))
    <3>1. m \in ToSet(snapshot[DayOf(m)]) \/ Filed(m, DayOf(m))
      BY <1>c, <1>n, <2>1, <2>3
    <3>2. DayOf(m) \notin written => buffers'[DayOf(m)] = snapshot[DayOf(m)]
      BY <2>1, <2>3
    <3> QED
      BY <2>2, <3>1, <3>2
  <2> QED
    BY <1>2, <2>1, <2>3
<1>8. CASE FlushEnds
  <2>1. /\ UNCHANGED <<info, acked, appended, dateCache, buffers>>
        /\ \A x \in Dates : snapshot[x] = <<>> \/ x \in written
    BY <1>8 DEF FlushEnds, Unwritten
  <2>2. \A x \in written : \A m \in ToSet(snapshot[x]) : Filed(m, x)
    BY DEF FlushInv, WrittenIsFiled
  <2>3. ASSUME NEW m \in 1..appended, DayOf(m) \in Dates
        PROVE  m \in ToSet(buffers'[DayOf(m)]) \/ Filed(m, DayOf(m))
    BY <1>c, <1>n, <2>1, <2>2, <2>3
  <2> QED
    BY <1>2, <2>1, <2>3
<1>9. CASE Xack
  <2>1. /\ UNCHANGED <<info, appended, dateCache, buffers, snapshot>>
        /\ acked' = appended /\ buffers = Empty /\ snapshot = Empty
    BY <1>9 DEF Xack, FlushInv, NothingBehind, TypeOK
  <2>2. \A m \in 1..appended : Filed(m, DayOf(m))
    BY <1>c, <1>d, <1>n, <2>1
  <2>3. \A m \in 1..appended : Filed(m, DayOf(m))'
    BY <1>d, <1>f, <2>2 DEF Filed
  <2>4. CacheIsDay'
    BY <2>1 DEF DayInv, CacheIsDay, Days
  <2> QED
    BY <1>r, <2>1, <2>3, <2>4 DEF DayInv, Accounted
<1>10. CASE Restart
  <2>1. acked' = acked /\ appended' = acked /\ dateCache' = [x \in Days |-> NoDate]
    BY <1>10 DEF Restart
  <2> QED
    BY <1>k, <1>r, <2>1 DEF DayInv, Accounted, CacheIsDay, Days
<1>11. CASE UNCHANGED vars
  BY <1>2, <1>c, <1>11 DEF vars
<1> QED
  BY <1>1, <1>3, <1>4, <1>5, <1>6, <1>7, <1>8, <1>9, <1>10, <1>11 DEF Next

\* With or without late ticks: a bucket is marked as written only when its file is in
\* place, and flush() leaves nothing in the buffers that its XACK could skip.
THEOREM FlushIsOrdered == Spec => []FlushInv
<1>1. Init => FlushInv
  BY DEF Init, FlushInv, NothingBehind, WrittenIsFiled
<1>2. TypeOK /\ FlushInv /\ [Next]_vars => FlushInv'
  BY FlushStep
<1> QED
  BY <1>1, <1>2, TypeCorrect, PTL DEF Spec

LEMMA DayInvariant == ASSUME NoLateTick PROVE Spec => []DayInv
<1>1. Init => DayInv
  BY DEF Init, DayInv, CacheIsDay, Accounted, AckedIsReadable
<1>2. TypeOK /\ FlushInv /\ DayInv /\ [Next]_vars => DayInv'
  BY DayStep
<1> QED
  BY <1>1, <1>2, TypeCorrect, FlushIsOrdered, PTL DEF Spec

\* An acknowledged message is in a file of its own day, where the pruned reads look,
\* whatever crashes and failed writes split, restore and repeat the flushes; an event in
\* the last half microsecond of a day is excluded, since its file has another date.
THEOREM AcksAreReadable == ASSUME NoLateTick PROVE Spec => []AckedIsReadable
<1>1. DayInv => AckedIsReadable
  BY DEF DayInv
<1> QED
  BY <1>1, DayInvariant, PTL

--------------------------------------------------------------------------------
(* Orders on naturals and on rows *)

\* A nonempty set of naturals has a least element.
LEMMA LeastNat ==
    ASSUME NEW T, T \subseteq Nat, T # {}
    PROVE  \E x \in T : \A y \in T : x <= y
<1> DEFINE R == OpToRel(<, Nat)
<1>1. IsWellFoundedOn(R, Nat)
  BY NatLessThanWellFounded, Zenon
<1>2. \A x, y \in Nat : y < x => <<y, x>> \in R
  BY DEF OpToRel
<1> HIDE DEF R
<1>3. PICK x \in T : \A y \in T : ~(<<y, x>> \in R)
  BY <1>1, WFMin
<1>4. \A y \in T : x \in Nat /\ y \in Nat /\ (y < x \/ x <= y)
  OBVIOUS
<1> QED
  BY <1>2, <1>3, <1>4

\* One that is bounded has a greatest element.
LEMMA GreatestNat ==
    ASSUME NEW n \in Nat, NEW T, T \subseteq 0..n, T # {}
    PROVE  \E x \in T : \A y \in T : y <= x
<1> DEFINE U == {n - y : y \in T}
<1>1. U \subseteq Nat /\ U # {}
  <2>1. \A y \in T : n - y \in Nat
    OBVIOUS
  <2> QED
    BY <2>1
<1>2. PICK u \in U : \A v \in U : u <= v
  BY <1>1, LeastNat
<1>3. PICK x \in T : u = n - x
  BY <1>2
<1>4. ASSUME NEW y \in T PROVE y <= x
  <2>1. n - y \in U /\ n - x <= n - y
    BY <1>2, <1>3
  <2> QED
    BY <2>1
<1> QED
  BY <1>4

Known == 1..Len(info)

\* What is known of a message.
LEMMA InfoOf ==
    ASSUME TypeOK, NEW m \in Known
    PROVE  /\ m \in Nat /\ m # NoRow /\ EntOf(m) \in Entities
           /\ TimeOf(m) \in EventTimes /\ TimeOf(m) \in Nat
           /\ info[m] = [ent |-> EntOf(m), time |-> TimeOf(m)]
<1> DEFINE R == [ent : Entities, time : EventTimes]
<1>1. info \in Seq(R) /\ Len(info) \in Nat
  BY TypeParts DEF LogType
<1>2. \A x \in R : x.ent \in Entities /\ x.time \in EventTimes
                   /\ x = [ent |-> x.ent, time |-> x.time]
  OBVIOUS
<1> HIDE DEF R
<1>3. info[m] \in R
  BY <1>1 DEF Known
<1>4. m \in Nat /\ m # NoRow
  BY <1>1 DEF Known, NoRow
<1> QED
  BY <1>2, <1>3, <1>4, ConstantsAssumption DEF EntOf, TimeOf

\* Rows are in a strict total order: event time, then message id.
LEMMA BeforeIsTotal ==
    ASSUME TypeOK, NEW m \in Known, NEW n \in Known
    PROVE  /\ ~Before(m, m)
           /\ m = n \/ Before(m, n) \/ Before(n, m)
           /\ Before(m, n) => ~Before(n, m) /\ TimeOf(m) <= TimeOf(n)
           /\ \A k \in Known : Before(m, n) /\ Before(n, k) => Before(m, k)
<1>1. \A k \in Known : k \in Nat /\ TimeOf(k) \in Nat
  BY InfoOf
<1> QED
  BY <1>1 DEF Before

\* What Sorted returns: the rows, each once, in the order of Before.
LEMMA RowsAreSorted ==
    ASSUME TypeOK, NEW S, S \subseteq Known
    PROVE  LET slice == Sorted(S)
           IN  /\ Cardinality(S) \in Nat /\ DOMAIN slice = 1..Cardinality(S)
               /\ (S = {} <=> Cardinality(S) = 0)
               /\ \A i \in 1..Cardinality(S) : slice[i] \in S
               /\ \A m \in S : \E i \in 1..Cardinality(S) : slice[i] = m
               /\ \A i, j \in 1..Cardinality(S) : i < j => Before(slice[i], slice[j])
<1> DEFINE n == Cardinality(S)
           Below(m) == {k \in S : Before(k, m)}
           Rank(m) == Cardinality(Below(m))
           rank == [m \in S |-> Rank(m)]
           slice == Sorted(S)
<1>0. S \subseteq Known
  OBVIOUS
<1>1. IsFiniteSet(S) /\ n \in Nat /\ (S = {} <=> n = 0)
  <2>1. Len(info) \in Nat
    BY TypeParts DEF LogType
  <2>2. IsFiniteSet(Known)
    BY <2>1, FS_Interval DEF Known
  <2>3. IsFiniteSet(S)
    BY <1>0, <2>2, FS_Subset
  <2> QED
    BY <2>3, FS_CardinalityType, FS_EmptySet
<1>2. DOMAIN slice = 1..n /\ \A i \in 1..n : slice[i] = CHOOSE m \in S : Rank(m) = i - 1
  BY DEF Sorted
<1> HIDE DEF n, slice
<1>3. ASSUME NEW m \in S PROVE IsFiniteSet(Below(m)) /\ Rank(m) \in 0..(n - 1)
  <2>1. Below(m) \subseteq S \ {m}
    BY <1>0, BeforeIsTotal
  <2>2. IsFiniteSet(S \ {m}) /\ Cardinality(S \ {m}) = n - 1
    BY <1>1, FS_RemoveElement DEF n
  <2>3. IsFiniteSet(Below(m)) /\ Cardinality(Below(m)) <= Cardinality(S \ {m})
    BY <2>1, <2>2, FS_Subset
  <2>4. Cardinality(Below(m)) \in Nat
    BY <2>3, FS_CardinalityType
  <2> QED
    BY <1>1, <2>2, <2>3, <2>4
<1>4. ASSUME NEW m \in S, NEW k \in S, Before(m, k) PROVE Rank(m) < Rank(k)
  <2>1. Below(m) \subseteq Below(k)
    BY <1>0, <1>4, BeforeIsTotal
  <2>2. m \in Below(k) /\ m \notin Below(m)
    BY <1>0, <1>4, BeforeIsTotal
  <2>3. IsFiniteSet(Below(m)) /\ IsFiniteSet(Below(k))
    BY <1>3
  <2>4. Cardinality(Below(m)) <= Cardinality(Below(k))
        /\ (Cardinality(Below(m)) = Cardinality(Below(k)) => Below(m) = Below(k))
    BY <2>1, <2>3, FS_Subset
  <2>5. Cardinality(Below(m)) # Cardinality(Below(k))
    BY <2>2, <2>4
  <2>6. Cardinality(Below(m)) \in Nat /\ Cardinality(Below(k)) \in Nat
    BY <2>3, FS_CardinalityType
  <2> QED
    BY <2>4, <2>5, <2>6
<1> HIDE DEF Rank, Below
<1>5. \A m, k \in S : Rank(m) = Rank(k) => m = k
  <2> SUFFICES ASSUME NEW m \in S, NEW k \in S, Rank(m) = Rank(k) PROVE m = k
    OBVIOUS
  <2>1. Rank(m) \in Int
    BY <1>1, <1>3
  <2>2. ~Before(m, k) /\ ~Before(k, m)
    BY <1>4, <2>1
  <2> QED
    BY <1>0, <2>2, BeforeIsTotal
<1>6. \A i \in 1..n : \E m \in S : Rank(m) = i - 1
  <2>1. rank \in Injection(S, 0..(n - 1))
    <3>1. rank \in [S -> 0..(n - 1)]
      BY <1>3
    <3> QED
      BY <1>5, <3>1 DEF Injection, IsInjective
  <2>2. IsFiniteSet(0..(n - 1)) /\ Cardinality(0..(n - 1)) = n
    <3>1. n - 1 \in Int
      BY <1>1
    <3>2. /\ IsFiniteSet(0..(n - 1))
          /\ Cardinality(0..(n - 1)) = IF 0 > n - 1 THEN 0 ELSE n - 1 - 0 + 1
      BY <3>1, FS_Interval
    <3> QED
      BY <1>1, <3>2
  <2>3. rank \in Surjection(S, 0..(n - 1))
    BY <1>1, <2>1, <2>2, FS_Injection DEF n
  <2>4. \A v \in 0..(n - 1) : \E m \in S : rank[m] = v
    BY <2>3 DEF Surjection
  <2>5. \A i \in 1..n : i - 1 \in 0..(n - 1)
    BY <1>1
  <2> QED
    BY <2>4, <2>5
<1>7. \A i \in 1..n : slice[i] \in S /\ Rank(slice[i]) = i - 1
  BY <1>2, <1>6
<1>8. ASSUME NEW m \in S PROVE \E i \in 1..n : slice[i] = m
  <2> DEFINE i == Rank(m) + 1
  <2>1. i \in 1..n /\ i - 1 = Rank(m)
    BY <1>1, <1>3
  <2>2. slice[i] \in S /\ Rank(slice[i]) = i - 1
    BY <1>7, <2>1
  <2>3. slice[i] = m
    BY <1>5, <2>1, <2>2
  <2> QED
    BY <2>1, <2>3
<1>9. ASSUME NEW i \in 1..n, NEW j \in 1..n, i < j PROVE Before(slice[i], slice[j])
  <2>1. slice[i] \in S /\ slice[j] \in S /\ Rank(slice[i]) = i - 1 /\ Rank(slice[j]) = j - 1
    BY <1>7
  <2>2. slice[i] # slice[j]
    BY <1>1, <1>9, <2>1
  <2>3. ~Before(slice[j], slice[i])
    <3> SUFFICES ASSUME Before(slice[j], slice[i]) PROVE FALSE
      OBVIOUS
    <3>1. Rank(slice[j]) < Rank(slice[i])
      BY <1>4, <2>1
    <3> QED
      BY <1>1, <1>9, <2>1, <3>1
  <2> QED
    BY <1>0, <2>1, <2>2, <2>3, BeforeIsTotal
<1> QED
  BY <1>1, <1>2, <1>7, <1>8, <1>9 DEF n, slice

\* A nonempty set of rows has a last one.
LEMMA LastRow ==
    ASSUME TypeOK, NEW rows, rows \subseteq Known, rows # {}
    PROVE  \E m \in rows : \A n \in rows : n = m \/ Before(n, m)
<1> DEFINE n == Cardinality(rows)
           m == Sorted(rows)[n]
<1>1. /\ n \in Nat /\ (rows = {} <=> n = 0)
      /\ \A i \in 1..n : Sorted(rows)[i] \in rows
      /\ \A k \in rows : \E i \in 1..n : Sorted(rows)[i] = k
      /\ \A i, j \in 1..n : i < j => Before(Sorted(rows)[i], Sorted(rows)[j])
  BY RowsAreSorted
<1> HIDE DEF n
<1>2. n \in 1..n /\ \A i \in 1..n : i = n \/ i < n
  BY <1>1
<1>3. m \in rows /\ \A k \in rows : k = m \/ Before(k, m)
  BY <1>1, <1>2
<1> QED
  BY <1>3

\* The as-of position: the last of the rows that are not after the time.
LEMMA AsofPosition ==
    ASSUME TypeOK, NEW S, S \subseteq Known, NEW t \in Nat
    PROVE  LET slice == Sorted(S)
               C == {m \in S : TimeOf(m) <= t}
               pos == Cardinality({i \in DOMAIN slice : TimeOf(slice[i]) <= t})
           IN  /\ pos = 0 <=> C = {}
               /\ pos # 0 => /\ slice[pos] \in C
                             /\ \A m \in C : m = slice[pos] \/ Before(m, slice[pos])
<1> DEFINE n == Cardinality(S)
           slice == Sorted(S)
           C == {m \in S : TimeOf(m) <= t}
           P == {i \in DOMAIN slice : TimeOf(slice[i]) <= t}
           pos == Cardinality(P)
<1>1. /\ n \in Nat /\ DOMAIN slice = 1..n
      /\ \A i \in 1..n : slice[i] \in S
      /\ \A k \in S : \E i \in 1..n : slice[i] = k
      /\ \A i, j \in 1..n : i < j => Before(slice[i], slice[j])
  BY RowsAreSorted
<1> HIDE DEF n, slice
<1>2. \A m \in S : m \in Known /\ TimeOf(m) \in Nat
  BY InfoOf
<1> DEFINE Goal == /\ pos = 0 <=> C = {}
                   /\ pos # 0 => /\ slice[pos] \in C
                                 /\ \A m \in C : m = slice[pos] \/ Before(m, slice[pos])
<1>3. ASSUME P = {} PROVE Goal
  <2>1. C = {}
    BY <1>1, <1>3
  <2> QED
    <3>1. pos = 0
      <4> HIDE DEF P
      <4> QED
        BY <1>3, FS_EmptySet
    <3> HIDE DEF pos, C
    <3> QED
      BY <2>1, <3>1
<1>4. ASSUME P # {} PROVE Goal
  <2>1. P \subseteq 0..n
    BY <1>1
  <2>2. PICK k \in P : \A i \in P : i <= k
    BY <1>1, <1>4, <2>1, GreatestNat
  <2>3. k \in 1..n /\ TimeOf(slice[k]) <= t
    BY <1>1, <2>2
  <2>4. ASSUME NEW i \in 1..k PROVE i \in P
    <3>1. i \in 1..n /\ (i = k \/ i < k)
      BY <1>1, <2>3
    <3>2. slice[i] \in S /\ slice[k] \in S
      BY <1>1, <2>3, <3>1
    <3>3. CASE i = k
      BY <2>2, <3>3
    <3>4. CASE i < k
      <4>1. TimeOf(slice[i]) <= TimeOf(slice[k])
        BY <1>1, <1>2, <2>3, <3>1, <3>2, <3>4, BeforeIsTotal
      <4> QED
        BY <1>1, <1>2, <2>3, <3>1, <3>2, <4>1
    <3> QED
      BY <3>1, <3>3, <3>4
  <2>5. P = 1..k
    BY <1>1, <2>2, <2>3, <2>4
  <2>6. pos = k
    <3>1. k \in Int /\ 1 \in Int /\ k >= 1
      BY <1>1, <2>3
    <3> HIDE DEF P
    <3> QED
      BY <2>5, <3>1, FS_Interval
  <2>7. slice[k] \in C
    BY <1>1, <2>3
  <2>8. ASSUME NEW m \in C PROVE m = slice[k] \/ Before(m, slice[k])
    <3>1. PICK i \in 1..n : slice[i] = m
      BY <1>1
    <3>2. i \in P
      BY <1>1, <3>1
    <3>3. i = k \/ i < k
      BY <1>1, <2>2, <2>3, <3>1, <3>2
    <3> QED
      BY <1>1, <2>3, <3>1, <3>3
  <2>9. k # 0
    BY <2>3
  <2> HIDE DEF pos, C
  <2> QED
    BY <2>6, <2>7, <2>8, <2>9
<1> QED
  BY <1>3, <1>4 DEF n, slice

\* What AsofRow returns for one query.
LEMMA AsofRowIsLast ==
    ASSUME TypeOK, NEW features, features \subseteq Known, NEW q \in Queries
    PROVE  LET C == {m \in features : EntOf(m) = q.ent /\ TimeOf(m) <= q.asof}
               r == AsofRow(features, q)
           IN  /\ C = {} => r = NoRow
               /\ C # {} => \E m \in C :
                     /\ \A n \in C : n = m \/ Before(n, m)
                     /\ r = IF TimeOf(m) < q.asof - LookbackTicks THEN NoRow ELSE m
<1> DEFINE S == {m \in features : EntOf(m) = q.ent}
           C == {m \in features : EntOf(m) = q.ent /\ TimeOf(m) <= q.asof}
           D == {m \in S : TimeOf(m) <= q.asof}
           slice == Sorted(S)
           pos == Cardinality({i \in DOMAIN slice : TimeOf(slice[i]) <= q.asof})
<1>1. S \subseteq Known /\ q.asof \in Nat /\ C = D
  BY ConstantsAssumption DEF Queries
<1>2. /\ pos = 0 <=> D = {}
      /\ pos # 0 => /\ slice[pos] \in D
                    /\ \A m \in D : m = slice[pos] \/ Before(m, slice[pos])
  <2> HIDE DEF S
  <2> QED
    BY <1>1, AsofPosition
<1>3. AsofRow(features, q) = IF pos = 0 \/ TimeOf(slice[pos]) < q.asof - LookbackTicks
                             THEN NoRow ELSE slice[pos]
  BY DEF AsofRow, Slice
<1> HIDE DEF S, C, D, slice, pos
<1>4. CASE C = {}
  BY <1>1, <1>2, <1>3, <1>4 DEF C
<1>5. CASE C # {}
  <2>1. slice[pos] \in C /\ \A n \in C : n = slice[pos] \/ Before(n, slice[pos])
    BY <1>1, <1>2, <1>5
  <2>2. AsofRow(features, q) = IF TimeOf(slice[pos]) < q.asof - LookbackTicks
                               THEN NoRow ELSE slice[pos]
    BY <1>1, <1>2, <1>3, <1>5
  <2> QED
    BY <1>5, <2>1, <2>2 DEF C
<1> QED
  BY <1>4, <1>5

--------------------------------------------------------------------------------
(* The window of a read *)

\* Rows are only in files of their day.
FilesOfDay == \A i \in DOMAIN files : \A m \in ToSet(files[i].rows) : files[i].date = DayOf(m)

\* The days of two times are in their order.
LEMMA DayIsMonotone ==
    ASSUME NEW a \in Int, NEW b \in Int, a <= b
    PROVE  a \div Day \in Int /\ b \div Day \in Int /\ a \div Day <= b \div Day
<1> DEFINE x == a \div Day
           y == b \div Day
<1>1. Day \in Int /\ Day >= 1
  BY ConstantsAssumption
<1>2. x \in Int /\ y \in Int /\ x * Day <= a /\ b < y * Day + Day
  BY <1>1
<1> HIDE DEF x, y
<1>3. ASSUME y < x PROVE FALSE
  <2>1. PICK d \in Nat : x = y + 1 + d
    <3>1. x - y - 1 \in Nat /\ x = y + 1 + (x - y - 1)
      BY <1>2, <1>3
    <3> QED
      BY <3>1
  <2>2. x * Day = y * Day + Day + d * Day
    BY <1>1, <1>2, <2>1
  <2>3. d * Day \in Int /\ d * Day >= 0
    BY <1>1, <2>1
  <2>4. x * Day \in Int /\ y * Day \in Int
    BY <1>1, <1>2
  <2> QED
    BY <1>1, <1>2, <2>2, <2>3, <2>4
<1>4. x <= y
  BY <1>2, <1>3
<1> QED
  BY <1>2, <1>4 DEF x, y

\* The dates of a window include the day of every time in it that is no late tick.
LEMMA DatesOfWindow ==
    ASSUME NEW from \in Int, NEW to \in Int, NEW t \in Int, t % Day # Day - 1,
           from <= t, t <= to
    PROVE  DateOf(from) <= t \div Day /\ t \div Day <= DateOf(to)
<1> DEFINE x == from \div Day
           y == t \div Day
           z == to \div Day
<1>1. Day \in Int /\ Day >= 1
  BY ConstantsAssumption
<1>2. x \in Int /\ y \in Int /\ z \in Int /\ x <= y /\ y <= z
  BY DayIsMonotone
<1>3. y <= DateOf(to)
  <2>1. DateOf(to) = z \/ DateOf(to) = z + 1
    BY DEF DateOf
  <2> HIDE DEF y, z
  <2> QED
    BY <1>2, <2>1
<1>4. DateOf(from) <= y
  <2>1. CASE from % Day # Day - 1
    BY <1>2, <2>1 DEF DateOf
  <2>2. CASE from % Day = Day - 1
    <3>1. from = x * Day + (from % Day) /\ t = y * Day + (t % Day)
      BY <1>1
    <3>2. t % Day \in 0..(Day - 1) /\ t % Day < Day - 1
      BY <1>1
    <3> DEFINE u == x * Day
               v == t % Day
    <3>3. ASSUME x = y PROVE FALSE
      <4>1. from = u + Day - 1 /\ t = u + v
        BY <1>1, <2>2, <3>1, <3>3
      <4>2. u \in Int /\ v < Day - 1 /\ v \in Int
        BY <1>1, <1>2, <3>2
      <4> HIDE DEF u, v
      <4> QED
        BY <1>1, <4>1, <4>2
    <3>4. DateOf(from) = x + 1
      BY <2>2 DEF DateOf
    <3> HIDE DEF x, y
    <3> QED
      BY <1>2, <3>3, <3>4
  <2> QED
    BY <2>1, <2>2
<1> QED
  BY <1>3, <1>4

\* Where the rows of a window are.
LEMMA PlacesOfLoad ==
    ASSUME NEW from, NEW to, NEW p
    PROVE  p \in Load(from, to) <=>
              \E i \in DOMAIN files : \E k \in DOMAIN files[i].rows :
                 /\ p = <<i, k>>
                 /\ DateOf(from) <= files[i].date /\ files[i].date <= DateOf(to)
                 /\ from <= TimeOf(files[i].rows[k]) /\ TimeOf(files[i].rows[k]) <= to
<1> DEFINE listed == {i \in DOMAIN files : /\ DateOf(from) <= files[i].date
                                           /\ files[i].date <= DateOf(to)}
           U == UNION {{i} \X DOMAIN files[i].rows : i \in listed}
<1>1. p \in U <=> \E i \in listed : \E k \in DOMAIN files[i].rows : p = <<i, k>>
  OBVIOUS
<1>2. p \in Load(from, to) <=> p \in U /\ from <= TimeOf(RowAt(p)) /\ TimeOf(RowAt(p)) <= to
  BY DEF Load
<1>3. \A i, k : RowAt(<<i, k>>) = files[i].rows[k]
  BY DEF RowAt
<1> HIDE DEF U
<1>4. ASSUME p \in Load(from, to)
      PROVE  \E i \in DOMAIN files : \E k \in DOMAIN files[i].rows :
                 /\ p = <<i, k>>
                 /\ DateOf(from) <= files[i].date /\ files[i].date <= DateOf(to)
                 /\ from <= TimeOf(files[i].rows[k]) /\ TimeOf(files[i].rows[k]) <= to
  <2>1. PICK i \in listed : \E k \in DOMAIN files[i].rows : p = <<i, k>>
    BY <1>1, <1>2, <1>4
  <2>2. PICK k \in DOMAIN files[i].rows : p = <<i, k>>
    BY <2>1
  <2>3. from <= TimeOf(RowAt(p)) /\ TimeOf(RowAt(p)) <= to /\ RowAt(p) = files[i].rows[k]
    BY <1>2, <1>3, <1>4, <2>2
  <2> QED
    BY <2>1, <2>2, <2>3
<1>5. ASSUME NEW i \in DOMAIN files, NEW k \in DOMAIN files[i].rows, p = <<i, k>>,
             DateOf(from) <= files[i].date, files[i].date <= DateOf(to),
             from <= TimeOf(files[i].rows[k]), TimeOf(files[i].rows[k]) <= to
      PROVE  p \in Load(from, to)
  <2>1. p \in U
    BY <1>1, <1>5
  <2>2. RowAt(p) = files[i].rows[k]
    BY <1>3, <1>5
  <2> QED
    BY <1>2, <1>5, <2>1, <2>2
<1> QED
  BY <1>4, <1>5

\* Durable, place by place.
LEMMA DurableRows ==
    ASSUME TypeOK
    PROVE  /\ \A i \in DOMAIN files : \A k \in DOMAIN files[i].rows :
                 /\ i \in 1..Len(files) /\ Len(files) \in Nat
                 /\ k \in 1..Len(files[i].rows) /\ Len(files[i].rows) \in Nat
                 /\ files[i].rows[k] \in Durable
                 /\ files[i].rows[k] \in ToSet(files[i].rows)
                 /\ files[i].rows[k] \in Known
           /\ \A m \in Durable : \E i \in DOMAIN files : \E k \in DOMAIN files[i].rows :
                 files[i].rows[k] = m
<1> DEFINE F == [date : Dates, rows : Seq(Known) \ {<<>>}]
<1>1. files \in Seq(F)
  BY TypeParts DEF FilesType, Known
<1>2. \A f \in F : f.rows \in Seq(Known)
  OBVIOUS
<1> HIDE DEF F
<1>3. ASSUME NEW i \in DOMAIN files, NEW k \in DOMAIN files[i].rows
      PROVE  /\ i \in 1..Len(files) /\ Len(files) \in Nat
             /\ k \in 1..Len(files[i].rows) /\ Len(files[i].rows) \in Nat
             /\ files[i].rows[k] \in Known
  <2>1. files[i] \in F /\ i \in 1..Len(files) /\ Len(files) \in Nat
    BY <1>1
  <2> DEFINE s == files[i].rows
  <2>2. s \in Seq(Known)
    BY <1>2, <2>1
  <2> HIDE DEF s
  <2>3. \A j \in DOMAIN s : j \in 1..Len(s) /\ Len(s) \in Nat /\ s[j] \in Known
    BY <2>2
  <2> QED
    BY <2>1, <2>3 DEF s
<1>4. ASSUME NEW i \in DOMAIN files, NEW k \in DOMAIN files[i].rows
      PROVE  files[i].rows[k] \in ToSet(files[i].rows) /\ files[i].rows[k] \in Durable
  <2>1. files[i].rows[k] \in ToSet(files[i].rows)
    BY DEF ToSet
  <2> QED
    BY <2>1 DEF Durable
<1>5. ASSUME NEW m \in Durable
      PROVE  \E i \in DOMAIN files : \E k \in DOMAIN files[i].rows : files[i].rows[k] = m
  <2>1. PICK i \in DOMAIN files : m \in ToSet(files[i].rows)
    BY DEF Durable
  <2>2. \E k \in DOMAIN files[i].rows : files[i].rows[k] = m
    BY <2>1 DEF ToSet
  <2> QED
    BY <2>2
<1> QED
  BY <1>3, <1>4, <1>5

\* The pruned, filtered read loads the rows of the window, all of them.
LEMMA WindowIsWhole ==
    ASSUME NoLateTick, TypeOK, FilesOfDay, NEW from \in Int, NEW to \in Int
    PROVE  {RowAt(p) : p \in Load(from, to)} =
              {m \in Durable : from <= TimeOf(m) /\ TimeOf(m) <= to}
<1>1. ASSUME NEW p \in Load(from, to)
      PROVE  RowAt(p) \in Durable /\ from <= TimeOf(RowAt(p)) /\ TimeOf(RowAt(p)) <= to
  <2>0. PICK i \in DOMAIN files : \E k \in DOMAIN files[i].rows :
           /\ p = <<i, k>>
           /\ from <= TimeOf(files[i].rows[k]) /\ TimeOf(files[i].rows[k]) <= to
    BY PlacesOfLoad
  <2>1. PICK k \in DOMAIN files[i].rows :
           /\ p = <<i, k>>
           /\ from <= TimeOf(files[i].rows[k]) /\ TimeOf(files[i].rows[k]) <= to
    BY <2>0
  <2>2. RowAt(p) = files[i].rows[k]
    BY <2>1 DEF RowAt
  <2> QED
    BY <2>1, <2>2, DurableRows
<1>2. ASSUME NEW m \in Durable, from <= TimeOf(m), TimeOf(m) <= to
      PROVE  \E p \in Load(from, to) : RowAt(p) = m
  <2>0. PICK i \in DOMAIN files : \E k \in DOMAIN files[i].rows : files[i].rows[k] = m
    BY DurableRows
  <2>1. PICK k \in DOMAIN files[i].rows : files[i].rows[k] = m
    BY <2>0
  <2>2. m \in Known /\ m \in ToSet(files[i].rows)
    BY <2>1, DurableRows
  <2>3. files[i].date = TimeOf(m) \div Day
    BY <2>2 DEF FilesOfDay, DayOf
  <2>4. TimeOf(m) \in Int /\ TimeOf(m) % Day # Day - 1
    <3>1. TimeOf(m) \in EventTimes /\ TimeOf(m) \in Nat
      BY <2>2, InfoOf
    <3> QED
      BY <3>1 DEF NoLateTick
  <2>5. DateOf(from) <= files[i].date /\ files[i].date <= DateOf(to)
    BY <1>2, <2>3, <2>4, DatesOfWindow
  <2>6. <<i, k>> \in Load(from, to)
    BY <1>2, <2>1, <2>5, PlacesOfLoad
  <2>7. RowAt(<<i, k>>) = m
    BY <2>1 DEF RowAt
  <2> QED
    BY <2>6, <2>7
<1> QED
  BY <1>1, <1>2

\* A nonempty set of places of a window has one that is loaded last.
LEMMA LastPlace ==
    ASSUME TypeOK, NEW from, NEW to, NEW T, T \subseteq Load(from, to), T # {}
    PROVE  \E p \in T : \A s \in T : ~LoadedAfter(s, p)
<1> DEFINE I == {p[1] : p \in T}
<1>1. ASSUME NEW p \in T
      PROVE  /\ p[1] \in DOMAIN files /\ p[1] \in 0..Len(files) /\ Len(files) \in Nat
             /\ p[2] \in 0..Len(files[p[1]].rows) /\ Len(files[p[1]].rows) \in Nat
  <2>0. PICK i \in DOMAIN files : \E k \in DOMAIN files[i].rows : p = <<i, k>>
    BY PlacesOfLoad
  <2>1. PICK k \in DOMAIN files[i].rows : p = <<i, k>>
    BY <2>0
  <2>2. i \in 1..Len(files) /\ Len(files) \in Nat /\ k \in 1..Len(files[i].rows)
        /\ Len(files[i].rows) \in Nat
    BY DurableRows
  <2>3. p[1] = i /\ p[2] = k
    BY <2>1
  <2> QED
    BY <2>2, <2>3
<1>2. I \subseteq 0..Len(files) /\ I # {} /\ Len(files) \in Nat
  BY <1>1
<1>3. PICK i \in I : \A j \in I : j <= i
  BY <1>2, GreatestNat
<1> DEFINE K == {p[2] : p \in {s \in T : s[1] = i}}
<1>4. K \subseteq 0..Len(files[i].rows) /\ K # {} /\ Len(files[i].rows) \in Nat
  BY <1>1, <1>3
<1>5. PICK k \in K : \A j \in K : j <= k
  BY <1>4, GreatestNat
<1>6. PICK p \in T : p[1] = i /\ p[2] = k
  BY <1>5
<1>7. ASSUME NEW s \in T PROVE ~LoadedAfter(s, p)
  <2>1. s[1] \in Int /\ s[2] \in Int /\ i \in Int /\ k \in Int
    BY <1>1, <1>6
  <2>2. s[1] <= i
    BY <1>3
  <2>3. s[1] = i => s[2] <= k
    BY <1>5
  <2> QED
    BY <1>6, <2>1, <2>2, <2>3 DEF LoadedAfter
<1> QED
  BY <1>6, <1>7

\* Two places of a window of which neither is loaded after the other are the same.
LEMMA OnePlace ==
    ASSUME TypeOK, NEW from, NEW to, NEW p \in Load(from, to), NEW s \in Load(from, to),
           ~LoadedAfter(s, p), ~LoadedAfter(p, s)
    PROVE  p = s
<1>1. ASSUME NEW r \in Load(from, to)
      PROVE  r = <<r[1], r[2]>> /\ r[1] \in Nat /\ r[2] \in Nat
  <2>0. PICK i \in DOMAIN files : \E k \in DOMAIN files[i].rows : r = <<i, k>>
    BY PlacesOfLoad
  <2>1. PICK k \in DOMAIN files[i].rows : r = <<i, k>>
    BY <2>0
  <2>2. i \in Nat /\ k \in Nat
    BY DurableRows
  <2> QED
    BY <2>1, <2>2
<1>2. p[1] = s[1] /\ p[2] = s[2]
  BY <1>1 DEF LoadedAfter
<1> QED
  BY <1>1, <1>2

\* Deduplication keeps, of the rows loaded, one for each message or each entity and time.
LEMMA DedupKeeps ==
    ASSUME TypeOK, NEW from, NEW to, NEW hasMsgId \in BOOLEAN
    PROVE  LET T == Load(from, to)
               F == DedupFeatures(T, hasMsgId)
           IN  /\ F \subseteq {RowAt(p) : p \in T}
               /\ \A p \in T : \E m \in F : info[m] = info[RowAt(p)]
               /\ hasMsgId => F = {RowAt(p) : p \in T}
               /\ ~hasMsgId => \A m \in F : \E p \in T :
                     /\ RowAt(p) = m
                     /\ \A s \in T : info[RowAt(s)] = info[m] => ~LoadedAfter(s, p)
<1> DEFINE T == Load(from, to)
           F == DedupFeatures(T, hasMsgId)
           L == {r \in T : ~ \E s \in T : LoadedAfter(s, r) /\ info[RowAt(s)] = info[RowAt(r)]}
<1>1. CASE hasMsgId
  <2>1. F = {RowAt(p) : p \in T}
    BY <1>1 DEF DedupFeatures
  <2> HIDE DEF F, T
  <2> QED
    BY <1>1, <2>1 DEF F, T
<1>2. CASE ~hasMsgId
  <2>1. F = {RowAt(p) : p \in L}
    BY <1>2 DEF DedupFeatures
  <2> HIDE DEF F, T
  <2>2. F \subseteq {RowAt(p) : p \in T}
    BY <2>1
  <2>3. ASSUME NEW p \in T PROVE \E m \in F : info[m] = info[RowAt(p)]
    <3> DEFINE U == {s \in T : info[RowAt(s)] = info[RowAt(p)]}
    <3>1. U # {} /\ U \subseteq T
      OBVIOUS
    <3>2. PICK r \in U : \A s \in U : ~LoadedAfter(s, r)
      BY <3>1, LastPlace DEF T
    <3>3. r \in L
      BY <3>2
    <3> QED
      BY <2>1, <3>2, <3>3
  <2>4. ASSUME NEW m \in F
        PROVE  \E p \in T :
                  /\ RowAt(p) = m
                  /\ \A s \in T : info[RowAt(s)] = info[m] => ~LoadedAfter(s, p)
    BY <2>1
  <2> QED
    BY <1>2, <2>2, <2>3, <2>4 DEF F, T
<1> QED
  BY <1>1, <1>2

--------------------------------------------------------------------------------
(* The reads against their definition *)

\* The window of a query table covers the window of each query.
LEMMA WindowOfTwo ==
    ASSUME NEW p \in Queries, NEW q \in Queries
    PROVE  LET A == {x.asof : x \in {p, q}}
           IN  /\ Min(A) \in Nat /\ Max(A) \in Nat /\ LookbackTicks \in Nat
               /\ Min(A) <= p.asof /\ p.asof <= Max(A) /\ p.asof \in Nat
<1> DEFINE A == {x.asof : x \in {p, q}}
<1>1. p.asof \in Nat /\ q.asof \in Nat /\ A = {p.asof, q.asof}
  BY ConstantsAssumption DEF Queries
<1>2. LookbackTicks \in Nat
  BY ConstantsAssumption DEF LookbackTicks
<1>3. \E x \in A : \A y \in A : x <= y
  BY <1>1
<1>4. \E x \in A : \A y \in A : x >= y
  BY <1>1
<1> HIDE DEF A
<1>5. Min(A) \in A /\ \A y \in A : Min(A) <= y
  BY <1>3 DEF Min
<1>6. Max(A) \in A /\ \A y \in A : Max(A) >= y
  BY <1>4 DEF Max
<1>7. Min(A) \in Nat /\ Max(A) \in Nat /\ Min(A) <= p.asof /\ p.asof <= Max(A)
  BY <1>1, <1>5, <1>6
<1> QED
  BY <1>1, <1>2, <1>7 DEF A

\* The definition has one answer: the last of the candidates.
LEMMA ExpectedIsLast ==
    ASSUME TypeOK, NEW q
    PROVE  /\ Candidates(q) \subseteq Known
           /\ Candidates(q) = {} => Expected(q) = NoRow
           /\ Candidates(q) # {} =>
                 /\ Expected(q) \in Candidates(q)
                 /\ \A n \in Candidates(q) : n = Expected(q) \/ Before(n, Expected(q))
<1>1. Candidates(q) \subseteq Known
  BY DurableRows DEF Candidates
<1>2. Candidates(q) # {} =>
         \E m \in Candidates(q) : \A n \in Candidates(q) : n = m \/ Before(n, m)
  BY <1>1, LastRow
<1> QED
  BY <1>1, <1>2 DEF Expected

\* The answer to a query does not depend on the other query of the table.
LEMMA AnswerIsExpected ==
    ASSUME NoLateTick, TypeOK, FilesOfDay, NEW p \in Queries, NEW q \in Queries,
           NEW hasMsgId \in BOOLEAN
    PROVE  Matches(ReadPointInTime({p, q}, hasMsgId)[p], Expected(p), hasMsgId)
<1> DEFINE A == {x.asof : x \in {p, q}}
           from == Min(A) - LookbackTicks
           to == Max(A)
           T == Load(from, to)
           F == DedupFeatures(T, hasMsgId)
           W == {m \in Durable : from <= TimeOf(m) /\ TimeOf(m) <= to}
           C == {m \in F : EntOf(m) = p.ent /\ TimeOf(m) <= p.asof}
           K == Candidates(p)
           e == Expected(p)
           r == AsofRow(F, p)
           low == p.asof - LookbackTicks
<1>1. /\ from \in Int /\ to \in Int /\ from <= low /\ p.asof <= to
      /\ p.asof \in Nat /\ low \in Int
  <2>1. /\ Min(A) \in Nat /\ Max(A) \in Nat /\ LookbackTicks \in Nat
        /\ Min(A) <= p.asof /\ p.asof <= Max(A) /\ p.asof \in Nat
    BY WindowOfTwo
  <2> HIDE DEF A
  <2> QED
    BY <2>1
<1>2. ReadPointInTime({p, q}, hasMsgId)[p] = r
  BY DEF ReadPointInTime
<1> HIDE DEF from, to, low
<1>3. {RowAt(s) : s \in T} = W
  BY <1>1, WindowIsWhole
<1>4. /\ F \subseteq W
      /\ \A m \in W : \E n \in F : info[n] = info[m]
      /\ hasMsgId => F = W
  <2>1. /\ F \subseteq {RowAt(s) : s \in T}
        /\ \A s \in T : \E m \in F : info[m] = info[RowAt(s)]
        /\ hasMsgId => F = {RowAt(s) : s \in T}
    BY DedupKeeps
  <2> HIDE DEF T, F, W
  <2>2. ASSUME NEW m \in W PROVE \E n \in F : info[n] = info[m]
    <3>1. PICK s \in T : RowAt(s) = m
      BY <1>3
    <3> QED
      BY <2>1, <3>1
  <2> QED
    BY <1>3, <2>1, <2>2
<1>5. W \subseteq Known
  BY DurableRows
<1>6. \A m \in Known : TimeOf(m) \in Nat /\ m # NoRow
  BY InfoOf
<1>r. \A m \in Known : info[m] = [ent |-> EntOf(m), time |-> TimeOf(m)]
  BY InfoOf
<1>7. K = {m \in W : EntOf(m) = p.ent /\ TimeOf(m) <= p.asof /\ TimeOf(m) >= low}
  <2>1. \A m \in Durable : TimeOf(m) \in Nat
    BY <1>6, DurableRows
  <2> QED
    BY <1>1, <2>1 DEF Candidates, low
<1>8. /\ K = {} => e = NoRow
      /\ K # {} => e \in K /\ \A n \in K : n = e \/ Before(n, e)
  BY ExpectedIsLast
<1>9. /\ C = {} => r = NoRow
      /\ C # {} => \E m \in C : /\ \A n \in C : n = m \/ Before(n, m)
                                /\ r = IF TimeOf(m) < low THEN NoRow ELSE m
  <2>1. F \subseteq Known
    BY <1>4, <1>5
  <2> HIDE DEF F
  <2> QED
    BY <2>1, AsofRowIsLast DEF low
<1> HIDE DEF T, F, W, K, e, r
\* A candidate has a representative among the features that the join looks at.
<1>10. ASSUME NEW m \in K
       PROVE  \E n \in C : /\ info[n] = info[m] /\ TimeOf(n) = TimeOf(m)
                           /\ (hasMsgId => n = m)
  <2>1. m \in W /\ EntOf(m) = p.ent /\ TimeOf(m) <= p.asof
    BY <1>7
  <2>2. PICK n \in F : info[n] = info[m] /\ (hasMsgId => n = m)
    BY <1>4, <2>1
  <2>3. EntOf(n) = EntOf(m) /\ TimeOf(n) = TimeOf(m)
    BY <2>2 DEF EntOf, TimeOf
  <2> QED
    BY <2>1, <2>2, <2>3
<1>11. CASE C = {}
  BY <1>2, <1>8, <1>9, <1>10, <1>11 DEF Matches, e
<1>12. CASE C # {}
  <2>1. PICK m \in C : /\ \A n \in C : n = m \/ Before(n, m)
                       /\ r = IF TimeOf(m) < low THEN NoRow ELSE m
    BY <1>9, <1>12
  <2>2. m \in F /\ m \in W /\ m \in Known /\ EntOf(m) = p.ent /\ TimeOf(m) <= p.asof
    BY <1>4, <1>5
  <2>3. ASSUME NEW n \in C PROVE TimeOf(n) <= TimeOf(m) /\ n \in Known
    <3>1. n \in Known
      BY <1>4, <1>5
    <3> QED
      BY <1>6, <2>1, <2>2, <3>1, BeforeIsTotal
  <2>4. CASE TimeOf(m) < low
    <3>1. K = {}
      <4> SUFFICES ASSUME NEW k \in K PROVE FALSE
        OBVIOUS
      <4>1. k \in Known /\ TimeOf(k) >= low
        BY <1>5, <1>7
      <4>2. TimeOf(k) <= TimeOf(m)
        BY <1>10, <2>3
      <4> QED
        BY <1>1, <1>6, <2>2, <2>4, <4>1, <4>2
    <3> QED
      BY <1>2, <1>8, <2>1, <2>4, <3>1 DEF Matches, e
  <2>5. CASE ~(TimeOf(m) < low)
    <3>1. r = m /\ m \in K
      BY <1>1, <1>6, <1>7, <2>1, <2>2, <2>5
    <3>2. e \in K /\ (m = e \/ Before(m, e)) /\ e \in Known
      BY <1>5, <1>7, <1>8, <3>1
    <3>3. PICK n \in C : /\ info[n] = info[e] /\ TimeOf(n) = TimeOf(e)
                         /\ (hasMsgId => n = e)
      BY <1>10, <3>2
    <3>4. TimeOf(m) = TimeOf(e)
      <4>1. TimeOf(m) <= TimeOf(e)
        BY <1>6, <2>2, <3>2, BeforeIsTotal
      <4>2. TimeOf(e) <= TimeOf(m)
        BY <2>3, <3>3
      <4> QED
        BY <1>6, <2>2, <3>2, <4>1, <4>2
    <3>5. info[m] = info[e]
      BY <1>r, <1>7, <2>2, <3>2, <3>4
    <3>6. hasMsgId => m = e
      <4> SUFFICES ASSUME hasMsgId PROVE m = e
        OBVIOUS
      <4>1. e \in C /\ (e = m \/ Before(e, m))
        BY <2>1, <3>3
      <4> QED
        BY <2>2, <3>2, <4>1, BeforeIsTotal
    <3>7. m # NoRow /\ e # NoRow
      BY <1>6, <2>2, <3>2
    <3> QED
      BY <1>2, <3>1, <3>5, <3>6, <3>7 DEF Matches, e
  <2> QED
    BY <2>4, <2>5
<1> QED
  BY <1>11, <1>12

\* Of each entity, latest_features has the row that a read at the same time returns.
LEMMA LatestIsAnswer ==
    ASSUME TypeOK, NEW asof \in QueryTimes, NEW hasMsgId \in BOOLEAN
    PROVE  LatestFeatures(asof, hasMsgId) =
              {ReadPointInTime({[ent |-> e, asof |-> asof]}, hasMsgId)
                  [[ent |-> e, asof |-> asof]] : e \in Entities} \ {NoRow}
<1> DEFINE Q(e) == [ent |-> e, asof |-> asof]
           low == asof - LookbackTicks
           T == Load(low, asof)
           F == DedupFeatures(T, hasMsgId)
           C(e) == {m \in F : EntOf(m) = e}
           Answer(e) == ReadPointInTime({Q(e)}, hasMsgId)[Q(e)]
           Newer(p, r) ==
              \/ TimeOf(RowAt(p)) < TimeOf(RowAt(r))
              \/ TimeOf(RowAt(p)) = TimeOf(RowAt(r)) /\
                 IF hasMsgId /\ RowAt(p) # RowAt(r) THEN RowAt(p) < RowAt(r)
                 ELSE LoadedAfter(r, p)
           Newest(p) == ~ \E s \in T : EntOf(RowAt(s)) = EntOf(RowAt(p)) /\ Newer(p, s)
<1>1. LatestFeatures(asof, hasMsgId) = {RowAt(p) : p \in {r \in T : Newest(r)}}
  BY DEF LatestFeatures
<1>2. asof \in Nat /\ low \in Int
  BY ConstantsAssumption DEF LookbackTicks
<1>3. ASSUME NEW e \in Entities
      PROVE  Q(e) \in Queries /\ Answer(e) = AsofRow(F, Q(e))
  <2>1. Q(e) \in Queries /\ Q(e).asof = asof
    BY DEF Queries
  <2>2. {x.asof : x \in {Q(e)}} = {asof}
    BY <2>1
  <2>3. Min({asof}) = asof /\ Max({asof}) = asof
    BY <1>2 DEF Min, Max
  <2> HIDE DEF Q
  <2>4. Answer(e) = AsofRow(F, Q(e))
    BY <2>2, <2>3 DEF ReadPointInTime
  <2> QED
    BY <2>1, <2>4
<1>4. ASSUME NEW p \in T
      PROVE  RowAt(p) \in Known /\ low <= TimeOf(RowAt(p)) /\ TimeOf(RowAt(p)) <= asof
  <2>0. PICK i \in DOMAIN files : \E k \in DOMAIN files[i].rows :
           /\ p = <<i, k>>
           /\ low <= TimeOf(files[i].rows[k]) /\ TimeOf(files[i].rows[k]) <= asof
    BY PlacesOfLoad
  <2>1. PICK k \in DOMAIN files[i].rows :
           /\ p = <<i, k>>
           /\ low <= TimeOf(files[i].rows[k]) /\ TimeOf(files[i].rows[k]) <= asof
    BY <2>0
  <2>2. RowAt(p) = files[i].rows[k]
    BY <2>1 DEF RowAt
  <2> QED
    BY <2>1, <2>2, DurableRows
<1>5. /\ F \subseteq {RowAt(p) : p \in T}
      /\ \A p \in T : \E m \in F : info[m] = info[RowAt(p)]
      /\ hasMsgId => F = {RowAt(p) : p \in T}
      /\ ~hasMsgId => \A m \in F : \E p \in T :
            /\ RowAt(p) = m
            /\ \A s \in T : info[RowAt(s)] = info[m] => ~LoadedAfter(s, p)
  BY DedupKeeps
<1>p. \A p, s \in T : ~LoadedAfter(s, p) /\ ~LoadedAfter(p, s) => p = s
  BY OnePlace
<1>6. \A m \in Known : m \in Nat /\ TimeOf(m) \in Nat /\ m # NoRow /\ EntOf(m) \in Entities
  BY InfoOf
<1>r. \A m \in Known : info[m] = [ent |-> EntOf(m), time |-> TimeOf(m)]
  BY InfoOf
<1>7. ASSUME NEW e \in Entities
      PROVE  /\ C(e) = {} => Answer(e) = NoRow
             /\ C(e) # {} => /\ Answer(e) \in C(e)
                             /\ \A n \in C(e) : n = Answer(e) \/ Before(n, Answer(e))
  <2> DEFINE q == Q(e)
             D == {m \in F : EntOf(m) = q.ent /\ TimeOf(m) <= q.asof}
  <2>1. F \subseteq Known
    BY <1>4, <1>5
  <2>2. q \in Queries /\ Answer(e) = AsofRow(F, q) /\ q.ent = e /\ q.asof = asof
    BY <1>3
  <2>3. \A m \in F : low <= TimeOf(m) /\ TimeOf(m) <= asof
    BY <1>4, <1>5
  <2> HIDE DEF F, T, q, Answer
  <2>4. D = C(e)
    BY <2>2, <2>3
  <2>5. /\ D = {} => AsofRow(F, q) = NoRow
        /\ D # {} => \E m \in D :
              /\ \A n \in D : n = m \/ Before(n, m)
              /\ AsofRow(F, q) = IF TimeOf(m) < q.asof - LookbackTicks THEN NoRow ELSE m
    BY <2>1, <2>2, AsofRowIsLast
  <2>6. ASSUME NEW m \in D PROVE ~(TimeOf(m) < q.asof - LookbackTicks)
    <3>1. TimeOf(m) \in Int /\ low <= TimeOf(m) /\ q.asof - LookbackTicks = low
      BY <1>6, <2>1, <2>2, <2>3
    <3> HIDE DEF low
    <3> QED
      BY <1>2, <3>1
  <2> HIDE DEF D, C
  <2> QED
    BY <2>2, <2>4, <2>5, <2>6
<1> HIDE DEF T, F, Answer, low
\* A row of the entity is not after the answer, and without message ids its time is the
\* time of a representative.
<1>8. ASSUME NEW p \in T
      PROVE  LET e == EntOf(RowAt(p))
             IN  /\ e \in Entities /\ C(e) # {} /\ Answer(e) \in C(e) /\ Answer(e) \in Known
                 /\ TimeOf(RowAt(p)) <= TimeOf(Answer(e))
                 /\ hasMsgId => RowAt(p) = Answer(e) \/ Before(RowAt(p), Answer(e))
  <2> DEFINE m == RowAt(p)
             e == EntOf(m)
             a == Answer(e)
  <2>1. m \in Known /\ e \in Entities
    BY <1>4, <1>6
  <2>2. PICK n \in F : info[n] = info[m] /\ (hasMsgId => n = m)
    BY <1>5
  <2>3. EntOf(n) = e /\ TimeOf(n) = TimeOf(m) /\ n \in C(e)
    BY <2>2 DEF EntOf, TimeOf
  <2>4. a \in C(e) /\ (n = a \/ Before(n, a))
    BY <1>7, <2>1, <2>3
  <2>5. a \in Known /\ n \in Known
    BY <1>4, <1>5, <2>4
  <2>6. TimeOf(n) <= TimeOf(a)
    <3> HIDE DEF a, C
    <3> QED
      BY <1>6, <2>4, <2>5, BeforeIsTotal
  <2> QED
    BY <2>1, <2>2, <2>3, <2>4, <2>5, <2>6
<1>9. ASSUME NEW p \in T, Newest(p) PROVE RowAt(p) = Answer(EntOf(RowAt(p)))
  <2> DEFINE m == RowAt(p)
             e == EntOf(m)
             a == Answer(e)
  <2>1. /\ e \in Entities /\ a \in F /\ EntOf(a) = e /\ a \in Known
        /\ TimeOf(m) <= TimeOf(a)
        /\ hasMsgId => m = a \/ Before(m, a)
    BY <1>8
  <2>2. m \in Known /\ m \in Nat /\ a \in Nat /\ TimeOf(m) \in Nat /\ TimeOf(a) \in Nat
    BY <1>4, <1>6, <2>1
  <2>3. CASE hasMsgId
    <3>1. PICK s \in T : RowAt(s) = a
      BY <1>5, <2>1
    <3>2. ~Newer(p, s)
      BY <1>9, <2>1, <3>1
    <3> HIDE DEF a, e
    <3>3. ~Before(m, a)
      BY <2>2, <2>3, <3>1, <3>2 DEF Before
    <3> QED
      BY <2>1, <2>3, <3>3 DEF a, e
  <2>4. CASE ~hasMsgId
    <3>1. PICK s \in T : /\ RowAt(s) = a
                         /\ \A z \in T : info[RowAt(z)] = info[a] => ~LoadedAfter(z, s)
      BY <1>5, <2>1, <2>4
    <3>2. ~Newer(p, s)
      BY <1>9, <2>1, <3>1
    <3> HIDE DEF a, e
    <3>3. TimeOf(m) = TimeOf(a) /\ ~LoadedAfter(s, p)
      BY <2>1, <2>2, <2>4, <3>1, <3>2
    <3>4. info[m] = info[a]
      BY <1>r, <2>1, <2>2, <3>3 DEF e
    <3>5. ~LoadedAfter(p, s)
      BY <3>1, <3>4
    <3>6. p = s
      BY <1>p, <3>3, <3>5
    <3> QED
      BY <3>1, <3>6 DEF a, e
  <2> QED
    BY <2>3, <2>4
<1>10. ASSUME NEW e \in Entities, Answer(e) # NoRow
       PROVE  \E p \in T : Newest(p) /\ RowAt(p) = Answer(e)
  <2> DEFINE a == Answer(e)
  <2>1. a \in F /\ EntOf(a) = e
    BY <1>7, <1>10
  <2>2. a \in Known /\ a \in Nat /\ TimeOf(a) \in Nat
    BY <1>4, <1>5, <1>6, <2>1
  <2>3. ASSUME NEW s \in T, EntOf(RowAt(s)) = e
        PROVE  /\ TimeOf(RowAt(s)) <= TimeOf(a)
               /\ hasMsgId => RowAt(s) = a \/ Before(RowAt(s), a)
               /\ RowAt(s) \in Known /\ RowAt(s) \in Nat /\ TimeOf(RowAt(s)) \in Nat
    BY <1>4, <1>6, <1>8, <2>3
  <2> HIDE DEF a
  <2>4. CASE hasMsgId
    <3> DEFINE U == {s \in T : RowAt(s) = a}
    <3>1. U # {} /\ U \subseteq T
      BY <1>5, <2>1, <2>4
    <3>2. PICK p \in U : \A s \in U : ~LoadedAfter(s, p)
      BY <3>1, LastPlace DEF T
    <3>3. ASSUME NEW s \in T, EntOf(RowAt(s)) = e PROVE ~Newer(p, s)
      <4>0. RowAt(p) = a
        BY <3>2
      <4>1. CASE RowAt(s) = a
        <5>1. ~LoadedAfter(s, p)
          BY <3>2, <4>1
        <5> QED
          BY <2>2, <4>0, <4>1, <5>1
      <4>2. CASE Before(RowAt(s), a)
        <5>1. RowAt(s) \in Nat /\ TimeOf(RowAt(s)) \in Nat
          BY <2>3, <3>3
        <5>2. \/ TimeOf(RowAt(s)) < TimeOf(a)
              \/ TimeOf(RowAt(s)) = TimeOf(a) /\ RowAt(s) < a
          BY <4>2 DEF Before
        <5> QED
          BY <2>2, <2>4, <4>0, <5>1, <5>2
      <4> QED
        BY <2>3, <2>4, <3>3, <4>1, <4>2
    <3>4. Newest(p) /\ RowAt(p) = a
      <4> HIDE DEF Newer
      <4> QED
        BY <2>1, <3>2, <3>3
    <3> HIDE DEF Newest
    <3> QED
      BY <3>2, <3>4 DEF a
  <2>5. CASE ~hasMsgId
    <3>1. PICK p \in T : /\ RowAt(p) = a
                         /\ \A s \in T : info[RowAt(s)] = info[a] => ~LoadedAfter(s, p)
      BY <1>5, <2>1, <2>5
    <3>2. ASSUME NEW s \in T, EntOf(RowAt(s)) = e PROVE ~Newer(p, s)
      <4>1. /\ TimeOf(RowAt(s)) <= TimeOf(a) /\ RowAt(s) \in Known
            /\ TimeOf(RowAt(s)) \in Nat
        BY <2>3, <3>2
      <4>2. TimeOf(RowAt(s)) = TimeOf(a) => info[RowAt(s)] = info[a]
        BY <1>r, <2>1, <2>2, <3>2, <4>1
      <4>3. TimeOf(RowAt(s)) = TimeOf(a) => ~LoadedAfter(s, p)
        BY <3>1, <4>2
      <4> QED
        BY <2>2, <2>5, <3>1, <4>1, <4>3
    <3>3. Newest(p) /\ RowAt(p) = a
      <4> HIDE DEF Newer
      <4> QED
        BY <2>1, <3>1, <3>2
    <3> HIDE DEF Newest
    <3> QED
      BY <3>1, <3>3 DEF a
  <2> QED
    BY <2>4, <2>5
<1> HIDE DEF Newest
<1>11. ASSUME NEW p \in T, Newest(p)
       PROVE  \E e \in Entities : RowAt(p) = Answer(e) /\ RowAt(p) # NoRow
  <2>1. RowAt(p) \in Known
    BY <1>4
  <2> QED
    BY <1>6, <1>9, <1>11, <2>1
<1>12. LatestFeatures(asof, hasMsgId) = {Answer(e) : e \in Entities} \ {NoRow}
  BY <1>1, <1>10, <1>11
<1> QED
  BY <1>12 DEF Answer

--------------------------------------------------------------------------------
(* Where the rows are *)

BucketsOfDay(b) == \A d \in Dates : \A m \in ToSet(b[d]) : DayOf(m) = d

\* Wherever a row is, it is under the date of its day.
RowsOfDay == BucketsOfDay(buffers) /\ BucketsOfDay(snapshot) /\ FilesOfDay

LEMMA RowsOfDayStep ==
    ASSUME NoLateTick, TypeOK, CacheIsDay, RowsOfDay, [Next]_vars
    PROVE  RowsOfDay'
<1>s. /\ appended \in Nat /\ appended <= Len(info) /\ Len(info) \in Nat
      /\ buffers \in [Dates -> Seq(1..appended)]
      /\ snapshot \in [Dates -> Seq(1..appended)]
  BY TypeParts DEF LogType, WriterType, TypeRows
<1>k. \A d \in Dates : \A m \in ToSet(buffers[d]) \cup ToSet(snapshot[d]) : m \in Known
  <2>1. \A s \in Seq(1..appended) : \A m \in ToSet(s) : m \in Known
    BY <1>s DEF ToSet, Known
  <2> QED
    BY <1>s, <2>1
<1>f. \A i \in DOMAIN files : \A m \in ToSet(files[i].rows) : m \in Known
  BY DurableRows DEF ToSet
<1>d. \A m \in Known : DayOf(m)' = DayOf(m)
  BY DayStays DEF Known
<1>n. ToSet(<<>>) = {} /\ \A d \in Dates : Empty[d] = <<>>
  BY DEF ToSet, Empty
<1>o. /\ \A d \in Dates : \A m \in ToSet(buffers[d]) : DayOf(m) = d /\ m \in Known
      /\ \A d \in Dates : \A m \in ToSet(snapshot[d]) : DayOf(m) = d /\ m \in Known
  BY <1>k DEF RowsOfDay, BucketsOfDay
<1>p. ASSUME \A j \in DOMAIN files' : \A m \in ToSet(files'[j].rows) : files'[j].date = DayOf(m)',
             \A d \in Dates : \A m \in ToSet(buffers'[d]) : DayOf(m)' = d,
             \A d \in Dates : \A m \in ToSet(snapshot'[d]) : DayOf(m)' = d
      PROVE  RowsOfDay'
  BY <1>p DEF RowsOfDay, BucketsOfDay, FilesOfDay, ToSet, DayOf, TimeOf, Dates
<1>g. ASSUME files' = files
      PROVE  \A j \in DOMAIN files' : \A m \in ToSet(files'[j].rows) : files'[j].date = DayOf(m)'
  BY <1>d, <1>f, <1>g DEF RowsOfDay, FilesOfDay
<1>1. ASSUME NEW e \in Entities, NEW t \in EventTimes, Append1(e, t) PROVE RowsOfDay'
  <2> DEFINE x == t \div Day
  <2>0. PICK n \in Nat : n = appended + 1
    BY <1>s
  <2>1. /\ x \in Dates /\ snapshot' = snapshot /\ files' = files
        /\ buffers' = [buffers EXCEPT ![x] = Append(@, n)] /\ DayOf(n)' = x
    BY <1>1, <2>0, AppendEffect
  <2> HIDE DEF x
  <2>2. ASSUME NEW d \in Dates, NEW m \in ToSet(buffers'[d]) PROVE DayOf(m)' = d
    <3>1. CASE d # x
      <4>1. buffers'[d] = buffers[d]
        BY <1>s, <2>1, <3>1
      <4> QED
        BY <1>d, <1>o, <4>1
    <3>2. CASE d = x
      <4> DEFINE s == buffers[d]
      <4>1. s \in Seq(1..appended) /\ buffers'[d] = Append(s, n)
        BY <1>s, <2>1, <3>2
      <4> HIDE DEF s
      <4>2. m \in ToSet(s) \/ m = n
        BY <4>1 DEF ToSet
      <4> QED
        BY <1>d, <1>o, <2>1, <3>2, <4>2 DEF s
    <3> QED
      BY <3>1, <3>2
  <2>3. \A d \in Dates : \A m \in ToSet(snapshot'[d]) : DayOf(m)' = d
    BY <1>d, <1>o, <2>1
  <2> QED
    BY <1>g, <1>p, <2>1, <2>2, <2>3
<1>2. CASE FlushBegins
  <2>1. buffers' = Empty /\ snapshot' = buffers /\ files' = files
    BY <1>2 DEF FlushBegins
  <2>2. /\ \A d \in Dates : \A m \in ToSet(buffers'[d]) : DayOf(m)' = d
        /\ \A d \in Dates : \A m \in ToSet(snapshot'[d]) : DayOf(m)' = d
    BY <1>d, <1>n, <1>o, <2>1
  <2> QED
    BY <1>g, <1>p, <2>1, <2>2
<1>3. ASSUME UNCHANGED <<buffers, snapshot, files>> PROVE RowsOfDay'
  <2>1. /\ \A d \in Dates : \A m \in ToSet(buffers'[d]) : DayOf(m)' = d
        /\ \A d \in Dates : \A m \in ToSet(snapshot'[d]) : DayOf(m)' = d
    BY <1>3, <1>d, <1>o
  <2> QED
    BY <1>3, <1>g, <1>p, <2>1
<1>4. CASE Rename
  <2>1. UNCHANGED <<buffers, snapshot>> /\ date \in Dates
    BY <1>4 DEF Rename, TypeOK, Unwritten
  <2>2. /\ \A d \in Dates : \A m \in ToSet(buffers'[d]) : DayOf(m)' = d
        /\ \A d \in Dates : \A m \in ToSet(snapshot'[d]) : DayOf(m)' = d
    BY <1>d, <1>o, <2>1
  <2>3. ASSUME NEW j \in DOMAIN files', NEW m \in ToSet(files'[j].rows)
        PROVE  files'[j].date = DayOf(m)'
    <3>1. CASE files'[j].date = date /\ files'[j].rows = snapshot[date]
      BY <1>d, <1>o, <2>1, <3>1
    <3>2. CASE \E k \in DOMAIN files : files'[j] = files[k]
      <4>1. PICK k \in DOMAIN files : files'[j] = files[k]
        BY <3>2
      <4> QED
        BY <1>d, <1>f, <4>1 DEF RowsOfDay, FilesOfDay
    <3> QED
      BY <1>4, <3>1, <3>2, RenameFiles
  <2> QED
    BY <1>p, <2>2, <2>3
<1>5. ASSUME files' = files,
             \A d \in Dates : buffers'[d] \in {<<>>, buffers[d], snapshot[d]},
             \A d \in Dates : snapshot'[d] = <<>>
      PROVE  RowsOfDay'
  <2>1. /\ \A d \in Dates : \A m \in ToSet(buffers'[d]) : DayOf(m)' = d
        /\ \A d \in Dates : \A m \in ToSet(snapshot'[d]) : DayOf(m)' = d
    BY <1>5, <1>d, <1>n, <1>o
  <2> QED
    BY <1>5, <1>g, <1>p, <2>1
<1>6. CASE FlushRaises
  BY <1>5, <1>6, <1>n DEF FlushRaises
<1>7. CASE FlushEnds
  BY <1>5, <1>7, <1>n DEF FlushEnds
<1>8. CASE Restart
  BY <1>5, <1>8, <1>n DEF Restart
<1>9. CASE (\E d \in Dates : WriteTmp(d)) \/ SyncDir \/ Xack
  BY <1>3, <1>9 DEF WriteTmp, SyncDir, Xack
<1>10. CASE UNCHANGED vars
  BY <1>3, <1>10 DEF vars
<1> QED
  BY <1>1, <1>2, <1>4, <1>6, <1>7, <1>8, <1>9, <1>10 DEF Next

\* read_point_in_time answers every query of a table with the row its definition
\* selects, for any number of messages, days, query times and lookbacks, after any
\* crashes and replays: neither pruning by date nor the common window nor duplicates
\* show, unless an event falls into the last half microsecond of a day.
THEOREM ReadsAreRight == ASSUME NoLateTick PROVE Spec => []AsOfIsRight
<1>1. Init => RowsOfDay
  <2> SUFFICES ASSUME Init PROVE RowsOfDay
    OBVIOUS
  <2>1. ToSet(<<>>) = {} /\ \A d \in Dates : Empty[d] = <<>>
    BY DEF ToSet, Empty
  <2>2. BucketsOfDay(buffers) /\ BucketsOfDay(snapshot)
    BY <2>1 DEF Init, BucketsOfDay
  <2>3. FilesOfDay
    BY DEF Init, FilesOfDay
  <2> QED
    BY <2>2, <2>3 DEF RowsOfDay
<1>2. TypeOK /\ DayInv /\ RowsOfDay /\ [Next]_vars => RowsOfDay'
  BY RowsOfDayStep DEF DayInv
<1>3. TypeOK /\ RowsOfDay => AsOfIsRight
  BY AnswerIsExpected DEF AsOfIsRight, RowsOfDay
<1> QED
  BY <1>1, <1>2, <1>3, TypeCorrect, DayInvariant, PTL DEF Spec

\* latest_features, from which hydrate rebuilds a segment, and a point-in-time read of
\* every entity at the same time return the same rows, of whatever files and duplicates,
\* with and without message ids, and late ticks or not.
THEOREM LatestIsRight == Spec => []LatestAgrees
<1>1. TypeOK => LatestAgrees
  BY LatestIsAnswer DEF LatestAgrees
<1> QED
  BY <1>1, TypeCorrect, PTL

================================================================================
