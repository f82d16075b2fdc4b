---------------------------- MODULE BufferPoolProofs ----------------------------
(*****************************************************************************)
(* Who owns a buffer and what is in it, for any number of threads, open      *)
(* checkouts, rows, cells and entities and every max_size.                   *)
(*****************************************************************************)
EXTENDS BufferPool, FiniteSetTheorems, TLAPS

\* The body of the with block.
Inside == {"called", "writing", "assembled", "raised"}

\* _buf names the buffer as long as the body runs, and the body has its ids.
CheckoutOK ==
    \A k \in Checkouts :
        /\ slot[k] = IF pc[k] \in Inside THEN buf[k] ELSE None
        /\ pc[k] \in Inside => ids[k] \in [kind.rows -> Entities \cup {Unknown}]

\* The cells that the assembly has behind it hold the features of its ids.
WrittenOK ==
    \A k \in Checkouts : pc[k] = "writing" =>
        \A r \in kind.rows, c \in Cells :
            <<r, c>> \notin todo[k] => content[buf[k]][r][c] = Value(ids[k][r])

\* A pool that zeroes has zeros in its deque, and in every buffer on its way to a
\* body or from zeroing back to the deque.
ZeroOK ==
    kind.zero =>
        /\ \A b \in Range(pool) : content[b] = Zeros
        /\ \A k \in Checkouts :
              pc[k] \in {"entered", "check", "append"} => content[buf[k]] = Zeros

IInv ==
    /\ TypeOK /\ CheckoutOK /\ Exclusive
    /\ WrittenOK /\ OwnFeatures /\ ZeroOK /\ NothingForeign

--------------------------------------------------------------------------------
(* Facts about the deque *)

\* popleft: what is left was there before, and the head is not in it any more.
LEMMA TailRange ==
    ASSUME NEW S, NEW s \in Seq(S), s # <<>>,
           \A i, j \in 1..Len(s) : s[i] = s[j] => i = j
    PROVE  /\ Tail(s) \in Seq(S) /\ Head(s) \in S /\ Len(Tail(s)) = Len(s) - 1
           /\ Range(Tail(s)) \subseteq Range(s)
           /\ Head(s) \in Range(s) /\ Head(s) \notin Range(Tail(s))
           /\ \A i, j \in 1..Len(Tail(s)) : Tail(s)[i] = Tail(s)[j] => i = j
<1>1. Len(s) \in Nat \ {0} /\ Len(Tail(s)) = Len(s) - 1 /\ Head(s) = s[1]
  OBVIOUS
<1>2. \A i \in 1..Len(Tail(s)) : Tail(s)[i] = s[i + 1] /\ i + 1 \in 1..Len(s)
  OBVIOUS
<1>3. DOMAIN s = 1..Len(s) /\ DOMAIN Tail(s) = 1..Len(Tail(s))
  OBVIOUS
<1>4. Tail(s) \in Seq(S) /\ Head(s) \in S
  OBVIOUS
<1>5. Range(Tail(s)) \subseteq Range(s) /\ Head(s) \in Range(s)
  BY <1>1, <1>2, <1>3 DEF Range
<1>6. Head(s) \notin Range(Tail(s))
  BY <1>1, <1>2, <1>3 DEF Range
<1>7. ASSUME NEW i \in 1..Len(Tail(s)), NEW j \in 1..Len(Tail(s)), Tail(s)[i] = Tail(s)[j]
      PROVE  i = j
  BY <1>1, <1>2, <1>7
<1> QED
  BY <1>1, <1>4, <1>5, <1>6, <1>7

\* append: one more buffer, which was not in the deque.
LEMMA AppendRange ==
    ASSUME NEW S, NEW s \in Seq(S), NEW x \in S, x \notin Range(s),
           \A i, j \in 1..Len(s) : s[i] = s[j] => i = j
    PROVE  /\ Append(s, x) \in Seq(S) /\ Len(Append(s, x)) = Len(s) + 1
           /\ Range(Append(s, x)) = Range(s) \cup {x}
           /\ \A i, j \in 1..Len(Append(s, x)) :
                  Append(s, x)[i] = Append(s, x)[j] => i = j
<1> DEFINE a == Append(s, x)
<1>1. Len(s) \in Nat /\ Len(a) = Len(s) + 1 /\ a \in Seq(S)
  OBVIOUS
<1>2. a[Len(s) + 1] = x /\ \A i \in 1..Len(s) : a[i] = s[i]
  OBVIOUS
<1>3. DOMAIN s = 1..Len(s) /\ DOMAIN a = 1..(Len(s) + 1)
  OBVIOUS
<1>4. \A i \in 1..(Len(s) + 1) : i \in 1..Len(s) \/ i = Len(s) + 1
  BY <1>1
<1>5. \A i \in 1..Len(s) : s[i] # x
  BY <1>3 DEF Range
<1> HIDE DEF a
<1>6. Range(a) = Range(s) \cup {x}
  <2>1. Range(a) \subseteq Range(s) \cup {x}
    BY <1>2, <1>3, <1>4 DEF Range
  <2>2. Range(s) \cup {x} \subseteq Range(a)
    BY <1>1, <1>2, <1>3 DEF Range
  <2> QED
    BY <2>1, <2>2
<1>7. ASSUME NEW i \in 1..Len(a), NEW j \in 1..Len(a), a[i] = a[j]
      PROVE  i = j
  BY <1>1, <1>2, <1>4, <1>5, <1>7
<1> QED
  BY <1>1, <1>6, <1>7 DEF a

\* The deque holds buffers.
LEMMA RangeType ==
    ASSUME NEW S, NEW s \in Seq(S)
    PROVE  Range(s) \subseteq S
BY DEF Range

\* The rows of an all-zero buffer.
LEMMA ZerosType ==
    /\ Zeros \in [kind.rows -> [Cells -> Values]]
    /\ \A r \in kind.rows, c \in Cells : Zeros[r][c] = None
BY DEF Zeros, Values

\* np.zeros and fill(0) have the same shape before and after a step.
LEMMA ZerosStable == ASSUME kind' = kind PROVE Zeros' = Zeros
BY DEF Zeros

--------------------------------------------------------------------------------
(* One lemma per action *)

\* popleft.
LEMMA EnterHitStep ==
    ASSUME IInv, NEW k \in Checkouts, EnterHit(k)
    PROVE  IInv'
<1> USE DEF IInv
<1>1. TypeOK'
  BY PoolAssumption, TailRange DEF EnterHit, TypeOK, Phases, Exclusive
<1>2. CheckoutOK'
  BY PoolAssumption, TailRange DEF EnterHit, TypeOK, CheckoutOK, Inside, Exclusive
<1>3. Exclusive'
  <2>1. /\ pool' \in Seq(Buffers) /\ Range(pool') \subseteq Range(pool)
        /\ Head(pool) \in Range(pool) /\ Head(pool) \notin Range(pool')
        /\ \A i, j \in 1..Len(pool') : pool'[i] = pool'[j] => i = j
    <3>1. /\ pool' = Tail(pool) /\ pool \in Seq(Buffers) /\ pool # <<>>
          /\ \A i, j \in 1..Len(pool) : pool[i] = pool[j] => i = j
      BY DEF EnterHit, TypeOK, Exclusive
    <3> QED
      BY <3>1, TailRange
  <2>2. Head(pool) # None
    BY <2>1, RangeType, PoolAssumption DEF TypeOK
  <2>3. buf'[k] = Head(pool) /\ \A u \in Checkouts \ {k} : buf'[u] = buf[u]
    BY DEF EnterHit, TypeOK
  <2>4. \A u \in Checkouts : buf[u] # None => buf[u] \notin Range(pool)
    BY DEF Exclusive
  <2>5. \A u, v \in Checkouts : buf[u] # None /\ u # v => buf[u] # buf[v]
    BY DEF Exclusive
  <2> QED
    BY <2>1, <2>2, <2>3, <2>4, <2>5 DEF Exclusive
<1>4. WrittenOK'
  BY DEF EnterHit, TypeOK, WrittenOK
<1>5. OwnFeatures'
  BY DEF EnterHit, TypeOK, OwnFeatures
<1>6. ZeroOK'
  BY ZerosStable, TailRange DEF EnterHit, TypeOK, ZeroOK, Exclusive
<1>7. NothingForeign'
  BY DEF EnterHit, TypeOK, NothingForeign
<1> QED
  BY <1>1, <1>2, <1>3, <1>4, <1>5, <1>6, <1>7

\* np.zeros.
LEMMA EnterMissStep ==
    ASSUME IInv, NEW k \in Checkouts, EnterMiss(k)
    PROVE  IInv'
<1> USE DEF IInv
<1>1. PICK b \in Buffers :
        /\ Fresh(b)
        /\ buf' = [buf EXCEPT ![k] = b]
        /\ content' = [content EXCEPT ![b] = Zeros]
  BY DEF EnterMiss
<1>2. b # None /\ b \notin Range(pool) /\ \A u \in Checkouts : buf[u] # b
  BY <1>1, PoolAssumption DEF Fresh
<1>3. buf'[k] = b /\ \A u \in Checkouts \ {k} : buf'[u] = buf[u]
  BY <1>1 DEF TypeOK
<1>4. pc'[k] = "entered" /\ \A u \in Checkouts \ {k} : pc'[u] = pc[u]
  BY DEF EnterMiss, TypeOK
<1>5. content'[b] = Zeros /\ \A a \in Buffers \ {b} : content'[a] = content[a]
  BY <1>1 DEF TypeOK
<1>6. \A u \in Checkouts \ {k} : pc[u] # "idle" => content'[buf'[u]] = content[buf[u]]
  BY <1>2, <1>3, <1>5 DEF TypeOK
<1>7. kind' = kind /\ pool' = pool /\ slot' = slot /\ ids' = ids /\ todo' = todo
  BY DEF EnterMiss
<1>8. TypeOK'
  <2>1. content' \in [Buffers -> [kind.rows -> [Cells -> Values]]]
    BY <1>1, ZerosType DEF TypeOK
  <2>2. pc' \in [Checkouts -> Phases] /\ buf' \in [Checkouts -> Buffers \cup {None}]
    BY <1>1 DEF EnterMiss, TypeOK, Phases
  <2>3. \A u \in Checkouts : (buf'[u] = None) <=> (pc'[u] = "idle")
    BY <1>2, <1>3, <1>4 DEF TypeOK
  <2> QED
    BY <1>7, <2>1, <2>2, <2>3 DEF TypeOK
<1>9. CheckoutOK'
  BY <1>3, <1>4, <1>7 DEF EnterMiss, CheckoutOK, Inside
<1>10. Exclusive'
  BY <1>2, <1>3, <1>7 DEF Exclusive
<1>11. WrittenOK'
  BY <1>4, <1>6, <1>7 DEF WrittenOK, Value
<1>12. OwnFeatures'
  BY <1>4, <1>6, <1>7 DEF OwnFeatures, Value
<1>13. ZeroOK'
  <2>1. \A a \in Range(pool) : content'[a] = content[a]
    BY <1>2, <1>5, RangeType DEF TypeOK
  <2> QED
    BY <1>3, <1>4, <1>5, <1>6, <1>7, <2>1, ZerosStable DEF ZeroOK
<1>14. NothingForeign'
  BY <1>4, <1>6, <1>7 DEF NothingForeign, Value
<1> QED
  BY <1>8, <1>9, <1>10, <1>11, <1>12, <1>13, <1>14

\* The body calls the assembly.
LEMMA BodyStep ==
    ASSUME IInv, NEW k \in Checkouts, Body(k)
    PROVE  IInv'
<1> USE DEF IInv
<1>1. TypeOK'
  BY PoolAssumption DEF Body, TypeOK, Phases
<1>2. CheckoutOK'
  BY PoolAssumption DEF Body, TypeOK, CheckoutOK, Inside, Phases
<1>3. Exclusive'
  BY PoolAssumption DEF Body, TypeOK, Exclusive
<1>4. WrittenOK'
  BY DEF Body, TypeOK, WrittenOK
<1>5. OwnFeatures'
  BY DEF Body, TypeOK, OwnFeatures
<1>6. ZeroOK'
  BY ZerosStable DEF Body, TypeOK, ZeroOK
<1>7. NothingForeign'
  BY ZerosType DEF Body, TypeOK, ZeroOK, NothingForeign
<1> QED
  BY <1>1, <1>2, <1>3, <1>4, <1>5, <1>6, <1>7

\* The assembly refuses its ids.
LEMMA AssembleRefusesStep ==
    ASSUME IInv, NEW k \in Checkouts, AssembleRefuses(k)
    PROVE  IInv'
<1> USE DEF IInv
<1>1. TypeOK'
  BY PoolAssumption DEF AssembleRefuses, TypeOK, Phases
<1>2. CheckoutOK'
  BY PoolAssumption DEF AssembleRefuses, TypeOK, CheckoutOK, Inside, Phases
<1>3. Exclusive'
  BY PoolAssumption DEF AssembleRefuses, TypeOK, Exclusive
<1>4. WrittenOK'
  BY DEF AssembleRefuses, TypeOK, WrittenOK
<1>5. OwnFeatures'
  BY DEF AssembleRefuses, TypeOK, OwnFeatures
<1>6. ZeroOK'
  BY ZerosStable DEF AssembleRefuses, TypeOK, ZeroOK
<1>7. NothingForeign'
  BY DEF AssembleRefuses, TypeOK, NothingForeign
<1> QED
  BY <1>1, <1>2, <1>3, <1>4, <1>5, <1>6, <1>7

\* The assembly begins.
LEMMA AssembleBeginsStep ==
    ASSUME IInv, NEW k \in Checkouts, AssembleBegins(k)
    PROVE  IInv'
<1> USE DEF IInv
<1>1. TypeOK'
  BY PoolAssumption DEF AssembleBegins, TypeOK, Phases
<1>2. CheckoutOK'
  BY PoolAssumption DEF AssembleBegins, TypeOK, CheckoutOK, Inside, Phases
<1>3. Exclusive'
  BY PoolAssumption DEF AssembleBegins, TypeOK, Exclusive
<1>4. WrittenOK'
  BY DEF AssembleBegins, TypeOK, WrittenOK
<1>5. OwnFeatures'
  BY DEF AssembleBegins, TypeOK, OwnFeatures
<1>6. ZeroOK'
  BY ZerosStable DEF AssembleBegins, TypeOK, ZeroOK
<1>7. NothingForeign'
  BY DEF AssembleBegins, TypeOK, NothingForeign
<1> QED
  BY <1>1, <1>2, <1>3, <1>4, <1>5, <1>6, <1>7

\* The assembly raises half way.
LEMMA AssembleRaisesStep ==
    ASSUME IInv, NEW k \in Checkouts, AssembleRaises(k)
    PROVE  IInv'
<1> USE DEF IInv
<1>1. TypeOK'
  BY PoolAssumption DEF AssembleRaises, TypeOK, Phases
<1>2. CheckoutOK'
  BY PoolAssumption DEF AssembleRaises, TypeOK, CheckoutOK, Inside, Phases
<1>3. Exclusive'
  BY PoolAssumption DEF AssembleRaises, TypeOK, Exclusive
<1>4. WrittenOK'
  BY DEF AssembleRaises, TypeOK, WrittenOK
<1>5. OwnFeatures'
  BY DEF AssembleRaises, TypeOK, OwnFeatures
<1>6. ZeroOK'
  BY ZerosStable DEF AssembleRaises, TypeOK, ZeroOK
<1>7. NothingForeign'
  BY DEF AssembleRaises, TypeOK, NothingForeign
<1> QED
  BY <1>1, <1>2, <1>3, <1>4, <1>5, <1>6, <1>7

\* The assembly returns.
LEMMA AssembleReturnsStep ==
    ASSUME IInv, NEW k \in Checkouts, AssembleReturns(k)
    PROVE  IInv'
<1> USE DEF IInv
<1>1. TypeOK'
  BY PoolAssumption DEF AssembleReturns, TypeOK, Phases
<1>2. CheckoutOK'
  BY PoolAssumption DEF AssembleReturns, TypeOK, CheckoutOK, Inside, Phases
<1>3. Exclusive'
  BY PoolAssumption DEF AssembleReturns, TypeOK, Exclusive
<1>4. WrittenOK'
  BY DEF AssembleReturns, TypeOK, WrittenOK
<1>5. OwnFeatures'
  BY DEF AssembleReturns, TypeOK, WrittenOK, OwnFeatures
<1>6. ZeroOK'
  BY ZerosStable DEF AssembleReturns, TypeOK, ZeroOK
<1>7. NothingForeign'
  BY DEF AssembleReturns, TypeOK, NothingForeign
<1> QED
  BY <1>1, <1>2, <1>3, <1>4, <1>5, <1>6, <1>7

\* __exit__ begins.
LEMMA ExitStep ==
    ASSUME IInv, NEW k \in Checkouts, Exit(k)
    PROVE  IInv'
<1> USE DEF IInv
<1>1. TypeOK'
  BY PoolAssumption DEF Exit, TypeOK, Phases
<1>2. CheckoutOK'
  BY PoolAssumption DEF Exit, TypeOK, CheckoutOK, Inside, Phases
<1>3. Exclusive'
  <2>1. buf' = buf /\ pool' = pool
    BY DEF Exit, TypeOK, CheckoutOK
  <2> QED
    BY <2>1 DEF Exclusive
<1>4. WrittenOK'
  BY DEF Exit, TypeOK, WrittenOK
<1>5. OwnFeatures'
  BY DEF Exit, TypeOK, OwnFeatures
<1>6. ZeroOK'
  BY ZerosStable DEF Exit, TypeOK, ZeroOK
<1>7. NothingForeign'
  BY DEF Exit, TypeOK, NothingForeign
<1> QED
  BY <1>1, <1>2, <1>3, <1>4, <1>5, <1>6, <1>7

\* fill(0).
LEMMA ZeroStep ==
    ASSUME IInv, NEW k \in Checkouts, Zero(k)
    PROVE  IInv'
<1> USE DEF IInv
<1>1. pc[k] # "idle" /\ buf[k] \in Buffers /\ buf[k] \notin Range(pool)
  BY PoolAssumption DEF Zero, TypeOK, Exclusive
<1>2. \A u \in Checkouts \ {k} : buf[u] # buf[k]
  BY <1>1, PoolAssumption DEF Exclusive
<1>3. \A b \in Buffers : b # buf[k] => content'[b] = content[b]
  BY DEF Zero, TypeOK
<1>4. \A b \in Range(pool) : content'[b] = content[b]
  BY <1>1, <1>3, RangeType DEF TypeOK
<1>5. \A u \in Checkouts \ {k} :
         /\ pc'[u] = pc[u] /\ ids'[u] = ids[u] /\ todo'[u] = todo[u]
         /\ slot'[u] = slot[u] /\ buf'[u] = buf[u]
         /\ pc[u] # "idle" => content'[buf[u]] = content[buf[u]]
  BY <1>2, <1>3 DEF Zero, TypeOK
<1>6. kind' = kind /\ Zeros' = Zeros
  BY ZerosStable DEF Zero
<1>7. TypeOK'
  <2>1. content' \in [Buffers -> [kind.rows -> [Cells -> Values]]]
    BY <1>1, ZerosType DEF Zero, TypeOK
  <2> QED
    BY <2>1, <1>6 DEF Zero, TypeOK, Phases
<1>8. CheckoutOK'
  BY DEF Zero, TypeOK, CheckoutOK, Inside
<1>9. Exclusive'
  BY DEF Zero, Exclusive
<1>10. WrittenOK'
  <2>1. pc'[k] = "check"
    BY DEF Zero, TypeOK
  <2> QED
    BY <1>5, <1>6, <2>1 DEF WrittenOK, Value
<1>11. OwnFeatures'
  <2>1. pc'[k] = "check"
    BY DEF Zero, TypeOK
  <2> QED
    BY <1>5, <1>6, <2>1 DEF OwnFeatures, Value
<1>12. ZeroOK'
  <2>1. kind.zero => content'[buf[k]] = Zeros
    BY <1>1 DEF Zero, TypeOK
  <2>2. pool' = pool /\ buf' = buf
    BY DEF Zero
  <2> QED
    BY <1>4, <1>5, <1>6, <2>1, <2>2 DEF ZeroOK
<1>13. NothingForeign'
  BY <1>5, <1>6 DEF Zero, TypeOK, NothingForeign
<1> QED
  BY <1>7, <1>8, <1>9, <1>10, <1>11, <1>12, <1>13

\* There is room.
LEMMA HasRoomStep ==
    ASSUME IInv, NEW k \in Checkouts, HasRoom(k)
    PROVE  IInv'
<1> USE DEF IInv
<1>1. TypeOK'
  BY PoolAssumption DEF HasRoom, TypeOK, Phases
<1>2. CheckoutOK'
  BY PoolAssumption DEF HasRoom, TypeOK, CheckoutOK, Inside, Phases
<1>3. Exclusive'
  BY PoolAssumption DEF HasRoom, TypeOK, Exclusive
<1>4. WrittenOK'
  BY DEF HasRoom, TypeOK, WrittenOK
<1>5. OwnFeatures'
  BY DEF HasRoom, TypeOK, OwnFeatures
<1>6. ZeroOK'
  BY ZerosStable DEF HasRoom, TypeOK, ZeroOK
<1>7. NothingForeign'
  BY DEF HasRoom, TypeOK, NothingForeign
<1> QED
  BY <1>1, <1>2, <1>3, <1>4, <1>5, <1>6, <1>7

\* There is no room.
LEMMA IsFullStep ==
    ASSUME IInv, NEW k \in Checkouts, IsFull(k)
    PROVE  IInv'
<1> USE DEF IInv
<1>1. pc[k] # "idle" /\ buf[k] \in Buffers /\ buf[k] \notin Range(pool)
  BY PoolAssumption DEF IsFull, TypeOK, Exclusive
<1>2. \A u \in Checkouts \ {k} : buf[u] # buf[k]
  BY <1>1, PoolAssumption DEF Exclusive
<1>3. \A b \in Buffers : b # buf[k] => content'[b] = content[b]
  BY DEF IsFull, Drop, Leave, TypeOK
<1>4. \A b \in Range(pool) : content'[b] = content[b]
  BY <1>1, <1>3, RangeType DEF TypeOK
<1>5. \A u \in Checkouts \ {k} :
         /\ pc'[u] = pc[u] /\ ids'[u] = ids[u] /\ todo'[u] = todo[u]
         /\ slot'[u] = slot[u] /\ buf'[u] = buf[u]
         /\ pc[u] # "idle" => content'[buf[u]] = content[buf[u]]
  BY <1>2, <1>3 DEF IsFull, Drop, Leave, TypeOK
<1>6. kind' = kind /\ Zeros' = Zeros
  BY ZerosStable DEF IsFull, Drop, Leave
<1>7. TypeOK'
  BY <1>1, ZerosType DEF IsFull, Drop, Leave, TypeOK, Phases
<1>8. CheckoutOK'
  BY DEF IsFull, Drop, Leave, TypeOK, CheckoutOK, Inside
<1>9. Exclusive'
  BY <1>5 DEF IsFull, Drop, Leave, TypeOK, Exclusive
<1>10. WrittenOK'
  BY <1>5, <1>6 DEF IsFull, Drop, Leave, TypeOK, WrittenOK
<1>11. OwnFeatures'
  BY <1>5, <1>6 DEF IsFull, Drop, Leave, TypeOK, OwnFeatures
<1>12. ZeroOK'
  <2>1. pool' = pool /\ pc'[k] = "idle"
    BY DEF IsFull, Drop, Leave, TypeOK
  <2> QED
    BY <1>4, <1>5, <1>6, <2>1 DEF ZeroOK
<1>13. NothingForeign'
  BY <1>5, <1>6 DEF IsFull, Drop, Leave, TypeOK, NothingForeign
<1> QED
  BY <1>7, <1>8, <1>9, <1>10, <1>11, <1>12, <1>13

\* An interrupt outside the body.
LEMMA InterruptStep ==
    ASSUME IInv, NEW k \in Checkouts, Interrupt(k)
    PROVE  IInv'
<1> USE DEF IInv
<1>1. pc[k] # "idle" /\ buf[k] \in Buffers /\ buf[k] \notin Range(pool)
  BY PoolAssumption DEF Interrupt, TypeOK, Exclusive
<1>2. \A u \in Checkouts \ {k} : buf[u] # buf[k]
  BY <1>1, PoolAssumption DEF Exclusive
<1>3. \A b \in Buffers : b # buf[k] => content'[b] = content[b]
  BY DEF Interrupt, Drop, Leave, TypeOK
<1>4. \A b \in Range(pool) : content'[b] = content[b]
  BY <1>1, <1>3, RangeType DEF TypeOK
<1>5. \A u \in Checkouts \ {k} :
         /\ pc'[u] = pc[u] /\ ids'[u] = ids[u] /\ todo'[u] = todo[u]
         /\ slot'[u] = slot[u] /\ buf'[u] = buf[u]
         /\ pc[u] # "idle" => content'[buf[u]] = content[buf[u]]
  BY <1>2, <1>3 DEF Interrupt, Drop, Leave, TypeOK
<1>6. kind' = kind /\ Zeros' = Zeros
  BY ZerosStable DEF Interrupt, Drop, Leave
<1>7. TypeOK'
  BY <1>1, ZerosType DEF Interrupt, Drop, Leave, TypeOK, Phases
<1>8. CheckoutOK'
  BY DEF Interrupt, Drop, Leave, TypeOK, CheckoutOK, Inside
<1>9. Exclusive'
  BY <1>5 DEF Interrupt, Drop, Leave, TypeOK, Exclusive
<1>10. WrittenOK'
  BY <1>5, <1>6 DEF Interrupt, Drop, Leave, TypeOK, WrittenOK
<1>11. OwnFeatures'
  BY <1>5, <1>6 DEF Interrupt, Drop, Leave, TypeOK, OwnFeatures
<1>12. ZeroOK'
  <2>1. pool' = pool /\ pc'[k] = "idle"
    BY DEF Interrupt, Drop, Leave, TypeOK
  <2> QED
    BY <1>4, <1>5, <1>6, <2>1 DEF ZeroOK
<1>13. NothingForeign'
  BY <1>5, <1>6 DEF Interrupt, Drop, Leave, TypeOK, NothingForeign
<1> QED
  BY <1>7, <1>8, <1>9, <1>10, <1>11, <1>12, <1>13

\* append.
LEMMA AppendBufStep ==
    ASSUME IInv, NEW k \in Checkouts, AppendBuf(k)
    PROVE  IInv'
<1> USE DEF IInv
<1>1. pc[k] # "idle" /\ buf[k] \in Buffers /\ buf[k] \notin Range(pool)
  BY PoolAssumption DEF AppendBuf, TypeOK, Exclusive
<1>2. \A u \in Checkouts \ {k} : buf[u] # buf[k]
  BY <1>1, PoolAssumption DEF Exclusive
<1>3. \A b \in Buffers : b # buf[k] => content'[b] = content[b]
  BY DEF AppendBuf, Leave, TypeOK
<1>4. \A b \in Range(pool) : content'[b] = content[b]
  BY <1>1, <1>3, RangeType DEF TypeOK
<1>5. \A u \in Checkouts \ {k} :
         /\ pc'[u] = pc[u] /\ ids'[u] = ids[u] /\ todo'[u] = todo[u]
         /\ slot'[u] = slot[u] /\ buf'[u] = buf[u]
         /\ pc[u] # "idle" => content'[buf[u]] = content[buf[u]]
  BY <1>2, <1>3 DEF AppendBuf, Leave, TypeOK
<1>6. kind' = kind /\ Zeros' = Zeros
  BY ZerosStable DEF AppendBuf, Leave
<1>7. /\ pool' \in Seq(Buffers) /\ Range(pool') = Range(pool) \cup {buf[k]}
      /\ \A i, j \in 1..Len(pool') : pool'[i] = pool'[j] => i = j
  <2>1. /\ pool' = Append(pool, buf[k]) /\ pool \in Seq(Buffers)
        /\ \A i, j \in 1..Len(pool) : pool[i] = pool[j] => i = j
    BY DEF AppendBuf, TypeOK, Exclusive
  <2> QED
    BY <1>1, <2>1, AppendRange
<1>8. TypeOK'
  BY <1>1, <1>7 DEF AppendBuf, Leave, TypeOK, Phases
<1>9. CheckoutOK'
  BY DEF AppendBuf, Leave, TypeOK, CheckoutOK, Inside
<1>10. Exclusive'
  <2>1. buf'[k] = None
    BY DEF AppendBuf, Leave, TypeOK
  <2> QED
    BY <1>2, <1>5, <1>7, <2>1 DEF Exclusive
<1>11. WrittenOK'
  BY <1>5, <1>6 DEF AppendBuf, Leave, TypeOK, WrittenOK
<1>12. OwnFeatures'
  BY <1>5, <1>6 DEF AppendBuf, Leave, TypeOK, OwnFeatures
<1>13. ZeroOK'
  <2>1. content' = content /\ pc'[k] = "idle" /\ pc[k] = "append"
    BY DEF AppendBuf, Leave, TypeOK
  <2> QED
    BY <1>4, <1>5, <1>6, <1>7, <2>1 DEF ZeroOK
<1>14. NothingForeign'
  BY <1>5, <1>6 DEF AppendBuf, Leave, TypeOK, NothingForeign
<1> QED
  BY <1>7, <1>8, <1>9, <1>10, <1>11, <1>12, <1>13, <1>14

\* One cell is written.
LEMMA WriteCellStep ==
    ASSUME IInv, NEW k \in Checkouts, NEW x \in kind.rows \X Cells, WriteCell(k, x)
    PROVE  IInv'
<1> USE DEF IInv
<1>1. pc[k] # "idle" /\ buf[k] \in Buffers /\ buf[k] \notin Range(pool)
  BY PoolAssumption DEF WriteCell, TypeOK, Exclusive
<1>2. \A u \in Checkouts \ {k} : buf[u] # buf[k]
  BY <1>1, PoolAssumption DEF Exclusive
<1>3. \A b \in Buffers : b # buf[k] => content'[b] = content[b]
  BY DEF WriteCell, TypeOK
<1>4. \A b \in Range(pool) : content'[b] = content[b]
  BY <1>1, <1>3, RangeType DEF TypeOK
<1>5. \A u \in Checkouts \ {k} :
         /\ pc'[u] = pc[u] /\ ids'[u] = ids[u] /\ todo'[u] = todo[u]
         /\ slot'[u] = slot[u] /\ buf'[u] = buf[u]
         /\ pc[u] # "idle" => content'[buf[u]] = content[buf[u]]
  BY <1>2, <1>3 DEF WriteCell, TypeOK
<1>6. kind' = kind /\ Zeros' = Zeros
  BY ZerosStable DEF WriteCell
<1>7. Value(ids[k][x[1]]) \in Values /\ x[1] \in kind.rows /\ x[2] \in Cells /\ x = <<x[1], x[2]>>
  BY DEF WriteCell, TypeOK, CheckoutOK, Value, Values, Inside
<1>8. \A r \in kind.rows, c \in Cells :
         content'[buf[k]][r][c] = IF <<r, c>> = x THEN Value(ids[k][r])
                                                  ELSE content[buf[k]][r][c]
  BY <1>1, <1>7 DEF WriteCell, TypeOK
<1>9. TypeOK'
  BY <1>1, <1>7 DEF WriteCell, TypeOK, Phases
<1>10. CheckoutOK'
  BY DEF WriteCell, CheckoutOK
<1>11. Exclusive'
  BY DEF WriteCell, Exclusive
<1>12. WrittenOK'
  <2>1. \A r \in kind.rows, c \in Cells :
         <<r, c>> \notin todo'[k] => <<r, c>> \notin todo[k] \/ <<r, c>> = x
    BY DEF WriteCell, TypeOK
  <2>2. ids' = ids /\ pc' = pc /\ buf' = buf
    BY DEF WriteCell
  <2> QED
    BY <1>5, <1>6, <1>8, <2>1, <2>2 DEF WrittenOK, Value
<1>13. OwnFeatures'
  <2>1. pc' = pc /\ pc[k] = "writing"
    BY DEF WriteCell
  <2> QED
    BY <1>5, <1>6, <2>1 DEF OwnFeatures, Value
<1>14. ZeroOK'
  <2>1. pc' = pc /\ pc[k] = "writing" /\ pool' = pool
    BY DEF WriteCell
  <2> QED
    BY <1>4, <1>5, <1>6, <2>1 DEF ZeroOK
<1>15. NothingForeign'
  <2>1. ids' = ids /\ pc' = pc /\ buf' = buf
    BY DEF WriteCell
  <2> QED
    BY <1>5, <1>6, <1>8, <2>1 DEF NothingForeign, Value
<1> QED
  BY <1>7, <1>8, <1>9, <1>10, <1>11, <1>12, <1>13, <1>14, <1>15

--------------------------------------------------------------------------------
(* The invariant *)

\* Finitely many checkouts are open.
LEMMA CheckoutsFinite == IsFiniteSet(Checkouts)
BY PoolAssumption

\* __init__ fills the deque with buffers of zeros.
LEMMA InitInvariant == Init => IInv
<1> SUFFICES ASSUME Init PROVE IInv
  OBVIOUS
<1>1. pool \in Seq(Buffers) /\ Len(pool) = MaxSize /\ \A i \in 1..MaxSize : pool[i] = i
  <2>1. Cardinality(Threads) \in Nat /\ Cardinality(Checkouts) \in Nat
    BY PoolAssumption, CheckoutsFinite, FS_CardinalityType
  <2>2. \A i \in 1..MaxSize : i \in Buffers
    BY <2>1, PoolAssumption DEF Buffers
  <2> QED
    BY <2>2, PoolAssumption DEF Init
<1>2. TypeOK
  BY <1>1, ZerosType DEF Init, TypeOK, Phases
<1>3. CheckoutOK /\ WrittenOK /\ OwnFeatures /\ NothingForeign
  BY DEF Init, CheckoutOK, Inside, WrittenOK, OwnFeatures, NothingForeign
<1>4. Exclusive
  BY <1>1 DEF Init, Exclusive
<1>5. ZeroOK
  BY <1>1, RangeType DEF Init, ZeroOK
<1> QED
  BY <1>2, <1>3, <1>4, <1>5 DEF IInv

\* Every step of every checkout keeps the invariant.
LEMMA NextInvariant == IInv /\ [Next]_vars => IInv'
<1> SUFFICES ASSUME IInv, [Next]_vars PROVE IInv'
  OBVIOUS
<1>1. ASSUME NEW k \in Checkouts, Step(k)
      PROVE  IInv'
  <2>1. CASE \E x \in kind.rows \X Cells : WriteCell(k, x)
    BY <2>1, WriteCellStep
  <2>2. CASE ~\E x \in kind.rows \X Cells : WriteCell(k, x)
    BY <1>1, <2>2, EnterHitStep, EnterMissStep, BodyStep, AssembleRefusesStep,
       AssembleBeginsStep, AssembleRaisesStep, AssembleReturnsStep, ExitStep, ZeroStep,
       HasRoomStep, IsFullStep, AppendBufStep, InterruptStep, Zenon
    DEF Step
  <2> QED
    BY <2>1, <2>2
<1>2. CASE UNCHANGED vars
  <2>1. UNCHANGED <<kind, pool, content, pc, buf, slot, ids, todo>> /\ Zeros' = Zeros
    BY <1>2, ZerosStable DEF vars
  <2>2. TypeOK' /\ CheckoutOK' /\ Exclusive'
    BY <2>1 DEF IInv, TypeOK, CheckoutOK, Exclusive
  <2>3. WrittenOK' /\ OwnFeatures' /\ ZeroOK' /\ NothingForeign'
    BY <2>1 DEF IInv, WrittenOK, OwnFeatures, ZeroOK, NothingForeign, Value
  <2> QED
    BY <2>2, <2>3 DEF IInv
<1> QED
  BY <1>1, <1>2 DEF Next

\* The inductive invariant holds in every reachable state.
THEOREM Invariant == Spec => []IInv
BY InitInvariant, NextInvariant, PTL DEF Spec

\* Type correctness: a checkout has a buffer exactly from popleft to the end of __exit__.
THEOREM TypeCorrect == Spec => []TypeOK
<1>1. IInv => TypeOK
  BY DEF IInv
<1> QED
  BY <1>1, Invariant, PTL

\* A buffer has one owner, although checkouts and returns take no lock: for any
\* number of threads with any number of checkouts each, interrupted anywhere.
THEOREM BuffersAreExclusive == Spec => []Exclusive
<1>1. IInv => Exclusive
  BY DEF IInv
<1> QED
  BY <1>1, Invariant, PTL

\* An assembly that returns has left the features of its own ids, in the pool that
\* zeroes and in the one that does not.
THEOREM FeaturesAreOwn == Spec => []OwnFeatures
<1>1. IInv => OwnFeatures
  BY DEF IInv
<1> QED
  BY <1>1, Invariant, PTL

\* In the pool that zeroes, not even a body whose assembly raised half way finds
\* another request's features.
THEOREM FeaturesAreNeverForeign == Spec => []NothingForeign
<1>1. IInv => NothingForeign
  BY DEF IInv
<1> QED
  BY <1>1, Invariant, PTL

--------------------------------------------------------------------------------
(* How long the deque is *)

\* A thread is in the middle of one checkout only.
OneBusy ==
    \A j, k \in Checkouts :
        Thread(j) = Thread(k) /\ pc[j] \in Busy /\ pc[k] \in Busy => j = k

\* The threads that have read the length and are about to append.
Appending == {t \in Threads : \E k \in Checkouts : Thread(k) = t /\ pc[k] = "append"}

\* The deque with what is about to be appended.
Committed == Len(pool) + Cardinality(Appending) <= MaxSize + Cardinality(Threads) - 1

\* A checkout belongs to a thread.
LEMMA ThreadType == \A k \in Checkouts : Thread(k) \in Threads
BY PoolAssumption DEF Thread

\* A thread begins nothing while it is in the middle of a checkout.
LEMMA BusyStep == ASSUME IInv, OneBusy, [Next]_vars PROVE OneBusy'
<1> USE DEF IInv
<1>1. ASSUME NEW k \in Checkouts, Step(k)
      PROVE  OneBusy'
  <2>1. \A j \in Checkouts \ {k} : pc'[j] = pc[j]
    <3>1. pc' = pc \/ \E p \in Phases : pc' = [pc EXCEPT ![k] = p]
      BY <1>1 DEF Step, EnterHit, EnterMiss, Body, AssembleRefuses, AssembleBegins, AssembleRaises,
         AssembleReturns, WriteCell, Exit, Zero, HasRoom, IsFull, AppendBuf, Interrupt, Leave,
         Phases
    <3> QED
      BY <3>1 DEF TypeOK
  <2>2. Runs(k)
    BY <1>1 DEF Step
  <2> QED
    BY <2>1, <2>2 DEF Runs, OneBusy
<1>2. CASE UNCHANGED vars
  BY <1>2 DEF vars, OneBusy
<1> QED
  BY <1>1, <1>2 DEF Next

\* The threads that append are threads, finitely many.
LEMMA AppendingFinite ==
    /\ IsFiniteSet(Appending) /\ Cardinality(Appending) \in Nat
    /\ Cardinality(Threads) \in Nat /\ Cardinality(Appending) <= Cardinality(Threads)
<1>1. Appending \subseteq Threads
  BY DEF Appending
<1> QED
  BY <1>1, PoolAssumption, FS_Subset, FS_CardinalityType

\* What a step does to the deque and to those about to append.
Moves ==
    \/ pool' = pool /\ Appending' \subseteq Appending
    \/ pool # <<>> /\ pool' = Tail(pool) /\ Appending' = Appending
    \/ \E k \in Checkouts : /\ pool' = Append(pool, buf[k])
                            /\ Thread(k) \in Appending
                            /\ Appending' = Appending \ {Thread(k)}
    \/ Len(pool) < MaxSize /\ pool' = pool /\ Appending' \subseteq Threads

\* A checkout that is not about to append after the step adds nobody.
LEMMA AppendingShrinks ==
    ASSUME TypeOK, NEW k \in Checkouts, NEW p \in Phases \ {"append"},
           pc' = [pc EXCEPT ![k] = p]
    PROVE  /\ Appending' \subseteq Appending
           /\ pc[k] # "append" => Appending' = Appending
<1>1. pc'[k] = p /\ \A j \in Checkouts \ {k} : pc'[j] = pc[j]
  BY DEF TypeOK
<1> QED
  BY <1>1 DEF Appending

\* Nothing else happens to them.
LEMMA MovesStep == ASSUME IInv, OneBusy, [Next]_vars PROVE Moves
<1> USE DEF IInv
<1>1. UNCHANGED vars => Moves
  BY DEF vars, Moves, Appending
<1>2. ASSUME NEW k \in Checkouts, EnterHit(k)
      PROVE  Moves
  <2>1. pc[k] # "append" /\ pc' = [pc EXCEPT ![k] = "entered"]
    BY <1>2 DEF EnterHit
  <2>2. Appending' = Appending
    BY <2>1, AppendingShrinks DEF Phases
  <2> QED
    BY <1>2, <2>2 DEF EnterHit, Moves
<1>3. ASSUME NEW k \in Checkouts, HasRoom(k)
      PROVE  Moves
  BY <1>3 DEF HasRoom, Moves, Appending
<1>4. ASSUME NEW k \in Checkouts, AppendBuf(k)
      PROVE  Moves
  <2>1. pc[k] = "append" /\ pool' = Append(pool, buf[k]) /\ pc' = [pc EXCEPT ![k] = "idle"]
    BY <1>4 DEF AppendBuf, Leave
  <2>2. pc'[k] = "idle" /\ \A j \in Checkouts \ {k} : pc'[j] = pc[j]
    BY <2>1 DEF TypeOK
  <2>3. Thread(k) \in Appending
    BY <2>1, ThreadType DEF Appending
  <2>4. \A j \in Checkouts : pc[j] = "append" /\ Thread(j) = Thread(k) => j = k
    BY <2>1 DEF OneBusy, Busy
  <2>5. Appending' = Appending \ {Thread(k)}
    BY <2>1, <2>2, <2>4 DEF Appending
  <2> QED
    BY <2>1, <2>3, <2>5 DEF Moves
<1>5. ASSUME NEW k \in Checkouts, NEW p \in Phases \ {"append"},
             pool' = pool, pc' = [pc EXCEPT ![k] = p]
      PROVE  Moves
  BY <1>5, AppendingShrinks DEF Moves
<1>6. ASSUME NEW k \in Checkouts, EnterMiss(k) \/ Body(k)
      PROVE  pool' = pool /\ \E p \in Phases \ {"append"} : pc' = [pc EXCEPT ![k] = p]
  BY <1>6 DEF EnterMiss, Body, Phases
<1>7. ASSUME NEW k \in Checkouts,
             \/ AssembleRefuses(k) \/ AssembleBegins(k) \/ AssembleRaises(k)
             \/ AssembleReturns(k)
      PROVE  pool' = pool /\ \E p \in Phases \ {"append"} : pc' = [pc EXCEPT ![k] = p]
  BY <1>7 DEF AssembleRefuses, AssembleBegins, AssembleRaises, AssembleReturns, Phases
<1>8. ASSUME NEW k \in Checkouts, Exit(k) \/ Zero(k) \/ IsFull(k) \/ Interrupt(k)
      PROVE  pool' = pool /\ \E p \in Phases \ {"append"} : pc' = [pc EXCEPT ![k] = p]
  BY <1>8 DEF Exit, Zero, IsFull, Interrupt, Leave, Phases
<1>9. ASSUME NEW k \in Checkouts, \E x \in kind.rows \X Cells : WriteCell(k, x)
      PROVE  Moves
  BY <1>9 DEF WriteCell, Moves, Appending
<1>10. ASSUME NEW k \in Checkouts, Step(k)
       PROVE  Moves
  BY <1>2, <1>3, <1>4, <1>5, <1>6, <1>7, <1>8, <1>9, <1>10, Zenon DEF Step
<1> QED
  BY <1>1, <1>10, Zenon DEF Next

\* The cap of __exit__: however many buffers were out at once, the deque is never
\* longer than max_size and one more for every other thread, whose reading of the length
\* may be stale.
THEOREM MemoryIsBounded == Spec => []Bounded
<1>1. Init => OneBusy /\ Committed
  <2> SUFFICES ASSUME Init PROVE OneBusy /\ Committed
    OBVIOUS
  <2>1. Len(pool) = MaxSize
    BY PoolAssumption DEF Init
  <2>2. Appending = {} /\ OneBusy
    BY DEF Init, Appending, OneBusy, Busy
  <2>3. Cardinality({}) = 0 /\ Cardinality(Threads) \in Nat /\ Cardinality(Threads) # 0
    BY PoolAssumption, FS_EmptySet, FS_CardinalityType
  <2> QED
    BY <2>1, <2>2, <2>3, PoolAssumption DEF Committed
<1>2. IInv /\ OneBusy /\ Committed /\ [Next]_vars => OneBusy' /\ Committed'
  <2> SUFFICES ASSUME IInv, OneBusy, Committed, [Next]_vars PROVE OneBusy' /\ Committed'
    OBVIOUS
  <2>1. Moves
    BY MovesStep
  <2> DEFINE n == Cardinality(Appending)
             c == Cardinality(Threads)
  <2>2. IsFiniteSet(Appending) /\ n \in Nat /\ c \in Nat /\ n <= c
    BY AppendingFinite
  <2>3. /\ Len(pool) \in Nat /\ pool \in Seq(Buffers) /\ MaxSize \in Nat
        /\ Len(pool) + n <= MaxSize + c - 1
    BY PoolAssumption DEF IInv, TypeOK, Committed
  <2>4. Len(pool') + Cardinality(Appending') <= MaxSize + c - 1
    <3>1. CASE pool' = pool /\ Appending' \subseteq Appending
      <4>1. Cardinality(Appending') \in Nat /\ Cardinality(Appending') <= n
        BY <2>2, <3>1, FS_Subset, FS_CardinalityType
      <4> HIDE DEF n, c
      <4> QED
        BY <2>2, <2>3, <3>1, <4>1
    <3>2. CASE pool # <<>> /\ pool' = Tail(pool) /\ Appending' = Appending
      <4>1. Len(pool') = Len(pool) - 1
        BY <2>3, <3>2
      <4> HIDE DEF c
      <4> QED
        BY <2>2, <2>3, <3>2, <4>1
    <3>3. ASSUME NEW k \in Checkouts, pool' = Append(pool, buf[k]),
                 Thread(k) \in Appending, Appending' = Appending \ {Thread(k)}
          PROVE  Len(pool') + Cardinality(Appending') <= MaxSize + c - 1
      <4>1. Cardinality(Appending') = n - 1
        BY <2>2, <3>3, FS_RemoveElement
      <4>2. Len(pool') = Len(pool) + 1
        BY <2>3, <3>3
      <4> HIDE DEF n, c
      <4> QED
        BY <2>2, <2>3, <4>1, <4>2
    <3>4. CASE Len(pool) < MaxSize /\ pool' = pool /\ Appending' \subseteq Threads
      <4>1. Cardinality(Appending') \in Nat /\ Cardinality(Appending') <= c
        BY <3>4, PoolAssumption, FS_Subset, FS_CardinalityType
      <4> HIDE DEF n, c
      <4> QED
        BY <2>2, <2>3, <3>4, <4>1
    <3> QED
      BY <2>1, <3>1, <3>2, <3>3, <3>4, Zenon DEF Moves
  <2> QED
    BY <2>4, BusyStep DEF Committed
<1>3. IInv /\ Committed => Bounded
  <2> SUFFICES ASSUME IInv, Committed PROVE Bounded
    OBVIOUS
  <2>1. Len(pool) \in Nat /\ MaxSize \in Nat
    BY PoolAssumption DEF IInv, TypeOK
  <2> QED
    BY <2>1, AppendingFinite DEF Committed, Bounded
<1> QED
  BY <1>1, <1>2, <1>3, Invariant, PTL DEF Spec

================================================================================
