---------------------------- MODULE RowFormatProofs -----------------------------
(*****************************************************************************)
(* The layout of a segment for every schema, capacity and id length: regions *)
(* and fields do not overlap and are aligned.  And the bytes of a row: the   *)
(* pack plan, the bulk insert, the assembly and the upgrade agree about them *)
(* for every pair of schemas, whatever order hashes and declarations have.   *)
(*****************************************************************************)
EXTENDS RowFormat, FiniteSetTheorems, WellFoundedInduction, TLAPS

--------------------------------------------------------------------------------
(* Induction and recursion.  The library's induction theorems speak of an      *)
(* operator; these speak of a set or a function, which the provers can find.   *)

\* A nonempty set of naturals has a least element.
LEMMA NatMin ==
    ASSUME NEW T, T \subseteq Nat, T # {}
    PROVE  \E x \in T : \A y \in T : x <= y
<1> DEFINE R == OpToRel(<, Nat)
<1>1. IsWellFoundedOn(R, Nat)
  BY NatLessThanWellFounded, Zenon
<1>2. \A x, y \in Nat : y < x => <<y, x>> \in R
  BY DEF OpToRel
<1> HIDE DEF R
<1>3. PICK x \in T : \A y \in T : ~(<<y, x>> \in R)
  BY <1>1, WFMin
<1>4. \A y \in T : x \in Nat /\ y \in Nat /\ (y < x \/ x <= y)
  OBVIOUS
<1> QED
  BY <1>2, <1>3, <1>4

\* Induction up to a bound.
LEMMA UpTo ==
    ASSUME NEW n \in Nat, NEW S, 0 \in S,
           \A k \in 1..n : k - 1 \in S => k \in S
    PROVE  \A k \in 0..n : k \in S
<1> SUFFICES ASSUME (0..n) \ S # {} PROVE FALSE
  OBVIOUS
<1> DEFINE T == (0..n) \ S
<1>1. T \subseteq Nat
  OBVIOUS
<1>2. PICK x \in T : \A y \in T : x <= y
  BY <1>1, NatMin
<1>3. x \in 1..n
  BY <1>2
<1>4. x - 1 \in 0..n /\ ~(x <= x - 1)
  BY <1>3
<1>5. x - 1 \in S
  BY <1>2, <1>4
<1> QED
  BY <1>2, <1>3, <1>5

\* A recursion over naturals, from a base by a step, has a solution.
LEMMA Recursion ==
    ASSUME NEW n \in Nat, NEW base \in Nat, NEW step \in [(1..n) \X Nat -> Nat]
    PROVE  \E f \in [0..n -> Nat] :
              f[0] = base /\ \A k \in 1..n : f[k] = step[<<k, f[k - 1]>>]
<1> DEFINE Solves(f, m) ==
              /\ f \in [0..m -> Nat] /\ f[0] = base
              /\ \A k \in 1..m : f[k] = step[<<k, f[k - 1]>>]
           S == {m \in 0..n : \E f : Solves(f, m)}
<1>1. 0 \in S
  <2>1. Solves([k \in 0..0 |-> base], 0)
    OBVIOUS
  <2>2. \E f : Solves(f, 0)
    <3> HIDE DEF Solves
    <3> QED
      BY <2>1
  <2>3. 0 \in 0..n
    OBVIOUS
  <2> QED
    BY <2>2, <2>3
<1>2. ASSUME NEW m \in 1..n, m - 1 \in S PROVE m \in S
  <2>1. PICK f : Solves(f, m - 1)
    BY <1>2
  <2> DEFINE g == [k \in 0..m |-> IF k = m THEN step[<<m, f[m - 1]>>] ELSE f[k]]
  <2>2. f[m - 1] \in Nat /\ step[<<m, f[m - 1]>>] \in Nat
    <3>1. m - 1 \in 0..(m - 1)
      OBVIOUS
    <3>2. f[m - 1] \in Nat
      BY <2>1, <3>1
    <3>3. <<m, f[m - 1]>> \in (1..n) \X Nat
      BY <3>2
    <3> QED
      BY <3>2, <3>3
  <2>3. \A k \in 0..m : k # m => k \in 0..(m - 1)
    OBVIOUS
  <2>4. \A k \in 0..m : g[k] \in Nat
    BY <2>1, <2>2, <2>3
  <2>5. g \in [0..m -> Nat] /\ g[0] = base
    BY <2>1, <2>4
  <2>6. ASSUME NEW k \in 1..m PROVE g[k] = step[<<k, g[k - 1]>>]
    <3>1. k - 1 \in 0..m /\ k - 1 # m /\ k \in 0..m
      OBVIOUS
    <3>2. g[k - 1] = f[k - 1]
      BY <3>1
    <3>3. CASE k = m
      BY <3>1, <3>2, <3>3
    <3>4. CASE k # m
      <4>1. k \in 1..(m - 1)
        BY <3>4
      <4>2. f[k] = step[<<k, f[k - 1]>>]
        BY <2>1, <4>1
      <4> QED
        BY <3>1, <3>2, <3>4, <4>2
    <3> QED
      BY <3>3, <3>4
  <2>7. Solves(g, m)
    BY <2>5, <2>6
  <2>8. \E h : Solves(h, m)
    BY <2>7
  <2> QED
    BY <2>8, SMTT(30)
<1> HIDE DEF S
<1>3. n \in S
  <2>1. \A k \in 0..n : k \in S
    BY <1>1, <1>2, UpTo
  <2> QED
    BY <2>1
<1>4. PICK f : Solves(f, n)
  BY <1>3 DEF S
<1> QED
  BY <1>4

--------------------------------------------------------------------------------
(* Alignment *)

LEMMA AlignLine ==
    ASSUME NEW v \in Nat
    PROVE  /\ AlignUp(v, CACHE_LINE_SIZE) \in Nat
           /\ v <= AlignUp(v, CACHE_LINE_SIZE)
           /\ AlignUp(v, CACHE_LINE_SIZE) % 64 = 0
           /\ AlignUp(v + 64, CACHE_LINE_SIZE) = AlignUp(v, CACHE_LINE_SIZE) + 64
  BY DEF AlignUp, CACHE_LINE_SIZE

LEMMA AlignPage ==
    ASSUME NEW v \in Nat
    PROVE  /\ AlignUp(v, PAGE_SIZE) \in Nat
           /\ v <= AlignUp(v, PAGE_SIZE)
  BY DEF AlignUp, PAGE_SIZE

--------------------------------------------------------------------------------
(* Powers of two *)

LEMMA PowersEquations ==
    ASSUME NEW n \in Nat
    PROVE  /\ Powers(n) \in [0..n -> Nat]
           /\ Powers(n)[0] = 1
           /\ \A k \in 1..n : Powers(n)[k] = 2 * Powers(n)[k - 1]
<1> DEFINE step == [x \in (1..n) \X Nat |-> 2 * x[2]]
           Eq(f) == f = [k \in 0..n |-> IF k = 0 THEN 1 ELSE 2 * f[k - 1]]
<1>1. step \in [(1..n) \X Nat -> Nat] /\ \A k \in 1..n, v \in Nat : step[<<k, v>>] = 2 * v
  OBVIOUS
<1> HIDE DEF step
<1>2. PICK f \in [0..n -> Nat] :
         f[0] = 1 /\ \A k \in 1..n : f[k] = step[<<k, f[k - 1]>>]
  <2>1. 1 \in Nat /\ n \in Nat
    OBVIOUS
  <2> QED
    BY <1>1, <2>1, Recursion
<1>3. Eq(f)
  <2>1. ASSUME NEW k \in 0..n PROVE f[k] = IF k = 0 THEN 1 ELSE 2 * f[k - 1]
    <3>1. CASE k = 0
      BY <1>2, <3>1
    <3>2. CASE k # 0
      <4>1. k \in 1..n /\ k - 1 \in 0..n
        BY <3>2
      <4>2. f[k - 1] \in Nat
        BY <4>1
      <4> QED
        BY <1>1, <1>2, <3>2, <4>1, <4>2
    <3> QED
      BY <3>1, <3>2
  <2> QED
    BY <2>1
<1> DEFINE p == CHOOSE g : Eq(g)
<1>4. Eq(p)
  BY <1>3
<1>5. Powers(n) = p
  BY DEF Powers
<1> HIDE DEF p
<1>6. DOMAIN p = 0..n /\ p[0] = 1 /\ \A k \in 1..n : p[k] = 2 * p[k - 1]
  <2>1. \A k \in 0..n : p[k] = IF k = 0 THEN 1 ELSE 2 * p[k - 1]
    BY <1>4
  <2>2. DOMAIN p = 0..n
    BY <1>4
  <2>3. 0 \in 0..n /\ \A k \in 1..n : k \in 0..n /\ k # 0
    OBVIOUS
  <2> QED
    BY <2>1, <2>2, <2>3
<1>7. \A k \in 0..n : p[k] \in Nat
  <2> DEFINE S == {k \in 0..n : p[k] \in Nat}
  <2>1. 0 \in S
    BY <1>6
  <2>2. ASSUME NEW k \in 1..n, k - 1 \in S PROVE k \in S
    BY <1>6, <2>2
  <2>3. \A k \in 0..n : k \in S
    <3> HIDE DEF S
    <3> QED
      BY <2>1, <2>2, UpTo
  <2> QED
    BY <2>3
<1>8. p \in [0..n -> Nat]
  <2>1. p = [k \in 0..n |-> p[k]]
    BY <1>4
  <2> QED
    BY <1>7, <2>1
<1> QED
  BY <1>5, <1>6, <1>8

\* _next_pow2 is a power of two not below its argument.
LEMMA NextPow2Bounds ==
    ASSUME NEW n \in Nat
    PROVE  NextPow2(n) \in Nat /\ n <= NextPow2(n)
           /\ \E k \in 0..n : NextPow2(n) = Powers(n)[k]
<1> DEFINE power == Powers(n)
           Least(k) == power[k] >= n /\ \A j \in 0..(k - 1) : power[j] < n
<1>1. /\ power \in [0..n -> Nat] /\ power[0] = 1
      /\ \A k \in 1..n : power[k] = 2 * power[k - 1]
  BY PowersEquations
<1> HIDE DEF power
<1>2. power[n] >= n
  <2> DEFINE S == {k \in 0..n : power[k] >= k /\ power[k] >= 1}
  <2>1. 0 \in S
    BY <1>1
  <2>2. ASSUME NEW k \in 1..n, k - 1 \in S PROVE k \in S
    <3>1. power[k - 1] \in Nat /\ power[k - 1] >= k - 1 /\ power[k - 1] >= 1
      BY <1>1, <2>2
    <3>2. power[k] = 2 * power[k - 1]
      BY <1>1
    <3>3. power[k] >= k /\ power[k] >= 1
      BY <3>1, <3>2
    <3> QED
      BY <3>3
  <2>3. n \in S
    <3> HIDE DEF S
    <3>1. \A k \in 0..n : k \in S
      BY <2>1, <2>2, UpTo
    <3> QED
      BY <3>1
  <2> QED
    BY <2>3
<1>3. \E k \in 0..n : Least(k)
  <2> DEFINE T == {k \in 0..n : power[k] >= n}
  <2>1. T \subseteq Nat /\ n \in T
    BY <1>2
  <2>2. PICK k \in T : \A j \in T : k <= j
    BY <2>1, NatMin
  <2>3. ASSUME NEW j \in 0..(k - 1) PROVE power[j] < n
    <3>1. j \in 0..n /\ ~(k <= j)
      BY <2>2
    <3>2. power[j] \in Nat /\ ~(power[j] >= n)
      BY <1>1, <2>2, <3>1
    <3> QED
      BY <3>2
  <2> QED
    BY <2>2, <2>3
<1> DEFINE e == CHOOSE k \in 0..n : Least(k)
<1>4. e \in 0..n /\ Least(e)
  BY <1>3
<1>5. NextPow2(n) = power[e]
  BY DEF NextPow2, power
<1> HIDE DEF e
<1>6. power[e] \in Nat
  BY <1>1, <1>4
<1> QED
  BY <1>4, <1>5, <1>6 DEF power

--------------------------------------------------------------------------------
(* Fields *)

Fields == UNION {FieldsOf[n] : n \in Names}

\* A schema is a nonempty sequence of fields with distinct names.
LEMMA SchemaShape ==
    ASSUME NEW s \in Schemas
    PROVE  /\ s \in Seq(Fields) /\ Len(s) \in Nat /\ Len(s) >= 1 /\ DOMAIN s = 1..Len(s)
           /\ \A i, j \in 1..Len(s) : s[i].name = s[j].name => i = j
<1>1. PICK k \in 1..Cardinality(Names) : s \in [1..k -> Fields] /\ IsSchema(s)
  BY DEF Schemas, Fields
<1>2. k \in Nat /\ k >= 1
  BY <1>1
<1>3. s \in Seq(Fields) /\ Len(s) = k /\ DOMAIN s = 1..k
  BY <1>1, <1>2
<1> QED
  BY <1>1, <1>2, <1>3 DEF IsSchema

LEMMA FieldShape ==
    ASSUME NEW f \in Fields
    PROVE  f.name \in Names /\ f.dtype \in DType /\ f.shape \in Seq(Nat \ {0})
<1>1. PICK n \in Names : f \in FieldsOf[n]
  BY DEF Fields
<1>2. f \in [name : {n}, dtype : DType, shape : Seq(Nat \ {0})]
  BY <1>1, FormatAssumption
<1> QED
  BY <1>2

LEMMA Product ==
    ASSUME NEW a \in Nat, NEW b \in Nat, a >= 1, b >= 1
    PROVE  a * b \in Nat /\ a * b >= 1
  OBVIOUS

\* The product of a shape is a positive number.
LEMMA ElementCountType ==
    ASSUME NEW f \in Fields PROVE ElementCount(f) \in Nat /\ ElementCount(f) >= 1
<1> DEFINE s == f.shape
           n == Len(s)
           step == [x \in (1..n) \X Nat |-> x[2] * s[x[1]]]
           Eq(g) == g = [i \in 0..n |-> IF i = 0 THEN 1 ELSE g[i - 1] * s[i]]
<1>0. s \in Seq(Nat \ {0})
  BY FieldShape
<1>1. n \in Nat /\ \A i \in 1..n : s[i] \in Nat /\ s[i] >= 1
  BY <1>0
<1>2. /\ step \in [(1..n) \X Nat -> Nat]
      /\ \A k \in 1..n, v \in Nat : step[<<k, v>>] = v * s[k]
  <2>1. ASSUME NEW x \in (1..n) \X Nat PROVE x[2] * s[x[1]] \in Nat
    BY <1>1
  <2> QED
    BY <2>1
<1>5. ElementCount(f) = (CHOOSE g : Eq(g))[n]
  BY DEF ElementCount
<1> HIDE DEF step, s, n
<1>3. PICK h \in [0..n -> Nat] :
         h[0] = 1 /\ \A k \in 1..n : h[k] = step[<<k, h[k - 1]>>]
  <2>1. 1 \in Nat /\ n \in Nat
    BY <1>1
  <2> QED
    BY <1>2, <2>1, Recursion
<1>4. Eq(h)
  <2>1. ASSUME NEW k \in 0..n PROVE h[k] = IF k = 0 THEN 1 ELSE h[k - 1] * s[k]
    <3>1. CASE k = 0
      BY <1>3, <3>1
    <3>2. CASE k # 0
      <4>1. k \in 1..n /\ k - 1 \in 0..n
        BY <1>1, <3>2
      <4>2. h[k - 1] \in Nat
        BY <4>1
      <4> QED
        BY <1>2, <1>3, <3>2, <4>1, <4>2
    <3> QED
      BY <3>1, <3>2
  <2> QED
    BY <2>1
<1> DEFINE c == CHOOSE g : Eq(g)
<1>6. Eq(c)
  BY <1>4
<1> HIDE DEF c
<1>7. \A k \in 0..n : c[k] = IF k = 0 THEN 1 ELSE c[k - 1] * s[k]
  BY <1>6
<1>8. c[n] \in Nat /\ c[n] >= 1
  <2> DEFINE S == {k \in 0..n : c[k] \in Nat /\ c[k] >= 1}
  <2>1. 0 \in S
    BY <1>1, <1>7
  <2>2. ASSUME NEW k \in 1..n, k - 1 \in S PROVE k \in S
    <3>1. /\ k \in 0..n /\ k # 0 /\ c[k - 1] \in Nat /\ s[k] \in Nat
          /\ c[k - 1] >= 1 /\ s[k] >= 1
      BY <1>1, <2>2
    <3>2. c[k] = c[k - 1] * s[k]
      BY <1>7, <3>1
    <3>3. c[k] \in Nat /\ c[k] >= 1
      BY <3>1, <3>2, Product
    <3> QED
      BY <3>1, <3>3
  <2>3. \A k \in 0..n : k \in S
    <3> HIDE DEF S
    <3> QED
      BY <1>1, <2>1, <2>2, UpTo
  <2>4. n \in 0..n
    BY <1>1
  <2> QED
    BY <2>3, <2>4
<1> QED
  BY <1>5, <1>8 DEF c

LEMMA ByteCountType ==
    ASSUME NEW f \in Fields PROVE ByteCount(f) \in Nat /\ ByteCount(f) >= 1
<1>1. ByteSize[f.dtype] \in Nat /\ ByteSize[f.dtype] >= 1
  BY FieldShape DEF ByteSize, DType
<1> QED
  BY <1>1, ElementCountType, Product DEF ByteCount

--------------------------------------------------------------------------------
(* Offsets *)

LEMMA CursorEquations ==
    ASSUME NEW s \in Schemas, NEW base \in Nat
    PROVE  LET C == FieldCursors(s, base)
           IN  /\ C \in [0..Len(s) -> Nat] /\ C[0] = base
               /\ \A k \in 1..Len(s) :
                     C[k] = AlignUp(C[k - 1], CACHE_LINE_SIZE) + ByteCount(s[k])
<1> DEFINE n == Len(s)
           Up(v) == AlignUp(v, CACHE_LINE_SIZE)
           size == [k \in 1..n |-> ByteCount(s[k])]
           step == [x \in (1..n) \X Nat |-> Up(x[2]) + size[x[1]]]
           Eq(g) == g = [i \in 0..n |-> IF i = 0 THEN base ELSE Up(g[i - 1]) + ByteCount(s[i])]
<1>0. n \in Nat /\ \A k \in 1..n : s[k] \in Fields
  BY SchemaShape
<1>1. \A k \in 1..n : ByteCount(s[k]) \in Nat /\ size[k] = ByteCount(s[k])
  BY <1>0, ByteCountType
<1>2. \A v \in Nat : Up(v) \in Nat
  BY AlignLine
<1>5. FieldCursors(s, base) = CHOOSE g : Eq(g)
  BY DEF FieldCursors
<1> HIDE DEF n, Up, size
<1>3. /\ step \in [(1..n) \X Nat -> Nat]
      /\ \A k \in 1..n, v \in Nat : step[<<k, v>>] = Up(v) + size[k]
  <2>1. ASSUME NEW x \in (1..n) \X Nat PROVE Up(x[2]) + size[x[1]] \in Nat
    <3>1. x[1] \in 1..n /\ x[2] \in Nat
      OBVIOUS
    <3>2. Up(x[2]) \in Nat /\ size[x[1]] \in Nat
      BY <1>1, <1>2, <3>1
    <3> QED
      BY <3>2
  <2> QED
    BY <2>1
<1> HIDE DEF step
<1>4. PICK h \in [0..n -> Nat] :
         h[0] = base /\ \A k \in 1..n : h[k] = step[<<k, h[k - 1]>>]
  BY <1>0, <1>3, Recursion
<1>6. Eq(h)
  <2>1. ASSUME NEW k \in 0..n
        PROVE  h[k] = IF k = 0 THEN base ELSE Up(h[k - 1]) + ByteCount(s[k])
    <3>1. CASE k = 0
      BY <1>4, <3>1
    <3>2. CASE k # 0
      <4>1. k \in 1..n /\ k - 1 \in 0..n
        BY <1>0, <3>2
      <4>2. h[k - 1] \in Nat
        BY <4>1
      <4>3. h[k] = Up(h[k - 1]) + ByteCount(s[k])
        BY <1>1, <1>3, <1>4, <4>1, <4>2, ZenonT(60)
      <4> QED
        BY <3>2, <4>3
    <3> QED
      BY <3>1, <3>2
  <2> QED
    BY <2>1
<1> DEFINE c == CHOOSE g : Eq(g)
<1>7. Eq(c)
  BY <1>6
<1> HIDE DEF c
<1>8. /\ DOMAIN c = 0..n /\ c = [k \in 0..n |-> c[k]] /\ c[0] = base
      /\ \A k \in 1..n : c[k] = Up(c[k - 1]) + ByteCount(s[k])
  <2>1. \A k \in 0..n : c[k] = IF k = 0 THEN base ELSE Up(c[k - 1]) + ByteCount(s[k])
    BY <1>7
  <2>2. DOMAIN c = 0..n /\ c = [k \in 0..n |-> c[k]]
    BY <1>7
  <2>3. 0 \in 0..n /\ \A k \in 1..n : k \in 0..n /\ k # 0
    BY <1>0
  <2> QED
    BY <2>1, <2>2, <2>3
<1>9. \A k \in 0..n : c[k] \in Nat
  <2> DEFINE S == {k \in 0..n : c[k] \in Nat}
  <2>1. 0 \in S
    BY <1>0, <1>8
  <2>2. ASSUME NEW k \in 1..n, k - 1 \in S PROVE k \in S
    <3>1. k \in 0..n /\ c[k - 1] \in Nat
      BY <1>0, <2>2
    <3>2. Up(c[k - 1]) \in Nat /\ ByteCount(s[k]) \in Nat
      BY <1>1, <1>2, <3>1
    <3>3. c[k] \in Nat
      <4>1. c[k] = Up(c[k - 1]) + ByteCount(s[k])
        BY <1>8
      <4> QED
        BY <3>2, <4>1
    <3> QED
      BY <3>1, <3>3
  <2>3. \A k \in 0..n : k \in S
    <3> HIDE DEF S
    <3> QED
      BY <1>0, <2>1, <2>2, UpTo
  <2> QED
    BY <2>3
<1>10. c \in [0..n -> Nat]
  BY <1>8, <1>9
<1> QED
  BY <1>5, <1>8, <1>10 DEF c, n, Up

\* The offsets from the end of the header are those from 0, a cache line later, and a
\* row ends behind its last field.
LEMMA CursorsAgree ==
    ASSUME NEW s \in Schemas
    PROVE  LET C == FieldCursors(s, 0)
               H == FieldCursors(s, HEADER_SIZE)
           IN  \A k \in 1..Len(s) :
                  /\ AlignUp(H[k - 1], CACHE_LINE_SIZE) = AlignUp(C[k - 1], CACHE_LINE_SIZE) + 64
                  /\ C[k] <= C[Len(s)]
<1> DEFINE n == Len(s)
           Up(v) == AlignUp(v, CACHE_LINE_SIZE)
           C == FieldCursors(s, 0)
           H == FieldCursors(s, HEADER_SIZE)
<1>0. n \in Nat /\ n >= 1
  BY SchemaShape
<1>1. /\ C \in [0..n -> Nat] /\ C[0] = 0
      /\ \A k \in 1..n : C[k] = Up(C[k - 1]) + ByteCount(s[k])
  BY CursorEquations
<1>2. /\ H \in [0..n -> Nat] /\ H[0] = 16
      /\ \A k \in 1..n : H[k] = Up(H[k - 1]) + ByteCount(s[k])
  <2>1. HEADER_SIZE \in Nat /\ HEADER_SIZE = 16
    BY DEF HEADER_SIZE
  <2> QED
    BY <2>1, CursorEquations
<1>3. \A k \in 1..n : ByteCount(s[k]) \in Nat
  BY SchemaShape, ByteCountType
<1>4. Up(16) = 64 /\ Up(0) = 0
  BY DEF AlignUp, CACHE_LINE_SIZE
<1>5. \A v \in Nat : Up(v) \in Nat /\ v <= Up(v) /\ Up(v + 64) = Up(v) + 64
  BY AlignLine
<1> HIDE DEF n, Up, C, H
<1>6. \A k \in 0..n : Up(H[k]) = Up(C[k]) + 64
  <2> DEFINE S == {k \in 0..n : Up(H[k]) = Up(C[k]) + 64}
  <2>1. 0 \in S
    BY <1>0, <1>1, <1>2, <1>4
  <2>2. ASSUME NEW k \in 1..n, k - 1 \in S PROVE k \in S
    <3>1. k \in 0..n /\ k - 1 \in 0..n /\ Up(H[k - 1]) = Up(C[k - 1]) + 64
      BY <1>0, <2>2
    <3>2. C[k - 1] \in Nat /\ Up(C[k - 1]) \in Nat /\ ByteCount(s[k]) \in Nat /\ C[k] \in Nat
      BY <1>1, <1>3, <1>5, <3>1
    <3>3. H[k] = C[k] + 64
      <4>1. H[k] = Up(H[k - 1]) + ByteCount(s[k]) /\ C[k] = Up(C[k - 1]) + ByteCount(s[k])
        BY <1>1, <1>2
      <4> QED
        BY <3>1, <3>2, <4>1
    <3> QED
      BY <1>5, <3>1, <3>2, <3>3
  <2>3. \A k \in 0..n : k \in S
    <3> HIDE DEF S
    <3> QED
      BY <1>0, <2>1, <2>2, UpTo
  <2> QED
    BY <2>3
<1>7. \A k \in 1..n : C[k - 1] <= C[k]
  <2> SUFFICES ASSUME NEW k \in 1..n PROVE C[k - 1] <= C[k]
    OBVIOUS
  <2>1. C[k - 1] \in Nat /\ ByteCount(s[k]) \in Nat
    <3>1. k - 1 \in 0..n
      BY <1>0
    <3> QED
      BY <1>1, <1>3, <3>1
  <2>2. Up(C[k - 1]) \in Nat /\ C[k - 1] <= Up(C[k - 1])
    BY <1>5, <2>1
  <2>3. C[k] = Up(C[k - 1]) + ByteCount(s[k])
    BY <1>1
  <2> QED
    BY <2>1, <2>2, <2>3
<1>8. \A k \in 0..n : C[n - k] <= C[n]
  <2> DEFINE S == {k \in 0..n : C[n - k] <= C[n]}
  <2>1. 0 \in S
    <3>1. n - 0 = n /\ n \in 0..n /\ 0 \in 0..n
      BY <1>0
    <3>2. C[n] \in Nat
      BY <1>1, <3>1
    <3> QED
      BY <3>1, <3>2
  <2>2. ASSUME NEW k \in 1..n, k - 1 \in S PROVE k \in S
    <3> DEFINE m == n - (k - 1)
    <3>1. m \in 1..n /\ m \in 0..n /\ m - 1 = n - k /\ m - 1 \in 0..n /\ n \in 0..n
          /\ k \in 0..n
      BY <1>0
    <3>2. C[m] <= C[n] /\ C[m - 1] <= C[m]
      BY <1>7, <2>2, <3>1
    <3>3. C[m] \in Nat /\ C[m - 1] \in Nat /\ C[n] \in Nat
      BY <1>1, <3>1
    <3> HIDE DEF m
    <3>4. C[m - 1] <= C[n]
      BY <3>2, <3>3
    <3> QED
      BY <3>1, <3>4
  <2>3. \A k \in 0..n : k \in S
    <3> HIDE DEF S
    <3> QED
      BY <1>0, <2>1, <2>2, UpTo
  <2> QED
    BY <2>3
<1>9. ASSUME NEW k \in 1..n
      PROVE  Up(H[k - 1]) = Up(C[k - 1]) + 64 /\ C[k] <= C[n]
  <2>1. k - 1 \in 0..n /\ n - k \in 0..n /\ n - (n - k) = k
    BY <1>0
  <2>2. C[n - (n - k)] <= C[n]
    BY <1>8, <2>1
  <2> QED
    BY <1>6, <2>1, <2>2
<1> QED
  BY <1>9 DEF n, Up, C, H

--------------------------------------------------------------------------------
(* Sorted tables *)

RankIn(H, h) == Cardinality({k \in H : k < h})

\* The ranks of a finite set of naturals are the numbers below its size, in order.
LEMMA Ranks ==
    ASSUME NEW n \in Nat, NEW H, H \subseteq Nat, IsFiniteSet(H), Cardinality(H) = n
    PROVE  /\ \A h \in H : RankIn(H, h) \in 0..(n - 1)
           /\ \A g, h \in H : RankIn(H, g) = RankIn(H, h) => g = h
           /\ \A i \in 1..n : \E h \in H : RankIn(H, h) = i - 1
<1> DEFINE Below(h) == {k \in H : k < h}
           rank == [h \in H |-> RankIn(H, h)]
<1>1. ASSUME NEW h \in H
      PROVE  IsFiniteSet(Below(h)) /\ RankIn(H, h) \in 0..(n - 1)
  <2>1. Below(h) \subseteq H \ {h}
    OBVIOUS
  <2>2. IsFiniteSet(H \ {h}) /\ Cardinality(H \ {h}) = n - 1
    BY FS_RemoveElement
  <2>3. IsFiniteSet(Below(h)) /\ Cardinality(Below(h)) <= Cardinality(H \ {h})
    BY <2>1, <2>2, FS_Subset
  <2>4. Cardinality(Below(h)) \in Nat
    BY <2>3, FS_CardinalityType
  <2> QED
    BY <2>2, <2>3, <2>4 DEF RankIn
<1>2. ASSUME NEW g \in H, NEW h \in H, g < h PROVE RankIn(H, g) < RankIn(H, h)
  <2>1. Below(g) \subseteq Below(h) /\ g \in Below(h) /\ g \notin Below(g)
    <3>1. g \in Nat /\ h \in Nat /\ g < h /\ ~(g < g)
      BY <1>2
    <3>2. \A k \in H : k < g => k < h
      BY <3>1
    <3> QED
      BY <3>1, <3>2
  <2>2. IsFiniteSet(Below(h)) /\ IsFiniteSet(Below(g))
    BY <1>1
  <2>3. Cardinality(Below(g)) <= Cardinality(Below(h))
        /\ (Cardinality(Below(g)) = Cardinality(Below(h)) => Below(g) = Below(h))
    BY <2>1, <2>2, FS_Subset
  <2>4. Cardinality(Below(g)) # Cardinality(Below(h))
    BY <2>1, <2>3
  <2>5. Cardinality(Below(g)) \in Nat /\ Cardinality(Below(h)) \in Nat
    BY <2>2, FS_CardinalityType
  <2> QED
    BY <2>3, <2>4, <2>5 DEF RankIn
<1>3. ASSUME NEW g \in H, NEW h \in H, RankIn(H, g) = RankIn(H, h) PROVE g = h
  <2>1. RankIn(H, g) \in Int
    <3>1. RankIn(H, g) \in 0..(n - 1)
      BY <1>1
    <3> QED
      BY <3>1
  <2>2. ~(g < h) /\ ~(h < g)
    BY <1>2, <1>3, <2>1
  <2> QED
    BY <2>2
<1>4. \A i \in 1..n : \E h \in H : RankIn(H, h) = i - 1
  <2>1. rank \in Injection(H, 0..(n - 1))
    <3>1. rank \in [H -> 0..(n - 1)]
      BY <1>1
    <3> QED
      BY <1>3, <3>1 DEF Injection, IsInjective
  <2>2. IsFiniteSet(0..(n - 1)) /\ Cardinality(0..(n - 1)) = n
    <3>1. n - 1 \in Int
      OBVIOUS
    <3>2. /\ IsFiniteSet(0..(n - 1))
          /\ Cardinality(0..(n - 1)) = IF 0 > n - 1 THEN 0 ELSE n - 1 - 0 + 1
      BY <3>1, FS_Interval
    <3> QED
      BY <3>2
  <2>3. rank \in Surjection(H, 0..(n - 1))
    BY <2>1, <2>2, FS_Injection
  <2>4. \A v \in 0..(n - 1) : \E h \in H : rank[h] = v
    BY <2>3 DEF Surjection
  <2>5. \A i \in 1..n : i - 1 \in 0..(n - 1)
    OBVIOUS
  <2> QED
    BY <2>4, <2>5
<1> QED
  BY <1>1, <1>3, <1>4

\* An injection of 1..n has an image of n elements.
LEMMA ImageOf ==
    ASSUME NEW n \in Nat, NEW R, NEW f \in [1..n -> R],
           \A e \in R : \E i \in 1..n : f[i] = e,
           \A i, j \in 1..n : f[i] = f[j] => i = j
    PROVE  IsFiniteSet(R) /\ Cardinality(R) = n
<1>1. f \in Bijection(1..n, R)
  BY DEF Bijection, Injection, Surjection, IsInjective
<1>2. ExistsBijection(1..n, R)
  BY <1>1 DEF ExistsBijection
<1> QED
  BY <1>2, FS_NatBijection, FS_CountingElements

\* Of an increasing sequence the k-th has rank k - 1.
LEMMA RankOfIncreasing ==
    ASSUME NEW n \in Nat, NEW H, NEW f \in [1..n -> Nat],
           \A i, j \in 1..n : i < j => f[i] < f[j],
           \A i \in 1..n : f[i] \in H, \A h \in H : \E i \in 1..n : h = f[i],
           NEW k \in 1..n
    PROVE  RankIn(H, f[k]) = k - 1
<1> DEFINE B == {h \in H : h < f[k]}
           m == k - 1
           g == [i \in 1..m |-> f[i]]
<1>1. m \in Nat /\ \A i \in 1..m : i \in 1..n /\ i < k
  OBVIOUS
<1>2. g \in [1..m -> Nat] /\ \A i \in 1..m : g[i] = f[i]
  BY <1>1
<1>3. \A i, j \in 1..m : g[i] = g[j] => i = j
  <2> SUFFICES ASSUME NEW i \in 1..m, NEW j \in 1..m, g[i] = g[j] PROVE i = j
    OBVIOUS
  <2>1. i \in 1..n /\ j \in 1..n /\ f[i] = f[j] /\ f[i] \in Nat
    BY <1>1, <1>2
  <2>2. ~(i < j) /\ ~(j < i)
    BY <2>1
  <2> QED
    BY <2>2
<1>4. B = {g[i] : i \in 1..m}
  <2>1. ASSUME NEW h \in B PROVE h \in {g[i] : i \in 1..m}
    <3>1. PICK i \in 1..n : h = f[i]
      BY <2>1
    <3>2. f[i] < f[k] /\ f[i] \in Nat /\ f[k] \in Nat
      BY <2>1, <3>1
    <3>3. i # k /\ ~(k < i)
      BY <3>2
    <3>4. i \in 1..m
      BY <3>3
    <3> QED
      BY <1>2, <3>1, <3>4
  <2>2. ASSUME NEW i \in 1..m PROVE g[i] \in B
    BY <1>1, <1>2
  <2> QED
    BY <2>1, <2>2
<1> HIDE DEF m, g
<1>5. g \in [1..m -> B] /\ \A e \in B : \E i \in 1..m : g[i] = e
  BY <1>2, <1>4
<1> HIDE DEF B
<1>6. Cardinality(B) = m
  BY <1>1, <1>3, <1>5, ImageOf
<1> QED
  BY <1>6 DEF RankIn, m, B

\* r holds the n entries of t, in the order of their keys, the elements of H.
IsSortOf(r, t, n, key, H) ==
    /\ DOMAIN r = 1..n /\ r = [i \in 1..n |-> r[i]]
    /\ IsFiniteSet(H) /\ Cardinality(H) = n /\ H \subseteq Nat
    /\ \A i \in 1..n : (\E k \in 1..n : r[i] = t[k]) /\ RankIn(H, r[i][key]) = i - 1
    /\ \A k \in 1..n : \E i \in 1..n : r[i] = t[k]

LEMMA SortedBy ==
    ASSUME NEW n \in Nat, NEW X, NEW t \in [1..n -> X], NEW key,
           \A i \in 1..n : t[i][key] \in Nat,
           \A i, j \in 1..n : t[i][key] = t[j][key] => i = j,
           NEW H, \A i \in 1..n : t[i][key] \in H, \A h \in H : \E i \in 1..n : h = t[i][key]
    PROVE  IsSortOf(SortBy(t, key), t, n, key, H)
<1> DEFINE R == {t[i] : i \in 1..n}
           r == SortBy(t, key)
           f == [i \in 1..n |-> t[i][key]]
<1>1. Range(t) = R /\ DOMAIN t = 1..n
  BY DEF Range
<1>2. H = {e[key] : e \in R}
  OBVIOUS
<1>3. DOMAIN r = 1..n /\ r = [i \in 1..n |-> CHOOSE e \in R : RankIn(H, e[key]) = i - 1]
  <2> DEFINE Def(D, S, K) ==
                [i \in D |-> CHOOSE e \in S : Cardinality({k \in K : k < e[key]}) = i - 1]
             K == {d[key] : d \in Range(t)}
  <2>1. r = Def(DOMAIN t, Range(t), K)
    BY Zenon DEF SortBy
  <2>2. K = H
    BY <1>1, <1>2
  <2> HIDE DEF Def, K, R, r
  <2>3. r = Def(1..n, R, H)
    BY <1>1, <2>1, <2>2
  <2>4. r = [i \in 1..n |-> CHOOSE e \in R : RankIn(H, e[key]) = i - 1]
    BY <2>3, Zenon DEF RankIn, Def
  <2> QED
    BY <2>4
<1>4. IsFiniteSet(H) /\ Cardinality(H) = n /\ H \subseteq Nat
  <2>1. f \in [1..n -> Nat] /\ \A i \in 1..n : f[i] = t[i][key]
    OBVIOUS
  <2>2. \A i, j \in 1..n : f[i] = f[j] => i = j
    BY <2>1
  <2>3. f \in [1..n -> H] /\ (\A e \in H : \E i \in 1..n : f[i] = e) /\ H \subseteq Nat
    BY <2>1
  <2> HIDE DEF f
  <2> QED
    BY <2>2, <2>3, ImageOf, ZenonT(60)
<1>5. /\ \A h \in H : RankIn(H, h) \in 0..(n - 1)
      /\ \A g, h \in H : RankIn(H, g) = RankIn(H, h) => g = h
      /\ \A i \in 1..n : \E h \in H : RankIn(H, h) = i - 1
  BY <1>4, Ranks
<1>6. ASSUME NEW i \in 1..n
      PROVE  (\E k \in 1..n : r[i] = t[k]) /\ RankIn(H, r[i][key]) = i - 1
  <2>1. PICK h \in H : RankIn(H, h) = i - 1
    BY <1>5
  <2>2. PICK k \in 1..n : h = t[k][key]
    BY <2>1
  <2>3. t[k] \in R /\ RankIn(H, t[k][key]) = i - 1
    BY <2>1, <2>2
  <2>4. r[i] = CHOOSE e \in R : RankIn(H, e[key]) = i - 1
    BY <1>3
  <2> HIDE DEF R, r
  <2>5. r[i] \in R /\ RankIn(H, r[i][key]) = i - 1
    BY <2>3, <2>4
  <2> QED
    BY <2>5 DEF R
<1>7. ASSUME NEW k \in 1..n PROVE \E i \in 1..n : r[i] = t[k]
  <2> DEFINE i == RankIn(H, t[k][key]) + 1
  <2>1. RankIn(H, t[k][key]) \in 0..(n - 1)
    BY <1>5
  <2>2. i \in 1..n /\ i - 1 = RankIn(H, t[k][key])
    BY <2>1
  <2> HIDE DEF i
  <2>3. PICK j \in 1..n : r[i] = t[j]
    BY <1>6, <2>2
  <2>4. RankIn(H, t[j][key]) = RankIn(H, t[k][key])
    BY <1>6, <2>2, <2>3
  <2>5. t[j][key] = t[k][key]
    BY <1>5, <2>4
  <2>6. j = k
    BY <2>5
  <2> QED
    BY <2>2, <2>3, <2>6
<1>8. r = [i \in 1..n |-> r[i]]
  BY <1>3
<1> HIDE DEF r
<1> QED
  BY <1>3, <1>4, <1>6, <1>7, <1>8 DEF r, IsSortOf

Entries == [name_hash : Nat, byte_offset : Nat, dtype : DType, element_count : Nat,
            byte_count : Nat]

\* What an entry of a table is made of.
LEMMA EntryRecord ==
    ASSUME NEW a \in Nat, NEW b \in Nat, NEW d \in DType, NEW e \in Nat, NEW c \in Nat, NEW x,
           x = [name_hash |-> a, byte_offset |-> b, dtype |-> d, element_count |-> e,
                byte_count |-> c]
    PROVE  /\ x \in Entries /\ x.name_hash = a /\ x.byte_offset = b /\ x.byte_count = c
           /\ x.dtype = d /\ x.element_count = e
BY DEF Entries

\* An entry with its offset moved is the entry of that offset.
LEMMA MovedEntry ==
    ASSUME NEW x \in Entries, NEW y \in Entries, y.byte_offset = x.byte_offset + 64,
           y.name_hash = x.name_hash, y.dtype = x.dtype,
           y.element_count = x.element_count, y.byte_count = x.byte_count
    PROVE  [y EXCEPT !.byte_offset = @ - 64] = x
<1>1. y.byte_offset - 64 = x.byte_offset
  BY DEF Entries
<1>2. [y EXCEPT !.byte_offset = @ - 64] =
         [name_hash |-> y.name_hash, byte_offset |-> y.byte_offset - 64,
          dtype |-> y.dtype, element_count |-> y.element_count,
          byte_count |-> y.byte_count]
  BY DEF Entries
<1>3. x = [name_hash |-> x.name_hash, byte_offset |-> x.byte_offset,
           dtype |-> x.dtype, element_count |-> x.element_count,
           byte_count |-> x.byte_count]
  BY DEF Entries
<1> QED
  BY <1>1, <1>2, <1>3

\* The entries of a table in declaration order.
LEMMA OffsetEntries ==
    ASSUME NEW s \in Schemas, NEW base \in Nat
    PROVE  LET t == OffsetTable(s, base)
               C == FieldCursors(s, base)
           IN  /\ DOMAIN t = 1..Len(s) /\ t = [i \in 1..Len(s) |-> t[i]] /\ Len(t) = Len(s)
               /\ \A i \in 1..Len(s) :
                     /\ t[i].name_hash = NameHash[s[i].name]
                     /\ t[i].byte_offset = AlignUp(C[i - 1], CACHE_LINE_SIZE)
                     /\ t[i].byte_count = ByteCount(s[i])
                     /\ t[i].dtype = s[i].dtype
                     /\ t[i].element_count = ElementCount(s[i])
                     /\ t[i] \in Entries
<1> DEFINE n == Len(s)
           C == FieldCursors(s, base)
           t == OffsetTable(s, base)
<1>1. n \in Nat /\ \A i \in 1..n : s[i] \in Fields
  BY SchemaShape
<1>2. DOMAIN t = 1..n /\ t = [i \in 1..n |-> t[i]] /\ Len(t) = n
  BY <1>1 DEF OffsetTable
<1>3. ASSUME NEW i \in 1..n
      PROVE  t[i] = [name_hash |-> NameHash[s[i].name],
                     byte_offset |-> AlignUp(C[i - 1], CACHE_LINE_SIZE),
                     dtype |-> s[i].dtype, element_count |-> ElementCount(s[i]),
                     byte_count |-> ByteCount(s[i])]
  BY <1>1 DEF OffsetTable, FieldByteOffsets
<1> HIDE DEF t, C, n
<1>4. ASSUME NEW i \in 1..n
      PROVE  /\ t[i] \in Entries
             /\ t[i].name_hash = NameHash[s[i].name]
             /\ t[i].byte_offset = AlignUp(C[i - 1], CACHE_LINE_SIZE)
             /\ t[i].byte_count = ByteCount(s[i])
             /\ t[i].dtype = s[i].dtype
             /\ t[i].element_count = ElementCount(s[i])
  <2> DEFINE a == NameHash[s[i].name]
             b == AlignUp(C[i - 1], CACHE_LINE_SIZE)
             d == s[i].dtype
             e == ElementCount(s[i])
             c == ByteCount(s[i])
             x == t[i]
  <2>1. s[i].name \in Names /\ d \in DType
    BY <1>1, FieldShape
  <2>2. a \in Nat
    BY <2>1, FormatAssumption
  <2>3. e \in Nat /\ c \in Nat
    BY <1>1, ElementCountType, ByteCountType
  <2>4. b \in Nat
    <3>1. C \in [0..n -> Nat] /\ i - 1 \in 0..n
      BY <1>1, CursorEquations DEF C, n
    <3>2. C[i - 1] \in Nat
      BY <3>1
    <3> QED
      BY <3>2, AlignLine
  <2>5. x = [name_hash |-> a, byte_offset |-> b, dtype |-> d, element_count |-> e,
             byte_count |-> c]
    BY <1>3
  <2>6. d \in DType
    BY <2>1
  <2> HIDE DEF a, b, d, e, c, x
  <2>7. /\ x \in Entries /\ x.name_hash = a /\ x.byte_offset = b /\ x.byte_count = c
        /\ x.dtype = d /\ x.element_count = e
    BY <2>2, <2>3, <2>4, <2>5, <2>6, EntryRecord
  <2> QED
    BY <2>7 DEF a, b, c, d, e, x
<1> QED
  BY <1>2, <1>4 DEF t, C, n

HashesOf(s) == {NameHash[s[i].name] : i \in 1..Len(s)}

\* The names of a schema have distinct hashes.
LEMMA HashesDiffer ==
    ASSUME NEW s \in Schemas
    PROVE  /\ \A i \in 1..Len(s) : NameHash[s[i].name] \in Nat
           /\ \A i, j \in 1..Len(s) : NameHash[s[i].name] = NameHash[s[j].name] => i = j
<1> SUFFICES ASSUME NEW i \in 1..Len(s), NEW j \in 1..Len(s)
             PROVE  /\ NameHash[s[i].name] \in Nat
                    /\ NameHash[s[i].name] = NameHash[s[j].name] => i = j
  OBVIOUS
<1>1. s[i].name \in Names /\ s[j].name \in Names
  BY SchemaShape, FieldShape
<1>2. NameHash[s[i].name] \in Nat
  BY <1>1, FormatAssumption
<1>3. NameHash[s[i].name] = NameHash[s[j].name] => s[i].name = s[j].name
  BY <1>1, FormatAssumption
<1> QED
  BY <1>2, <1>3, SchemaShape

\* compute_row_offset_table holds the entries of the assembly table, in hash order.
LEMMA RowTable ==
    ASSUME NEW s \in Schemas
    PROVE  LET n == Len(s)
               t == AssemblyTable(s)
               rel == RowOffsetTable(s)
           IN  /\ DOMAIN rel = 1..n /\ rel = [i \in 1..n |-> rel[i]]
               /\ \A i \in 1..n : /\ \E k \in 1..n : rel[i] = t[k]
                                  /\ RankIn(HashesOf(s), rel[i].name_hash) = i - 1
               /\ \A k \in 1..n : \E i \in 1..n : rel[i] = t[k]
<1> DEFINE n == Len(s)
           Up(v) == AlignUp(v, CACHE_LINE_SIZE)
           C == FieldCursors(s, 0)
           H == FieldCursors(s, HEADER_SIZE)
           a == AssemblyTable(s)
           t == OffsetTable(s, HEADER_SIZE)
           sorted == SortBy(t, "name_hash")
           first == FirstOffset(sorted)
           rel == RowRelative(sorted)
<1>0. n \in Nat /\ n >= 1 /\ 1 \in 1..n /\ n \in 1..n
  BY SchemaShape
<1>1. C \in [0..n -> Nat] /\ C[0] = 0
  BY CursorEquations
<1>2. \A k \in 1..n : Up(H[k - 1]) = Up(C[k - 1]) + 64
  BY CursorsAgree
<1>3. \A v \in Nat : Up(v) \in Nat
  BY AlignLine
<1>4. /\ DOMAIN t = 1..n /\ t = [i \in 1..n |-> t[i]]
      /\ \A i \in 1..n : /\ t[i].name_hash = NameHash[s[i].name]
                         /\ t[i].byte_offset = Up(H[i - 1])
                         /\ t[i].byte_count = ByteCount(s[i])
                         /\ t[i].dtype = s[i].dtype
                         /\ t[i].element_count = ElementCount(s[i])
                         /\ t[i] \in Entries
  <2>1. HEADER_SIZE \in Nat
    BY DEF HEADER_SIZE
  <2> QED
    BY <2>1, OffsetEntries
<1>5. \A i \in 1..n : /\ a[i].name_hash = NameHash[s[i].name]
                      /\ a[i].byte_offset = Up(C[i - 1])
                      /\ a[i].byte_count = ByteCount(s[i])
                      /\ a[i].dtype = s[i].dtype
                      /\ a[i].element_count = ElementCount(s[i])
                      /\ a[i] \in Entries
  BY OffsetEntries DEF AssemblyTable
<1>6. RowOffsetTable(s) = rel
  BY DEF RowOffsetTable, CompileSchema
<1>7. Up(C[0]) = 0
  BY <1>1 DEF AlignUp, CACHE_LINE_SIZE
<1>8. /\ \A i \in 1..n : NameHash[s[i].name] \in Nat
      /\ \A i, j \in 1..n : NameHash[s[i].name] = NameHash[s[j].name] => i = j
  BY HashesDiffer
<1>9. HashesOf(s) = {NameHash[s[i].name] : i \in 1..n}
  BY DEF HashesOf
<1> HIDE DEF n, Up, C, H, t, a
<1>11. /\ DOMAIN sorted = 1..n /\ sorted = [i \in 1..n |-> sorted[i]]
       /\ \A i \in 1..n : /\ \E k \in 1..n : sorted[i] = t[k]
                          /\ RankIn(HashesOf(s), sorted[i].name_hash) = i - 1
       /\ \A k \in 1..n : \E i \in 1..n : sorted[i] = t[k]
  <2>1. t \in [1..n -> Entries]
    BY <1>4
  <2>2. \A i \in 1..n : t[i]["name_hash"] \in Nat
    BY <1>4, <1>8
  <2>3. \A i, j \in 1..n : t[i]["name_hash"] = t[j]["name_hash"] => i = j
    BY <1>4, <1>8
  <2> DEFINE key == "name_hash"
             r == SortBy(t, key)
             L == HashesOf(s)
  <2>4. IsSortOf(r, t, n, key, L)
    <3>1. \A i \in 1..n : t[i][key] \in Nat
      BY <2>2
    <3>2. \A i, j \in 1..n : t[i][key] = t[j][key] => i = j
      BY <2>3
    <3>3. (\A i \in 1..n : t[i][key] \in L) /\ \A h \in L : \E i \in 1..n : h = t[i][key]
      BY <1>4, <1>9
    <3> HIDE DEF key, L
    <3> QED
      BY <1>0, <2>1, <3>1, <3>2, <3>3, SortedBy
  <2> QED
    BY <2>4 DEF IsSortOf
<1> HIDE DEF sorted
<1>12. \A k \in 1..n : /\ Up(C[k - 1]) \in Nat
                       /\ t[k].byte_offset = Up(C[k - 1]) + 64
  <2>1. ASSUME NEW k \in 1..n PROVE C[k - 1] \in Nat
    <3>1. k - 1 \in 0..n
      BY <1>0
    <3> QED
      BY <1>1, <3>1
  <2> QED
    BY <1>2, <1>3, <1>4, <2>1
<1>13. first = 64
  <2> DEFINE B == {e.byte_offset : e \in Range(sorted)}
  <2>0. Range(sorted) = {sorted[i] : i \in 1..n}
    BY <1>11 DEF Range
  <2>1. 64 \in B
    <3>1. t[1].byte_offset = 64
      BY <1>0, <1>7, <1>12
    <3>2. PICK i \in 1..n : sorted[i] = t[1]
      BY <1>0, <1>11
    <3> QED
      BY <2>0, <3>1, <3>2
  <2>2. \A b \in B : 64 <= b /\ b \in Int
    <3>1. ASSUME NEW i \in 1..n
          PROVE  64 <= sorted[i].byte_offset /\ sorted[i].byte_offset \in Int
      <4>1. PICK k \in 1..n : sorted[i] = t[k]
        BY <1>11
      <4>2. sorted[i].byte_offset = Up(C[k - 1]) + 64 /\ Up(C[k - 1]) \in Nat
        BY <1>12, <4>1
      <4> QED
        BY <4>2
    <3> QED
      BY <2>0, <3>1
  <2>3. first = CHOOSE x \in B : \A y \in B : x <= y
    BY DEF FirstOffset, Min
  <2> HIDE DEF B, first
  <2>4. first \in B /\ \A y \in B : first <= y
    BY <2>1, <2>2, <2>3
  <2> QED
    BY <2>1, <2>2, <2>4
<1>14. /\ DOMAIN rel = 1..n /\ rel = [i \in 1..n |-> rel[i]]
       /\ \A i \in 1..n : rel[i] = [sorted[i] EXCEPT !.byte_offset = @ - 64]
  BY <1>11, <1>13 DEF RowRelative
<1> HIDE DEF rel, first
<1>15. ASSUME NEW i \in 1..n, NEW k \in 1..n, sorted[i] = t[k] PROVE rel[i] = a[k]
  <2>1. rel[i] = [t[k] EXCEPT !.byte_offset = @ - 64]
    BY <1>14, <1>15
  <2>2. t[k] \in Entries /\ a[k] \in Entries
    BY <1>4, <1>5
  <2>3. t[k].byte_offset = a[k].byte_offset + 64
    BY <1>5, <1>12
  <2>4. /\ t[k].name_hash = a[k].name_hash /\ t[k].dtype = a[k].dtype
        /\ t[k].element_count = a[k].element_count /\ t[k].byte_count = a[k].byte_count
    BY <1>4, <1>5
  <2> QED
    BY <2>1, <2>2, <2>3, <2>4, MovedEntry
<1>16. ASSUME NEW i \in 1..n
       PROVE  /\ \E k \in 1..n : rel[i] = a[k]
              /\ RankIn(HashesOf(s), rel[i].name_hash) = i - 1
  <2>1. PICK k \in 1..n : sorted[i] = t[k]
    BY <1>11
  <2>2. rel[i] = a[k]
    BY <1>15, <2>1
  <2>3. rel[i].name_hash = sorted[i].name_hash
    BY <1>4, <1>5, <2>1, <2>2
  <2> QED
    BY <1>11, <2>2, <2>3
<1>17. ASSUME NEW k \in 1..n PROVE \E i \in 1..n : rel[i] = a[k]
  BY <1>11, <1>15
<1> QED
  BY <1>6, <1>14, <1>16, <1>17 DEF n, a

\* row_size ends behind the last field in declaration order, although it is computed
\* from the table in hash order.
LEMMA RowSizeIsEnd ==
    ASSUME NEW s \in Schemas
    PROVE  RowSize(RowOffsetTable(s)) =
              AlignUp(FieldCursors(s, 0)[Len(s)], CACHE_LINE_SIZE)
<1> DEFINE n == Len(s)
           C == FieldCursors(s, 0)
           a == AssemblyTable(s)
           rel == RowOffsetTable(s)
<1>0. n \in Nat /\ n \in 1..n
  BY SchemaShape
<1>1. /\ DOMAIN rel = 1..n
      /\ \A i \in 1..n : \E k \in 1..n : rel[i] = a[k]
      /\ \A k \in 1..n : \E i \in 1..n : rel[i] = a[k]
  BY RowTable
<1>2. \A k \in 1..n : a[k].byte_offset + a[k].byte_count = C[k]
  BY OffsetEntries, CursorEquations DEF AssemblyTable
<1>3. \A k \in 1..n : C[k] \in Nat /\ C[k] <= C[n]
  <2>1. C \in [0..n -> Nat] /\ \A k \in 1..n : k \in 0..n
    BY <1>0, CursorEquations
  <2>2. \A k \in 1..n : C[k] <= C[n]
    BY CursorsAgree
  <2> QED
    BY <2>1, <2>2
<1> HIDE DEF n, C, a, rel
<1> DEFINE E == {e.byte_offset + e.byte_count : e \in Range(rel)}
           m == LastByte(rel)
<1>4. E = {rel[i].byte_offset + rel[i].byte_count : i \in 1..n}
  <2>1. Range(rel) = {rel[i] : i \in 1..n}
    BY <1>1 DEF Range
  <2> QED
    BY <2>1
<1>5. C[n] \in E
  <2>1. PICK i \in 1..n : rel[i] = a[n]
    BY <1>0, <1>1
  <2> QED
    BY <1>0, <1>2, <1>4, <2>1
<1>6. \A x \in E : x \in Nat /\ x <= C[n]
  <2>1. ASSUME NEW i \in 1..n
        PROVE  \E k \in 1..n : rel[i].byte_offset + rel[i].byte_count = C[k]
    <3>1. PICK k \in 1..n : rel[i] = a[k]
      BY <1>1
    <3> QED
      BY <1>2, <3>1
  <2> QED
    BY <1>3, <1>4, <2>1
<1>7. m = CHOOSE x \in E : \A y \in E : x >= y
  BY DEF LastByte, Max
<1> HIDE DEF E, m
<1>8. m \in E /\ \A y \in E : m >= y
  BY <1>5, <1>6, <1>7
<1>9. m = C[n]
  BY <1>5, <1>6, <1>8
<1> QED
  BY <1>9 DEF RowSize, m, C, n, rel

--------------------------------------------------------------------------------
(* The regions *)

\* The fields of a row lie one behind the other, each on a line of its own.
LEMMA FieldsDisjoint ==
    ASSUME NEW s \in Schemas
    PROVE  LET t == AssemblyTable(s)
               size == RowSize(RowOffsetTable(s))
           IN  /\ size \in Nat /\ size % 64 = 0
               /\ Len(t) \in Nat /\ DOMAIN t = 1..Len(t)
               /\ \A i \in 1..Len(t) :
                     /\ t[i].byte_offset \in Nat /\ t[i].byte_offset % 64 = 0
                     /\ t[i].byte_count \in Nat
                     /\ t[i].byte_offset + t[i].byte_count <= size
                     /\ t[i].byte_offset + t[i].byte_count <=
                           IF i < Len(t) THEN t[i + 1].byte_offset ELSE size
<1> DEFINE n == Len(s)
           Up(v) == AlignUp(v, CACHE_LINE_SIZE)
           C == FieldCursors(s, 0)
           t == AssemblyTable(s)
           size == RowSize(RowOffsetTable(s))
<1>0. n \in Nat /\ n \in 1..n /\ 0 \in Nat
  BY SchemaShape
<1>1. /\ C \in [0..n -> Nat]
      /\ \A k \in 1..n : C[k] = Up(C[k - 1]) + ByteCount(s[k])
  BY CursorEquations, <1>0
<1>2. /\ DOMAIN t = 1..n /\ Len(t) = n
      /\ \A i \in 1..n : /\ t[i].byte_offset = Up(C[i - 1])
                         /\ t[i].byte_count = ByteCount(s[i])
  BY OffsetEntries, <1>0 DEF AssemblyTable
<1>3. size = Up(C[n])
  BY RowSizeIsEnd
<1>4. \A k \in 1..n : C[k] <= C[n]
  BY CursorsAgree
<1>5. \A i \in 1..n : ByteCount(s[i]) \in Nat
  BY SchemaShape, ByteCountType
<1>6. \A v \in Nat : Up(v) \in Nat /\ v <= Up(v) /\ Up(v) % 64 = 0
  BY AlignLine
<1> HIDE DEF n, Up, C, t, size
<1>7. size \in Nat /\ size % 64 = 0 /\ C[n] \in Nat /\ C[n] <= size
  BY <1>0, <1>1, <1>3, <1>6
<1>8. ASSUME NEW i \in 1..n
      PROVE  /\ t[i].byte_offset \in Nat /\ t[i].byte_offset % 64 = 0
             /\ t[i].byte_count \in Nat
             /\ t[i].byte_offset + t[i].byte_count <= size
             /\ t[i].byte_offset + t[i].byte_count <=
                   IF i < n THEN t[i + 1].byte_offset ELSE size
  <2>1. i - 1 \in 0..n /\ i \in 0..n
    BY <1>0
  <2>2. C[i - 1] \in Nat /\ C[i] \in Nat
    BY <1>1, <2>1
  <2>3. t[i].byte_offset \in Nat /\ t[i].byte_offset % 64 = 0 /\ t[i].byte_count \in Nat
    <3>1. t[i].byte_offset = Up(C[i - 1]) /\ t[i].byte_count = ByteCount(s[i])
      BY <1>2
    <3>2. Up(C[i - 1]) \in Nat /\ Up(C[i - 1]) % 64 = 0
      BY <1>6, <2>2
    <3>3. ByteCount(s[i]) \in Nat
      BY <1>5
    <3> QED
      BY <3>1, <3>2, <3>3
  <2>4. t[i].byte_offset + t[i].byte_count = C[i]
    BY <1>1, <1>2
  <2>5. C[i] <= size
    BY <1>4, <1>7, <2>2
  <2>6. ASSUME i < n PROVE C[i] <= t[i + 1].byte_offset
    <3>1. i + 1 \in 1..n /\ (i + 1) - 1 = i
      BY <1>0, <2>6
    <3>2. t[i + 1].byte_offset = Up(C[i])
      BY <1>2, <3>1
    <3> QED
      BY <1>6, <2>2, <3>2
  <2> QED
    BY <2>3, <2>4, <2>5, <2>6
<1> QED
  BY <1>0, <1>2, <1>7, <1>8 DEF n, t, size

\* The regions of compute_layout follow each other.
LEMMA RegionsFollow ==
    ASSUME NEW size \in Nat, NEW c \in Nat \ {0}, NEW b \in Nat \ {0}
    PROVE  LET l == ComputeLayout(size, c, b)
           IN  /\ l.slot_capacity >= 2 * c
               /\ \E k \in 0..(2 * c) : l.slot_capacity = Powers(2 * c)[k]
               /\ DATA_REGION_OFFSET + l.slot_capacity * SLOT_BYTES <= l.string_pool_offset
               /\ l.string_pool_data_offset + l.string_pool_data_bytes
                     <= l.feature_rows_offset
               /\ l.row_size = size
               /\ l.feature_rows_offset \in Nat /\ l.feature_rows_offset % 64 = 0
               /\ l.total_size \in Nat
               /\ l.feature_rows_offset + c * size <= l.total_size
<1> DEFINE slots == NextPow2(2 * c)
           table == DATA_REGION_OFFSET + slots * SLOT_BYTES
           pool == AlignUp(table, CACHE_LINE_SIZE)
           poolData == pool + STRING_POOL_HEADER_BYTES
           poolBytes == c * (LEN_PREFIX_BYTES + b)
           rows == AlignUp(poolData + poolBytes, CACHE_LINE_SIZE)
           total == AlignUp(rows + c * size, PAGE_SIZE)
           l == ComputeLayout(size, c, b)
<1>1. 2 * c \in Nat
  OBVIOUS
<1>2. /\ slots \in Nat /\ 2 * c <= slots
      /\ \E k \in 0..(2 * c) : slots = Powers(2 * c)[k]
  BY <1>1, NextPow2Bounds
<1>3. /\ l.slot_capacity = slots /\ l.string_pool_offset = pool
      /\ l.string_pool_data_offset = poolData /\ l.string_pool_data_bytes = poolBytes
      /\ l.feature_rows_offset = rows /\ l.row_size = size /\ l.total_size = total
  <2>1. l = [slot_capacity |-> slots, string_pool_offset |-> pool,
             string_pool_data_offset |-> poolData, string_pool_data_bytes |-> poolBytes,
             feature_rows_offset |-> rows, row_size |-> size, total_size |-> total]
    BY DEF ComputeLayout
  <2> HIDE DEF slots, pool, poolData, poolBytes, rows, total, l
  <2> QED
    BY <2>1
<1> HIDE DEF slots, l
<1>4. table \in Nat
  BY <1>2 DEF DATA_REGION_OFFSET, SLOT_BYTES
<1>5. pool \in Nat /\ table <= pool
  <2> HIDE DEF table
  <2> QED
    BY <1>4, AlignLine
<1>6. poolData + poolBytes \in Nat
  <2>1. poolBytes \in Nat
    <3>1. LEN_PREFIX_BYTES + b \in Nat
      BY DEF LEN_PREFIX_BYTES
    <3> QED
      BY <3>1
  <2> HIDE DEF pool, poolBytes
  <2> QED
    BY <1>5, <2>1 DEF STRING_POOL_HEADER_BYTES
<1> HIDE DEF pool, poolBytes, poolData
<1>7. rows \in Nat /\ poolData + poolBytes <= rows /\ rows % 64 = 0
  BY <1>6, AlignLine
<1> HIDE DEF rows
<1>8. rows + c * size \in Nat
  <2>1. c * size \in Nat
    OBVIOUS
  <2> QED
    BY <1>7, <2>1
<1>9. total \in Nat /\ rows + c * size <= total
  BY <1>8, AlignPage
<1> HIDE DEF total
<1>10. \E k \in 0..(2 * c) : l.slot_capacity = Powers(2 * c)[k]
  BY <1>2, <1>3
<1>11. l.slot_capacity >= 2 * c
  BY <1>2, <1>3
<1>12. DATA_REGION_OFFSET + l.slot_capacity * SLOT_BYTES <= l.string_pool_offset
  BY <1>3, <1>5
<1> QED
  BY <1>3, <1>7, <1>9, <1>10, <1>11, <1>12 DEF l

\* Row r of a region of c rows lies in it, and is aligned when the rows are.
LEMMA RowsFit ==
    ASSUME NEW size \in Nat, NEW c \in Nat, NEW r \in 0..(c - 1), size % 64 = 0
    PROVE  r * size \in Nat /\ r * size + size <= c * size /\ (r * size) % 64 = 0
<1>1. PICK d \in Nat : c = r + 1 + d
  <2>1. c - r - 1 \in Nat /\ c = r + 1 + (c - r - 1)
    OBVIOUS
  <2> QED
    BY <2>1
<1>2. r \in Nat /\ c \in Nat
  OBVIOUS
<1>3. c * size = r * size + size + d * size
  BY <1>1, <1>2
<1>4. r * size \in Nat /\ d * size \in Nat /\ c * size \in Nat
  BY <1>1, <1>2
<1>5. r * size + size <= c * size
  <2> DEFINE x == r * size
             y == d * size
             z == c * size
  <2>1. x \in Nat /\ y \in Nat /\ z = x + size + y
    BY <1>3, <1>4
  <2> HIDE DEF x, y, z
  <2>2. x + size <= z
    BY <2>1
  <2> QED
    BY <2>2 DEF x, z
<1>6. PICK q \in Nat : size = 64 * q
  <2>1. size \div 64 \in Nat /\ size = 64 * (size \div 64)
    OBVIOUS
  <2> QED
    BY <2>1
<1>7. r * size = 64 * (r * q) /\ r * q \in Nat
  BY <1>2, <1>6
<1>8. (r * size) % 64 = 0
  <2> DEFINE x == r * q
  <2> HIDE DEF x
  <2>1. x \in Nat /\ r * size = 64 * x
    BY <1>7 DEF x
  <2> QED
    BY <2>1
<1> QED
  BY <1>4, <1>5, <1>8

\* A segment of any schema and capacity.
LEMMA LayoutOfSchema ==
    ASSUME NEW s \in Schemas, NEW c \in Nat \ {0}
    PROVE  Disjoint(RowSize(RowOffsetTable(s)), AssemblyTable(s), c)
<1> DEFINE size == RowSize(RowOffsetTable(s))
           l == ComputeLayout(size, c, MaxIdBytes)
           t == AssemblyTable(s)
<1>0. MaxIdBytes \in Nat \ {0}
  BY FormatAssumption
<1>1. /\ size \in Nat /\ size % 64 = 0
      /\ Len(t) \in Nat /\ DOMAIN t = 1..Len(t)
      /\ \A i \in 1..Len(t) :
            /\ t[i].byte_offset \in Nat /\ t[i].byte_offset % 64 = 0
            /\ t[i].byte_count \in Nat
            /\ t[i].byte_offset + t[i].byte_count <= size
            /\ t[i].byte_offset + t[i].byte_count <=
                  IF i < Len(t) THEN t[i + 1].byte_offset ELSE size
  BY FieldsDisjoint
<1> HIDE DEF size
<1>2. /\ l.slot_capacity >= 2 * c
      /\ \E k \in 0..(2 * c) : l.slot_capacity = Powers(2 * c)[k]
      /\ DATA_REGION_OFFSET + l.slot_capacity * SLOT_BYTES <= l.string_pool_offset
      /\ l.string_pool_data_offset + l.string_pool_data_bytes <= l.feature_rows_offset
  BY <1>0, <1>1, RegionsFollow, ZenonT(60)
<1>3. /\ l.row_size = size
      /\ l.feature_rows_offset \in Nat /\ l.feature_rows_offset % 64 = 0
      /\ l.total_size \in Nat
      /\ l.feature_rows_offset + c * size <= l.total_size
  BY <1>0, <1>1, RegionsFollow, ZenonT(60)
<1> HIDE DEF l, t
<1>4. ASSUME NEW r \in 0..(c - 1), NEW i \in DOMAIN t
      PROVE  LET a == l.feature_rows_offset + r * l.row_size + t[i].byte_offset
             IN  /\ a % CACHE_LINE_SIZE = 0
                 /\ a + t[i].byte_count <= l.total_size
                 /\ t[i].byte_offset + t[i].byte_count <=
                       IF i < Len(t) THEN t[i + 1].byte_offset ELSE l.row_size
  <2> DEFINE p == r * size
             w == c * size
             f == l.feature_rows_offset
             o == t[i].byte_offset
             n == t[i].byte_count
             z == l.total_size
  <2>1. p \in Nat /\ p + size <= w /\ p % 64 = 0 /\ w \in Nat
    <3>1. c \in Nat /\ size \in Nat /\ size % 64 = 0
      BY <1>1
    <3>2. c * size \in Nat
      BY <3>1
    <3>3. r * size \in Nat /\ r * size + size <= c * size /\ (r * size) % 64 = 0
      BY <3>1, RowsFit
    <3> QED
      BY <3>2, <3>3
  <2>2. o \in Nat /\ o % 64 = 0 /\ n \in Nat /\ o + n <= size
    BY <1>1
  <2>3. o + n <= IF i < Len(t) THEN t[i + 1].byte_offset ELSE size
    BY <1>1
  <2>4. f \in Nat /\ f % 64 = 0 /\ z \in Nat /\ f + w <= z /\ size \in Nat
    BY <1>1, <1>3
  <2> HIDE DEF p, w, f, o, n, z
  <2>5. (f + p + o) % 64 = 0 /\ f + p + o + n <= z
    BY <2>1, <2>2, <2>4
  <2> QED
    BY <1>3, <2>3, <2>5 DEF CACHE_LINE_SIZE, p, f, o, n, z
<1>5. l.feature_rows_offset + c * l.row_size <= l.total_size
  BY <1>3
<1> QED
  BY <1>2, <1>4, <1>5 DEF Disjoint, l, t, size

--------------------------------------------------------------------------------
(* Tables and plans *)

\* What the table of a schema says of its fields.
TableOf(s, t, size) ==
    /\ DOMAIN t = 1..Len(s) /\ Len(s) \in Nat /\ size \in Nat
    /\ \A i \in 1..Len(s) :
          /\ s[i] \in Fields /\ t[i] \in Entries
          /\ t[i].name_hash = NameHash[s[i].name]
          /\ t[i].dtype = s[i].dtype /\ t[i].element_count = ElementCount(s[i])
          /\ t[i].byte_count = t[i].element_count * ByteSize[t[i].dtype]
          /\ t[i].byte_count >= 1 /\ t[i].byte_offset + t[i].byte_count <= size
    /\ \A i, j \in 1..Len(s) :
          i < j => t[i].byte_offset + t[i].byte_count <= t[j].byte_offset

\* The cursor never goes back.
LEMMA CursorsGrow ==
    ASSUME NEW s \in Schemas, NEW i \in 1..Len(s), NEW j \in 0..Len(s), i <= j
    PROVE  FieldCursors(s, 0)[i] <= FieldCursors(s, 0)[j]
<1> DEFINE n == Len(s)
           C == FieldCursors(s, 0)
           Up(v) == AlignUp(v, CACHE_LINE_SIZE)
           S == {k \in 0..n : i <= k => C[i] <= C[k]}
<1>0. n \in Nat
  BY SchemaShape
<1>1. /\ C \in [0..n -> Nat]
      /\ \A k \in 1..n : C[k] = Up(C[k - 1]) + ByteCount(s[k])
  BY CursorEquations
<1>2. \A k \in 1..n : ByteCount(s[k]) \in Nat
  BY SchemaShape, ByteCountType
<1>3. \A v \in Nat : Up(v) \in Nat /\ v <= Up(v)
  BY AlignLine
<1> HIDE DEF n, C, Up
<1>4. 0 \in S
  BY <1>0
<1>5. ASSUME NEW k \in 1..n, k - 1 \in S PROVE k \in S
  <2>1. k - 1 \in 0..n /\ k \in 0..n /\ i \in 0..n
    BY <1>0 DEF n
  <2>2. C[k - 1] \in Nat /\ C[k] \in Nat /\ C[i] \in Nat
    BY <1>1, <2>1
  <2>3. C[k - 1] <= C[k]
    <3>1. Up(C[k - 1]) \in Nat /\ C[k - 1] <= Up(C[k - 1]) /\ ByteCount(s[k]) \in Nat
      BY <1>2, <1>3, <2>2
    <3>2. C[k] = Up(C[k - 1]) + ByteCount(s[k])
      BY <1>1
    <3> QED
      BY <2>2, <3>1, <3>2
  <2>4. i <= k => i = k \/ i <= k - 1
    BY <1>0, <2>1
  <2>5. i <= k - 1 => C[i] <= C[k - 1]
    BY <1>5
  <2>6. i <= k => C[i] <= C[k]
    BY <2>2, <2>3, <2>4, <2>5
  <2> QED
    BY <2>1, <2>6
<1>6. \A k \in 0..n : k \in S
  <2> HIDE DEF S
  <2> QED
    BY <1>0, <1>4, <1>5, UpTo
<1> QED
  BY <1>6 DEF n, C

LEMMA AssemblyFacts ==
    ASSUME NEW s \in Schemas
    PROVE  TableOf(s, AssemblyTable(s), RowSize(RowOffsetTable(s)))
<1> DEFINE n == Len(s)
           C == FieldCursors(s, 0)
           Up(v) == AlignUp(v, CACHE_LINE_SIZE)
           t == AssemblyTable(s)
           size == RowSize(RowOffsetTable(s))
<1>0. n \in Nat /\ \A i \in 1..n : s[i] \in Fields
  BY SchemaShape
<1>1. /\ DOMAIN t = 1..n /\ Len(t) = n
      /\ \A i \in 1..n : /\ t[i].name_hash = NameHash[s[i].name]
                         /\ t[i].byte_offset = Up(C[i - 1])
                         /\ t[i].byte_count = ByteCount(s[i])
                         /\ t[i].dtype = s[i].dtype
                         /\ t[i].element_count = ElementCount(s[i])
                         /\ t[i] \in Entries
  BY OffsetEntries DEF AssemblyTable
<1>2. size \in Nat /\ \A i \in 1..n : t[i].byte_offset + t[i].byte_count <= size
  BY <1>1, FieldsDisjoint
<1>3. \A i \in 1..n : /\ ByteCount(s[i]) = ElementCount(s[i]) * ByteSize[s[i].dtype]
                      /\ ByteCount(s[i]) >= 1 /\ ByteCount(s[i]) \in Nat
  BY <1>0, ByteCountType DEF ByteCount
<1>4. /\ C \in [0..n -> Nat]
      /\ \A k \in 1..n : C[k] = Up(C[k - 1]) + ByteCount(s[k])
  BY CursorEquations
<1>5. \A i \in 1..n, j \in 0..n : i <= j => C[i] <= C[j]
  BY CursorsGrow
<1>6. \A v \in Nat : Up(v) \in Nat /\ v <= Up(v)
  BY AlignLine
<1> HIDE DEF n, C, Up, t, size
<1>7. ASSUME NEW i \in 1..n, NEW j \in 1..n, i < j
      PROVE  t[i].byte_offset + t[i].byte_count <= t[j].byte_offset
  <2>1. i <= j - 1 /\ j - 1 \in 0..n /\ i \in 0..n
    BY <1>0, <1>7
  <2>2. C[i] <= C[j - 1] /\ C[j - 1] \in Nat /\ C[i] \in Nat
    BY <1>4, <1>5, <2>1
  <2>3. Up(C[j - 1]) \in Nat /\ C[j - 1] <= Up(C[j - 1])
    BY <1>6, <2>2
  <2>4. t[i].byte_offset + t[i].byte_count = C[i] /\ t[j].byte_offset = Up(C[j - 1])
    BY <1>1, <1>4
  <2> QED
    BY <2>2, <2>3, <2>4
<1>8. ASSUME NEW i \in 1..n
      PROVE  t[i].byte_count = t[i].element_count * ByteSize[t[i].dtype]
             /\ t[i].byte_count >= 1
  BY <1>1, <1>3
<1> QED
  BY <1>0, <1>1, <1>2, <1>7, <1>8 DEF TableOf, n, t, size

\* The slots of a plan are the fields as declared, each with its place in the list.
LEMMA SlotsOf ==
    ASSUME NEW s \in Schemas
    PROVE  LET n == Len(s)
               t == AssemblyTable(s)
               rel == RowOffsetTable(s)
               slots == Slots(s, rel)
           IN  /\ DOMAIN slots = 1..n
               /\ \A k \in 1..n : \E j \in 1..n :
                     /\ rel[j] = t[k] /\ slots[k] = Tagged(s, rel)[j]
<1> DEFINE n == Len(s)
           t == AssemblyTable(s)
           rel == RowOffsetTable(s)
           tagged == Tagged(s, rel)
           slots == Slots(s, rel)
           size == RowSize(rel)
           H == {t[k].byte_offset : k \in 1..n}
           off == [k \in 1..n |-> t[k].byte_offset]
<1>1. TableOf(s, t, size)
  BY AssemblyFacts
<1>2. /\ DOMAIN rel = 1..n
      /\ \A i \in 1..n : /\ \E k \in 1..n : rel[i] = t[k]
                         /\ RankIn(HashesOf(s), rel[i].name_hash) = i - 1
      /\ \A k \in 1..n : \E i \in 1..n : rel[i] = t[k]
  BY RowTable
<1>3. DOMAIN tagged = 1..n /\ tagged = [i \in 1..n |-> tagged[i]]
      /\ \A i \in 1..n : tagged[i].byte_offset = rel[i].byte_offset
  BY <1>2 DEF Tagged
<1>0. slots = SortBy(tagged, "byte_offset")
  BY DEF Slots
<1> HIDE DEF n, t, rel, tagged, slots, size
<1>4. n \in Nat /\ \A k \in 1..n : /\ t[k].byte_offset \in Nat /\ t[k].byte_count \in Nat
                                   /\ t[k].byte_count >= 1
  BY <1>1 DEF TableOf, Entries, n
<1>5. \A i, j \in 1..n : i < j => t[i].byte_offset < t[j].byte_offset
  <2> SUFFICES ASSUME NEW i \in 1..n, NEW j \in 1..n, i < j
               PROVE  t[i].byte_offset < t[j].byte_offset
    OBVIOUS
  <2>1. t[i].byte_offset + t[i].byte_count <= t[j].byte_offset
    BY <1>1 DEF TableOf, n
  <2> QED
    BY <1>4, <2>1
<1>6. \A i, j \in 1..n : t[i].byte_offset = t[j].byte_offset => i = j
  <2> SUFFICES ASSUME NEW i \in 1..n, NEW j \in 1..n, t[i].byte_offset = t[j].byte_offset
               PROVE  i = j
    OBVIOUS
  <2>1. ~(i < j) /\ ~(j < i)
    BY <1>4, <1>5
  <2> QED
    BY <1>4, <2>1
<1>7. IsSortOf(slots, tagged, n, "byte_offset", H)
  <2> DEFINE key == "byte_offset"
             X == {tagged[i] : i \in 1..n}
  <2>1. tagged \in [1..n -> X]
    BY <1>3
  <2>2. ASSUME NEW i \in 1..n PROVE tagged[i][key] \in Nat /\ tagged[i][key] \in H
    <3>1. PICK k \in 1..n : rel[i] = t[k]
      BY <1>2
    <3>2. tagged[i][key] = t[k].byte_offset
      BY <1>3, <3>1
    <3> QED
      BY <1>4, <3>2
  <2>3. ASSUME NEW h \in H PROVE \E i \in 1..n : h = tagged[i][key]
    <3>1. PICK k \in 1..n : h = t[k].byte_offset
      BY <2>3
    <3>2. PICK i \in 1..n : rel[i] = t[k]
      BY <1>2
    <3>3. tagged[i][key] = t[k].byte_offset
      BY <1>3, <3>2
    <3> QED
      BY <3>1, <3>3
  <2>4. ASSUME NEW i \in 1..n, NEW j \in 1..n, tagged[i][key] = tagged[j][key] PROVE i = j
    <3>1. PICK k \in 1..n : rel[i] = t[k]
      BY <1>2
    <3>2. PICK l \in 1..n : rel[j] = t[l]
      BY <1>2
    <3>3. t[k].byte_offset = t[l].byte_offset
      BY <1>3, <2>4, <3>1, <3>2
    <3>4. rel[i] = rel[j]
      BY <1>6, <3>1, <3>2, <3>3
    <3>5. i - 1 = j - 1
      BY <1>2, <3>4
    <3> QED
      BY <1>4, <3>5
  <2>5. slots = SortBy(tagged, key)
    BY <1>0
  <2> HIDE DEF key, X, H
  <2>6. IsSortOf(SortBy(tagged, key), tagged, n, key, H)
    BY <1>4, <2>1, <2>2, <2>3, <2>4, SortedBy
  <2> QED
    BY <2>5, <2>6 DEF key
<1>8. ASSUME NEW k \in 1..n
      PROVE  \E j \in 1..n : rel[j] = t[k] /\ slots[k] = tagged[j]
  <2>1. /\ \E j \in 1..n : slots[k] = tagged[j]
        /\ RankIn(H, slots[k].byte_offset) = k - 1
    BY <1>7 DEF IsSortOf
  <2>2. PICK j \in 1..n : slots[k] = tagged[j]
    BY <2>1
  <2>3. PICK m \in 1..n : rel[j] = t[m]
    BY <1>2
  <2>4. slots[k].byte_offset = t[m].byte_offset
    BY <1>3, <2>2, <2>3
  <2>5. RankIn(H, off[m]) = m - 1
    <3>0. n \in Nat
      BY <1>4
    <3>1. off \in [1..n -> Nat]
      BY <1>4
    <3>4. \A i \in 1..n : off[i] = t[i].byte_offset
      OBVIOUS
    <3>2. \A i, l \in 1..n : i < l => off[i] < off[l]
      BY <1>5, <3>4
    <3>3. (\A i \in 1..n : off[i] \in H) /\ \A h \in H : \E i \in 1..n : h = off[i]
      BY <3>4
    <3> HIDE DEF off, H
    <3> QED
      BY <3>0, <3>1, <3>2, <3>3, RankOfIncreasing, ZenonT(60)
  <2>6. k = m
    <3>1. m - 1 = k - 1
      <4>1. off[m] = t[m].byte_offset
        OBVIOUS
      <4> HIDE DEF off, H
      <4> QED
        BY <2>1, <2>4, <2>5, <4>1
    <3>2. m \in Int /\ k \in Int
      OBVIOUS
    <3> QED
      BY <3>1, <3>2
  <2> QED
    BY <2>2, <2>3, <2>6
<1>9. DOMAIN slots = 1..n
  BY <1>7 DEF IsSortOf
<1> QED
  BY <1>8, <1>9 DEF n, t, rel, tagged, slots

LEMMA MaxOfTwo ==
    ASSUME NEW a \in Nat, NEW b \in Nat, b <= a PROVE Max({a, b}) = a
<1> DEFINE S == {a, b}
           m == Max(S)
<1>1. m = CHOOSE x \in S : \A y \in S : x >= y
  BY DEF Max
<1>2. a \in S /\ \A y \in S : a >= y
  OBVIOUS
<1> HIDE DEF m
<1>3. m \in S /\ \A y \in S : m >= y
  BY <1>1, <1>2
<1> QED
  BY <1>3 DEF m

\* Slots that follow each other without overlap: the struct has come to each slot's
\* offset when it packs it.
LEMMA CursorsOfSlots ==
    ASSUME NEW n \in Nat, NEW slots, DOMAIN slots = 1..n,
           \A k \in 1..n : slots[k].byte_offset \in Nat /\ slots[k].byte_count \in Nat,
           \A k \in 1..n : k > 1 => slots[k - 1].byte_offset + slots[k - 1].byte_count
                                       <= slots[k].byte_offset
    PROVE  \A k \in 1..n : Cursors(slots)[k] = slots[k].byte_offset
<1> DEFINE Before1(g, k) == IF k = 1 THEN 0 ELSE g[k - 1] + slots[k - 1].byte_count
           Eq(g) == g = [k \in DOMAIN slots |-> Max({slots[k].byte_offset, Before1(g, k)})]
           h == [k \in 1..n |-> slots[k].byte_offset]
           c == CHOOSE g : Eq(g)
<1>1. Cursors(slots) = c
  BY DEF Cursors
<1>2. ASSUME NEW g, NEW k \in 1..n, k > 1 => g[k - 1] = slots[k - 1].byte_offset
      PROVE  Max({slots[k].byte_offset, Before1(g, k)}) = slots[k].byte_offset
  <2> DEFINE a == slots[k].byte_offset
             b == Before1(g, k)
  <2>1. a \in Nat
    OBVIOUS
  <2>2. b \in Nat /\ b <= a
    <3>1. CASE k = 1
      BY <2>1, <3>1
    <3>2. CASE k # 1
      <4>1. k > 1 /\ k - 1 \in 1..n
        BY <3>2
      <4>2. b = slots[k - 1].byte_offset + slots[k - 1].byte_count
        BY <1>2, <3>2, <4>1
      <4>3. slots[k - 1].byte_offset \in Nat /\ slots[k - 1].byte_count \in Nat
        BY <4>1
      <4>4. slots[k - 1].byte_offset + slots[k - 1].byte_count <= a
        BY <4>1
      <4> HIDE DEF b
      <4> QED
        BY <4>2, <4>3, <4>4
    <3> QED
      BY <3>1, <3>2
  <2> HIDE DEF a, b
  <2>3. Max({a, b}) = a
    BY <2>1, <2>2, MaxOfTwo
  <2> QED
    BY <2>3 DEF a, b
<1> HIDE DEF Before1
<1>3. Eq(h)
  <2>1. ASSUME NEW k \in 1..n PROVE h[k] = Max({slots[k].byte_offset, Before1(h, k)})
    <3>1. k > 1 => h[k - 1] = slots[k - 1].byte_offset
      OBVIOUS
    <3>2. h[k] = slots[k].byte_offset
      OBVIOUS
    <3> HIDE DEF h
    <3> QED
      BY <1>2, <3>1, <3>2
  <2> QED
    BY <2>1
<1>4. Eq(c)
  BY <1>3
<1> HIDE DEF c
<1>5. \A k \in 1..n : c[k] = Max({slots[k].byte_offset, Before1(c, k)})
  BY <1>4
<1> DEFINE S == {k \in 0..n : k > 0 => c[k] = slots[k].byte_offset}
<1>6. 0 \in S
  OBVIOUS
<1>7. ASSUME NEW k \in 1..n, k - 1 \in S PROVE k \in S
  <2>1. k > 1 => c[k - 1] = slots[k - 1].byte_offset
    BY <1>7
  <2>2. c[k] = slots[k].byte_offset
    BY <1>2, <1>5, <2>1
  <2> QED
    BY <2>2
<1>8. \A k \in 0..n : k \in S
  <2> HIDE DEF S
  <2> QED
    BY <1>6, <1>7, UpTo
<1>9. \A k \in 1..n : c[k] = slots[k].byte_offset
  BY <1>8
<1> QED
  BY <1>1, <1>9

\* What the plan and the order of the list say of the fields: the value of field k is
\* packed at the field's offset, from where the producer has put it.
PlanOf(s, t, plan, order) ==
    /\ DOMAIN plan = 1..Len(s) /\ Len(plan) = Len(s)
    /\ DOMAIN order = 1..Len(s)
    /\ \A k \in 1..Len(s) :
          /\ plan[k].byte_offset = t[k].byte_offset /\ plan[k].dtype = t[k].dtype
          /\ plan[k].count = t[k].element_count
          /\ plan[k].index \in 1..Len(s) /\ order[plan[k].index] = s[k].name
          /\ s[k].shape = <<>> => plan[k].scalar
    /\ \A j \in 1..Len(s) : \E k \in 1..Len(s) : order[j] = s[k].name

LEMMA NamesOfSchema ==
    ASSUME NEW s \in Schemas PROVE NamesOf(s) = {s[i].name : i \in 1..Len(s)}
<1>1. Range(s) = {s[i] : i \in 1..Len(s)}
  BY SchemaShape DEF Range
<1> QED
  BY <1>1 DEF NamesOf

LEMMA PlanFacts ==
    ASSUME NEW s \in Schemas
    PROVE  PlanOf(s, AssemblyTable(s), PackPlan(Slots(s, RowOffsetTable(s))),
                  FieldOrder(s, RowOffsetTable(s)))
<1> DEFINE n == Len(s)
           t == AssemblyTable(s)
           rel == RowOffsetTable(s)
           tagged == Tagged(s, rel)
           slots == Slots(s, rel)
           cursor == Cursors(slots)
           plan == PackPlan(slots)
           order == FieldOrder(s, rel)
           N == NamesOf(s)
           size == RowSize(rel)
<1>1. TableOf(s, t, size)
  BY AssemblyFacts
<1>2. DOMAIN rel = 1..n /\ \A j \in 1..n : \E k \in 1..n : rel[j] = t[k]
  BY RowTable
<1>3. /\ DOMAIN slots = 1..n
      /\ \A k \in 1..n : \E j \in 1..n : rel[j] = t[k] /\ slots[k] = tagged[j]
  BY SlotsOf
<1>4. \A j \in 1..n : /\ tagged[j].index = j /\ tagged[j].byte_offset = rel[j].byte_offset
                      /\ tagged[j].byte_count = rel[j].byte_count
                      /\ tagged[j].dtype = rel[j].dtype
                      /\ tagged[j].count = rel[j].element_count
                      /\ "byte_offset" \in DOMAIN tagged[j]
                      /\ tagged[j] = [x \in DOMAIN tagged[j] |-> tagged[j][x]]
  BY <1>2 DEF Tagged
<1>5. /\ N = {s[i].name : i \in 1..n}
      /\ DOMAIN order = 1..n
      /\ \A i \in 1..n : order[i] = CHOOSE m \in N : NameHash[m] = rel[i].name_hash
  BY <1>2, NamesOfSchema DEF FieldOrder
<1>6. \A k \in 1..n : s[k].name \in Names
  BY SchemaShape, FieldShape
<1>7. plan = [k \in DOMAIN slots |->
                 IF slots[k].scalar THEN [slots[k] EXCEPT !.byte_offset = cursor[k]]
                 ELSE slots[k]]
  BY DEF PackPlan, PlanOfSlots
<1>8. n \in Nat /\ \A k \in 1..n : /\ t[k].byte_offset \in Nat /\ t[k].byte_count \in Nat
                                   /\ t[k].name_hash = NameHash[s[k].name]
  BY <1>1 DEF TableOf, Entries
<1>9. \A i, j \in 1..n : i < j => t[i].byte_offset + t[i].byte_count <= t[j].byte_offset
  BY <1>1 DEF TableOf
<1> HIDE DEF n, t, rel, tagged, slots, order, N, plan
<1>10. ASSUME NEW k \in 1..n
       PROVE  slots[k].byte_offset = t[k].byte_offset /\ slots[k].byte_count = t[k].byte_count
  <2>1. PICK j \in 1..n : rel[j] = t[k] /\ slots[k] = tagged[j]
    BY <1>3
  <2> QED
    BY <1>4, <2>1
<1>11. \A k \in 1..n : cursor[k] = slots[k].byte_offset
  <2>1. n \in Nat
    BY <1>8
  <2>2. DOMAIN slots = 1..n
    BY <1>3
  <2>3. \A k \in 1..n : slots[k].byte_offset \in Nat /\ slots[k].byte_count \in Nat
    BY <1>8, <1>10
  <2>4. ASSUME NEW k \in 1..n, k > 1
        PROVE  slots[k - 1].byte_offset + slots[k - 1].byte_count <= slots[k].byte_offset
    <3>1. k - 1 \in 1..n /\ k - 1 < k
      BY <2>1, <2>4
    <3>2. t[k - 1].byte_offset + t[k - 1].byte_count <= t[k].byte_offset
      BY <1>9, <3>1
    <3> QED
      BY <1>10, <3>1, <3>2
  <2> QED
    BY <2>1, <2>2, <2>3, <2>4, CursorsOfSlots
<1> HIDE DEF cursor
<1>12. DOMAIN plan = 1..n /\ Len(plan) = n
  BY <1>3, <1>7, <1>8
<1>13. ASSUME NEW k \in 1..n PROVE plan[k] = slots[k]
  <2>1. PICK j \in 1..n : slots[k] = tagged[j]
    BY <1>3
  <2>2. "byte_offset" \in DOMAIN slots[k] /\ slots[k] = [x \in DOMAIN slots[k] |-> slots[k][x]]
    BY <1>4, <2>1
  <2>3. cursor[k] = slots[k].byte_offset
    BY <1>11
  <2>4. [slots[k] EXCEPT !.byte_offset = cursor[k]] = slots[k]
    BY <2>2, <2>3
  <2>5. plan[k] = IF slots[k].scalar THEN [slots[k] EXCEPT !.byte_offset = cursor[k]]
                  ELSE slots[k]
    BY <1>3, <1>7
  <2> QED
    BY <2>4, <2>5
<1>14. ASSUME NEW j \in 1..n, NEW k \in 1..n, rel[j] = t[k] PROVE order[j] = s[k].name
  <2>1. rel[j].name_hash = NameHash[s[k].name]
    BY <1>8, <1>14
  <2>2. order[j] = CHOOSE m \in N : NameHash[m] = NameHash[s[k].name]
    BY <1>5, <2>1
  <2>3. s[k].name \in N /\ N \subseteq Names
    BY <1>5, <1>6
  <2>4. \A m \in N : NameHash[m] = NameHash[s[k].name] => m = s[k].name
    BY <2>3, FormatAssumption
  <2> QED
    BY <2>2, <2>3, <2>4
<1>15. ASSUME NEW k \in 1..n
       PROVE  /\ plan[k].byte_offset = t[k].byte_offset /\ plan[k].dtype = t[k].dtype
              /\ plan[k].count = t[k].element_count
              /\ plan[k].index \in 1..n /\ order[plan[k].index] = s[k].name
              /\ s[k].shape = <<>> => plan[k].scalar
  <2>1. PICK j \in 1..n : rel[j] = t[k] /\ slots[k] = tagged[j]
    BY <1>3
  <2>2. plan[k] = tagged[j]
    BY <1>13, <2>1
  <2>3. /\ plan[k].byte_offset = t[k].byte_offset /\ plan[k].dtype = t[k].dtype
        /\ plan[k].count = t[k].element_count /\ plan[k].index = j
    BY <1>4, <2>1, <2>2
  <2>4. ASSUME s[k].shape = <<>> PROVE plan[k].scalar
    <3>1. tagged[j].scalar = \E f \in Range(s) : NameHash[f.name] = rel[j].name_hash /\ f.shape = <<>>
      BY <1>2 DEF tagged, Tagged
    <3>2. s[k] \in Range(s)
      BY SchemaShape DEF Range, n
    <3>3. NameHash[s[k].name] = rel[j].name_hash
      BY <1>8, <2>1
    <3>4. \E f \in Range(s) : NameHash[f.name] = rel[j].name_hash /\ f.shape = <<>>
      BY <2>4, <3>2, <3>3
    <3> QED
      BY <2>2, <3>1, <3>4
  <2> QED
    BY <1>14, <2>1, <2>3, <2>4
<1>16. ASSUME NEW j \in 1..n PROVE \E k \in 1..n : order[j] = s[k].name
  BY <1>2, <1>14
<1> QED
  BY <1>5, <1>12, <1>15, <1>16 DEF PlanOf, n, t, plan, order, rel, slots

\* A schema has as many names, and hashes, as fields.
LEMMA CountNames ==
    ASSUME NEW s \in Schemas
    PROVE  /\ IsFiniteSet(NamesOf(s)) /\ Cardinality(NamesOf(s)) = Len(s)
           /\ IsFiniteSet(HashesOf(s)) /\ Cardinality(HashesOf(s)) = Len(s)
           /\ HashesOf(s) \subseteq Nat
           /\ HashesOf(s) = {NameHash[m] : m \in NamesOf(s)}
<1> DEFINE n == Len(s)
           N == NamesOf(s)
           H == HashesOf(s)
           f == [i \in 1..n |-> s[i].name]
           h == [i \in 1..n |-> NameHash[s[i].name]]
<1>1. n \in Nat /\ \A i, j \in 1..n : s[i].name = s[j].name => i = j
  BY SchemaShape
<1>2. N = {s[i].name : i \in 1..n} /\ H = {NameHash[s[i].name] : i \in 1..n}
  BY NamesOfSchema DEF HashesOf
<1>3. /\ \A i \in 1..n : NameHash[s[i].name] \in Nat
      /\ \A i, j \in 1..n : NameHash[s[i].name] = NameHash[s[j].name] => i = j
  BY HashesDiffer
<1> HIDE DEF n, N, H
<1>4. IsFiniteSet(N) /\ Cardinality(N) = n
  <2>1. f \in [1..n -> N] /\ \A m \in N : \E i \in 1..n : f[i] = m
    BY <1>2
  <2>2. \A i, j \in 1..n : f[i] = f[j] => i = j
    BY <1>1
  <2> HIDE DEF f
  <2> QED
    BY <1>1, <2>1, <2>2, ImageOf
<1>5. IsFiniteSet(H) /\ Cardinality(H) = n
  <2>1. h \in [1..n -> H] /\ \A m \in H : \E i \in 1..n : h[i] = m
    BY <1>2
  <2>2. \A i, j \in 1..n : h[i] = h[j] => i = j
    BY <1>3
  <2> HIDE DEF h
  <2> QED
    BY <1>1, <2>1, <2>2, ImageOf
<1>6. H \subseteq Nat
  BY <1>2, <1>3
<1>7. H = {NameHash[m] : m \in N}
  BY <1>2
<1> QED
  BY <1>4, <1>5, <1>6, <1>7 DEF n, N, H

\* field_order_for depends on the names only: not on the declaration order, nor on
\* dtypes or shapes.
LEMMA OrderOfNames ==
    ASSUME NEW s \in Schemas, NEW u \in Schemas, NamesOf(s) = NamesOf(u)
    PROVE  FieldOrder(s, RowOffsetTable(s)) = FieldOrder(u, RowOffsetTable(u))
<1> DEFINE n == Len(s)
           N == NamesOf(s)
           H == HashesOf(s)
           a == RowOffsetTable(s)
           b == RowOffsetTable(u)
<1>1. /\ Len(u) = n /\ n \in Nat /\ HashesOf(u) = H
      /\ IsFiniteSet(H) /\ Cardinality(H) = n /\ H \subseteq Nat
  BY CountNames, SchemaShape
<1>2. /\ DOMAIN a = 1..n
      /\ \A i \in 1..n : a[i].name_hash \in H /\ RankIn(H, a[i].name_hash) = i - 1
  <2>1. /\ DOMAIN a = 1..n
        /\ \A i \in 1..n : /\ \E k \in 1..n : a[i] = AssemblyTable(s)[k]
                           /\ RankIn(H, a[i].name_hash) = i - 1
    BY RowTable
  <2>2. \A k \in 1..n : AssemblyTable(s)[k].name_hash \in H
    BY AssemblyFacts DEF TableOf, HashesOf
  <2> QED
    BY <2>1, <2>2
<1>3. /\ DOMAIN b = 1..n
      /\ \A i \in 1..n : b[i].name_hash \in H /\ RankIn(H, b[i].name_hash) = i - 1
  <2>1. /\ DOMAIN b = 1..Len(u)
        /\ \A i \in 1..Len(u) : /\ \E k \in 1..Len(u) : b[i] = AssemblyTable(u)[k]
                                /\ RankIn(HashesOf(u), b[i].name_hash) = i - 1
    BY RowTable
  <2>2. \A k \in 1..Len(u) : AssemblyTable(u)[k].name_hash \in HashesOf(u)
    BY AssemblyFacts DEF TableOf, HashesOf
  <2> QED
    BY <1>1, <2>1, <2>2
<1>4. /\ FieldOrder(s, a) = [i \in DOMAIN a |-> CHOOSE m \in N : NameHash[m] = a[i].name_hash]
      /\ FieldOrder(u, b) = [i \in DOMAIN b |-> CHOOSE m \in N : NameHash[m] = b[i].name_hash]
  BY DEF FieldOrder
<1> HIDE DEF n, N, H, a, b
<1>5. ASSUME NEW i \in 1..n PROVE a[i].name_hash = b[i].name_hash
  <2>1. \A g, h \in H : RankIn(H, g) = RankIn(H, h) => g = h
    BY <1>1, Ranks
  <2> QED
    BY <1>2, <1>3, <2>1
<1>6. FieldOrder(s, a) = FieldOrder(u, b)
  BY <1>2, <1>3, <1>4, <1>5
<1> QED
  BY <1>6 DEF a, b

\* A schema whose names are among those of another of the same length has its names.
LEMMA NamesOfSameLength ==
    ASSUME NEW s \in Schemas, NEW u \in Schemas, NamesOf(s) \subseteq NamesOf(u),
           Len(s) = Len(u)
    PROVE  NamesOf(s) = NamesOf(u)
<1>1. /\ IsFiniteSet(NamesOf(u)) /\ Cardinality(NamesOf(u)) = Len(u)
      /\ Cardinality(NamesOf(s)) = Len(s)
  BY CountNames
<1> QED
  BY <1>1, FS_Subset

\* A name of a schema names one field.
LEMMA NamedField ==
    ASSUME NEW s \in Schemas, NEW i \in 1..Len(s)
    PROVE  FieldNamed(s, s[i].name) = s[i] /\ s[i].name \in NamesOf(s)
<1>1. Range(s) = {s[k] : k \in 1..Len(s)}
  BY SchemaShape DEF Range
<1>2. \A f \in Range(s) : f.name = s[i].name => f = s[i]
  BY <1>1, SchemaShape
<1>3. s[i] \in Range(s)
  BY <1>1
<1>4. FieldNamed(s, s[i].name) = s[i]
  BY <1>2, <1>3 DEF FieldNamed
<1> QED
  BY <1>3, <1>4 DEF NamesOf

--------------------------------------------------------------------------------
(* Bytes *)

IsVector(vec, m) == vec = [e \in 1..m |-> vec[e]]

LEMMA ByteSizes == \A d \in DType : ByteSize[d] \in {1, 4, 8}
BY DEF DType, ByteSize

LEMMA DivFour ==
    ASSUME NEW x \in Nat, NEW j \in Nat, j <= 3, NEW a, a = 4 * x + j
    PROVE  a \div 4 = x /\ a % 4 = j
<1>1. a \in Nat
  OBVIOUS
<1>2. a \div 4 = x
  BY <1>1
<1>3. a % 4 = j
  BY <1>1
<1> QED
  BY <1>2, <1>3

LEMMA DivEight ==
    ASSUME NEW x \in Nat, NEW j \in Nat, j <= 7, NEW a, a = 8 * x + j
    PROVE  a \div 8 = x /\ a % 8 = j
<1>1. a \in Nat
  OBVIOUS
<1>2. a \div 8 = x
  BY <1>1
<1>3. a % 8 = j
  BY <1>1
<1> QED
  BY <1>2, <1>3

\* What has been stored is read, whatever it is: where all its bytes still are.
LEMMA PutGet ==
    ASSUME NEW o \in Nat, NEW d \in DType, NEW m \in Nat,
           NEW vec, IsVector(vec, m), NEW bytes,
           \A a \in o..(o + m * ByteSize[d] - 1) :
              a \in DOMAIN bytes /\ bytes[a] = Put(o, d, vec)[a]
    PROVE  Get(bytes, o, d, m) = vec
<1> DEFINE b == ByteSize[d]
           Byte(a) == IF a \in DOMAIN bytes THEN bytes[a] ELSE ZeroByte
           all(e) == [j \in 0..(b - 1) |-> Byte(o + (e - 1) * b + j)]
           Element(e) == IF \A j \in DOMAIN all(e) : all(e)[j] = ZeroByte THEN Zero
                         ELSE IF all(e)[0] # ZeroByte
                                 /\ \A j \in DOMAIN all(e) : all(e)[j] = <<d, all(e)[0][2], j>>
                              THEN all(e)[0][2] ELSE "garbage"
<1>1. b \in {1, 4, 8}
  BY ByteSizes
<1>2. Len(vec) = m /\ vec = [e \in 1..m |-> vec[e]]
  BY DEF IsVector
<1>3. Get(bytes, o, d, m) = [e \in 1..m |-> Element(e)]
  BY DEF Get
<1>4. Put(o, d, vec) =
         [a \in o..(o + m * b - 1) |->
            IF vec[(a - o) \div b + 1] = Zero THEN ZeroByte
            ELSE <<d, vec[(a - o) \div b + 1], (a - o) % b>>]
  BY <1>2 DEF Put
<1> HIDE DEF b
<1>5. ASSUME NEW e \in 1..m, NEW j \in 0..(b - 1)
      PROVE  Byte(o + (e - 1) * b + j) = IF vec[e] = Zero THEN ZeroByte ELSE <<d, vec[e], j>>
  <2> DEFINE a == (e - 1) * b + j
             w == m * b
  <2>1. a \in 0..(w - 1) /\ a \div b = e - 1 /\ a % b = j
    <3>1. a = (e - 1) * b + j /\ w = m * b
      OBVIOUS
    <3> HIDE DEF a, w
    <3>2. CASE b = 1
      BY <3>1, <3>2
    <3>3. CASE b = 4
      <4>1. a = (e - 1) * 4 + j /\ w = m * 4 /\ j \in 0..3
        BY <3>1, <3>3
      <4>2. e \in Int /\ 1 <= e /\ e <= m
        OBVIOUS
      <4>3. a \in 0..(w - 1)
        BY <4>1, <4>2
      <4>4. a \div 4 = e - 1 /\ a % 4 = j
        <5>1. PICK x \in Nat : x = e - 1
          BY <4>2
        <5>2. a = 4 * x + j /\ j \in Nat /\ j <= 3
          BY <4>1, <5>1
        <5>3. a \div 4 = x /\ a % 4 = j
          BY <5>2, DivFour
        <5> QED
          BY <5>1, <5>3
      <4> QED
        BY <3>3, <4>3, <4>4
    <3>4. CASE b = 8
      <4>1. a = (e - 1) * 8 + j /\ w = m * 8 /\ j \in 0..7
        BY <3>1, <3>4
      <4>2. e \in Int /\ 1 <= e /\ e <= m
        OBVIOUS
      <4>3. a \in 0..(w - 1)
        BY <4>1, <4>2
      <4>4. a \div 8 = e - 1 /\ a % 8 = j
        <5>1. PICK x \in Nat : x = e - 1
          BY <4>2
        <5>2. a = 8 * x + j /\ j \in Nat /\ j <= 7
          BY <4>1, <5>1
        <5>3. a \div 8 = x /\ a % 8 = j
          BY <5>2, DivEight
        <5> QED
          BY <5>1, <5>3
      <4> QED
        BY <3>4, <4>3, <4>4
    <3> QED
      BY <1>1, <3>2, <3>3, <3>4
  <2>2. w \in Nat
    BY <1>1
  <2>3. o + (e - 1) * b + j = o + a
    BY <1>1
  <2>4. e \in Int
    OBVIOUS
  <2> HIDE DEF a, w
  <2>5. o + a \in o..(o + w - 1) /\ (o + a) - o = a
    BY <2>1, <2>2
  <2>6. ((o + a) - o) \div b + 1 = e /\ ((o + a) - o) % b = j
    BY <2>1, <2>4, <2>5
  <2>7. o + a \in DOMAIN bytes /\ bytes[o + a] = Put(o, d, vec)[o + a]
    BY <2>5 DEF w, b
  <2>8. Put(o, d, vec)[o + a] = IF vec[e] = Zero THEN ZeroByte ELSE <<d, vec[e], j>>
    BY <1>4, <2>5, <2>6 DEF w
  <2> QED
    BY <2>3, <2>7, <2>8
<1> HIDE DEF Byte
<1>6. ASSUME NEW e \in 1..m PROVE Element(e) = vec[e]
  <2> DEFINE x == all(e)
             v == vec[e]
  <2>1. DOMAIN x = 0..(b - 1)
        /\ \A j \in 0..(b - 1) : x[j] = IF v = Zero THEN ZeroByte ELSE <<d, v, j>>
    BY <1>5
  <2>2. 0 \in 0..(b - 1)
    BY <1>1
  <2> HIDE DEF x, v
  <2>3. Element(e) = IF \A j \in DOMAIN x : x[j] = ZeroByte THEN Zero
                     ELSE IF x[0] # ZeroByte /\ \A j \in DOMAIN x : x[j] = <<d, x[0][2], j>>
                          THEN x[0][2] ELSE "garbage"
    BY DEF x
  <2>4. \A j : <<d, v, j>> # ZeroByte
    BY DEF ZeroByte
  <2> HIDE DEF Element
  <2>5. CASE v = Zero
    BY <2>1, <2>3, <2>5 DEF v
  <2>6. CASE v # Zero
    <3>1. x[0] = <<d, v, 0>>
      BY <2>1, <2>2, <2>6
    <3>2. x[0] # ZeroByte /\ x[0][2] = v
      BY <2>4, <3>1
    <3>3. \A j \in DOMAIN x : x[j] = <<d, x[0][2], j>>
      BY <2>1, <2>6, <3>2
    <3>4. ~ \A j \in DOMAIN x : x[j] = ZeroByte
      BY <2>1, <2>2, <3>2
    <3> QED
      BY <2>3, <3>2, <3>3, <3>4 DEF v
  <2> QED
    BY <2>5, <2>6
<1> HIDE DEF Element
<1>7. [e \in 1..m |-> Element(e)] = [e \in 1..m |-> vec[e]]
  BY <1>6
<1> QED
  BY <1>2, <1>3, <1>7

\* Where one store of several goes, it stays.
LEMMA OverAllAt ==
    ASSUME NEW n \in Nat, NEW stores, DOMAIN stores = 1..n, NEW k \in 1..n,
           NEW a \in DOMAIN stores[k], \A j \in 1..n : j # k => a \notin DOMAIN stores[j]
    PROVE  a \in DOMAIN OverAll(stores) /\ OverAll(stores)[a] = stores[k][a]
<1> DEFINE K == {j \in DOMAIN stores : a \in DOMAIN stores[j]}
           m == Max(K)
<1>1. K = {k}
  OBVIOUS
<1>2. m = k
  BY <1>1 DEF Max
<1>3. a \in UNION {DOMAIN stores[j] : j \in DOMAIN stores}
  OBVIOUS
<1> HIDE DEF m, K
<1>4. OverAll(stores) = [x \in UNION {DOMAIN stores[j] : j \in DOMAIN stores} |->
          stores[Max({j \in DOMAIN stores : x \in DOMAIN stores[j]})][x]]
  BY DEF OverAll
<1>5. a \in DOMAIN OverAll(stores)
      /\ OverAll(stores)[a] = stores[Max({j \in DOMAIN stores : a \in DOMAIN stores[j]})][a]
  BY <1>3, <1>4
<1> QED
  BY <1>2, <1>5 DEF m, K

LEMMA OverAllDomain ==
    ASSUME NEW n \in Nat, NEW stores, DOMAIN stores = 1..n, NEW a
    PROVE  a \in DOMAIN OverAll(stores) <=> \E k \in 1..n : a \in DOMAIN stores[k]
BY DEF OverAll

\* The bytes of a field.
Region(t, k) == t[k].byte_offset..(t[k].byte_offset + t[k].byte_count - 1)

LEMMA RegionsApart ==
    ASSUME NEW s, NEW t, NEW size, TableOf(s, t, size)
    PROVE  /\ \A k \in 1..Len(s) : Region(t, k) \subseteq 0..(size - 1)
           /\ \A j, k \in 1..Len(s) : j # k => \A a \in Region(t, j) : a \notin Region(t, k)
<1> DEFINE n == Len(s)
<1>1. /\ n \in Nat /\ size \in Nat
      /\ \A i \in 1..n : t[i].byte_offset \in Nat /\ t[i].byte_count \in Nat
      /\ \A i \in 1..n : t[i].byte_offset + t[i].byte_count <= size
      /\ \A i, j \in 1..n : i < j => t[i].byte_offset + t[i].byte_count <= t[j].byte_offset
  BY DEF TableOf, Entries
<1> HIDE DEF n
<1>2. ASSUME NEW k \in 1..n PROVE Region(t, k) \subseteq 0..(size - 1)
  <2>1. /\ t[k].byte_offset \in Nat /\ t[k].byte_count \in Nat
        /\ t[k].byte_offset + t[k].byte_count <= size
    BY <1>1
  <2> QED
    BY <1>1, <2>1 DEF Region
<1>3. ASSUME NEW j \in 1..n, NEW k \in 1..n, j < k, NEW a \in Region(t, j)
      PROVE  a \notin Region(t, k)
  <2>1. /\ t[j].byte_offset \in Nat /\ t[j].byte_count \in Nat
        /\ t[k].byte_offset \in Nat /\ t[k].byte_count \in Nat
        /\ t[j].byte_offset + t[j].byte_count <= t[k].byte_offset
    BY <1>1, <1>3
  <2> QED
    BY <1>3, <2>1 DEF Region
<1>4. ASSUME NEW j \in 1..n, NEW k \in 1..n, j # k, NEW a \in Region(t, j)
      PROVE  a \notin Region(t, k)
  <2>1. j < k \/ k < j
    BY <1>1, <1>4
  <2> QED
    BY <1>3, <1>4, <2>1
<1> QED
  BY <1>2, <1>4 DEF n

\* Stores to some of the fields.
LEMMA SomeStores ==
    ASSUME NEW s, NEW t, NEW size, TableOf(s, t, size), NEW which,
           NEW stores, DOMAIN stores = 1..Len(s),
           \A k \in 1..Len(s) : DOMAIN stores[k] = IF k \in which THEN Region(t, k) ELSE {}
    PROVE  /\ DOMAIN OverAll(stores) \subseteq 0..(size - 1)
           /\ \A k \in 1..Len(s) : \A a \in Region(t, k) :
                 IF k \in which
                 THEN a \in DOMAIN OverAll(stores) /\ OverAll(stores)[a] = stores[k][a]
                 ELSE a \notin DOMAIN OverAll(stores)
<1> DEFINE n == Len(s)
<1>0. n \in Nat
  BY DEF TableOf
<1>1. /\ \A k \in 1..n : Region(t, k) \subseteq 0..(size - 1)
      /\ \A j, k \in 1..n : j # k => \A a \in Region(t, j) : a \notin Region(t, k)
  BY RegionsApart
<1>2. DOMAIN stores = 1..n
      /\ \A k \in 1..n : DOMAIN stores[k] = IF k \in which THEN Region(t, k) ELSE {}
  OBVIOUS
<1> HIDE DEF n
<1>3. \A a : a \in DOMAIN OverAll(stores) <=> \E k \in 1..n : a \in DOMAIN stores[k]
  BY <1>0, <1>2, OverAllDomain
<1>4. DOMAIN OverAll(stores) \subseteq 0..(size - 1)
  BY <1>1, <1>2, <1>3
<1>5. ASSUME NEW k \in 1..n, NEW a \in Region(t, k)
      PROVE  IF k \in which
             THEN a \in DOMAIN OverAll(stores) /\ OverAll(stores)[a] = stores[k][a]
             ELSE a \notin DOMAIN OverAll(stores)
  <2>1. \A j \in 1..n : j # k => a \notin DOMAIN stores[j]
    BY <1>1, <1>2, <1>5
  <2>2. CASE k \in which
    <3>1. a \in DOMAIN stores[k]
      BY <1>2, <1>5, <2>2
    <3> QED
      BY <1>0, <1>2, <2>1, <2>2, <3>1, OverAllAt
  <2>3. CASE k \notin which
    <3>1. a \notin DOMAIN stores[k]
      BY <1>2, <2>3
    <3> QED
      BY <1>3, <2>1, <2>3, <3>1
  <2> QED
    BY <2>2, <2>3
<1> QED
  BY <1>4, <1>5 DEF n

\* The bytes of field k hold a value.
Holds(bytes, t, k, vec) ==
    \A a \in Region(t, k) : /\ a \in DOMAIN bytes
                            /\ bytes[a] = Put(t[k].byte_offset, t[k].dtype, vec)[a]

\* A field reads what is stored in its bytes.
LEMMA FieldReads ==
    ASSUME NEW s, NEW t, NEW size, TableOf(s, t, size), NEW k \in 1..Len(s),
           NEW vec, IsVector(vec, t[k].element_count), NEW bytes, Holds(bytes, t, k, vec)
    PROVE  ReadField(t[k], bytes) = vec
<1> DEFINE o == t[k].byte_offset
           d == t[k].dtype
           m == t[k].element_count
<1>1. o \in Nat /\ d \in DType /\ m \in Nat /\ t[k].byte_count = m * ByteSize[d]
  BY DEF TableOf, Entries
<1>2. ReadField(t[k], bytes) = Get(bytes, o, d, m)
  BY DEF ReadField
<1>3. Region(t, k) = o..(o + m * ByteSize[d] - 1)
  BY <1>1 DEF Region
<1>4. IsVector(vec, m)
  OBVIOUS
<1>5. \A a \in o..(o + m * ByteSize[d] - 1) :
         a \in DOMAIN bytes /\ bytes[a] = Put(o, d, vec)[a]
  BY <1>3 DEF Holds
<1> HIDE DEF o, d, m
<1> QED
  BY <1>1, <1>2, <1>4, <1>5, PutGet

\* The bytes a field's value takes.
LEMMA PutRegion ==
    ASSUME NEW s, NEW t, NEW size, TableOf(s, t, size), NEW k \in 1..Len(s),
           NEW vec, IsVector(vec, t[k].element_count)
    PROVE  DOMAIN Put(t[k].byte_offset, t[k].dtype, vec) = Region(t, k)
<1>1. t[k].element_count \in Nat
      /\ t[k].byte_count = t[k].element_count * ByteSize[t[k].dtype]
  BY DEF TableOf, Entries
<1>2. Len(vec) = t[k].element_count
  BY <1>1 DEF IsVector
<1> QED
  BY <1>1, <1>2 DEF Put, Region

LEMMA CastVector ==
    ASSUME NEW m \in Nat, NEW vec, IsVector(vec, m), NEW d
    PROVE  /\ IsVector(CastAll(vec, d), m) /\ DOMAIN vec = 1..m /\ Len(vec) = m
           /\ \A e \in 1..m : CastAll(vec, d)[e] = Cast(vec[e], d)
<1>1. DOMAIN vec = 1..m /\ Len(vec) = m
  BY DEF IsVector
<1>2. CastAll(vec, d) = [e \in 1..m |-> Cast(vec[e], d)]
  BY <1>1 DEF CastAll
<1> QED
  BY <1>1, <1>2 DEF IsVector

\* insert_many stores each column in its field.
LEMMA InsertReads ==
    ASSUME NEW s \in Schemas, NEW t, NEW size, TableOf(s, t, size), NEW values,
           \A i \in 1..Len(s) : IsVector(values[s[i].name], ElementCount(s[i]))
    PROVE  /\ DOMAIN InsertMany(s, t, values) \subseteq 0..(size - 1)
           /\ \A i \in 1..Len(s) : ReadField(t[i], InsertMany(s, t, values)) =
                                      CastAll(values[s[i].name], s[i].dtype)
<1> DEFINE n == Len(s)
           V(i) == CastAll(values[s[i].name], t[i].dtype)
           stores == [i \in 1..n |-> Put(t[i].byte_offset, t[i].dtype, V(i))]
           bytes == OverAll(stores)
           which == 1..n
<1>1. /\ n \in Nat
      /\ \A i \in 1..n : /\ t[i].element_count = ElementCount(s[i])
                         /\ t[i].dtype = s[i].dtype /\ t[i].element_count \in Nat
  BY DEF TableOf, Entries
<1>2. InsertMany(s, t, values) = bytes
  <2>1. DOMAIN s = 1..n
    BY SchemaShape
  <2> QED
    BY <2>1 DEF InsertMany
<1>3. ASSUME NEW i \in 1..n PROVE IsVector(V(i), t[i].element_count)
  BY <1>1, CastVector
<1> HIDE DEF n, V
<1>4. ASSUME NEW i \in 1..n PROVE DOMAIN stores[i] = Region(t, i)
  <2>1. DOMAIN Put(t[i].byte_offset, t[i].dtype, V(i)) = Region(t, i)
    BY <1>3, PutRegion DEF n
  <2> QED
    BY <2>1
<1>5. DOMAIN stores = 1..n /\ \A i \in 1..n : DOMAIN stores[i] =
                                 IF i \in which THEN Region(t, i) ELSE {}
  BY <1>4
<1>6. \A i \in 1..n : stores[i] = Put(t[i].byte_offset, t[i].dtype, V(i))
  OBVIOUS
<1> HIDE DEF stores
<1>7. /\ DOMAIN bytes \subseteq 0..(size - 1)
      /\ \A k \in 1..n : \A a \in Region(t, k) :
            IF k \in which THEN a \in DOMAIN bytes /\ bytes[a] = stores[k][a]
            ELSE a \notin DOMAIN bytes
  <2> HIDE DEF which
  <2> QED
    BY <1>5, SomeStores DEF n
<1> HIDE DEF bytes
<1>8. ASSUME NEW i \in 1..n PROVE ReadField(t[i], bytes) = V(i)
  <2>1. \A a \in Region(t, i) : a \in DOMAIN bytes
                            /\ bytes[a] = Put(t[i].byte_offset, t[i].dtype, V(i))[a]
    BY <1>6, <1>7
  <2>2. PICK vec : vec = V(i)
    OBVIOUS
  <2>3. IsVector(vec, t[i].element_count) /\ i \in 1..Len(s)
    BY <1>3, <2>2 DEF n
  <2>4. Holds(bytes, t, i, vec)
    BY <2>1, <2>2 DEF Holds
  <2>5. ReadField(t[i], bytes) = vec
    BY <2>3, <2>4, FieldReads
  <2> QED
    BY <2>2, <2>5
<1>9. \A i \in 1..n : V(i) = CastAll(values[s[i].name], s[i].dtype)
  BY <1>1 DEF V
<1> QED
  BY <1>2, <1>7, <1>8, <1>9 DEF n

\* The stores of some slots of a plan, up to the first value that is refused.
LEMMA SlotStores ==
    ASSUME NEW s, NEW t, NEW size, TableOf(s, t, size),
           NEW plan, NEW order, PlanOf(s, t, plan, order), NEW list,
           \A j \in 1..Len(s) : \E m \in Nat : IsVector(list[j], m),
           NEW which, which \subseteq 1..Len(s),
           NEW fit, \A k : k \in fit <=> k \in which
                                   /\ \A j \in which : j <= k => Packs(plan[j], list)
    PROVE  /\ DOMAIN PackSlots(plan, which, list) \subseteq 0..(size - 1)
           /\ \A k \in 1..Len(s) : \A a \in Region(t, k) :
                 IF k \in fit
                 THEN /\ a \in DOMAIN PackSlots(plan, which, list)
                      /\ PackSlots(plan, which, list)[a] =
                            Put(t[k].byte_offset, t[k].dtype,
                                CastAll(list[plan[k].index], t[k].dtype))[a]
                 ELSE a \notin DOMAIN PackSlots(plan, which, list)
<1> DEFINE n == Len(s)
           V(k) == CastAll(list[plan[k].index], t[k].dtype)
           P(k) == Put(t[k].byte_offset, t[k].dtype, V(k))
           stores == [k \in 1..n |-> IF k \in fit THEN P(k) ELSE <<>>]
           bytes == OverAll(stores)
<1>1. /\ n \in Nat /\ DOMAIN plan = 1..n
      /\ \A k \in 1..n : /\ plan[k].byte_offset = t[k].byte_offset
                         /\ plan[k].dtype = t[k].dtype /\ plan[k].count = t[k].element_count
                         /\ plan[k].index \in 1..n
  BY DEF TableOf, PlanOf
<1>2. PackSlots(plan, which, list) = bytes
  <2> DEFINE Q(k) == Put(plan[k].byte_offset, plan[k].dtype,
                         CastAll(list[plan[k].index], plan[k].dtype))
             F(k) == k \in which /\ \A j \in which : j <= k => Packs(plan[j], list)
  <2>1. PackSlots(plan, which, list) =
           OverAll([k \in DOMAIN plan |-> IF F(k) THEN Q(k) ELSE <<>>])
    BY DEF PackSlots
  <2>2. \A k \in 1..n : Q(k) = P(k)
    BY <1>1
  <2>3. \A k \in 1..n : F(k) <=> k \in fit
    OBVIOUS
  <2> HIDE DEF Q, P, F
  <2>4. [k \in DOMAIN plan |-> IF F(k) THEN Q(k) ELSE <<>>] = stores
    BY <1>1, <2>2, <2>3
  <2> QED
    BY <2>1, <2>4
<1>3. ASSUME NEW k \in fit PROVE IsVector(V(k), t[k].element_count)
  <2>0. k \in which /\ k \in 1..n
    OBVIOUS
  <2>1. Packs(plan[k], list)
    BY <1>1, <2>0
  <2>2. PICK m \in Nat : IsVector(list[plan[k].index], m)
    BY <1>1, <2>0
  <2>3. Len(list[plan[k].index]) = m /\ IsVector(V(k), m)
    BY <2>2, CastVector
  <2>4. m = t[k].element_count
    BY <1>1, <2>0, <2>1, <2>3 DEF Packs
  <2> QED
    BY <2>3, <2>4
<1>4. fit \subseteq 1..n
  OBVIOUS
<1> HIDE DEF n, V
<1>5. ASSUME NEW k \in 1..n
      PROVE  DOMAIN stores[k] = IF k \in fit THEN Region(t, k) ELSE {}
  <2>1. CASE k \in fit
    <3>1. DOMAIN P(k) = Region(t, k)
      BY <1>3, <2>1, PutRegion DEF n
    <3>2. stores[k] = P(k)
      BY <2>1
    <3> QED
      BY <2>1, <3>1, <3>2
  <2>2. CASE k \notin fit
    <3>1. stores[k] = <<>>
      BY <2>2
    <3> QED
      BY <2>2, <3>1
  <2> QED
    BY <2>1, <2>2
<1>6. DOMAIN stores = 1..n /\ \A k \in 1..n : k \in fit => stores[k] = P(k)
  OBVIOUS
<1>9. \A k \in 1..n : DOMAIN stores[k] = IF k \in fit THEN Region(t, k) ELSE {}
  BY <1>5
<1> HIDE DEF stores, P
<1>7. /\ DOMAIN bytes \subseteq 0..(size - 1)
      /\ \A k \in 1..n : \A a \in Region(t, k) :
            IF k \in fit THEN a \in DOMAIN bytes /\ bytes[a] = stores[k][a]
            ELSE a \notin DOMAIN bytes
  <2>1. DOMAIN stores = 1..n
    BY <1>6
  <2> QED
    BY <1>9, <2>1, SomeStores DEF n
<1> HIDE DEF bytes
<1>8. ASSUME NEW k \in 1..n, NEW a \in Region(t, k)
      PROVE  IF k \in fit THEN a \in DOMAIN bytes /\ bytes[a] = P(k)[a]
             ELSE a \notin DOMAIN bytes
  BY <1>6, <1>7
<1> QED
  BY <1>2, <1>7, <1>8 DEF n, P, V

\* pack_row_from_list stays in the row, and when it takes every value, each is in its field.
LEMMA PackReads ==
    ASSUME NEW s, NEW t, NEW size, TableOf(s, t, size),
           NEW plan, NEW order, PlanOf(s, t, plan, order), NEW list,
           \A j \in 1..Len(s) : \E m \in Nat : IsVector(list[j], m),
           NEW bytes, DOMAIN bytes \subseteq 0..(size - 1)
    PROVE  /\ DOMAIN PackInto(plan, list, bytes) \subseteq 0..(size - 1)
           /\ (\A k \in 1..Len(s) : Packs(plan[k], list)) =>
                 \A k \in 1..Len(s) : ReadField(t[k], PackInto(plan, list, bytes)) =
                                         CastAll(list[plan[k].index], t[k].dtype)
<1> DEFINE n == Len(s)
           scalars == {k \in 1..n : plan[k].scalar}
           shaped == (1..n) \ scalars
           FitOf(w) == {k \in w : \A j \in w : j <= k => Packs(plan[j], list)}
           fit1 == FitOf(scalars)
           fit2 == FitOf(shaped)
           p1 == PackSlots(plan, scalars, list)
           p2 == PackSlots(plan, shaped, list)
           base == IF scalars = {} THEN bytes ELSE <<>>
           packed == Over(p1, base)
           both == Over(p2, packed)
           all == \A k \in scalars : Packs(plan[k], list)
           result == PackInto(plan, list, bytes)
           V(k) == CastAll(list[plan[k].index], t[k].dtype)
           P(k) == Put(t[k].byte_offset, t[k].dtype, V(k))
<1>1. n \in Nat /\ DOMAIN plan = 1..n
  BY DEF TableOf, PlanOf
<1>2. result = IF all THEN both ELSE packed
  BY <1>1 DEF PackInto
<1>3. scalars \subseteq 1..n /\ shaped \subseteq 1..n
  OBVIOUS
<1>4. /\ DOMAIN p1 \subseteq 0..(size - 1)
      /\ \A k \in 1..n : \A a \in Region(t, k) :
            IF k \in fit1 THEN a \in DOMAIN p1 /\ p1[a] = P(k)[a] ELSE a \notin DOMAIN p1
  <2>1. \A k : k \in fit1 <=> k \in scalars
                           /\ \A j \in scalars : j <= k => Packs(plan[j], list)
    OBVIOUS
  <2> HIDE DEF scalars, fit1
  <2> QED
    BY <1>3, <2>1, SlotStores
<1>5. /\ DOMAIN p2 \subseteq 0..(size - 1)
      /\ \A k \in 1..n : \A a \in Region(t, k) :
            IF k \in fit2 THEN a \in DOMAIN p2 /\ p2[a] = P(k)[a] ELSE a \notin DOMAIN p2
  <2>1. \A k : k \in fit2 <=> k \in shaped
                           /\ \A j \in shaped : j <= k => Packs(plan[j], list)
    OBVIOUS
  <2> HIDE DEF shaped, fit2
  <2> QED
    BY <1>3, <2>1, SlotStores
<1>6. DOMAIN base \subseteq 0..(size - 1)
  <2>1. DOMAIN <<>> = {}
    OBVIOUS
  <2> QED
    BY <2>1
<1> HIDE DEF p1, p2, base
<1>7. DOMAIN packed \subseteq 0..(size - 1) /\ DOMAIN both \subseteq 0..(size - 1)
  BY <1>4, <1>5, <1>6 DEF Over
<1>8. DOMAIN result \subseteq 0..(size - 1)
  <2> HIDE DEF result, packed, both, all
  <2> QED
    BY <1>2, <1>7
<1>9. ASSUME \A k \in 1..n : Packs(plan[k], list), NEW k \in 1..n
      PROVE  ReadField(t[k], result) = V(k)
  <2>1. all /\ fit1 = scalars /\ fit2 = shaped
    BY <1>3, <1>9
  <2>2. result = both
    BY <1>2, <2>1
  <2> HIDE DEF result, all, fit1, fit2, P
  <2>3. ASSUME NEW a \in Region(t, k) PROVE a \in DOMAIN both /\ both[a] = P(k)[a]
    <3>1. CASE k \in scalars
      <4>1. k \notin shaped
        BY <3>1
      <4>2. a \in DOMAIN p1 /\ p1[a] = P(k)[a] /\ a \notin DOMAIN p2
        BY <1>4, <1>5, <2>1, <2>3, <3>1, <4>1
      <4>3. a \in DOMAIN packed /\ packed[a] = p1[a]
        BY <4>2 DEF Over
      <4> HIDE DEF packed
      <4>4. a \in DOMAIN both /\ both[a] = packed[a]
        BY <4>2, <4>3 DEF Over
      <4> QED
        BY <4>2, <4>3, <4>4
    <3>2. CASE k \notin scalars
      <4>1. k \in shaped
        BY <3>2
      <4>2. a \in DOMAIN p2 /\ p2[a] = P(k)[a]
        BY <1>5, <2>1, <2>3, <4>1
      <4> HIDE DEF packed
      <4>3. a \in DOMAIN both /\ both[a] = p2[a]
        BY <4>2 DEF Over
      <4> QED
        BY <4>2, <4>3
    <3> QED
      BY <3>1, <3>2
  <2>4. IsVector(V(k), t[k].element_count)
    <3>1. plan[k].index \in 1..n /\ plan[k].count = t[k].element_count
      BY DEF PlanOf
    <3>2. PICK m \in Nat : IsVector(list[plan[k].index], m)
      BY <3>1
    <3>3. Len(list[plan[k].index]) = m /\ IsVector(V(k), m)
      BY <3>2, CastVector
    <3>4. m = t[k].element_count
      BY <1>9, <3>1, <3>3 DEF Packs
    <3> QED
      BY <3>3, <3>4
  <2> HIDE DEF V, both
  <2>5. PICK vec : vec = V(k)
    OBVIOUS
  <2>6. IsVector(vec, t[k].element_count) /\ k \in 1..Len(s)
    BY <2>4, <2>5
  <2>7. Holds(both, t, k, vec)
    BY <2>3, <2>5 DEF P, Holds
  <2>8. ReadField(t[k], both) = vec
    BY <2>6, <2>7, FieldReads
  <2> QED
    BY <2>2, <2>5, <2>8
<1> QED
  BY <1>8, <1>9

LEMMA PackedReads ==
    ASSUME NEW s, NEW t, NEW size, TableOf(s, t, size),
           NEW plan, NEW order, PlanOf(s, t, plan, order), NEW list,
           \A j \in 1..Len(s) : \E m \in Nat : IsVector(list[j], m),
           NEW bytes, DOMAIN bytes \subseteq 0..(size - 1),
           \A k \in 1..Len(s) : Packs(plan[k], list), NEW k \in 1..Len(s)
    PROVE  ReadField(t[k], PackInto(plan, list, bytes)) =
              CastAll(list[plan[k].index], t[k].dtype)
BY PackReads

--------------------------------------------------------------------------------
(* Values *)

\* A vector of m values of a dtype.
ValuesOf(vec, m, d) == IsVector(vec, m) /\ \A e \in 1..m : vec[e] \in Representable[d]

\* The cast of a value that fits is a value of the dtype, and a value of the dtype is kept.
LEMMA CastIsValue ==
    ASSUME NEW d \in DType, NEW v
    PROVE  /\ Fits(v, d) => Cast(v, d) \in Representable[d]
           /\ v \in Representable[d] => Cast(v, d) = v
<1>1. CASE v \in Representable[d]
  BY <1>1 DEF Cast
<1>2. CASE v \notin Representable[d] /\ Fits(v, d)
  <2>0. d \in FloatTypes /\ v \in DOMAIN Nearest
    BY <1>2 DEF Fits
  <2>1. Cast(v, d) = Nearest[v]
    BY <1>2 DEF Cast
  <2>2. Nearest[v] \in Floats
    BY <2>0 DEF Nearest, Floats
  <2>3. Floats \subseteq Representable[d]
    BY <2>0 DEF Representable, FloatTypes
  <2> QED
    BY <1>2, <2>1, <2>2, <2>3
<1>3. CASE v \notin Representable[d] /\ ~Fits(v, d)
  BY <1>3
<1> QED
  BY <1>1, <1>2, <1>3

LEMMA CastKeeps ==
    ASSUME NEW d \in DType, NEW m \in Nat, NEW vec, ValuesOf(vec, m, d)
    PROVE  CastAll(vec, d) = vec
<1>1. IsVector(vec, m) /\ \A e \in 1..m : vec[e] \in Representable[d]
  BY DEF ValuesOf
<1>2. \A e \in 1..m : CastAll(vec, d)[e] = vec[e]
  BY <1>1, CastVector, CastIsValue
<1>3. IsVector(CastAll(vec, d), m)
  BY <1>1, CastVector
<1> QED
  BY <1>1, <1>2, <1>3 DEF IsVector

LEMMA CastGives ==
    ASSUME NEW d \in DType, NEW m \in Nat, NEW vec, IsVector(vec, m),
           FitsAll(vec, d)
    PROVE  ValuesOf(CastAll(vec, d), m, d)
<1>1. \A e \in 1..m : CastAll(vec, d)[e] = Cast(vec[e], d)
  BY CastVector
<1>2. IsVector(CastAll(vec, d), m)
  BY CastVector
<1>3. \A e \in 1..m : CastAll(vec, d)[e] \in Representable[d]
  BY <1>1, CastVector, CastIsValue DEF FitsAll
<1> QED
  BY <1>2, <1>3 DEF ValuesOf

\* A wider dtype has the values of the narrower one.
LEMMA Widens ==
    ASSUME NEW c \in DType, NEW d \in DType, <<c, d>> \in Widening
    PROVE  Representable[c] \subseteq Representable[d]
<1>1. CASE c = d
  BY <1>1
<1>2. CASE c = "float32" /\ d = "float64"
  BY <1>2 DEF Representable
<1>3. CASE c = "int32" /\ d = "int64"
  BY <1>3 DEF Representable
<1>4. CASE c = "uint8" /\ d \in {"int32", "int64"}
  BY <1>4 DEF Representable
<1> QED
  BY <1>1, <1>2, <1>3, <1>4 DEF Widening

\* What fits a dtype fits a wider one, and what fits a wider one of floats fits it.
LEMMA WiderFits ==
    ASSUME NEW c \in DType, NEW d \in DType, <<c, d>> \in Widening, NEW v
    PROVE  /\ Fits(v, c) => Fits(v, d)
           /\ Fits(v, d) /\ ~Fits(v, c) => c \in {"uint8", "int32"} /\ c # d
<1>1. CASE c = d
  BY <1>1
<1>2. CASE c = "float32" /\ d = "float64"
  <2>1. Representable[c] = Floats /\ Representable[d] = Floats \cup {"tenth", "big31"}
    BY <1>2 DEF Representable
  <2>2. "tenth" \in DOMAIN Nearest /\ "big31" \in DOMAIN Nearest
    BY DEF Nearest
  <2> QED
    BY <1>2, <2>1, <2>2 DEF Fits, FloatTypes
<1>3. CASE c \in {"uint8", "int32"} /\ d \in {"int32", "int64"} /\ c # d
  BY <1>3, Widens DEF Fits, FloatTypes
<1> QED
  BY <1>1, <1>2, <1>3 DEF Widening

\* A vector whose values all fit is cast as it is rounded.
LEMMA RoundedFits ==
    ASSUME NEW d, NEW vec, FitsAll(vec, d) PROVE Rounded(vec, d) = CastAll(vec, d)
<1>1. \A e \in DOMAIN vec :
         (IF Fits(vec[e], d) THEN Cast(vec[e], d) ELSE vec[e]) = Cast(vec[e], d)
  BY DEF FitsAll
<1> QED
  BY <1>1 DEF Rounded, CastAll

LEMMA SmallValues ==
    \A d \in DType : Zero \in Representable[d] /\ Fits("1", d)
<1> SUFFICES ASSUME NEW d \in DType
             PROVE  Zero \in Representable[d] /\ Fits("1", d)
  OBVIOUS
<1>1. Zero \in Representable[d] /\ "1" \in Representable[d]
  BY DEF DType, Representable, Floats, Zero
<1> QED
  BY <1>1 DEF Fits

\* A payload has a vector for every field, of values that its dtype can hold.
LEMMA PayloadFits ==
    ASSUME NEW s \in Schemas, NEW k \in 1..MaxWrites, NEW i \in 1..Len(s)
    PROVE  LET vec == Payload(s, k)[s[i].name]
           IN  /\ IsVector(vec, ElementCount(s[i]))
               /\ FitsAll(vec, s[i].dtype)
<1> DEFINE m == ElementCount(s[i])
           d == s[i].dtype
           vec == Payload(s, k)[s[i].name]
<1>1. FieldNamed(s, s[i].name) = s[i] /\ s[i].name \in NamesOf(s)
  BY NamedField
<1>2. vec = [e \in 1..m |-> IF e = 1 THEN Sample[d][k] ELSE "1"]
  BY <1>1 DEF Payload
<1>3. m \in Nat /\ d \in DType
  BY SchemaShape, FieldShape, ElementCountType
<1> HIDE DEF m, d, vec
<1>4. \A e \in 1..m : vec[e] = Sample[d][k] \/ vec[e] = "1"
  BY <1>2
<1>5. Fits(Sample[d][k], d) /\ Fits("1", d)
  BY <1>3, SampleAssumption, SmallValues
<1>7. IsVector(vec, m)
  BY <1>2 DEF IsVector
<1>6. FitsAll(vec, d)
  BY <1>3, <1>4, <1>5, <1>7, CastVector DEF FitsAll
<1> QED
  BY <1>6, <1>7 DEF m, d, vec

LEMMA CountOfShape ==
    ASSUME NEW f, NEW g, f.shape = g.shape PROVE ElementCount(f) = ElementCount(g)
BY Zenon DEF ElementCount

--------------------------------------------------------------------------------
(* The specification *)

\* What is derived from the schemas is derived once.
Derived ==
    /\ versions \in Schemas \X Schemas
    /\ tables = [v \in {1, 2} |-> Compile(versions[v])]
    /\ at \in {1, 2}

LEMMA DerivedInvariant == Spec => []Derived
<1>1. Init => Derived
  BY DEF Init, Derived
<1>2. Derived /\ [Next]_vars => Derived'
  <2> SUFFICES ASSUME Derived, [Next]_vars PROVE Derived'
    OBVIOUS
  <2>1. versions' = versions /\ tables' = tables /\ at' \in {1, 2}
    BY DEF Derived, Next, vars, Hydrate, Produce, Apply, Poison, Upgrade
  <2> QED
    BY <2>1 DEF Derived
<1> QED
  BY <1>1, <1>2, PTL DEF Spec

LEMMA DerivedLayout == Derived => RegionsDisjoint
<1> SUFFICES ASSUME Derived, NEW c \in Capacities
             PROVE  Disjoint(tables[at].rowSize, tables[at].assembly, c)
  BY DEF RegionsDisjoint
<1> DEFINE s == versions[at]
<1>1. s \in Schemas /\ tables[at] = Compile(s)
  BY DEF Derived
<1>2. tables[at].rowSize = RowSize(RowOffsetTable(s)) /\ tables[at].assembly = AssemblyTable(s)
  BY <1>1 DEF Compile, CompileFrom
<1>3. c \in Nat \ {0}
  BY FormatAssumption
<1> HIDE DEF s
<1> QED
  BY <1>1, <1>2, <1>3, LayoutOfSchema

\* Whatever fields a schema declares, in whatever order and of whatever shape, and
\* whatever the capacity and the id length: the regions compute_layout places in a
\* segment do not overlap, the rows end inside it, every field of every row starts on a
\* cache line and ends before the next one or the next row, and the slot table is a power
\* of two that is at most half full.
THEOREM LayoutIsDisjoint == Spec => []RegionsDisjoint
BY DerivedInvariant, DerivedLayout, PTL

--------------------------------------------------------------------------------
(* The bytes of a row, through writes and an upgrade *)

\* What was last written under a name is a vector of the field's dtype and shape, unless
\* the packer has wrapped it.
TruthOK ==
    present => \A i \in 1..Len(schema) : schema[i].name \notin wrapped =>
        ValuesOf(truth[schema[i].name], ElementCount(schema[i]), schema[i].dtype)

\* Only a list of a widened integer field is wrapped.
WrapOK == \A n \in wrapped : Widened(n)

\* A message is the list of a producer of one of the versions.
IsListOf(m, v) ==
    /\ m.list = Encode(tables[v].order, m.values)
    /\ \A i \in 1..Len(versions[v]) :
          /\ IsVector(m.values[versions[v][i].name], ElementCount(versions[v][i]))
          /\ FitsAll(m.values[versions[v][i].name], versions[v][i].dtype)

MessageOK ==
    message # <<>> =>
        /\ Len(message) = 1
        /\ \E v \in {1, 2} :
              /\ v = 2 => CanUpgrade(versions[1], versions[2])
              /\ IsListOf(message[1], v)

UpgradeOK == at = 2 => CanUpgrade(versions[1], versions[2])

\* Every byte that is written lies in the row.
InRow ==
    /\ DOMAIN row \subseteq 0..(tables[at].rowSize - 1)
    /\ DOMAIN buffer \subseteq 0..(tables[at].rowSize - 1)
    /\ present \/ row = <<>>

IInv ==
    /\ Derived /\ InRow /\ MessageOK /\ UpgradeOK /\ TruthOK /\ WrapOK /\ NothingLost
    /\ present \in BOOLEAN /\ writes \in 0..MaxWrites
    /\ present => DOMAIN truth = NamesOf(schema)

\* What is derived from a version.
LEMMA Compiled ==
    ASSUME Derived, NEW v \in {1, 2}
    PROVE  LET s == versions[v]
               c == tables[v]
           IN  /\ s \in Schemas
               /\ TableOf(s, c.assembly, c.rowSize) /\ PlanOf(s, c.assembly, c.plan, c.order)
               /\ c.order = FieldOrder(s, RowOffsetTable(s)) /\ c.rows = RowOffsetTable(s)
               /\ c.assembly = AssemblyTable(s)
<1> DEFINE s == versions[v]
           c == tables[v]
           rel == RowOffsetTable(s)
<1>1. s \in Schemas /\ c = Compile(s)
  BY DEF Derived
<1>2. /\ c.rows = rel /\ c.rowSize = RowSize(rel) /\ c.order = FieldOrder(s, rel)
      /\ c.plan = PackPlan(Slots(s, rel)) /\ c.assembly = AssemblyTable(s)
  BY <1>1 DEF Compile, CompileFrom
<1> HIDE DEF s, c, rel
<1>3. TableOf(s, AssemblyTable(s), RowSize(RowOffsetTable(s)))
  BY <1>1, AssemblyFacts
<1>4. PlanOf(s, AssemblyTable(s), PackPlan(Slots(s, RowOffsetTable(s))),
             FieldOrder(s, RowOffsetTable(s)))
  BY <1>1, PlanFacts
<1> QED
  BY <1>1, <1>2, <1>3, <1>4 DEF s, c, rel

\* A write of values to all the fields of the current schema.
LEMMA WriteStep ==
    ASSUME IInv, versions' = versions, tables' = tables, at' = at, present' = TRUE,
           NEW values, truth' = Written(values), \A n \in wrapped' : Widened(n),
           \A i \in 1..Len(schema) :
              LET vec == values[schema[i].name]
              IN  /\ IsVector(vec, ElementCount(schema[i]))
                  /\ schema[i].name \notin wrapped' => FitsAll(vec, schema[i].dtype)
                  /\ ReadField(tables[at].assembly[i], row') = CastAll(vec, schema[i].dtype)
    PROVE  TruthOK' /\ WrapOK' /\ NothingLost' /\ DOMAIN truth' = NamesOf(schema')
<1> DEFINE s == schema
           t == tables[at].assembly
           V(i) == values[s[i].name]
<1>1. s \in Schemas /\ at \in {1, 2} /\ schema' = s /\ tables'[at'] = tables[at]
  BY Compiled DEF IInv, Derived, schema
<1>2. DOMAIN s = 1..Len(s)
  BY <1>1, SchemaShape
<1>3. truth' = [n \in NamesOf(s) |-> Rounded(values[n], FieldNamed(s, n).dtype)]
  BY DEF Written
<1> HIDE DEF s
<1>4. ASSUME NEW i \in 1..Len(s), s[i].name \notin wrapped'
      PROVE  /\ truth'[s[i].name] = CastAll(V(i), s[i].dtype)
             /\ ReadField(t[i], row') = CastAll(V(i), s[i].dtype)
             /\ ValuesOf(CastAll(V(i), s[i].dtype), ElementCount(s[i]), s[i].dtype)
  <2>1. FieldNamed(s, s[i].name) = s[i] /\ s[i].name \in NamesOf(s)
    BY <1>1, NamedField
  <2>2. /\ IsVector(V(i), ElementCount(s[i])) /\ FitsAll(V(i), s[i].dtype)
        /\ ReadField(t[i], row') = CastAll(V(i), s[i].dtype)
    BY <1>4 DEF s
  <2>3. truth'[s[i].name] = Rounded(V(i), s[i].dtype)
    BY <1>3, <2>1
  <2>4. s[i].dtype \in DType /\ ElementCount(s[i]) \in Nat
    BY <1>1, SchemaShape, FieldShape, ElementCountType
  <2> HIDE DEF V
  <2>5. Rounded(V(i), s[i].dtype) = CastAll(V(i), s[i].dtype)
    BY <2>2, RoundedFits
  <2>6. ValuesOf(CastAll(V(i), s[i].dtype), ElementCount(s[i]), s[i].dtype)
    BY <2>2, <2>4, CastGives
  <2> QED
    BY <2>2, <2>3, <2>5, <2>6
<1> HIDE DEF V
<1>5. WrapOK'
  BY DEF WrapOK, Widened
<1>7. TruthOK'
  <2>1. \A i \in 1..Len(s) : s[i].name \notin wrapped' =>
           ValuesOf(truth'[s[i].name], ElementCount(s[i]), s[i].dtype)
    BY <1>4
  <2> QED
    BY <1>1, <2>1 DEF TruthOK
<1>8. NothingLost'
  <2>1. \A i \in DOMAIN s : s[i].name \notin wrapped' =>
           ReadField(t[i], row') = truth'[s[i].name]
    BY <1>2, <1>4
  <2> QED
    BY <1>1, <1>5, <2>1 DEF NothingLost, WrapOK
<1>9. DOMAIN truth' = NamesOf(schema')
  BY <1>1, <1>3
<1> QED
  BY <1>5, <1>7, <1>8, <1>9

LEMMA HydrateStep == ASSUME IInv, Hydrate PROVE IInv'
<1> DEFINE s == schema
           t == tables[at].assembly
           size == tables[at].rowSize
           values == Payload(s, writes + 1)
           D(i) == s[i].dtype
<1>1. /\ at = 1 /\ writes < MaxWrites /\ writes' = writes + 1
      /\ row' = InsertMany(s, t, values) /\ truth' = Written(values) /\ present' = TRUE
      /\ versions' = versions /\ tables' = tables /\ at' = at /\ buffer' = buffer
      /\ message' = message /\ wrapped' = wrapped
  BY DEF Hydrate
<1>2. Derived /\ InRow /\ MessageOK /\ UpgradeOK /\ WrapOK /\ writes \in 0..MaxWrites
  BY DEF IInv
<1>3. s \in Schemas /\ TableOf(s, t, size)
  BY <1>1, <1>2, Compiled DEF schema
<1>4. writes + 1 \in 1..MaxWrites /\ writes' \in 0..MaxWrites
  BY <1>1, <1>2, FormatAssumption
<1> HIDE DEF s, t, size
<1>5. \A i \in 1..Len(s) : /\ IsVector(values[s[i].name], ElementCount(s[i]))
                           /\ FitsAll(values[s[i].name], D(i))
  BY <1>3, <1>4, PayloadFits
<1> HIDE DEF values
<1>6. /\ DOMAIN row' \subseteq 0..(size - 1)
      /\ \A i \in 1..Len(s) : ReadField(t[i], row') = CastAll(values[s[i].name], D(i))
  <2>1. \A i \in 1..Len(s) : IsVector(values[s[i].name], ElementCount(s[i]))
    BY <1>5
  <2> QED
    BY <1>1, <1>3, <2>1, InsertReads
<1>7. TruthOK' /\ WrapOK' /\ NothingLost' /\ DOMAIN truth' = NamesOf(schema')
  <2>1. \A n \in wrapped' : Widened(n)
    BY <1>1, <1>2 DEF WrapOK
  <2> QED
    BY <1>1, <1>5, <1>6, <2>1, WriteStep DEF s, t
<1>8. Derived' /\ MessageOK' /\ UpgradeOK'
  BY <1>1, <1>2 DEF Derived, MessageOK, IsListOf, UpgradeOK
<1>9. InRow'
  BY <1>1, <1>2, <1>6 DEF InRow, size
<1> QED
  BY <1>1, <1>4, <1>7, <1>8, <1>9 DEF IInv

LEMMA ProduceStep ==
    ASSUME IInv, NEW v \in {1, 2}, Produce(v) PROVE IInv'
<1> DEFINE s == versions[v]
           values == Payload(s, writes + 1)
           m == [list |-> Encode(tables[v].order, values), values |-> values]
<1>1. /\ writes < MaxWrites /\ (v = 2 => CanUpgrade(versions[1], versions[2]))
      /\ writes' = writes + 1 /\ message' = <<m>>
      /\ versions' = versions /\ tables' = tables /\ at' = at /\ present' = present
      /\ row' = row /\ buffer' = buffer /\ truth' = truth /\ wrapped' = wrapped
  BY DEF Produce
<1>2. /\ Derived /\ InRow /\ UpgradeOK /\ TruthOK /\ WrapOK /\ NothingLost
      /\ writes \in 0..MaxWrites
      /\ present \in BOOLEAN /\ (present => DOMAIN truth = NamesOf(schema))
  BY DEF IInv
<1>3. writes + 1 \in 1..MaxWrites /\ writes' \in 0..MaxWrites
  BY <1>1, <1>2, FormatAssumption
<1>4. s \in Schemas
  BY <1>2, Compiled
<1>5. \A i \in 1..Len(s) : /\ IsVector(values[s[i].name], ElementCount(s[i]))
                           /\ FitsAll(values[s[i].name], s[i].dtype)
  BY <1>3, <1>4, PayloadFits
<1>6. m.list = Encode(tables[v].order, m.values) /\ m.values = values
  OBVIOUS
<1>7. IsListOf(m, v)
  <2> HIDE DEF m, values
  <2> QED
    BY <1>5, <1>6 DEF IsListOf
<1> HIDE DEF m
<1>8. MessageOK'
  <2>1. Len(message') = 1 /\ message'[1] = m
    BY <1>1
  <2>2. /\ message'[1].list = Encode(tables'[v].order, message'[1].values)
        /\ \A i \in 1..Len(versions'[v]) :
              /\ IsVector(message'[1].values[versions'[v][i].name],
                          ElementCount(versions'[v][i]))
              /\ FitsAll(message'[1].values[versions'[v][i].name], versions'[v][i].dtype)
    BY <1>1, <1>7, <2>1 DEF IsListOf
  <2>3. IsListOf(message[1], v)'
    BY <2>2 DEF IsListOf
  <2> QED
    BY <1>1, <2>1, <2>3 DEF MessageOK
<1>9. schema' = schema
  BY <1>1 DEF schema
<1>10. Derived' /\ UpgradeOK' /\ TruthOK' /\ WrapOK' /\ NothingLost' /\ InRow'
  BY <1>1, <1>2, <1>9 DEF Derived, UpgradeOK, TruthOK, WrapOK, Widened, NothingLost, InRow
<1> QED
  BY <1>1, <1>2, <1>3, <1>8, <1>9, <1>10 DEF IInv


\* A list as long as the plan is in the order of the plan, whichever version the producer
\* has: the names of the two versions are the same ones then.
LEMMA ListFacts ==
    ASSUME IInv, message # <<>>, Len(message[1].list) = Len(tables[at].plan)
    PROVE  /\ \A k \in 1..Len(schema) :
                 message[1].list[tables[at].plan[k].index] =
                    message[1].values[schema[k].name]
           /\ \A j \in 1..Len(schema) : \E c \in Nat : IsVector(message[1].list[j], c)
           /\ \E v \in {1, 2} : /\ v # at => CanUpgrade(versions[1], versions[2])
                                /\ IsListOf(message[1], v)
                                /\ NamesOf(versions[v]) = NamesOf(schema)
<1> DEFINE s == versions[at]
           plan == tables[at].plan
           list == message[1].list
           values == message[1].values
<1>1. Derived /\ UpgradeOK /\ MessageOK /\ at \in {1, 2}
  BY DEF IInv, Derived
<1>2. PICK v \in {1, 2} : /\ v = 2 => CanUpgrade(versions[1], versions[2])
                          /\ IsListOf(message[1], v)
  BY <1>1 DEF MessageOK
<1>3. /\ s \in Schemas /\ PlanOf(s, tables[at].assembly, plan, tables[at].order)
      /\ tables[at].order = FieldOrder(s, RowOffsetTable(s))
  BY <1>1, Compiled
<1>4. /\ versions[v] \in Schemas
      /\ PlanOf(versions[v], tables[v].assembly, tables[v].plan, tables[v].order)
      /\ tables[v].order = FieldOrder(versions[v], RowOffsetTable(versions[v]))
  BY <1>1, Compiled
<1>5. list = [i \in 1..Len(versions[v]) |-> values[tables[v].order[i]]]
  <2>1. list = Encode(tables[v].order, values)
    BY <1>2 DEF IsListOf
  <2>2. DOMAIN tables[v].order = 1..Len(versions[v])
    BY <1>4 DEF PlanOf
  <2> QED
    BY <2>1, <2>2 DEF Encode
<1>6. Len(versions[v]) = Len(s)
  <2>1. Len(plan) = Len(s)
    BY <1>3 DEF PlanOf
  <2>2. Len(versions[v]) \in Nat
    BY <1>4, SchemaShape
  <2> HIDE DEF list, values
  <2>3. Len(list) = Len(versions[v])
    BY <1>5, <2>2
  <2> QED
    BY <2>1, <2>3 DEF list
<1>10. v # at => CanUpgrade(versions[1], versions[2])
  BY <1>1, <1>2 DEF UpgradeOK
<1>11. NamesOf(versions[v]) = NamesOf(s)
  <2>1. CASE v = at
    BY <2>1
  <2>2. CASE v # at
    <3>2. NamesOf(versions[1]) \subseteq NamesOf(versions[2])
      BY <1>10, <2>2 DEF CanUpgrade
    <3>3. versions[1] \in Schemas /\ versions[2] \in Schemas /\ Len(versions[1]) = Len(versions[2])
      BY <1>1, <1>3, <1>4, <1>6, <2>2
    <3>4. NamesOf(versions[1]) = NamesOf(versions[2])
      BY <3>2, <3>3, NamesOfSameLength
    <3> QED
      BY <1>1, <2>2, <3>4
  <2> QED
    BY <2>1, <2>2
<1>7. tables[v].order = tables[at].order
  BY <1>3, <1>4, <1>11, OrderOfNames
<1> HIDE DEF s, plan, list, values
<1>8. ASSUME NEW k \in 1..Len(s) PROVE list[plan[k].index] = values[s[k].name]
  <2>1. plan[k].index \in 1..Len(s) /\ tables[at].order[plan[k].index] = s[k].name
    BY <1>3 DEF PlanOf
  <2> QED
    BY <1>5, <1>6, <1>7, <2>1
<1>9. ASSUME NEW j \in 1..Len(s) PROVE \E c \in Nat : IsVector(list[j], c)
  <2>1. PICK k \in 1..Len(versions[v]) : tables[v].order[j] = versions[v][k].name
    BY <1>4, <1>6 DEF PlanOf
  <2>2. list[j] = values[versions[v][k].name]
    BY <1>5, <1>6, <2>1
  <2>3. IsVector(values[versions[v][k].name], ElementCount(versions[v][k]))
    BY <1>2 DEF IsListOf, values
  <2>4. ElementCount(versions[v][k]) \in Nat
    BY <1>4, SchemaShape, ElementCountType
  <2> QED
    BY <2>2, <2>3, <2>4
<1> QED
  BY <1>2, <1>8, <1>9, <1>10, <1>11 DEF s, plan, list, values, schema

\* A value that a field of the current schema does not hold, but the packer takes, is of
\* the new version, in a list of integers of the old one.
LEMMA OnlyWidened ==
    ASSUME IInv, message # <<>>, Len(message[1].list) = Len(tables[at].plan),
           \A k \in DOMAIN tables[at].plan : Packs(tables[at].plan[k], message[1].list),
           NEW n \in TooWide(message[1].values)
    PROVE  Widened(n)
<1> DEFINE s == schema
           plan == tables[at].plan
           vec == message[1].values[n]
<1>1. Derived /\ at \in {1, 2}
  BY DEF IInv, Derived
<1>2. s \in Schemas /\ PlanOf(s, tables[at].assembly, plan, tables[at].order) /\ s = versions[at]
  BY <1>1, Compiled DEF schema
<1>3. n \in NamesOf(s) /\ ~FitsAll(vec, FieldNamed(s, n).dtype)
  BY DEF TooWide
<1>4. PICK k \in 1..Len(s) : s[k].name = n
  BY <1>2, <1>3, NamesOfSchema
<1>5. FieldNamed(s, n) = s[k] /\ s[k] \in Range(s)
  BY <1>2, <1>4, NamedField, SchemaShape DEF Range
<1>6. message[1].list[plan[k].index] = vec
  BY <1>4, ListFacts
<1>7. PICK v \in {1, 2} : /\ v # at => CanUpgrade(versions[1], versions[2])
                          /\ IsListOf(message[1], v)
                          /\ NamesOf(versions[v]) = NamesOf(s)
  BY ListFacts
<1>8. versions[v] \in Schemas
  BY <1>1, Compiled
<1>9. PICK j \in 1..Len(versions[v]) : versions[v][j].name = n
  BY <1>3, <1>7, <1>8, NamesOfSchema
<1>10. FitsAll(vec, versions[v][j].dtype)
  BY <1>7, <1>9 DEF IsListOf
<1>11. FieldNamed(versions[v], n) = versions[v][j] /\ versions[v][j] \in Range(versions[v])
  BY <1>8, <1>9, NamedField, SchemaShape DEF Range
<1>12. s[k].shape # <<>>
  <2> SUFFICES ASSUME s[k].shape = <<>> PROVE FALSE
    OBVIOUS
  <2>1. plan[k].scalar /\ k \in DOMAIN plan /\ plan[k].dtype = tables[at].assembly[k].dtype
    BY <1>2 DEF PlanOf
  <2>2. Packs(plan[k], message[1].list)
    BY <2>1
  <2>3. FitsAll(vec, plan[k].dtype)
    BY <1>6, <2>1, <2>2 DEF Packs
  <2>4. tables[at].assembly[k].dtype = s[k].dtype
    BY <1>1, <1>2, Compiled DEF TableOf
  <2> QED
    BY <1>3, <1>5, <2>1, <2>3, <2>4
<1> HIDE DEF s, vec, plan
<1>13. v # at
  <2> SUFFICES ASSUME v = at PROVE FALSE
    OBVIOUS
  <2> QED
    BY <1>2, <1>3, <1>5, <1>10, <1>11
<1>14. PICK e \in DOMAIN vec : ~Fits(vec[e], s[k].dtype)
  BY <1>3, <1>5 DEF FitsAll
<1>15. Fits(vec[e], versions[v][j].dtype)
  BY <1>10 DEF FitsAll
<1>16. s[k].dtype \in DType /\ versions[v][j].dtype \in DType
  BY <1>2, <1>8, SchemaShape, FieldShape
<1>17. CanUpgrade(versions[1], versions[2])
  BY <1>7, <1>13
<1>18. CASE v = 1 /\ at = 2
  <2>1. n \in NamesOf(versions[1])
    BY <1>3, <1>7, <1>18
  <2>2. <<versions[v][j].dtype, s[k].dtype>> \in Widening
    BY <1>2, <1>5, <1>11, <1>17, <1>18, <2>1 DEF CanUpgrade
  <2> QED
    BY <1>14, <1>15, <1>16, <2>2, WiderFits
<1>19. CASE v = 2 /\ at = 1
  <2>1. n \in NamesOf(versions[1])
    BY <1>2, <1>3, <1>19
  <2>2. <<s[k].dtype, versions[v][j].dtype>> \in Widening
    BY <1>2, <1>5, <1>11, <1>17, <1>19, <2>1 DEF CanUpgrade
  <2>3. s[k].dtype \in {"uint8", "int32"} /\ s[k].dtype # versions[v][j].dtype
    BY <1>14, <1>15, <1>16, <2>2, WiderFits
  <2>4. s[k] \in Range(versions[1]) /\ versions[v][j] \in Range(versions[2])
    BY <1>2, <1>5, <1>11, <1>19
  <2> QED
    BY <1>4, <1>9, <1>12, <2>3, <2>4 DEF Widened
<1> QED
  BY <1>1, <1>13, <1>18, <1>19

LEMMA ApplyStep == ASSUME IInv, Apply PROVE IInv'
<1> DEFINE s == schema
           t == tables[at].assembly
           size == tables[at].rowSize
           plan == tables[at].plan
           order == tables[at].order
           list == message[1].list
           values == message[1].values
<1>1. /\ message # <<>> /\ Len(list) = Len(plan)
      /\ (\A k \in DOMAIN plan : Packs(plan[k], list))
      /\ buffer' = PackInto(plan, list, buffer) /\ row' = buffer'
      /\ truth' = Written(values) /\ wrapped' = TooWide(values)
      /\ present' = TRUE /\ message' = <<>>
      /\ versions' = versions /\ tables' = tables /\ at' = at /\ writes' = writes
  BY DEF Apply
<1>2. Derived /\ InRow /\ UpgradeOK /\ writes \in 0..MaxWrites /\ at \in {1, 2}
  BY DEF IInv, Derived
<1>3. s \in Schemas /\ TableOf(s, t, size) /\ PlanOf(s, t, plan, order)
  BY <1>2, Compiled DEF schema
<1>4. /\ \A k \in 1..Len(s) : list[plan[k].index] = values[s[k].name]
      /\ \A j \in 1..Len(s) : \E c \in Nat : IsVector(list[j], c)
  BY <1>1, ListFacts
<1>5. DOMAIN buffer \subseteq 0..(size - 1)
  BY <1>2 DEF InRow
<1>12. \A n \in wrapped' : Widened(n)
  BY <1>1, OnlyWidened
<1>13. wrapped' = {n \in NamesOf(s) : ~FitsAll(values[n], FieldNamed(s, n).dtype)}
  BY <1>1 DEF TooWide
<1> HIDE DEF s, t, size, plan, order, list, values
<1>6. DOMAIN plan = 1..Len(s)
  BY <1>3 DEF PlanOf
<1>7. /\ DOMAIN row' \subseteq 0..(size - 1)
      /\ \A k \in 1..Len(s) : ReadField(t[k], row') = CastAll(list[plan[k].index], t[k].dtype)
  <2>1. \A j \in 1..Len(s) : \E c \in Nat : IsVector(list[j], c)
    BY <1>4
  <2>2. \A k \in 1..Len(s) : Packs(plan[k], list)
    BY <1>1, <1>6
  <2>3. /\ DOMAIN PackInto(plan, list, buffer) \subseteq 0..(size - 1)
        /\ \A k \in 1..Len(s) : ReadField(t[k], PackInto(plan, list, buffer)) =
                                   CastAll(list[plan[k].index], t[k].dtype)
    <3>1. DOMAIN PackInto(plan, list, buffer) \subseteq 0..(size - 1)
      BY <1>3, <1>5, <2>1, PackReads
    <3>2. ASSUME NEW k \in 1..Len(s)
          PROVE  ReadField(t[k], PackInto(plan, list, buffer)) =
                    CastAll(list[plan[k].index], t[k].dtype)
      BY <1>3, <1>5, <2>1, <2>2, PackedReads
    <3> QED
      BY <3>1, <3>2
  <2>4. row' = PackInto(plan, list, buffer)
    BY <1>1
  <2> QED
    BY <2>3, <2>4
<1>8. ASSUME NEW k \in 1..Len(s)
      PROVE  /\ IsVector(values[s[k].name], ElementCount(s[k]))
             /\ s[k].name \notin wrapped' => FitsAll(values[s[k].name], s[k].dtype)
             /\ ReadField(t[k], row') = CastAll(values[s[k].name], s[k].dtype)
  <2>1. plan[k].count = t[k].element_count /\ plan[k].index \in 1..Len(s)
    BY <1>3 DEF PlanOf
  <2>2. t[k].dtype = s[k].dtype /\ t[k].element_count = ElementCount(s[k])
    BY <1>3 DEF TableOf
  <2>3. PICK c \in Nat : IsVector(list[plan[k].index], c)
    BY <1>4, <2>1
  <2>4. Len(list[plan[k].index]) = plan[k].count
    BY <1>1, <1>6 DEF Packs
  <2>5. c = ElementCount(s[k])
    BY <2>1, <2>2, <2>3, <2>4, CastVector
  <2>6. FieldNamed(s, s[k].name) = s[k] /\ s[k].name \in NamesOf(s)
    BY <1>3, NamedField
  <2>7. s[k].name \notin wrapped' => FitsAll(values[s[k].name], s[k].dtype)
    BY <1>13, <2>6
  <2> QED
    BY <1>4, <1>7, <2>2, <2>3, <2>5, <2>7
<1>9. TruthOK' /\ WrapOK' /\ NothingLost' /\ DOMAIN truth' = NamesOf(schema')
  BY <1>1, <1>8, <1>12, WriteStep DEF s, t
<1>10. Derived' /\ MessageOK' /\ UpgradeOK'
  BY <1>1, <1>2 DEF Derived, MessageOK, UpgradeOK
<1>11. InRow'
  BY <1>1, <1>2, <1>7 DEF InRow, size
<1> QED
  BY <1>1, <1>2, <1>9, <1>10, <1>11 DEF IInv

LEMMA PoisonStep == ASSUME IInv, Poison PROVE IInv'
<1> DEFINE s == schema
           t == tables[at].assembly
           size == tables[at].rowSize
           plan == tables[at].plan
           order == tables[at].order
           list == message[1].list
<1>1. /\ message # <<>> /\ message' = <<>> /\ versions' = versions /\ tables' = tables
      /\ at' = at /\ present' = present /\ row' = row /\ truth' = truth /\ writes' = writes
      /\ wrapped' = wrapped
      /\ \/ buffer' = buffer
         \/ Len(list) = Len(plan) /\ buffer' = PackInto(plan, list, buffer)
  BY DEF Poison
<1>2. /\ Derived /\ InRow /\ UpgradeOK /\ TruthOK /\ WrapOK /\ NothingLost
      /\ writes \in 0..MaxWrites
      /\ present \in BOOLEAN /\ (present => DOMAIN truth = NamesOf(schema)) /\ at \in {1, 2}
  BY DEF IInv, Derived
<1>3. s \in Schemas /\ TableOf(s, t, size) /\ PlanOf(s, t, plan, order)
  BY <1>2, Compiled DEF schema
<1>4. DOMAIN buffer' \subseteq 0..(size - 1)
  <2>1. DOMAIN buffer \subseteq 0..(size - 1)
    BY <1>2 DEF InRow
  <2>2. CASE buffer' = buffer
    BY <2>1, <2>2
  <2>3. CASE Len(list) = Len(plan) /\ buffer' = PackInto(plan, list, buffer)
    <3>1. \A j \in 1..Len(s) : \E c \in Nat : IsVector(list[j], c)
      BY <1>1, <2>3, ListFacts
    <3> HIDE DEF s, t, size, plan, order, list
    <3> QED
      BY <1>3, <2>1, <2>3, <3>1, PackReads
  <2> QED
    BY <1>1, <2>2, <2>3
<1>5. schema' = schema
  BY <1>1 DEF schema
<1>6. Derived' /\ MessageOK' /\ UpgradeOK' /\ TruthOK' /\ WrapOK' /\ NothingLost'
  BY <1>1, <1>2, <1>5 DEF Derived, MessageOK, UpgradeOK, TruthOK, WrapOK, Widened, NothingLost
<1>7. InRow'
  BY <1>1, <1>2, <1>4 DEF InRow
<1> QED
  BY <1>1, <1>2, <1>5, <1>6, <1>7 DEF IInv

IsZeros(vec, f) == vec = [e \in 1..ElementCount(f) |-> Zero]

\* The columns of the new schema: what the field of that name holds, or zeros.
LEMMA Translated ==
    ASSUME NEW old \in Schemas, NEW s \in Schemas, NEW bytes, NEW i \in 1..Len(s)
    PROVE  /\ \A k \in 1..Len(old) : old[k].name = s[i].name =>
                 Translate(RowOffsetTable(old), s, bytes)[s[i].name] =
                    CastAll(ReadField(AssemblyTable(old)[k], bytes), s[i].dtype)
           /\ s[i].name \notin NamesOf(old) =>
                 IsZeros(Translate(RowOffsetTable(old), s, bytes)[s[i].name], s[i])
<1> DEFINE n == s[i].name
           t == AssemblyTable(old)
           rel == RowOffsetTable(old)
           from == {e \in Range(rel) : e.name_hash = NameHash[n]}
           vec == Translate(rel, s, bytes)[n]
<1>1. FieldNamed(s, n) = s[i] /\ n \in NamesOf(s)
  BY NamedField
<1>2. vec = IF from = {} THEN [e \in 1..ElementCount(s[i]) |-> Zero]
            ELSE CastAll(ReadField(CHOOSE e \in from : TRUE, bytes), s[i].dtype)
  <2>1. \A x \in NamesOf(s) : Translate(rel, s, bytes)[x] =
           IF {e \in Range(rel) : e.name_hash = NameHash[x]} = {}
           THEN [e \in 1..ElementCount(FieldNamed(s, x)) |-> Zero]
           ELSE CastAll(ReadField(CHOOSE e \in {e \in Range(rel) : e.name_hash = NameHash[x]} : TRUE,
                                  bytes), FieldNamed(s, x).dtype)
    BY Zenon DEF Translate
  <2> QED
    BY <1>1, <2>1, Zenon
<1>3. /\ DOMAIN rel = 1..Len(old)
      /\ \A j \in 1..Len(old) : \E k \in 1..Len(old) : rel[j] = t[k]
      /\ \A k \in 1..Len(old) : \E j \in 1..Len(old) : rel[j] = t[k]
  BY RowTable
<1>4. \A k \in 1..Len(old) : t[k].name_hash = NameHash[old[k].name] /\ old[k] \in Fields
  BY AssemblyFacts DEF TableOf
<1>5. n \in Names
  BY SchemaShape, FieldShape
<1> HIDE DEF n, t, rel, vec
<1>6. ASSUME NEW e \in from PROVE \E k \in 1..Len(old) : e = t[k] /\ old[k].name = n
  <2>1. PICK j \in 1..Len(old) : e = rel[j]
    BY <1>3 DEF Range
  <2>2. PICK k \in 1..Len(old) : rel[j] = t[k]
    BY <1>3
  <2>3. NameHash[old[k].name] = NameHash[n] /\ old[k].name \in Names
    BY <1>4, <2>1, <2>2, FieldShape
  <2> QED
    BY <1>5, <2>1, <2>2, <2>3, FormatAssumption
<1>7. ASSUME NEW k \in 1..Len(old), old[k].name = n
      PROVE  vec = CastAll(ReadField(t[k], bytes), s[i].dtype)
  <2>1. PICK j \in 1..Len(old) : rel[j] = t[k]
    BY <1>3
  <2>2. t[k] \in from
    BY <1>3, <1>4, <1>7, <2>1 DEF Range
  <2>3. \A e \in from : e = t[k]
    BY <1>6, <1>7, SchemaShape
  <2>4. (CHOOSE e \in from : TRUE) = t[k]
    BY <2>2, <2>3
  <2> HIDE DEF from
  <2> QED
    BY <1>2, <2>2, <2>4
<1>8. ASSUME n \notin NamesOf(old) PROVE vec = [e \in 1..ElementCount(s[i]) |-> Zero]
  <2>1. \A k \in 1..Len(old) : old[k].name \in NamesOf(old)
    BY NamedField
  <2>2. from = {}
    BY <1>6, <1>8, <2>1
  <2> HIDE DEF from
  <2> QED
    BY <1>2, <2>2
<1> QED
  <2>1. s[i].name \notin NamesOf(old) => IsZeros(vec, s[i])
    BY <1>8 DEF n, IsZeros
  <2> QED
    BY <1>7, <2>1 DEF n, t, rel, vec

\* Zeros, and what a narrower field holds, are values of a field.
LEMMA ZerosFit ==
    ASSUME NEW f \in Fields, NEW vec, IsZeros(vec, f)
    PROVE  ValuesOf(vec, ElementCount(f), f.dtype)
<1>1. ElementCount(f) \in Nat /\ f.dtype \in DType
  BY ElementCountType, FieldShape
<1>2. PICK m \in Nat : m = ElementCount(f)
  BY <1>1
<1>3. vec = [e \in 1..m |-> Zero]
  BY <1>2 DEF IsZeros
<1>4. IsVector(vec, m) /\ \A e \in 1..m : vec[e] = Zero
  BY <1>3 DEF IsVector
<1>5. Zero \in Representable[f.dtype]
  BY <1>1, SmallValues
<1> QED
  BY <1>2, <1>4, <1>5 DEF ValuesOf

LEMMA WidenedFit ==
    ASSUME NEW f \in Fields, NEW g \in Fields, f.shape = g.shape,
           <<f.dtype, g.dtype>> \in Widening, NEW vec, ValuesOf(vec, ElementCount(f), f.dtype)
    PROVE  ValuesOf(vec, ElementCount(g), g.dtype)
<1>1. ElementCount(f) = ElementCount(g)
  BY CountOfShape
<1>2. Representable[f.dtype] \subseteq Representable[g.dtype]
  BY FieldShape, Widens
<1> QED
  BY <1>1, <1>2 DEF ValuesOf

\* A read is a vector, whatever the bytes are.
LEMMA ReadVector ==
    ASSUME NEW entry, NEW bytes, entry.element_count \in Nat
    PROVE  IsVector(ReadField(entry, bytes), entry.element_count)
<1> DEFINE c == entry.element_count
           d == entry.dtype
           Byte(a) == IF a \in DOMAIN bytes THEN bytes[a] ELSE ZeroByte
           All(e) == [j \in 0..(ByteSize[d] - 1) |->
                        Byte(entry.byte_offset + (e - 1) * ByteSize[d] + j)]
           Element(e) == IF \A j \in DOMAIN All(e) : All(e)[j] = ZeroByte THEN Zero
                         ELSE IF /\ All(e)[0] # ZeroByte
                                 /\ \A j \in DOMAIN All(e) : All(e)[j] = <<d, All(e)[0][2], j>>
                              THEN All(e)[0][2] ELSE "garbage"
<1>1. ReadField(entry, bytes) = [e \in 1..c |-> Element(e)]
  BY Zenon DEF ReadField, Get
<1> HIDE DEF Element
<1>2. [e \in 1..c |-> Element(e)] =
         [e \in 1..c |-> [x \in 1..c |-> Element(x)][e]]
  OBVIOUS
<1> QED
  BY <1>1, <1>2, Zenon DEF IsVector

LEMMA UpgradeStep == ASSUME IInv, Upgrade PROVE IInv'
<1> DEFINE old == versions[1]
           s == versions[2]
           t == tables[2].assembly
           size == tables[2].rowSize
           values == Translate(tables[1].rows, s, row)
<1>1. /\ at = 1 /\ CanUpgrade(old, s) /\ at' = 2 /\ buffer' = <<>>
      /\ (present => row' = InsertMany(s, t, values)) /\ (~present => row' = row)
      /\ truth' = [n \in NamesOf(s) |->
                     IF present /\ n \in NamesOf(old) THEN truth[n]
                     ELSE [e \in 1..ElementCount(FieldNamed(s, n)) |-> Zero]]
      /\ versions' = versions /\ tables' = tables /\ present' = present
      /\ message' = message /\ wrapped' = wrapped /\ writes' = writes
  BY DEF Upgrade
<1>2. /\ Derived /\ InRow /\ MessageOK /\ TruthOK /\ WrapOK /\ NothingLost
      /\ writes \in 0..MaxWrites /\ present \in BOOLEAN
  BY DEF IInv
<1>3. /\ s \in Schemas /\ TableOf(s, t, size)
      /\ old \in Schemas /\ tables[1].rows = RowOffsetTable(old)
      /\ tables[1].assembly = AssemblyTable(old)
  BY <1>2, Compiled
<1>4. schema = old /\ schema' = s /\ tables'[at'] = tables[2]
  BY <1>1 DEF schema
<1>5. DOMAIN old = 1..Len(old) /\ DOMAIN s = 1..Len(s)
  BY <1>3, SchemaShape
<1>6. Derived' /\ MessageOK' /\ UpgradeOK'
  BY <1>1, <1>2 DEF Derived, MessageOK, IsListOf, UpgradeOK
<1>7. DOMAIN truth' = NamesOf(schema')
  BY <1>1, <1>4
<1> HIDE DEF old, s, t, size
<1>8. ASSUME present, NEW i \in 1..Len(s), s[i].name \notin wrapped
      PROVE  /\ values[s[i].name] = truth'[s[i].name]
             /\ ValuesOf(values[s[i].name], ElementCount(s[i]), s[i].dtype)
  <2>1. /\ s[i] \in Fields /\ FieldNamed(s, s[i].name) = s[i] /\ s[i].name \in NamesOf(s)
    BY <1>3, SchemaShape, NamedField
  <2>2. CASE s[i].name \in NamesOf(old)
    <3>1. PICK k \in 1..Len(old) : old[k].name = s[i].name
      BY <1>5, <2>2 DEF NamesOf, Range
    <3>2. old[k] \in Fields /\ FieldNamed(old, s[i].name) = old[k]
      BY <1>3, <3>1, SchemaShape, NamedField
    <3>3. old[k].shape = s[i].shape /\ <<old[k].dtype, s[i].dtype>> \in Widening
      BY <1>1, <2>1, <2>2, <3>2 DEF CanUpgrade
    <3>4. ValuesOf(truth[s[i].name], ElementCount(old[k]), old[k].dtype)
      BY <1>2, <1>4, <1>8, <3>1 DEF TruthOK
    <3>5. ReadField(AssemblyTable(old)[k], row) = truth[s[i].name]
      BY <1>1, <1>2, <1>3, <1>4, <1>5, <1>8, <3>1 DEF NothingLost
    <3>6. ValuesOf(truth[s[i].name], ElementCount(s[i]), s[i].dtype)
      BY <2>1, <3>2, <3>3, <3>4, WidenedFit
    <3>7. values[s[i].name] = CastAll(truth[s[i].name], s[i].dtype)
      <4>1. Translate(RowOffsetTable(old), s, row)[s[i].name] =
               CastAll(ReadField(AssemblyTable(old)[k], row), s[i].dtype)
        BY <1>3, <3>1, Translated
      <4> QED
        BY <1>3, <3>5, <4>1
    <3>8. values[s[i].name] = truth[s[i].name]
      BY <2>1, <3>6, <3>7, CastKeeps, FieldShape, ElementCountType
    <3>9. truth'[s[i].name] = truth[s[i].name]
      BY <1>1, <1>8, <2>1, <2>2
    <3> QED
      BY <3>6, <3>8, <3>9
  <2>3. CASE s[i].name \notin NamesOf(old)
    <3>1. IsZeros(values[s[i].name], s[i])
      <4>1. IsZeros(Translate(RowOffsetTable(old), s, row)[s[i].name], s[i])
        BY <1>3, <2>3, Translated
      <4> QED
        BY <1>3, <4>1
    <3>2. truth'[s[i].name] = values[s[i].name]
      <4>1. IsZeros(truth'[s[i].name], s[i])
        BY <1>1, <2>1, <2>3 DEF IsZeros
      <4> HIDE DEF values
      <4> QED
        BY <3>1, <4>1 DEF IsZeros
    <3>3. ValuesOf(values[s[i].name], ElementCount(s[i]), s[i].dtype)
      BY <2>1, <3>1, ZerosFit
    <3> QED
      BY <3>1, <3>2, <3>3
  <2> QED
    BY <2>2, <2>3
<1>13. ASSUME NEW i \in 1..Len(s) PROVE IsVector(values[s[i].name], ElementCount(s[i]))
  <2>1. s[i] \in Fields /\ FieldNamed(s, s[i].name) = s[i] /\ ElementCount(s[i]) \in Nat
    BY <1>3, SchemaShape, NamedField, ElementCountType
  <2>2. CASE s[i].name \in NamesOf(old)
    <3>1. PICK k \in 1..Len(old) : old[k].name = s[i].name
      BY <1>5, <2>2 DEF NamesOf, Range
    <3>2. old[k] \in Fields /\ FieldNamed(old, s[i].name) = old[k]
      BY <1>3, <3>1, SchemaShape, NamedField
    <3>3. old[k].shape = s[i].shape
      BY <1>1, <2>1, <2>2, <3>2 DEF CanUpgrade
    <3>4. ElementCount(old[k]) = ElementCount(s[i])
      BY <3>3, CountOfShape
    <3>5. PICK entry : entry = AssemblyTable(old)[k]
      OBVIOUS
    <3>6. entry.element_count = ElementCount(s[i])
      BY <1>3, <3>4, <3>5, AssemblyFacts DEF TableOf
    <3>7. IsVector(ReadField(entry, row), ElementCount(s[i]))
      BY <2>1, <3>6, ReadVector
    <3>8. values[s[i].name] = CastAll(ReadField(entry, row), s[i].dtype)
      <4>1. Translate(RowOffsetTable(old), s, row)[s[i].name] =
               CastAll(ReadField(AssemblyTable(old)[k], row), s[i].dtype)
        BY <1>3, <3>1, Translated
      <4> QED
        BY <1>3, <3>5, <4>1
    <3> QED
      BY <2>1, <3>7, <3>8, CastVector
  <2>3. CASE s[i].name \notin NamesOf(old)
    <3>1. IsZeros(values[s[i].name], s[i])
      <4>1. IsZeros(Translate(RowOffsetTable(old), s, row)[s[i].name], s[i])
        BY <1>3, <2>3, Translated
      <4> QED
        BY <1>3, <4>1
    <3> QED
      BY <2>1, <3>1, ZerosFit DEF ValuesOf
  <2> QED
    BY <2>2, <2>3
<1> HIDE DEF values
<1>9. ASSUME present
      PROVE  /\ DOMAIN row' \subseteq 0..(size - 1)
             /\ \A i \in 1..Len(s) : s[i].name \notin wrapped =>
                   ReadField(t[i], row') = truth'[s[i].name]
  <2>1. \A i \in 1..Len(s) : IsVector(values[s[i].name], ElementCount(s[i]))
    BY <1>13
  <2>2. /\ DOMAIN InsertMany(s, t, values) \subseteq 0..(size - 1)
        /\ \A i \in 1..Len(s) : ReadField(t[i], InsertMany(s, t, values)) =
                                   CastAll(values[s[i].name], s[i].dtype)
    BY <1>3, <2>1, InsertReads
  <2>3. ASSUME NEW i \in 1..Len(s), s[i].name \notin wrapped
        PROVE  CastAll(values[s[i].name], s[i].dtype) = truth'[s[i].name]
    <3>1. s[i] \in Fields
      BY <1>3, SchemaShape
    <3>2. s[i].dtype \in DType /\ ElementCount(s[i]) \in Nat
      BY <3>1, FieldShape, ElementCountType
    <3>3. ValuesOf(values[s[i].name], ElementCount(s[i]), s[i].dtype)
      BY <1>8, <1>9, <2>3
    <3> QED
      BY <1>8, <1>9, <2>3, <3>2, <3>3, CastKeeps
  <2> QED
    BY <1>1, <1>9, <2>2, <2>3
<1>10. InRow'
  <2>1. DOMAIN buffer' \subseteq 0..(size - 1)
    BY <1>1
  <2>2. DOMAIN row' \subseteq 0..(size - 1) /\ (present' \/ row' = <<>>)
    BY <1>1, <1>2, <1>9 DEF InRow
  <2> QED
    BY <1>4, <2>1, <2>2 DEF InRow, size
<1>11. TruthOK'
  <2>1. present => \A i \in 1..Len(s) : s[i].name \notin wrapped =>
           ValuesOf(truth'[s[i].name], ElementCount(s[i]), s[i].dtype)
    BY <1>8
  <2> QED
    BY <1>1, <1>4, <2>1 DEF TruthOK
<1>14. WrapOK'
  BY <1>1, <1>2 DEF WrapOK, Widened
<1>12. NothingLost'
  <2>1. \A n \in wrapped : Widened(n)
    BY <1>2 DEF WrapOK
  <2>2. ASSUME NEW n PROVE Widened(n)' <=> Widened(n)
    BY <1>1 DEF Widened
  <2> QED
    BY <1>1, <1>4, <1>5, <1>9, <2>1, <2>2 DEF NothingLost, t
<1> QED
  BY <1>1, <1>2, <1>6, <1>7, <1>10, <1>11, <1>12, <1>14 DEF IInv

LEMMA FormatInvariant == Spec => []IInv
<1>1. Init => IInv
  <2> SUFFICES ASSUME Init PROVE IInv
    OBVIOUS
  <2>1. Derived /\ UpgradeOK /\ MessageOK
    BY DEF Init, Derived, UpgradeOK, MessageOK
  <2>2. ~present /\ writes \in 0..MaxWrites /\ present \in BOOLEAN
    <3>1. present = FALSE /\ writes = 0
      BY DEF Init
    <3>2. writes \in 0..MaxWrites
      BY <3>1, FormatAssumption
    <3> QED
      BY <3>1, <3>2, Zenon
  <2>3. TruthOK /\ WrapOK /\ NothingLost
    BY <2>2 DEF Init, TruthOK, WrapOK, NothingLost
  <2>4. InRow
    BY DEF Init, InRow
  <2> QED
    BY <2>1, <2>2, <2>3, <2>4 DEF IInv
<1>2. IInv /\ [Next]_vars => IInv'
  <2> SUFFICES ASSUME IInv, [Next]_vars PROVE IInv'
    OBVIOUS
  <2>1. CASE Hydrate
    BY <2>1, HydrateStep
  <2>2. CASE \E v \in {1, 2} : Produce(v)
    BY <2>2, ProduceStep
  <2>3. CASE Apply
    BY <2>3, ApplyStep
  <2>4. CASE Poison
    BY <2>4, PoisonStep
  <2>5. CASE Upgrade
    BY <2>5, UpgradeStep
  <2>6. CASE UNCHANGED vars
    BY <2>6 DEF vars, IInv, Derived, InRow, MessageOK, IsListOf, UpgradeOK, TruthOK, WrapOK, Widened, NothingLost, schema
  <2> QED
    BY <2>1, <2>2, <2>3, <2>4, <2>5, <2>6 DEF Next
<1> QED
  BY <1>1, <1>2, PTL DEF Spec

--------------------------------------------------------------------------------
(* What the row holds *)

\* The types of the state, and that no write leaves the row: neither the packer, which
\* may stop in the middle of a list, nor insert_many, before or after an upgrade.
THEOREM TypeCorrect == Spec => []TypeOK
<1>1. IInv => TypeOK
  <2> SUFFICES ASSUME IInv PROVE TypeOK
    OBVIOUS
  <2>1. Derived /\ InRow /\ MessageOK
    BY DEF IInv
  <2>2. IsSchema(versions[1]) /\ IsSchema(versions[2])
    BY <2>1, Compiled DEF Schemas
  <2>3. Len(message) <= 1
    <3>1. CASE message = <<>>
      BY <3>1
    <3>2. CASE message # <<>>
      <4>1. Len(message) = 1
        BY <2>1, <3>2, Zenon DEF MessageOK
      <4> QED
        BY <4>1
    <3> QED
      BY <3>1, <3>2
  <2>4. wrapped \subseteq NamesOf(schema)
    <3> SUFFICES ASSUME NEW n \in wrapped PROVE n \in NamesOf(schema)
      OBVIOUS
    <3>1. Widened(n) /\ at \in {1, 2}
      BY DEF IInv, WrapOK, Derived
    <3>2. n \in NamesOf(versions[1]) /\ n \in NamesOf(versions[2])
      BY <3>1 DEF Widened, NamesOf
    <3> QED
      BY <3>1, <3>2 DEF schema
  <2> QED
    BY <2>1, <2>2, <2>3, <2>4 DEF IInv, Derived, InRow, TypeOK
<1> QED
  BY <1>1, FormatInvariant, PTL

\* What the field of a name holds is what was last written under that name, by the packer
\* or by insert_many: the two agree on every schema about where a field is, and the cast
\* of an upgrade keeps the value (can_upgrade's widening table).  The packer wraps the
\* integers of a list that a producer of the new version wrote too early, and no others.
THEOREM NothingIsLost == Spec => []NothingLost
<1>1. IInv => NothingLost
  BY DEF IInv
<1> QED
  BY <1>1, FormatInvariant, PTL

================================================================================
