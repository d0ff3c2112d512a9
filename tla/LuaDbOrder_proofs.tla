-------------------------- MODULE LuaDbOrder_proofs --------------------------
(* What holds of the order and the encoding of keys, for every key; what      *)
(* holds of LuaDbOrder for every set of keys, and for every set of keys whose *)
(* names are plain; and that traversal is what doc/API.md promises.           *)
EXTENDS LuaDbOrder, SequenceTheorems, FiniteSetTheorems, WellFoundedInduction, TLAPS

-----------------------------------------------------------------------------
(* Keys (LuaDbKeys).                                                         *)

LEMMA MinIsLeast ==
    ASSUME NEW T \in SUBSET Nat, T # {}
    PROVE  Min(T) \in T /\ \A y \in T : Min(T) <= y
<1>1. PICK x \in T : \A y \in T : ~ (<<y, x>> \in OpToRel(<, Nat))
  BY NatLessThanWellFounded, WFMin
<1>2. \A y \in T : y \in Nat /\ x \in Nat
  OBVIOUS
<1>3. \A y \in T : ~ (y < x)
  BY <1>1, <1>2 DEF OpToRel
<1>4. \A y \in T : x <= y
  BY <1>2, <1>3
<1>. QED
  BY <1>4 DEF Min

\* Induction, for a set of numbers.
LEMMA AllNumbers ==
    ASSUME NEW T, 0 \in T, \A n \in Nat : n \in T => n + 1 \in T
    PROVE  \A n \in Nat : n \in T
<1> SUFFICES ASSUME Nat \ T # {} PROVE FALSE
  OBVIOUS
<1>1. /\ Min(Nat \ T) \in Nat \ T
      /\ \A y \in Nat \ T : Min(Nat \ T) <= y
  BY MinIsLeast
<1>2. PICK x : x \in Nat \ T /\ \A y \in Nat \ T : x <= y
  BY <1>1
<1>3. x - 1 \in Nat /\ (x - 1) + 1 = x /\ ~ (x <= x - 1)
  BY <1>2
<1>4. x - 1 \in T
  BY <1>2, <1>3
<1>. QED
  BY <1>2, <1>3, <1>4

-----------------------------------------------------------------------------
(* The order of segments.                                                    *)

\* Two strings are the same, and no NUL, before the place i.
SameBefore(s, t, i) == \A j \in 1..(i - 1) : s[j] = t[j] /\ s[j] # 0

\* strncmp stops at the place i.
StopsAt(s, t, i) ==
    /\ i \in DOMAIN s \cap DOMAIN t /\ (s[i] # t[i] \/ s[i] = 0)
    /\ SameBefore(s, t, i)

\* strncmp comes to the end of one of the strings.
NeverStops(s, t) == \A i \in DOMAIN s \cap DOMAIN t : s[i] = t[i] /\ s[i] # 0

LEMMA StrnCmpCases ==
    ASSUME NEW s \in Seq(Byte), NEW t \in Seq(Byte)
    PROVE  \/ NeverStops(s, t) /\ StrnCmp(s, t) = 0
           \/ \E i \in Nat : StopsAt(s, t, i) /\ StrnCmp(s, t) = Sign(s[i] - t[i])
<1> DEFINE stop == {i \in DOMAIN s \cap DOMAIN t : s[i] # t[i] \/ s[i] = 0}
<1>1. CASE stop = {}
  BY <1>1 DEF NeverStops, StrnCmp
<1>2. CASE stop # {}
  <2>1. stop \in SUBSET Nat
    OBVIOUS
  <2>2. Min(stop) \in stop /\ \A j \in stop : Min(stop) <= j
    BY <1>2, <2>1, MinIsLeast
  <2>3. PICK i \in stop : i = Min(stop) /\ \A j \in stop : i <= j
    BY <2>2
  <2>4. StrnCmp(s, t) = Sign(s[i] - t[i])
    BY <1>2, <2>3 DEF StrnCmp
  <2>5. i \in Nat /\ i \in DOMAIN s \cap DOMAIN t
    OBVIOUS
  <2>6. ASSUME NEW j \in 1..(i - 1)
        PROVE  s[j] = t[j] /\ s[j] # 0
    <3>1. j \in DOMAIN s \cap DOMAIN t /\ ~ (i <= j)
      BY <2>5
    <3>. QED
      BY <2>3, <3>1
  <2>. QED
    BY <2>4, <2>5, <2>6 DEF StopsAt, SameBefore
<1>. QED
  BY <1>1, <1>2

\* s is not after t.
NotAfter(s, t) ==
    \/ \E i \in Nat : StopsAt(s, t, i) /\ (s[i] < t[i] \/ (s[i] = t[i] /\ Len(s) <= Len(t)))
    \/ NeverStops(s, t) /\ Len(s) <= Len(t)

LEMMA StopsOnce ==
    ASSUME NEW s \in Seq(Byte), NEW t \in Seq(Byte), NEW i \in Nat, StopsAt(s, t, i)
    PROVE  /\ ~ NeverStops(s, t)
           /\ \A j \in Nat : StopsAt(s, t, j) => j = i
<1>1. i \in DOMAIN s \cap DOMAIN t /\ (s[i] # t[i] \/ s[i] = 0)
  BY DEF StopsAt
<1>2. ASSUME NEW j \in Nat, StopsAt(s, t, j)
      PROVE  j = i
  <2>1. j \in DOMAIN s \cap DOMAIN t /\ (s[j] # t[j] \/ s[j] = 0)
    BY <1>2 DEF StopsAt
  <2>2. \A k \in 1..(i - 1) : s[k] = t[k] /\ s[k] # 0
    BY DEF StopsAt, SameBefore
  <2>3. \A k \in 1..(j - 1) : s[k] = t[k] /\ s[k] # 0
    BY <1>2 DEF StopsAt, SameBefore
  <2>4. i \in 1..(j - 1) \/ j \in 1..(i - 1) \/ i = j
    BY <1>1, <2>1
  <2>. QED
    BY <1>1, <2>1, <2>2, <2>3, <2>4
<1>. QED
  BY <1>1, <1>2 DEF NeverStops

LEMMA SegmentsCompared ==
    ASSUME NEW s \in Segment, NEW t \in Segment
    PROVE  /\ CompareSegments(s, t) \in {-1, 0, 1}
           /\ CompareSegments(t, s) = - CompareSegments(s, t)
           /\ CompareSegments(s, t) <= 0 <=> NotAfter(s.data, t.data)
<1> DEFINE a == s.data
           b == t.data
<1>1. a \in Seq(Byte) /\ b \in Seq(Byte) /\ Len(a) \in Nat /\ Len(b) \in Nat
  BY DEF Segment
<1>. HIDE DEF a, b
<1>2. /\ CompareSegments(s, t) = IF StrnCmp(a, b) # 0 THEN StrnCmp(a, b) ELSE Sign(Len(a) - Len(b))
      /\ CompareSegments(t, s) = IF StrnCmp(b, a) # 0 THEN StrnCmp(b, a) ELSE Sign(Len(b) - Len(a))
  BY DEF CompareSegments, a, b
<1>3. CASE NeverStops(a, b) /\ StrnCmp(a, b) = 0
  <2>1. NeverStops(b, a)
    BY <1>3 DEF NeverStops
  <2>2. StrnCmp(b, a) = 0
    BY <1>1, <2>1, StrnCmpCases, StopsOnce
  <2>3. NotAfter(a, b) <=> Len(a) <= Len(b)
    BY <1>1, <1>3, StopsOnce DEF NotAfter
  <2>4. /\ CompareSegments(s, t) \in {-1, 0, 1}
        /\ CompareSegments(t, s) = - CompareSegments(s, t)
        /\ CompareSegments(s, t) <= 0 <=> Len(a) <= Len(b)
    BY <1>1, <1>2, <1>3, <2>2 DEF Sign
  <2>. QED
    BY <2>3, <2>4 DEF a, b
<1>4. CASE \E i \in Nat : StopsAt(a, b, i) /\ StrnCmp(a, b) = Sign(a[i] - b[i])
  <2>1. PICK i \in Nat : StopsAt(a, b, i) /\ StrnCmp(a, b) = Sign(a[i] - b[i])
    BY <1>4
  <2>2. StopsAt(b, a, i)
    BY <2>1 DEF StopsAt, SameBefore
  <2>3. StrnCmp(b, a) = Sign(b[i] - a[i])
    BY <1>1, <2>2, StrnCmpCases, StopsOnce
  <2>4. a[i] \in Int /\ b[i] \in Int
    <3>1. i \in DOMAIN a /\ i \in DOMAIN b
      BY <2>1 DEF StopsAt
    <3>2. a[i] \in Byte /\ b[i] \in Byte
      BY <1>1, <3>1
    <3>. QED
      BY <3>2 DEF Byte
  <2>5. NotAfter(a, b) <=> a[i] < b[i] \/ (a[i] = b[i] /\ Len(a) <= Len(b))
    BY <1>1, <2>1, StopsOnce DEF NotAfter
  <2>6. PICK x, y \in Int : x = a[i] /\ y = b[i]
    BY <2>4
  <2>7. /\ CompareSegments(s, t) \in {-1, 0, 1}
        /\ CompareSegments(t, s) = - CompareSegments(s, t)
        /\ CompareSegments(s, t) <= 0 <=> x < y \/ (x = y /\ Len(a) <= Len(b))
    <3>1. StrnCmp(a, b) = Sign(x - y) /\ StrnCmp(b, a) = Sign(y - x)
      BY <2>1, <2>3, <2>6
    <3>. QED
      BY <1>1, <1>2, <3>1 DEF Sign
  <2>. QED
    BY <2>5, <2>6, <2>7 DEF a, b
<1>. QED
  BY <1>1, <1>3, <1>4, StrnCmpCases

LEMMA BytesAreNumbers ==
    ASSUME NEW s \in Seq(Byte)
    PROVE  /\ Len(s) \in Nat /\ DOMAIN s = 1..Len(s)
           /\ \A i \in DOMAIN s : s[i] \in Nat
<1>1. \A i \in DOMAIN s : s[i] \in Byte
  OBVIOUS
<1>2. \A x \in Byte : x \in Nat
  BY DEF Byte
<1>. QED
  BY <1>1, <1>2

LEMMA NotAfterTransitive ==
    ASSUME NEW s \in Seq(Byte), NEW t \in Seq(Byte), NEW u \in Seq(Byte),
           NotAfter(s, t), NotAfter(t, u)
    PROVE  NotAfter(s, u)
<1>1. /\ Len(s) \in Nat /\ Len(t) \in Nat /\ Len(u) \in Nat
      /\ DOMAIN s = 1..Len(s) /\ DOMAIN t = 1..Len(t) /\ DOMAIN u = 1..Len(u)
      /\ \A i \in DOMAIN s : s[i] \in Nat
      /\ \A i \in DOMAIN t : t[i] \in Nat
      /\ \A i \in DOMAIN u : u[i] \in Nat
  BY BytesAreNumbers
\* Where the first pair stops, or the second, the outer pair stops.
<1>2. ASSUME NEW i \in Nat, StopsAt(s, t, i), s[i] < t[i] \/ (s[i] = t[i] /\ Len(s) <= Len(t)),
             NEW j \in Nat, StopsAt(t, u, j), t[j] < u[j] \/ (t[j] = u[j] /\ Len(t) <= Len(u))
      PROVE  NotAfter(s, u)
  <2>1. /\ i \in 1..Len(s) /\ i \in 1..Len(t) /\ j \in 1..Len(t) /\ j \in 1..Len(u)
        /\ s[i] # t[i] \/ s[i] = 0 
        /\ t[j] # u[j] \/ t[j] = 0
        /\ \A k \in 1..(i - 1) : s[k] = t[k] /\ s[k] # 0
        /\ \A k \in 1..(j - 1) : t[k] = u[k] /\ t[k] # 0
    BY <1>1, <1>2 DEF StopsAt, SameBefore
  <2>2. CASE i < j
    <3>1. i \in 1..Len(u) /\ t[i] = u[i] /\ t[i] # 0 /\ s[i] < u[i]
      <4>1. i \in 1..(j - 1) /\ i \in 1..Len(u)
        BY <1>1, <2>1, <2>2
      <4>. QED
        BY <1>1, <1>2, <2>1, <4>1
    <3>2. \A k \in 1..(i - 1) : s[k] = u[k] /\ s[k] # 0
      <4>1. \A k \in 1..(i - 1) : k \in 1..(j - 1)
        BY <2>2
      <4>. QED
        BY <2>1, <4>1
    <3>3. StopsAt(s, u, i)
      BY <1>1, <2>1, <3>1, <3>2 DEF StopsAt, SameBefore
    <3>. QED
      BY <3>1, <3>3 DEF NotAfter
  <2>3. CASE j < i
    <3>1. j \in 1..Len(s) /\ s[j] = t[j] /\ t[j] # 0 /\ s[j] < u[j]
      <4>1. j \in 1..(i - 1) /\ j \in 1..Len(s)
        BY <1>1, <2>1, <2>3
      <4>. QED
        BY <1>1, <1>2, <2>1, <4>1
    <3>2. \A k \in 1..(j - 1) : s[k] = u[k] /\ s[k] # 0
      <4>1. \A k \in 1..(j - 1) : k \in 1..(i - 1)
        BY <2>3
      <4>. QED
        BY <2>1, <4>1
    <3>3. StopsAt(s, u, j)
      BY <1>1, <2>1, <3>1, <3>2 DEF StopsAt, SameBefore
    <3>. QED
      BY <3>1, <3>3 DEF NotAfter
  <2>4. CASE i = j
    <3>1. \A k \in 1..(i - 1) : s[k] = u[k] /\ s[k] # 0
      BY <2>1, <2>4
    <3>2. s[i] < u[i] \/ (s[i] = u[i] /\ s[i] = 0 /\ Len(s) <= Len(u))
      BY <1>1, <1>2, <2>1, <2>4
    <3>3. StopsAt(s, u, i)
      BY <1>1, <2>1, <2>4, <3>1, <3>2 DEF StopsAt, SameBefore
    <3>. QED
      BY <3>2, <3>3 DEF NotAfter
  <2>. QED
    BY <2>2, <2>3, <2>4
<1>3. ASSUME NEW i \in Nat, StopsAt(s, t, i), s[i] < t[i] \/ (s[i] = t[i] /\ Len(s) <= Len(t)),
             NeverStops(t, u), Len(t) <= Len(u)
      PROVE  NotAfter(s, u)
  <2>1. /\ i \in 1..Len(s) /\ i \in 1..Len(t) /\ i \in 1..Len(u)
        /\ s[i] # t[i] \/ s[i] = 0 
        /\ \A k \in 1..(i - 1) : s[k] = t[k] /\ s[k] # 0
        /\ \A k \in 1..Len(t) : t[k] = u[k] /\ t[k] # 0
    BY <1>1, <1>3 DEF StopsAt, SameBefore, NeverStops
  <2>2. s[i] < u[i]
    BY <1>1, <1>3, <2>1
  <2>3. \A k \in 1..(i - 1) : k \in 1..Len(t)
    BY <1>1, <2>1
  <2>4. StopsAt(s, u, i)
    BY <1>1, <2>1, <2>2, <2>3 DEF StopsAt, SameBefore
  <2>. QED
    BY <2>2, <2>4 DEF NotAfter
<1>4. ASSUME NeverStops(s, t), Len(s) <= Len(t),
             NEW j \in Nat, StopsAt(t, u, j), t[j] < u[j] \/ (t[j] = u[j] /\ Len(t) <= Len(u))
      PROVE  NotAfter(s, u)
  <2>1. /\ j \in 1..Len(t) /\ j \in 1..Len(u)
        /\ t[j] # u[j] \/ t[j] = 0
        /\ \A k \in 1..(j - 1) : t[k] = u[k] /\ t[k] # 0
        /\ \A k \in 1..Len(s) : s[k] = t[k] /\ s[k] # 0
    <3>1. \A k \in 1..Len(s) : k \in DOMAIN s \cap DOMAIN t
      BY <1>1, <1>4
    <3>. QED
      BY <1>1, <1>4, <3>1 DEF StopsAt, SameBefore, NeverStops
  <2>2. CASE j <= Len(s)
    <3>1. j \in 1..Len(s) /\ s[j] < u[j]
      BY <1>1, <1>4, <2>1, <2>2
    <3>2. \A k \in 1..(j - 1) : k \in 1..Len(s)
      BY <1>1, <2>1, <2>2
    <3>3. StopsAt(s, u, j)
      BY <1>1, <2>1, <3>1, <3>2 DEF StopsAt, SameBefore
    <3>. QED
      BY <3>1, <3>3 DEF NotAfter
  <2>3. CASE Len(s) < j
    <3>1. Len(s) <= Len(u) /\ \A k \in 1..Len(s) : k \in 1..(j - 1)
      BY <1>1, <2>1, <2>3
    <3>2. NeverStops(s, u)
      BY <1>1, <2>1, <3>1 DEF NeverStops
    <3>. QED
      BY <3>1, <3>2 DEF NotAfter
  <2>. QED
    BY <1>1, <2>2, <2>3
<1>5. ASSUME NeverStops(s, t), Len(s) <= Len(t), NeverStops(t, u), Len(t) <= Len(u)
      PROVE  NotAfter(s, u)
  <2>1. Len(s) <= Len(u) /\ \A k \in 1..Len(s) : k \in 1..Len(t) /\ k \in 1..Len(u)
    BY <1>1, <1>5
  <2>2. NeverStops(s, u)
    BY <1>1, <1>5, <2>1 DEF NeverStops
  <2>. QED
    BY <2>1, <2>2 DEF NotAfter
<1>. QED
  BY <1>2, <1>3, <1>4, <1>5 DEF NotAfter

\* The loop body of CompareKeys orders the segments: it does not matter in
\* which order two of them are compared, and the order is transitive.
LEMMA SegmentsOrdered ==
    ASSUME NEW s \in Segment, NEW t \in Segment, NEW u \in Segment,
           CompareSegments(s, t) <= 0, CompareSegments(t, u) <= 0
    PROVE  /\ CompareSegments(s, u) <= 0
           /\ CompareSegments(s, u) = 0 <=> /\ CompareSegments(s, t) = 0
                                            /\ CompareSegments(t, u) = 0
<1>1. \A x, y, z \in Segment : CompareSegments(x, y) <= 0 /\ CompareSegments(y, z) <= 0
                                  => CompareSegments(x, z) <= 0
  <2> SUFFICES ASSUME NEW x \in Segment, NEW y \in Segment, NEW z \in Segment,
                      CompareSegments(x, y) <= 0, CompareSegments(y, z) <= 0
               PROVE  CompareSegments(x, z) <= 0
    OBVIOUS
  <2>1. x.data \in Seq(Byte) /\ y.data \in Seq(Byte) /\ z.data \in Seq(Byte)
    BY DEF Segment
  <2>2. NotAfter(x.data, y.data) /\ NotAfter(y.data, z.data)
    BY SegmentsCompared
  <2>3. NotAfter(x.data, z.data)
    BY <2>1, <2>2, NotAfterTransitive
  <2>. QED
    BY <2>3, SegmentsCompared
<1>2. \A x, y \in Segment : /\ CompareSegments(x, y) \in {-1, 0, 1}
                            /\ CompareSegments(y, x) = - CompareSegments(x, y)
  BY SegmentsCompared
<1>. QED
  BY <1>1, <1>2

LEMMA SegmentItself == ASSUME NEW s \in Segment PROVE CompareSegments(s, s) = 0
<1>1. CompareSegments(s, s) \in {-1, 0, 1} /\ CompareSegments(s, s) = - CompareSegments(s, s)
  BY SegmentsCompared
<1>. QED
  BY <1>1

-----------------------------------------------------------------------------
(* The order of keys.                                                        *)

\* The first segments that differ are those at the place i.
DiffersAt(a, b, i) ==
    /\ i \in DOMAIN a \cap DOMAIN b /\ CompareSegments(a[i], b[i]) # 0
    /\ \A j \in 1..(i - 1) : CompareSegments(a[j], b[j]) = 0

NeverDiffers(a, b) == \A i \in DOMAIN a \cap DOMAIN b : CompareSegments(a[i], b[i]) = 0

LEMMA KeyIsSegments ==
    ASSUME NEW a \in Key
    PROVE  /\ Len(a) \in Nat /\ DOMAIN a = 1..Len(a)
           /\ \A i \in DOMAIN a : a[i] \in Segment
BY DEF Key

LEMMA CompareKeysCases ==
    ASSUME NEW a \in Key, NEW b \in Key
    PROVE  \/ NeverDiffers(a, b) /\ CompareKeys(a, b) = Sign(Len(a) - Len(b))
           \/ \E i \in Nat : DiffersAt(a, b, i) /\ CompareKeys(a, b) = CompareSegments(a[i], b[i])
<1> DEFINE differ == {i \in DOMAIN a \cap DOMAIN b : CompareSegments(a[i], b[i]) # 0}
<1>1. CASE differ = {}
  BY <1>1 DEF NeverDiffers, CompareKeys
<1>2. CASE differ # {}
  <2>1. differ \in SUBSET Nat
    BY KeyIsSegments
  <2>2. Min(differ) \in differ /\ \A j \in differ : Min(differ) <= j
    BY <1>2, <2>1, MinIsLeast
  <2>3. PICK i \in differ : i = Min(differ) /\ \A j \in differ : i <= j
    BY <2>2
  <2>4. CompareKeys(a, b) = CompareSegments(a[i], b[i])
    BY <1>2, <2>3 DEF CompareKeys
  <2>5. i \in Nat /\ i \in DOMAIN a \cap DOMAIN b
    BY <2>1
  <2>6. ASSUME NEW j \in 1..(i - 1)
        PROVE  CompareSegments(a[j], b[j]) = 0
    <3>1. j \in DOMAIN a \cap DOMAIN b /\ ~ (i <= j)
      BY <2>5, KeyIsSegments
    <3>. QED
      BY <2>3, <3>1
  <2>. QED
    BY <2>4, <2>5, <2>6 DEF DiffersAt
<1>. QED
  BY <1>1, <1>2

LEMMA DiffersOnce ==
    ASSUME NEW a \in Key, NEW b \in Key, NEW i \in Nat, DiffersAt(a, b, i)
    PROVE  /\ ~ NeverDiffers(a, b)
           /\ \A j \in Nat : DiffersAt(a, b, j) => j = i
<1>1. i \in 1..Len(a) /\ i \in 1..Len(b) /\ CompareSegments(a[i], b[i]) # 0
  BY KeyIsSegments DEF DiffersAt
<1>2. ASSUME NEW j \in Nat, DiffersAt(a, b, j)
      PROVE  j = i
  <2>1. j \in 1..Len(a) /\ j \in 1..Len(b) /\ CompareSegments(a[j], b[j]) # 0
    BY <1>2, KeyIsSegments DEF DiffersAt
  <2>2. \A k \in 1..(i - 1) : CompareSegments(a[k], b[k]) = 0
    BY DEF DiffersAt
  <2>3. \A k \in 1..(j - 1) : CompareSegments(a[k], b[k]) = 0
    BY <1>2 DEF DiffersAt
  <2>4. i \in 1..(j - 1) \/ j \in 1..(i - 1) \/ i = j
    BY <1>1, <2>1
  <2>. QED
    BY <1>1, <2>1, <2>2, <2>3, <2>4
<1>. QED
  BY <1>2 DEF NeverDiffers, DiffersAt

\* What the first difference, or its absence, tells of CompareKeys.
LEMMA DifferenceDecides ==
    ASSUME NEW a \in Key, NEW b \in Key
    PROVE  /\ \A i \in Nat : DiffersAt(a, b, i) => CompareKeys(a, b) = CompareSegments(a[i], b[i])
           /\ NeverDiffers(a, b) => CompareKeys(a, b) = Sign(Len(a) - Len(b))
BY CompareKeysCases, DiffersOnce

\* CompareKeys is one of -1, 0 and 1, and changes its sign with the order of
\* its arguments.
THEOREM KeysCompared ==
    ASSUME NEW a \in Key, NEW b \in Key
    PROVE  /\ CompareKeys(a, b) \in {-1, 0, 1}
           /\ CompareKeys(b, a) = - CompareKeys(a, b)
<1>1. Len(a) \in Nat /\ Len(b) \in Nat
  BY KeyIsSegments
<1>2. CASE NeverDiffers(a, b)
  <2>1. NeverDiffers(b, a)
    <3> SUFFICES ASSUME NEW i \in DOMAIN a \cap DOMAIN b
                 PROVE  CompareSegments(b[i], a[i]) = 0
      BY DEF NeverDiffers
    <3>1. CompareSegments(a[i], b[i]) = 0 /\ a[i] \in Segment /\ b[i] \in Segment
      BY <1>2, KeyIsSegments DEF NeverDiffers
    <3>. QED
      BY <3>1, SegmentsCompared
  <2>2. CompareKeys(a, b) = Sign(Len(a) - Len(b)) /\ CompareKeys(b, a) = Sign(Len(b) - Len(a))
    BY <1>2, <2>1, DifferenceDecides
  <2>. QED
    BY <1>1, <2>2 DEF Sign
<1>3. ASSUME NEW i \in Nat, DiffersAt(a, b, i)
      PROVE  /\ CompareKeys(a, b) \in {-1, 0, 1}
             /\ CompareKeys(b, a) = - CompareKeys(a, b)
  <2>1. \A j \in 1..i : /\ a[j] \in Segment /\ b[j] \in Segment
                        /\ CompareSegments(a[j], b[j]) \in {-1, 0, 1}
                        /\ CompareSegments(b[j], a[j]) = - CompareSegments(a[j], b[j])
    <3>1. i \in 1..Len(a) /\ i \in 1..Len(b)
      BY <1>3, KeyIsSegments DEF DiffersAt
    <3>2. \A j \in 1..i : j \in DOMAIN a /\ j \in DOMAIN b
      BY <1>1, <3>1, KeyIsSegments
    <3>3. \A j \in 1..i : a[j] \in Segment /\ b[j] \in Segment
      BY <3>2, KeyIsSegments
    <3>. QED
      BY <3>3, SegmentsCompared
  <2>2. i \in 1..i /\ \A j \in 1..(i - 1) : j \in 1..i
    BY <1>3, KeyIsSegments DEF DiffersAt
  <2>3. DiffersAt(b, a, i)
    BY <1>3, <2>1, <2>2 DEF DiffersAt
  <2>4. /\ CompareKeys(a, b) = CompareSegments(a[i], b[i])
        /\ CompareKeys(b, a) = CompareSegments(b[i], a[i])
    BY <1>3, <2>3, DifferenceDecides
  <2>. QED
    BY <2>1, <2>2, <2>4
<1>. QED
  BY <1>2, <1>3, CompareKeysCases

\* a is not after b.
NotAfterKey(a, b) ==
    \/ \E i \in Nat : DiffersAt(a, b, i) /\ CompareSegments(a[i], b[i]) < 0
    \/ NeverDiffers(a, b) /\ Len(a) <= Len(b)

LEMMA CompareIsNotAfter ==
    ASSUME NEW a \in Key, NEW b \in Key
    PROVE  CompareKeys(a, b) <= 0 <=> NotAfterKey(a, b)
<1>1. Len(a) \in Nat /\ Len(b) \in Nat
  BY KeyIsSegments
<1>2. CASE NeverDiffers(a, b)
  <2>1. NotAfterKey(a, b) <=> Len(a) <= Len(b)
    BY <1>2, DiffersOnce DEF NotAfterKey
  <2>2. CompareKeys(a, b) = Sign(Len(a) - Len(b))
    BY <1>2, DifferenceDecides
  <2>. QED
    BY <1>1, <2>1, <2>2 DEF Sign
<1>3. ASSUME NEW i \in Nat, DiffersAt(a, b, i)
      PROVE  CompareKeys(a, b) <= 0 <=> NotAfterKey(a, b)
  <2>1. NotAfterKey(a, b) <=> CompareSegments(a[i], b[i]) < 0
    BY <1>3, DiffersOnce DEF NotAfterKey
  <2>2. CompareKeys(a, b) = CompareSegments(a[i], b[i])
    BY <1>3, DifferenceDecides
  <2>3. CompareSegments(a[i], b[i]) \in {-1, 1}
    BY <1>3, KeyIsSegments, SegmentsCompared DEF DiffersAt
  <2>. QED
    BY <2>1, <2>2, <2>3
<1>. QED
  BY <1>2, <1>3, CompareKeysCases

\* CompareKeys is transitive on all keys: LMDB may keep its B-tree in this order,
\* whatever bytes the names hold.
THEOREM KeysOrdered ==
    ASSUME NEW a \in Key, NEW b \in Key, NEW c \in Key,
           CompareKeys(a, b) <= 0, CompareKeys(b, c) <= 0
    PROVE  CompareKeys(a, c) <= 0
<1>1. /\ Len(a) \in Nat /\ Len(b) \in Nat /\ Len(c) \in Nat
      /\ DOMAIN a = 1..Len(a) /\ DOMAIN b = 1..Len(b) /\ DOMAIN c = 1..Len(c)
      /\ \A i \in 1..Len(a) : a[i] \in Segment
      /\ \A i \in 1..Len(b) : b[i] \in Segment
      /\ \A i \in 1..Len(c) : c[i] \in Segment
  BY KeyIsSegments
<1>2. NotAfterKey(a, b) /\ NotAfterKey(b, c)
  BY CompareIsNotAfter
\* A place in all three keys.
<1>3. ASSUME NEW i \in 1..Len(a), i \in 1..Len(b), i \in 1..Len(c),
             CompareSegments(a[i], b[i]) <= 0, CompareSegments(b[i], c[i]) <= 0
      PROVE  /\ CompareSegments(a[i], c[i]) <= 0
             /\ CompareSegments(a[i], c[i]) = 0 <=> /\ CompareSegments(a[i], b[i]) = 0
                                                    /\ CompareSegments(b[i], c[i]) = 0
  BY <1>1, <1>3, SegmentsOrdered
<1>4. /\ \A i \in 1..Len(a) : i \in 1..Len(c) => CompareSegments(a[i], c[i]) \in {-1, 0, 1}
      /\ \A i \in 1..Len(a) : i \in 1..Len(b) => CompareSegments(a[i], b[i]) \in {-1, 0, 1}
      /\ \A i \in 1..Len(b) : i \in 1..Len(c) => CompareSegments(b[i], c[i]) \in {-1, 0, 1}
  BY <1>1, SegmentsCompared
<1>5. ASSUME NEW i \in Nat, DiffersAt(a, b, i), CompareSegments(a[i], b[i]) < 0,
             NEW j \in Nat, DiffersAt(b, c, j), CompareSegments(b[j], c[j]) < 0
      PROVE  NotAfterKey(a, c)
  <2>1. /\ i \in 1..Len(a) /\ i \in 1..Len(b) /\ j \in 1..Len(b) /\ j \in 1..Len(c)
        /\ \A k \in 1..(i - 1) : CompareSegments(a[k], b[k]) = 0
        /\ \A k \in 1..(j - 1) : CompareSegments(b[k], c[k]) = 0
    BY <1>1, <1>5 DEF DiffersAt
  <2>2. PICK k \in Nat : k = IF i < j THEN i ELSE j
    OBVIOUS
  <2>3. /\ k \in 1..Len(a) /\ k \in 1..Len(b) /\ k \in 1..Len(c)
        /\ CompareSegments(a[k], b[k]) <= 0 /\ CompareSegments(b[k], c[k]) <= 0
        /\ ~ (CompareSegments(a[k], b[k]) = 0 /\ CompareSegments(b[k], c[k]) = 0)
    <3>1. CASE i < j
      <4>1. k = i /\ i \in 1..(j - 1) /\ i \in 1..Len(c)
        BY <1>1, <2>1, <2>2, <3>1
      <4>. QED
        BY <1>4, <1>5, <2>1, <4>1
    <3>2. CASE j < i
      <4>1. k = j /\ j \in 1..(i - 1) /\ j \in 1..Len(a)
        BY <1>1, <2>1, <2>2, <3>2
      <4>. QED
        BY <1>4, <1>5, <2>1, <4>1
    <3>3. CASE i = j
      BY <1>4, <1>5, <2>1, <2>2, <3>3
    <3>. QED
      BY <3>1, <3>2, <3>3
  <2>4. CompareSegments(a[k], c[k]) < 0
    <3>1. CompareSegments(a[k], c[k]) <= 0 /\ CompareSegments(a[k], c[k]) # 0
      BY <1>3, <2>3
    <3>. QED
      BY <1>4, <2>3, <3>1
  <2>5. ASSUME NEW m \in 1..(k - 1)
        PROVE  CompareSegments(a[m], c[m]) = 0
    <3>1. /\ m \in 1..(i - 1) /\ m \in 1..(j - 1)
          /\ m \in 1..Len(a) /\ m \in 1..Len(b) /\ m \in 1..Len(c)
      BY <1>1, <2>1, <2>2
    <3>. QED
      BY <1>3, <2>1, <3>1
  <2>6. DiffersAt(a, c, k)
    BY <1>1, <2>3, <2>4, <2>5 DEF DiffersAt
  <2>. QED
    BY <2>4, <2>6 DEF NotAfterKey
<1>6. ASSUME NEW i \in Nat, DiffersAt(a, b, i), CompareSegments(a[i], b[i]) < 0,
             NeverDiffers(b, c), Len(b) <= Len(c)
      PROVE  NotAfterKey(a, c)
  <2>1. /\ i \in 1..Len(a) /\ i \in 1..Len(b) /\ i \in 1..Len(c)
        /\ \A k \in 1..(i - 1) : CompareSegments(a[k], b[k]) = 0
    BY <1>1, <1>6 DEF DiffersAt
  <2>2. \A k \in 1..i : /\ k \in 1..Len(a) /\ k \in 1..Len(b) /\ k \in 1..Len(c)
                        /\ CompareSegments(b[k], c[k]) = 0
    <3>1. \A k \in 1..i : k \in 1..Len(a) /\ k \in 1..Len(b) /\ k \in 1..Len(c)
      BY <1>1, <2>1
    <3>. QED
      BY <1>1, <1>6, <3>1 DEF NeverDiffers
  <2>3. CompareSegments(a[i], c[i]) < 0
    <3>1. i \in 1..i
      BY <2>1
    <3>2. CompareSegments(a[i], c[i]) <= 0 /\ CompareSegments(a[i], c[i]) # 0
      <4>1. CompareSegments(a[i], b[i]) <= 0 /\ CompareSegments(b[i], c[i]) <= 0
        BY <1>4, <1>6, <2>1, <2>2, <3>1
      <4>. QED
        BY <1>3, <1>6, <2>1, <4>1
    <3>. QED
      BY <1>4, <2>1, <3>2
  <2>4. ASSUME NEW k \in 1..(i - 1)
        PROVE  CompareSegments(a[k], c[k]) = 0
    <3>1. k \in 1..i
      BY <2>1
    <3>. QED
      BY <1>3, <2>1, <2>2, <3>1
  <2>5. DiffersAt(a, c, i)
    BY <1>1, <2>1, <2>3, <2>4 DEF DiffersAt
  <2>. QED
    BY <2>3, <2>5 DEF NotAfterKey
<1>7. ASSUME NeverDiffers(a, b), Len(a) <= Len(b),
             NEW j \in Nat, DiffersAt(b, c, j), CompareSegments(b[j], c[j]) < 0
      PROVE  NotAfterKey(a, c)
  <2>1. /\ j \in 1..Len(b) /\ j \in 1..Len(c)
        /\ \A k \in 1..(j - 1) : CompareSegments(b[k], c[k]) = 0
    BY <1>1, <1>7 DEF DiffersAt
  <2>2. \A k \in 1..Len(a) : k \in 1..Len(b) /\ CompareSegments(a[k], b[k]) = 0
    <3>1. \A k \in 1..Len(a) : k \in 1..Len(b)
      BY <1>1, <1>7
    <3>. QED
      BY <1>1, <1>7, <3>1 DEF NeverDiffers
  <2>3. CASE j <= Len(a)
    <3>1. j \in 1..Len(a) /\ \A k \in 1..(j - 1) : k \in 1..Len(a) /\ k \in 1..Len(c)
      BY <1>1, <2>1, <2>3
    <3>2. CompareSegments(a[j], c[j]) < 0
      <4>1. CompareSegments(a[j], c[j]) <= 0 /\ CompareSegments(a[j], c[j]) # 0
        <5>1. CompareSegments(a[j], b[j]) <= 0 /\ CompareSegments(b[j], c[j]) <= 0
          BY <1>4, <1>7, <2>1, <2>2, <3>1
        <5>. QED
          BY <1>3, <1>7, <2>1, <3>1, <5>1
      <4>. QED
        BY <1>4, <2>1, <3>1, <4>1
    <3>3. \A k \in 1..(j - 1) : CompareSegments(a[k], c[k]) = 0
      BY <1>3, <2>1, <2>2, <3>1
    <3>4. DiffersAt(a, c, j)
      BY <1>1, <2>1, <3>1, <3>2, <3>3 DEF DiffersAt
    <3>. QED
      BY <3>2, <3>4 DEF NotAfterKey
  <2>4. CASE Len(a) < j
    <3>1. Len(a) <= Len(c) /\ \A k \in 1..Len(a) : k \in 1..(j - 1) /\ k \in 1..Len(c)
      BY <1>1, <2>1, <2>4
    <3>2. \A k \in 1..Len(a) : CompareSegments(a[k], c[k]) = 0
      BY <1>3, <2>1, <2>2, <3>1
    <3>3. NeverDiffers(a, c)
      BY <1>1, <3>2 DEF NeverDiffers
    <3>. QED
      BY <3>1, <3>3 DEF NotAfterKey
  <2>. QED
    BY <1>1, <2>1, <2>3, <2>4
<1>8. ASSUME NeverDiffers(a, b), Len(a) <= Len(b), NeverDiffers(b, c), Len(b) <= Len(c)
      PROVE  NotAfterKey(a, c)
  <2>1. Len(a) <= Len(c) /\ \A k \in 1..Len(a) : k \in 1..Len(b) /\ k \in 1..Len(c)
    BY <1>1, <1>8
  <2>2. \A k \in 1..Len(a) : CompareSegments(a[k], b[k]) = 0 /\ CompareSegments(b[k], c[k]) = 0
    BY <1>1, <1>8, <2>1 DEF NeverDiffers
  <2>3. \A k \in 1..Len(a) : CompareSegments(a[k], c[k]) = 0
    BY <1>3, <2>1, <2>2
  <2>4. NeverDiffers(a, c)
    BY <1>1, <2>3 DEF NeverDiffers
  <2>. QED
    BY <2>1, <2>4 DEF NotAfterKey
<1>9. NotAfterKey(a, c)
  BY <1>2, <1>5, <1>6, <1>7, <1>8 DEF NotAfterKey
<1>. QED
  BY <1>9, CompareIsNotAfter

-----------------------------------------------------------------------------
(* The bytes of a key.                                                       *)

\* FlattenSeq of the community modules is defined by recursion; flat is the
\* sequence of its intermediate results.
Flat(flat, ss, n) ==
    flat = [i \in 1..n |-> IF i = 1 THEN ss[i] ELSE flat[i - 1] \o ss[i]]

LEMMA FlatExists ==
    ASSUME NEW ss
    PROVE  \A n \in Nat : \E flat : Flat(flat, ss, n)
<1> DEFINE T == {n \in Nat : \E flat : Flat(flat, ss, n)}
<1>1. 0 \in T
  <2> DEFINE e == [i \in 1..0 |-> 0]
  <2>1. e = [i \in 1..0 |-> IF i = 1 THEN ss[i] ELSE e[i - 1] \o ss[i]]
    OBVIOUS
  <2>2. Flat(e, ss, 0)
    BY <2>1 DEF Flat
  <2>. QED
    BY <2>2
<1>2. ASSUME NEW n \in Nat, n \in T
      PROVE  n + 1 \in T
  <2>1. PICK t : Flat(t, ss, n)
    BY <1>2
  <2> DEFINE last == IF n = 0 THEN ss[1] ELSE t[n] \o ss[n + 1]
             u == [i \in 1..(n + 1) |-> IF i = n + 1 THEN last ELSE t[i]]
  <2>2. ASSUME NEW i \in 1..(n + 1)
        PROVE  u[i] = IF i = 1 THEN ss[i] ELSE u[i - 1] \o ss[i]
    <3>1. CASE i = n + 1
      <4>1. u[i] = last /\ i - 1 = n /\ (i = 1 <=> n = 0)
        BY <3>1
      <4>2. n # 0 => u[n] = t[n]
        <5>1. n # 0 => n \in 1..(n + 1) /\ n # n + 1
          OBVIOUS
        <5>. QED
          BY <5>1
      <4>. QED
        BY <3>1, <4>1, <4>2
    <3>2. CASE i # n + 1
      <4>1. /\ i \in 1..n /\ u[i] = t[i]
            /\ i # 1 => i - 1 \in 1..(n + 1) /\ i - 1 # n + 1
        BY <3>2
      <4>2. t[i] = IF i = 1 THEN ss[i] ELSE t[i - 1] \o ss[i]
        BY <2>1, <4>1 DEF Flat
      <4>3. i # 1 => u[i - 1] = t[i - 1]
        BY <4>1
      <4>. QED
        BY <4>1, <4>2, <4>3
    <3>. QED
      BY <3>1, <3>2
  <2>3. u = [i \in 1..(n + 1) |-> u[i]]
    OBVIOUS
  <2>. HIDE DEF u
  <2>4. Flat(u, ss, n + 1)
    BY <2>2, <2>3 DEF Flat
  <2>. QED
    BY <2>4
<1>. HIDE DEF T
<1>3. \A n \in Nat : n \in T
  BY <1>1, <1>2, AllNumbers
<1>. QED
  BY <1>3 DEF T

LEMMA FlattenIsFlat ==
    ASSUME NEW ss, Len(ss) \in Nat, Len(ss) # 0
    PROVE  \E flat : Flat(flat, ss, Len(ss)) /\ FlattenSeq(ss) = flat[Len(ss)]
<1> DEFINE flatten == CHOOSE flat : flat = [i \in 1..Len(ss) |-> IF i = 1 THEN ss[i] ELSE flat[i - 1] \o ss[i]]
<1>1. PICK flat : flat = [i \in 1..Len(ss) |-> IF i = 1 THEN ss[i] ELSE flat[i - 1] \o ss[i]]
  BY FlatExists DEF Flat
<1>2. flatten = [i \in 1..Len(ss) |-> IF i = 1 THEN ss[i] ELSE flatten[i - 1] \o ss[i]]
  BY <1>1
<1>3. FlattenSeq(ss) = flatten[Len(ss)]
  BY DEF FlattenSeq
<1>. HIDE DEF flatten
<1>. QED
  BY <1>2, <1>3 DEF Flat

\* The intermediate results for a longer sequence are the same to begin with.
LEMMA FlatAgrees ==
    ASSUME NEW ss, NEW ts, NEW n \in Nat, \A i \in 1..n : ss[i] = ts[i],
           NEW t, Flat(t, ss, n), NEW u, Flat(u, ts, n + 1), n # 0
    PROVE  t[n] = u[n]
<1> DEFINE T == {i \in Nat : i # 0 /\ i <= n => t[i] = u[i]}
<1>1. 0 \in T
  OBVIOUS
<1>2. ASSUME NEW i \in Nat, i \in T
      PROVE  i + 1 \in T
  <2> SUFFICES ASSUME i + 1 <= n PROVE t[i + 1] = u[i + 1]
    OBVIOUS
  <2>1. i + 1 \in 1..n /\ i + 1 \in 1..(n + 1) /\ (i + 1) - 1 = i /\ (i + 1 = 1 <=> i = 0)
    <3>. HIDE DEF T
    <3>1. n \in Nat /\ i \in Nat /\ i + 1 <= n
      OBVIOUS
    <3>. QED
      BY ONLY <3>1
  <2>2. /\ t[i + 1] = IF i = 0 THEN ss[i + 1] ELSE t[i] \o ss[i + 1]
        /\ u[i + 1] = IF i = 0 THEN ts[i + 1] ELSE u[i] \o ts[i + 1]
    <3>1. t[i + 1] = IF i + 1 = 1 THEN ss[i + 1] ELSE t[(i + 1) - 1] \o ss[i + 1]
      <4>. HIDE DEF T
      <4>. QED
        BY ONLY Flat(t, ss, n), <2>1 DEF Flat
    <3>2. u[i + 1] = IF i + 1 = 1 THEN ts[i + 1] ELSE u[(i + 1) - 1] \o ts[i + 1]
      <4>. HIDE DEF T
      <4>. QED
        BY ONLY Flat(u, ts, n + 1), <2>1 DEF Flat
    <3>. QED
      BY <2>1, <3>1, <3>2
  <2>3. i # 0 => t[i] = u[i]
    BY <1>2, <2>1
  <2>. QED
    BY <2>1, <2>2, <2>3
<1>. HIDE DEF T
<1>3. n \in T
  BY <1>1, <1>2, AllNumbers
<1>. QED
  BY <1>3 DEF T

LEMMA FlattenAppend ==
    ASSUME NEW S, NEW ss \in Seq(Seq(S)), NEW x \in Seq(S)
    PROVE  FlattenSeq(Append(ss, x)) = IF ss = <<>> THEN x ELSE FlattenSeq(ss) \o x
<1>0. PICK n \in Nat : n = Len(ss)
  OBVIOUS
<1>1. PICK ts : n = Len(ss) /\ ts = Append(ss, x)
  BY <1>0
<1>2. /\ n \in Nat /\ Len(ts) = n + 1 /\ ts[n + 1] = x /\ \A i \in 1..n : ts[i] = ss[i]
      /\ Len(ts) \in Nat /\ Len(ts) # 0 /\ (n = 0 <=> ss = <<>>)
  BY <1>1
<1>3. PICK u : Flat(u, ts, n + 1) /\ FlattenSeq(ts) = u[n + 1]
  BY <1>2, FlattenIsFlat
<1>4. u[n + 1] = IF n = 0 THEN x ELSE u[n] \o x
  <2>1. n + 1 \in 1..(n + 1) /\ (n + 1) - 1 = n /\ (n + 1 = 1 <=> n = 0)
    BY <1>2
  <2>. QED
    BY <1>2, <1>3, <2>1 DEF Flat
<1>5. CASE n = 0
  BY <1>1, <1>2, <1>3, <1>4, <1>5
<1>6. CASE n # 0
  <2>1. PICK t : Flat(t, ss, n) /\ FlattenSeq(ss) = t[n]
    BY <1>1, <1>2, <1>6, FlattenIsFlat
  <2>2. n <= n /\ n <= n + 1 /\ n + 1 \in Nat /\ \A i \in 1..n : ss[i] = ts[i]
    BY <1>2
  <2>3. t[n] = u[n]
    BY <1>2, <1>3, <1>6, <2>1, <2>2, FlatAgrees
  <2>. QED
    BY <1>1, <1>2, <1>3, <1>4, <1>6, <2>1, <2>3
<1>. QED
  BY <1>5, <1>6

\* The bytes of a segment: its length, its type and its data.
SegmentBytes(seg) == <<Len(seg.data), seg.type>> \o seg.data

LEMMA SegmentBytesAre ==
    ASSUME NEW s \in Segment
    PROVE  /\ SegmentBytes(s) \in Seq(Nat) /\ Len(SegmentBytes(s)) = Len(s.data) + 2
           /\ SegmentBytes(s)[1] = Len(s.data) /\ SegmentBytes(s)[2] = s.type
           /\ \A i \in 1..Len(s.data) : SegmentBytes(s)[i + 2] = s.data[i]
<1>1. s.type \in Nat /\ s.data \in Seq(Byte) /\ Len(s.data) \in Nat
  <2>1. s.type \in Byte /\ s.data \in Seq(Byte)
    BY DEF Segment
  <2>2. s.type \in Nat
    <3>1. \A x \in Byte : x \in Nat
      BY DEF Byte
    <3>. QED
      BY <2>1, <3>1
  <2>. QED
    BY <2>1, <2>2
<1>2. s.data \in Seq(Nat)
  <2>1. \A i \in 1..Len(s.data) : s.data[i] \in Nat
    BY <1>1, BytesAreNumbers
  <2>. QED
    BY <1>1, <2>1
<1>3. PICK h : h = <<Len(s.data), s.type>>
  OBVIOUS
<1>4. h \in Seq(Nat) /\ Len(h) = 2 /\ h[1] = Len(s.data) /\ h[2] = s.type
  BY <1>1, <1>3
<1>5. /\ h \o s.data \in Seq(Nat) /\ Len(h \o s.data) = Len(s.data) + 2
      /\ (h \o s.data)[1] = h[1] /\ (h \o s.data)[2] = h[2]
      /\ \A i \in 1..Len(s.data) : (h \o s.data)[i + 2] = s.data[i]
  <2>1. /\ h \o s.data \in Seq(Nat)
        /\ Len(h \o s.data) = 2 + Len(s.data)
        /\ \A i \in 1..(2 + Len(s.data)) :
              (h \o s.data)[i] = IF i <= 2 THEN h[i] ELSE s.data[i - 2]
    <3>1. /\ h \o s.data \in Seq(Nat)
          /\ Len(h \o s.data) = Len(h) + Len(s.data)
          /\ \A i \in 1..(Len(h) + Len(s.data)) :
                (h \o s.data)[i] = IF i <= Len(h) THEN h[i] ELSE s.data[i - Len(h)]
      BY <1>2, <1>4, ConcatProperties
    <3>. QED
      BY <1>4, <3>1
  <2>2. \A i \in 1..Len(s.data) : i + 2 \in 1..(2 + Len(s.data)) /\ ~ (i + 2 <= 2) /\ (i + 2) - 2 = i
    BY <1>1
  <2>3. 1 \in 1..(2 + Len(s.data)) /\ 2 \in 1..(2 + Len(s.data)) /\ 2 + Len(s.data) = Len(s.data) + 2
    BY <1>1
  <2>. QED
    BY <2>1, <2>2, <2>3
<1>. QED
  BY <1>3, <1>4, <1>5 DEF SegmentBytes

LEMMA NoKeyBytes == KeyBytes(<<>>) = <<>>
<1>1. [i \in DOMAIN <<>> |-> SegmentBytes(<<>>[i])] = <<>>
  OBVIOUS
<1>. QED
  BY DEF KeyBytes, FlattenSeq

LEMMA KeyBytesAppend ==
    ASSUME NEW key \in Key, NEW seg \in Segment, KeyBytes(key) \in Seq(Nat)
    PROVE  KeyBytes(Append(key, seg)) = KeyBytes(key) \o SegmentBytes(seg)
<1> DEFINE parts(k) == [i \in DOMAIN k |-> SegmentBytes(k[i])]
<1>1. \A k : KeyBytes(k) = FlattenSeq(parts(k))
  BY DEF KeyBytes, SegmentBytes
<1>2. SegmentBytes(seg) \in Seq(Nat)
  BY SegmentBytesAre
<1>3. parts(key) \in Seq(Seq(Nat)) /\ (parts(key) = <<>> <=> key = <<>>)
  <2>1. \A i \in 1..Len(key) : SegmentBytes(key[i]) \in Seq(Nat)
    BY KeyIsSegments, SegmentBytesAre
  <2>2. parts(key) \in [1..Len(key) -> Seq(Nat)] /\ Len(key) \in Nat
    BY <2>1, KeyIsSegments
  <2>3. parts(key) \in Seq(Seq(Nat)) /\ Len(parts(key)) = Len(key)
    BY <2>2
  <2>. QED
    BY <2>3 DEF Key
<1>4. parts(Append(key, seg)) = Append(parts(key), SegmentBytes(seg))
  BY DEF Key
<1>. HIDE DEF parts
<1>5. CASE key = <<>>
  <2>1. KeyBytes(key) = <<>>
    BY <1>5, NoKeyBytes
  <2>2. <<>> \o SegmentBytes(seg) = SegmentBytes(seg)
    BY <1>2, ConcatEmptySeq
  <2>. QED
    BY <1>1, <1>2, <1>3, <1>4, <1>5, <2>1, <2>2, FlattenAppend
<1>6. CASE key # <<>>
  BY <1>1, <1>2, <1>3, <1>4, <1>6, FlattenAppend
<1>. QED
  BY <1>5, <1>6

LEMMA KeySplit ==
    ASSUME NEW key \in Key, NEW n \in Nat, Len(key) = n + 1
    PROVE  \E q \in Key, s \in Segment : key = Append(q, s) /\ Len(q) = n
<1>1. SubSeq(key, 1, n) \in Key /\ Len(SubSeq(key, 1, n)) = n /\ key[n + 1] \in Segment
  BY DEF Key
<1>2. key = Append(SubSeq(key, 1, n), key[n + 1])
  BY DEF Key
<1>. QED
  BY <1>1, <1>2

LEMMA KeyBytesType == \A key \in Key : KeyBytes(key) \in Seq(Nat)
<1> DEFINE T == {n \in Nat : \A key \in Key : Len(key) = n => KeyBytes(key) \in Seq(Nat)}
<1>1. 0 \in T
  <2>1. \A key \in Key : Len(key) = 0 => key = <<>>
    BY DEF Key
  <2>2. <<>> \in Seq(Nat)
    OBVIOUS
  <2>. QED
    BY <2>1, <2>2, NoKeyBytes
<1>2. ASSUME NEW n \in Nat, n \in T
      PROVE  n + 1 \in T
  <2>1. ASSUME NEW key \in Key, Len(key) = n + 1
        PROVE  KeyBytes(key) \in Seq(Nat)
    <3>1. PICK q \in Key, s \in Segment : key = Append(q, s) /\ Len(q) = n
      BY <2>1, KeySplit
    <3>2. KeyBytes(q) \in Seq(Nat) /\ SegmentBytes(s) \in Seq(Nat)
      BY <1>2, <3>1, SegmentBytesAre
    <3>3. KeyBytes(key) = KeyBytes(q) \o SegmentBytes(s)
      BY <3>1, <3>2, KeyBytesAppend
    <3>. QED
      BY <3>2, <3>3, ConcatProperties
  <2>. QED
    BY <2>1
<1>. HIDE DEF T
<1>3. \A key \in Key : Len(key) \in T
  BY <1>1, <1>2, AllNumbers, KeyIsSegments
<1>. QED
  BY <1>3 DEF T

\* The bytes of a key are those of all its segments but the last, then those of
\* the last.
LEMMA KeyBytesAre ==
    ASSUME NEW key \in Key, NEW seg \in Segment
    PROVE  /\ KeyBytes(key) \in Seq(Nat)
           /\ KeyBytes(Append(key, seg)) \in Seq(Nat)
           /\ Len(KeyBytes(Append(key, seg))) = Len(KeyBytes(key)) + Len(seg.data) + 2
           /\ \A i \in 1..Len(KeyBytes(key)) :
                 KeyBytes(Append(key, seg))[i] = KeyBytes(key)[i]
           /\ KeyBytes(Append(key, seg))[Len(KeyBytes(key)) + 1] = Len(seg.data)
           /\ KeyBytes(Append(key, seg))[Len(KeyBytes(key)) + 2] = seg.type
           /\ \A i \in 1..Len(seg.data) :
                 KeyBytes(Append(key, seg))[Len(KeyBytes(key)) + 2 + i] = seg.data[i]
<1>1. PICK a \in Seq(Nat) : a = KeyBytes(key)
  BY KeyBytesType
<1>2. PICK b \in Seq(Nat) : b = SegmentBytes(seg)
  BY SegmentBytesAre
<1>3. PICK m \in Nat : m = Len(a)
  OBVIOUS
<1>4. PICK n \in Nat : n = Len(seg.data)
  BY DEF Segment
<1>5. Len(b) = n + 2 /\ b[1] = n /\ b[2] = seg.type /\ \A i \in 1..n : b[i + 2] = seg.data[i]
  BY <1>2, <1>4, SegmentBytesAre
<1>6. KeyBytes(Append(key, seg)) = a \o b
  BY <1>1, <1>2, KeyBytesAppend
<1>7. /\ a \o b \in Seq(Nat) /\ Len(a \o b) = m + (n + 2)
      /\ \A i \in 1..(m + (n + 2)) : (a \o b)[i] = IF i <= m THEN a[i] ELSE b[i - m]
  <2>1. /\ a \o b \in Seq(Nat) /\ Len(a \o b) = Len(a) + Len(b)
        /\ \A i \in 1..(Len(a) + Len(b)) : (a \o b)[i] = IF i <= Len(a) THEN a[i] ELSE b[i - Len(a)]
    BY ConcatProperties
  <2>. QED
    BY <1>3, <1>5, <2>1
<1>8. \A i \in 1..m : (a \o b)[i] = a[i]
  <2>1. \A i \in 1..m : i \in 1..(m + (n + 2)) /\ i <= m
    OBVIOUS
  <2>. QED
    BY <1>7, <2>1
<1>9. (a \o b)[m + 1] = n /\ (a \o b)[m + 2] = seg.type
  <2>1. /\ m + 1 \in 1..(m + (n + 2)) /\ ~ (m + 1 <= m) /\ (m + 1) - m = 1
        /\ m + 2 \in 1..(m + (n + 2)) /\ ~ (m + 2 <= m) /\ (m + 2) - m = 2
    OBVIOUS
  <2>. QED
    BY <1>5, <1>7, <2>1
<1>10. \A i \in 1..n : (a \o b)[m + 2 + i] = seg.data[i]
  <2>1. \A i \in 1..n : /\ m + 2 + i \in 1..(m + (n + 2)) /\ ~ (m + 2 + i <= m)
                        /\ (m + 2 + i) - m = i + 2
    OBVIOUS
  <2>. QED
    BY <1>5, <1>7, <2>1
<1>11. m + (n + 2) = m + n + 2
  OBVIOUS
<1>. QED
  BY <1>1, <1>3, <1>4, <1>6, <1>7, <1>8, <1>9, <1>10, <1>11

-----------------------------------------------------------------------------
(* A key lies under a prefix if its bytes begin with those of the prefix.    *)

Begins(s, t) == Len(s) <= Len(t) /\ \A i \in 1..Len(s) : s[i] = t[i]

LEMMA PrefixBegins ==
    ASSUME NEW S, NEW s \in Seq(S), NEW t \in Seq(S)
    PROVE  IsPrefix(s, t) <=> Begins(s, t)
<1>1. CASE Len(s) <= Len(t)
  <2>1. SubSeq(s, 1, Len(s)) = s
    BY SubSeqFull
  <2>2. PICK n \in Nat : n = Len(s)
    OBVIOUS
  <2>3. /\ SubSeq(t, 1, n) \in Seq(S) /\ Len(SubSeq(t, 1, n)) = n
        /\ \A i \in 1..n : SubSeq(t, 1, n)[i] = t[i]
    <3>1. n \in 0..Len(t)
      BY <1>1, <2>2
    <3>2. \A i \in 1..n : t[i] \in S
      BY <3>1
    <3>3. /\ SubSeq(t, 1, n) \in Seq(S)
          /\ Len(SubSeq(t, 1, n)) = IF 1 <= n THEN n - 1 + 1 ELSE 0
          /\ \A i \in 1..(n - 1 + 1) : SubSeq(t, 1, n)[i] = t[1 + i - 1]
      BY <3>2, SubSeqProperties
    <3>4. (IF 1 <= n THEN n - 1 + 1 ELSE 0) = n /\ n - 1 + 1 = n /\ \A i \in 1..n : 1 + i - 1 = i
      OBVIOUS
    <3>. QED
      BY <3>3, <3>4
  <2>4. SubSeq(t, 1, n) = s <=> \A i \in 1..n : s[i] = t[i]
    <3>1. PICK r \in Seq(S) : r = SubSeq(t, 1, n) /\ Len(r) = n /\ \A i \in 1..n : r[i] = t[i]
      BY <2>3
    <3>2. r = s <=> \A i \in 1..n : r[i] = s[i]
      BY <2>2, <3>1
    <3>. QED
      BY <3>1, <3>2
  <2>. QED
    BY <1>1, <2>1, <2>2, <2>4 DEF IsPrefix, Begins
<1>. QED
  BY <1>1 DEF IsPrefix, Begins

LEMMA KeyAppendIs ==
    ASSUME NEW q \in Key, NEW s \in Segment
    PROVE  /\ Append(q, s) \in Key /\ Len(Append(q, s)) = Len(q) + 1
           /\ \A i \in 1..Len(q) : Append(q, s)[i] = q[i]
           /\ Append(q, s)[Len(q) + 1] = s
BY DEF Key

LEMMA BytesOfPrefix ==
    \A p, k \in Key : Begins(p, k) => Begins(KeyBytes(p), KeyBytes(k))
<1> DEFINE T == {n \in Nat : \A p, k \in Key :
                     Len(k) = n /\ Begins(p, k) => Begins(KeyBytes(p), KeyBytes(k))}
<1>1. ASSUME NEW p \in Key, NEW k \in Key, Begins(p, k), Len(p) = Len(k)
      PROVE  p = k
  BY <1>1 DEF Key, Begins
<1>2. ASSUME NEW k \in Key
      PROVE  Begins(KeyBytes(k), KeyBytes(k))
  <2>1. Len(KeyBytes(k)) \in Nat
    BY KeyBytesType
  <2>. QED
    BY <2>1 DEF Begins
<1>3. 0 \in T
  <2>1. ASSUME NEW p \in Key, NEW k \in Key, Len(k) = 0, Begins(p, k)
        PROVE  Begins(KeyBytes(p), KeyBytes(k))
    <3>1. Len(p) = Len(k)
      BY <2>1, KeyIsSegments DEF Begins
    <3>. QED
      BY <1>1, <1>2, <2>1, <3>1
  <2>. QED
    BY <2>1
<1>4. ASSUME NEW n \in Nat, n \in T
      PROVE  n + 1 \in T
  <2>1. ASSUME NEW p \in Key, NEW k \in Key, Len(k) = n + 1, Begins(p, k)
        PROVE  Begins(KeyBytes(p), KeyBytes(k))
    <3>1. CASE Len(p) = Len(k)
      BY <1>1, <1>2, <2>1, <3>1
    <3>2. CASE Len(p) # Len(k)
      <4>1. PICK q \in Key, s \in Segment : k = Append(q, s) /\ Len(q) = n
        BY <2>1, KeySplit
      <4>2. Len(p) <= n /\ Len(p) \in Nat
        BY <2>1, <3>2, KeyIsSegments DEF Begins
      <4>3. Begins(p, q)
        <5>1. \A i \in 1..Len(p) : i \in 1..n
          BY <4>2
        <5>2. \A i \in 1..n : k[i] = q[i]
          BY <4>1, KeyAppendIs
        <5>. QED
          BY <2>1, <4>1, <4>2, <5>1, <5>2 DEF Begins
      <4>4. Begins(KeyBytes(p), KeyBytes(q))
        BY <1>4, <4>1, <4>3
      <4>5. PICK a, b, c \in Seq(Nat) : a = KeyBytes(p) /\ b = KeyBytes(q) /\ c = KeyBytes(k)
        BY KeyBytesType
      <4>6. Begins(b, c)
        <5>1. Len(c) = Len(b) + Len(s.data) + 2 /\ \A i \in 1..Len(b) : c[i] = b[i]
          BY <4>1, <4>5, KeyBytesAre
        <5>2. Len(s.data) \in Nat /\ Len(b) \in Nat
          BY DEF Segment
        <5>. QED
          BY <5>1, <5>2 DEF Begins
      <4>7. Begins(a, c)
        <5>1. /\ Len(a) <= Len(b) /\ Len(b) <= Len(c)
              /\ \A i \in 1..Len(a) : a[i] = b[i]
              /\ \A i \in 1..Len(b) : b[i] = c[i]
          BY <4>4, <4>5, <4>6 DEF Begins
        <5>2. Len(a) <= Len(c) /\ \A i \in 1..Len(a) : i \in 1..Len(b)
          BY <5>1
        <5>. QED
          BY <5>1, <5>2 DEF Begins
      <4>. QED
        BY <4>5, <4>7
    <3>. QED
      BY <3>1, <3>2
  <2>. QED
    BY <2>1
<1>. HIDE DEF T
<1>5. \A k \in Key : Len(k) \in T
  BY <1>3, <1>4, AllNumbers, KeyIsSegments
<1>. QED
  BY <1>5 DEF T

\* The encoding can be read back: every segment starts with its length.
LEMMA PrefixOfBytes ==
    \A p, k \in Key : Begins(KeyBytes(p), KeyBytes(k)) => Begins(p, k)
<1> DEFINE T == {n \in Nat : \A p, k \in Key :
                     Len(p) = n /\ Begins(KeyBytes(p), KeyBytes(k)) => Begins(p, k)}
<1>1. 0 \in T
  <2>1. ASSUME NEW p \in Key, NEW k \in Key, Len(p) = 0
        PROVE  Begins(p, k)
    BY <2>1, KeyIsSegments DEF Begins
  <2>. QED
    BY <2>1
<1>2. ASSUME NEW n \in Nat, n \in T
      PROVE  n + 1 \in T
  <2>1. ASSUME NEW p \in Key, NEW k \in Key, Len(p) = n + 1, Begins(KeyBytes(p), KeyBytes(k))
        PROVE  Begins(p, k)
    <3>1. PICK q \in Key, s \in Segment : p = Append(q, s) /\ Len(q) = n
      BY <2>1, KeySplit
    <3>2. PICK a, b, c \in Seq(Nat) : a = KeyBytes(q) /\ b = KeyBytes(p) /\ c = KeyBytes(k)
      BY KeyBytesType
    <3>3. PICK m \in Nat, d \in Nat : m = Len(a) /\ d = Len(s.data)
      BY DEF Segment
    <3>4. /\ Len(b) = m + d + 2 /\ \A i \in 1..m : b[i] = a[i]
          /\ b[m + 1] = d /\ b[m + 2] = s.type
          /\ \A i \in 1..d : b[m + 2 + i] = s.data[i]
      BY <3>1, <3>2, <3>3, KeyBytesAre
    <3>5. Len(b) <= Len(c) /\ \A i \in 1..Len(b) : b[i] = c[i]
      BY <2>1, <3>2 DEF Begins
    <3>6. Begins(a, c)
      <4>1. m <= Len(c) /\ \A i \in 1..m : i \in 1..Len(b)
        BY <3>4, <3>5
      <4>. QED
        BY <3>3, <3>4, <3>5, <4>1 DEF Begins
    <3>7. Begins(q, k)
      BY <1>2, <3>1, <3>2, <3>6
    <3>8. Len(k) \in Nat /\ n <= Len(k) /\ \A i \in 1..n : q[i] = k[i]
      BY <3>1, <3>7, KeyIsSegments DEF Begins
    <3>9. CASE Len(k) = n
      <4>1. k = q
        BY <3>1, <3>8, <3>9 DEF Key
      <4>2. Len(c) = m
        BY <3>2, <3>3, <4>1
      <4>. QED
        BY <3>4, <3>5, <4>2
    <3>10. CASE n + 1 <= Len(k)
      <4>1. PICK t \in Segment : t = k[n + 1]
        BY <3>10, KeyIsSegments
      <4>2. Append(q, t) \in Key /\ Begins(Append(q, t), k)
        <5>1. /\ Append(q, t) \in Key /\ Len(Append(q, t)) = n + 1
              /\ \A i \in 1..n : Append(q, t)[i] = q[i]
              /\ Append(q, t)[n + 1] = t
          BY <3>1, KeyAppendIs
        <5>2. \A i \in 1..(n + 1) : i \in 1..n \/ i = n + 1
          OBVIOUS
        <5>. QED
          BY <3>8, <3>10, <4>1, <5>1, <5>2 DEF Begins
      <4>3. PICK e \in Seq(Nat) : e = KeyBytes(Append(q, t))
        BY <4>2, KeyBytesType
      <4>4. Begins(e, c)
        BY <3>2, <4>2, <4>3, BytesOfPrefix
      <4>5. PICK f \in Nat : f = Len(t.data)
        BY DEF Segment
      <4>6. /\ Len(e) = m + f + 2
            /\ e[m + 1] = f /\ e[m + 2] = t.type
            /\ \A i \in 1..f : e[m + 2 + i] = t.data[i]
        BY <3>2, <3>3, <4>3, <4>5, KeyBytesAre
      <4>7. Len(e) <= Len(c) /\ \A i \in 1..Len(e) : e[i] = c[i]
        BY <4>4 DEF Begins
      <4>8. d = f /\ s.type = t.type
        <5>1. m + 1 \in 1..Len(b) /\ m + 2 \in 1..Len(b) /\ m + 1 \in 1..Len(e) /\ m + 2 \in 1..Len(e)
          <6>1. Len(b) = m + d + 2 /\ Len(e) = m + f + 2
            BY <3>4, <4>6
          <6>2. /\ m + 1 \in 1..(m + d + 2) /\ m + 2 \in 1..(m + d + 2)
                /\ m + 1 \in 1..(m + f + 2) /\ m + 2 \in 1..(m + f + 2)
            OBVIOUS
          <6>. QED
            BY <6>1, <6>2
        <5>. QED
          BY <3>4, <3>5, <4>6, <4>7, <5>1
      <4>9. \A i \in 1..d : s.data[i] = t.data[i]
        <5>1. \A i \in 1..d : m + 2 + i \in 1..Len(b) /\ m + 2 + i \in 1..Len(e)
          <6>1. Len(b) = m + d + 2 /\ Len(e) = m + d + 2
            BY <3>4, <4>6, <4>8
          <6>2. \A i \in 1..d : m + 2 + i \in 1..(m + d + 2)
            OBVIOUS
          <6>. QED
            BY <6>1, <6>2
        <5>. QED
          BY <3>4, <3>5, <4>6, <4>7, <4>8, <5>1
      <4>10. s = t
        <5>1. PICK x, y \in Seq(Byte) : x = s.data /\ y = t.data
          BY DEF Segment
        <5>2. Len(x) = d /\ Len(y) = d /\ \A i \in 1..d : x[i] = y[i]
          BY <3>3, <4>5, <4>8, <4>9, <5>1
        <5>3. x = y
          BY <5>2
        <5>4. s = [type |-> s.type, data |-> s.data] /\ t = [type |-> t.type, data |-> t.data]
          BY DEF Segment
        <5>. QED
          BY <4>8, <5>1, <5>3, <5>4
      <4>. QED
        BY <3>1, <4>2, <4>10
    <3>. QED
      BY <3>8, <3>9, <3>10
  <2>. QED
    BY <2>1
<1>. HIDE DEF T
<1>3. \A k \in Key : Len(k) \in T
  BY <1>1, <1>2, AllNumbers, KeyIsSegments
<1>. QED
  BY <1>3 DEF T

\* What holds of the length, the type and the data of every segment holds of
\* every byte.
LEMMA BytesWithin ==
    ASSUME NEW B, NEW key \in Key,
           \A i \in DOMAIN key : /\ Len(key[i].data) \in B /\ key[i].type \in B
                                 /\ \A j \in DOMAIN key[i].data : key[i].data[j] \in B
    PROVE  \A i \in 1..Len(KeyBytes(key)) : KeyBytes(key)[i] \in B
<1> DEFINE Within(s) == /\ Len(s.data) \in B /\ s.type \in B
                        /\ \A j \in DOMAIN s.data : s.data[j] \in B
           T == {n \in Nat : \A k \in Key :
                     Len(k) = n /\ (\A i \in 1..n : Within(k[i]))
                        => \A i \in 1..Len(KeyBytes(k)) : KeyBytes(k)[i] \in B}
<1>1. 0 \in T
  <2>1. \A k \in Key : Len(k) = 0 => k = <<>>
    BY DEF Key
  <2>2. \A i \in 1..Len(KeyBytes(<<>>)) : KeyBytes(<<>>)[i] \in B
    BY NoKeyBytes
  <2>. QED
    BY <2>1, <2>2
<1>2. ASSUME NEW n \in Nat, n \in T
      PROVE  n + 1 \in T
  <2>1. ASSUME NEW k \in Key, Len(k) = n + 1, \A i \in 1..(n + 1) : Within(k[i])
        PROVE  \A i \in 1..Len(KeyBytes(k)) : KeyBytes(k)[i] \in B
    <3>. HIDE DEF Within
    <3>1. PICK q \in Key, s \in Segment : k = Append(q, s) /\ Len(q) = n
      BY <2>1, KeySplit
    <3>2. /\ \A i \in 1..n : q[i] = k[i]
          /\ k[n + 1] = s
      BY <3>1, KeyAppendIs
    <3>3. Within(s) /\ \A i \in 1..n : Within(q[i])
      <4>1. n + 1 \in 1..(n + 1) /\ \A i \in 1..n : i \in 1..(n + 1)
        OBVIOUS
      <4>. QED
        BY <2>1, <3>2, <4>1
    <3>4. PICK a, b \in Seq(Nat) : a = KeyBytes(q) /\ b = KeyBytes(k)
      BY KeyBytesType
    <3>5. \A i \in 1..Len(a) : a[i] \in B
      BY <1>2, <3>1, <3>3, <3>4
    <3>6. PICK m \in Nat, d \in Nat : m = Len(a) /\ d = Len(s.data)
      BY DEF Segment
    <3>7. /\ Len(b) = m + d + 2 /\ \A i \in 1..m : b[i] = a[i]
          /\ b[m + 1] = d /\ b[m + 2] = s.type
          /\ \A i \in 1..d : b[m + 2 + i] = s.data[i]
      BY <3>1, <3>4, <3>6, KeyBytesAre
    <3>8. d \in B /\ s.type \in B /\ \A i \in 1..d : s.data[i] \in B
      <4>1. DOMAIN s.data = 1..d
        BY <3>6 DEF Segment
      <4>. QED
        BY <3>3, <3>6, <4>1 DEF Within
    <3>9. ASSUME NEW i \in 1..Len(b)
          PROVE  b[i] \in B
      <4>1. CASE i \in 1..m
        BY <3>5, <3>6, <3>7, <4>1
      <4>2. CASE i = m + 1 \/ i = m + 2
        BY <3>7, <3>8, <4>2
      <4>3. CASE m + 3 <= i
        <5>1. i - (m + 2) \in 1..d /\ m + 2 + (i - (m + 2)) = i
          BY <3>7, <4>3
        <5>. QED
          BY <3>7, <3>8, <5>1
      <4>. QED
        BY <3>7, <4>1, <4>2, <4>3
    <3>. QED
      BY <3>4, <3>9
  <2>. QED
    BY <2>1
<1>. HIDE DEF T
<1>3. Len(key) \in T
  BY <1>1, <1>2, AllNumbers, KeyIsSegments
<1>. QED
  BY <1>3, KeyIsSegments DEF T

\* A segment without a NUL byte in its encoding.
NoNul(seg) == seg.type # 0 /\ seg.data # <<>> /\ \A i \in DOMAIN seg.data : seg.data[i] # 0

LEMMA NoNulBytes ==
    ASSUME NEW key \in Key, \A i \in DOMAIN key : NoNul(key[i])
    PROVE  \A i \in 1..Len(KeyBytes(key)) : KeyBytes(key)[i] # 0
<1>1. ASSUME NEW s \in Segment, NoNul(s)
      PROVE  /\ Len(s.data) \in Nat \ {0} /\ s.type \in Nat \ {0}
             /\ \A j \in DOMAIN s.data : s.data[j] \in Nat \ {0}
  <2>1. s.data \in Seq(Byte) /\ s.type \in Byte
    BY DEF Segment
  <2>2. s.type \in Nat
    <3>1. \A x \in Byte : x \in Nat
      BY DEF Byte
    <3>. QED
      BY <2>1, <3>1
  <2>3. Len(s.data) \in Nat \ {0}
    BY <1>1, <2>1 DEF NoNul
  <2>. QED
    BY <1>1, <2>1, <2>2, <2>3, BytesAreNumbers DEF NoNul
<1>2. \A i \in 1..Len(KeyBytes(key)) : KeyBytes(key)[i] \in Nat \ {0}
  BY <1>1, BytesWithin, KeyIsSegments
<1>. QED
  BY <1>2

\* The length fits in one byte, so a key is a sequence of bytes.
LEMMA KeyIsBytes ==
    ASSUME NEW key \in Key, \A i \in DOMAIN key : Len(key[i].data) <= 127
    PROVE  KeyBytes(key) \in Seq(Byte)
<1>1. ASSUME NEW s \in Segment, Len(s.data) <= 127
      PROVE  /\ Len(s.data) \in Byte /\ s.type \in Byte
             /\ \A j \in DOMAIN s.data : s.data[j] \in Byte
  <2>1. s.data \in Seq(Byte) /\ s.type \in Byte
    BY DEF Segment
  <2>2. Len(s.data) \in Byte
    <3>1. Len(s.data) \in Nat
      BY <2>1
    <3>2. \A x \in Nat : x <= 127 => x \in Byte
      BY DEF Byte
    <3>. QED
      BY <1>1, <3>1, <3>2
  <2>. QED
    BY <2>1, <2>2
<1>2. \A i \in 1..Len(KeyBytes(key)) : KeyBytes(key)[i] \in Byte
  BY <1>1, BytesWithin, KeyIsSegments
<1>. QED
  BY <1>2, KeyBytesType

\* The test by which order, next, data and _dump tell what lies under a node is
\* right for every key, if no name of the node holds a NUL and none is empty.
THEOREM MatchesIsPrefix ==
    ASSUME NEW prefix \in Key, NEW key \in Key, \A i \in DOMAIN prefix : NoNul(prefix[i])
    PROVE  Matches(prefix, key) <=> IsPrefix(prefix, key)
<1>1. PICK p, k \in Seq(Nat) : p = KeyBytes(prefix) /\ k = KeyBytes(key)
  BY KeyBytesType
<1>2. {i \in DOMAIN p : p[i] = 0} = {}
  BY <1>1, NoNulBytes
<1>3. Matches(prefix, key) <=> Begins(p, k)
  BY <1>1, <1>2 DEF Matches, Begins
<1>4. Begins(p, k) <=> Begins(prefix, key)
  BY <1>1, BytesOfPrefix, PrefixOfBytes
<1>5. IsPrefix(prefix, key) <=> Begins(prefix, key)
  BY PrefixBegins DEF Key
<1>. QED
  BY <1>3, <1>4, <1>5

-----------------------------------------------------------------------------
(* Traversal (LuaDbOrder).                                                   *)

\* ComputeNextLexicalValue, of the last segment.
NextName(seg) ==
    IF seg.data = <<>> THEN [seg EXCEPT !.type = (@ + 1) % 256]
    ELSE [seg EXCEPT !.data[Len(seg.data)] = (@ + 1) % 256]

-----------------------------------------------------------------------------
(* The operations on keys.                                                   *)

LEMMA KeyTypes ==
    ASSUME NEW k \in Keys
    PROVE  /\ k \in Key /\ \A i \in DOMAIN k : Len(k[i].data) <= 127
           /\ \A i \in DOMAIN k : k[i].type \in {BooleanType, IntegerType, NumericType, StringType}
BY KeysAssumption

LEMMA NilIsSegment == NilSegment \in Segment
<1>1. <<0>> \in Seq(Byte) /\ EmptyType \in Byte
  BY DEF Byte, EmptyType
<1>. QED
  BY <1>1 DEF NilSegment, Segment

LEMMA NextNameType ==
    ASSUME NEW s \in Segment
    PROVE  NextName(s) \in Segment
<1>1. s.data \in Seq(Byte) /\ s.type \in Byte
  BY DEF Segment
<1>2. \A x \in Byte : (x + 1) % 256 \in Byte
  BY DEF Byte
<1>3. CASE s.data = <<>>
  BY <1>1, <1>2, <1>3 DEF NextName, Segment
<1>4. CASE s.data # <<>>
  <2>1. PICK m \in Nat : m = Len(s.data) /\ m \in 1..Len(s.data)
    BY <1>1, <1>4
  <2>2. s.data[m] \in Byte
    BY <1>1, <2>1
  <2> DEFINE d == [s.data EXCEPT ![m] = (@ + 1) % 256]
  <2>3. d \in Seq(Byte)
    BY <1>1, <1>2, <2>1, <2>2
  <2>4. NextName(s) = [s EXCEPT !.data = d]
    BY <1>4, <2>1 DEF NextName
  <2>. HIDE DEF d
  <2>. QED
    BY <2>3, <2>4 DEF Segment
<1>. QED
  BY <1>3, <1>4

LEMMA NextValueIs ==
    ASSUME NEW q \in Key, NEW s \in Segment
    PROVE  ComputeNextLexicalValue(Append(q, s)) = Append(q, NextName(s))
<1>1. PICK a : a = Append(q, s)
  OBVIOUS
<1>2. PICK n \in Nat : n = Len(q) + 1
  BY KeyIsSegments
<1>3. /\ a \in Key /\ Len(a) = n /\ a[n] = s /\ \A i \in 1..Len(q) : a[i] = q[i]
  BY <1>1, <1>2, KeyAppendIs
<1>4. ComputeNextLexicalValue(a) = [a EXCEPT ![n] = NextName(s)]
  <2>1. CASE s.data = <<>>
    <3>1. Len(s.data) = 0
      BY <2>1
    <3>. QED
      BY <1>3, <2>1, <3>1 DEF ComputeNextLexicalValue, NextName
  <2>2. CASE s.data # <<>>
    <3>1. Len(s.data) # 0
      BY <2>2 DEF Segment
    <3>. QED
      BY <1>3, <2>2, <3>1 DEF ComputeNextLexicalValue, NextName
  <2>. QED
    BY <2>1, <2>2
<1>5. [a EXCEPT ![n] = NextName(s)] = Append(q, NextName(s))
  <2>1. PICK t \in Segment : t = NextName(s)
    BY NextNameType
  <2>2. PICK b : b = Append(q, t)
    OBVIOUS
  <2>3. b \in Key /\ Len(b) = n /\ b[n] = t /\ \A i \in 1..Len(q) : b[i] = q[i]
    BY <1>2, <2>2, KeyAppendIs
  <2>4. PICK c : c = [a EXCEPT ![n] = t]
    OBVIOUS
  <2>5. c \in Key /\ Len(c) = n /\ c[n] = t /\ \A i \in 1..Len(q) : c[i] = q[i]
    BY <1>2, <1>3, <2>4 DEF Key
  <2>6. b = c
    <3>1. \A i \in 1..n : i \in 1..Len(q) \/ i = n
      BY <1>2, KeyIsSegments
    <3>2. \A i \in 1..n : b[i] = c[i]
      BY <2>3, <2>5, <3>1
    <3>. QED
      BY <2>3, <2>5, <3>2 DEF Key
  <2>. QED
    BY <2>1, <2>2, <2>4, <2>6
<1>. QED
  BY <1>1, <1>4, <1>5

LEMMA PrefixOfAppend ==
    ASSUME NEW q \in Key, NEW s \in Segment
    PROVE  GetKeyPrefix(Append(q, s)) = q
<1>1. Append(q, s) # <<>> /\ Front(Append(q, s)) = q
  BY DEF Key, Front
<1>. QED
  BY <1>1 DEF GetKeyPrefix

\* Every key but the empty one is its prefix and its last segment.
LEMMA KeyEnds ==
    ASSUME NEW key \in Key, key # <<>>
    PROVE  /\ GetKeyPrefix(key) \in Key
           /\ \E s \in Segment : key = Append(GetKeyPrefix(key), s)
<1>1. PICK n \in Nat : Len(key) = n + 1
  BY DEF Key
<1>2. PICK q \in Key, s \in Segment : key = Append(q, s)
  BY <1>1, KeySplit
<1>. QED
  BY <1>2, PrefixOfAppend

\* The arguments of order and next, and what becomes of them.
LEMMA ArgsAre ==
    ASSUME NEW a \in Args
    PROVE  /\ a \in Key
           /\ \/ a = <<>>
              \/ \E q \in Key, s \in Segment :
                    /\ a = Append(q, s) /\ GetKeyPrefix(a) = q
                    /\ Searched(a) = Append(q, NextName(s))
<1>1. a \in Key
  <2>1. <<>> \in Key
    BY DEF Key
  <2>2. \A k \in Keys : k \in Key
    BY KeyTypes
  <2>3. \A k \in Keys : Append(k, NilSegment) \in Key
    BY <2>2, NilIsSegment, KeyAppendIs
  <2>. QED
    BY <2>1, <2>2, <2>3 DEF Args, NilLast
<1>2. CASE a # <<>>
  <2>1. PICK s \in Segment : a = Append(GetKeyPrefix(a), s) /\ GetKeyPrefix(a) \in Key
    BY <1>1, <1>2, KeyEnds
  <2>2. Searched(a) = Append(GetKeyPrefix(a), NextName(s))
    BY <1>2, <2>1, NextValueIs DEF Searched
  <2>. QED
    BY <1>1, <2>1, <2>2
<1>. QED
  BY <1>1, <1>2

\* Where a key first differs from a prefix.
LEMMA DifferentNodeIs ==
    ASSUME NEW p \in Key, NEW k \in Key, FindFirstDifferentKeyNode(p, k) # 0
    PROVE  /\ FindFirstDifferentKeyNode(p, k) \in DOMAIN k
           /\ IsPrefix(p, k) => FindFirstDifferentKeyNode(p, k) = Len(p) + 1
<1> DEFINE new == {i \in DOMAIN k : i \notin DOMAIN p \/ p[i] # k[i]}
<1>1. new # {} /\ FindFirstDifferentKeyNode(p, k) = Min(new)
  BY DEF FindFirstDifferentKeyNode
<1>2. new \in SUBSET Nat
  BY KeyIsSegments
<1>3. Min(new) \in new /\ \A y \in new : Min(new) <= y
  BY <1>1, <1>2, MinIsLeast
<1>4. ASSUME IsPrefix(p, k)
      PROVE  Min(new) = Len(p) + 1
  <2>1. /\ Len(p) \in Nat /\ Len(k) \in Nat /\ Len(p) <= Len(k)
        /\ DOMAIN p = 1..Len(p) /\ DOMAIN k = 1..Len(k)
        /\ \A i \in 1..Len(p) : p[i] = k[i]
    BY <1>4, KeyIsSegments, PrefixBegins DEF Begins, Key
  <2>2. new = (Len(p) + 1)..Len(k)
    BY <2>1
  <2>3. PICK x : x = Min(new)
    OBVIOUS
  <2>4. x \in (Len(p) + 1)..Len(k)
    BY <1>3, <2>2, <2>3
  <2>5. Len(p) + 1 \in (Len(p) + 1)..Len(k)
    BY <2>1, <2>4
  <2>6. x <= Len(p) + 1
    BY <1>3, <2>2, <2>3, <2>5
  <2>. QED
    BY <2>1, <2>3, <2>4, <2>6
<1>. QED
  BY <1>1, <1>3, <1>4

-----------------------------------------------------------------------------
(* The types of the variables.                                               *)

LEMMA ScannedIsBytes ==
    ASSUME NEW b \in Seq(Byte), NEW pointed
    PROVE  Scanned(b, pointed) \in Seq(Byte)
<1> DEFINE inNumber(j) == \/ b[j] \in 48..57
                          \/ j = 1 /\ b[j] = 45
                          \/ /\ pointed /\ b[j] = 46
                             /\ \A i \in 1..(j - 1) : b[i] # 46
           stop == {j \in DOMAIN b : ~ inNumber(j)}
<1>1. Scanned(b, pointed) = IF stop = {} THEN b ELSE SubSeq(b, 1, Min(stop) - 1)
  BY DEF Scanned
<1>2. stop \in SUBSET Nat /\ \A j \in stop : j \in 1..Len(b)
  OBVIOUS
<1>. HIDE DEF stop
<1>3. CASE stop # {}
  <2>1. Min(stop) \in stop
    BY <1>2, <1>3, MinIsLeast
  <2>2. PICK m \in 1..Len(b) : m = Min(stop)
    BY <1>2, <2>1
  <2>3. SubSeq(b, 1, m - 1) \in Seq(Byte)
    <3>1. \A i \in 1..(m - 1) : i \in 1..Len(b) /\ b[i] \in Byte
      OBVIOUS
    <3>2. 1 \in Int /\ m - 1 \in Int
      OBVIOUS
    <3>. QED
      BY <3>1, <3>2, SubSeqProperties
  <2>. QED
    BY <1>1, <1>3, <2>2, <2>3
<1>. QED
  BY <1>1, <1>3

\* What a segment of a stored key is read back as is a segment.
LEMMA PushedIsSegment ==
    ASSUME NEW k \in Keys, NEW i \in DOMAIN k, NEW v \in Vals
    PROVE  PushValueByType(k, i, v) \in Segment
<1>1. /\ k \in Key /\ k[i] \in Segment /\ k[i].data \in Seq(Byte)
      /\ k[i].type \in {BooleanType, IntegerType, NumericType, StringType}
  BY KeyTypes, KeyIsSegments DEF Segment
<1>2. PICK after : after = SubSeq(k, i + 1, Len(k))
  OBVIOUS
<1>3. after \in Key /\ \A j \in DOMAIN after : Len(after[j].data) <= 127
  <2>1. /\ i + 1 \in Int /\ Len(k) \in Int
        /\ \A j \in (i + 1)..Len(k) : j \in DOMAIN k /\ k[j] \in Segment
    BY <1>1, KeyIsSegments
  <2>2. /\ after \in Seq(Segment)
        /\ Len(after) = IF i + 1 <= Len(k) THEN Len(k) - (i + 1) + 1 ELSE 0
        /\ \A j \in 1..(Len(k) - (i + 1) + 1) : after[j] = k[(i + 1) + j - 1]
    BY <1>2, <2>1, SubSeqProperties
  <2>3. ASSUME NEW j \in DOMAIN after
        PROVE  Len(after[j].data) <= 127
    <3>1. j \in 1..Len(after)
      BY <2>2
    <3>2. j \in 1..(Len(k) - (i + 1) + 1) /\ (i + 1) + j - 1 \in DOMAIN k
      BY <1>1, <2>1, <2>2, <3>1, KeyIsSegments
    <3>. QED
      BY <2>2, <3>2, KeyTypes
  <2>. QED
    BY <2>2, <2>3 DEF Key
<1>4. KeyBytes(after) \in Seq(Byte) /\ v \in Seq(Byte)
  BY <1>3, KeyIsBytes, KeysAssumption
<1> DEFINE rest == k[i].data \o KeyBytes(SubSeq(k, i + 1, Len(k))) \o v
           number == Scanned(rest, k[i].type = NumericType)
<1>5. rest \in Seq(Byte)
  <2>1. k[i].data \o KeyBytes(after) \in Seq(Byte)
    BY <1>1, <1>4, ConcatProperties
  <2>2. (k[i].data \o KeyBytes(after)) \o v \in Seq(Byte)
    BY <1>4, <2>1, ConcatProperties
  <2>. QED
    BY <1>2, <2>2
<1>6. number \in Seq(Byte)
  <2>. HIDE DEF rest
  <2>. QED
    BY <1>5, ScannedIsBytes
<1>7. PushValueByType(k, i, v) =
         CASE k[i].type = StringType -> k[i]
           [] k[i].type \in {IntegerType, NumericType} -> [k[i] EXCEPT !.data = number]
           [] k[i].type = BooleanType ->
                [k[i] EXCEPT !.data = IF ToSet(number) \subseteq {48} THEN <<48>> ELSE <<49>>]
  BY DEF PushValueByType
<1>. HIDE DEF number
<1>8. \A d \in Seq(Byte) : [k[i] EXCEPT !.data = d] \in Segment
  BY <1>1 DEF Segment
<1>9. <<48>> \in Seq(Byte) /\ <<49>> \in Seq(Byte)
  BY DEF Byte
<1>10. CASE k[i].type = StringType
  <2>1. k[i].type \notin {IntegerType, NumericType} /\ k[i].type # BooleanType
    BY <1>10 DEF IntegerType, NumericType, StringType, BooleanType
  <2>2. PushValueByType(k, i, v) = k[i]
    BY <1>7, <1>10, <2>1
  <2>. QED
    BY <1>1, <2>2
<1>11. CASE k[i].type \in {IntegerType, NumericType}
  <2>1. k[i].type # StringType /\ k[i].type # BooleanType
    BY <1>11 DEF IntegerType, NumericType, StringType, BooleanType
  <2>2. PushValueByType(k, i, v) = [k[i] EXCEPT !.data = number]
    BY <1>7, <1>11, <2>1
  <2>. QED
    BY <1>6, <1>8, <2>2
<1>12. CASE k[i].type = BooleanType
  <2>1. k[i].type # StringType /\ k[i].type \notin {IntegerType, NumericType}
    BY <1>12 DEF IntegerType, NumericType, StringType, BooleanType
  <2>2. PushValueByType(k, i, v) =
           [k[i] EXCEPT !.data = IF ToSet(number) \subseteq {48} THEN <<48>> ELSE <<49>>]
    BY <1>7, <1>12, <2>1
  <2>3. CASE ToSet(number) \subseteq {48}
    <3>1. PushValueByType(k, i, v) = [k[i] EXCEPT !.data = <<48>>]
      BY <2>2, <2>3
    <3>. QED
      BY <1>8, <1>9, <3>1
  <2>4. CASE ~(ToSet(number) \subseteq {48})
    <3>1. PushValueByType(k, i, v) = [k[i] EXCEPT !.data = <<49>>]
      BY <2>2, <2>4
    <3>. QED
      BY <1>8, <1>9, <3>1
  <2>. QED
    BY <2>3, <2>4
<1>. QED
  BY <1>1, <1>10, <1>11, <1>12

\* A key that order or next stops at, and what is pushed of it.
LEMMA FoundIs ==
    ASSUME TypeOK, NEW p \in Key, NEW key, NEW x \in Found(p, key)
    PROVE  /\ x \in Keys /\ x \in DOMAIN db
           /\ FindFirstDifferentKeyNode(p, x) \in DOMAIN x
           /\ Pushed(p, x) \in Segment
<1>1. x \in DOMAIN db /\ FindFirstDifferentKeyNode(p, x) # 0
  BY DEF Found, AtOrAfter
<1>2. x \in Keys /\ x \in Key /\ db[x] \in Vals
  BY <1>1, KeyTypes DEF TypeOK
<1>3. FindFirstDifferentKeyNode(p, x) \in DOMAIN x
  BY <1>1, <1>2, DifferentNodeIs
<1>. QED
  BY <1>1, <1>2, <1>3, PushedIsSegment DEF Pushed

\* TypeOK is inductive with the shape of what the iterator holds: nothing is
\* looked for under the root, or a child under its node.
IterInv ==
    cur # End =>
        \/ cur.prefix = <<>> /\ cur.last = <<>>
        \/ \E s \in Segment : cur.last = Append(cur.prefix, s)

TypeInv == TypeOK /\ IterInv /\ IsFiniteSet(DOMAIN db)

LEMMA TypeInit == Init => TypeInv
<1> SUFFICES ASSUME Init PROVE TypeInv
  OBVIOUS
<1>1. DOMAIN db = {} /\ cur = End /\ got = End
  BY DEF Init
<1>. QED
  BY <1>1, FS_EmptySet DEF TypeInv, TypeOK, IterInv

LEMMA PutKeeps ==
    ASSUME TypeInv, NEW k \in Keys, NEW v \in Vals, LmdbTx_Put(k, v)
    PROVE  TypeInv'
<1>1. cur' = cur /\ got' = got
  BY DEF LmdbTx_Put
<1>2. CASE Stored(k) = {}
  <2>1. db' = [x \in DOMAIN db \cup {k} |-> IF x = k THEN v ELSE db[x]]
    BY <1>2 DEF LmdbTx_Put
  <2>2. DOMAIN db' = DOMAIN db \cup {k} /\ \A x \in DOMAIN db' : db'[x] \in Vals
    BY <2>1 DEF TypeInv, TypeOK
  <2>3. IsFiniteSet(DOMAIN db')
    BY <2>2, FS_AddElement DEF TypeInv
  <2>. QED
    BY <1>1, <2>2, <2>3 DEF TypeInv, TypeOK, IterInv
<1>3. CASE Stored(k) # {}
  <2>1. db' = [x \in DOMAIN db |-> IF x \in Stored(k) THEN v ELSE db[x]]
    BY <1>3 DEF LmdbTx_Put
  <2>2. DOMAIN db' = DOMAIN db /\ \A x \in DOMAIN db' : db'[x] \in Vals
    BY <2>1 DEF TypeInv, TypeOK
  <2>. QED
    BY <1>1, <2>2 DEF TypeInv, TypeOK, IterInv
<1>. QED
  BY <1>2, <1>3

LEMMA DeleteKeeps ==
    ASSUME TypeInv, NEW k \in Keys, LmdbTx_Delete(k)
    PROVE  TypeInv'
<1>1. cur' = cur /\ got' = got /\ db' = [x \in DOMAIN db \ Stored(k) |-> db[x]]
  BY DEF LmdbTx_Delete
<1>2. DOMAIN db' = DOMAIN db \ Stored(k) /\ \A x \in DOMAIN db' : db'[x] \in Vals
  BY <1>1 DEF TypeInv, TypeOK
<1>3. IsFiniteSet(DOMAIN db')
  BY <1>2, FS_Subset DEF TypeInv
<1>. QED
  BY <1>1, <1>2, <1>3 DEF TypeInv, TypeOK, IterInv

\* What order makes of its arguments.
LEMMA OrderStarts ==
    ASSUME NEW a \in Args
    PROVE  /\ GetKeyPrefix(a) \in Key /\ Searched(a) \in Key
           /\ \/ GetKeyPrefix(a) = <<>> /\ Searched(a) = <<>>
              \/ \E s \in Segment : Searched(a) = Append(GetKeyPrefix(a), s)
<1>1. CASE a = <<>>
  BY <1>1, ArgsAre DEF GetKeyPrefix, Searched
<1>2. ASSUME NEW q \in Key, NEW s \in Segment, GetKeyPrefix(a) = q,
             Searched(a) = Append(q, NextName(s))
      PROVE  /\ GetKeyPrefix(a) \in Key /\ Searched(a) \in Key
             /\ \E t \in Segment : Searched(a) = Append(GetKeyPrefix(a), t)
  BY <1>2, NextNameType, KeyAppendIs
<1>. QED
  BY <1>1, <1>2, ArgsAre

LEMMA OrderKeeps ==
    ASSUME TypeInv, NEW a \in Args, LmdbTx_Order(a)
    PROVE  TypeInv'
<1>1. cur' = [prefix |-> GetKeyPrefix(a), last |-> Searched(a)] /\ db' = db /\ got' = got
  BY DEF LmdbTx_Order
<1>2. cur'.prefix = GetKeyPrefix(a) /\ cur'.last = Searched(a)
  BY <1>1
<1>3. cur' \in [prefix : Key, last : Key]
  BY <1>1, OrderStarts
<1>4. IterInv'
  BY <1>2, OrderStarts DEF IterInv
<1>. QED
  BY <1>1, <1>3, <1>4 DEF TypeInv, TypeOK

LEMMA NextCallKeeps ==
    ASSUME TypeInv, NEW a \in Args, LmdbTx_Next(a)
    PROVE  TypeInv'
<1> DEFINE prefix == GetKeyPrefix(Searched(a))
<1>1. db' = db /\ cur' = cur
  BY DEF LmdbTx_Next
<1>2. prefix \in Key
  <2>1. CASE Searched(a) = <<>>
    BY <2>1 DEF GetKeyPrefix, Key
  <2>2. CASE Searched(a) # <<>>
    BY <2>2, OrderStarts, KeyEnds
  <2>. QED
    BY <2>1, <2>2
<1>3. got' = End \/ \E k \in Found(prefix, Searched(a)) : got' = Pushed(prefix, k)
  BY DEF LmdbTx_Next
<1>. HIDE DEF prefix
<1>4. got' = End \/ got' \in Segment
  BY <1>2, <1>3, FoundIs DEF TypeInv
<1>. QED
  BY <1>1, <1>4 DEF TypeInv, TypeOK, IterInv

\* The step of the iterator that returns a child: it goes on after the name
\* that was found.
LEMMA IteratorMoves ==
    ASSUME TypeInv, cur # End, NEW k \in Found(cur.prefix, cur.last),
           cur' = [cur EXCEPT !.last = ComputeNextLexicalValue(ReplaceLastKeySegment(
                        @, k[FindFirstDifferentKeyNode(cur.prefix, k)]))]
    PROVE  /\ cur.prefix \in Key /\ cur.last \in Key
           /\ k[FindFirstDifferentKeyNode(cur.prefix, k)] \in Segment
           /\ cur' \in [prefix : Key, last : Key]
           /\ cur'.prefix = cur.prefix
           /\ cur'.last = Append(cur.prefix, NextName(k[FindFirstDifferentKeyNode(cur.prefix, k)]))
<1>1. cur \in [prefix : Key, last : Key]
  BY DEF TypeInv, TypeOK
<1>2. PICK p, l \in Key : p = cur.prefix /\ l = cur.last
  BY <1>1
<1>3. PICK seg \in Segment : seg = k[FindFirstDifferentKeyNode(p, k)]
  BY <1>2, FoundIs, KeyTypes, KeyIsSegments DEF TypeInv
<1>4. GetKeyPrefix(l) = p
  <2>1. CASE p = <<>> /\ l = <<>>
    BY <2>1 DEF GetKeyPrefix
  <2>2. ASSUME NEW s \in Segment, l = Append(p, s)
        PROVE  GetKeyPrefix(l) = p
    BY <2>2, PrefixOfAppend
  <2>. QED
    BY <1>2, <2>1, <2>2 DEF TypeInv, IterInv
<1>5. ComputeNextLexicalValue(ReplaceLastKeySegment(l, seg)) = Append(p, NextName(seg))
  BY <1>4, NextValueIs DEF ReplaceLastKeySegment
<1>6. PICK m \in Key : m = Append(p, NextName(seg))
  BY NextNameType, KeyAppendIs
<1>7. cur' = [cur EXCEPT !.last = m]
  BY <1>2, <1>3, <1>5, <1>6
<1>8. cur' \in [prefix : Key, last : Key] /\ cur'.prefix = cur.prefix /\ cur'.last = m
  BY <1>1, <1>7
<1>. QED
  BY <1>2, <1>3, <1>6, <1>8

LEMMA ClosureKeeps ==
    ASSUME TypeInv, LuaDbOrderTxClosure
    PROVE  TypeInv'
<1>1. db' = db /\ cur # End
  BY DEF LuaDbOrderTxClosure
<1>2. CASE cur' = cur /\ got' = End
  BY <1>1, <1>2 DEF TypeInv, TypeOK, IterInv
<1>3. ASSUME NEW k \in Found(cur.prefix, cur.last), got' = Pushed(cur.prefix, k),
             cur' = [cur EXCEPT !.last = ComputeNextLexicalValue(ReplaceLastKeySegment(
                        @, k[FindFirstDifferentKeyNode(cur.prefix, k)]))]
      PROVE  TypeInv'
  <2>1. /\ cur.prefix \in Key
        /\ k[FindFirstDifferentKeyNode(cur.prefix, k)] \in Segment
        /\ cur' \in [prefix : Key, last : Key]
        /\ cur'.prefix = cur.prefix
        /\ cur'.last = Append(cur.prefix, NextName(k[FindFirstDifferentKeyNode(cur.prefix, k)]))
    BY <1>1, <1>3, IteratorMoves
  <2>2. got' \in Segment
    BY <1>3, <2>1, FoundIs DEF TypeInv
  <2>3. IterInv'
    BY <2>1, NextNameType DEF IterInv
  <2>. QED
    BY <1>1, <2>1, <2>2, <2>3 DEF TypeInv, TypeOK
<1>. QED
  BY <1>2, <1>3 DEF LuaDbOrderTxClosure

LEMMA TypeNext == TypeInv /\ [Next]_vars => TypeInv'
<1> SUFFICES ASSUME TypeInv, [Next]_vars
             PROVE  TypeInv'
  OBVIOUS
<1>1. ASSUME NEW k \in Keys, NEW v \in Vals, LmdbTx_Put(k, v)
      PROVE  TypeInv'
  BY <1>1, PutKeeps
<1>2. ASSUME NEW k \in Keys, LmdbTx_Delete(k)
      PROVE  TypeInv'
  BY <1>2, DeleteKeeps
<1>3. ASSUME NEW a \in Args, LmdbTx_Order(a)
      PROVE  TypeInv'
  BY <1>3, OrderKeeps
<1>4. ASSUME NEW a \in Args, LmdbTx_Next(a)
      PROVE  TypeInv'
  BY <1>4, NextCallKeeps
<1>5. CASE LuaDbOrderTxClosure
  BY <1>5, ClosureKeeps
<1>6. CASE UNCHANGED vars
  BY <1>6 DEF vars, TypeInv, TypeOK, IterInv
<1>. QED
  BY <1>1, <1>2, <1>3, <1>4, <1>5, <1>6 DEF Next

THEOREM TypeInvariant == Spec => []TypeInv
<1>. QED
  BY TypeInit, TypeNext, PTL DEF Spec

\* What order, next and the iterator return is one segment of one of the keys
\* of the script, whatever the keys and the values hold.
THEOREM TypeCorrect == Spec => []TypeOK
<1>1. TypeInv => TypeOK
  BY DEF TypeInv
<1>. QED
  BY <1>1, TypeInvariant, PTL

-----------------------------------------------------------------------------
(* Keys with plain names.                                                    *)

LEMMA PlainIsNoNul ==
    ASSUME PlainNames, NEW k \in Keys, NEW i \in DOMAIN k
    PROVE  NoNul(k[i]) /\ k[i] \in Segment
<1>1. k[i].type # 0
  BY KeyTypes DEF BooleanType, IntegerType, NumericType, StringType
<1>2. PlainName(k[i])
  BY DEF PlainNames
<1>3. \A x \in 1..254 : x # 0
  OBVIOUS
<1>4. k[i] \in Segment
  BY KeyTypes, KeyIsSegments
<1>. QED
  BY <1>1, <1>2, <1>3, <1>4 DEF PlainName, NoNul

\* The name made for the next search is after the name found.
LEMMA NextIsAfter ==
    ASSUME NEW s \in Segment, PlainName(s)
    PROVE  CompareSegments(NextName(s), s) > 0
<1>1. PICK d \in Seq(Byte) : d = s.data
  BY DEF Segment
<1>2. PICK m \in Nat : m = Len(d) /\ m \in 1..Len(d) /\ DOMAIN d = 1..m
  BY <1>1 DEF PlainName
<1>3. PICK e : e = [d EXCEPT ![m] = (@ + 1) % 256]
  OBVIOUS
<1>4. NextName(s).data = e /\ NextName(s) \in Segment /\ e \in Seq(Byte)
  <2>1. NextName(s) = [s EXCEPT !.data = e]
    BY <1>1, <1>2, <1>3 DEF NextName, PlainName
  <2>2. NextName(s).data = e
    BY <2>1 DEF Segment
  <2>3. NextName(s) \in Segment
    BY NextNameType
  <2>. QED
    BY <2>2, <2>3 DEF Segment
<1>5. \A j \in 1..m : d[j] \in 1..254
  BY <1>1, <1>2 DEF PlainName
<1>6. e[m] = d[m] + 1 /\ \A j \in 1..(m - 1) : e[j] = d[j] /\ e[j] # 0
  <2>1. e[m] = (d[m] + 1) % 256 /\ \A j \in 1..(m - 1) : e[j] = d[j]
    BY <1>2, <1>3
  <2>2. \A x \in 1..254 : (x + 1) % 256 = x + 1 /\ x # 0
    OBVIOUS
  <2>3. m \in 1..m /\ \A j \in 1..(m - 1) : j \in 1..m
    BY <1>2
  <2>. QED
    BY <1>5, <2>1, <2>2, <2>3
<1>7. PICK x \in 1..254 : x = d[m]
  BY <1>2, <1>5
<1>8. StopsAt(e, d, m)
  BY <1>2, <1>3, <1>6, <1>7 DEF StopsAt, SameBefore
<1>9. StrnCmp(e, d) = Sign(e[m] - d[m])
  BY <1>4, <1>8, StrnCmpCases, StopsOnce
<1>10. StrnCmp(e, d) = 1
  BY <1>6, <1>7, <1>9 DEF Sign
<1>. QED
  BY <1>1, <1>4, <1>10 DEF CompareSegments

\* The node of an iterator has plain names.
PrefixPlain == cur # End => \A i \in DOMAIN cur.prefix : NoNul(cur.prefix[i])

LEMMA PlainPrefixes ==
    ASSUME PlainNames, NEW a \in Args
    PROVE  \A i \in DOMAIN GetKeyPrefix(a) : NoNul(GetKeyPrefix(a)[i])
<1>1. CASE a = <<>>
  BY <1>1 DEF GetKeyPrefix
<1>2. ASSUME NEW k \in Keys, a = k, a # <<>>
      PROVE  \A i \in DOMAIN GetKeyPrefix(a) : NoNul(GetKeyPrefix(a)[i])
  <2>1. k \in Key
    BY KeyTypes
  <2>2. PICK q \in Key, s \in Segment : k = Append(q, s) /\ GetKeyPrefix(k) = q
    BY <1>2, <2>1, KeyEnds
  <2>3. \A i \in DOMAIN q : i \in DOMAIN k /\ k[i] = q[i]
    BY <2>2, KeyIsSegments, KeyAppendIs
  <2>4. \A i \in DOMAIN k : NoNul(k[i])
    BY PlainIsNoNul
  <2>. QED
    BY <1>2, <2>2, <2>3, <2>4
<1>3. ASSUME NEW k \in Keys, a = Append(k, NilSegment)
      PROVE  \A i \in DOMAIN GetKeyPrefix(a) : NoNul(GetKeyPrefix(a)[i])
  <2>1. GetKeyPrefix(a) = k
    BY <1>3, KeyTypes, NilIsSegment, PrefixOfAppend
  <2>. QED
    BY <2>1, PlainIsNoNul
<1>. QED
  BY <1>1, <1>2, <1>3 DEF Args, NilLast

LEMMA PlainNext ==
    ASSUME PlainNames, TypeInv, PrefixPlain, [Next]_vars
    PROVE  PrefixPlain'
<1>1. CASE cur' = cur
  BY <1>1 DEF PrefixPlain
<1>2. ASSUME NEW a \in Args, LmdbTx_Order(a)
      PROVE  PrefixPlain'
  <2>1. cur'.prefix = GetKeyPrefix(a)
    BY <1>2 DEF LmdbTx_Order
  <2>. QED
    BY <2>1, PlainPrefixes DEF PrefixPlain
<1>3. CASE LuaDbOrderTxClosure
  <2>1. CASE cur' = cur
    BY <2>1 DEF PrefixPlain
  <2>2. CASE cur' # cur
    <3>1. cur'.prefix = cur.prefix /\ cur # End
      BY <1>3, <2>2, IteratorMoves DEF LuaDbOrderTxClosure
    <3>. QED
      BY <3>1 DEF PrefixPlain
  <2>. QED
    BY <2>1, <2>2
<1>4. \A k \in Keys : /\ LmdbTx_Delete(k) => cur' = cur
                      /\ \A v \in Vals : LmdbTx_Put(k, v) => cur' = cur
  BY DEF LmdbTx_Delete, LmdbTx_Put
<1>5. \A a \in Args : LmdbTx_Next(a) => cur' = cur
  BY DEF LmdbTx_Next
<1>. QED
  BY <1>1, <1>2, <1>3, <1>4, <1>5 DEF Next, vars

\* A call of the iterator looks further on the next time.
LEMMA ClosureAdvances ==
    ASSUME PlainNames, TypeInv, PrefixPlain, LuaDbOrderTxClosure, got' # End
    PROVE  CompareKeys(cur'.last, cur.last) > 0
<1>1. cur # End
  BY DEF LuaDbOrderTxClosure
<1>2. PICK k \in Found(cur.prefix, cur.last) :
         cur' = [cur EXCEPT !.last = ComputeNextLexicalValue(ReplaceLastKeySegment(
                        @, k[FindFirstDifferentKeyNode(cur.prefix, k)]))]
  BY DEF LuaDbOrderTxClosure
<1>3. PICK p \in Key, l \in Key, m \in Key, seg \in Segment :
         /\ p = cur.prefix /\ l = cur.last /\ m = cur'.last
         /\ seg = k[FindFirstDifferentKeyNode(p, k)]
         /\ m = Append(p, NextName(seg))
  <2>1. /\ cur.prefix \in Key /\ cur.last \in Key
        /\ k[FindFirstDifferentKeyNode(cur.prefix, k)] \in Segment
        /\ cur' \in [prefix : Key, last : Key]
        /\ cur'.last = Append(cur.prefix, NextName(k[FindFirstDifferentKeyNode(cur.prefix, k)]))
    BY <1>1, <1>2, IteratorMoves
  <2>2. cur'.last \in Key
    BY <2>1
  <2>. QED
    BY <2>1, <2>2
<1>4. /\ k \in Keys /\ k \in Key /\ IsPrefix(p, k)
      /\ k \in AtOrAfter(l) /\ FindFirstDifferentKeyNode(p, k) \in DOMAIN k
      /\ FindFirstDifferentKeyNode(p, k) = Len(p) + 1
  <2>1. k \in Keys /\ FindFirstDifferentKeyNode(p, k) \in DOMAIN k
    BY <1>3, FoundIs DEF TypeInv
  <2>2. k \in Key /\ k \in AtOrAfter(l) /\ Matches(p, k) /\ FindFirstDifferentKeyNode(p, k) # 0
    BY <1>3, <2>1, KeyTypes DEF Found
  <2>3. IsPrefix(p, k)
    BY <1>1, <1>3, <2>2, MatchesIsPrefix DEF PrefixPlain
  <2>. QED
    BY <2>1, <2>2, <2>3, DifferentNodeIs
<1>5. PICK n \in Nat : n = Len(p)
  BY KeyIsSegments
<1>6. seg = k[n + 1] /\ PlainName(seg)
  BY <1>3, <1>4, <1>5 DEF PlainNames
<1>7. NextName(seg) \in Segment /\ CompareSegments(NextName(seg), seg) = 1
  <2>1. NextName(seg) \in Segment /\ CompareSegments(NextName(seg), seg) > 0
    BY <1>6, NextIsAfter, NextNameType
  <2>2. CompareSegments(NextName(seg), seg) \in {-1, 0, 1}
    BY <2>1, SegmentsCompared
  <2>. QED
    BY <2>1, <2>2
<1>8. /\ DOMAIN p = 1..n /\ n + 1 \in DOMAIN k
      /\ \A i \in 1..n : p[i] = k[i] /\ p[i] \in Segment
      /\ DOMAIN m = 1..(n + 1) /\ Len(m) = n + 1 /\ m[n + 1] = NextName(seg)
      /\ \A i \in 1..n : m[i] = p[i]
  <2>1. Begins(p, k)
    BY <1>4, PrefixBegins DEF Key
  <2>2. Len(m) = n + 1 /\ m[n + 1] = NextName(seg) /\ \A i \in 1..n : m[i] = p[i]
    BY <1>3, <1>5, <1>7, KeyAppendIs
  <2>. QED
    BY <1>4, <1>5, <2>1, <2>2, KeyIsSegments DEF Begins
<1>9. CASE l = <<>>
  <2>1. NeverDiffers(m, l) /\ Len(l) = 0
    BY <1>9 DEF NeverDiffers
  <2>2. CompareKeys(m, l) = Sign(Len(m) - Len(l))
    BY <2>1, DifferenceDecides
  <2>3. n + 1 - 0 > 0
    OBVIOUS
  <2>. QED
    BY <1>3, <1>8, <2>1, <2>2, <2>3 DEF Sign
<1>10. ASSUME NEW s \in Segment, l = Append(p, s)
       PROVE  CompareKeys(m, l) > 0
  <2>1. /\ DOMAIN l = 1..(n + 1) /\ Len(l) = n + 1 /\ l[n + 1] = s
        /\ \A i \in 1..n : l[i] = p[i]
    BY <1>5, <1>10, KeyAppendIs, KeyIsSegments
  <2>2. CompareKeys(k, l) >= 0
    <3>1. l # <<>>
      BY <2>1
    <3>. QED
      BY <1>4, <3>1 DEF AtOrAfter
  <2>3. \A i \in 1..n : CompareSegments(k[i], l[i]) = 0 /\ CompareSegments(m[i], l[i]) = 0
    BY <1>8, <2>1, SegmentItself
  <2>4. (n + 1) - 1 = n /\ n + 1 \in Nat /\ n + 1 \in 1..(n + 1)
    OBVIOUS
  <2>5. CompareSegments(seg, s) \in {-1, 0, 1}
    BY SegmentsCompared
  <2>6. CompareSegments(seg, s) >= 0
    <3>1. SUFFICES ASSUME CompareSegments(seg, s) # 0
                   PROVE  CompareSegments(seg, s) >= 0
      BY <2>5
    <3>2. DiffersAt(k, l, n + 1)
      BY <1>6, <1>8, <2>1, <2>3, <2>4, <3>1 DEF DiffersAt
    <3>3. CompareKeys(k, l) = CompareSegments(seg, s)
      BY <1>4, <1>6, <2>1, <2>4, <3>2, DifferenceDecides
    <3>. QED
      BY <2>2, <3>3
  <2>7. CompareSegments(NextName(seg), s) > 0
    <3>1. CompareSegments(s, seg) = - CompareSegments(seg, s)
      BY SegmentsCompared
    <3>2. CompareSegments(seg, NextName(seg)) = - CompareSegments(NextName(seg), seg)
      BY <1>7, SegmentsCompared
    <3>3. CompareSegments(s, seg) <= 0 /\ CompareSegments(seg, NextName(seg)) = -1
      BY <1>7, <2>5, <2>6, <3>1, <3>2
    <3>4. CompareSegments(s, NextName(seg)) <= 0 /\ CompareSegments(s, NextName(seg)) # 0
      BY <1>7, <3>3, SegmentsOrdered
    <3>5. /\ CompareSegments(NextName(seg), s) \in {-1, 0, 1}
          /\ CompareSegments(s, NextName(seg)) = - CompareSegments(NextName(seg), s)
      BY <1>7, SegmentsCompared
    <3>. QED
      BY <3>4, <3>5
  <2>8. DiffersAt(m, l, n + 1)
    BY <1>8, <2>1, <2>3, <2>4, <2>7 DEF DiffersAt
  <2>9. CompareKeys(m, l) = CompareSegments(NextName(seg), s)
    BY <1>8, <2>1, <2>4, <2>8, DifferenceDecides
  <2>. QED
    BY <2>7, <2>9
<1>. QED
  BY <1>1, <1>3, <1>9, <1>10 DEF TypeInv, IterInv

\* "Iterate over the keys in key order", for plain names: every answer of the
\* iterator moves it forward, whatever the loop writes or deletes meanwhile.
THEOREM AdvancesAlways == ASSUME PlainNames PROVE Spec => Advances
<1>1. Init => PrefixPlain
  BY DEF Init, PrefixPlain
<1>2. TypeInv /\ PrefixPlain /\ [Next]_vars => PrefixPlain'
  BY PlainNext
<1>3. TypeInv /\ PrefixPlain /\ [Next]_vars =>
         [LuaDbOrderTxClosure /\ got' # End => CompareKeys(cur'.last, cur.last) > 0]_vars
  BY ClosureAdvances
<1>. QED
  BY <1>1, <1>2, <1>3, TypeInvariant, PTL DEF Spec, Advances

-----------------------------------------------------------------------------
(* The order keeps every subtree together.                                   *)

\* Names without NUL that compare equal have the same bytes.
LEMMA EqualNames ==
    ASSUME NEW s \in Segment, NEW t \in Segment, NoNul(s), CompareSegments(s, t) = 0
    PROVE  s.data = t.data
<1>1. PICK a, b \in Seq(Byte) : a = s.data /\ b = t.data
  BY DEF Segment
<1>2. ASSUME NEW i \in Nat, StopsAt(a, b, i)
      PROVE  StrnCmp(a, b) # 0
  <2>1. i \in DOMAIN a /\ i \in DOMAIN b /\ (a[i] # b[i] \/ a[i] = 0)
    BY <1>2 DEF StopsAt
  <2>2. PICK x, y \in Nat : x = a[i] /\ y = b[i]
    BY <2>1, BytesAreNumbers
  <2>3. x # y
    BY <1>1, <2>1, <2>2 DEF NoNul
  <2>4. StrnCmp(a, b) = Sign(x - y)
    BY <1>2, <2>2, StrnCmpCases, StopsOnce
  <2>. QED
    BY <2>3, <2>4 DEF Sign
<1>3. CompareSegments(s, t) = IF StrnCmp(a, b) # 0 THEN StrnCmp(a, b) ELSE Sign(Len(a) - Len(b))
  BY <1>1 DEF CompareSegments
<1>4. StrnCmp(a, b) = 0 /\ Sign(Len(a) - Len(b)) = 0
  BY <1>3
<1>5. NeverStops(a, b)
  BY <1>2, <1>4, StrnCmpCases
<1>6. Len(a) = Len(b)
  <2>1. PICK x, y \in Nat : x = Len(a) /\ y = Len(b)
    OBVIOUS
  <2>. QED
    BY <1>4, <2>1 DEF Sign
<1>7. a = b
  BY <1>5, <1>6 DEF NeverStops
<1>. QED
  BY <1>1, <1>7

LEMMA SameNames ==
    ASSUME PlainNames, OneSpelling, NEW a \in Keys, NEW b \in Keys,
           NEW i \in DOMAIN a \cap DOMAIN b, CompareSegments(a[i], b[i]) = 0
    PROVE  a[i] = b[i]
<1>1. a[i] \in Segment /\ b[i] \in Segment /\ NoNul(a[i])
  BY PlainIsNoNul
<1>2. a[i].data = b[i].data
  BY <1>1, EqualNames
<1>3. a[i].type = b[i].type
  BY <1>2 DEF OneSpelling
<1>4. /\ a[i] = [type |-> a[i].type, data |-> a[i].data]
      /\ b[i] = [type |-> b[i].type, data |-> b[i].data]
  BY <1>1 DEF Segment
<1>. QED
  BY <1>2, <1>3, <1>4

LEMMA SameKeys ==
    ASSUME PlainNames, OneSpelling, NEW a \in Keys, NEW b \in Keys
    PROVE  CompareKeys(a, b) = 0 <=> a = b
<1>1. /\ a \in Key /\ b \in Key
      /\ Len(a) \in Nat /\ DOMAIN a = 1..Len(a) /\ Len(b) \in Nat /\ DOMAIN b = 1..Len(b)
  BY KeyTypes, KeyIsSegments
<1>2. ASSUME CompareKeys(a, b) = 0
      PROVE  a = b
  <2>1. NeverDiffers(a, b) /\ Sign(Len(a) - Len(b)) = 0
    BY <1>1, <1>2, CompareKeysCases DEF DiffersAt
  <2>2. Len(a) = Len(b)
    <3>1. PICK x, y \in Nat : x = Len(a) /\ y = Len(b)
      BY <1>1
    <3>. QED
      BY <2>1, <3>1 DEF Sign
  <2>3. \A i \in 1..Len(a) : a[i] = b[i]
    BY <1>1, <2>1, <2>2, SameNames DEF NeverDiffers
  <2>. QED
    BY <1>1, <2>2, <2>3 DEF Key
<1>3. ASSUME a = b
      PROVE  CompareKeys(a, b) = 0
  <2>1. CompareKeys(a, a) \in {-1, 0, 1} /\ CompareKeys(a, a) = - CompareKeys(a, a)
    BY <1>1, KeysCompared
  <2>. QED
    BY <1>3, <2>1
<1>. QED
  BY <1>2, <1>3

\* A key is not after what lies below it, and before it unless it is the same.
LEMMA PrefixFirst ==
    ASSUME NEW k \in Key, NEW x \in Key, IsPrefix(k, x)
    PROVE  /\ CompareKeys(x, k) >= 0
           /\ k # x => CompareKeys(x, k) > 0
<1>1. PICK m, n \in Nat : m = Len(k) /\ n = Len(x) /\ DOMAIN k = 1..m /\ DOMAIN x = 1..n
  BY KeyIsSegments
<1>2. m <= n /\ \A i \in 1..m : k[i] = x[i]
  BY <1>1, PrefixBegins DEF Key, Begins
<1>3. NeverDiffers(x, k)
  <2>1. \A i \in 1..m : k[i] \in Segment
    BY <1>1, KeyIsSegments
  <2>. QED
    BY <1>1, <1>2, <2>1, SegmentItself DEF NeverDiffers
<1>4. CompareKeys(x, k) = Sign(n - m)
  BY <1>1, <1>3, DifferenceDecides
<1>5. m = n => k = x
  BY <1>1, <1>2 DEF Key
<1>. QED
  BY <1>2, <1>4, <1>5 DEF Sign

LEMMA PrefixItself == ASSUME NEW k \in Key PROVE IsPrefix(k, k)
<1>1. Begins(k, k)
  BY KeyIsSegments DEF Begins
<1>. QED
  BY <1>1, PrefixBegins DEF Key

\* What is between a node and something below it is below it.
LEMMA SubtreeTogether ==
    ASSUME PlainNames, OneSpelling, NEW q \in Keys, NEW k \in Key, IsPrefix(k, q),
           NEW x \in Key, NEW y \in Keys,
           IsPrefix(k, x), CompareKeys(y, k) >= 0, CompareKeys(y, x) <= 0
    PROVE  IsPrefix(k, y)
<1>1. k \in Key /\ x \in Key /\ y \in Key
  BY KeyTypes
<1>2. PICK m \in Nat : m = Len(k)
  BY <1>1, KeyIsSegments
<1>3. /\ Len(x) \in Nat /\ Len(y) \in Nat /\ m <= Len(x)
      /\ DOMAIN k = 1..m /\ DOMAIN x = 1..Len(x) /\ DOMAIN y = 1..Len(y)
      /\ \A i \in 1..m : k[i] = x[i]
      /\ \A i \in DOMAIN k : k[i] \in Segment
      /\ \A i \in DOMAIN y : y[i] \in Segment
  BY <1>1, <1>2, KeyIsSegments, PrefixBegins DEF Begins, Key
<1>4. CompareKeys(k, y) <= 0
  BY <1>1, KeysCompared
<1>5. ~ \E i \in Nat : DiffersAt(k, y, i) /\ CompareSegments(k[i], y[i]) < 0
  <2> SUFFICES ASSUME NEW i \in Nat, DiffersAt(k, y, i), CompareSegments(k[i], y[i]) < 0
               PROVE  FALSE
    OBVIOUS
  <2>1. /\ i \in 1..m /\ i \in 1..Len(y) /\ i \in 1..Len(x)
        /\ \A j \in 1..(i - 1) : j \in 1..m /\ j \in 1..Len(y) /\ CompareSegments(k[j], y[j]) = 0
    BY <1>3 DEF DiffersAt
  <2>2. ASSUME NEW j \in 1..i
        PROVE  CompareSegments(y[j], x[j]) = - CompareSegments(k[j], y[j])
    <3>1. j \in 1..m /\ j \in 1..Len(y)
      BY <1>3, <2>1
    <3>. QED
      BY <1>3, <3>1, SegmentsCompared
  <2>3. i \in 1..i /\ \A j \in 1..(i - 1) : j \in 1..i
    BY <2>1
  <2>4. CompareSegments(k[i], y[i]) \in {-1, 0, 1}
    BY <1>3, <2>1, SegmentsCompared
  <2>5. CompareSegments(y[i], x[i]) > 0
    BY <2>2, <2>3, <2>4
  <2>6. DiffersAt(y, x, i)
    BY <1>3, <2>1, <2>2, <2>3, <2>5 DEF DiffersAt
  <2>7. CompareKeys(y, x) = CompareSegments(y[i], x[i])
    BY <1>1, <2>6, DifferenceDecides
  <2>8. CompareKeys(y, x) \in {-1, 0, 1} /\ CompareKeys(y, x) <= 0
    BY <1>1, KeysCompared
  <2>. QED
    BY <2>5, <2>7, <2>8
<1>6. NeverDiffers(k, y) /\ m <= Len(y)
  BY <1>1, <1>2, <1>4, <1>5, CompareIsNotAfter DEF NotAfterKey
<1>7. \A i \in 1..m : k[i] = y[i]
  <2>1. /\ \A i \in 1..m : i \in DOMAIN k \cap DOMAIN y /\ i \in DOMAIN q \cap DOMAIN y
        /\ \A i \in 1..m : k[i] = q[i]
    <3>1. q \in Key /\ Len(q) \in Nat /\ DOMAIN q = 1..Len(q)
      BY KeyTypes, KeyIsSegments
    <3>. QED
      BY <1>1, <1>2, <1>3, <1>6, <3>1, PrefixBegins DEF Begins, Key
  <2>. QED
    BY <1>6, <2>1, SameNames DEF NeverDiffers
<1>. QED
  BY <1>1, <1>2, <1>6, <1>7, PrefixBegins DEF Begins, Key

LEMMA PlainMatches ==
    ASSUME PlainNames, NEW k \in Keys, NEW x \in Keys
    PROVE  Matches(k, x) <=> IsPrefix(k, x)
<1>1. k \in Key /\ x \in Key /\ \A i \in DOMAIN k : NoNul(k[i])
  BY KeyTypes, PlainIsNoNul
<1>. QED
  BY <1>1, MatchesIsPrefix

LEMMA DumpIs ==
    ASSUME PlainNames, OneSpelling, TypeOK
    PROVE  DumpIsSubtree
<1> SUFFICES ASSUME NEW k \in Keys
             PROVE  LmdbTx__Dump(k) = {x \in DOMAIN db : IsPrefix(k, x)}
  BY DEF DumpIsSubtree
<1>1. \A x \in DOMAIN db : x \in Keys /\ x \in Key
  BY KeyTypes DEF TypeOK
<1>2. k \in Key
  BY KeyTypes
<1>3. \A x \in AtOrAfter(k) : x \in DOMAIN db
  BY DEF AtOrAfter
<1>4. \A x \in AtOrAfter(k) : CompareKeys(x, k) >= 0
  <2>1. CASE k = <<>>
    <3>1. \A x \in Key : IsPrefix(k, x)
      <4>1. \A x \in Key : Begins(k, x)
        BY <2>1, KeyIsSegments DEF Begins
      <4>. QED
        BY <1>2, <4>1, PrefixBegins DEF Key
    <3>. QED
      BY <1>1, <1>2, <1>3, <3>1, PrefixFirst
  <2>2. CASE k # <<>>
    BY <2>2 DEF AtOrAfter
  <2>. QED
    BY <2>1, <2>2
<1>5. ASSUME NEW x \in LmdbTx__Dump(k)
      PROVE  x \in DOMAIN db /\ IsPrefix(k, x)
  <2>1. x \in AtOrAfter(k) /\ (CompareKeys(x, x) <= 0 => Matches(k, x))
    BY DEF LmdbTx__Dump
  <2>2. x \in Keys /\ x \in DOMAIN db
    BY <1>1, <1>3, <2>1
  <2>3. CompareKeys(x, x) = 0
    BY <2>2, SameKeys
  <2>. QED
    BY <2>1, <2>2, <2>3, PlainMatches
<1>6. ASSUME NEW x \in DOMAIN db, IsPrefix(k, x)
      PROVE  x \in LmdbTx__Dump(k)
  <2>1. x \in AtOrAfter(k)
    BY <1>1, <1>2, <1>6, PrefixFirst DEF AtOrAfter
  <2>2. ASSUME NEW y \in AtOrAfter(k), CompareKeys(y, x) <= 0
        PROVE  Matches(k, y)
    <3>1. y \in Keys /\ x \in Keys /\ CompareKeys(y, k) >= 0
      BY <1>1, <1>3, <1>4
    <3>2. IsPrefix(k, y)
      BY <1>1, <1>2, <1>6, <2>2, <3>1, PrefixItself, SubtreeTogether
    <3>. QED
      BY <3>1, <3>2, PlainMatches
  <2>. QED
    BY <2>1, <2>2 DEF LmdbTx__Dump
<1>. QED
  BY <1>5, <1>6 DEF LmdbTx__Dump, AtOrAfter

\* _dump(k) prints k and what lies below it, and nothing else, for plain names
\* of one spelling.
THEOREM DumpCorrect == ASSUME PlainNames, OneSpelling PROVE Spec => []DumpIsSubtree
<1>1. TypeOK => DumpIsSubtree
  BY DumpIs
<1>. QED
  BY <1>1, TypeCorrect, PTL

-----------------------------------------------------------------------------
(* data().                                                                   *)

\* Finitely many keys have a first one.
LEMMA LeastExists ==
    ASSUME NEW S \in SUBSET Key, IsFiniteSet(S), S # {}
    PROVE  \E x \in S : \A y \in S : CompareKeys(x, y) <= 0
<1> DEFINE HasLeast(R) == \E x \in R : \A y \in R : CompareKeys(x, y) <= 0
           T == {n \in Nat : \A R \in SUBSET Key :
                    IsFiniteSet(R) /\ R # {} /\ Cardinality(R) = n => HasLeast(R)}
<1>0. ASSUME NEW x \in Key, NEW y \in Key
      PROVE  CompareKeys(x, x) <= 0 /\ (CompareKeys(x, y) <= 0 \/ CompareKeys(y, x) <= 0)
  <2>1. /\ CompareKeys(x, x) \in {-1, 0, 1} /\ CompareKeys(x, x) = - CompareKeys(x, x)
        /\ CompareKeys(x, y) \in {-1, 0, 1} /\ CompareKeys(y, x) = - CompareKeys(x, y)
    BY KeysCompared
  <2>. QED
    BY <2>1
<1>1. 0 \in T
  BY FS_EmptySet
<1>2. ASSUME NEW n \in Nat, n \in T
      PROVE  n + 1 \in T
  <2>1. ASSUME NEW R \in SUBSET Key, IsFiniteSet(R), R # {}, Cardinality(R) = n + 1
        PROVE  HasLeast(R)
    <3>1. PICK z \in R : TRUE
      BY <2>1
    <3>2. IsFiniteSet(R \ {z}) /\ Cardinality(R \ {z}) = n
      <4>1. IsFiniteSet(R \ {z}) /\ Cardinality(R \ {z}) = Cardinality(R) - 1
        BY <2>1, <3>1, FS_RemoveElement
      <4>. QED
        BY <2>1, <4>1
    <3>3. CASE R \ {z} = {}
      <4>1. \A y \in R : y = z
        BY <3>3
      <4>2. CompareKeys(z, z) <= 0
        BY <1>0
      <4>. QED
        BY <3>1, <4>1, <4>2
    <3>4. CASE R \ {z} # {}
      <4>1. HasLeast(R \ {z})
        BY <1>2, <3>2, <3>4
      <4>2. PICK x \in R \ {z} : \A y \in R \ {z} : CompareKeys(x, y) <= 0
        BY <4>1
      <4>3. CASE CompareKeys(x, z) <= 0
        <5>1. \A y \in R : CompareKeys(x, y) <= 0
          BY <4>2, <4>3
        <5>. QED
          BY <5>1
      <4>4. CASE CompareKeys(z, x) <= 0
        <5>1. ASSUME NEW y \in R
              PROVE  CompareKeys(z, y) <= 0
          <6>1. CASE y = z
            BY <1>0, <6>1
          <6>2. CASE y # z
            BY <4>2, <4>4, <6>2, KeysOrdered
          <6>. QED
            BY <6>1, <6>2
        <5>. QED
          BY <3>1, <5>1
      <4>. QED
        BY <1>0, <4>3, <4>4
    <3>. QED
      BY <3>3, <3>4
  <2>. QED
    BY <2>1
<1>. HIDE DEF T
<1>3. Cardinality(S) \in T
  BY <1>1, <1>2, AllNumbers, FS_CardinalityType
<1>. QED
  BY <1>3 DEF T

LEMMA LeastIs ==
    ASSUME NEW S \in SUBSET Key, IsFiniteSet(S), S # {}
    PROVE  LeastOf(S) \in S /\ \A y \in S : CompareKeys(LeastOf(S), y) <= 0
BY LeastExists DEF LeastOf

LEMMA DataIs ==
    ASSUME PlainNames, OneSpelling, TypeInv
    PROVE  DataTrusted
<1> SUFFICES ASSUME NEW k \in Keys
             PROVE  /\ LmdbTx_Data(k) \in {1, 11} <=> k \in DOMAIN db
                    /\ LmdbTx_Data(k) \in {10, 11} => Below(k) # {}
                    /\ Below(k) # {} /\ (k \in DOMAIN db \/ Cardinality(Below(k)) > 1)
                          => LmdbTx_Data(k) \in {10, 11}
  BY DEF DataTrusted
<1> DEFINE here == Stored(k)
           S == After(k)
           next == IF here # {} \/ S = {} THEN S ELSE S \ {LeastOf(S)}
           child == next # {} /\ Matches(k, LeastOf(next))
<1>1. LmdbTx_Data(k) = (IF here # {} THEN 1 ELSE 0) + (IF child THEN 10 ELSE 0)
  BY DEF LmdbTx_Data
<1>2. /\ \A x \in DOMAIN db : x \in Keys /\ x \in Key
      /\ k \in Key /\ IsFiniteSet(DOMAIN db)
  BY KeyTypes DEF TypeInv, TypeOK
<1>3. here # {} <=> k \in DOMAIN db
  <2>1. \A x \in DOMAIN db : SameKey(x, k) <=> x = k
    BY <1>2, SameKeys DEF SameKey
  <2>. QED
    BY <2>1 DEF Stored
<1>4. S \subseteq DOMAIN db /\ S \in SUBSET Key /\ \A x \in S : CompareKeys(x, k) > 0
  BY <1>2 DEF After
<1>5. Below(k) \subseteq S /\ \A x \in S : x \in Below(k) <=> Matches(k, x)
  <2>1. ASSUME NEW x \in DOMAIN db, IsStrictPrefix(k, x)
        PROVE  x \in S
    BY <1>2, <2>1, PrefixFirst DEF IsStrictPrefix, After
  <2>2. ASSUME NEW x \in S
        PROVE  x \in Below(k) <=> Matches(k, x)
    <3>1. x \in Keys /\ x \in DOMAIN db /\ CompareKeys(x, k) > 0
      BY <1>2, <1>4
    <3>2. x # k
      BY <3>1, SameKeys
    <3>. QED
      BY <3>1, <3>2, PlainMatches DEF Below, IsStrictPrefix
  <2>. QED
    BY <2>1, <2>2 DEF Below
\* What comes before a key below k, after k, is below k.
<1>6. ASSUME NEW x \in Below(k), NEW y \in S, CompareKeys(y, x) <= 0
      PROVE  y \in Below(k)
  <2>1. x \in Keys /\ y \in Keys /\ IsPrefix(k, x) /\ y \in DOMAIN db
    BY <1>2, <1>4 DEF Below, IsStrictPrefix
  <2>2. CompareKeys(y, k) > 0 /\ CompareKeys(y, k) \in {-1, 0, 1}
    BY <1>2, <1>4, KeysCompared
  <2>3. IsPrefix(k, y) /\ y # k
    BY <1>1, <1>6, <2>1, <2>2, PrefixItself, KeyTypes, SubtreeTogether, SameKeys
  <2>. QED
    BY <2>1, <2>3 DEF Below, IsStrictPrefix
<1>7. /\ IsFiniteSet(Below(k)) /\ IsFiniteSet(S)
      /\ Cardinality(Below(k)) \in Nat /\ (Cardinality(Below(k)) = 0 <=> Below(k) = {})
  BY <1>2, <1>4, <1>5, FS_Subset, FS_CardinalityType, FS_EmptySet
<1>. HIDE DEF S, here
\* The least key that is left is below k if any that is left is.
<1>8. next \subseteq S /\ (child <=> \E x \in next : x \in Below(k))
  <2>1. next \subseteq S
    OBVIOUS
  <2>. HIDE DEF next
  <2>2. next \in SUBSET Key /\ IsFiniteSet(next)
    BY <1>4, <1>7, <2>1, FS_Subset
  <2>3. CASE next = {}
    BY <2>1, <2>3
  <2>4. CASE next # {}
    <3>1. PICK l \in next : l = LeastOf(next) /\ \A y \in next : CompareKeys(l, y) <= 0
      BY <2>2, <2>4, LeastIs
    <3>2. Matches(k, l) <=> l \in Below(k)
      BY <1>5, <2>1, <3>1
    <3>3. \A x \in next : x \in Below(k) => l \in Below(k)
      BY <1>6, <2>1, <3>1
    <3>. QED
      BY <2>1, <2>4, <3>1, <3>2, <3>3
  <2>. QED
    BY <2>3, <2>4
<1>9. child <=> Cardinality(Below(k)) > (IF k \in DOMAIN db THEN 0 ELSE 1)
  <2>1. CASE here # {}
    <3>1. next = S
      BY <2>1
    <3>2. child <=> Below(k) # {}
      BY <1>5, <1>8, <3>1
    <3>. QED
      BY <1>3, <1>7, <2>1, <3>2
  <2>2. CASE here = {} /\ S = {}
    <3>1. next = {} /\ Below(k) = {}
      BY <1>5, <2>2
    <3>2. ~ child /\ Cardinality(Below(k)) = 0
      BY <1>7, <1>8, <3>1
    <3>. QED
      BY <1>3, <2>2, <3>2
  <2>3. CASE here = {} /\ S # {}
    <3>1. PICK l \in S : l = LeastOf(S) /\ \A y \in S : CompareKeys(l, y) <= 0
      BY <1>4, <1>7, <2>3, LeastIs
    <3>2. next = S \ {l}
      BY <2>3, <3>1
    <3>3. CASE l \in Below(k)
      <4>1. /\ Cardinality(Below(k) \ {l}) = Cardinality(Below(k)) - 1
            /\ IsFiniteSet(Below(k) \ {l})
        BY <1>7, <3>3, FS_RemoveElement
      <4>2. /\ Cardinality(Below(k) \ {l}) \in Nat
            /\ Cardinality(Below(k) \ {l}) = 0 <=> Below(k) \ {l} = {}
        BY <4>1, FS_CardinalityType, FS_EmptySet
      <4>3. child <=> Below(k) \ {l} # {}
        BY <1>5, <1>8, <3>2
      <4>. QED
        BY <1>3, <1>7, <2>3, <4>1, <4>2, <4>3
    <3>4. CASE l \notin Below(k)
      <4>1. Below(k) = {}
        BY <1>5, <1>6, <3>1, <3>4
      <4>2. ~ child /\ Cardinality(Below(k)) = 0
        BY <1>7, <1>8, <4>1
      <4>. QED
        BY <1>3, <2>3, <4>2
    <3>. QED
      BY <3>3, <3>4
  <2>. QED
    BY <2>1, <2>2, <2>3
<1>. HIDE DEF child
<1>10. /\ LmdbTx_Data(k) \in {1, 11} <=> here # {}
       /\ LmdbTx_Data(k) \in {10, 11} <=> child
  BY <1>1
<1>11. /\ child => Below(k) # {}
       /\ Below(k) # {} /\ (k \in DOMAIN db \/ Cardinality(Below(k)) > 1) => child
  BY <1>7, <1>9
<1>. QED
  BY <1>3, <1>10, <1>11

\* data() reports a value exactly if there is one, descendants only if there
\* are any, and fails to report them at most for the only one of a node without
\* a value, for plain names of one spelling.
THEOREM DataCorrect == ASSUME PlainNames, OneSpelling PROVE Spec => []DataTrusted
<1>1. TypeInv => DataTrusted
  BY DataIs
<1>. QED
  BY <1>1, TypeInvariant, PTL

-----------------------------------------------------------------------------
(* The traversal implements the scan, for plain names of one spelling, none *)
(* of which starts another, that are read back as they were written.        *)

\* Bytes of a plain name; and those with one more in the last.
PlainBytes(s) == s \in Seq(Byte) /\ s # <<>> /\ \A i \in DOMAIN s : s[i] \in 1..254

Raises(r, t) == /\ r \in Seq(Byte) /\ Len(r) = Len(t) /\ r[Len(t)] = t[Len(t)] + 1
                /\ \A i \in DOMAIN t : i # Len(t) => r[i] = t[i]

LEMMA PlainBytesAre ==
    ASSUME NEW s, PlainBytes(s)
    PROVE  \E n \in Nat : /\ n # 0 /\ n = Len(s) /\ DOMAIN s = 1..n
                          /\ \A i \in 1..n : s[i] \in 1..254
<1>1. s \in Seq(Byte) /\ s # <<>> /\ \A i \in DOMAIN s : s[i] \in 1..254
  BY DEF PlainBytes
<1>2. Len(s) # 0
  BY <1>1
<1>. QED
  BY <1>1, <1>2, BytesAreNumbers

LEMMA RaisedSplits ==
    ASSUME NEW s, NEW t, NEW r,
           PlainBytes(s), PlainBytes(t), Raises(r, t), ~ IsStrictPrefix(t, s)
    PROVE  NotAfter(r, s) <=> ~ NotAfter(s, t)
<1>1. PICK n, m \in Nat :
        /\ n # 0 /\ n = Len(t) /\ DOMAIN t = 1..n /\ m = Len(s) /\ DOMAIN s = 1..m
        /\ \A i \in 1..n : t[i] \in 1..254
        /\ \A i \in 1..m : s[i] \in 1..254
  BY PlainBytesAre
<1>2. s \in Seq(Byte) /\ t \in Seq(Byte) /\ r \in Seq(Byte)
  BY DEF PlainBytes, Raises
<1>3. n \in 1..n /\ \A i \in 1..n : t[i] \in 1..254
  BY <1>1
<1>4. \A i \in 1..m : s[i] \in 1..254
  BY <1>1
<1>5. \A i \in 1..n : i # n => r[i] = t[i]
  BY <1>1 DEF Raises
<1>6. r[n] = t[n] + 1
  BY <1>1 DEF Raises
<1>7. Len(r) = n /\ DOMAIN r = 1..n
  BY <1>1, <1>2, BytesAreNumbers DEF Raises
<1>8. \A i \in 1..n : r[i] # 0
  <2>1. \A i \in 1..n : i # n => r[i] # 0
    BY <1>3, <1>5
  <2>2. r[n] # 0
    BY <1>3, <1>6
  <2>. QED
    BY <2>1, <2>2
<1>9. NotAfter(r, s) <=> ~ NotAfter(s, t)
  <2>1. ASSUME NEW i \in Nat, StopsAt(s, t, i)
        PROVE  NotAfter(r, s) <=> ~ NotAfter(s, t)
    <3>1. i \in 1..n /\ i \in 1..m /\ (s[i] # t[i] \/ s[i] = 0) /\ SameBefore(s, t, i)
      BY <1>1, <2>1 DEF StopsAt
    <3>2. \A j \in 1..(i - 1) : j \in 1..n /\ j \in 1..m /\ j # n
      BY <1>1, <3>1
    <3>3. PICK a, b \in 1..254 : a = s[i] /\ b = t[i]
      BY <1>3, <1>4, <3>1
    <3>4. a # b
      BY <3>1, <3>3
    <3>5. NotAfter(s, t) <=> a < b
      BY <1>2, <2>1, <3>3, <3>4, StopsOnce DEF NotAfter
    <3>6. PICK c \in Nat : c = r[i] /\ (i = n => c = b + 1) /\ (i # n => c = b)
      BY <1>5, <1>6, <3>1, <3>3
    <3>7. SameBefore(r, s, i)
      BY <1>5, <1>8, <3>1, <3>2 DEF SameBefore
    <3>8. CASE c # a
      <4>1. StopsAt(r, s, i)
        BY <1>1, <1>7, <3>1, <3>3, <3>6, <3>7, <3>8 DEF StopsAt
      <4>2. NotAfter(r, s) <=> c < a
        BY <1>2, <3>3, <3>6, <3>8, <4>1, StopsOnce DEF NotAfter
      <4>3. c < a <=> ~ (a < b)
        BY <3>4, <3>6, <3>8
      <4>. QED
        BY <3>5, <4>2, <4>3
    <3>9. CASE c = a
      <4>1. i = n /\ ~ (a < b)
        BY <3>4, <3>6, <3>9
      <4>2. \A j \in 1..n : j = n \/ j \in 1..(i - 1)
        BY <1>1, <4>1
      <4>3. \A j \in 1..n : r[j] = s[j] /\ s[j] # 0
        <5>1. r[n] = s[n]
          BY <3>3, <3>6, <3>9, <4>1
        <5>2. \A j \in 1..(i - 1) : r[j] = s[j]
          BY <3>7 DEF SameBefore
        <5>3. \A j \in 1..n : r[j] = s[j]
          BY <4>2, <5>1, <5>2
        <5>. QED
          BY <1>8, <5>3
      <4>4. NeverStops(r, s)
        BY <1>7, <4>3, <1>8 DEF NeverStops
      <4>5. Len(r) <= Len(s)
        BY <1>1, <1>7, <3>1, <4>1
      <4>. QED
        BY <3>5, <4>1, <4>4, <4>5 DEF NotAfter
    <3>. QED
      BY <3>8, <3>9
  <2>2. ASSUME NeverStops(s, t)
        PROVE  NotAfter(r, s) <=> ~ NotAfter(s, t)
    <3>1. \A i \in 1..n : i \in 1..m => s[i] = t[i]
      BY <1>1, <2>2 DEF NeverStops
    <3>2. m <= n
      <4>1. SUFFICES ASSUME n < m PROVE FALSE
        BY <1>1
      <4>2. \A i \in 1..n : i \in 1..m
        BY <4>1
      <4>3. Begins(t, s)
        BY <1>1, <3>1, <4>1, <4>2 DEF Begins
      <4>4. IsPrefix(t, s) /\ t # s
        BY <1>1, <1>2, <4>1, <4>3, PrefixBegins
      <4>. QED
        BY <4>4 DEF IsStrictPrefix
    <3>3. NotAfter(s, t)
      BY <1>1, <2>2, <3>2 DEF NotAfter
    <3>4. CASE m = n
      <4>1. PICK b \in 1..254 : b = s[n] /\ b = t[n] /\ r[n] = b + 1
        BY <1>3, <1>6, <3>1, <3>4
      <4>2. \A j \in 1..(n - 1) : j \in 1..n /\ j # n
        BY <1>1
      <4>3. SameBefore(r, s, n)
        BY <1>5, <1>8, <3>1, <3>4, <4>2 DEF SameBefore
      <4>4. r[n] # s[n] /\ ~ (r[n] < s[n])
        BY <4>1
      <4>5. StopsAt(r, s, n)
        BY <1>1, <1>3, <1>7, <3>4, <4>3, <4>4 DEF StopsAt
      <4>6. \A j \in Nat : StopsAt(r, s, j) => j = n
        BY <1>2, <4>5, StopsOnce
      <4>7. ~ NeverStops(r, s)
        BY <1>2, <4>5, StopsOnce
      <4>8. ~ NotAfter(r, s)
        BY <4>4, <4>6, <4>7 DEF NotAfter
      <4>. QED
        BY <3>3, <4>8
    <3>5. CASE m < n
      <4>1. \A j \in 1..m : j \in 1..n /\ j # n
        BY <3>5
      <4>2. NeverStops(r, s)
        BY <1>1, <1>5, <1>7, <1>8, <3>1, <4>1 DEF NeverStops
      <4>3. ~ (Len(r) <= Len(s))
        BY <1>1, <1>7, <3>5
      <4>4. ~ NotAfter(r, s)
        BY <1>2, <4>2, <4>3, StopsOnce DEF NotAfter
      <4>. QED
        BY <3>3, <4>4
    <3>. QED
      BY <3>2, <3>4, <3>5
  <2>3. NeverStops(s, t) \/ \E i \in Nat : StopsAt(s, t, i)
    BY <1>2, StrnCmpCases
  <2>. QED
    BY <2>1, <2>2, <2>3
<1>. QED
  BY <1>9

LEMMA ByteRaised == \A b \in 1..254 : (b + 1) % 256 = b + 1
OBVIOUS

\* Where a name that does not start with c stands to c, it stands to what the
\* search for the next one starts from.
LEMMA NextNameSplits ==
    ASSUME NEW c \in Segment, NEW d \in Segment, PlainName(c), PlainName(d),
           ~ IsStrictPrefix(c.data, d.data)
    PROVE  CompareSegments(d, NextName(c)) >= 0 <=> CompareSegments(d, c) > 0
<1>1. /\ c.data \in Seq(Byte) /\ d.data \in Seq(Byte)
      /\ PlainBytes(c.data) /\ PlainBytes(d.data)
  BY DEF Segment, PlainName, PlainBytes
<1>2. PICK r : r \in Seq(Byte) /\ r = NextName(c).data
  BY NextNameType DEF Segment
<1>3. Raises(r, c.data)
  <2> DEFINE t == c.data
  <2>1. PICK n \in Nat : /\ n # 0 /\ n = Len(t) /\ DOMAIN t = 1..n
                         /\ \A i \in 1..n : t[i] \in 1..254
    BY <1>1, PlainBytesAre
  <2>2. NextName(c) = [c EXCEPT !.data[n] = (@ + 1) % 256]
    BY <2>1 DEF NextName, PlainName
  <2>3. r = [t EXCEPT ![n] = (@ + 1) % 256]
    BY <1>2, <2>1, <2>2 DEF Segment
  <2>4. DOMAIN r = 1..n /\ r[n] = (t[n] + 1) % 256 /\ \A i \in 1..n : i # n => r[i] = t[i]
    BY <2>1, <2>3
  <2>5. r[n] = t[n] + 1
    <3>1. n \in 1..n
      BY <2>1
    <3>2. PICK b \in 1..254 : b = t[n]
      BY <2>1, <3>1
    <3>. QED
      BY <2>4, <3>2, ByteRaised
  <2>6. Len(r) = n
    BY <1>2, <2>1, <2>4, BytesAreNumbers
  <2>. QED
    BY <1>2, <2>1, <2>4, <2>5, <2>6 DEF Raises
<1>4. NotAfter(r, d.data) <=> ~ NotAfter(d.data, c.data)
  BY <1>1, <1>2, <1>3, RaisedSplits
<1>5. /\ CompareSegments(d, c) <= 0 <=> NotAfter(d.data, c.data)
      /\ CompareSegments(NextName(c), d) <= 0 <=> NotAfter(r, d.data)
      /\ CompareSegments(d, NextName(c)) = - CompareSegments(NextName(c), d)
      /\ CompareSegments(d, c) \in {-1, 0, 1} /\ CompareSegments(NextName(c), d) \in {-1, 0, 1}
  BY <1>2, NextNameType, SegmentsCompared
<1>. QED
  BY <1>4, <1>5

\* Every plain name comes after the nil that stands for the beginning.
LEMMA NilStartsAll ==
    ASSUME NEW d \in Segment, PlainName(d)
    PROVE  CompareSegments(d, NextName(NilSegment)) >= 0
<1>1. d.data \in Seq(Byte) /\ PlainBytes(d.data)
  BY DEF Segment, PlainName, PlainBytes
<1> DEFINE s == d.data
<1>2. PICK n \in Nat : /\ n # 0 /\ n = Len(s) /\ DOMAIN s = 1..n
                       /\ \A i \in 1..n : s[i] \in 1..254
  BY <1>1, PlainBytesAre
<1>8. PICK b \in 1..254 : b = s[1]
  <2>1. 1 \in 1..n
    BY <1>2
  <2>. QED
    BY <1>2, <2>1
<1>3. NextName(NilSegment) = [type |-> EmptyType, data |-> <<1>>]
  BY DEF NextName, NilSegment
<1>4. <<1>> \in Seq(Byte) /\ Len(<<1>>) = 1 /\ DOMAIN <<1>> = 1..1 /\ <<1>>[1] = 1
  BY DEF Byte
<1>5. NotAfter(<<1>>, s)
  <2>1. CASE b = 1
    <3>1. NeverStops(<<1>>, s)
      <4>1. \A i \in DOMAIN <<1>> : i = 1
        BY <1>4
      <4>2. <<1>>[1] = s[1] /\ <<1>>[1] # 0
        BY <1>4, <1>8, <2>1
      <4>. QED
        BY <4>1, <4>2 DEF NeverStops
    <3>2. Len(<<1>>) <= Len(s)
      BY <1>2, <1>4
    <3>. QED
      BY <3>1, <3>2 DEF NotAfter
  <2>2. CASE b # 1
    <3>1. StopsAt(<<1>>, s, 1)
      BY <1>2, <1>4, <1>8, <2>2 DEF StopsAt, SameBefore
    <3>2. <<1>>[1] < s[1]
      BY <1>4, <1>8, <2>2
    <3>. QED
      BY <3>1, <3>2 DEF NotAfter
  <2>. QED
    BY <2>1, <2>2
<1>6. NextName(NilSegment) \in Segment /\ NextName(NilSegment).data = <<1>>
  BY <1>3, NilIsSegment, NextNameType
<1>7. CompareSegments(NextName(NilSegment), d) <= 0
  BY <1>2, <1>5, <1>6, SegmentsCompared
<1>. QED
  BY <1>6, <1>7, SegmentsCompared

\* Of two keys below a node the children they are below of decide.
LEMMA ChildDecides ==
    ASSUME NEW p \in Key, NEW x \in Key, NEW y \in Key, IsStrictPrefix(p, x), IsStrictPrefix(p, y)
    PROVE  LET m == Len(p) + 1
           IN  /\ m \in DOMAIN x /\ m \in DOMAIN y
               /\ CompareSegments(x[m], y[m]) # 0 => CompareKeys(x, y) = CompareSegments(x[m], y[m])
               /\ CompareSegments(x[m], y[m]) = 0 /\ Len(y) = m => CompareKeys(x, y) >= 0
<1> DEFINE m == Len(p) + 1
<1>1. /\ Len(p) \in Nat /\ Len(x) \in Nat /\ Len(y) \in Nat
      /\ DOMAIN p = 1..Len(p) /\ DOMAIN x = 1..Len(x) /\ DOMAIN y = 1..Len(y)
  BY KeyIsSegments
<1>2. /\ \A i \in 1..(m - 1) : p[i] = x[i] /\ p[i] = y[i] /\ p[i] \in Segment
      /\ m - 1 <= Len(x) /\ m - 1 <= Len(y)
  BY <1>1, KeyIsSegments, PrefixBegins DEF Begins, IsStrictPrefix, Key
<1>3. Len(p) # Len(x) /\ Len(p) # Len(y)
  <2>1. p # x /\ p # y
    BY DEF IsStrictPrefix
  <2>2. Len(p) = Len(x) => p = x
    BY <1>1, <1>2 DEF Key
  <2>3. Len(p) = Len(y) => p = y
    BY <1>1, <1>2 DEF Key
  <2>. QED
    BY <2>1, <2>2, <2>3
<1>4. m \in DOMAIN x /\ m \in DOMAIN y /\ m \in Nat
  <2>1. PICK a, b, c \in Nat : a = Len(p) /\ b = Len(x) /\ c = Len(y)
    BY <1>1
  <2>2. a <= b /\ a <= c /\ a # b /\ a # c /\ m = a + 1
    BY <1>2, <1>3, <2>1
  <2>3. m \in 1..b /\ m \in 1..c /\ m \in Nat
    BY <2>2
  <2>. QED
    BY <1>1, <2>1, <2>3
<1>5. \A i \in 1..(m - 1) : i \in DOMAIN x \cap DOMAIN y /\ CompareSegments(x[i], y[i]) = 0
  <2>1. \A i \in 1..(m - 1) : i \in DOMAIN x \cap DOMAIN y
    BY <1>1, <1>2
  <2>. QED
    BY <1>2, <2>1, SegmentItself
<1>6. CompareSegments(x[m], y[m]) # 0 => DiffersAt(x, y, m)
  BY <1>4, <1>5 DEF DiffersAt
<1>7. ASSUME CompareSegments(x[m], y[m]) = 0, Len(y) = m
      PROVE  CompareKeys(x, y) >= 0
  <2>1. NeverDiffers(x, y) /\ m <= Len(x)
    <3>1. \A i \in DOMAIN x \cap DOMAIN y : i = m \/ i \in 1..(m - 1)
      BY <1>1, <1>4, <1>7
    <3>. QED
      BY <1>1, <1>4, <1>5, <1>7, <3>1 DEF NeverDiffers
  <2>2. CompareKeys(x, y) = Sign(Len(x) - m)
    BY <1>7, <2>1, DifferenceDecides
  <2>. QED
    BY <1>1, <1>4, <2>1, <2>2 DEF Sign
<1>. QED
  BY <1>4, <1>6, <1>7, DifferenceDecides

\* Where an iterator under p stands that looks for last, after the child name.
Stands(p, last, name) ==
    /\ p \in Key
    /\ p = <<>> \/ \E q \in Keys : IsPrefix(p, q)
    /\ \/ p = <<>> /\ last = <<>> /\ name = NoName
       \/ last = Append(p, NextName(NilSegment)) /\ name = NoName
       \/ \E q \in Keys : /\ Len(p) + 1 \in DOMAIN q /\ name = q[Len(p) + 1]
                          /\ last = Append(p, NextName(name))

LEMMA AppendIsBelow ==
    ASSUME NEW p \in Key, NEW s \in Segment
    PROVE  IsStrictPrefix(p, Append(p, s))
<1>1. Begins(p, Append(p, s)) /\ p # Append(p, s) /\ Append(p, s) \in Key
  BY KeyAppendIs, KeyIsSegments DEF Begins
<1>. QED
  BY <1>1, PrefixBegins DEF IsStrictPrefix, Key

\* The children of a node are names of the script.
LEMMA ChildIs ==
    ASSUME TypeOK, NEW p \in Key, NEW x \in DOMAIN db, IsStrictPrefix(p, x)
    PROVE  /\ x \in Keys /\ x \in Key /\ Len(p) + 1 \in DOMAIN x
           /\ x[Len(p) + 1] \in Segment
<1>1. x \in Keys /\ x \in Key
  BY KeyTypes DEF TypeOK
<1>2. Len(p) + 1 \in DOMAIN x
  BY <1>1, ChildDecides
<1>. QED
  BY <1>1, <1>2, KeyIsSegments

\* The search finds, of what is below p, what follows name.
LEMMA SearchSplits ==
    ASSUME PlainNames, NoneStartsAnother, TypeOK,
           NEW p, NEW last, NEW name, Stands(p, last, name),
           NEW x \in DOMAIN db, IsStrictPrefix(p, x)
    PROVE  x \in AtOrAfter(last) <=>
               (name = NoName \/ CompareSegments(x[Len(p) + 1], name) > 0)
<1> DEFINE m == Len(p) + 1
<1>1. /\ p \in Key /\ x \in Keys /\ x \in Key /\ m \in DOMAIN x /\ x[m] \in Segment
      /\ PlainName(x[m])
  BY ChildIs DEF Stands, PlainNames
<1>2. ASSUME NEW s \in Segment, last = Append(p, s)
      PROVE  x \in AtOrAfter(last) <=> CompareSegments(x[m], s) >= 0
  <2>1. last \in Key /\ IsStrictPrefix(p, last) /\ last # <<>> /\ Len(last) = m /\ last[m] = s
    <3>1. last \in Key /\ IsStrictPrefix(p, last)
      BY <1>1, <1>2, AppendIsBelow, KeyAppendIs
    <3>2. Len(last) = m /\ last[m] = s
      BY <1>1, <1>2, KeyAppendIs
    <3>3. last # <<>>
      BY <1>2 DEF Key
    <3>. QED
      BY <3>1, <3>2, <3>3
  <2>2. x \in AtOrAfter(last) <=> CompareKeys(x, last) >= 0
    BY <2>1 DEF AtOrAfter
  <2>3. /\ CompareSegments(x[m], s) # 0 => CompareKeys(x, last) = CompareSegments(x[m], s)
        /\ CompareSegments(x[m], s) = 0 => CompareKeys(x, last) >= 0
    BY <1>1, <2>1, ChildDecides
  <2>4. CompareSegments(x[m], s) \in {-1, 0, 1}
    BY <1>1, SegmentsCompared
  <2>. QED
    BY <2>2, <2>3, <2>4
<1>3. CASE last = <<>> /\ name = NoName
  BY <1>3 DEF AtOrAfter
<1>4. CASE last = Append(p, NextName(NilSegment)) /\ name = NoName
  BY <1>1, <1>2, <1>4, NilIsSegment, NextNameType, NilStartsAll
<1>5. ASSUME NEW q \in Keys, m \in DOMAIN q, name = q[m], last = Append(p, NextName(name))
      PROVE  x \in AtOrAfter(last) <=> CompareSegments(x[m], name) > 0
  <2>1. name \in Segment /\ PlainName(name)
    BY <1>5, KeyTypes, KeyIsSegments DEF PlainNames
  <2>2. ~ IsStrictPrefix(name.data, x[m].data)
    BY <1>1, <1>5 DEF NoneStartsAnother
  <2>3. CompareSegments(x[m], NextName(name)) >= 0 <=> CompareSegments(x[m], name) > 0
    BY <1>1, <2>1, <2>2, NextNameSplits
  <2>. QED
    BY <1>2, <1>5, <2>1, <2>3, NextNameType
<1>6. \A q \in Keys : m \in DOMAIN q => q[m] # NoName
  BY KeyTypes, KeyIsSegments, NothingAssumption
<1>. QED
  BY <1>3, <1>4, <1>5, <1>6 DEF Stands

\* What the search looks for is after the node itself.
LEMMA SearchIsBelow ==
    ASSUME NEW p, NEW last, NEW name, Stands(p, last, name)
    PROVE  \/ p = <<>> /\ last = <<>>
           \/ /\ last \in Key /\ last # <<>>
              /\ CompareKeys(last, p) > 0
<1>1. ASSUME NEW s \in Segment, last = Append(p, s), p \in Key
      PROVE  last \in Key /\ last # <<>> /\ CompareKeys(last, p) > 0
  <2>1. last \in Key /\ IsStrictPrefix(p, last) /\ last # <<>>
    BY <1>1, AppendIsBelow, KeyAppendIs
  <2>. QED
    BY <1>1, <2>1, PrefixFirst DEF IsStrictPrefix
<1>2. NextName(NilSegment) \in Segment
  BY NilIsSegment, NextNameType
<1>3. \A q \in Keys : \A i \in DOMAIN q : NextName(q[i]) \in Segment
  BY KeyTypes, KeyIsSegments, NextNameType
<1>. QED
  BY <1>1, <1>2, <1>3 DEF Stands

\* The least key found is below p if any found is.
LEMMA LeastIsBelow ==
    ASSUME PlainNames, OneSpelling, TypeOK,
           NEW p, NEW last, NEW name, Stands(p, last, name),
           NEW x \in AtOrAfter(last), \A y \in AtOrAfter(last) : CompareKeys(x, y) <= 0,
           NEW z \in AtOrAfter(last), IsStrictPrefix(p, z)
    PROVE  IsStrictPrefix(p, x)
<1>1. /\ p \in Key /\ x \in Keys /\ x \in Key /\ z \in Keys /\ z \in Key
      /\ CompareKeys(x, z) <= 0 /\ IsPrefix(p, z)
  BY KeyTypes DEF TypeOK, AtOrAfter, Stands, IsStrictPrefix
<1>2. x # p /\ (p # <<>> => CompareKeys(x, p) >= 0)
  <2>1. CASE p = <<>> /\ last = <<>>
    BY <1>1, <2>1, KeysAssumption
  <2>2. CASE last \in Key /\ last # <<>> /\ CompareKeys(last, p) > 0
    <3>1. CompareKeys(x, last) >= 0
      BY <2>2 DEF AtOrAfter
    <3>2. /\ CompareKeys(last, x) = - CompareKeys(x, last)
          /\ CompareKeys(p, last) = - CompareKeys(last, p)
          /\ CompareKeys(p, x) = - CompareKeys(x, p)
          /\ CompareKeys(x, last) \in {-1, 0, 1} /\ CompareKeys(last, p) \in {-1, 0, 1}
          /\ CompareKeys(x, p) \in {-1, 0, 1}
      BY <1>1, <2>2, KeysCompared
    <3>3. CompareKeys(p, x) <= 0
      BY <1>1, <2>2, <3>1, <3>2, KeysOrdered
    <3>4. x # p
      BY <2>2, <3>1, <3>2
    <3>. QED
      BY <3>2, <3>3, <3>4
  <2>. QED
    BY <2>1, <2>2, SearchIsBelow
<1>3. IsPrefix(p, x)
  <2>1. CASE p = <<>>
    <3>1. Begins(p, x)
      BY <1>1, <2>1, KeyIsSegments DEF Begins
    <3>. QED
      BY <1>1, <3>1, PrefixBegins DEF Key
  <2>2. CASE p # <<>>
    <3>1. PICK q \in Keys : IsPrefix(p, q)
      BY <2>2 DEF Stands
    <3>. QED
      BY <1>1, <1>2, <2>2, <3>1, SubtreeTogether
  <2>. QED
    BY <2>1, <2>2
<1>. QED
  BY <1>2, <1>3 DEF IsStrictPrefix

\* The first segment of a key below p that is not one of p.
LEMMA DifferentBelow ==
    ASSUME NEW p \in Key, NEW x \in Key, IsStrictPrefix(p, x)
    PROVE  FindFirstDifferentKeyNode(p, x) = Len(p) + 1
<1>1. Len(p) + 1 \in DOMAIN x /\ Len(p) + 1 \notin DOMAIN p
  BY ChildDecides, KeyIsSegments
<1> DEFINE new == {i \in DOMAIN x : i \notin DOMAIN p \/ p[i] # x[i]}
<1>2. new \in SUBSET Nat /\ new # {} /\ 0 \notin new
  BY <1>1, KeyIsSegments
<1>3. Min(new) \in new
  BY <1>2, MinIsLeast
<1>4. FindFirstDifferentKeyNode(p, x) = Min(new)
  BY <1>2 DEF FindFirstDifferentKeyNode
<1>5. FindFirstDifferentKeyNode(p, x) # 0
  BY <1>2, <1>3, <1>4
<1>. QED
  BY <1>5, DifferentNodeIs DEF IsStrictPrefix

LEMMA PlainPrefixOf ==
    ASSUME PlainNames, NEW p, NEW last, NEW name, Stands(p, last, name), NEW x \in Keys
    PROVE  Matches(p, x) <=> IsPrefix(p, x)
<1>1. \A i \in DOMAIN p : NoNul(p[i])
  <2>1. CASE p = <<>>
    BY <2>1
  <2>2. ASSUME NEW q \in Keys, IsPrefix(p, q)
        PROVE  \A i \in DOMAIN p : NoNul(p[i])
    <3>1. \A i \in DOMAIN p : i \in DOMAIN q /\ p[i] = q[i]
      <4>1. p \in Key /\ q \in Key
        BY KeyTypes DEF Stands
      <4>2. PICK a, b \in Nat : a = Len(p) /\ b = Len(q) /\ DOMAIN p = 1..a /\ DOMAIN q = 1..b
        BY <4>1, KeyIsSegments
      <4>3. a <= b /\ \A i \in 1..a : p[i] = q[i]
        BY <2>2, <4>1, <4>2, PrefixBegins DEF Begins, Key
      <4>. QED
        BY <4>2, <4>3
    <3>. QED
      BY <3>1, PlainIsNoNul
  <2>. QED
    BY <2>1, <2>2 DEF Stands
<1>. QED
  BY <1>1, KeyTypes, MatchesIsPrefix DEF Stands

\* What is found is the least key that follows, if it is below p.
LEMMA FoundBelow ==
    ASSUME PlainNames, OneSpelling, TypeOK,
           NEW p, NEW last, NEW name, Stands(p, last, name)
    PROVE  \A x : x \in Found(p, last) <=>
               /\ x \in AtOrAfter(last) /\ \A y \in AtOrAfter(last) : CompareKeys(x, y) <= 0
               /\ IsStrictPrefix(p, x)
<1>1. ASSUME NEW x \in AtOrAfter(last)
      PROVE  /\ x \in Keys /\ x \in Key /\ p \in Key
             /\ Matches(p, x) <=> IsPrefix(p, x)
             /\ IsStrictPrefix(p, x) => FindFirstDifferentKeyNode(p, x) # 0
             /\ x = p => FindFirstDifferentKeyNode(p, x) = 0
  <2>1. x \in Keys /\ x \in Key /\ p \in Key
    BY <1>1, KeyTypes DEF TypeOK, AtOrAfter, Stands
  <2>2. Matches(p, x) <=> IsPrefix(p, x)
    BY <2>1, PlainPrefixOf
  <2>3. ASSUME IsStrictPrefix(p, x)
        PROVE  FindFirstDifferentKeyNode(p, x) # 0
    <3>1. Len(p) \in Nat
      BY <2>1, KeyIsSegments
    <3>. QED
      BY <2>1, <2>3, <3>1, DifferentBelow
  <2>4. x = p => FindFirstDifferentKeyNode(p, x) = 0
    BY DEF FindFirstDifferentKeyNode
  <2>. QED
    BY <2>1, <2>2, <2>3, <2>4
<1>. QED
  BY <1>1 DEF Found, IsStrictPrefix

-----------------------------------------------------------------------------
(* The refinement.                                                           *)

LEMMA ScanOrder ==
    ASSUME NEW s \in Segment, NEW t \in Segment
    PROVE  Scan!CompareSegments(s, t) = CompareSegments(s, t)
BY DEF Scan!CompareSegments, CompareSegments, Scan!StrnCmp, StrnCmp, Scan!Sign, Sign, Scan!Min, Min

LEMMA ScanChildren ==
    ASSUME NEW p
    PROVE  Scan!Children(p) = {k[Len(p) + 1] : k \in {x \in DOMAIN db : IsStrictPrefix(p, x)}}
BY DEF Scan!Children, Scan!IsStrictPrefix, IsStrictPrefix, Scan!IsPrefix, IsPrefix

LEMMA ScanOperators ==
    /\ Scan!NilSegment = NilSegment
    /\ \A a : Scan!GetKeyPrefix(a) = GetKeyPrefix(a)
    /\ \A a : Scan!Last(a) = Last(a)
BY DEF Scan!NilSegment, NilSegment, Scan!EmptyType, EmptyType, Scan!GetKeyPrefix, GetKeyPrefix,
       Scan!Front, Front, Scan!Last, Last

LEMMA UndoneIs ==
    ASSUME NEW s \in Segment, PlainName(s)
    PROVE  NextName(s).type = s.type /\ Undone(NextName(s)) = s
<1>1. s.data \in Seq(Byte) /\ PlainBytes(s.data) /\ s = [type |-> s.type, data |-> s.data]
  BY DEF Segment, PlainName, PlainBytes
<1> DEFINE t == s.data
<1>2. PICK n \in Nat : /\ n # 0 /\ n = Len(t) /\ DOMAIN t = 1..n
                       /\ \A i \in 1..n : t[i] \in 1..254
  BY <1>1, PlainBytesAre
<1>3. n \in 1..n
  BY <1>2
<1>4. PICK b \in 1..254 : b = t[n]
  BY <1>2, <1>3
<1> DEFINE r == [t EXCEPT ![n] = (b + 1) % 256]
<1>5. NextName(s) = [type |-> s.type, data |-> r]
  <2>1. NextName(s) = [s EXCEPT !.data = r]
    BY <1>2, <1>4 DEF NextName, PlainName
  <2>. QED
    BY <1>1, <2>1
<1>6. DOMAIN r = 1..n /\ r[n] = b + 1
  BY <1>2, <1>3, <1>4, ByteRaised
<1>7. r \in Seq(Byte)
  <2>1. NextName(s) \in Segment
    BY NextNameType
  <2>. QED
    BY <1>5, <2>1 DEF Segment
<1>8. Len(r) = n /\ r # <<>>
  <2>1. Len(r) = n
    BY <1>2, <1>6, <1>7, BytesAreNumbers
  <2>. QED
    BY <1>2, <1>7, <2>1
<1>9. ((b + 1) - 1) % 256 = b
  <2>1. \A x \in 1..254 : ((x + 1) - 1) % 256 = x
    OBVIOUS
  <2>. QED
    BY <2>1
<1>10. [r EXCEPT ![n] = ((b + 1) - 1) % 256] = t
  <2> DEFINE u == [r EXCEPT ![n] = ((b + 1) - 1) % 256]
  <2>1. u = [i \in 1..n |-> IF i = n THEN b ELSE r[i]]
    BY <1>6, <1>9
  <2>2. r = [i \in 1..n |-> IF i = n THEN b + 1 ELSE t[i]]
    BY <1>2, <1>4, <1>6
  <2>3. t = [i \in 1..n |-> t[i]]
    BY <1>1, <1>2
  <2>4. \A i \in 1..n : (IF i = n THEN b ELSE r[i]) = t[i]
    BY <1>4, <2>2
  <2>5. [i \in 1..n |-> IF i = n THEN b ELSE r[i]] = [i \in 1..n |-> t[i]]
    <3>. HIDE DEF r, t
    <3>. QED
      BY ONLY <2>4
  <2>. QED
    BY ONLY <2>1, <2>3, <2>5
<1> HIDE DEF r
<1>11. Undone(NextName(s)) = [type |-> s.type, data |-> [r EXCEPT ![n] = ((b + 1) - 1) % 256]]
  <2>1. Undone([type |-> s.type, data |-> r]) =
            [[type |-> s.type, data |-> r] EXCEPT !.data = [r EXCEPT ![n] = (r[n] - 1) % 256]]
    BY <1>8 DEF Undone
  <2>. QED
    BY <1>5, <1>6, <2>1
<1>. QED
  BY <1>1, <1>5, <1>10, <1>11

\* The child the mapping finds the iterator to stand at.
LEMMA StandsAt ==
    ASSUME PlainNames, NEW p, NEW last, NEW name, Stands(p, last, name)
    PROVE  name = IF last = <<>> \/ Last(last).type = EmptyType THEN NoName
                  ELSE Undone(Last(last))
<1>1. ASSUME NEW s \in Segment, last = Append(p, s), p \in Key
      PROVE  last # <<>> /\ Last(last) = s
  BY <1>1 DEF Last, Key
<1>2. CASE last = <<>> /\ name = NoName
  BY <1>2
<1>3. CASE last = Append(p, NextName(NilSegment)) /\ name = NoName
  <2>1. NextName(NilSegment) \in Segment /\ NextName(NilSegment).type = EmptyType
    BY NilIsSegment, NextNameType DEF NextName, NilSegment
  <2>. QED
    BY <1>1, <1>3, <2>1 DEF Stands
<1>4. ASSUME NEW q \in Keys, Len(p) + 1 \in DOMAIN q, name = q[Len(p) + 1],
             last = Append(p, NextName(name))
      PROVE  /\ last # <<>> /\ Last(last).type # EmptyType /\ name = Undone(Last(last))
  <2>1. name \in Segment /\ PlainName(name) /\ name.type # EmptyType
    BY <1>4, KeyTypes, KeyIsSegments
       DEF PlainNames, EmptyType, BooleanType, IntegerType, NumericType, StringType
  <2>. QED
    BY <1>1, <1>4, <2>1, NextNameType, UndoneIs DEF Stands
<1>. QED
  BY <1>2, <1>3, <1>4 DEF Stands

LEMMA FollowingIs ==
    ASSUME PlainNames, NoneStartsAnother, TypeOK,
           NEW p, NEW last, NEW name, Stands(p, last, name)
    PROVE  Scan!Following(p, name) =
               {x[Len(p) + 1] : x \in {y \in DOMAIN db : IsStrictPrefix(p, y) /\ y \in AtOrAfter(last)}}
<1>1. name = NoName \/ name \in Segment
  BY KeyTypes, KeyIsSegments DEF Stands
<1>2. p \in Key
  BY DEF Stands
<1>3. ASSUME NEW x \in DOMAIN db, IsStrictPrefix(p, x)
      PROVE  x \in AtOrAfter(last) <=>
                 (name = NoName \/ Scan!CompareSegments(x[Len(p) + 1], name) > 0)
  BY <1>1, <1>2, <1>3, ChildIs, ScanOrder, SearchSplits
<1>4. Scan!Following(p, name) =
          {c \in Scan!Children(p) : name = NoName \/ Scan!CompareSegments(c, name) > 0}
  BY DEF Scan!Following
<1>. QED
  BY <1>3, <1>4, ScanChildren

\* What order, next and the iterator answer is what the scan promises.
LEMMA AnswerIs ==
    ASSUME PlainNames, OneSpelling, NoneStartsAnother, ReadsBack, TypeInv,
           NEW p, NEW last, NEW name, Stands(p, last, name)
    PROVE  /\ Found(p, last) = {} => Scan!Answer(p, name, End)
           /\ \A x \in Found(p, last) :
                 /\ x \in Keys /\ FindFirstDifferentKeyNode(p, x) = Len(p) + 1
                 /\ Len(p) + 1 \in DOMAIN x /\ IsPrefix(p, x)
                 /\ Pushed(p, x) = x[Len(p) + 1]
                 /\ Scan!Answer(p, name, x[Len(p) + 1])
<1> DEFINE m == Len(p) + 1
           F == Scan!Following(p, name)
           S == AtOrAfter(last)
<1>1. TypeOK /\ IsFiniteSet(DOMAIN db) /\ p \in Key
  BY DEF TypeInv, Stands
<1>2. \A c : c \in F <=> \E x \in DOMAIN db : IsStrictPrefix(p, x) /\ x \in S /\ c = x[m]
  BY <1>1, FollowingIs
<1>3. \A x : x \in Found(p, last) <=>
               x \in S /\ (\A y \in S : CompareKeys(x, y) <= 0) /\ IsStrictPrefix(p, x)
  BY <1>1, FoundBelow
<1>4. S \subseteq DOMAIN db /\ S \in SUBSET Key /\ IsFiniteSet(S)
  <2>1. S \subseteq DOMAIN db
    BY DEF AtOrAfter
  <2>2. DOMAIN db \subseteq Key
    BY <1>1, KeyTypes DEF TypeOK
  <2>. QED
    BY <1>1, <2>1, <2>2, FS_Subset
<1> HIDE DEF S, F
<1>5. F # {} => Found(p, last) # {}
  <2> SUFFICES ASSUME NEW c \in F PROVE Found(p, last) # {}
    OBVIOUS
  <2>1. PICK z \in S : IsStrictPrefix(p, z)
    BY <1>2
  <2>2. PICK x \in S : \A y \in S : CompareKeys(x, y) <= 0
    BY <1>4, <2>1, LeastExists
  <2>3. IsStrictPrefix(p, x)
    BY <1>1, <2>1, <2>2, LeastIsBelow DEF S
  <2>. QED
    BY <1>3, <2>2, <2>3
<1>6. ASSUME NEW x \in Found(p, last)
      PROVE  /\ x \in Keys /\ FindFirstDifferentKeyNode(p, x) = m
             /\ m \in DOMAIN x /\ IsPrefix(p, x)
             /\ Pushed(p, x) = x[m]
             /\ x[m] \in F /\ \A d \in F : Scan!CompareSegments(x[m], d) <= 0
  <2>1. x \in DOMAIN db /\ x \in S /\ IsStrictPrefix(p, x) /\ \A y \in S : CompareKeys(x, y) <= 0
    BY <1>3, <1>4
  <2>2. x \in Keys /\ x \in Key /\ m \in DOMAIN x /\ x[m] \in Segment
    BY <1>1, <2>1, ChildIs
  <2>3. FindFirstDifferentKeyNode(p, x) = m
    BY <1>1, <2>1, <2>2, DifferentBelow
  <2>4. Pushed(p, x) = x[m]
    BY <1>1, <2>1, <2>2, <2>3 DEF Pushed, ReadsBack, TypeOK
  <2>5. x[m] \in F
    BY <1>2, <2>1
  <2>6. ASSUME NEW d \in F
        PROVE  Scan!CompareSegments(x[m], d) <= 0
    <3>1. PICK y \in DOMAIN db : IsStrictPrefix(p, y) /\ y \in S /\ d = y[m]
      BY <1>2
    <3>2. y \in Key /\ d \in Segment
      BY <1>1, <3>1, ChildIs
    <3>3. CompareKeys(x, y) <= 0
      BY <2>1, <3>1
    <3>4. CompareSegments(x[m], d) # 0 => CompareKeys(x, y) = CompareSegments(x[m], d)
      BY <1>1, <2>1, <2>2, <3>1, <3>2, ChildDecides
    <3>5. CompareSegments(x[m], d) \in {-1, 0, 1}
      BY <2>2, <3>2, SegmentsCompared
    <3>. QED
      BY <2>2, <3>2, <3>3, <3>4, <3>5, ScanOrder
  <2>. QED
    BY <2>1, <2>2, <2>3, <2>4, <2>5, <2>6 DEF IsStrictPrefix
<1>. QED
  BY <1>5, <1>6 DEF Scan!Answer, F

LEMMA ArgsStand ==
    ASSUME NEW a \in Args
    PROVE  Stands(GetKeyPrefix(a), Searched(a), Scan!From(a))
<1>1. CASE a = <<>>
  BY <1>1, KeyIsSegments DEF Stands, GetKeyPrefix, Searched, Scan!From, Key
<1>2. ASSUME NEW k \in Keys, a = Append(k, NilSegment)
      PROVE  Stands(GetKeyPrefix(a), Searched(a), Scan!From(a))
  <2>1. k \in Key /\ NilSegment \in Segment
    BY KeyTypes, NilIsSegment
  <2>2. a # <<>> /\ Last(a) = NilSegment
    BY <1>2, <2>1 DEF Last, Key
  <2>3. Scan!From(a) = NoName
    BY <2>2, ScanOperators DEF Scan!From
  <2>4. GetKeyPrefix(a) = k
    BY <1>2, <2>1, PrefixOfAppend
  <2>5. Searched(a) = Append(k, NextName(NilSegment))
    BY <1>2, <2>1, <2>2, NextValueIs DEF Searched
  <2>6. IsPrefix(k, k)
    BY <2>1, PrefixItself
  <2>. QED
    BY <2>1, <2>3, <2>4, <2>5, <2>6 DEF Stands
<1>3. ASSUME a \in Keys, a # <<>>
      PROVE  Stands(GetKeyPrefix(a), Searched(a), Scan!From(a))
  <2>1. a \in Key
    BY <1>3, KeyTypes
  <2>2. PICK q \in Key, s \in Segment : a = Append(q, s) /\ GetKeyPrefix(a) = q
    BY <1>3, <2>1, KeyEnds
  <2>3. IsPrefix(q, a) /\ Len(q) + 1 \in DOMAIN a /\ a[Len(q) + 1] = s
    BY <2>1, <2>2, AppendIsBelow, KeyAppendIs, ChildDecides DEF IsStrictPrefix
  <2>4. Last(a) = s
    BY <2>2 DEF Last, Key
  <2>5. s # NilSegment
    BY <1>3, <2>3, KeyTypes
       DEF NilSegment, EmptyType, BooleanType, IntegerType, NumericType, StringType
  <2>6. Scan!From(a) = s
    BY <1>3, <2>4, <2>5, ScanOperators DEF Scan!From
  <2>7. Searched(a) = Append(q, NextName(s))
    BY <1>3, <2>2, NextValueIs DEF Searched
  <2>. QED
    BY <1>3, <2>2, <2>3, <2>6, <2>7 DEF Stands
<1>. QED
  BY <1>1, <1>2, <1>3 DEF Args, NilLast

ScanInv == TypeInv /\ (cur # End => \E name : Stands(cur.prefix, cur.last, name))

\* The child the iterator stands at, as the mapping has it.
ChildAt(iterator) ==
    IF iterator = End \/ iterator.last = <<>> \/ Last(iterator.last).type = EmptyType THEN NoName
    ELSE Undone(Last(iterator.last))

NodeOf(iterator) == IF iterator = End THEN End ELSE iterator.prefix

LEMMA StoredIs ==
    ASSUME PlainNames, OneSpelling, TypeOK, NEW k \in Keys
    PROVE  Stored(k) = DOMAIN db \cap {k}
<1>1. \A x \in DOMAIN db : SameKey(x, k) <=> x = k
  BY SameKeys DEF TypeOK, SameKey
<1>. QED
  BY <1>1 DEF Stored

LEMMA PutMaps ==
    ASSUME PlainNames, OneSpelling, ScanInv, NEW k \in Keys, NEW v \in Vals, LmdbTx_Put(k, v)
    PROVE  Scan!Put(k, v) /\ cur' = cur
<1>1. Stored(k) = DOMAIN db \cap {k}
  BY StoredIs DEF ScanInv, TypeInv
<1>2. db' = [x \in DOMAIN db \cup {k} |-> IF x = k THEN v ELSE db[x]]
  <2>1. CASE k \in DOMAIN db
    <3>1. DOMAIN db \cup {k} = DOMAIN db /\ Stored(k) = {k}
      BY <1>1, <2>1
    <3>. QED
      BY <3>1 DEF LmdbTx_Put
  <2>2. CASE k \notin DOMAIN db
    BY <1>1, <2>2 DEF LmdbTx_Put
  <2>. QED
    BY <2>1, <2>2
<1>. QED
  BY <1>2 DEF LmdbTx_Put, Scan!Put

LEMMA DeleteMaps ==
    ASSUME PlainNames, OneSpelling, ScanInv, NEW k \in Keys, LmdbTx_Delete(k)
    PROVE  Scan!Delete(k) /\ cur' = cur
<1>1. DOMAIN db \ Stored(k) = DOMAIN db \ {k}
  BY StoredIs DEF ScanInv, TypeInv
<1>. QED
  BY <1>1 DEF LmdbTx_Delete, Scan!Delete

\* An iterator at which something stands is none of the values that say there
\* is none.
LEMMA IteratorIs ==
    ASSUME PlainNames, NEW p, NEW last, NEW name, Stands(p, last, name), last \in Key
    PROVE  /\ [prefix |-> p, last |-> last] # End
           /\ NodeOf([prefix |-> p, last |-> last]) = p /\ p # End
           /\ ChildAt([prefix |-> p, last |-> last]) = name
<1>1. p \in Key /\ [prefix |-> p, last |-> last] \in [prefix : Key, last : Key]
  BY DEF Stands
<1>2. [prefix |-> p, last |-> last] # End /\ p # End
  BY <1>1, NothingAssumption
<1>. QED
  BY <1>2, StandsAt DEF NodeOf, ChildAt

LEMMA OrderMaps ==
    ASSUME PlainNames, ScanInv, NEW a \in Args, LmdbTx_Order(a)
    PROVE  /\ Scan!Order(Scan!Parent(a), Scan!From(a))
           /\ cur' # End /\ \E name : Stands(cur'.prefix, cur'.last, name)
<1> DEFINE p == GetKeyPrefix(a)
           last == Searched(a)
           name == Scan!From(a)
<1>1. Stands(p, last, name) /\ last \in Key
  BY ArgsStand, OrderStarts
<1>2. cur' = [prefix |-> p, last |-> last] /\ UNCHANGED <<db, got>>
  BY DEF LmdbTx_Order
<1>3. Scan!Parent(a) = p
  BY ScanOperators DEF Scan!Parent
<1> HIDE DEF p, last, name
<1>4. cur' # End /\ NodeOf(cur') = p /\ ChildAt(cur') = name
  BY <1>1, <1>2, IteratorIs
<1>5. (NodeOf(cur))' = p /\ (ChildAt(cur))' = name
  BY <1>4 DEF NodeOf, ChildAt
<1>6. cur'.prefix = p /\ cur'.last = last
  BY <1>2
<1>7. Scan!Order(p, name)
  BY <1>2, <1>5 DEF Scan!Order, NodeOf, ChildAt
<1>. QED
  BY <1>1, <1>3, <1>4, <1>6, <1>7 DEF name

LEMMA NextMaps ==
    ASSUME PlainNames, OneSpelling, NoneStartsAnother, ReadsBack, ScanInv,
           NEW a \in Args, LmdbTx_Next(a)
    PROVE  Scan!CallNext(Scan!Parent(a), Scan!From(a)) /\ cur' = cur
<1> DEFINE p == GetKeyPrefix(a)
           last == Searched(a)
           name == Scan!From(a)
<1>1. Stands(p, last, name)
  BY ArgsStand
<1>2. GetKeyPrefix(last) = p
  <2>1. CASE a = <<>>
    BY <2>1 DEF Searched, GetKeyPrefix
  <2>2. CASE a # <<>>
    <3>1. PICK q \in Key, t \in Segment :
            GetKeyPrefix(a) = q /\ Searched(a) = Append(q, NextName(t))
      BY <2>2, ArgsAre
    <3>2. NextName(t) \in Segment
      BY NextNameType
    <3>. QED
      BY <3>1, <3>2, PrefixOfAppend
  <2>. QED
    BY <2>1, <2>2
<1>3. Scan!Parent(a) = p
  BY ScanOperators DEF Scan!Parent
<1>4. \/ Found(p, last) = {} /\ got' = End
      \/ \E k \in Found(p, last) : got' = Pushed(p, k)
  BY <1>2 DEF LmdbTx_Next
<1> HIDE DEF p, last, name
<1>5. Scan!Answer(p, name, got')
  BY <1>1, <1>4, AnswerIs DEF ScanInv
<1>6. UNCHANGED <<db, cur>>
  BY DEF LmdbTx_Next
<1>7. Scan!CallNext(p, name)
  BY <1>5, <1>6 DEF Scan!CallNext
<1>. QED
  BY <1>3, <1>6, <1>7 DEF name

LEMMA IterateMaps ==
    ASSUME PlainNames, OneSpelling, NoneStartsAnother, ReadsBack, ScanInv, LuaDbOrderTxClosure
    PROVE  /\ Scan!Iterate
           /\ cur' # End => \E name : Stands(cur'.prefix, cur'.last, name)
<1> DEFINE p == cur.prefix
           last == cur.last
<1>1. /\ TypeInv /\ cur # End /\ cur \in [prefix : Key, last : Key]
      /\ cur = [prefix |-> p, last |-> last] /\ p \in Key /\ last \in Key
  BY DEF ScanInv, TypeInv, TypeOK, LuaDbOrderTxClosure
<1>2. PICK name : Stands(p, last, name)
  BY <1>1 DEF ScanInv
<1>3. NodeOf(cur) = p /\ ChildAt(cur) = name /\ p # End
  BY <1>1, <1>2, IteratorIs
<1>4. db' = db
  BY DEF LuaDbOrderTxClosure
<1>5. CASE Found(p, last) = {} /\ cur' = cur /\ got' = End
  <2>1. Scan!Answer(p, name, got')
    BY <1>1, <1>2, <1>5, AnswerIs
  <2>2. (NodeOf(cur))' = p /\ (ChildAt(cur))' = name
    BY <1>3, <1>5 DEF NodeOf, ChildAt
  <2>3. Scan!Iterate
    BY <1>3, <1>4, <1>5, <2>1, <2>2 DEF Scan!Iterate, NodeOf, ChildAt
  <2>. QED
    BY <1>2, <1>5, <2>3
<1>6. ASSUME NEW k \in Found(p, last), got' = Pushed(p, k),
             cur' = [cur EXCEPT !.last = ComputeNextLexicalValue(ReplaceLastKeySegment(
                          @, k[FindFirstDifferentKeyNode(cur.prefix, k)]))]
      PROVE  /\ Scan!Iterate
             /\ \E c : Stands(cur'.prefix, cur'.last, c)
  <2> DEFINE m == Len(p) + 1
             c == k[m]
  <2>1. /\ k \in Keys /\ FindFirstDifferentKeyNode(p, k) = m /\ m \in DOMAIN k
        /\ IsPrefix(p, k) /\ got' = c /\ Scan!Answer(p, name, c)
    BY <1>1, <1>2, <1>6, AnswerIs
  <2>2. c \in Segment /\ c # End
    BY <2>1, KeyTypes, KeyIsSegments, NothingAssumption
  <2>3. /\ cur' \in [prefix : Key, last : Key] /\ cur'.prefix = p
        /\ cur'.last = Append(p, NextName(c))
    BY <1>1, <1>6, <2>1, IteratorMoves
  <2>4. Stands(p, cur'.last, c)
    BY <1>1, <2>1, <2>3 DEF Stands
  <2>5. cur' = [prefix |-> p, last |-> cur'.last] /\ cur'.last \in Key
    BY <2>3
  <2>6. cur' # End /\ NodeOf(cur') = p /\ ChildAt(cur') = c
    BY <2>4, <2>5, IteratorIs
  <2>7. (NodeOf(cur))' = p /\ (ChildAt(cur))' = c
    BY <2>6 DEF NodeOf, ChildAt
  <2> HIDE DEF c
  <2>8. Scan!Iterate
    BY <1>3, <1>4, <2>1, <2>2, <2>7 DEF Scan!Iterate, NodeOf, ChildAt
  <2>. QED
    BY <2>3, <2>4, <2>8
<1>. QED
  BY <1>5, <1>6 DEF LuaDbOrderTxClosure

LEMMA ScanInit == Init => Scan!Init /\ ScanInv
  BY TypeInit DEF Init, ScanInv, Scan!Init

LEMMA ScanNext ==
    ASSUME PlainNames, OneSpelling, NoneStartsAnother, ReadsBack, ScanInv, [Next]_vars
    PROVE  [Scan!Next]_(Scan!vars) /\ ScanInv'
<1>1. TypeInv'
  BY TypeNext DEF ScanInv
<1>2. Args = Scan!Args
  BY ScanOperators DEF Args, NilLast, Scan!Args
<1>3. ASSUME NEW k \in Keys, LmdbTx_Delete(k)
      PROVE  Scan!Next /\ ScanInv'
  BY <1>1, <1>3, DeleteMaps DEF Scan!Next, ScanInv
<1>4. ASSUME NEW k \in Keys, NEW v \in Vals, LmdbTx_Put(k, v)
      PROVE  Scan!Next /\ ScanInv'
  BY <1>1, <1>4, PutMaps DEF Scan!Next, ScanInv
<1>5. ASSUME NEW a \in Args, LmdbTx_Order(a)
      PROVE  Scan!Next /\ ScanInv'
  BY <1>1, <1>2, <1>5, OrderMaps DEF Scan!Next, ScanInv
<1>6. ASSUME NEW a \in Args, LmdbTx_Next(a)
      PROVE  Scan!Next /\ ScanInv'
  BY <1>1, <1>2, <1>6, NextMaps DEF Scan!Next, ScanInv
<1>7. CASE LuaDbOrderTxClosure
  BY <1>1, <1>7, IterateMaps DEF Scan!Next, ScanInv
<1>8. CASE UNCHANGED vars
  <2>1. UNCHANGED Scan!vars
    BY <1>8 DEF vars, Scan!vars
  <2>2. ScanInv'
    BY <1>1, <1>8 DEF vars, ScanInv
  <2>. QED
    BY <2>1, <2>2
<1>. QED
  BY <1>3, <1>4, <1>5, <1>6, <1>7, <1>8 DEF Next

\* The iterator of order() and iorder(), and next(), return the first child of
\* the node after the one they were given or returned last, whatever is put and
\* deleted between the calls, for plain names of one spelling of which none
\* starts another and that are read back as they were written.
THEOREM TraversalAsPromised ==
    ASSUME PlainNames, OneSpelling, NoneStartsAnother, ReadsBack
    PROVE  Spec => ImplementsScan
<1>1. Init => Scan!Init /\ ScanInv
  BY ScanInit
<1>2. ScanInv /\ [Next]_vars => [Scan!Next]_(Scan!vars) /\ ScanInv'
  BY ScanNext
<1>. QED
  BY <1>1, <1>2, PTL DEF Spec, ImplementsScan, Scan!Spec
=============================================================================
