-------------------------- MODULE JsonDecode_proofs --------------------------
(* What holds of JsonDecode for every set of documents, of any size and      *)
(* depth, and however often a script changes metatables.                     *)
EXTENDS JsonDecode, FiniteSetTheorems, SequenceTheorems, WellFoundedInduction, TLAPS

-----------------------------------------------------------------------------
(* Sequences of anything.                                                  *)

LEMMA Appended ==
    ASSUME NEW S, NEW s \in Seq(S), NEW x
    PROVE  /\ Append(s, x) \in Seq(S \cup {x}) /\ Len(Append(s, x)) = Len(s) + 1
           /\ DOMAIN Append(s, x) = 1..(Len(s) + 1)
           /\ Append(s, x)[Len(s) + 1] = x
           /\ \A i \in 1..Len(s) : Append(s, x)[i] = s[i]
  <1>1. s \in Seq(S \cup {x}) /\ x \in S \cup {x}
    OBVIOUS
  <1> QED  BY <1>1, AppendProperties

LEMMA Shortened ==
    ASSUME NEW S, NEW s \in Seq(S), NEW n \in 0..Len(s)
    PROVE  /\ SubSeq(s, 1, n) \in Seq(S) /\ Len(SubSeq(s, 1, n)) = n
           /\ \A i \in 1..n : SubSeq(s, 1, n)[i] = s[i]
  <1>1. n \in Int /\ 1 \in Int /\ Len(s) \in Nat /\ n <= Len(s) /\ 0 <= n
    OBVIOUS
  <1>2. \A i \in 1..n : s[i] \in S
    BY <1>1
  <1>3. /\ SubSeq(s, 1, n) \in Seq(S)
        /\ Len(SubSeq(s, 1, n)) = IF 1 <= n THEN n - 1 + 1 ELSE 0
        /\ \A i \in 1 .. n - 1 + 1 : SubSeq(s, 1, n)[i] = s[1 + i - 1]
    BY <1>1, <1>2, SubSeqProperties
  <1>4. n - 1 + 1 = n /\ \A i \in 1..n : 1 + i - 1 = i
    BY <1>1
  <1>5. Len(SubSeq(s, 1, n)) = n
    BY <1>1, <1>3
  <1> QED  BY <1>3, <1>4, <1>5

LEMMA Replaced ==
    ASSUME NEW S, NEW s \in Seq(S), NEW j \in 1..Len(s), NEW x \in S
    PROVE  LET r == [s EXCEPT ![j] = x]
           IN  r \in Seq(S) /\ Len(r) = Len(s) /\ \A i \in 1..Len(s) : r[i] = IF i = j THEN x ELSE s[i]
  OBVIOUS

LEMMA RangeTyped ==
    ASSUME NEW S, NEW s \in Seq(S)
    PROVE  s \in Seq(Range(s)) /\ \A i \in 1..Len(s) : s[i] \in Range(s)
  <1>1. \A i \in 1..Len(s) : s[i] \in Range(s)
    BY DEF Range
  <1> QED  BY <1>1

LEMMA Unchanged ==
    ASSUME NEW s, s \in Seq(Range(s))
    PROVE  Len(s) \in Nat /\ DOMAIN s = 1..Len(s)
  OBVIOUS

-----------------------------------------------------------------------------
(* Tables.                                                                 *)

Tables(h, m) == h \in Seq([fields : {h[t].fields : t \in DOMAIN h}, mt : 0..m])

LEMMA TablesAre ==
    ASSUME NEW h, NEW m \in Nat, Tables(h, m)
    PROVE  /\ h \in Seq(Range(h)) /\ Len(h) \in Nat /\ DOMAIN h = 1..Len(h)
           /\ \A t \in 1..Len(h) :
                 h[t] = [fields |-> h[t].fields, mt |-> h[t].mt] /\ h[t].mt \in 0..m
  <1> DEFINE T == [fields : {h[t].fields : t \in DOMAIN h}, mt : 0..m]
  <1>1. h \in Seq(T)
    BY DEF Tables
  <1>2. \A r \in T : r = [fields |-> r.fields, mt |-> r.mt] /\ r.mt \in 0..m
    OBVIOUS
  <1> HIDE DEF T
  <1>3. Len(h) \in Nat /\ DOMAIN h = 1..Len(h) /\ \A t \in 1..Len(h) : h[t] \in T
    BY <1>1
  <1>4. h \in Seq(Range(h))
    BY <1>1, RangeTyped
  <1> QED  BY <1>2, <1>3, <1>4

LEMMA TablesIf ==
    ASSUME NEW h, NEW m \in Nat, h \in Seq(Range(h)),
           \A t \in 1..Len(h) :
              h[t] = [fields |-> h[t].fields, mt |-> h[t].mt] /\ h[t].mt \in 0..m
    PROVE  Tables(h, m)
  <1> DEFINE F == {h[t].fields : t \in DOMAIN h}
             T == [fields : F, mt : 0..m]
  <1>1. Len(h) \in Nat /\ DOMAIN h = 1..Len(h)
    OBVIOUS
  <1>2. \A t \in 1..Len(h) : h[t].fields \in F
    BY <1>1
  <1>3. \A f \in F, k \in 0..m : [fields |-> f, mt |-> k] \in T
    OBVIOUS
  <1> HIDE DEF F, T
  <1>4. \A t \in 1..Len(h) : h[t] \in T
    BY <1>2, <1>3
  <1>5. h \in Seq(T)
    BY <1>1, <1>4
  <1> QED  BY <1>5 DEF Tables, F, T

LEMMA TableAdded ==
    ASSUME NEW h, NEW m \in Nat, Tables(h, m)
    PROVE  LET g == Append(h, NewTable)
           IN  /\ Tables(g, m) /\ Len(g) = Len(h) + 1 /\ g[Len(h) + 1] = NewTable
               /\ \A t \in 1..Len(h) : g[t] = h[t]
  <1> DEFINE g == Append(h, NewTable)
             S == Range(h)
  <1>1. /\ h \in Seq(S) /\ Len(h) \in Nat
        /\ \A t \in 1..Len(h) :
              h[t] = [fields |-> h[t].fields, mt |-> h[t].mt] /\ h[t].mt \in 0..m
    BY TablesAre
  <1>2. /\ g \in Seq(S \cup {NewTable}) /\ Len(g) = Len(h) + 1 /\ g[Len(h) + 1] = NewTable
        /\ \A t \in 1..Len(h) : g[t] = h[t]
    BY <1>1, Appended
  <1> HIDE DEF g, S
  <1>3. g \in Seq(Range(g))
    BY <1>2, RangeTyped
  <1>4. NewTable = [fields |-> NewTable.fields, mt |-> NewTable.mt] /\ NewTable.mt \in 0..m
    BY DEF NewTable
  <1>5. ASSUME NEW t \in 1..Len(g)
        PROVE  g[t] = [fields |-> g[t].fields, mt |-> g[t].mt] /\ g[t].mt \in 0..m
    <2>1. t \in 1..Len(h) \/ t = Len(h) + 1
      BY <1>1, <1>2
    <2> QED  BY <1>1, <1>2, <1>4, <2>1
  <1>6. Tables(g, m)
    BY <1>3, <1>5, TablesIf
  <1> QED  BY <1>2, <1>6 DEF g

LEMMA TableReplaced ==
    ASSUME NEW h, NEW m \in Nat, Tables(h, m), NEW k \in Nat, m <= k,
           NEW t \in 1..Len(h), NEW f, NEW n \in 0..k,
           NEW g, g = [u \in 1..Len(h) |-> g[u]],
           g[t] = [fields |-> f, mt |-> n], \A u \in 1..Len(h) : u # t => g[u] = h[u]
    PROVE  /\ Tables(g, k) /\ Len(g) = Len(h)
           /\ g[t].fields = f /\ g[t].mt = n
  <1>1. /\ Len(h) \in Nat /\ DOMAIN h = 1..Len(h)
        /\ \A u \in 1..Len(h) :
              h[u] = [fields |-> h[u].fields, mt |-> h[u].mt] /\ h[u].mt \in 0..m
    BY TablesAre
  <1>2. g \in Seq(Range(g)) /\ Len(g) = Len(h)
    <2>1. \A u \in 1..Len(h) : g[u] \in Range(g)
      BY DEF Range
    <2> QED  BY <1>1, <2>1
  <1>3. g[t].fields = f /\ g[t].mt = n
    OBVIOUS
  <1>4. 0..m \subseteq 0..k
    OBVIOUS
  <1>5. \A u \in 1..Len(g) : g[u] = [fields |-> g[u].fields, mt |-> g[u].mt] /\ g[u].mt \in 0..k
    BY <1>1, <1>2, <1>3, <1>4
  <1>6. Tables(g, k)
    BY <1>2, <1>5, TablesIf
  <1> QED  BY <1>2, <1>3, <1>6

-----------------------------------------------------------------------------
(* The inductive invariant of the walk.                                    *)

Composite == {"array", "object"}

\* Calls are under way for the nodes of a path from the root; the nodes before
\* next that are not on it are finished with.
Finished == {n \in 1..(next - 1) : \A k \in DOMAIN calls : calls[k].json # n}

PlaceIn(d, m) == Cardinality({k \in 1..m : d[k].parent = d[m].parent})

KeyOf(d, m) ==
    IF d[d[m].parent].tag = "array" THEN <<"int", PlaceIn(d, m)>> ELSE <<"str", d[m].name>>

\* tables has the node each table was made for.
StandsFor(d, tables, v, m) ==
    CASE d[m].tag = "null" -> v = Nil
      [] d[m].tag = "leaf" -> v = <<"leaf", d[m].value>>
      [] OTHER -> \E t \in DOMAIN tables : tables[t] = m /\ v = <<"table", t>>

\* The order of tables is that of the nodes they were made for.
MadeInv ==
    /\ \A t \in DOMAIN made : made[t] < next /\ doc[made[t]].tag \in Composite
    /\ \A t, u \in DOMAIN made : t < u => made[t] < made[u]
    /\ \A n \in 1..(next - 1) : doc[n].tag \in Composite => \E t \in DOMAIN made : made[t] = n

CallOf(k) ==
    LET c == calls[k]
    IN  /\ c.json < next /\ doc[c.json].tag \in Composite
        /\ c.need_key <=> k # 1
        /\ doc[c.json].parent = IF k = 1 THEN 0 ELSE calls[k - 1].json
        /\ \A l \in 1..(k - 1) : calls[l].json < c.json
        /\ \A m \in (c.json + 1)..(next - 1) : doc[m].parent >= c.json
        /\ doc[c.json].tag = "array" =>
              c.i = 1 + Cardinality({m \in 1..(next - 1) : doc[m].parent = c.json})

CallInv ==
    /\ next <= 1 => calls = <<>>
    /\ \A k \in DOMAIN calls : CallOf(k)
    /\ \A m \in DOMAIN doc : doc[m].parent \in Finished => m < next

\* Under the table of each call lies the key it will get in the caller's.
StackInv ==
    /\ next = 1 => Len(stack) = 1 /\ stack[1] = <<"argument">>
    /\ next > 1 => Len(stack) = IF calls = <<>> THEN 2 ELSE 2 * Len(calls)
    /\ next > 1 /\ calls = <<>> => StandsFor(doc, made, stack[2], 1)
    /\ \A k \in DOMAIN calls :
          /\ StandsFor(doc, made, stack[2 * k], calls[k].json)
          /\ k # 1 => stack[2 * k - 1] = KeyOf(doc, calls[k].json)

ValueInv ==
    /\ next = 0 <=> doc = <<>>
    /\ value # None =>
          /\ calls = <<>> /\ next # 1
          /\ IF next = 0 THEN value = Nil ELSE StandsFor(doc, made, value, 1)
    /\ text # None => value # None

\* The table has what the latest of these nodes of each key stands for.
LatestOf(d, n, nodes, m) ==
    /\ m \in nodes /\ d[m].parent = n
    /\ \A k \in nodes : d[k].parent = n /\ k > m => KeyOf(d, k) # KeyOf(d, m)

Agrees(d, tables, f, n, nodes) ==
    /\ \A m \in nodes : LatestOf(d, n, nodes, m) =>
          IF d[m].tag = "null" THEN KeyOf(d, m) \notin DOMAIN f
          ELSE KeyOf(d, m) \in DOMAIN f /\ StandsFor(d, tables, f[KeyOf(d, m)], m)
    /\ \A key \in DOMAIN f : \E m \in nodes : d[m].parent = n /\ KeyOf(d, m) = key

FieldInv == \A t \in DOMAIN heap : Agrees(doc, made, heap[t].fields, made[t], Finished)

WalkInv == TypeOK /\ MadeInv /\ CallInv /\ StackInv /\ ValueInv /\ FieldInv

-----------------------------------------------------------------------------
(* Metatables.                                                             *)

\* Two tables have one metatable only by the script's doing.
MarkInv ==
    \A t \in DOMAIN heap \ mixed :
        /\ heap[t].mt \in marked <=> t \in asked
        /\ heap[t].mt # 0 => \A u \in DOMAIN heap \ {t} : heap[u].mt # heap[t].mt

\* While the script has changed none.
AskedInv == ops = 0 => mixed = {} /\ asked = {t \in DOMAIN made : doc[made[t]].tag = "array"}

\* What makearray and the walk do to a table.
LEMMA ArraySet ==
    ASSUME NEW h, mts \in Nat, Tables(h, mts), marked \in SUBSET (1..mts),
           NEW t \in 1..Len(h), SetsArray(h, t)
    PROVE  /\ mts' \in Nat /\ mts <= mts' /\ Tables(heap', mts') /\ Len(heap') = Len(h)
           /\ \A u \in 1..Len(h) : heap'[u].fields = h[u].fields
           /\ \A u \in 1..Len(h) : u # t => heap'[u].mt = h[u].mt
           /\ heap'[t].mt = IF h[t].mt = 0 THEN mts + 1 ELSE h[t].mt
           /\ heap'[t].mt # 0
           /\ marked' = marked \cup {heap'[t].mt} /\ marked' \in SUBSET (1..mts')
  <1> DEFINE m == [heap |-> h, marked |-> marked, mts |-> mts]
             s == SetTableAsJsonArray(m, t)
  <1>1. heap' = s.heap /\ marked' = s.marked /\ mts' = s.mts
    BY DEF SetsArray
  <1>2. /\ h[t].mt \in 0..mts /\ Len(h) \in Nat /\ h \in Seq(Range(h)) /\ DOMAIN h = 1..Len(h)
        /\ h[t] = [fields |-> h[t].fields, mt |-> h[t].mt]
    BY TablesAre
  <1> HIDE DEF s
  <1>3. CASE h[t].mt = 0
    <2>1. s = [heap |-> [h EXCEPT ![t].mt = mts + 1], marked |-> marked \cup {mts + 1},
               mts |-> mts + 1]
      BY <1>3 DEF SetTableAsJsonArray, s
    <2>2. /\ heap' = [h EXCEPT ![t].mt = mts + 1]
          /\ marked' = marked \cup {mts + 1} /\ mts' = mts + 1
      BY <1>1, <2>1
    <2>3. mts + 1 \in Nat /\ mts <= mts + 1 /\ mts + 1 \in 0..(mts + 1) /\ mts + 1 # 0
          /\ 1..mts \subseteq 1..(mts + 1) /\ mts + 1 \in 1..(mts + 1)
      OBVIOUS
    <2>4. /\ heap' = [u \in 1..Len(h) |-> heap'[u]]
          /\ heap'[t] = [fields |-> h[t].fields, mt |-> mts + 1]
          /\ \A u \in 1..Len(h) : u # t => heap'[u] = h[u]
      BY <1>2, <2>2
    <2>6. /\ Tables(heap', mts + 1) /\ Len(heap') = Len(h)
          /\ heap'[t].fields = h[t].fields /\ heap'[t].mt = mts + 1
      BY ONLY Tables(h, mts), mts \in Nat, t \in 1..Len(h), <2>3, <2>4, TableReplaced
    <2>5. marked \cup {mts + 1} \in SUBSET (1..(mts + 1))
      BY <2>3
    <2> QED  BY <1>3, <2>2, <2>3, <2>4, <2>5, <2>6
  <1>4. CASE h[t].mt # 0
    <2>1. s = [heap |-> h, marked |-> marked \cup {h[t].mt}, mts |-> mts]
      BY <1>4 DEF SetTableAsJsonArray, s
    <2>2. heap' = h /\ marked' = marked \cup {h[t].mt} /\ mts' = mts
      BY <1>1, <2>1
    <2>3. h[t].mt \in 1..mts /\ mts <= mts
      BY <1>2, <1>4
    <2> QED  BY <1>4, <2>2, <2>3
  <1> QED  BY <1>3, <1>4

LEMMA Typed ==
    ASSUME TypeOK
    PROVE  /\ Tables(heap, mts) /\ Len(heap) \in Nat /\ DOMAIN heap = 1..Len(heap)
           /\ DOMAIN made = 1..Len(heap)
           /\ \A t \in 1..Len(heap) : heap[t].mt \in 0..mts
  <1>1. Tables(heap, mts)
    BY DEF TypeOK, Tables
  <1>2. made \in Seq(DOMAIN doc) /\ Len(made) = Len(heap)
    BY DEF TypeOK
  <1>3. DOMAIN made = 1..Len(heap)
    BY <1>2
  <1>4. mts \in Nat
    BY DEF TypeOK
  <1> QED  BY <1>1, <1>3, <1>4, TablesAre

LEMMA MakeArrayMarks ==
    ASSUME TypeOK, MarkInv, NEW t \in DOMAIN heap, LuaDB_JsonMakeArray(t)
    PROVE  MarkInv'
  <1>1. /\ mts \in Nat /\ Tables(heap, mts) /\ marked \in SUBSET (1..mts)
        /\ Len(heap) \in Nat /\ DOMAIN heap = 1..Len(heap)
        /\ \A u \in DOMAIN heap : heap[u].mt \in 0..mts
    BY Typed DEF TypeOK
  <1>2. SetsArray(heap, t) /\ asked' = asked \cup {t} /\ mixed' = mixed
    BY DEF LuaDB_JsonMakeArray
  <1>3. /\ mts' \in Nat /\ mts <= mts' /\ Tables(heap', mts') /\ Len(heap') = Len(heap)
        /\ \A u \in DOMAIN heap : u # t => heap'[u].mt = heap[u].mt
        /\ heap'[t].mt = IF heap[t].mt = 0 THEN mts + 1 ELSE heap[t].mt
        /\ heap'[t].mt # 0
        /\ marked' = marked \cup {heap'[t].mt}
    BY <1>1, <1>2, ArraySet
  <1>4. DOMAIN heap' = DOMAIN heap
    BY <1>1, <1>3, TablesAre
  <1>5. ASSUME NEW u \in DOMAIN heap, u \notin mixed
        PROVE  heap'[u].mt \in marked' <=> u \in asked'
    <2>1. CASE u = t
      BY <1>2, <1>3, <2>1
    <2>2. CASE u # t
      <3>1. heap'[u].mt = heap[u].mt /\ (heap[u].mt \in marked <=> u \in asked)
        BY <1>3, <1>5, <2>2 DEF MarkInv
      <3>2. heap[u].mt # heap'[t].mt
        <4>1. CASE heap[t].mt = 0
          BY <1>1, <1>3, <4>1
        <4>2. CASE heap[t].mt # 0
          BY <1>3, <1>5, <2>2, <4>2 DEF MarkInv
        <4> QED  BY <4>1, <4>2
      <3> QED  BY <1>2, <1>3, <2>2, <3>1, <3>2
    <2> QED  BY <2>1, <2>2
  <1>6. ASSUME NEW u \in DOMAIN heap, u \notin mixed, heap'[u].mt # 0,
               NEW v \in DOMAIN heap \ {u}
        PROVE  heap'[v].mt # heap'[u].mt
    <2>1. u # t => heap'[u].mt = heap[u].mt
      BY <1>3
    <2>2. v # t => heap'[v].mt = heap[v].mt
      BY <1>3
    <2>3. heap[u].mt \in 0..mts /\ heap[v].mt \in 0..mts /\ heap[t].mt \in 0..mts
      BY <1>1
    <2>4. heap[u].mt # 0 => heap[v].mt # heap[u].mt
      BY <1>6 DEF MarkInv
    <2> QED  BY <1>1, <1>3, <1>6, <2>1, <2>2, <2>3, <2>4
  <1> QED  BY <1>2, <1>4, <1>5, <1>6 DEF MarkInv

LEMMA ScriptMarks ==
    ASSUME TypeOK, MarkInv, NEW t \in DOMAIN heap, NEW u \in DOMAIN heap,
           SetMetatable(t, u) \/ NewMetatable(t) \/ Unmark(t)
    PROVE  MarkInv'
  <1>1. /\ mts \in Nat /\ Tables(heap, mts) /\ marked \in SUBSET (1..mts)
        /\ Len(heap) \in Nat /\ DOMAIN heap = 1..Len(heap)
        /\ \A v \in DOMAIN heap : heap[v].mt \in 0..mts
        /\ heap \in Seq(Range(heap)) /\ heap[t] = [fields |-> heap[t].fields, mt |-> heap[t].mt]
    BY Typed, TablesAre DEF TypeOK
  <1>2. CASE SetMetatable(t, u)
    <2>1. /\ heap' = [heap EXCEPT ![t].mt = heap[u].mt]
          /\ mixed' = mixed \cup {t, u} /\ asked' = asked /\ marked' = marked
      BY <1>2 DEF SetMetatable
    <2>2. heap[u].mt \in 0..mts /\ mts <= mts
      BY <1>1
    <2>3. /\ heap' = [v \in 1..Len(heap) |-> heap'[v]]
          /\ heap'[t] = [fields |-> heap[t].fields, mt |-> heap[u].mt]
          /\ \A v \in 1..Len(heap) : v # t => heap'[v] = heap[v]
      BY <1>1, <2>1
    <2>4. Tables(heap', mts) /\ Len(heap') = Len(heap) /\ heap'[t].mt = heap[u].mt
      BY <1>1, <2>2, <2>3, TableReplaced
    <2>5. DOMAIN heap' = DOMAIN heap
      BY <1>1, <2>4, TablesAre
    <2> QED  BY <1>1, <2>1, <2>3, <2>4, <2>5 DEF MarkInv
  <1>3. CASE NewMetatable(t)
    <2>1. /\ heap' = [heap EXCEPT ![t].mt = mts + 1]
          /\ mixed' = mixed \cup {t} /\ asked' = asked /\ marked' = marked
      BY <1>3 DEF NewMetatable
    <2>2. mts + 1 \in 0..(mts + 1) /\ mts + 1 \in Nat /\ mts <= mts + 1
          /\ \A v \in DOMAIN heap : heap[v].mt # mts + 1
      BY <1>1
    <2>3. /\ heap' = [v \in 1..Len(heap) |-> heap'[v]]
          /\ heap'[t] = [fields |-> heap[t].fields, mt |-> mts + 1]
          /\ \A v \in 1..Len(heap) : v # t => heap'[v] = heap[v]
      BY <1>1, <2>1
    <2>4. Tables(heap', mts + 1) /\ Len(heap') = Len(heap) /\ heap'[t].mt = mts + 1
      BY <1>1, <2>2, <2>3, TableReplaced
    <2>5. DOMAIN heap' = DOMAIN heap
      BY <1>1, <2>2, <2>4, TablesAre
    <2> QED  BY <1>1, <2>1, <2>2, <2>3, <2>4, <2>5 DEF MarkInv
  <1>4. CASE Unmark(t)
    <2>1. /\ heap' = heap /\ heap[t].mt # 0 /\ marked' = marked \ {heap[t].mt}
          /\ mixed' = mixed \cup {t} /\ asked' = asked
      BY <1>4 DEF Unmark
    <2> QED  BY <2>1 DEF MarkInv
  <1> QED  BY <1>2, <1>3, <1>4

-----------------------------------------------------------------------------
(* The steps of the walk.                                                  *)

\* lua_settable changes one field of one table, and no metatable.
FieldIsSet(new, t, key, val) ==
    /\ Tables(new, mts) /\ Len(new) = Len(heap)
    /\ \A u \in 1..Len(heap) : new[u].mt = heap[u].mt
    /\ \A u \in 1..Len(heap) : u # t => new[u].fields = heap[u].fields
    /\ DOMAIN new[t].fields = (DOMAIN heap[t].fields \ {key}) \cup (IF val = Nil THEN {} ELSE {key})
    /\ val # Nil => new[t].fields[key] = val
    /\ \A k \in DOMAIN new[t].fields : k # key => new[t].fields[k] = heap[t].fields[k]

LEMMA FieldSet ==
    ASSUME mts \in Nat, Tables(heap, mts), NEW s, Len(s) \in Nat, NEW t \in 1..Len(heap),
           s[Len(s) - 2] = <<"table", t>>, NEW new, new = lua_settable(s)
    PROVE  FieldIsSet(new, t, s[Len(s) - 1], s[Len(s)])
  <1> DEFINE key == s[Len(s) - 1]
             val == s[Len(s)]
             f == heap[t].fields
             g == [k \in (DOMAIN f \ {key}) \cup (IF val = Nil THEN {} ELSE {key}) |->
                      IF k = key THEN val ELSE f[k]]
  <1> HIDE DEF key, val, g
  <1>1. /\ Len(heap) \in Nat /\ DOMAIN heap = 1..Len(heap) /\ heap \in Seq(Range(heap))
        /\ \A u \in 1..Len(heap) :
              heap[u] = [fields |-> heap[u].fields, mt |-> heap[u].mt] /\ heap[u].mt \in 0..mts
    BY TablesAre
  <1>2. s[Len(s) - 2][2] = t
    OBVIOUS
  <1>3. new = [heap EXCEPT ![t].fields = g]
    BY <1>2 DEF lua_settable, key, val, g
  <1>4. /\ DOMAIN g = (DOMAIN f \ {key}) \cup (IF val = Nil THEN {} ELSE {key})
        /\ val # Nil => g[key] = val
        /\ \A k \in DOMAIN g : k # key => g[k] = f[k]
    BY DEF g
  <1>5. /\ new = [u \in 1..Len(heap) |-> new[u]]
        /\ new[t] = [fields |-> g, mt |-> heap[t].mt]
        /\ \A u \in 1..Len(heap) : u # t => new[u] = heap[u]
    BY <1>1, <1>3
  <1>6. heap[t].mt \in 0..mts /\ mts <= mts
    BY <1>1
  <1>7. /\ Tables(new, mts) /\ Len(new) = Len(heap)
        /\ new[t].fields = g /\ new[t].mt = heap[t].mt
    BY ONLY Tables(heap, mts), mts \in Nat, t \in 1..Len(heap), <1>5, <1>6, TableReplaced
  <1>8. FieldIsSet(new, t, key, val)
    BY <1>4, <1>5, <1>7 DEF FieldIsSet
  <1> QED  BY <1>8 DEF key, val

\* What a document is, for the one being decoded.
LEMMA DocIs ==
    ASSUME TypeOK
    PROVE  /\ Len(doc) \in Nat /\ DOMAIN doc = 1..Len(doc) /\ next \in Nat /\ next <= Len(doc) + 1
           /\ \A n \in 1..Len(doc) :
                 /\ doc[n].tag \in {"null", "leaf"} \cup Composite
                 /\ doc[n].parent \in Nat /\ doc[n].parent < n /\ (doc[n].parent = 0 <=> n = 1)
                 /\ n # 1 => doc[n].parent \in 1..Len(doc) /\ doc[doc[n].parent].tag \in Composite
                 /\ \A m \in 1..n : m > doc[n].parent => doc[m].parent >= doc[n].parent
  <1>1. IsDocument(doc) /\ next \in 0..(Len(doc) + 1)
    BY DEF TypeOK
  <1>2. Len(doc) \in Nat /\ DOMAIN doc = 1..Len(doc)
    BY <1>1 DEF IsDocument
  <1>3. next \in Nat /\ next <= Len(doc) + 1
    BY <1>1, <1>2
  <1>4. ASSUME NEW n \in 1..Len(doc)
        PROVE  /\ doc[n].tag \in {"null", "leaf"} \cup Composite
               /\ doc[n].parent \in Nat /\ doc[n].parent < n /\ (doc[n].parent = 0 <=> n = 1)
               /\ n # 1 => doc[n].parent \in 1..Len(doc) /\ doc[doc[n].parent].tag \in Composite
               /\ \A m \in 1..n : m > doc[n].parent => doc[m].parent >= doc[n].parent
    <2>1. /\ doc[n].tag \in {"null", "leaf", "array", "object"}
          /\ doc[n].parent \in 0..(n - 1) /\ (doc[n].parent = 0 <=> n = 1)
          /\ n # 1 => doc[doc[n].parent].tag \in {"array", "object"}
          /\ \A m \in (doc[n].parent + 1)..n : doc[m].parent >= doc[n].parent
      BY <1>1, <1>2 DEF IsDocument
    <2>2. doc[n].parent \in Nat /\ doc[n].parent < n
      BY <2>1
    <2>3. n # 1 => doc[n].parent \in 1..Len(doc)
      BY <1>2, <2>1, <2>2
    <2>4. \A m \in 1..n : m > doc[n].parent => m \in (doc[n].parent + 1)..n
      BY <2>2
    <2> QED  BY <2>1, <2>2, <2>3, <2>4 DEF Composite
  <1> QED  BY <1>2, <1>3, <1>4

LEMMA CallsAre ==
    ASSUME TypeOK
    PROVE  /\ Len(calls) \in Nat /\ DOMAIN calls = 1..Len(calls) /\ (calls = <<>> <=> Len(calls) = 0)
           /\ \A k \in 1..Len(calls) :
                 /\ calls[k] = [json |-> calls[k].json, need_key |-> calls[k].need_key, i |-> calls[k].i]
                 /\ calls[k].json \in DOMAIN doc /\ calls[k].i \in Nat /\ calls[k].need_key \in BOOLEAN
  <1> DEFINE R == [json : DOMAIN doc, i : Nat, need_key : BOOLEAN]
  <1>1. calls \in Seq(R)
    BY DEF TypeOK
  <1>3. \A c \in R :
            /\ c = [json |-> c.json, need_key |-> c.need_key, i |-> c.i]
            /\ c.json \in DOMAIN doc /\ c.i \in Nat /\ c.need_key \in BOOLEAN
    OBVIOUS
  <1> HIDE DEF R
  <1>2. Len(calls) \in Nat /\ DOMAIN calls = 1..Len(calls) /\ (calls = <<>> <=> Len(calls) = 0)
    BY <1>1
  <1>4. \A k \in 1..Len(calls) : calls[k] \in R
    BY <1>1, <1>2
  <1> QED  BY <1>2, <1>3, <1>4

\* The place of a node is one more than the elements before it.
LEMMA PlaceIs ==
    ASSUME NEW n \in Nat \ {0}
    PROVE  /\ Place(n) = 1 + Cardinality({m \in 1..(n - 1) : doc[m].parent = doc[n].parent})
           /\ Place(n) \in Nat \ {0}
  <1> DEFINE p == doc[n].parent
             before == {m \in 1..(n - 1) : doc[m].parent = p}
             upto == {m \in 1..n : doc[m].parent = p}
  <1>1. n - 1 \in Int /\ 1 \in Int
    OBVIOUS
  <1>2. IsFiniteSet(1..(n - 1))
    BY <1>1, FS_Interval
  <1>3. before \in SUBSET (1..(n - 1)) /\ n \notin before /\ upto = before \cup {n}
    OBVIOUS
  <1> HIDE DEF before, upto
  <1>4. IsFiniteSet(before)
    BY <1>2, <1>3, FS_Subset
  <1>5. Cardinality(before) \in Nat /\ Cardinality(before \cup {n}) = Cardinality(before) + 1
    BY <1>3, <1>4, FS_AddElement, FS_CardinalityType
  <1>6. Place(n) = Cardinality(upto)
    BY DEF Place, upto, p
  <1>7. Place(n) = 1 + Cardinality(before) /\ Place(n) \in Nat \ {0}
    BY <1>3, <1>5, <1>6
  <1> QED  BY <1>7 DEF before, p

\* The fields of a table once one more child of its node is finished with.
LEMMA FieldsGrow ==
    ASSUME NEW d, NEW tables, NEW f, NEW g, NEW n, NEW nodes \in SUBSET Nat,
           Agrees(d, tables, f, n, nodes),
           NEW m \in Nat, d[m].parent = n, \A k \in nodes : d[k].parent = n => k < m,
           NEW v, StandsFor(d, tables, v, m),
           DOMAIN g = (DOMAIN f \ {KeyOf(d, m)}) \cup (IF v = Nil THEN {} ELSE {KeyOf(d, m)}),
           v # Nil => g[KeyOf(d, m)] = v,
           \A k \in DOMAIN g : k # KeyOf(d, m) => g[k] = f[k]
    PROVE  Agrees(d, tables, g, n, nodes \cup {m})
  <1> DEFINE all == nodes \cup {m}
  <1>1. v = Nil <=> d[m].tag = "null"
    BY DEF StandsFor, Nil
  <1>2. ASSUME NEW j \in all, LatestOf(d, n, all, j)
        PROVE  IF d[j].tag = "null" THEN KeyOf(d, j) \notin DOMAIN g
               ELSE KeyOf(d, j) \in DOMAIN g /\ StandsFor(d, tables, g[KeyOf(d, j)], j)
    <2>1. CASE j = m
      BY <1>1, <2>1
    <2>2. CASE j # m
      <3>1. j \in nodes /\ d[j].parent = n /\ j < m
        BY <1>2, <2>2 DEF LatestOf
      <3>2. KeyOf(d, j) # KeyOf(d, m)
        BY <1>2, <3>1 DEF LatestOf
      <3>3. LatestOf(d, n, nodes, j)
        BY <1>2, <3>1 DEF LatestOf
      <3>4. IF d[j].tag = "null" THEN KeyOf(d, j) \notin DOMAIN f
            ELSE KeyOf(d, j) \in DOMAIN f /\ StandsFor(d, tables, f[KeyOf(d, j)], j)
        BY <3>1, <3>3 DEF Agrees
      <3>5. KeyOf(d, j) \in DOMAIN f <=> KeyOf(d, j) \in DOMAIN g
        BY <3>2
      <3>6. KeyOf(d, j) \in DOMAIN g => g[KeyOf(d, j)] = f[KeyOf(d, j)]
        BY <3>2
      <3> QED  BY <3>4, <3>5, <3>6
    <2> QED  BY <2>1, <2>2
  <1>3. ASSUME NEW key \in DOMAIN g
        PROVE  \E j \in all : d[j].parent = n /\ KeyOf(d, j) = key
    <2>1. CASE key = KeyOf(d, m)
      BY <2>1
    <2>2. CASE key # KeyOf(d, m)
      <3>1. key \in DOMAIN f
        BY <2>2
      <3> QED  BY <3>1 DEF Agrees
    <2> QED  BY <2>1, <2>2
  <1> QED  BY <1>2, <1>3 DEF Agrees

\* A node that is no child of a table's own changes nothing of what it has.
LEMMA FieldsKept ==
    ASSUME NEW d, NEW tables, NEW f, NEW n, NEW nodes, Agrees(d, tables, f, n, nodes),
           NEW m, d[m].parent # n
    PROVE  Agrees(d, tables, f, n, nodes \cup {m})
  <1> DEFINE all == nodes \cup {m}
  <1>1. \A j \in all : LatestOf(d, n, all, j) => j \in nodes /\ LatestOf(d, n, nodes, j)
    BY DEF LatestOf
  <1> QED  BY <1>1 DEF Agrees

LEMMA TableFor ==
    ASSUME NEW d, NEW tables, NEW v, NEW m, d[m].tag \in Composite, StandsFor(d, tables, v, m)
    PROVE  \E t \in DOMAIN tables : tables[t] = m /\ v = <<"table", t>>
  BY DEF StandsFor, Composite

\* A table more changes nothing of what the others stand for.
LEMMA StandsStill ==
    ASSUME NEW d, NEW S, NEW tables \in Seq(S), NEW x, NEW v, NEW m, StandsFor(d, tables, v, m)
    PROVE  StandsFor(d, Append(tables, x), v, m)
  <1>1. /\ DOMAIN tables = 1..Len(tables) /\ DOMAIN Append(tables, x) = 1..(Len(tables) + 1)
        /\ Len(tables) \in Nat /\ \A t \in 1..Len(tables) : Append(tables, x)[t] = tables[t]
    BY Appended
  <1>2. \A t \in DOMAIN tables : t \in DOMAIN Append(tables, x) /\ Append(tables, x)[t] = tables[t]
    BY <1>1
  <1> QED  BY <1>2 DEF StandsFor

\* A call is made for the next node by the loop of its parent, which pushes the
\* key of that node.
LEMMA CallMade ==
    ASSUME TypeOK, CallInv, StackInv, Reached
    PROVE  /\ NeedKey <=> calls # <<>>
           /\ calls = <<>> => next = 1 /\ Keyed = stack /\ Len(stack) = 1
           /\ calls # <<>> =>
                 /\ next > 1 /\ Looping = calls[Len(calls)].json /\ doc[next].parent = Looping
                 /\ Looping \in 1..Len(doc) /\ doc[Looping].tag \in Composite
                 /\ Len(stack) = 2 * Len(calls)
                 /\ StandsFor(doc, made, stack[2 * Len(calls)], Looping)
                 /\ Keyed = Append(stack, KeyOf(doc, next))
  <1>1. /\ Len(doc) \in Nat /\ DOMAIN doc = 1..Len(doc) /\ next \in 1..Len(doc) /\ next \in Nat
        /\ doc[next].parent = Looping /\ (doc[next].parent = 0 <=> next = 1)
    BY DocIs DEF Reached
  <1>2. Len(calls) \in Nat /\ DOMAIN calls = 1..Len(calls) /\ (calls = <<>> <=> Len(calls) = 0)
    BY CallsAre
  <1>3. CASE calls = <<>>
    <2>1. Looping = 0 /\ next = 1
      BY <1>1, <1>3 DEF Looping
    <2>2. ~ NeedKey
      BY <1>1, <2>1 DEF NeedKey
    <2> QED  BY <1>3, <2>1, <2>2 DEF Keyed, StackInv
  <1>4. CASE calls # <<>>
    <2> DEFINE L == Len(calls)
    <2>1. L \in 1..Len(calls) /\ L \in DOMAIN calls /\ L > 0
      BY <1>2, <1>4
    <2>2. Looping = calls[L].json /\ Looping \in 1..Len(doc) /\ next > 1
      <3>1. Looping = calls[L].json
        BY <1>4 DEF Looping, Last
      <3>2. calls[L].json \in DOMAIN doc
        BY <2>1, CallsAre
      <3> QED  BY <1>1, <3>1, <3>2
    <2>3. CallOf(L)
      BY <2>1 DEF CallInv
    <2>4. doc[Looping].tag \in Composite
      BY <2>2, <2>3 DEF CallOf
    <2>5. Len(stack) = 2 * L /\ StandsFor(doc, made, stack[2 * L], Looping)
      BY <1>4, <2>1, <2>2 DEF StackInv
    <2>6. lua_istable(stack)
      <3>1. PICK t \in DOMAIN made : stack[2 * L] = <<"table", t>>
        BY <2>4, <2>5, TableFor
      <3>2. Last(stack) = <<"table", t>>
        BY <2>5, <3>1 DEF Last
      <3> QED  BY <3>2 DEF lua_istable
    <2>7. NeedKey
      BY <1>1, <2>2, <2>6 DEF NeedKey
    <2>8. doc[Looping].tag = "array" => GivenI = PlaceIn(doc, next)
      <3> SUFFICES ASSUME doc[Looping].tag = "array" PROVE GivenI = PlaceIn(doc, next)
        OBVIOUS
      <3>1. calls[L].i = 1 + Cardinality({m \in 1..(next - 1) : doc[m].parent = calls[L].json})
        BY <2>2, <2>3 DEF CallOf
      <3>2. GivenI = calls[L].i
        BY <1>4 DEF GivenI, Last
      <3>3. Place(next) = 1 + Cardinality({m \in 1..(next - 1) : doc[m].parent = doc[next].parent})
        BY <1>1, PlaceIs
      <3>4. Place(next) = PlaceIn(doc, next)
        BY DEF Place, PlaceIn
      <3> QED  BY <1>1, <2>2, <3>1, <3>2, <3>3, <3>4
    <2>9. Keyed = Append(stack, KeyOf(doc, next))
      BY <1>1, <2>7, <2>8 DEF Keyed, KeyOf
    <2> QED  BY <1>1, <1>4, <2>2, <2>4, <2>5, <2>7, <2>9
  <1> QED  BY <1>3, <1>4

\* The calls when a call for a further node has been made.
LEMMA CountedIs ==
    ASSUME TypeOK
    PROVE  /\ Counted \in Seq([json : DOMAIN doc, i : Nat, need_key : BOOLEAN])
           /\ Len(Counted) = Len(calls)
           /\ \A k \in 1..Len(calls) :
                 /\ Counted[k].json = calls[k].json /\ Counted[k].need_key = calls[k].need_key
                 /\ k # Len(calls) => Counted[k].i = calls[k].i
                 /\ k = Len(calls) /\ doc[calls[k].json].tag = "array" => Counted[k].i = calls[k].i + 1
  <1> DEFINE R == [json : DOMAIN doc, i : Nat, need_key : BOOLEAN]
             L == Len(calls)
  <1>1. calls \in Seq(R)
    BY DEF TypeOK
  <1>2. /\ L \in Nat /\ DOMAIN calls = 1..L /\ (calls = <<>> <=> L = 0)
        /\ \A k \in 1..L :
              /\ calls[k] = [json |-> calls[k].json, need_key |-> calls[k].need_key, i |-> calls[k].i]
              /\ calls[k].json \in DOMAIN doc /\ calls[k].i \in Nat /\ calls[k].need_key \in BOOLEAN
    BY CallsAre
  <1>3. calls # <<>> => L \in 1..L /\ Looping = calls[L].json
    BY <1>2 DEF Looping, Last
  <1>4. CASE calls # <<>> /\ doc[Looping].tag = "array"
    <2> DEFINE new == [json |-> calls[L].json, need_key |-> calls[L].need_key, i |-> calls[L].i + 1]
    <2>1. L \in 1..L /\ calls[L].i \in Nat
      BY <1>2, <1>3, <1>4
    <2>2. new \in R
      BY <1>2, <2>1
    <2>3. Counted = [calls EXCEPT ![L] = new]
      <3>1. [calls[L] EXCEPT !.i = @ + 1] = new
        BY <1>2, <2>1
      <3>2. Counted = [calls EXCEPT ![L] = [calls[L] EXCEPT !.i = @ + 1]]
        BY <1>4 DEF Counted
      <3> QED  BY <3>1, <3>2
    <2>4. new.json = calls[L].json /\ new.need_key = calls[L].need_key /\ new.i = calls[L].i + 1
      OBVIOUS
    <2> HIDE DEF new, R
    <2>5. /\ Counted \in Seq(R) /\ Len(Counted) = L
          /\ \A k \in 1..L : Counted[k] = IF k = L THEN new ELSE calls[k]
      BY <1>1, <2>1, <2>2, <2>3, Replaced
    <2> QED  BY <2>4, <2>5 DEF R
  <1>5. CASE ~ (calls # <<>> /\ doc[Looping].tag = "array")
    <2>1. Counted = calls
      BY <1>5 DEF Counted
    <2>2. \A k \in 1..L : k = L => doc[calls[k].json].tag # "array"
      BY <1>2, <1>3, <1>5
    <2> QED  BY <1>1, <2>1, <2>2
  <1> QED  BY <1>4, <1>5

\* The calls that were there are what they were, with one element more.
LEMMA CallsGoOn ==
    ASSUME TypeOK, CallInv, Reached, next' = next + 1, doc' = doc,
           \A k \in 1..Len(calls) : calls'[k] = Counted[k]
    PROVE  \A k \in 1..Len(calls) : CallOf(k)'
  <1> DEFINE L == Len(calls)
  <1>1. /\ L \in Nat /\ DOMAIN calls = 1..L /\ (calls = <<>> <=> L = 0)
        /\ \A k \in 1..L : calls[k].json \in 1..Len(doc)
    BY CallsAre, DocIs
  <1>2. /\ next \in 1..Len(doc) /\ next \in Nat /\ Len(doc) \in Nat
        /\ doc[next].parent = Looping /\ (calls # <<>> => Looping = calls[L].json)
    BY DocIs DEF Reached, Looping, Last
  <1> SUFFICES ASSUME NEW k \in 1..L PROVE CallOf(k)'
    OBVIOUS
  <1>n. L \in Nat /\ L \in 1..L /\ k \in Nat /\ k <= L /\ (k # L => k \in 1..(L - 1))
    <2>1. L \in Nat
      BY <1>1
    <2> HIDE DEF L
    <2> QED  BY <2>1
  <1>3. CallOf(k) /\ CallOf(L) /\ L \in 1..L /\ calls # <<>>
    <2>1. k \in DOMAIN calls /\ L \in DOMAIN calls
      BY <1>1, <1>n
    <2>2. L # 0
      BY <1>n
    <2> HIDE DEF L
    <2> QED  BY <1>1, <1>n, <2>1, <2>2 DEF CallInv
  <1>4. \A l \in 1..L : calls'[l].json = calls[l].json /\ calls'[l].need_key = calls[l].need_key
    BY CountedIs
  <1> DEFINE n == calls[k].json
  <1>5. n \in 1..Len(doc) /\ calls[L].json \in 1..Len(doc) /\ n < next /\ n <= calls[L].json
    <2>1. calls[k].json \in Nat /\ calls[L].json \in Nat
      <3>1. calls[k].json \in 1..Len(doc) /\ calls[L].json \in 1..Len(doc)
        BY <1>1, <1>n
      <3> QED  BY <3>1
    <2>2. calls[k].json <= calls[L].json
      <3>1. CASE k = L
        BY <2>1, <3>1
      <3>2. CASE k # L
        BY <1>3, <1>n, <2>1, <3>2 DEF CallOf
      <3> QED  BY <3>1, <3>2
    <2> QED  BY <1>1, <1>3, <2>2 DEF CallOf
  <1>6. \A m \in (n + 1)..next : doc[m].parent >= n
    <2>1. doc[next].parent >= n
      BY <1>2, <1>3, <1>5
    <2>2. \A m \in (n + 1)..(next - 1) : doc[m].parent >= n
      BY <1>3 DEF CallOf
    <2> QED  BY <1>2, <1>5, <2>1, <2>2
  <1>7. ASSUME doc[n].tag = "array"
        PROVE  calls'[k].i = 1 + Cardinality({m \in 1..next : doc[m].parent = n})
    <2> DEFINE before == {m \in 1..(next - 1) : doc[m].parent = n}
               upto == {m \in 1..next : doc[m].parent = n}
    <2>1. calls[k].i = 1 + Cardinality(before)
      BY <1>3, <1>7 DEF CallOf
    <2>2. CASE k = L
      <3>1. calls'[k].i = calls[k].i + 1
        BY <1>7, <2>2, CountedIs
      <3>2. doc[next].parent = n
        BY <1>2, <1>3, <2>2
      <3>3. Place(next) = 1 + Cardinality(before) /\ Place(next) \in Nat
        BY <1>2, <3>2, PlaceIs
      <3>4. Place(next) = Cardinality(upto)
        BY <3>2 DEF Place
      <3> QED  BY <2>1, <3>1, <3>3, <3>4
    <2>3. CASE k # L
      <3>1. calls'[k].i = calls[k].i
        BY <2>3, CountedIs
      <3>2. calls[L].json # n
        <4>1. calls[k].json < calls[L].json
          BY <1>3, <1>n, <2>3 DEF CallOf
        <4> QED  BY <1>1, <1>5, <4>1
      <3>3. doc[next].parent # n
        BY <1>2, <1>3, <3>2
      <3>4. upto = before
        BY <1>2, <3>3
      <3> QED  BY <2>1, <3>1, <3>4
    <2> QED  BY <2>2, <2>3
  <1>8. next' - 1 = next /\ next' = next + 1
    BY <1>2
  <1>9. (k # 1 => k - 1 \in 1..L) /\ \A l \in 1..(k - 1) : l \in 1..L
    BY <1>n
  <1>10. calls'[k].json = n /\ calls'[k].need_key = calls[k].need_key
    BY <1>4
  <1>11. /\ n < next + 1 /\ doc[n].tag \in Composite /\ (calls[k].need_key <=> k # 1)
         /\ doc[n].parent = IF k = 1 THEN 0 ELSE calls'[k - 1].json
    BY <1>2, <1>3, <1>4, <1>5, <1>9 DEF CallOf
  <1>12. \A l \in 1..(k - 1) : calls'[l].json < n
    BY <1>3, <1>4, <1>9 DEF CallOf
  <1> HIDE DEF n
  <1> QED  BY <1>6, <1>7, <1>8, <1>10, <1>11, <1>12 DEF CallOf

\* While a node is to be called for, decoding has not returned.
LEMMA Reaching ==
    ASSUME TypeOK, CallInv, ValueInv, Reached
    PROVE  /\ value = None /\ text = None /\ next \in 1..Len(doc) /\ next \in Nat
           /\ doc # <<>> /\ \A k \in 1..Len(calls) : calls[k].json < next
  <1>1. /\ Len(doc) \in Nat /\ next \in 1..Len(doc) /\ next \in Nat
        /\ doc[next].parent = Looping /\ (doc[next].parent = 0 <=> next = 1)
    BY DocIs DEF Reached
  <1>2. value = None
    <2> SUFFICES ASSUME value # None PROVE FALSE
      OBVIOUS
    <2>1. calls = <<>> /\ next # 1
      BY DEF ValueInv
    <2>2. Looping = 0
      BY <2>1 DEF Looping
    <2> QED  BY <1>1, <2>1, <2>2
  <1>3. next # 0
    BY <1>1
  <1>4. DOMAIN calls = 1..Len(calls)
    BY CallsAre
  <1>5. \A k \in 1..Len(calls) : calls[k].json < next
    BY <1>4 DEF CallInv, CallOf
  <1> QED  BY <1>1, <1>2, <1>3, <1>5 DEF ValueInv

\* Pushing what a call is given for a key, and the value, and setting the field.
LEMMA LeafPushed ==
    ASSUME NEW S, NEW s \in Seq(S), NEW key, NEW v
    PROVE  LET p == Append(Append(s, key), v)
               b == SubSeq(p, 1, Len(p) - 2)
           IN  /\ Len(p) = Len(s) + 2 /\ p[Len(p) - 1] = key /\ p[Len(p)] = v
               /\ Len(s) # 0 => p[Len(p) - 2] = s[Len(s)]
               /\ b \in Seq(Range(b)) /\ Len(b) = Len(s) /\ \A i \in 1..Len(s) : b[i] = s[i]
  <1> DEFINE q == Append(s, key)
             p == Append(q, v)
             b == SubSeq(p, 1, Len(p) - 2)
  <1>1. /\ q \in Seq(S \cup {key}) /\ Len(q) = Len(s) + 1 /\ q[Len(s) + 1] = key
        /\ \A i \in 1..Len(s) : q[i] = s[i]
    BY Appended
  <1>2. /\ p \in Seq((S \cup {key}) \cup {v}) /\ Len(p) = Len(q) + 1 /\ p[Len(q) + 1] = v
        /\ \A i \in 1..Len(q) : p[i] = q[i]
    BY <1>1, Appended
  <1>3. Len(s) \in Nat
    OBVIOUS
  <1> HIDE DEF p, q
  <1>4. Len(p) - 2 = Len(s) /\ Len(p) - 2 \in 0..Len(p)
    BY <1>1, <1>2, <1>3
  <1>5. /\ b \in Seq((S \cup {key}) \cup {v}) /\ Len(b) = Len(s)
        /\ \A i \in 1..Len(s) : b[i] = p[i]
    BY <1>2, <1>4, Shortened
  <1> HIDE DEF b
  <1>6. b \in Seq(Range(b))
    BY <1>5, RangeTyped
  <1>7. \A i \in 1..Len(s) : i \in 1..Len(q) /\ p[i] = s[i]
    BY <1>1, <1>2, <1>3
  <1>8. Len(s) # 0 => p[Len(p) - 2] = s[Len(s)]
    <2>1. Len(s) # 0 => Len(s) \in 1..Len(s)
      BY <1>3
    <2> QED  BY <1>4, <1>7, <2>1
  <1>9. p[Len(p) - 1] = key /\ p[Len(p)] = v
    <2>1. Len(q) \in 1..Len(q) /\ Len(p) - 1 = Len(q) /\ p[Len(q)] = q[Len(q)] /\ Len(p) = Len(q) + 1
      BY <1>1, <1>2, <1>3
    <2> QED  BY <1>1, <1>2, <2>1
  <1> QED  BY <1>1, <1>2, <1>3, <1>5, <1>6, <1>7, <1>8, <1>9 DEF p, q, b

\* A string, number, boolean or null: its node is finished with at once.
LEMMA LeafFinished ==
    ASSUME TypeOK, CallInv, Reached, doc[next].tag \in {"leaf", "null"},
           next' = next + 1, calls' = Counted, doc' = doc
    PROVE  /\ Finished' = Finished \cup {next} /\ Len(calls') = Len(calls) /\ DOMAIN calls' = DOMAIN calls
           /\ \A k \in DOMAIN calls : calls'[k].json = calls[k].json
           /\ CallInv'
  <1>1. /\ next \in 1..Len(doc) /\ next \in Nat /\ Len(doc) \in Nat /\ DOMAIN doc = 1..Len(doc)
    BY DocIs DEF Reached
  <1>2. /\ DOMAIN calls = 1..Len(calls) /\ Len(calls) \in Nat
        /\ \A k \in DOMAIN calls : calls[k].json < next
    BY CallsAre DEF CallInv, CallOf
  <1>3. /\ Len(calls') = Len(calls) /\ calls' \in Seq([json : DOMAIN doc, i : Nat, need_key : BOOLEAN])
        /\ \A k \in 1..Len(calls) : calls'[k].json = calls[k].json
    BY CountedIs
  <1>4. DOMAIN calls' = 1..Len(calls)
    BY <1>3
  <1>5. \A k \in DOMAIN calls : calls[k].json # next
    BY <1>1, <1>2
  <1>6. next' - 1 = next
    BY <1>1
  <1>7. ASSUME NEW n
        PROVE  n \in Finished' <=> n \in Finished \cup {next}
    <2>1. n \in 1..next <=> n \in 1..(next - 1) \/ n = next
      BY <1>1
    <2>2. n \in Finished' <=> n \in 1..next /\ \A k \in DOMAIN calls : calls[k].json # n
      BY <1>2, <1>3, <1>4, <1>6 DEF Finished
    <2> QED  BY <1>5, <2>1, <2>2 DEF Finished
  <1>8. \A k \in DOMAIN calls' : CallOf(k)'
    BY <1>2, <1>4, CallsGoOn
  <1>9. ASSUME NEW m \in DOMAIN doc, doc[m].parent \in Finished'
        PROVE  m < next'
    <2>1. doc[m].parent # next
      <3>1. m # 1 => doc[doc[m].parent].tag \in Composite
        BY <1>1, DocIs
      <3>2. m = 1 => doc[m].parent = 0
        BY <1>1, DocIs
      <3> QED  BY <1>1, <3>1, <3>2 DEF Composite
    <2>2. m < next
      BY <1>7, <1>9, <2>1 DEF CallInv
    <2> QED  BY <1>1, <2>2
  <1>10. ~ next' <= 1
    BY <1>1
  <1>11. Finished' = Finished \cup {next}
    BY <1>7
  <1> QED  BY <1>2, <1>3, <1>4, <1>8, <1>9, <1>10, <1>11 DEF CallInv

\* A leaf or null is put under its key, and the caller counts it.
LEMMA ConvertLeafWalks ==
    ASSUME WalkInv, ConvertLeaf
    PROVE  WalkInv'
  <1>t. TypeOK /\ MadeInv /\ CallInv /\ StackInv /\ ValueInv /\ FieldInv
    BY DEF WalkInv
  <1>s. /\ Reached /\ doc[next].tag \in {"leaf", "null"} /\ next' = next + 1 /\ calls' = Counted
        /\ marked' = marked /\ mts' = mts /\ doc' = doc /\ made' = made /\ value' = value
        /\ text' = text /\ ops' = ops /\ asked' = asked /\ mixed' = mixed
    BY DEF ConvertLeaf
  <1>1. /\ value = None /\ text = None /\ next \in 1..Len(doc) /\ next \in Nat /\ doc # <<>>
        /\ Len(doc) \in Nat /\ DOMAIN doc = 1..Len(doc)
    BY <1>t, <1>s, Reaching, DocIs
  <1>2. /\ Finished' = Finished \cup {next} /\ Len(calls') = Len(calls) /\ DOMAIN calls' = DOMAIN calls
        /\ \A k \in DOMAIN calls : calls'[k].json = calls[k].json
        /\ CallInv'
    BY <1>t, <1>s, LeafFinished
  <1>3. /\ DOMAIN calls = 1..Len(calls) /\ Len(calls) \in Nat /\ (calls = <<>> <=> Len(calls) = 0)
        /\ calls' \in Seq([json : DOMAIN doc, i : Nat, need_key : BOOLEAN])
    BY <1>t, <1>s, CallsAre, CountedIs
  <1>4. /\ Tables(heap, mts) /\ Len(heap) \in Nat /\ DOMAIN heap = 1..Len(heap)
        /\ DOMAIN made = 1..Len(heap) /\ mts \in Nat
    BY <1>t, Typed DEF TypeOK
  <1> DEFINE v == IF doc[next].tag = "null" THEN Nil ELSE <<"leaf", doc[next].value>>
             pushed == Append(Keyed, v)
             L == Len(calls)
  <1>5. StandsFor(doc, made, v, next)
    BY <1>s DEF StandsFor
  <1>6. /\ NeedKey => heap' = lua_settable(pushed) /\ stack' = SubSeq(pushed, 1, Len(pushed) - 2)
        /\ ~ NeedKey => heap' = heap /\ stack' = pushed
    BY DEF ConvertLeaf
  <1>7. stack \in Seq(Range(stack))
    BY <1>t DEF TypeOK
  <1> HIDE DEF v
  <1>8. /\ Tables(heap', mts) /\ Len(heap') = Len(heap)
        /\ stack' \in Seq(Range(stack'))
        /\ Len(stack') = IF calls = <<>> THEN 2 ELSE 2 * L
        /\ calls = <<>> => StandsFor(doc, made, stack'[2], 1)
        /\ calls # <<>> => \A i \in 1..(2 * L) : stack'[i] = stack[i]
        /\ \A t \in 1..Len(heap) : Agrees(doc, made, heap'[t].fields, made[t], Finished \cup {next})
    <2>1. CASE calls = <<>>
      <3>1. ~ NeedKey /\ next = 1 /\ Keyed = stack /\ Len(stack) = 1
        BY <1>t, <1>s, <2>1, CallMade
      <3>2. heap' = heap /\ stack' = Append(stack, v)
        BY <1>6, <3>1
      <3>3. stack' \in Seq(Range(stack) \cup {v}) /\ Len(stack') = 2 /\ stack'[2] = v
        <4>1. /\ Append(stack, v) \in Seq(Range(stack) \cup {v})
              /\ Len(Append(stack, v)) = Len(stack) + 1 /\ Append(stack, v)[Len(stack) + 1] = v
          BY ONLY <1>7, Appended
        <4> QED  BY <3>1, <3>2, <4>1
      <3>4. stack' \in Seq(Range(stack'))
        BY <3>3, RangeTyped
      <3>5. ASSUME NEW t \in 1..Len(heap)
            PROVE  Agrees(doc, made, heap'[t].fields, made[t], Finished \cup {next})
        <4>1. Agrees(doc, made, heap[t].fields, made[t], Finished)
          BY <1>t, <1>4 DEF FieldInv
        <4>2. doc[next].parent # made[t]
          <5>1. doc[next].parent = 0
            BY <1>1, <1>t, <3>1, DocIs
          <5>2. made[t] # 0
            BY <1>t, <1>4, <1>1 DEF TypeOK
          <5> QED  BY <5>1, <5>2
        <4> QED  BY <3>2, <4>1, <4>2, FieldsKept
      <3> QED  BY <1>4, <1>5, <2>1, <3>1, <3>2, <3>3, <3>4, <3>5
    <2>2. CASE calls # <<>>
      <3>1. /\ NeedKey /\ Keyed = Append(stack, KeyOf(doc, next)) /\ doc[next].parent = Looping
            /\ Looping \in 1..Len(doc) /\ doc[Looping].tag \in Composite
            /\ Len(stack) = 2 * L /\ StandsFor(doc, made, stack[2 * L], Looping)
        BY <1>t, <1>s, <2>2, CallMade
      <3>2. PICK t \in DOMAIN made : made[t] = Looping /\ stack[2 * L] = <<"table", t>>
        BY <3>1, TableFor
      <3> DEFINE p == Append(Append(stack, KeyOf(doc, next)), v)
                 b == SubSeq(p, 1, Len(p) - 2)
      <3>3. heap' = lua_settable(p) /\ stack' = b
        BY <1>6, <3>1
      <3>4. L \in Nat /\ L # 0 /\ 2 * L \in Nat /\ 2 * L # 0
        <4>1. L \in Nat /\ L # 0
          BY <1>3, <2>2
        <4> HIDE DEF L
        <4> QED  BY <4>1
      <3>5. /\ Len(p) = 2 * L + 2 /\ p[Len(p) - 1] = KeyOf(doc, next) /\ p[Len(p)] = v
            /\ p[Len(p) - 2] = <<"table", t>>
            /\ b \in Seq(Range(b)) /\ Len(b) = 2 * L /\ \A i \in 1..(2 * L) : b[i] = stack[i]
        <4>1. /\ Len(p) = Len(stack) + 2 /\ p[Len(p) - 1] = KeyOf(doc, next) /\ p[Len(p)] = v
              /\ Len(stack) # 0 => p[Len(p) - 2] = stack[Len(stack)]
              /\ b \in Seq(Range(b)) /\ Len(b) = Len(stack)
              /\ \A i \in 1..Len(stack) : b[i] = stack[i]
          BY ONLY <1>7, LeafPushed DEF p, b
        <4> HIDE DEF p, b, L
        <4> QED  BY <3>1, <3>2, <3>4, <4>1
      <3> HIDE DEF p, b
      <3>6. Len(p) \in Nat /\ t \in 1..Len(heap)
        BY <1>4, <3>4, <3>5
      <3>7. /\ Tables(heap', mts) /\ Len(heap') = Len(heap)
            /\ \A u \in 1..Len(heap) : u # t => heap'[u].fields = heap[u].fields
            /\ DOMAIN heap'[t].fields =
                  (DOMAIN heap[t].fields \ {KeyOf(doc, next)}) \cup (IF v = Nil THEN {} ELSE {KeyOf(doc, next)})
            /\ v # Nil => heap'[t].fields[KeyOf(doc, next)] = v
            /\ \A k \in DOMAIN heap'[t].fields :
                  k # KeyOf(doc, next) => heap'[t].fields[k] = heap[t].fields[k]
        <4> DEFINE key == KeyOf(doc, next)
        <4>0. mts \in Nat /\ Tables(heap, mts)
          BY <1>4
        <4>1. p[Len(p) - 2] = <<"table", t>> /\ p[Len(p) - 1] = key /\ p[Len(p)] = v
          BY <3>5
        <4> HIDE DEF key
        <4>2. FieldIsSet(heap', t, p[Len(p) - 1], p[Len(p)])
          BY ONLY <4>0, <3>3, <3>6, <4>1, FieldSet
        <4>3. FieldIsSet(heap', t, key, v)
          BY <4>1, <4>2
        <4> QED  BY <4>3 DEF key, FieldIsSet
      <3>8. ASSUME NEW u \in 1..Len(heap)
            PROVE  Agrees(doc, made, heap'[u].fields, made[u], Finished \cup {next})
        <4>1. Agrees(doc, made, heap[u].fields, made[u], Finished)
          BY <1>t, <1>4 DEF FieldInv
        <4>2. CASE u = t
          <5>1. Finished \in SUBSET Nat /\ \A k \in Finished : k < next
            BY <1>1 DEF Finished
          <5>2. doc[next].parent = made[t]
            BY <3>1, <3>2
          <5> QED  BY <1>1, <1>5, <3>7, <4>1, <4>2, <5>1, <5>2, FieldsGrow
        <4>3. CASE u # t
          <5>1. made[u] # made[t]
            <6>1. u < t \/ t < u
              BY <1>4, <3>6, <4>3
            <6>2. made[u] \in Nat /\ made[t] \in Nat
              <7>1. made \in Seq(DOMAIN doc)
                BY <1>t DEF TypeOK
              <7>2. \A w \in DOMAIN made : made[w] \in 1..Len(doc)
                BY <1>1, <7>1
              <7> QED  BY <1>4, <3>6, <7>2
            <6> QED  BY <1>t, <1>4, <3>6, <6>1, <6>2 DEF MadeInv
          <5>2. doc[next].parent # made[u]
            BY <3>1, <3>2, <5>1
          <5>3. heap'[u].fields = heap[u].fields
            BY <3>7, <4>3
          <5> QED  BY <4>1, <5>2, <5>3, FieldsKept
        <4> QED  BY <4>2, <4>3
      <3> QED  BY <2>2, <3>3, <3>5, <3>7, <3>8
    <2> QED  BY <2>1, <2>2
  <1>9. TypeOK'
    <2>1. heap' \in Seq([fields : {heap'[t].fields : t \in DOMAIN heap'}, mt : 0..mts])
      BY <1>8 DEF Tables
    <2>2. DOMAIN heap' = DOMAIN heap
      BY <1>4, <1>8, TablesAre
    <2>3. next + 1 \in 0..(Len(doc) + 1)
      BY <1>1
    <2> QED  BY <1>t, <1>s, <1>3, <1>8, <2>1, <2>2, <2>3 DEF TypeOK
  <1>10. MadeInv'
    <2>1. ASSUME NEW n \in 1..(next' - 1), doc[n].tag \in Composite
          PROVE  \E t \in DOMAIN made : made[t] = n
      <3>1. n # next
        BY <1>s, <2>1 DEF Composite
      <3>2. n \in 1..(next - 1)
        BY <1>s, <1>1, <3>1
      <3> QED  BY <1>t, <2>1, <3>2 DEF MadeInv
    <2>2. \A t \in DOMAIN made : made[t] < next + 1
      <3>0. made \in Seq(DOMAIN doc)
        BY <1>t DEF TypeOK
      <3>1. \A t \in DOMAIN made : made[t] \in Nat
        BY <1>1, <3>0
      <3> QED  BY <1>t, <1>1, <3>1 DEF MadeInv
    <2> QED  BY <1>t, <1>s, <2>1, <2>2 DEF MadeInv
  <1>11. StackInv'
    <2>1. next' > 1 /\ next' # 1
      BY <1>s, <1>1
    <2>2. calls' = <<>> <=> calls = <<>>
      BY <1>2, <1>3
    <2>3. ASSUME NEW k \in DOMAIN calls'
          PROVE  /\ StandsFor(doc, made, stack'[2 * k], calls'[k].json)
                 /\ k # 1 => stack'[2 * k - 1] = KeyOf(doc, calls'[k].json)
      <3>1. k \in 1..L /\ calls # <<>> /\ calls'[k].json = calls[k].json
        BY <1>2, <1>3, <2>3
      <3>2. 2 * k \in 1..(2 * L) /\ 2 * k - 1 \in 1..(2 * L)
        <4>1. L \in Nat /\ k \in 1..L
          BY <1>3, <3>1
        <4> HIDE DEF L
        <4> QED  BY <4>1
      <3>3. stack'[2 * k] = stack[2 * k] /\ stack'[2 * k - 1] = stack[2 * k - 1]
        BY <1>8, <3>1, <3>2
      <3>4. /\ StandsFor(doc, made, stack[2 * k], calls[k].json)
            /\ k # 1 => stack[2 * k - 1] = KeyOf(doc, calls[k].json)
        BY <1>t, <1>3, <3>1 DEF StackInv
      <3> QED  BY <3>1, <3>3, <3>4
    <2> QED  BY <1>s, <1>2, <1>8, <2>1, <2>2, <2>3 DEF StackInv
  <1>12. ValueInv'
    <2>1. next' # 0
      BY <1>s, <1>1
    <2> QED  BY <1>s, <1>1, <2>1 DEF ValueInv
  <1>13. FieldInv'
    <2>1. DOMAIN heap' = 1..Len(heap)
      BY <1>4, <1>8, TablesAre
    <2> QED  BY <1>s, <1>2, <1>8, <2>1 DEF FieldInv
  <1> QED  BY <1>2, <1>9, <1>10, <1>11, <1>12, <1>13 DEF WalkInv

\* A call for an object or an array begins with its first element, and its node
\* is not finished with.
LEMMA TableCalls ==
    ASSUME TypeOK, CallInv, StackInv, ValueInv, Reached, doc[next].tag \in Composite,
           next' = next + 1, calls' = Append(Counted, Call), doc' = doc
    PROVE  /\ calls' \in Seq([json : DOMAIN doc, i : Nat, need_key : BOOLEAN])
           /\ Len(calls') = Len(calls) + 1 /\ DOMAIN calls' = 1..(Len(calls) + 1)
           /\ \A k \in 1..Len(calls) : calls'[k].json = calls[k].json
           /\ calls'[Len(calls) + 1].json = next
           /\ Finished' = Finished /\ CallInv'
  <1> DEFINE R == [json : DOMAIN doc, i : Nat, need_key : BOOLEAN]
             L == Len(calls)
  <1>1. /\ next \in 1..Len(doc) /\ next \in Nat /\ Len(doc) \in Nat /\ DOMAIN doc = 1..Len(doc)
        /\ doc[next].parent = Looping /\ (doc[next].parent = 0 <=> next = 1)
    BY DocIs DEF Reached
  <1>2. /\ DOMAIN calls = 1..L /\ L \in Nat /\ (calls = <<>> <=> L = 0)
        /\ (calls # <<>> => Looping = calls[L].json)
    BY CallsAre DEF Looping, Last
  <1>3. \A k \in 1..L : calls[k].json < next
    BY Reaching
  <1>4. /\ Counted \in Seq(R) /\ Len(Counted) = L
        /\ \A k \in 1..L : Counted[k].json = calls[k].json
    BY CountedIs
  <1>5. /\ NeedKey <=> calls # <<>>
        /\ calls = <<>> => Looping = 0
    BY CallMade DEF Looping
  <1>6. GivenI \in Nat /\ (doc[Looping].tag # "array" \/ calls = <<>> => GivenI = 1)
    <2>1. CASE calls # <<>> /\ doc[Looping].tag = "array"
      <3>1. GivenI = calls[L].i /\ L \in 1..L
        BY <1>2, <2>1 DEF GivenI, Last
      <3>2. calls[L].i \in Nat
        BY <3>1, CallsAre
      <3> QED  BY <2>1, <3>1, <3>2
    <2>2. CASE ~ (calls # <<>> /\ doc[Looping].tag = "array")
      BY <2>2 DEF GivenI
    <2> QED  BY <2>1, <2>2
  <1>7. Call.json = next /\ Call.need_key = NeedKey /\ Call.i = 1
    <2>1. First(doc[next].parent, GivenI) = IF doc[Looping].tag = "array" THEN 1 ELSE GivenI
      BY <1>1 DEF First
    <2> QED  BY <1>5, <1>6, <2>1 DEF Call
  <1>8. Call \in R
    <2>1. NeedKey \in BOOLEAN
      BY DEF NeedKey
    <2>2. Call = [json |-> next, need_key |-> NeedKey, i |-> 1]
      <3>1. Call = [json |-> Call.json, need_key |-> Call.need_key, i |-> Call.i]
        BY DEF Call
      <3> QED  BY <1>7, <3>1
    <2> QED  BY <1>1, <2>1, <2>2
  <1> HIDE DEF R
  <1>9. /\ calls' \in Seq(R) /\ Len(calls') = L + 1 /\ DOMAIN calls' = 1..(L + 1)
        /\ calls'[L + 1] = Call /\ \A k \in 1..L : calls'[k] = Counted[k]
    <2>1. R \cup {Call} = R
      BY <1>8
    <2>2. /\ Append(Counted, Call) \in Seq(R \cup {Call})
          /\ Len(Append(Counted, Call)) = Len(Counted) + 1
          /\ DOMAIN Append(Counted, Call) = 1..(Len(Counted) + 1)
          /\ Append(Counted, Call)[Len(Counted) + 1] = Call
          /\ \A i \in 1..Len(Counted) : Append(Counted, Call)[i] = Counted[i]
      BY ONLY <1>4, Appended
    <2> HIDE DEF L
    <2> QED  BY <1>4, <2>1, <2>2
  <1>10. \A k \in 1..L : CallOf(k)'
    BY <1>9, CallsGoOn
  <1>11. \A k \in 1..L : calls'[k].json = calls[k].json
    BY <1>4, <1>9
  <1>12. next' - 1 = next /\ next' = next + 1 /\ L + 1 - 1 = L /\ L + 1 \in 1..(L + 1)
    BY <1>1, <1>2
  <1>13. ASSUME NEW k \in Nat, k = L + 1
         PROVE  CallOf(k)'
    <2>1. calls'[k].json = next /\ calls'[k].i = 1 /\ k - 1 = L
      BY <1>2, <1>7, <1>9, <1>13
    <2>2. calls'[k].need_key <=> k # 1
      BY <1>2, <1>5, <1>7, <1>9, <1>13
    <2>3. doc[next].parent = IF k = 1 THEN 0 ELSE calls'[k - 1].json
      <3>1. CASE L = 0
        BY <1>1, <1>2, <1>5, <1>13, <3>1
      <3>2. CASE L # 0
        <4>1. L \in 1..L /\ calls # <<>> /\ k # 1
          BY <1>2, <1>13, <3>2
        <4> QED  BY <1>1, <1>2, <1>11, <1>13, <2>1, <4>1
      <3> QED  BY <3>1, <3>2
    <2>4. \A l \in 1..(k - 1) : calls'[l].json < next
      BY <1>3, <1>11, <2>1
    <2> DEFINE later == {m \in 1..next : doc[m].parent = next}
    <2>5. later = {}
      <3>1. \A m \in 1..next : doc[m].parent < m
        BY <1>1, DocIs
      <3>2. \A m \in 1..next : doc[m].parent \in Nat
        BY <1>1, DocIs
      <3> QED  BY <1>1, <3>1, <3>2
    <2>6. 1 = 1 + Cardinality(later)
      <3> HIDE DEF later
      <3>1. Cardinality({}) = 0
        BY FS_EmptySet
      <3> QED  BY <2>5, <3>1
    <2>7. (next + 1)..next = {}
      BY <1>1
    <2>8. next < next + 1
      BY <1>1
    <2>9. \A m \in (next + 1)..next : doc[m].parent >= next
      BY <2>7
    <2> HIDE DEF L
    <2> QED  BY <1>12, <2>1, <2>2, <2>3, <2>4, <2>6, <2>8, <2>9 DEF CallOf, later
  <1>14. \A k \in DOMAIN calls' : CallOf(k)'
    <2>1. \A k \in DOMAIN calls' : k \in 1..L \/ (k \in Nat /\ k = L + 1)
      <3> SUFFICES ASSUME NEW k \in DOMAIN calls' PROVE k \in 1..L \/ (k \in Nat /\ k = L + 1)
        OBVIOUS
      <3>1. L \in Nat /\ k \in 1..(L + 1)
        BY <1>2, <1>9
      <3> HIDE DEF L
      <3> QED  BY <3>1
    <2> HIDE DEF L
    <2> QED  BY <1>10, <1>13, <2>1
  <1>15. ASSUME NEW n
         PROVE  n \in Finished' <=> n \in Finished
    <2>1. n \in Finished' <=> n \in 1..next /\ \A k \in DOMAIN calls' : calls'[k].json # n
      BY <1>12 DEF Finished
    <2>2. (\A k \in DOMAIN calls' : calls'[k].json # n)
          <=> (next # n /\ \A k \in 1..L : calls[k].json # n)
      <3>1. \A k \in DOMAIN calls' : k \in 1..L \/ k = L + 1
        <4>1. L \in Nat /\ DOMAIN calls' = 1..(L + 1)
          BY <1>2, <1>9
        <4> HIDE DEF L
        <4> QED  BY <4>1
      <3>2. \A k \in 1..L : k \in DOMAIN calls'
        <4>1. L \in Nat /\ DOMAIN calls' = 1..(L + 1)
          BY <1>2, <1>9
        <4> HIDE DEF L
        <4> QED  BY <4>1
      <3>3. L + 1 \in DOMAIN calls' /\ calls'[L + 1].json = next
        BY <1>7, <1>9, <1>12
      <3> QED  BY <1>11, <3>1, <3>2, <3>3
    <2>3. n \in 1..next /\ n # next <=> n \in 1..(next - 1)
      BY <1>1
    <2>4. n \in Finished <=> n \in 1..(next - 1) /\ \A k \in 1..L : calls[k].json # n
      BY <1>2 DEF Finished
    <2> QED  BY <2>1, <2>2, <2>3, <2>4
  <1>16. Finished' = Finished
    BY <1>15
  <1>17. CallInv'
    <2>1. \A m \in DOMAIN doc : doc[m].parent \in Finished => m < next + 1
      BY <1>1 DEF CallInv
    <2>2. ~ next' <= 1
      BY <1>1
    <2> QED  BY <1>12, <1>14, <1>16, <2>1, <2>2 DEF CallInv
  <1>18. calls'[L + 1].json = next
    BY <1>7, <1>9
  <1> QED  BY <1>9, <1>11, <1>16, <1>17, <1>18 DEF R, L

\* A new table is marked with a metatable of its own if it is for an array.
LEMMA TableMade ==
    ASSUME TypeOK, EnterTable
    PROVE  LET t == Len(heap) + 1
           IN  /\ mts' \in Nat /\ mts <= mts' /\ Tables(heap', mts') /\ marked' \in SUBSET (1..mts')
               /\ Len(heap') = t /\ DOMAIN heap' = 1..t
               /\ \A u \in 1..Len(heap) : heap'[u].fields = heap[u].fields /\ heap'[u].mt = heap[u].mt
               /\ heap'[t].fields = <<>>
               /\ IF doc[next].tag = "array"
                  THEN heap'[t].mt = mts + 1 /\ marked' = marked \cup {mts + 1} /\ asked' = asked \cup {t}
                  ELSE heap'[t].mt = 0 /\ marked' = marked /\ asked' = asked
  <1> DEFINE t == Len(heap) + 1
             new == Append(heap, NewTable)
  <1>1. /\ mts \in Nat /\ Tables(heap, mts) /\ Len(heap) \in Nat /\ marked \in SUBSET (1..mts)
    BY Typed DEF TypeOK
  <1>2. /\ Tables(new, mts) /\ Len(new) = t /\ new[t] = NewTable
        /\ \A u \in 1..Len(heap) : new[u] = heap[u]
    BY <1>1, TableAdded
  <1>3. NewTable.fields = <<>> /\ NewTable.mt = 0
    BY DEF NewTable
  <1>4. \A u \in 1..Len(heap) : u \in 1..t /\ u # t
    BY <1>1
  <1>5. t \in 1..t
    BY <1>1
  <1>6. CASE doc[next].tag = "array"
    <2>1. SetsArray(new, t) /\ asked' = asked \cup {t}
      BY <1>6 DEF EnterTable
    <2> HIDE DEF new, t
    <2>2. /\ mts' \in Nat /\ mts <= mts' /\ Tables(heap', mts') /\ Len(heap') = Len(new)
          /\ \A u \in 1..Len(new) : heap'[u].fields = new[u].fields
          /\ \A u \in 1..Len(new) : u # t => heap'[u].mt = new[u].mt
          /\ heap'[t].mt = IF new[t].mt = 0 THEN mts + 1 ELSE new[t].mt
          /\ marked' = marked \cup {heap'[t].mt} /\ marked' \in SUBSET (1..mts')
      BY <1>1, <1>2, <1>5, <2>1, ArraySet
    <2>3. DOMAIN heap' = 1..t
      BY <1>2, <2>2, TablesAre
    <2>4. heap'[t].fields = <<>> /\ heap'[t].mt = mts + 1
      BY <1>2, <1>3, <1>5, <2>2
    <2>5. \A u \in 1..Len(heap) : heap'[u].fields = heap[u].fields /\ heap'[u].mt = heap[u].mt
      BY <1>2, <1>4, <2>2
    <2> QED  BY <1>2, <1>6, <2>1, <2>2, <2>3, <2>4, <2>5 DEF t
  <1>7. CASE doc[next].tag # "array"
    <2>1. heap' = new /\ marked' = marked /\ mts' = mts /\ asked' = asked
      BY <1>7 DEF EnterTable
    <2> HIDE DEF new, t
    <2>2. DOMAIN heap' = 1..t
      BY <1>1, <1>2, <2>1, TablesAre
    <2>3. mts <= mts
      BY <1>1
    <2> QED  BY <1>1, <1>2, <1>3, <1>7, <2>1, <2>2, <2>3 DEF t
  <1> QED  BY <1>6, <1>7

LEMMA AgreesStill ==
    ASSUME NEW d, NEW S, NEW tables \in Seq(S), NEW x, NEW f, NEW n, NEW nodes, Agrees(d, tables, f, n, nodes)
    PROVE  Agrees(d, Append(tables, x), f, n, nodes)
  <1>1. \A m \in nodes : StandsFor(d, tables, f[KeyOf(d, m)], m)
                         => StandsFor(d, Append(tables, x), f[KeyOf(d, m)], m)
    BY StandsStill
  <1> QED  BY <1>1 DEF Agrees

\* A new table is empty, and its call the last on the path.
LEMMA EnterTableWalks ==
    ASSUME WalkInv, EnterTable
    PROVE  WalkInv'
  <1>t. TypeOK /\ MadeInv /\ CallInv /\ StackInv /\ ValueInv /\ FieldInv
    BY DEF WalkInv
  <1> DEFINE t == Len(heap) + 1
             L == Len(calls)
  <1>s. /\ Reached /\ doc[next].tag \in Composite /\ next' = next + 1 /\ calls' = Append(Counted, Call)
        /\ doc' = doc /\ made' = Append(made, next) /\ value' = value /\ text' = text /\ ops' = ops
        /\ mixed' = mixed /\ stack' = Append(Keyed, <<"table", t>>)
    BY DEF EnterTable, Composite
  <1>1. /\ value = None /\ text = None /\ next \in 1..Len(doc) /\ next \in Nat /\ doc # <<>>
        /\ Len(doc) \in Nat /\ DOMAIN doc = 1..Len(doc)
    BY <1>t, <1>s, Reaching, DocIs
  <1>2. /\ calls' \in Seq([json : DOMAIN doc, i : Nat, need_key : BOOLEAN])
        /\ Len(calls') = L + 1 /\ DOMAIN calls' = 1..(L + 1)
        /\ \A k \in 1..L : calls'[k].json = calls[k].json
        /\ calls'[L + 1].json = next
        /\ Finished' = Finished /\ CallInv'
    BY <1>t, <1>s, TableCalls
  <1>3. /\ DOMAIN calls = 1..L /\ L \in Nat /\ (calls = <<>> <=> L = 0)
    BY <1>t, CallsAre
  <1>4. /\ Len(heap) \in Nat /\ DOMAIN heap = 1..Len(heap) /\ DOMAIN made = 1..Len(heap)
    BY <1>t, Typed
  <1>5. /\ mts' \in Nat /\ mts <= mts' /\ Tables(heap', mts') /\ marked' \in SUBSET (1..mts')
        /\ Len(heap') = t /\ DOMAIN heap' = 1..t
        /\ \A u \in 1..Len(heap) : heap'[u].fields = heap[u].fields
        /\ heap'[t].fields = <<>>
        /\ asked' \in SUBSET (asked \cup {t})
    <2>1. /\ mts' \in Nat /\ mts <= mts' /\ Tables(heap', mts') /\ marked' \in SUBSET (1..mts')
          /\ Len(heap') = t /\ DOMAIN heap' = 1..t
          /\ \A u \in 1..Len(heap) : heap'[u].fields = heap[u].fields /\ heap'[u].mt = heap[u].mt
          /\ heap'[t].fields = <<>>
          /\ IF doc[next].tag = "array"
             THEN heap'[t].mt = mts + 1 /\ marked' = marked \cup {mts + 1} /\ asked' = asked \cup {t}
             ELSE heap'[t].mt = 0 /\ marked' = marked /\ asked' = asked
      BY <1>t, TableMade
    <2> QED  BY <2>1
  <1>6. made \in Seq(DOMAIN doc) /\ Len(made) = Len(heap)
    BY <1>t DEF TypeOK
  <1>7. /\ made' \in Seq(DOMAIN doc) /\ Len(made') = t /\ DOMAIN made' = 1..t
        /\ made'[t] = next /\ \A u \in 1..Len(heap) : made'[u] = made[u]
    <2>1. /\ Append(made, next) \in Seq(DOMAIN doc \cup {next})
          /\ Len(Append(made, next)) = Len(made) + 1
          /\ DOMAIN Append(made, next) = 1..(Len(made) + 1)
          /\ Append(made, next)[Len(made) + 1] = next
          /\ \A i \in 1..Len(made) : Append(made, next)[i] = made[i]
      BY ONLY <1>6, Appended
    <2>2. DOMAIN doc \cup {next} = DOMAIN doc
      BY <1>1
    <2> QED  BY <1>s, <1>6, <2>1, <2>2
  <1>8. \A v, m : StandsFor(doc, made, v, m) => StandsFor(doc, made', v, m)
    BY <1>s, <1>6, StandsStill
  <1>9. StandsFor(doc, made', <<"table", t>>, next)
    <2>1. t \in DOMAIN made'
      BY <1>4, <1>7
    <2> QED  BY <1>s, <1>7, <2>1 DEF StandsFor, Composite
  <1>10. /\ stack' \in Seq(Range(stack')) /\ Len(stack') = 2 * (L + 1)
         /\ stack'[2 * (L + 1)] = <<"table", t>>
         /\ L # 0 => stack'[2 * (L + 1) - 1] = KeyOf(doc, next)
         /\ \A i \in 1..(2 * L) : stack'[i] = stack[i]
    <2>1. stack \in Seq(Range(stack))
      BY <1>t DEF TypeOK
    <2>2. CASE calls = <<>>
      <3>1. Keyed = stack /\ Len(stack) = 1 /\ L = 0
        BY <1>t, <1>s, <1>3, <2>2, CallMade
      <3>2. /\ stack' \in Seq(Range(stack) \cup {<<"table", t>>}) /\ Len(stack') = Len(stack) + 1
            /\ stack'[Len(stack) + 1] = <<"table", t>>
        <4>1. stack' = Append(stack, <<"table", t>>)
          BY <1>s, <3>1
        <4> QED  BY ONLY <2>1, <4>1, Appended
      <3>3. stack' \in Seq(Range(stack'))
        BY ONLY <3>2, RangeTyped
      <3>4. Len(stack') = 2 * (L + 1) /\ Len(stack) + 1 = 2 * (L + 1)
        BY <3>1, <3>2
      <3>5. 1..(2 * L) = {}
        BY <3>1
      <3> QED  BY <3>1, <3>2, <3>3, <3>4, <3>5
    <2>3. CASE calls # <<>>
      <3>1. Keyed = Append(stack, KeyOf(doc, next)) /\ Len(stack) = 2 * L
        BY <1>t, <1>s, <2>3, CallMade
      <3>2. /\ Keyed \in Seq(Range(stack) \cup {KeyOf(doc, next)}) /\ Len(Keyed) = Len(stack) + 1
            /\ Keyed[Len(stack) + 1] = KeyOf(doc, next) /\ \A i \in 1..Len(stack) : Keyed[i] = stack[i]
        BY ONLY <2>1, <3>1, Appended
      <3> DEFINE S == Range(stack) \cup {KeyOf(doc, next)}
      <3> HIDE DEF S
      <3>3. Keyed \in Seq(S)
        BY <3>2 DEF S
      <3>4. /\ stack' \in Seq(S \cup {<<"table", t>>}) /\ Len(stack') = Len(Keyed) + 1
            /\ stack'[Len(Keyed) + 1] = <<"table", t>> /\ \A i \in 1..Len(Keyed) : stack'[i] = Keyed[i]
        BY ONLY <1>s, <3>3, Appended
      <3>5. stack' \in Seq(Range(stack'))
        BY ONLY <3>4, RangeTyped
      <3> HIDE DEF L, t
      <3>6. /\ Len(Keyed) = 2 * L + 1 /\ Len(Keyed) + 1 = 2 * (L + 1) /\ 2 * L + 1 = 2 * (L + 1) - 1
            /\ 2 * L + 1 \in 1..(2 * L + 1) /\ 1..(2 * L) \subseteq 1..(2 * L + 1)
        BY <1>3, <3>1, <3>2
      <3>7. stack'[2 * L + 1] = KeyOf(doc, next) /\ \A i \in 1..(2 * L) : stack'[i] = stack[i]
        BY <3>1, <3>2, <3>4, <3>6
      <3> QED  BY <3>4, <3>5, <3>6, <3>7
    <2> QED  BY <2>2, <2>3
  <1>11. TypeOK'
    <2>1. heap' \in Seq([fields : {heap'[u].fields : u \in DOMAIN heap'}, mt : 0..mts'])
      BY <1>5 DEF Tables
    <2>2. next + 1 \in 0..(Len(doc) + 1)
      BY <1>1
    <2>3. asked' \in SUBSET (DOMAIN heap') /\ mixed \in SUBSET (DOMAIN heap')
      <3>1. DOMAIN heap \subseteq DOMAIN heap' /\ t \in DOMAIN heap'
        BY <1>4, <1>5
      <3> QED  BY <1>t, <1>5, <3>1 DEF TypeOK
    <2> QED  BY <1>t, <1>s, <1>2, <1>5, <1>7, <1>10, <2>1, <2>2, <2>3 DEF TypeOK
  <1>12. MadeInv'
    <2>1. \A u \in 1..t : u = t \/ u \in 1..Len(heap)
      BY <1>4
    <2>2. \A u \in 1..Len(heap) : made[u] \in Nat /\ made[u] < next /\ doc[made[u]].tag \in Composite
      <3>1. \A u \in 1..Len(heap) : made[u] \in 1..Len(doc)
        BY <1>1, <1>4, <1>6
      <3> QED  BY <1>t, <1>1, <1>4, <3>1 DEF MadeInv
    <2>3. \A u \in 1..t : made'[u] < next + 1 /\ doc[made'[u]].tag \in Composite
      BY <1>s, <1>1, <1>7, <2>1, <2>2
    <2>4. ASSUME NEW u \in 1..t, NEW w \in 1..t, u < w
          PROVE  made'[u] < made'[w]
      <3>1. u \in 1..Len(heap)
        BY <1>4, <2>4
      <3>2. CASE w = t
        BY <1>7, <2>2, <3>1, <3>2
      <3>3. CASE w \in 1..Len(heap)
        BY <1>t, <1>4, <1>7, <2>4, <3>1, <3>3 DEF MadeInv
      <3> QED  BY <2>1, <3>2, <3>3
    <2>5. ASSUME NEW n \in 1..(next' - 1), doc[n].tag \in Composite
          PROVE  \E u \in DOMAIN made' : made'[u] = n
      <3>1. CASE n = next
        <4>1. t \in DOMAIN made'
          BY <1>4, <1>7
        <4> QED  BY <1>7, <3>1, <4>1
      <3>2. CASE n # next
        <4>1. n \in 1..(next - 1)
          BY <1>s, <1>1, <3>2
        <4>2. PICK u \in DOMAIN made : made[u] = n
          BY <1>t, <2>5, <4>1 DEF MadeInv
        <4>3. u \in DOMAIN made' /\ made'[u] = n
          BY <1>4, <1>7, <4>2
        <4> QED  BY <4>3
      <3> QED  BY <3>1, <3>2
    <2> QED  BY <1>s, <1>7, <2>3, <2>4, <2>5 DEF MadeInv
  <1>13. StackInv'
    <2>1. next' > 1 /\ next' # 1
      BY <1>s, <1>1
    <2>2. calls' # <<>>
      BY <1>2, <1>3
    <2>3. ASSUME NEW k \in DOMAIN calls'
          PROVE  /\ StandsFor(doc, made', stack'[2 * k], calls'[k].json)
                 /\ k # 1 => stack'[2 * k - 1] = KeyOf(doc, calls'[k].json)
      <3>0. L \in Nat /\ k \in 1..(L + 1)
        BY <1>2, <1>3
      <3>1. CASE k = L + 1
        <4>1. k # 1 => L # 0
          BY <3>1
        <4> QED  BY <1>2, <1>9, <1>10, <3>1, <4>1
      <3>2. CASE k # L + 1
        <4>1. k \in 1..L /\ 2 * k \in 1..(2 * L) /\ 2 * k - 1 \in 1..(2 * L)
          <5> HIDE DEF L
          <5> QED  BY <3>0, <3>2
        <4>2. /\ StandsFor(doc, made, stack[2 * k], calls[k].json)
              /\ k # 1 => stack[2 * k - 1] = KeyOf(doc, calls[k].json)
          BY <1>t, <1>3, <4>1 DEF StackInv
        <4>3. StandsFor(doc, made', stack[2 * k], calls[k].json)
          BY <1>8, <4>2
        <4> QED  BY <1>2, <1>10, <4>1, <4>2, <4>3
      <3> QED  BY <3>1, <3>2
    <2>4. Len(stack') = 2 * Len(calls')
      BY <1>2, <1>10
    <2> QED  BY <1>s, <2>1, <2>2, <2>3, <2>4 DEF StackInv
  <1>14. ValueInv'
    <2>1. next' # 0
      BY <1>s, <1>1
    <2> QED  BY <1>s, <1>1, <2>1 DEF ValueInv
  <1>15. FieldInv'
    <2>1. ASSUME NEW u \in 1..Len(heap)
          PROVE  Agrees(doc, made', heap'[u].fields, made'[u], Finished)
      <3>1. Agrees(doc, made, heap[u].fields, made[u], Finished)
        BY <1>t, <1>4 DEF FieldInv
      <3>2. Agrees(doc, made', heap[u].fields, made[u], Finished)
        BY <1>s, <1>6, <3>1, AgreesStill
      <3> QED  BY <1>5, <1>7, <3>2
    <2>2. Agrees(doc, made', heap'[t].fields, made'[t], Finished)
      <3>1. \A m \in Finished : doc[m].parent # next
        <4>1. \A m \in Finished : m \in 1..Len(doc) /\ m < next
          BY <1>1 DEF Finished
        <4>2. \A m \in 1..Len(doc) : doc[m].parent < m /\ doc[m].parent \in Nat
          BY <1>t, DocIs
        <4> QED  BY <1>1, <4>1, <4>2
      <3>2. DOMAIN heap'[t].fields = {}
        BY <1>5
      <3> QED  BY <1>7, <3>1, <3>2 DEF Agrees, LatestOf
    <2>3. \A u \in 1..t : u = t \/ u \in 1..Len(heap)
      BY <1>4
    <2> QED  BY <1>s, <1>2, <1>5, <2>1, <2>2, <2>3 DEF FieldInv
  <1> QED  BY <1>2, <1>11, <1>12, <1>13, <1>14, <1>15 DEF WalkInv

\* When a loop ends, no child of its node is left, and nothing of the callers
\* has changed.
LEMMA LoopEnds ==
    ASSUME TypeOK, CallInv, calls # <<>>, ~ Reached,
           calls' = Front(calls), doc' = doc, next' = next
    PROVE  /\ calls' \in Seq([json : DOMAIN doc, i : Nat, need_key : BOOLEAN])
           /\ Len(calls') = Len(calls) - 1 /\ DOMAIN calls' = 1..(Len(calls) - 1)
           /\ \A k \in 1..(Len(calls) - 1) : calls'[k] = calls[k]
           /\ Finished' = Finished \cup {calls[Len(calls)].json} /\ CallInv'
  <1> DEFINE R == [json : DOMAIN doc, i : Nat, need_key : BOOLEAN]
             L == Len(calls)
             top == calls[L].json
  <1>1. /\ DOMAIN calls = 1..L /\ L \in Nat /\ L # 0 /\ Looping = top
    BY CallsAre DEF Looping, Last
  <1>2. /\ L - 1 \in 0..L /\ L \in 1..L /\ \A k \in 1..(L - 1) : k \in 1..L /\ k # L
        /\ \A k \in 1..L : k = L \/ k \in 1..(L - 1)
    <2>1. L \in Nat /\ L # 0
      BY <1>1
    <2> HIDE DEF L
    <2> QED  BY <2>1
  <1>3. /\ calls' \in Seq(R) /\ Len(calls') = L - 1 /\ \A k \in 1..(L - 1) : calls'[k] = calls[k]
    <2>1. calls \in Seq(R)
      BY DEF TypeOK
    <2> HIDE DEF R
    <2>2. calls' = SubSeq(calls, 1, L - 1)
      BY DEF Front
    <2> QED  BY ONLY <1>2, <2>1, <2>2, Shortened
  <1>4. DOMAIN calls' = 1..(L - 1)
    BY <1>3
  <1>5. /\ next \in Nat /\ Len(doc) \in Nat /\ DOMAIN doc = 1..Len(doc) /\ top \in 1..Len(doc)
    <2>1. top \in DOMAIN doc
      BY <1>2, CallsAre
    <2> QED  BY <2>1, DocIs
  <1>6. CallOf(L) /\ top < next
    <2>1. \A k \in 1..L : CallOf(k)
      BY <1>1 DEF CallInv
    <2> QED  BY <1>2, <2>1 DEF CallOf
  <1>7. \A k \in 1..(L - 1) : calls[k].json < top
    BY <1>6 DEF CallOf
  <1>8. \A k \in 1..(L - 1) : CallOf(k)'
    <2> SUFFICES ASSUME NEW k \in 1..(L - 1) PROVE CallOf(k)'
      OBVIOUS
    <2>1. CallOf(k)
      BY <1>1, <1>2 DEF CallInv
    <2>2. (k # 1 => k - 1 \in 1..(L - 1)) /\ \A l \in 1..(k - 1) : l \in 1..(L - 1)
      <3>1. L \in Nat /\ k \in 1..(L - 1)
        BY <1>1
      <3> HIDE DEF L
      <3> QED  BY <3>1
    <2>3. calls'[k] = calls[k] /\ (k # 1 => calls'[k - 1] = calls[k - 1])
          /\ \A l \in 1..(k - 1) : calls'[l] = calls[l]
      BY <1>3, <2>2
    <2> QED  BY <2>1, <2>3 DEF CallOf
  <1>9. ASSUME NEW n
        PROVE  n \in Finished' <=> n \in Finished \/ n = top
    <2>1. n \in Finished' <=> n \in 1..(next - 1) /\ \A k \in 1..(L - 1) : calls[k].json # n
      BY <1>3, <1>4 DEF Finished
    <2>2. n \in Finished <=> n \in 1..(next - 1) /\ \A k \in 1..L : calls[k].json # n
      BY <1>1 DEF Finished
    <2>3. top \in 1..(next - 1) /\ \A k \in 1..(L - 1) : calls[k].json # top
      BY <1>5, <1>6, <1>7
    <2>4. (\A k \in 1..L : calls[k].json # n) <=> (\A k \in 1..(L - 1) : calls[k].json # n) /\ n # top
      BY <1>2
    <2> QED  BY <2>1, <2>2, <2>3, <2>4
  <1>10. Finished' = Finished \cup {top}
    BY <1>9
  <1>11. ASSUME NEW m \in DOMAIN doc, doc[m].parent \in Finished'
         PROVE  m < next
    <2>1. CASE doc[m].parent # top
      BY <1>9, <1>11, <2>1 DEF CallInv
    <2>2. CASE doc[m].parent = top
      <3> SUFFICES ASSUME ~ (m < next) PROVE FALSE
        OBVIOUS
      <3>1. m \in 1..Len(doc) /\ next \in 1..m /\ next \in DOMAIN doc
        BY <1>5, <1>6
      <3>2. doc[next].parent >= top
        BY <1>6, <2>2, <3>1, DocIs
      <3>3. doc[next].parent \in Nat /\ doc[next].parent < next
        BY <1>5, <3>1, DocIs
      <3>4. doc[next].parent # top
        BY <1>1, <3>1 DEF Reached
      <3>5. \A k \in 1..L : calls[k].json # doc[next].parent
        <4>1. doc[next].parent > top
          BY <1>5, <3>2, <3>3, <3>4
        <4>2. ASSUME NEW k \in 1..L PROVE calls[k].json # doc[next].parent
          <5>1. CASE k = L
            BY <1>5, <3>3, <4>1, <5>1
          <5>2. CASE k \in 1..(L - 1)
            BY <1>5, <1>7, <3>3, <4>1, <5>2
          <5> QED  BY <1>2, <5>1, <5>2
        <4> QED  BY <4>2
      <3>6. doc[next].parent \in Finished
        BY <1>1, <1>5, <3>2, <3>3, <3>5 DEF Finished
      <3> QED  BY <1>5, <3>1, <3>6 DEF CallInv
    <2> QED  BY <2>1, <2>2
  <1>12. CallInv'
    <2>1. ~ next <= 1
      BY <1>1, <1>5, <1>6
    <2>2. \A k \in DOMAIN calls' : CallOf(k)'
      <3> HIDE DEF L
      <3> QED  BY <1>4, <1>8
    <2> QED  BY <1>11, <2>1, <2>2 DEF CallInv
  <1> QED  BY <1>3, <1>4, <1>10, <1>12 DEF R, L, top

\* A node whose loop ends has no child to come: all of it is finished with when
\* its table goes into that of the caller.
LEMMA LeaveTableWalks ==
    ASSUME WalkInv, LeaveTable
    PROVE  WalkInv'
  <1>t. TypeOK /\ MadeInv /\ CallInv /\ StackInv /\ ValueInv /\ FieldInv
    BY DEF WalkInv
  <1> DEFINE L == Len(calls)
             top == calls[L].json
  <1>s. /\ calls # <<>> /\ ~ Reached /\ calls' = Front(calls) /\ marked' = marked /\ mts' = mts
        /\ doc' = doc /\ next' = next /\ made' = made /\ value' = value /\ text' = text /\ ops' = ops
        /\ asked' = asked /\ mixed' = mixed
    BY DEF LeaveTable
  <1>1. /\ DOMAIN calls = 1..L /\ L \in Nat /\ L # 0
    BY <1>t, <1>s, CallsAre
  <1>2. /\ L - 1 \in 0..L /\ L \in 1..L /\ 2 * L \in Nat /\ 2 * L - 2 \in 0..(2 * L) /\ 2 * (L - 1) = 2 * L - 2
        /\ L - 1 # L
        /\ \A k \in 1..(L - 1) :
              k \in 1..L /\ 2 * k \in 1..(2 * L - 2) /\ 2 * k - 1 \in 1..(2 * L - 2)
        /\ L # 1 => 2 * L - 2 \in 1..(2 * L - 2) /\ L - 1 \in 1..L /\ L - 1 \in 1..(L - 1) /\ 2 * L - 2 # 0
        /\ L - 1 = 0 <=> L = 1
    <2>1. L \in Nat /\ L # 0
      BY <1>1
    <2> HIDE DEF L
    <2> QED  BY <2>1
  <1>3. /\ calls' \in Seq([json : DOMAIN doc, i : Nat, need_key : BOOLEAN])
        /\ Len(calls') = L - 1 /\ DOMAIN calls' = 1..(L - 1)
        /\ \A k \in 1..(L - 1) : calls'[k] = calls[k]
        /\ Finished' = Finished \cup {top} /\ CallInv'
    BY <1>t, <1>s, LoopEnds
  <1>4. /\ Tables(heap, mts) /\ Len(heap) \in Nat /\ DOMAIN heap = 1..Len(heap)
        /\ DOMAIN made = 1..Len(heap) /\ mts \in Nat
    BY <1>t, Typed DEF TypeOK
  <1>5. /\ CallOf(L) /\ Last(calls).need_key = calls[L].need_key /\ (calls[L].need_key <=> L # 1)
    <2>1. CallOf(L)
      BY <1>t, <1>1, <1>2 DEF CallInv
    <2> QED  BY <2>1 DEF CallOf, Last
  <1>6. /\ next \in Nat /\ Len(doc) \in Nat /\ DOMAIN doc = 1..Len(doc) /\ top \in 1..Len(doc) /\ top < next
        /\ doc[top].tag \in Composite /\ next > 1
    <2>1. top \in DOMAIN doc
      BY <1>t, <1>2, CallsAre
    <2>2. top < next /\ doc[top].tag \in Composite
      BY <1>5 DEF CallOf
    <2>3. next \in Nat /\ Len(doc) \in Nat /\ DOMAIN doc = 1..Len(doc)
      BY <1>t, DocIs
    <2> QED  BY <2>1, <2>2, <2>3
  <1>7. value = None /\ text = None /\ doc # <<>>
    <2>1. value = None
      BY <1>t, <1>s DEF ValueInv
    <2> QED  BY <1>t, <1>6, <2>1 DEF ValueInv
  <1>8. /\ stack \in Seq(Range(stack)) /\ Len(stack) = 2 * L
        /\ StandsFor(doc, made, stack[2 * L], top)
        /\ L # 1 => stack[2 * L - 1] = KeyOf(doc, top)
    <2>1. stack \in Seq(Range(stack))
      BY <1>t DEF TypeOK
    <2>2. L \in DOMAIN calls
      BY <1>1, <1>2
    <2> QED  BY <1>t, <1>s, <1>6, <2>1, <2>2 DEF StackInv
  <1>9. top \notin Finished /\ Finished \in SUBSET Nat
    <2>1. L \in DOMAIN calls
      BY <1>1, <1>2
    <2>2. top \notin Finished
      BY <2>1 DEF Finished
    <2>3. Finished \in SUBSET Nat
      BY <1>6 DEF Finished
    <2> QED  BY <2>2, <2>3
  <1>10. /\ Tables(heap', mts) /\ Len(heap') = Len(heap)
         /\ stack' \in Seq(Range(stack'))
         /\ Len(stack') = IF L = 1 THEN 2 ELSE 2 * L - 2
         /\ \A i \in 1..(2 * L - 2) : stack'[i] = stack[i]
         /\ L = 1 => StandsFor(doc, made, stack'[2], 1)
         /\ \A t \in 1..Len(heap) : Agrees(doc, made, heap'[t].fields, made[t], Finished \cup {top})
    <2>1. CASE L = 1
      <3>1. heap' = heap /\ stack' = stack
        BY <1>5, <2>1 DEF LeaveTable
      <3>2. doc[top].parent = 0 /\ top = 1
        <4>1. doc[top].parent = 0
          BY <1>5, <2>1 DEF CallOf
        <4> QED  BY <1>t, <1>6, <4>1, DocIs
      <3>3. ASSUME NEW t \in 1..Len(heap)
            PROVE  Agrees(doc, made, heap'[t].fields, made[t], Finished \cup {top})
        <4>1. Agrees(doc, made, heap[t].fields, made[t], Finished)
          BY <1>t, <1>4 DEF FieldInv
        <4>2. doc[top].parent # made[t]
          <5>1. made \in Seq(DOMAIN doc)
            BY <1>t DEF TypeOK
          <5>2. made[t] \in 1..Len(doc)
            BY <1>4, <1>6, <5>1
          <5> QED  BY <3>2, <5>2
        <4> QED  BY <3>1, <4>1, <4>2, FieldsKept
      <3>4. 2 * L = 2 /\ StandsFor(doc, made, stack[2 * L], 1)
        BY <1>8, <2>1, <3>2
      <3>5. StandsFor(doc, made, stack'[2], 1)
        BY <3>1, <3>4
      <3> HIDE DEF L, top
      <3> QED  BY <1>4, <1>8, <2>1, <3>1, <3>3, <3>4, <3>5
    <2>2. CASE L # 1
      <3>1. heap' = lua_settable(stack) /\ stack' = SubSeq(stack, 1, 2 * L - 2)
        BY <1>5, <1>8, <2>2 DEF LeaveTable
      <3>2. /\ stack' \in Seq(Range(stack)) /\ Len(stack') = 2 * L - 2
            /\ \A i \in 1..(2 * L - 2) : stack'[i] = stack[i]
        <4>1. 2 * L - 2 \in 0..Len(stack)
          BY <1>2, <1>8
        <4>2. stack \in Seq(Range(stack))
          BY <1>8
        <4> HIDE DEF L
        <4> QED  BY ONLY <3>1, <4>1, <4>2, Shortened
      <3>3. stack' \in Seq(Range(stack'))
        BY ONLY <3>2, RangeTyped
      <3> DEFINE caller == calls[L - 1].json
      <3>4. /\ doc[top].parent = caller /\ caller \in 1..Len(doc) /\ caller < top
            /\ doc[caller].tag \in Composite /\ StandsFor(doc, made, stack[2 * L - 2], caller)
        <4>1. L - 1 \in DOMAIN calls
          BY <1>1, <1>2, <2>2
        <4>2. CallOf(L - 1)
          BY <1>t, <4>1 DEF CallInv
        <4>3. doc[top].parent = caller /\ caller < top
          BY <1>2, <1>5, <2>2 DEF CallOf
        <4>4. caller \in DOMAIN doc
          BY <1>t, <1>1, <4>1, CallsAre
        <4>5. StandsFor(doc, made, stack[2 * (L - 1)], caller)
          BY <1>t, <4>1 DEF StackInv
        <4> QED  BY <1>2, <1>6, <4>2, <4>3, <4>4, <4>5 DEF CallOf
      <3>5. PICK t \in DOMAIN made : made[t] = caller /\ stack[2 * L - 2] = <<"table", t>>
        BY <3>4, TableFor
      <3> DEFINE key == KeyOf(doc, top)
                 v == stack[2 * L]
      <3>6. /\ Len(stack) \in Nat /\ t \in 1..Len(heap) /\ stack[Len(stack) - 2] = <<"table", t>>
            /\ stack[Len(stack) - 1] = key /\ stack[Len(stack)] = v
        BY <1>2, <1>4, <1>8, <2>2, <3>5
      <3>7. mts \in Nat /\ Tables(heap, mts)
        BY <1>4
      <3> HIDE DEF key, v
      <3>8. /\ Tables(heap', mts) /\ Len(heap') = Len(heap)
            /\ \A u \in 1..Len(heap) : u # t => heap'[u].fields = heap[u].fields
            /\ DOMAIN heap'[t].fields = (DOMAIN heap[t].fields \ {key}) \cup (IF v = Nil THEN {} ELSE {key})
            /\ v # Nil => heap'[t].fields[key] = v
            /\ \A k \in DOMAIN heap'[t].fields : k # key => heap'[t].fields[k] = heap[t].fields[k]
        <4>1. heap' = lua_settable(stack)
          BY <3>1
        <4>2. FieldIsSet(heap', t, stack[Len(stack) - 1], stack[Len(stack)])
          BY ONLY <3>6, <3>7, <4>1, FieldSet
        <4>3. FieldIsSet(heap', t, key, v)
          BY <3>6, <4>2
        <4> QED  BY <4>3 DEF FieldIsSet
      <3>9. ASSUME NEW u \in 1..Len(heap)
            PROVE  Agrees(doc, made, heap'[u].fields, made[u], Finished \cup {top})
        <4>1. Agrees(doc, made, heap[u].fields, made[u], Finished)
          BY <1>t, <1>4 DEF FieldInv
        <4>2. CASE u = t
          <5>1. \A k \in Finished : doc[k].parent = made[t] => k < top
            <6> SUFFICES ASSUME NEW k \in Finished, doc[k].parent = made[t], ~ (k < top) PROVE FALSE
              OBVIOUS
            <6>1. k \in 1..(next - 1) /\ k # top
              BY <1>9 DEF Finished
            <6>2. k \in (top + 1)..(next - 1)
              BY <1>6, <6>1
            <6>3. doc[k].parent >= top
              BY <1>5, <6>2 DEF CallOf
            <6> QED  BY <1>6, <3>4, <3>5, <6>3
          <5>2. doc[top].parent = made[t] /\ StandsFor(doc, made, v, top) /\ top \in Nat
            BY <1>6, <1>8, <3>4, <3>5 DEF v
          <5> HIDE DEF top
          <5> QED  BY <1>9, <3>8, <4>1, <4>2, <5>1, <5>2, FieldsGrow DEF key
        <4>3. CASE u # t
          <5>1. made[u] # made[t]
            <6>1. u < t \/ t < u
              BY <1>4, <3>6, <4>3
            <6>2. made \in Seq(DOMAIN doc)
              BY <1>t DEF TypeOK
            <6>3. made[u] \in Nat /\ made[t] \in Nat
              <7>1. \A w \in DOMAIN made : made[w] \in 1..Len(doc)
                BY <1>6, <6>2
              <7> QED  BY <1>4, <3>6, <7>1
            <6> QED  BY <1>t, <1>4, <3>6, <6>1, <6>3 DEF MadeInv
          <5>2. doc[top].parent # made[u] /\ heap'[u].fields = heap[u].fields
            BY <3>4, <3>5, <3>8, <4>3, <5>1
          <5> QED  BY <4>1, <5>2, FieldsKept
        <4> QED  BY <4>2, <4>3
      <3> QED  BY <2>2, <3>2, <3>3, <3>8, <3>9
    <2> QED  BY <2>1, <2>2
  <1>11. TypeOK'
    <2>1. heap' \in Seq([fields : {heap'[t].fields : t \in DOMAIN heap'}, mt : 0..mts])
      BY <1>10 DEF Tables
    <2>2. DOMAIN heap' = DOMAIN heap
      BY <1>4, <1>10, TablesAre
    <2> QED  BY <1>t, <1>s, <1>3, <1>10, <2>1, <2>2 DEF TypeOK
  <1>12. MadeInv'
    BY <1>t, <1>s DEF MadeInv
  <1>13. StackInv'
    <2>1. calls' = <<>> <=> L = 1
      <3> DEFINE R == [json : DOMAIN doc, i : Nat, need_key : BOOLEAN]
      <3>1. calls' \in Seq(R) /\ Len(calls') = L - 1
        BY <1>3
      <3> HIDE DEF R
      <3>2. calls' = <<>> <=> Len(calls') = 0
        BY ONLY <3>1
      <3> QED  BY <1>2, <3>1, <3>2
    <2>2. ASSUME NEW k \in DOMAIN calls'
          PROVE  /\ StandsFor(doc, made, stack'[2 * k], calls'[k].json)
                 /\ k # 1 => stack'[2 * k - 1] = KeyOf(doc, calls'[k].json)
      <3>1. k \in 1..(L - 1) /\ k \in DOMAIN calls
        BY <1>1, <1>2, <1>3, <2>2
      <3>2. stack'[2 * k] = stack[2 * k] /\ stack'[2 * k - 1] = stack[2 * k - 1]
        BY <1>2, <1>10, <3>1
      <3> QED  BY <1>t, <1>3, <3>1, <3>2 DEF StackInv
    <2>3. next # 1 /\ next > 1
      BY <1>6
    <2>4. Len(stack') = IF calls' = <<>> THEN 2 ELSE 2 * Len(calls')
      BY <1>2, <1>3, <1>10, <2>1
    <2> QED  BY <1>s, <1>10, <2>1, <2>2, <2>3, <2>4 DEF StackInv
  <1>14. ValueInv'
    <2>1. next # 0
      BY <1>6
    <2> QED  BY <1>s, <1>7, <2>1 DEF ValueInv
  <1>15. FieldInv'
    <2>1. DOMAIN heap' = 1..Len(heap)
      BY <1>4, <1>10, TablesAre
    <2> QED  BY <1>s, <1>3, <1>10, <2>1 DEF FieldInv
  <1> QED  BY <1>3, <1>11, <1>12, <1>13, <1>14, <1>15 DEF WalkInv

LEMMA DecodeWalks ==
    ASSUME WalkInv, NEW d \in Doc, LuaDB_JsonDecode(d)
    PROVE  WalkInv'
  <1>t. TypeOK /\ MadeInv /\ CallInv /\ StackInv /\ ValueInv /\ FieldInv
    BY DEF WalkInv
  <1>s. /\ next = 0 /\ value = None /\ doc' = d /\ heap' = heap /\ marked' = marked /\ mts' = mts
        /\ calls' = calls /\ text' = text /\ ops' = ops /\ made' = made /\ asked' = asked /\ mixed' = mixed
    BY DEF LuaDB_JsonDecode, tableVars
  <1>d. /\ d = <<>> => value' = Nil /\ next' = 0 /\ stack' = stack
        /\ d # <<>> => next' = 1 /\ stack' = <<<<"argument">>>> /\ value' = value
    BY <1>s DEF LuaDB_JsonDecode
  <1>1. IsDocument(d) /\ Len(d) \in Nat /\ (d = <<>> <=> Len(d) = 0)
    <2>1. IsDocument(d)
      BY DocAssumption
    <2>2. d \in Seq(Range(d))
      BY <2>1 DEF IsDocument
    <2> QED  BY <2>1, <2>2
  <1>2. calls = <<>> /\ doc = <<>> /\ text = None
    BY <1>t, <1>s DEF CallInv, ValueInv
  <1>3. made = <<>> /\ Len(heap) = 0 /\ heap = <<>> /\ DOMAIN heap = {}
    <2>1. made \in Seq({}) /\ Len(made) = Len(heap)
      BY <1>t, <1>2 DEF TypeOK
    <2>2. made = <<>>
      <3> SUFFICES ASSUME Len(made) # 0 PROVE FALSE
        BY <2>1
      <3>1. 1 \in 1..Len(made)
        BY <2>1
      <3>2. made[1] \in {}
        BY <2>1, <3>1
      <3> QED  BY <3>2
    <2>3. Tables(heap, mts) /\ mts \in Nat
      BY <1>t DEF TypeOK, Tables
    <2>4. heap \in Seq(Range(heap))
      BY <2>3, TablesAre
    <2> QED  BY <2>1, <2>2, <2>4
  <1>4. TypeOK'
    <2>1. next' \in 0..(Len(d) + 1)
      BY <1>1, <1>d
    <2>2. stack' \in Seq(Range(stack'))
      <3>1. CASE d = <<>>
        BY <1>t, <1>d, <3>1 DEF TypeOK
      <3>2. CASE d # <<>>
        <4> DEFINE x == <<"argument">>
        <4>0. stack' = <<x>>
          BY <1>d, <3>2
        <4> HIDE DEF x
        <4>1. stack' \in Seq({x})
          BY <4>0
        <4> QED  BY <4>1, RangeTyped
      <3> QED  BY <3>1, <3>2
    <2>3. calls \in Seq([json : DOMAIN d, i : Nat, need_key : BOOLEAN]) /\ made \in Seq(DOMAIN d)
      BY <1>2, <1>3
    <2> QED  BY <1>t, <1>s, <1>1, <2>1, <2>2, <2>3 DEF TypeOK
  <1>5. MadeInv'
    <2>1. 1..(next' - 1) = {}
      BY <1>d
    <2>2. DOMAIN made = {}
      BY <1>3
    <2> QED  BY <1>s, <2>1, <2>2 DEF MadeInv
  <1>6. Finished' = {} /\ DOMAIN calls' = {}
    <2>1. 1..(next' - 1) = {}
      BY <1>d
    <2> QED  BY <1>s, <1>2, <2>1 DEF Finished
  <1>7. CallInv'
    BY <1>s, <1>2, <1>6 DEF CallInv
  <1>8. StackInv'
    BY <1>d, <1>6 DEF StackInv
  <1>9. ValueInv'
    <2>1. next' # 1 \/ value' = None
      BY <1>s, <1>d
    <2>2. (next' = 0 <=> d = <<>>) /\ (value' # None => next' = 0 /\ value' = Nil)
      BY <1>s, <1>d
    <2> QED  BY <1>s, <1>2, <2>1, <2>2 DEF ValueInv
  <1>10. FieldInv'
    BY <1>s, <1>3 DEF FieldInv
  <1> QED  BY <1>4, <1>5, <1>7, <1>8, <1>9, <1>10 DEF WalkInv

LEMMA ReturnsWalks ==
    ASSUME WalkInv, DecodeReturns
    PROVE  WalkInv'
  <1>t. TypeOK /\ MadeInv /\ CallInv /\ StackInv /\ ValueInv /\ FieldInv
    BY DEF WalkInv
  <1>s. /\ next > 1 /\ calls = <<>> /\ value = None /\ value' = Last(stack)
        /\ heap' = heap /\ marked' = marked /\ mts' = mts /\ doc' = doc /\ next' = next /\ calls' = calls
        /\ stack' = stack /\ made' = made /\ text' = text /\ ops' = ops /\ asked' = asked /\ mixed' = mixed
    BY DEF DecodeReturns, tableVars, walkVars
  <1>1. next \in Nat
    BY <1>t, DocIs
  <1>2. next # 0 /\ next # 1
    BY <1>s, <1>1
  <1>3. Len(stack) = 2 /\ StandsFor(doc, made, stack[2], 1)
    BY <1>t, <1>s DEF StackInv
  <1>4. StandsFor(doc, made, value', 1)
    BY <1>s, <1>3 DEF Last
  <1>5. TypeOK' /\ MadeInv' /\ StackInv' /\ ValueInv'
    <2>1. TypeOK'
      BY <1>t, <1>s DEF TypeOK
    <2>2. MadeInv'
      BY <1>t, <1>s DEF MadeInv
    <2>3. StackInv'
      BY <1>t, <1>s DEF StackInv
    <2>4. ValueInv'
      BY <1>t, <1>s, <1>2, <1>4 DEF ValueInv
    <2> QED  BY <2>1, <2>2, <2>3, <2>4
  <1>6. CallInv'
    <2>1. \A k \in DOMAIN calls : CallOf(k) <=> CallOf(k)'
      BY <1>s DEF CallOf
    <2> QED  BY <1>t, <1>s, <2>1 DEF CallInv, Finished
  <1>7. FieldInv'
    BY <1>t, <1>s DEF FieldInv, Finished
  <1> QED  BY <1>5, <1>6, <1>7 DEF WalkInv

\* Whatever leaves the walk and the fields of the tables alone.
LEMMA FieldsLeftAlone ==
    ASSUME WalkInv, UNCHANGED walkVars, value' = value, text' # None => value # None,
           mts' \in Nat, Tables(heap', mts'), Len(heap') = Len(heap),
           \A t \in 1..Len(heap) : heap'[t].fields = heap[t].fields,
           marked' \in SUBSET (1..mts'), ops' \in 0..MaxOps,
           asked' \in SUBSET (DOMAIN heap), mixed' \in SUBSET (DOMAIN heap)
    PROVE  WalkInv'
  <1>t. TypeOK /\ MadeInv /\ CallInv /\ StackInv /\ ValueInv /\ FieldInv
    BY DEF WalkInv
  <1>s. /\ doc' = doc /\ next' = next /\ calls' = calls /\ stack' = stack /\ made' = made
    BY DEF walkVars
  <1>1. DOMAIN heap = 1..Len(heap) /\ DOMAIN heap' = 1..Len(heap)
    BY <1>t, Typed, TablesAre
  <1>2. TypeOK'
    <2>1. heap' \in Seq([fields : {heap'[t].fields : t \in DOMAIN heap'}, mt : 0..mts'])
      BY DEF Tables
    <2> QED  BY <1>t, <1>s, <1>1, <2>1 DEF TypeOK
  <1>3. MadeInv'
    BY <1>t, <1>s DEF MadeInv
  <1>4. StackInv'
    BY <1>t, <1>s DEF StackInv
  <1>5. ValueInv'
    BY <1>t, <1>s DEF ValueInv
  <1>6. CallInv'
    <2>1. \A k \in DOMAIN calls : CallOf(k) <=> CallOf(k)'
      BY <1>s DEF CallOf
    <2> QED  BY <1>t, <1>s, <2>1 DEF CallInv, Finished
  <1>7. FieldInv'
    BY <1>t, <1>s, <1>1 DEF FieldInv, Finished
  <1> QED  BY <1>2, <1>3, <1>4, <1>5, <1>6, <1>7 DEF WalkInv

LEMMA MakeArrayWalks ==
    ASSUME WalkInv, NEW t \in DOMAIN heap, LuaDB_JsonMakeArray(t)
    PROVE  WalkInv'
  <1>1. TypeOK /\ ValueInv
    BY DEF WalkInv
  <1>2. /\ mts \in Nat /\ Tables(heap, mts) /\ marked \in SUBSET (1..mts)
        /\ Len(heap) \in Nat /\ DOMAIN heap = 1..Len(heap) /\ ops \in 0..MaxOps /\ MaxOps \in Nat
        /\ asked \in SUBSET (DOMAIN heap) /\ mixed \in SUBSET (DOMAIN heap)
    BY <1>1, Typed, DocAssumption DEF TypeOK
  <1>3. /\ SetsArray(heap, t) /\ asked' = asked \cup {t} /\ mixed' = mixed /\ UNCHANGED walkVars
        /\ value' = value /\ text' = text /\ text = None /\ ops < MaxOps /\ ops' = ops + 1
    BY DEF LuaDB_JsonMakeArray, Scripting
  <1>4. /\ mts' \in Nat /\ Tables(heap', mts') /\ Len(heap') = Len(heap)
        /\ \A u \in 1..Len(heap) : heap'[u].fields = heap[u].fields
        /\ marked' \in SUBSET (1..mts')
    BY <1>2, <1>3, ArraySet
  <1>5. ops' \in 0..MaxOps
    BY <1>2, <1>3
  <1> QED  BY <1>2, <1>3, <1>4, <1>5, FieldsLeftAlone

LEMMA ScriptWalks ==
    ASSUME WalkInv, NEW t \in DOMAIN heap, NEW u \in DOMAIN heap,
           SetMetatable(t, u) \/ NewMetatable(t) \/ Unmark(t)
    PROVE  WalkInv'
  <1>1. TypeOK /\ ValueInv
    BY DEF WalkInv
  <1>2. /\ mts \in Nat /\ Tables(heap, mts) /\ marked \in SUBSET (1..mts)
        /\ Len(heap) \in Nat /\ DOMAIN heap = 1..Len(heap) /\ ops \in 0..MaxOps /\ MaxOps \in Nat
        /\ asked \in SUBSET (DOMAIN heap) /\ mixed \in SUBSET (DOMAIN heap)
    BY <1>1, Typed, DocAssumption DEF TypeOK
  <1>3. /\ UNCHANGED walkVars /\ value' = value /\ text' = text /\ text = None
        /\ ops < MaxOps /\ ops' = ops + 1 /\ asked' = asked
        /\ mixed' \in SUBSET (mixed \cup {t, u})
    BY DEF SetMetatable, NewMetatable, Unmark, Scripting
  <1>4. ops' \in 0..MaxOps /\ mixed' \in SUBSET (DOMAIN heap)
    BY <1>2, <1>3
  <1>5. /\ heap \in Seq(Range(heap)) /\ heap[t] = [fields |-> heap[t].fields, mt |-> heap[t].mt]
        /\ heap[u].mt \in 0..mts
    BY <1>2, TablesAre
  <1>6. /\ mts' \in Nat /\ Tables(heap', mts') /\ Len(heap') = Len(heap)
        /\ \A v \in 1..Len(heap) : heap'[v].fields = heap[v].fields
        /\ marked' \in SUBSET (1..mts')
    <2>1. CASE SetMetatable(t, u)
      <3>1. heap' = [heap EXCEPT ![t].mt = heap[u].mt] /\ marked' = marked /\ mts' = mts /\ mts <= mts
        BY <1>2, <2>1 DEF SetMetatable
      <3>2. /\ heap' = [v \in 1..Len(heap) |-> heap'[v]]
            /\ heap'[t] = [fields |-> heap[t].fields, mt |-> heap[u].mt]
            /\ \A v \in 1..Len(heap) : v # t => heap'[v] = heap[v]
        BY <1>2, <1>5, <3>1
      <3>3. Tables(heap', mts) /\ Len(heap') = Len(heap) /\ heap'[t].fields = heap[t].fields
        <4>1. mts \in Nat /\ Tables(heap, mts) /\ mts <= mts /\ t \in 1..Len(heap) /\ heap[u].mt \in 0..mts
          BY <1>2, <1>5, <3>1
        <4> QED  BY ONLY <3>2, <4>1, TableReplaced
      <3> QED  BY <1>2, <3>1, <3>2, <3>3
    <2>2. CASE NewMetatable(t)
      <3>1. heap' = [heap EXCEPT ![t].mt = mts + 1] /\ marked' = marked /\ mts' = mts + 1
        BY <2>2 DEF NewMetatable
      <3>2. mts + 1 \in 0..(mts + 1) /\ mts + 1 \in Nat /\ mts <= mts + 1 /\ 1..mts \subseteq 1..(mts + 1)
        BY <1>2
      <3>3. /\ heap' = [v \in 1..Len(heap) |-> heap'[v]]
            /\ heap'[t] = [fields |-> heap[t].fields, mt |-> mts + 1]
            /\ \A v \in 1..Len(heap) : v # t => heap'[v] = heap[v]
        BY <1>2, <1>5, <3>1
      <3>4. Tables(heap', mts + 1) /\ Len(heap') = Len(heap) /\ heap'[t].fields = heap[t].fields
        BY <1>2, <3>2, <3>3, TableReplaced
      <3> QED  BY <1>2, <3>1, <3>2, <3>3, <3>4
    <2>3. CASE Unmark(t)
      BY <1>2, <2>3 DEF Unmark
    <2> QED  BY <2>1, <2>2, <2>3
  <1> QED  BY <1>2, <1>3, <1>4, <1>6, FieldsLeftAlone

LEMMA OthersWalk ==
    ASSUME WalkInv, LuaDB_JsonEncode \/ UNCHANGED vars
    PROVE  WalkInv'
  <1>1. TypeOK /\ ValueInv
    BY DEF WalkInv
  <1>2. /\ mts \in Nat /\ Tables(heap, mts) /\ marked \in SUBSET (1..mts) /\ ops \in 0..MaxOps
        /\ asked \in SUBSET (DOMAIN heap) /\ mixed \in SUBSET (DOMAIN heap)
    BY <1>1, Typed DEF TypeOK
  <1>3. /\ UNCHANGED walkVars /\ value' = value /\ heap' = heap /\ marked' = marked /\ mts' = mts
        /\ ops' = ops /\ asked' = asked /\ mixed' = mixed
    BY DEF LuaDB_JsonEncode, vars, tableVars
  <1>4. text' # None => value # None
    BY <1>1 DEF LuaDB_JsonEncode, vars, ValueInv
  <1> QED  BY <1>2, <1>3, <1>4, FieldsLeftAlone

LEMMA WalkInit == Init => WalkInv
  <1> SUFFICES ASSUME Init PROVE WalkInv
    OBVIOUS
  <1>1. /\ heap = <<>> /\ marked = {} /\ mts = 0 /\ doc = <<>> /\ next = 0 /\ calls = <<>> /\ stack = <<>>
        /\ value = None /\ text = None /\ ops = 0 /\ made = <<>> /\ asked = {} /\ mixed = {}
    BY DEF Init
  <1>2. Len(doc) = 0 /\ DOMAIN doc = {} /\ \A S : <<>> \in Seq(S)
    BY <1>1
  <1>3. TypeOK
    <2>1. IsDocument(doc) /\ MaxOps \in Nat
      BY <1>1, <1>2, DocAssumption DEF IsDocument
    <2> QED  BY <1>1, <1>2, <2>1 DEF TypeOK
  <1>4. Finished = {} /\ DOMAIN made = {} /\ DOMAIN calls = {} /\ DOMAIN heap = {} /\ 1..(next - 1) = {}
    <2>1. 1..(next - 1) = {}
      BY <1>1
    <2> QED  BY <1>1, <2>1 DEF Finished
  <1>5. MadeInv
    BY <1>4 DEF MadeInv
  <1>6. CallInv
    BY <1>1, <1>4 DEF CallInv
  <1>7. StackInv
    BY <1>1, <1>4 DEF StackInv
  <1>8. ValueInv /\ FieldInv
    BY <1>1, <1>4 DEF ValueInv, FieldInv
  <1> QED  BY <1>3, <1>5, <1>6, <1>7, <1>8 DEF WalkInv

LEMMA WalkStep == WalkInv /\ [Next]_vars => WalkInv'
  <1> SUFFICES ASSUME WalkInv, [Next]_vars PROVE WalkInv'
    OBVIOUS
  <1>1. ASSUME NEW d \in Doc, LuaDB_JsonDecode(d) PROVE WalkInv'
    BY <1>1, DecodeWalks
  <1>2. CASE ConvertLeaf
    BY <1>2, ConvertLeafWalks
  <1>3. CASE EnterTable
    BY <1>3, EnterTableWalks
  <1>4. CASE LeaveTable
    BY <1>4, LeaveTableWalks
  <1>5. CASE DecodeReturns
    BY <1>5, ReturnsWalks
  <1>6. ASSUME NEW t \in DOMAIN heap, LuaDB_JsonMakeArray(t) PROVE WalkInv'
    BY <1>6, MakeArrayWalks
  <1>7. ASSUME NEW t \in DOMAIN heap, NEW u \in DOMAIN heap,
               SetMetatable(t, u) \/ NewMetatable(t) \/ Unmark(t)
        PROVE  WalkInv'
    BY <1>7, ScriptWalks
  <1>8. CASE LuaDB_JsonEncode \/ UNCHANGED vars
    BY <1>8, OthersWalk
  <1> QED  BY <1>1, <1>2, <1>3, <1>4, <1>5, <1>6, <1>7, <1>8 DEF Next

LEMMA FieldsOnly ==
    ASSUME TypeOK, NEW s, heap' = lua_settable(s)
    PROVE  DOMAIN heap' = DOMAIN heap /\ \A u \in DOMAIN heap : heap'[u].mt = heap[u].mt
  <1>1. \A u \in DOMAIN heap : heap[u] = [fields |-> heap[u].fields, mt |-> heap[u].mt]
    BY Typed, TablesAre DEF TypeOK
  <1>2. PICK x, f : heap' = [heap EXCEPT ![x].fields = f]
    BY DEF lua_settable
  <1>3. DOMAIN heap' = DOMAIN heap
    BY <1>2
  <1>4. ASSUME NEW u \in DOMAIN heap PROVE heap'[u].mt = heap[u].mt
    <2>1. CASE u = x
      <3>1. heap'[u] = [heap[u] EXCEPT !.fields = f]
        BY <1>2, <2>1
      <3>2. [heap[u] EXCEPT !.fields = f].mt = heap[u].mt
        BY <1>1
      <3> QED  BY <3>1, <3>2
    <2>2. CASE u # x
      BY <1>2, <2>2
    <2> QED  BY <2>1, <2>2
  <1> QED  BY <1>3, <1>4

\* The walk gives no table the metatable of another.
LEMMA EnterTableMarks ==
    ASSUME TypeOK, MarkInv, EnterTable
    PROVE  MarkInv'
  <1> DEFINE t == Len(heap) + 1
  <1>1. /\ mts \in Nat /\ marked \in SUBSET (1..mts) /\ Len(heap) \in Nat /\ DOMAIN heap = 1..Len(heap)
        /\ asked \in SUBSET (DOMAIN heap) /\ mixed \in SUBSET (DOMAIN heap)
        /\ \A u \in 1..Len(heap) : heap[u].mt \in 0..mts
    BY Typed DEF TypeOK
  <1>2. mixed' = mixed
    BY DEF EnterTable
  <1>3. /\ DOMAIN heap' = 1..t
        /\ \A u \in 1..Len(heap) : heap'[u].mt = heap[u].mt
        /\ IF doc[next].tag = "array"
           THEN heap'[t].mt = mts + 1 /\ marked' = marked \cup {mts + 1} /\ asked' = asked \cup {t}
           ELSE heap'[t].mt = 0 /\ marked' = marked /\ asked' = asked
    BY TableMade
  <1>4. /\ \A u \in 1..t : u = t \/ u \in 1..Len(heap)
        /\ t \notin 1..Len(heap) /\ mts + 1 \notin 0..mts /\ 0 \notin 1..mts /\ mts + 1 # 0
    BY <1>1
  <1>5. (heap'[t].mt = mts + 1 \/ heap'[t].mt = 0) /\ (heap'[t].mt \in marked' <=> t \in asked')
    BY <1>1, <1>3, <1>4
  <1>6. ASSUME NEW u \in 1..t, u \notin mixed
        PROVE  /\ heap'[u].mt \in marked' <=> u \in asked'
               /\ heap'[u].mt # 0 => \A v \in 1..t : v # u => heap'[v].mt # heap'[u].mt
    <2>1. CASE u = t
      BY <1>1, <1>3, <1>4, <1>5, <2>1
    <2>2. CASE u # t
      <3>1. u \in 1..Len(heap)
        BY <1>4, <2>2
      <3>2. /\ heap[u].mt \in marked <=> u \in asked
            /\ heap[u].mt # 0 => \A v \in DOMAIN heap \ {u} : heap[v].mt # heap[u].mt
        BY <1>1, <1>6, <3>1 DEF MarkInv
      <3>3. heap'[u].mt = heap[u].mt /\ heap[u].mt # mts + 1
        BY <1>1, <1>3, <1>4, <3>1
      <3>4. heap'[u].mt \in marked' <=> u \in asked'
        BY <1>3, <2>2, <3>2, <3>3
      <3>5. ASSUME heap'[u].mt # 0, NEW v \in 1..t, v # u PROVE heap'[v].mt # heap'[u].mt
        BY <1>1, <1>3, <1>4, <1>5, <3>2, <3>3, <3>5
      <3> QED  BY <3>4, <3>5
    <2> QED  BY <2>1, <2>2
  <1> HIDE DEF t
  <1> QED  BY <1>2, <1>3, <1>6 DEF MarkInv

LEMMA MarkStep == WalkInv /\ MarkInv /\ [Next]_vars => MarkInv'
  <1> SUFFICES ASSUME WalkInv, MarkInv, [Next]_vars PROVE MarkInv'
    OBVIOUS
  <1>1. TypeOK
    BY DEF WalkInv
  <1>2. ASSUME NEW d \in Doc, LuaDB_JsonDecode(d) PROVE MarkInv'
    BY <1>2 DEF LuaDB_JsonDecode, tableVars, MarkInv
  <1>3. CASE ConvertLeaf \/ LeaveTable
    <2>1. marked' = marked /\ asked' = asked /\ mixed' = mixed
      BY <1>3 DEF ConvertLeaf, LeaveTable
    <2>2. heap' = heap \/ \E s : heap' = lua_settable(s)
      BY <1>3 DEF ConvertLeaf, LeaveTable
    <2>3. DOMAIN heap' = DOMAIN heap /\ \A u \in DOMAIN heap : heap'[u].mt = heap[u].mt
      BY <1>1, <2>2, FieldsOnly
    <2> QED  BY <2>1, <2>3 DEF MarkInv
  <1>4. CASE EnterTable
    BY <1>1, <1>4, EnterTableMarks
  <1>5. CASE DecodeReturns \/ LuaDB_JsonEncode \/ UNCHANGED vars
    BY <1>5 DEF DecodeReturns, LuaDB_JsonEncode, vars, tableVars, MarkInv
  <1>6. ASSUME NEW t \in DOMAIN heap, LuaDB_JsonMakeArray(t) PROVE MarkInv'
    BY <1>1, <1>6, MakeArrayMarks
  <1>7. ASSUME NEW t \in DOMAIN heap, NEW u \in DOMAIN heap,
               SetMetatable(t, u) \/ NewMetatable(t) \/ Unmark(t)
        PROVE  MarkInv'
    BY <1>1, <1>7, ScriptMarks
  <1> QED  BY <1>2, <1>3, <1>4, <1>5, <1>6, <1>7 DEF Next

LEMMA AskedStep == WalkInv /\ AskedInv /\ [Next]_vars => AskedInv'
  <1> SUFFICES ASSUME WalkInv, AskedInv, [Next]_vars PROVE AskedInv'
    OBVIOUS
  <1>1. TypeOK
    BY DEF WalkInv
  <1>2. ops \in Nat
    BY <1>1, DocAssumption DEF TypeOK
  <1>3. ASSUME NEW d \in Doc, LuaDB_JsonDecode(d) PROVE AskedInv'
    <2>1. /\ next = 0 /\ made' = made /\ ops' = ops /\ asked' = asked /\ mixed' = mixed
      BY <1>3 DEF LuaDB_JsonDecode
    <2>2. DOMAIN made = {}
      <3>1. made \in Seq(DOMAIN doc) /\ DOMAIN doc = {}
        BY <1>1, <2>1 DEF WalkInv, ValueInv, TypeOK
      <3> SUFFICES ASSUME NEW t \in DOMAIN made PROVE FALSE
        OBVIOUS
      <3>2. made[t] \in DOMAIN doc
        BY <3>1
      <3> QED  BY <3>1, <3>2
    <2> QED  BY <2>1, <2>2 DEF AskedInv
  <1>4. CASE ConvertLeaf \/ LeaveTable \/ DecodeReturns \/ LuaDB_JsonEncode \/ UNCHANGED vars
    <2>1. doc' = doc /\ made' = made /\ ops' = ops /\ asked' = asked /\ mixed' = mixed
      BY <1>4 DEF ConvertLeaf, LeaveTable, DecodeReturns, LuaDB_JsonEncode, vars, walkVars
    <2> QED  BY <2>1 DEF AskedInv
  <1>5. CASE EnterTable
    <2> DEFINE t == Len(heap) + 1
    <2>1. doc' = doc /\ made' = Append(made, next) /\ ops' = ops /\ mixed' = mixed
          /\ asked' = IF doc[next].tag = "array" THEN asked \cup {t} ELSE asked
      BY <1>5 DEF EnterTable
    <2>2. made \in Seq(DOMAIN doc) /\ Len(made) = Len(heap) /\ Len(heap) \in Nat
      BY <1>1, Typed DEF TypeOK
    <2>3. /\ DOMAIN made' = 1..t /\ made'[t] = next /\ \A u \in 1..Len(heap) : made'[u] = made[u]
      <3>1. /\ DOMAIN Append(made, next) = 1..(Len(made) + 1)
            /\ Append(made, next)[Len(made) + 1] = next
            /\ \A i \in 1..Len(made) : Append(made, next)[i] = made[i]
        BY ONLY <2>2, Appended
      <3> QED  BY <2>1, <2>2, <3>1
    <2>4. DOMAIN made = 1..Len(heap) /\ \A u : u \in 1..t <=> u \in 1..Len(heap) \/ u = t
      BY <2>2
    <2> HIDE DEF t
    <2> SUFFICES ASSUME ops = 0
                 PROVE  asked' = {u \in DOMAIN made' : doc[made'[u]].tag = "array"}
      BY <2>1 DEF AskedInv
    <2>5. asked = {u \in DOMAIN made : doc[made[u]].tag = "array"}
      BY DEF AskedInv
    <2>6. \A u : u \in asked' <=> u \in 1..t /\ doc[made'[u]].tag = "array"
      <3> SUFFICES ASSUME NEW u PROVE u \in asked' <=> u \in 1..t /\ doc[made'[u]].tag = "array"
        OBVIOUS
      <3>1. t \notin 1..Len(heap)
        BY <2>2 DEF t
      <3>2. CASE u = t
        BY <2>1, <2>3, <2>4, <2>5, <3>1, <3>2
      <3>3. CASE u # t
        BY <2>1, <2>3, <2>4, <2>5, <3>3
      <3> QED  BY <3>2, <3>3
    <2> QED  BY <2>3, <2>6
  <1>6. ASSUME NEW t \in DOMAIN heap, NEW u \in DOMAIN heap,
               LuaDB_JsonMakeArray(t) \/ SetMetatable(t, u) \/ NewMetatable(t) \/ Unmark(t)
        PROVE  AskedInv'
    <2>1. ops' = ops + 1
      BY <1>6 DEF LuaDB_JsonMakeArray, SetMetatable, NewMetatable, Unmark, Scripting
    <2> QED  BY <1>2, <2>1 DEF AskedInv
  <1> QED  BY <1>3, <1>4, <1>5, <1>6 DEF Next

-----------------------------------------------------------------------------
IInv == WalkInv /\ MarkInv /\ AskedInv

LEMMA Invariant == Spec => []IInv
  <1>1. Init => IInv
    <2> SUFFICES ASSUME Init PROVE IInv
      OBVIOUS
    <2>1. WalkInv
      BY WalkInit
    <2>2. MarkInv /\ AskedInv
      BY DEF Init, MarkInv, AskedInv
    <2> QED  BY <2>1, <2>2 DEF IInv
  <1>2. IInv /\ [Next]_vars => IInv'
    BY WalkStep, MarkStep, AskedStep DEF IInv
  <1> QED  BY <1>1, <1>2, PTL DEF Spec

\* Every variable keeps its type, whatever the documents: the Lua stack and the
\* calls of JsonToLuaValuePrivate stay sequences of what that function puts
\* there, the walk never leaves the document, and every mark is on a metatable
\* that was made (json.c:198-269).
THEOREM TypeCorrect == Spec => []TypeOK
  <1>1. IInv => TypeOK
    BY DEF IInv, WalkInv
  <1> QED  BY <1>1, Invariant, PTL

\* isarray() is right about every table whose metatable the script left alone,
\* whatever it did to other tables: SetTableAsJsonArray gives a table without a
\* metatable one of its own, so that marking it marks no other table
\* (json.c:94-115, 258-269).
THEOREM MarksCorrect == Spec => []MarksAsAsked
  <1>1. IInv => MarksAsAsked
    <2> SUFFICES ASSUME IInv, NEW t \in DOMAIN heap, t \notin mixed
                 PROVE  LuaDB_JsonIsArray(<<"table", t>>) <=> t \in asked
      BY DEF MarksAsAsked
    <2>1. heap[t].mt \in marked <=> t \in asked
      BY DEF IInv, MarkInv
    <2> QED  BY <2>1 DEF LuaDB_JsonIsArray, LuaTableIsJsonArray
  <1> QED  BY <1>1, Invariant, PTL

-----------------------------------------------------------------------------
(* What a decoded document is when the walk is over.                        *)

LEMMA NatMin ==
    ASSUME NEW T \in SUBSET Nat, T # {}
    PROVE  \E x \in T : \A y \in T : x <= y
  <1>1. PICK x \in T : \A y \in T : ~ (<<y, x>> \in OpToRel(<, Nat))
    BY NatLessThanWellFounded, WFMin
  <1>2. \A y \in T : y \in Nat /\ x \in Nat
    OBVIOUS
  <1>3. \A y \in T : ~ (y < x)
    BY <1>1, <1>2 DEF OpToRel
  <1> QED  BY <1>2, <1>3

\* A set of numbers with 0 and every successor has them all.
LEMMA AllNumbers ==
    ASSUME NEW T, 0 \in T, \A n \in Nat : n \in T => n + 1 \in T
    PROVE  \A n \in Nat : n \in T
  <1> DEFINE out == {n \in Nat : n \notin T}
  <1>1. CASE out = {}
    BY <1>1
  <1>2. CASE out # {}
    <2>1. PICK n \in out : \A k \in out : n <= k
      BY <1>2, NatMin, Zenon
    <2>2. n \in Nat /\ n # 0 /\ n - 1 \in Nat /\ ~ (n <= n - 1) /\ (n - 1) + 1 = n
      BY <2>1
    <2>3. n - 1 \in T
      BY <2>1, <2>2
    <2> QED  BY <2>1, <2>2, <2>3
  <1> QED  BY <1>1, <1>2

LEMMA Largest ==
    ASSUME NEW b \in Nat, NEW T \in SUBSET (1..b), T # {}
    PROVE  \E x \in T : \A y \in T : y <= x
  <1> DEFINE S == {b - x : x \in T}
  <1>1. S \in SUBSET Nat /\ S # {}
    <2>1. \A x \in T : b - x \in Nat
      OBVIOUS
    <2> QED  BY <2>1
  <1> HIDE DEF S
  <1>2. PICK s \in S : \A r \in S : s <= r
    BY <1>1, NatMin
  <1>3. PICK x \in T : s = b - x
    BY DEF S
  <1>4. ASSUME NEW y \in T PROVE y <= x
    <2>1. b - y \in S
      BY DEF S
    <2>2. b - x <= b - y
      BY <1>2, <1>3, <2>1
    <2> QED  BY <2>2
  <1> QED  BY <1>4

\* The walk ends only when it has been to every node.
LEMMA Completed ==
    ASSUME WalkInv, value # None, doc # <<>>
    PROVE  /\ next = Len(doc) + 1 /\ Finished = DOMAIN doc /\ 1 \in DOMAIN doc
           /\ StandsFor(doc, made, value, 1)
  <1>1. TypeOK /\ CallInv /\ ValueInv
    BY DEF WalkInv
  <1>2. /\ Len(doc) \in Nat /\ DOMAIN doc = 1..Len(doc) /\ next \in Nat /\ next <= Len(doc) + 1
    BY <1>1, DocIs
  <1>3. calls = <<>> /\ next # 1 /\ next # 0 /\ StandsFor(doc, made, value, 1)
    BY <1>1 DEF ValueInv
  <1>4. Finished = 1..(next - 1)
    BY <1>3 DEF Finished
  <1>5. next = Len(doc) + 1
    <2> SUFFICES ASSUME next # Len(doc) + 1 PROVE FALSE
      OBVIOUS
    <2>1. next \in 1..Len(doc)
      BY <1>2, <1>3
    <2>2. /\ doc[next].parent \in Nat /\ doc[next].parent < next /\ doc[next].parent # 0
      BY <1>1, <1>3, <2>1, DocIs
    <2>3. doc[next].parent \in Finished
      BY <1>2, <1>4, <2>2
    <2>4. next < next
      BY <1>1, <1>2, <2>1, <2>3 DEF CallInv
    <2> QED  BY <1>2, <2>4
  <1> QED  BY <1>2, <1>3, <1>4, <1>5

\* The places of the children of a node are in their order.
LEMMA Siblings ==
    ASSUME TypeOK, NEW m \in DOMAIN doc, NEW k \in DOMAIN doc, doc[m].parent = doc[k].parent, m < k
    PROVE  Place(m) \in Nat \ {0} /\ Place(k) \in Nat /\ Place(m) < Place(k)
  <1>1. m \in Nat \ {0} /\ k \in Nat \ {0}
    BY DocIs
  <1> DEFINE p == doc[m].parent
             upto == {j \in 1..m : doc[j].parent = p}
             before == {j \in 1..(k - 1) : doc[j].parent = p}
  <1>2. IsFiniteSet(before)
    <2>0. 1 \in Int /\ k - 1 \in Int
      BY <1>1
    <2>1. IsFiniteSet(1..(k - 1)) /\ before \in SUBSET (1..(k - 1))
      BY <2>0, FS_Interval
    <2> HIDE DEF before
    <2> QED  BY <2>1, FS_Subset
  <1>3. upto \in SUBSET before
    BY <1>1
  <1>4. Place(m) = Cardinality(upto) /\ Place(k) = 1 + Cardinality(before) /\ Place(m) \in Nat \ {0}
    <2>1. Place(k) = 1 + Cardinality({j \in 1..(k - 1) : doc[j].parent = doc[k].parent})
      BY <1>1, PlaceIs
    <2>2. Place(m) \in Nat \ {0}
      BY <1>1, PlaceIs
    <2> QED  BY <2>1, <2>2 DEF Place
  <1> HIDE DEF upto, before
  <1>5. Cardinality(before) \in Nat /\ Cardinality(upto) <= Cardinality(before)
    BY <1>2, <1>3, FS_Subset, FS_CardinalityType
  <1> QED  BY <1>4, <1>5

LEMMA PlacesDiffer ==
    ASSUME TypeOK, NEW n, NEW m \in Children(n), NEW k \in Children(n), Place(m) = Place(k)
    PROVE  m = k
  <1>1. /\ m \in DOMAIN doc /\ k \in DOMAIN doc /\ doc[m].parent = doc[k].parent
        /\ m \in Nat /\ k \in Nat
    BY DocIs DEF Children
  <1>2. CASE m < k
    BY <1>1, <1>2, Siblings
  <1>3. CASE k < m
    BY <1>1, <1>3, Siblings
  <1> QED  BY <1>1, <1>2, <1>3

LEMMA KeyIs ==
    ASSUME NEW n, NEW m \in Children(n)
    PROVE  KeyOf(doc, m) = IF doc[n].tag = "array" THEN <<"int", Place(m)>> ELSE <<"str", doc[m].name>>
  BY DEF KeyOf, Children, Place, PlaceIn

LEMMA ChildrenAre ==
    ASSUME TypeOK, NEW n \in DOMAIN doc
    PROVE  /\ Kept(n) \subseteq Children(n) /\ Children(n) \subseteq DOMAIN doc
           /\ \A m \in Children(n) : m \in 1..Len(doc) /\ n < m /\ doc[m].parent = n /\ doc[n].tag \in Composite
           /\ IsFiniteSet(Kept(n)) /\ Cardinality(Kept(n)) \in Nat
  <1>1. n \in 1..Len(doc) /\ Len(doc) \in Nat /\ DOMAIN doc = 1..Len(doc)
    BY DocIs
  <1>2. ASSUME NEW m \in Children(n)
        PROVE  m \in 1..Len(doc) /\ n < m /\ doc[m].parent = n /\ doc[n].tag \in Composite
    <2>1. m \in 1..Len(doc) /\ doc[m].parent = n
      BY <1>1 DEF Children
    <2>2. doc[m].parent < m /\ (m # 1 => doc[doc[m].parent].tag \in Composite) /\ (m = 1 => doc[m].parent = 0)
      BY <2>1, DocIs
    <2> QED  BY <1>1, <2>1, <2>2
  <1>3. Kept(n) \subseteq Children(n) /\ Children(n) \subseteq DOMAIN doc
    BY DEF Kept, Children
  <1>4. IsFiniteSet(Kept(n)) /\ Cardinality(Kept(n)) \in Nat
    <2>1. IsFiniteSet(1..Len(doc)) /\ Kept(n) \in SUBSET (1..Len(doc))
      BY <1>1, <1>3, FS_Interval
    <2> QED  BY <2>1, FS_Subset, FS_CardinalityType
  <1> QED  BY <1>2, <1>3, <1>4

\* The nodes kept are the latest of their keys that are not null.
LEMMA KeptLatest ==
    ASSUME TypeOK, NEW n \in DOMAIN doc, NEW m
    PROVE  m \in Kept(n) <=> LatestOf(doc, n, DOMAIN doc, m) /\ doc[m].tag # "null"
  <1> SUFFICES ASSUME m \in Children(n), doc[m].tag # "null"
               PROVE  (doc[n].tag = "object" =>
                          \A k \in Children(n) : k > m => doc[k].name # doc[m].name)
                      <=> \A k \in Children(n) : k > m => KeyOf(doc, k) # KeyOf(doc, m)
    BY DEF Kept, LatestOf, Children
  <1>1. doc[n].tag \in Composite /\ m \in Nat
    BY ChildrenAre
  <1>2. CASE doc[n].tag = "object"
    <2>1. \A k \in Children(n) : KeyOf(doc, k) = <<"str", doc[k].name>>
      BY <1>2, KeyIs
    <2> QED  BY <1>2, <2>1
  <1>3. CASE doc[n].tag = "array"
    <2>1. ASSUME NEW k \in Children(n), k > m PROVE KeyOf(doc, k) # KeyOf(doc, m)
      <3>1. KeyOf(doc, k) = <<"int", Place(k)>> /\ KeyOf(doc, m) = <<"int", Place(m)>>
        BY <1>3, KeyIs
      <3>2. k # m
        BY <1>1, <2>1
      <3>3. Place(k) # Place(m)
        BY <3>2, PlacesDiffer
      <3> QED  BY <3>1, <3>3
    <2> QED  BY <1>3, <2>1
  <1> QED  BY <1>1, <1>2, <1>3 DEF Composite

\* No two of the children that are left have one key.
LEMMA KeysDiffer ==
    ASSUME TypeOK, NEW n \in DOMAIN doc, NEW m \in Kept(n), NEW k \in Kept(n), KeyOf(doc, m) = KeyOf(doc, k)
    PROVE  m = k
  <1>1. /\ LatestOf(doc, n, DOMAIN doc, m) /\ LatestOf(doc, n, DOMAIN doc, k) /\ m \in Nat /\ k \in Nat
        /\ m \in DOMAIN doc /\ k \in DOMAIN doc /\ doc[m].parent = n /\ doc[k].parent = n
    BY KeptLatest, ChildrenAre
  <1>2. ~ (k > m) /\ ~ (m > k)
    BY <1>1 DEF LatestOf
  <1> QED  BY <1>1, <1>2

\* Among the children of one key there is a latest.
LEMMA LatestFor ==
    ASSUME TypeOK, NEW m \in DOMAIN doc
    PROVE  \E k : LatestOf(doc, doc[m].parent, DOMAIN doc, k) /\ KeyOf(doc, k) = KeyOf(doc, m)
  <1> DEFINE T == {k \in 1..Len(doc) : doc[k].parent = doc[m].parent /\ KeyOf(doc, k) = KeyOf(doc, m)}
  <1>1. Len(doc) \in Nat /\ DOMAIN doc = 1..Len(doc)
    BY DocIs
  <1>2. T \in SUBSET (1..Len(doc)) /\ m \in T
    BY <1>1
  <1>3. PICK k \in T : \A j \in T : j <= k
    <2> HIDE DEF T
    <2> QED  BY <1>1, <1>2, Largest
  <1>4. ASSUME NEW j \in DOMAIN doc, doc[j].parent = doc[m].parent, j > k
        PROVE  KeyOf(doc, j) # KeyOf(doc, k)
    <2> SUFFICES ASSUME KeyOf(doc, j) = KeyOf(doc, k) PROVE FALSE
      OBVIOUS
    <2>1. j \in T
      BY <1>1, <1>4
    <2>2. j <= k /\ j \in Nat /\ k \in Nat
      BY <1>1, <1>3, <2>1
    <2> QED  BY <1>4, <2>2
  <1> QED  BY <1>1, <1>3, <1>4 DEF LatestOf

\* A table has one field for each node kept, and the field is what it stands for.
LEMMA FieldsAre ==
    ASSUME WalkInv, value # None, doc # <<>>, NEW t \in DOMAIN heap
    PROVE  /\ DOMAIN heap[t].fields = {KeyOf(doc, m) : m \in Kept(made[t])}
           /\ \A m \in Kept(made[t]) : StandsFor(doc, made, heap[t].fields[KeyOf(doc, m)], m)
  <1> DEFINE n == made[t]
             f == heap[t].fields
  <1>1. TypeOK /\ FieldInv
    BY DEF WalkInv
  <1>2. n \in DOMAIN doc
    <2>1. made \in Seq(DOMAIN doc) /\ t \in DOMAIN made
      BY <1>1, Typed DEF TypeOK
    <2> QED  BY <2>1
  <1>3. Agrees(doc, made, f, n, DOMAIN doc)
    BY <1>1, Completed DEF FieldInv
  <1> HIDE DEF n, f
  <1>4. ASSUME NEW m \in Kept(n)
        PROVE  KeyOf(doc, m) \in DOMAIN f /\ StandsFor(doc, made, f[KeyOf(doc, m)], m)
    <2>1. LatestOf(doc, n, DOMAIN doc, m) /\ doc[m].tag # "null"
      BY <1>1, <1>2, KeptLatest
    <2>2. m \in DOMAIN doc
      BY <2>1 DEF LatestOf
    <2> QED  BY <1>3, <2>1, <2>2 DEF Agrees
  <1>5. ASSUME NEW key \in DOMAIN f
        PROVE  \E m \in Kept(n) : KeyOf(doc, m) = key
    <2>1. PICK j \in DOMAIN doc : doc[j].parent = n /\ KeyOf(doc, j) = key
      BY <1>3 DEF Agrees
    <2>2. PICK m : LatestOf(doc, n, DOMAIN doc, m) /\ KeyOf(doc, m) = key
      BY <1>1, <2>1, LatestFor
    <2>3. m \in DOMAIN doc
      BY <2>2 DEF LatestOf
    <2>4. doc[m].tag # "null"
      BY <1>3, <1>5, <2>2, <2>3 DEF Agrees
    <2>5. m \in Kept(n)
      BY <1>1, <1>2, <2>2, <2>4, KeptLatest
    <2> QED  BY <2>2, <2>5
  <1> QED  BY <1>4, <1>5 DEF n, f

\* The places of the elements kept, when only nulls at the end are not.
LEMMA PlacesFill ==
    ASSUME TypeOK, NEW n \in DOMAIN doc, doc[n].tag = "array", NullsLast(n)
    PROVE  {Place(m) : m \in Kept(n)} = 1..Cardinality(Kept(n))
  <1> DEFINE N == Cardinality(Kept(n))
             f == [m \in Kept(n) |-> Place(m)]
  <1>1. N \in Nat /\ IsFiniteSet(Kept(n)) /\ Kept(n) \subseteq Children(n)
    BY ChildrenAre
  <1>2. \A m \in Kept(n) : m \in Nat \ {0} /\ m \in 1..Len(doc) /\ doc[m].parent = n
    BY <1>1, ChildrenAre, DocIs
  <1>3. ASSUME NEW m \in Kept(n) PROVE Place(m) \in 1..N
    <2> DEFINE upto == {k \in 1..m : doc[k].parent = n}
    <2>1. Place(m) = Cardinality(upto) /\ Place(m) \in Nat \ {0}
      <3>1. Place(m) \in Nat \ {0}
        BY <1>2, PlaceIs
      <3> QED  BY <1>2, <3>1 DEF Place
    <2>2. ASSUME NEW k \in upto PROVE k \in Kept(n)
      <3>1. k \in Children(n)
        <4>1. k \in DOMAIN doc
          BY <1>2, DocIs
        <4> QED  BY <4>1 DEF Children
      <3>2. doc[k].tag # "null"
        <4> SUFFICES ASSUME doc[k].tag = "null" PROVE FALSE
          OBVIOUS
        <4>1. m \in Children(n) /\ doc[m].tag # "null"
          BY <1>1 DEF Kept
        <4>2. k < m \/ k = m
          BY <1>2
        <4> QED  BY <3>1, <4>1, <4>2 DEF NullsLast
      <3> QED  BY <3>1, <3>2 DEF Kept
    <2> HIDE DEF upto
    <2>3. Cardinality(upto) <= N
      BY <1>1, <2>2, FS_Subset
    <2> QED  BY <1>1, <2>1, <2>3
  <1>4. f \in Injection(Kept(n), 1..N)
    <2>1. \A m, k \in Kept(n) : Place(m) = Place(k) => m = k
      BY <1>1, PlacesDiffer
    <2> QED  BY <1>3, <2>1 DEF Injection, IsInjective
  <1>5. IsFiniteSet(1..N) /\ Cardinality(1..N) = N
    <2>1. 1 \in Int /\ N \in Int
      BY <1>1
    <2>2. /\ IsFiniteSet(1..N)
          /\ Cardinality(1..N) = IF 1 > N THEN 0 ELSE N - 1 + 1
      BY <2>1, FS_Interval
    <2>3. (IF 1 > N THEN 0 ELSE N - 1 + 1) = N
      BY <1>1
    <2> QED  BY <2>2, <2>3
  <1>6. f \in Surjection(Kept(n), 1..N)
    <2> HIDE DEF f
    <2> QED  BY <1>4, <1>5, FS_Injection
  <1>7. \A i \in 1..N : \E m \in Kept(n) : Place(m) = i
    BY <1>6 DEF Surjection
  <1> QED  BY <1>3, <1>7

\* An array has as many keys as children that are left.
LEMMA KeysCounted ==
    ASSUME TypeOK, NEW n \in DOMAIN doc, doc[n].tag = "array"
    PROVE  Cardinality({KeyOf(doc, m) : m \in Kept(n)}) = Cardinality(Kept(n))
  <1> DEFINE f == [m \in Kept(n) |-> KeyOf(doc, m)]
             K == {KeyOf(doc, m) : m \in Kept(n)}
  <1>1. f \in Injection(Kept(n), K)
    <2>1. \A m, k \in Kept(n) : KeyOf(doc, m) = KeyOf(doc, k) => m = k
      BY KeysDiffer
    <2>2. f \in [Kept(n) -> K]
      OBVIOUS
    <2> QED  BY <2>1, <2>2 DEF Injection, IsInjective
  <1>2. f \in Surjection(Kept(n), K)
    <2>1. \A k \in K : \E m \in Kept(n) : f[m] = k
      OBVIOUS
    <2>2. f \in [Kept(n) -> K]
      OBVIOUS
    <2> QED  BY <2>1, <2>2 DEF Surjection
  <1>3. IsFiniteSet(Kept(n))
    BY ChildrenAre
  <1> HIDE DEF f, K
  <1>4. Cardinality(K) = Cardinality(Kept(n))
    BY <1>1, <1>2, <1>3, FS_Surjection
  <1> QED  BY <1>4 DEF K

\* With a null before its end the fields of an array have a hole.
LEMMA Hole ==
    ASSUME TypeOK, NEW n \in DOMAIN doc, doc[n].tag = "array", ~ NullsLast(n), NEW p \in Nat
    PROVE  {KeyOf(doc, m) : m \in Kept(n)} # Places(p)
  <1> SUFFICES ASSUME {KeyOf(doc, m) : m \in Kept(n)} = Places(p) PROVE FALSE
    OBVIOUS
  <1>1. PICK m \in Children(n), k \in Children(n) : doc[m].tag = "null" /\ m < k /\ doc[k].tag # "null"
    BY DEF NullsLast
  <1>2. k \in Kept(n) /\ m \notin Kept(n)
    BY <1>1 DEF Kept
  <1>3. Place(m) \in Nat \ {0} /\ Place(k) \in Nat /\ Place(m) < Place(k)
    BY <1>1, ChildrenAre, Siblings
  <1>4. \A x \in Kept(n) : KeyOf(doc, x) = <<"int", Place(x)>> /\ x \in Children(n)
    BY ChildrenAre, KeyIs
  <1>5. PICK i \in 1..p : <<"int", Place(k)>> = <<"int", i>>
    BY <1>2, <1>4 DEF Places
  <1>6. Place(m) \in 1..p
    BY <1>3, <1>5
  <1>7. <<"int", Place(m)>> \in Places(p)
    BY <1>6 DEF Places
  <1>8. PICK x \in Kept(n) : KeyOf(doc, x) = <<"int", Place(m)>>
    BY <1>7
  <1>9. Place(x) = Place(m)
    BY <1>4, <1>8
  <1> QED  BY <1>1, <1>2, <1>4, <1>9, PlacesDiffer

-----------------------------------------------------------------------------
(* The recursive functions are the ones their equations describe: a child   *)
(* has a larger number than its parent, as a node and as a table.           *)

JsonOf(json, t) ==
    LET f == heap[t].fields
    IN  Written(LuaTableIsJsonArray(t),
                [k \in DOMAIN f |-> IF f[k][1] = "table" THEN json[f[k][2]] ELSE f[k]])

LEMMA AtIs ==
    ASSUME TypeOK, NEW n \in DOMAIN doc, NEW m \in Kept(n)
    PROVE  At(n, Place(m)) = m
  <1>1. At(n, Place(m)) \in Kept(n) /\ Place(At(n, Place(m))) = Place(m)
    BY DEF At
  <1> QED  BY <1>1, PlacesDiffer, ChildrenAre

LEMMA NamedIs ==
    ASSUME TypeOK, NEW n \in DOMAIN doc, doc[n].tag = "object", NEW m \in Kept(n)
    PROVE  Named(n, doc[m].name) = m
  <1>1. Named(n, doc[m].name) \in Kept(n) /\ doc[Named(n, doc[m].name)].name = doc[m].name
    BY DEF Named
  <1>2. \A k \in Kept(n) : KeyOf(doc, k) = <<"str", doc[k].name>>
    BY ChildrenAre, KeyIs
  <1> QED  BY <1>1, <1>2, KeysDiffer

\* What a node comes back as depends only on the nodes after it.
LEMMA TreeStill ==
    ASSUME TypeOK, NEW n \in DOMAIN doc, NEW f, NEW g, \A m \in DOMAIN doc : m > n => f[m] = g[m]
    PROVE  TreeOf(f, n) = TreeOf(g, n)
  <1>1. \A m \in Kept(n) : f[m] = g[m]
    <2>1. \A m \in Kept(n) : m \in DOMAIN doc /\ n < m
      BY ChildrenAre
    <2> QED  BY <2>1
  <1>2. doc[n].tag = "object" =>
           [k \in {<<"str", doc[m].name>> : m \in Kept(n)} |-> f[Named(n, k[2])]]
           = [k \in {<<"str", doc[m].name>> : m \in Kept(n)} |-> g[Named(n, k[2])]]
    <2> SUFFICES ASSUME doc[n].tag = "object", NEW m \in Kept(n)
                 PROVE  f[Named(n, <<"str", doc[m].name>>[2])] = g[Named(n, <<"str", doc[m].name>>[2])]
      OBVIOUS
    <2>1. Named(n, <<"str", doc[m].name>>[2]) = m
      BY NamedIs
    <2> QED  BY <1>1, <2>1
  <1>3. doc[n].tag = "array" /\ NullsLast(n) =>
           [i \in 1..Cardinality(Kept(n)) |-> f[At(n, i)]] = [i \in 1..Cardinality(Kept(n)) |-> g[At(n, i)]]
    <2> SUFFICES ASSUME doc[n].tag = "array", NullsLast(n), NEW i \in 1..Cardinality(Kept(n))
                 PROVE  f[At(n, i)] = g[At(n, i)]
      OBVIOUS
    <2>1. PICK m \in Kept(n) : Place(m) = i
      BY PlacesFill
    <2>2. At(n, i) = m
      BY <2>1, AtIs
    <2> QED  BY <1>1, <2>2
  <1>4. [k \in {<<"int", Place(m)>> : m \in Kept(n)} |-> f[At(n, k[2])]]
        = [k \in {<<"int", Place(m)>> : m \in Kept(n)} |-> g[At(n, k[2])]]
    <2> SUFFICES ASSUME NEW m \in Kept(n)
                 PROVE  f[At(n, <<"int", Place(m)>>[2])] = g[At(n, <<"int", Place(m)>>[2])]
      OBVIOUS
    <2>1. At(n, <<"int", Place(m)>>[2]) = m
      BY AtIs
    <2> QED  BY <1>1, <2>1
  <1>5. CASE doc[n].tag = "object"
    BY <1>2, <1>5 DEF TreeOf
  <1>6. CASE doc[n].tag = "array" /\ NullsLast(n)
    BY <1>3, <1>6 DEF TreeOf
  <1>7. CASE doc[n].tag = "array" /\ ~ NullsLast(n)
    BY <1>4, <1>7 DEF TreeOf
  <1>8. CASE doc[n].tag \in {"null", "leaf"}
    BY <1>8 DEF TreeOf
  <1>9. doc[n].tag \in {"null", "leaf", "array", "object"}
    BY DEF TypeOK, IsDocument
  <1> QED  BY <1>5, <1>6, <1>7, <1>8, <1>9

\* Returned is a recursive function, and so only one if any obeys its equation:
\* that one does is shown from the last node down.
LEMMA ReturnedIs ==
    ASSUME TypeOK
    PROVE  Returned = [n \in DOMAIN doc |-> TreeOf(Returned, n)]
  <1> DEFINE N == Len(doc)
             Upward(f, k) == f = [n \in 1..N |-> f[n]]
                             /\ \A n \in 1..N : n > N - k => f[n] = TreeOf(f, n)
             T == {k \in Nat : k <= N => \E f : Upward(f, k)}
  <1>1. N \in Nat /\ DOMAIN doc = 1..N
    BY DocIs
  <1> HIDE DEF N
  <1>2. 0 \in T
    <2>1. Upward([n \in 1..N |-> n], 0)
      <3>1. \A n \in 1..N : ~ (n > N - 0)
        BY <1>1
      <3> QED  BY <3>1
    <2> HIDE DEF Upward
    <2> QED  BY <2>1
  <1>3. ASSUME NEW k \in Nat, k \in T PROVE k + 1 \in T
    <2> SUFFICES ASSUME k + 1 <= N PROVE \E f : Upward(f, k + 1)
      OBVIOUS
    <2>1. PICK f : Upward(f, k)
      BY <1>1, <1>3
    <2> DEFINE m == N - k
               x == TreeOf(f, m)
               g == [n \in 1..N |-> IF n = m THEN x ELSE f[n]]
    <2>2. /\ m \in 1..N /\ m - 1 = N - (k + 1) /\ \A n \in 1..N : n > m - 1 => n = m \/ n > m
          /\ m = N - k
      <3>1. N \in Nat /\ k + 1 <= N
        BY <1>1
      <3>2. m \in Int /\ m \in 1..N /\ m - 1 = N - (k + 1) /\ m = N - k
        BY <3>1
      <3> HIDE DEF m
      <3> QED  BY <3>1, <3>2
    <2> HIDE DEF x
    <2>3. DOMAIN g = 1..N /\ g[m] = x /\ \A n \in 1..N : n # m => g[n] = f[n]
      BY <2>2
    <2>4. g = [n \in 1..N |-> g[n]]
      OBVIOUS
    <2> HIDE DEF g, m
    <2>5. \A n \in DOMAIN doc : n >= m => \A j \in DOMAIN doc : j > n => f[j] = g[j]
      BY <1>1, <2>2, <2>3
    <2>6. \A n \in 1..N : n >= m => TreeOf(f, n) = TreeOf(g, n)
      BY <1>1, <2>5, TreeStill
    <2>7. ASSUME NEW n \in 1..N, n > m - 1 PROVE g[n] = TreeOf(g, n)
      <3>1. CASE n = m
        <4>1. m >= m
          BY <2>2
        <4> QED  BY <2>2, <2>3, <2>6, <3>1, <4>1 DEF x
      <3>2. CASE n > m
        <4>1. n >= m /\ n # m /\ n > N - k
          BY <2>2, <3>2
        <4> QED  BY <2>1, <2>3, <2>6, <4>1
      <3> QED  BY <2>2, <2>7, <3>1, <3>2
    <2>8. Upward(g, k + 1)
      BY <2>2, <2>4, <2>7
    <2> HIDE DEF Upward
    <2> QED  BY <2>8
  <1>4. \A k \in Nat : k \in T
    <2> HIDE DEF T
    <2>1. 0 \in T /\ \A k \in Nat : k \in T => k + 1 \in T
      BY <1>2, <1>3
    <2> QED  BY <2>1, AllNumbers
  <1>5. PICK f : Upward(f, N)
    <2>1. N \in T /\ N <= N
      BY <1>1, <1>4
    <2> HIDE DEF Upward
    <2> QED  BY <2>1
  <1>6. \A n \in 1..N : n > N - N
    BY <1>1
  <1>7. f = [n \in DOMAIN doc |-> TreeOf(f, n)]
    BY <1>1, <1>5, <1>6
  <1>8. Returned = CHOOSE tree : tree = [n \in DOMAIN doc |-> TreeOf(tree, n)]
    BY DEF Returned
  <1> QED  BY <1>7, <1>8

\* Once the children of a table are written as their nodes are, so is the table.
LEMMA TableWritten ==
    ASSUME WalkInv, value # None, doc # <<>>, NEW t \in DOMAIN heap,
           LuaTableIsJsonArray(t) <=> doc[made[t]].tag = "array",
           NEW json, \A u \in DOMAIN heap : u > t => json[u] = Returned[made[u]]
    PROVE  JsonOf(json, t) = Returned[made[t]]
  <1> DEFINE n == made[t]
             f == heap[t].fields
             c == [k \in DOMAIN f |-> IF f[k][1] = "table" THEN json[f[k][2]] ELSE f[k]]
  <1>1. TypeOK /\ MadeInv
    BY DEF WalkInv
  <1>2. /\ DOMAIN made = DOMAIN heap /\ \A u \in DOMAIN heap : u \in Nat /\ made[u] \in DOMAIN doc /\ made[u] \in Nat
        /\ \A u \in DOMAIN heap : doc[made[u]].tag \in Composite
    <2>1. made \in Seq(DOMAIN doc) /\ DOMAIN made = DOMAIN heap /\ DOMAIN heap = 1..Len(heap)
      BY <1>1, Typed DEF TypeOK
    <2>2. \A u \in DOMAIN made : made[u] \in DOMAIN doc
      BY <2>1
    <2>3. DOMAIN doc \subseteq Nat
      BY <1>1, DocIs
    <2> QED  BY <1>1, <2>1, <2>2, <2>3 DEF MadeInv
  <1>3. n \in DOMAIN doc /\ doc[n].tag \in Composite
    BY <1>2
  <1>4. /\ DOMAIN f = {KeyOf(doc, m) : m \in Kept(n)}
        /\ \A m \in Kept(n) : StandsFor(doc, made, f[KeyOf(doc, m)], m)
    BY FieldsAre
  <1>5. Returned[n] = TreeOf(Returned, n) /\ \A m \in DOMAIN doc : Returned[m] = TreeOf(Returned, m)
    BY <1>1, <1>3, ReturnedIs
  <1> HIDE DEF n, f
  <1>6. ASSUME NEW m \in Kept(n)
        PROVE  KeyOf(doc, m) \in DOMAIN c /\ c[KeyOf(doc, m)] = Returned[m]
    <2> DEFINE v == f[KeyOf(doc, m)]
    <2>1. KeyOf(doc, m) \in DOMAIN f /\ StandsFor(doc, made, v, m)
      BY <1>4
    <2>2. m \in DOMAIN doc /\ n < m /\ doc[m].tag # "null"
      BY <1>1, <1>3, ChildrenAre DEF Kept
    <2>3. c[KeyOf(doc, m)] = IF v[1] = "table" THEN json[v[2]] ELSE v
      BY <2>1
    <2> HIDE DEF v, c
    <2>4. CASE doc[m].tag = "leaf"
      <3>1. v = <<"leaf", doc[m].value>>
        BY <2>1, <2>4 DEF StandsFor
      <3>2. Returned[m] = <<"leaf", doc[m].value>>
        BY <1>5, <2>2, <2>4 DEF TreeOf
      <3> QED  BY <2>1, <2>3, <3>1, <3>2 DEF c
    <2>5. CASE doc[m].tag # "leaf"
      <3>1. PICK u \in DOMAIN heap : made[u] = m /\ v = <<"table", u>>
        BY <1>2, <2>1, <2>2, <2>5 DEF StandsFor
      <3>2. u > t
        <4> SUFFICES ASSUME ~ (u > t) PROVE FALSE
          OBVIOUS
        <4>1. u = t \/ u < t
          BY <1>2
        <4>2. u < t => made[u] < made[t]
          BY <1>1, <1>2 DEF MadeInv
        <4>3. made[u] \in Nat /\ made[t] \in Nat /\ made[t] < made[u]
          BY <1>2, <2>2, <3>1 DEF n
        <4> QED  BY <4>1, <4>2, <4>3
      <3>3. json[u] = Returned[m]
        BY <3>1, <3>2
      <3>4. v[1] = "table" /\ v[2] = u
        BY <3>1
      <3> QED  BY <2>1, <2>3, <3>3, <3>4 DEF c
    <2> QED  BY <2>4, <2>5
  <1>7. DOMAIN c = {KeyOf(doc, m) : m \in Kept(n)} /\ c = [k \in DOMAIN c |-> c[k]]
    BY <1>4
  <1>8. JsonOf(json, t) = Written(LuaTableIsJsonArray(t), c)
    BY DEF JsonOf, f
  <1> HIDE DEF c
  <1>9. \A m \in Kept(n) : m \in Children(n)
    BY <1>1, <1>3, ChildrenAre
  <1>10. CASE doc[n].tag = "object"
    <2> DEFINE o == [k \in {<<"str", doc[m].name>> : m \in Kept(n)} |-> Returned[Named(n, k[2])]]
    <2>1. \A m \in Kept(n) : KeyOf(doc, m) = <<"str", doc[m].name>>
      BY <1>9, <1>10, KeyIs
    <2>2. DOMAIN o = DOMAIN c
      BY <1>7, <2>1
    <2>3. ASSUME NEW k \in DOMAIN c PROVE c[k] = o[k]
      <3>1. PICK m \in Kept(n) : k = KeyOf(doc, m)
        BY <1>7
      <3>2. k[2] = doc[m].name
        BY <2>1, <3>1
      <3>3. Named(n, k[2]) = m
        BY <1>1, <1>3, <1>10, <3>2, NamedIs
      <3>4. o[k] = Returned[Named(n, k[2])]
        BY <2>2
      <3> QED  BY <1>6, <3>1, <3>3, <3>4
    <2>4. o = [k \in DOMAIN o |-> o[k]]
      OBVIOUS
    <2>5. TreeOf(Returned, n) = <<"object", o>>
      BY <1>10 DEF TreeOf
    <2> HIDE DEF o
    <2>6. o = c
      BY <1>7, <2>2, <2>3, <2>4
    <2>7. Written(LuaTableIsJsonArray(t), c) = <<"object", c>>
      BY <1>10 DEF Written, n
    <2> QED  BY <1>5, <1>8, <2>5, <2>6, <2>7 DEF n
  <1>11. CASE doc[n].tag = "array"
    <2>1. \A m \in Kept(n) : KeyOf(doc, m) = <<"int", Place(m)>>
      BY <1>9, <1>11, KeyIs
    <2>2. Cardinality(DOMAIN c) = Cardinality(Kept(n))
      BY <1>1, <1>3, <1>7, <1>11, KeysCounted
    <2>3. LuaTableIsJsonArray(t)
      BY <1>11 DEF n
    <2> DEFINE N == Cardinality(Kept(n))
    <2>4. N \in Nat
      BY <1>1, <1>3, ChildrenAre
    <2>5. CASE NullsLast(n)
      <3>1. {Place(m) : m \in Kept(n)} = 1..N
        BY <1>1, <1>3, <1>11, <2>5, PlacesFill
      <3>2. DOMAIN c = Places(N)
        <4>1. \A k : k \in DOMAIN c <=> \E m \in Kept(n) : k = <<"int", Place(m)>>
          BY <1>7, <2>1
        <4>2. \A k : k \in Places(N) <=> \E i \in 1..N : k = <<"int", i>>
          BY DEF Places
        <4> HIDE DEF N
        <4>3. \A k : (\E m \in Kept(n) : k = <<"int", Place(m)>>) <=> (\E i \in 1..N : k = <<"int", i>>)
          BY <3>1
        <4> QED  BY <4>1, <4>2, <4>3
      <3>3. ASSUME NEW i \in 1..N PROVE c[<<"int", i>>] = Returned[At(n, i)]
        <4>1. PICK m \in Kept(n) : Place(m) = i
          BY <3>1
        <4>2. At(n, i) = m
          BY <1>1, <1>3, <4>1, AtIs
        <4> QED  BY <1>6, <2>1, <4>1, <4>2
      <3>4. Written(LuaTableIsJsonArray(t), c) = <<"array", [i \in 1..N |-> c[<<"int", i>>]]>>
        BY <2>2, <2>3, <3>2 DEF Written
      <3>5. [i \in 1..N |-> c[<<"int", i>>]] = [i \in 1..N |-> Returned[At(n, i)]]
        BY <3>3
      <3>6. TreeOf(Returned, n) = <<"array", [i \in 1..N |-> Returned[At(n, i)]]>>
        BY <1>11, <2>5 DEF TreeOf
      <3> QED  BY <1>5, <1>8, <3>4, <3>5, <3>6 DEF n
    <2>6. CASE ~ NullsLast(n)
      <3> DEFINE o == [k \in {<<"int", Place(m)>> : m \in Kept(n)} |-> Returned[At(n, k[2])]]
      <3>1. DOMAIN c # Places(N)
        BY <1>1, <1>3, <1>7, <1>11, <2>4, <2>6, Hole
      <3>2. Written(LuaTableIsJsonArray(t), c) = Shuffled(c)
        BY <2>2, <2>3, <3>1 DEF Written
      <3>3. DOMAIN o = DOMAIN c
        BY <1>7, <2>1
      <3>4. ASSUME NEW k \in DOMAIN c PROVE c[k] = o[k]
        <4>1. PICK m \in Kept(n) : k = KeyOf(doc, m)
          BY <1>7
        <4>2. k[2] = Place(m)
          BY <2>1, <4>1
        <4>3. At(n, k[2]) = m
          BY <1>1, <1>3, <4>2, AtIs
        <4>4. o[k] = Returned[At(n, k[2])]
          BY <3>3
        <4> QED  BY <1>6, <4>1, <4>3, <4>4
      <3>5. o = [k \in DOMAIN o |-> o[k]]
        OBVIOUS
      <3>6. TreeOf(Returned, n) = Shuffled(o)
        BY <1>11, <2>6 DEF TreeOf
      <3> HIDE DEF o
      <3>7. o = c
        BY <1>7, <3>3, <3>4, <3>5
      <3> QED  BY <1>5, <1>8, <3>2, <3>6, <3>7 DEF n
    <2> QED  BY <2>5, <2>6
  <1> QED  BY <1>3, <1>10, <1>11 DEF Composite

\* json.encode writes each table as the node it was made for is to come back.
LEMMA TablesWritten ==
    ASSUME WalkInv, value # None, doc # <<>>,
           \A t \in DOMAIN heap : LuaTableIsJsonArray(t) <=> doc[made[t]].tag = "array"
    PROVE  \A t \in DOMAIN heap : LuaTableToJsonPrivate[t] = Returned[made[t]]
  <1> DEFINE J == LuaTableToJsonPrivate
             N == Len(heap)
             R == [t \in DOMAIN heap |-> Returned[made[t]]]
  <1>1. N \in Nat /\ DOMAIN heap = 1..N
    BY Typed DEF WalkInv
  <1>2. \A json : \A t \in DOMAIN heap :
           (\A u \in DOMAIN heap : u > t => json[u] = Returned[made[u]])
           => JsonOf(json, t) = Returned[made[t]]
    BY TableWritten
  <1>3. J = CHOOSE json : json = [t \in DOMAIN heap |-> JsonOf(json, t)]
    BY DEF LuaTableToJsonPrivate, JsonOf
  <1> HIDE DEF J, N
  <1>4. R = [t \in DOMAIN heap |-> JsonOf(R, t)]
    <2>1. \A t \in DOMAIN heap : R[t] = Returned[made[t]]
      OBVIOUS
    <2>2. \A t \in DOMAIN heap : JsonOf(R, t) = Returned[made[t]]
      <3> HIDE DEF R
      <3> QED  BY <1>2, <2>1
    <2> QED  BY <2>2
  <1>5. J = [t \in DOMAIN heap |-> JsonOf(J, t)]
    <2> HIDE DEF R
    <2> QED  BY <1>3, <1>4
  <1> DEFINE wrong == {t \in 1..N : J[t] # Returned[made[t]]}
  <1>6. wrong = {}
    <2> SUFFICES ASSUME wrong # {} PROVE FALSE
      OBVIOUS
    <2>1. wrong \in SUBSET (1..N)
      OBVIOUS
    <2>2. PICK t \in wrong : \A u \in wrong : u <= t
      <3> HIDE DEF wrong
      <3> QED  BY <1>1, <2>1, Largest
    <2>3. \A u \in DOMAIN heap : u > t => J[u] = Returned[made[u]]
      <3> SUFFICES ASSUME NEW u \in DOMAIN heap, u > t, J[u] # Returned[made[u]] PROVE FALSE
        OBVIOUS
      <3>1. u \in wrong /\ u \in Nat /\ t \in Nat
        BY <1>1
      <3> QED  BY <2>2, <3>1
    <2>4. t \in DOMAIN heap /\ J[t] # Returned[made[t]]
      BY <1>1
    <2>5. JsonOf(J, t) = Returned[made[t]]
      BY <1>2, <2>3, <2>4
    <2>6. J[t] = JsonOf(J, t)
      BY <1>5, <2>4
    <2> QED  BY <2>4, <2>5, <2>6
  <1> QED  BY <1>1, <1>6 DEF J

\* What encoding writes of the value decoded is what the document comes back as.
LEMMA Encoded ==
    ASSUME IInv, LuaDB_JsonEncode, ops = 0
    PROVE  text' = IF doc = <<>> THEN <<"null">> ELSE Returned[1]
  <1>1. WalkInv /\ TypeOK /\ MarkInv /\ AskedInv /\ ValueInv
    BY DEF IInv, WalkInv
  <1>2. /\ value # None
        /\ text' = CASE value[1] = "nil"   -> <<"null">>
                     [] value[1] = "table" -> LuaTableToJsonPrivate[value[2]]
                     [] OTHER              -> value
    BY DEF LuaDB_JsonEncode
  <1>3. CASE doc = <<>>
    <2>1. value = Nil
      BY <1>1, <1>2, <1>3 DEF ValueInv
    <2>2. value[1] = "nil"
      BY <2>1 DEF Nil
    <2> QED  BY <1>2, <1>3, <2>2
  <1>4. CASE doc # <<>>
    <2>1. 1 \in DOMAIN doc /\ StandsFor(doc, made, value, 1)
      BY <1>1, <1>2, <1>4, Completed
    <2>2. Returned[1] = TreeOf(Returned, 1)
      BY <1>1, <2>1, ReturnedIs
    <2>3. CASE doc[1].tag = "null"
      <3>1. value[1] = "nil"
        BY <2>1, <2>3 DEF StandsFor, Nil
      <3>2. TreeOf(Returned, 1) = <<"null">>
        BY <2>3 DEF TreeOf
      <3> QED  BY <1>2, <1>4, <2>2, <3>1, <3>2
    <2>4. CASE doc[1].tag = "leaf"
      <3>1. value = <<"leaf", doc[1].value>> /\ value[1] = "leaf"
        BY <2>1, <2>4 DEF StandsFor
      <3>2. TreeOf(Returned, 1) = <<"leaf", doc[1].value>>
        BY <2>4 DEF TreeOf
      <3>3. text' = value
        BY <1>2, <3>1
      <3> QED  BY <1>4, <2>2, <3>1, <3>2, <3>3
    <2>5. CASE doc[1].tag \notin {"null", "leaf"}
      <3>1. PICK t \in DOMAIN made : made[t] = 1 /\ value = <<"table", t>>
        BY <2>1, <2>5 DEF StandsFor
      <3>2. t \in DOMAIN heap /\ DOMAIN made = DOMAIN heap
        BY <1>1, <3>1, Typed
      <3>3. \A u \in DOMAIN heap : LuaTableIsJsonArray(u) <=> doc[made[u]].tag = "array"
        <4>1. mixed = {} /\ asked = {u \in DOMAIN made : doc[made[u]].tag = "array"}
          BY <1>1 DEF AskedInv
        <4>2. \A u \in DOMAIN heap : heap[u].mt \in marked <=> u \in asked
          BY <1>1, <4>1 DEF MarkInv
        <4> QED  BY <3>2, <4>1, <4>2 DEF LuaTableIsJsonArray
      <3>4. LuaTableToJsonPrivate[t] = Returned[made[t]]
        BY <1>1, <1>2, <1>4, <3>2, <3>3, TablesWritten
      <3>5. value[1] = "table" /\ value[2] = t
        BY <3>1
      <3>6. text' = LuaTableToJsonPrivate[t]
        BY <1>2, <3>5
      <3> QED  BY <1>4, <3>1, <3>4, <3>6
    <2> QED  BY <2>3, <2>4, <2>5
  <1> QED  BY <1>3, <1>4

\* For any document, json.encode(json.decode(text)) is the document again but for
\* nulls in arrays and objects and for names that come twice: decoding numbers
\* the elements of nested arrays right, puts each value under its own key of its
\* own table, and encoding writes every table as what it was (json.c:198-335).
THEOREM RoundTripCorrect == Spec => []RoundTrip
  <1>1. Init => RoundTrip
    BY DEF Init, RoundTrip
  <1>2. IInv /\ RoundTrip /\ [Next]_vars => RoundTrip'
    <2> SUFFICES ASSUME IInv, RoundTrip, [Next]_vars, text' # None, ops' = 0
                 PROVE  text' = IF doc' = <<>> THEN <<"null">> ELSE Returned[1]'
      BY DEF RoundTrip
    <2>1. TypeOK /\ ValueInv /\ CallInv
      BY DEF IInv, WalkInv
    <2>2. CASE LuaDB_JsonEncode
      <3>1. doc' = doc /\ ops' = ops
        BY <2>2 DEF LuaDB_JsonEncode, walkVars
      <3>2. Returned[1]' = Returned[1]
        BY <3>1 DEF Returned, TreeOf, Kept, Children, NullsLast, Place, At, Named
      <3> QED  BY <2>2, <3>1, <3>2, Encoded
    <2>3. CASE DecodeReturns \/ UNCHANGED vars
      <3>1. doc' = doc /\ ops' = ops /\ text' = text
        BY <2>3 DEF DecodeReturns, vars, walkVars
      <3>2. Returned[1]' = Returned[1]
        BY <3>1 DEF Returned, TreeOf, Kept, Children, NullsLast, Place, At, Named
      <3> QED  BY <3>1, <3>2 DEF RoundTrip
    <2>4. CASE ConvertLeaf \/ EnterTable
      <3>1. text' = text /\ Reached
        BY <2>4 DEF ConvertLeaf, EnterTable
      <3> QED  BY <2>1, <3>1, Reaching
    <2>5. CASE LeaveTable
      <3>1. text' = text /\ calls # <<>>
        BY <2>5 DEF LeaveTable
      <3> QED  BY <2>1, <3>1 DEF ValueInv
    <2>6. ASSUME NEW d \in Doc, LuaDB_JsonDecode(d) PROVE FALSE
      <3>1. text' = text /\ value = None
        BY <2>6 DEF LuaDB_JsonDecode
      <3> QED  BY <2>1, <3>1 DEF ValueInv
    <2>7. ASSUME NEW t \in DOMAIN heap, NEW u \in DOMAIN heap,
                 LuaDB_JsonMakeArray(t) \/ SetMetatable(t, u) \/ NewMetatable(t) \/ Unmark(t)
          PROVE  FALSE
      <3>1. text' = text /\ text = None
        BY <2>7 DEF LuaDB_JsonMakeArray, SetMetatable, NewMetatable, Unmark, Scripting
      <3> QED  BY <3>1
    <2> QED  BY <2>2, <2>3, <2>4, <2>5, <2>6, <2>7 DEF Next
  <1> QED  BY <1>1, <1>2, Invariant, PTL DEF Spec
=============================================================================
