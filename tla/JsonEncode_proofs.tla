-------------------------- MODULE JsonEncode_proofs --------------------------
(* What holds of JsonEncode for every set of tables and fields. That the set *)
(* of tables is finite is only used for the outcome of a call.               *)
EXTENDS JsonEncode, FiniteSetTheorems, SequenceTheorems, WellFoundedInduction, TLAPS

Outcomes == {"none", "running", "done", "cycle", "badkey", "crash"}

\* Each table on the stack but the first is the member, named by the field it
\* was found in, of the one below it.
StackLinked ==
    \A i \in 2..Len(stack) :
        /\ stack[i].field \in Field
        /\ heap[stack[i - 1].table][stack[i].field] = stack[i].table

\* The inductive invariant. RefsArePath alone is not inductive: that a member
\* found in refs closes a loop needs the links between the tables of the stack.
EncodeInv ==
    /\ TypeOK
    /\ result = "running" <=> stack # <<>>
    /\ StackLinked
    /\ RefsArePath
    /\ CycleIsReal

\* The tables of the stack from the one that is found again to the one it is
\* found in are a loop.
LEMMA LoopClosed ==
    ASSUME EncodeInv, result = "running", NEW f \in Field, Found(f) \in refs
    PROVE  HasLoop
<1> DEFINE n == Len(stack)
<1>1. stack \in Seq(Frame) /\ n \in Nat \ {0} /\ n \in DOMAIN stack
  BY DEF EncodeInv, TypeOK
<1>2. PICK k \in DOMAIN stack : stack[k].table = Found(f)
  BY DEF EncodeInv, RefsArePath
<1> DEFINE S == {stack[i].table : i \in k..n}
<1>3. k \in 1..n /\ DOMAIN stack = 1..n
  BY <1>1, <1>2
<1>4. S \in SUBSET Table /\ S # {}
  <2>1. \A i \in k..n : stack[i] \in Frame
    BY <1>1, <1>3
  <2>2. k \in k..n
    BY <1>1, <1>3
  <2>. QED
    BY <2>1, <2>2 DEF Frame
<1>5. ASSUME NEW t \in S
      PROVE  \E g \in Field : heap[t][g] \in S
  <2>1. PICK i \in k..n : t = stack[i].table
    OBVIOUS
  <2>2. CASE i = n
    BY <1>2, <1>3, <2>1, <2>2 DEF Found, Top
  <2>3. CASE i # n
    <3>1. i + 1 \in 2..n /\ i + 1 \in k..n /\ (i + 1) - 1 = i
      BY <1>1, <1>3, <2>1, <2>3
    <3>2. /\ stack[i + 1].field \in Field
          /\ heap[stack[i].table][stack[i + 1].field] = stack[i + 1].table
      BY <3>1 DEF EncodeInv, StackLinked
    <3>. QED
      BY <2>1, <3>1, <3>2
  <2>. QED
    BY <2>2, <2>3
<1>. QED
  BY <1>4, <1>5 DEF HasLoop

LEMMA InitHolds == Init => EncodeInv
BY DEF Init, EncodeInv, TypeOK, Value, StackLinked, RefsArePath, CycleIsReal

\* A new call.
LEMMA EncodeKeeps ==
    ASSUME EncodeInv, NEW t \in Table, LuaDB_JsonEncode(t)
    PROVE  EncodeInv'
<1>1. Entered(t, Plain) \in Frame
  BY DEF Entered, Frame
<1>2. TypeOK'
  BY <1>1 DEF EncodeInv, TypeOK, LuaDB_JsonEncode, Value
<1>3. Len(stack') = 1 /\ DOMAIN stack' = {1} /\ stack'[1].table = t /\ stack' # <<>>
  BY <1>1 DEF LuaDB_JsonEncode, Entered
<1>4. StackLinked' /\ RefsArePath'
  BY <1>3 DEF LuaDB_JsonEncode, StackLinked, RefsArePath
<1>. QED
  BY <1>2, <1>3, <1>4 DEF EncodeInv, LuaDB_JsonEncode, CycleIsReal

\* A member that is a table joins the stack.
LEMMA EnterKeeps ==
    ASSUME EncodeInv, NEW f \in Field, EnterChild(f)
    PROVE  EncodeInv'
<1> DEFINE n == Len(stack)
           c == Found(f)
<1>1. /\ stack \in Seq(Frame) /\ n \in Nat \ {0} /\ DOMAIN stack = 1..n
      /\ heap' = heap /\ result' = result /\ result = "running" /\ c \in Table
  BY DEF EncodeInv, TypeOK, EnterChild
<1>2. Given(f) \in Seq(Frame) /\ Len(Given(f)) = n
  <2> DEFINE fr == [stack[n] EXCEPT !.todo = @ \ {f}]
  <2>1. stack[n] \in Frame
    BY <1>1
  <2>2. fr \in Frame
    BY <2>1 DEF Frame
  <2>3. Given(f) = [stack EXCEPT ![n] = fr]
    BY DEF Given
  <2>. HIDE DEF fr
  <2>. QED
    BY <1>1, <2>2, <2>3
<1>3. Entered(c, f) \in Frame
  BY <1>1 DEF Entered, Frame
<1>4. /\ stack' \in Seq(Frame) /\ Len(stack') = n + 1 /\ DOMAIN stack' = 1..(n + 1)
      /\ \A i \in 1..n : stack'[i].table = stack[i].table /\ stack'[i].field = stack[i].field
      /\ stack'[n + 1].table = c /\ stack'[n + 1].field = f
  <2>1. stack' = Append(Given(f), Entered(c, f))
    BY DEF EnterChild
  <2>2. /\ stack' \in Seq(Frame) /\ Len(stack') = n + 1 /\ DOMAIN stack' = 1..(n + 1)
        /\ \A i \in 1..n : stack'[i] = Given(f)[i]
        /\ stack'[n + 1] = Entered(c, f)
    BY <1>1, <1>2, <1>3, <2>1
  <2>3. \A i \in 1..n : /\ Given(f)[i].table = stack[i].table
                        /\ Given(f)[i].field = stack[i].field
    BY <1>1 DEF Given, Frame
  <2>. QED
    BY <2>2, <2>3 DEF Entered
<1>5. TypeOK'
  BY <1>1, <1>4 DEF EncodeInv, TypeOK, EnterChild
<1>6. StackLinked'
  <2> SUFFICES ASSUME NEW i \in 2..(n + 1)
               PROVE  /\ stack'[i].field \in Field
                      /\ heap[stack'[i - 1].table][stack'[i].field] = stack'[i].table
    BY <1>1, <1>4 DEF StackLinked
  <2>1. CASE i = n + 1
    BY <1>1, <1>4, <2>1 DEF Found, Top
  <2>2. CASE i \in 2..n
    BY <1>1, <1>4, <2>2 DEF EncodeInv, StackLinked
  <2>. QED
    BY <1>1, <2>1, <2>2
<1>7. RefsArePath'
  <2>1. refs' = refs \cup {c} /\ c \notin refs
    BY DEF EnterChild
  <2>2. refs = {stack[i].table : i \in 1..n}
    BY <1>1 DEF EncodeInv, RefsArePath
  <2>3. refs' = {stack'[i].table : i \in 1..(n + 1)}
    <3>1. 1..(n + 1) = 1..n \cup {n + 1}
      BY <1>1
    <3>. QED
      BY <1>4, <2>1, <2>2, <3>1
  <2>4. \A i, j \in 1..(n + 1) : stack'[i].table = stack'[j].table => i = j
    <3>1. \A i, j \in 1..n : stack[i].table = stack[j].table => i = j
      BY <1>1 DEF EncodeInv, RefsArePath
    <3>2. \A i \in 1..n : stack'[i].table # c
      BY <1>4, <2>1, <2>2
    <3>3. \A i \in 1..(n + 1) : i \in 1..n \/ i = n + 1
      BY <1>1
    <3>. QED
      BY <1>4, <3>1, <3>2, <3>3
  <2>. QED
    BY <1>4, <2>3, <2>4 DEF RefsArePath
<1>. QED
  BY <1>1, <1>4, <1>5, <1>6, <1>7 DEF EncodeInv, CycleIsReal

\* An error unwinds the stack; a cycle is only raised for a loop.
LEMMA RaiseKeeps ==
    ASSUME EncodeInv, NEW f \in Field,
           RaiseCycle(f) \/ RaiseBadKey(f) \/ AppendNull(f)
    PROVE  EncodeInv'
<1>1. stack' = <<>> /\ heap' = heap /\ root' = root /\ refs' = refs /\ out' = out
  BY DEF RaiseCycle, RaiseBadKey, AppendNull, Raise
<1>2. result' \in Outcomes \ {"running"}
  BY DEF RaiseCycle, RaiseBadKey, AppendNull, Raise, Outcomes
<1>3. TypeOK'
  BY <1>1, <1>2 DEF EncodeInv, TypeOK, Outcomes
<1>4. CycleIsReal'
  <2>1. CASE RaiseCycle(f)
    <3>1. HasLoop
      BY <2>1, LoopClosed DEF RaiseCycle, Raise
    <3>. QED
      BY <1>1, <3>1 DEF CycleIsReal, HasLoop
  <2>2. CASE RaiseBadKey(f) \/ AppendNull(f)
    BY <2>2 DEF RaiseBadKey, AppendNull, Raise, CycleIsReal
  <2>. QED
    BY <2>1, <2>2
<1>. QED
  BY <1>1, <1>2, <1>3, <1>4 DEF EncodeInv, StackLinked, RefsArePath

\* The last table of the stack is done.
LEMMA ReturnKeeps ==
    ASSUME EncodeInv, Return
    PROVE  EncodeInv'
<1> DEFINE n == Len(stack)
<1>1. /\ stack \in Seq(Frame) /\ n \in Nat \ {0} /\ DOMAIN stack = 1..n
      /\ heap' = heap /\ root' = root /\ result = "running"
  BY DEF EncodeInv, TypeOK, Return
<1>2. /\ stack' \in Seq(Frame) /\ Len(stack') = n - 1 /\ DOMAIN stack' = 1..(n - 1)
      /\ \A i \in 1..(n - 1) : stack'[i] = stack[i]
  <2>1. stack' = SubSeq(stack, 1, n - 1)
    BY DEF Return
  <2>. QED
    BY <1>1, <2>1
<1>3. Path \in Seq(Field)
  <2>1. \A i \in 1..(n - 1) : i + 1 \in 2..n
    BY <1>1
  <2>2. \A i \in 1..(n - 1) : stack[i + 1].field \in Field
    BY <2>1 DEF EncodeInv, StackLinked
  <2>3. Path \in [1..(n - 1) -> Field]
    BY <2>2 DEF Path
  <2>4. n - 1 \in Nat
    BY <1>1
  <2>. QED
    BY <2>3, <2>4
<1>4. result' = (IF n = 1 THEN "done" ELSE "running")
  BY DEF Return
<1>5. TypeOK'
  BY <1>1, <1>2, <1>3, <1>4 DEF EncodeInv, TypeOK, Return
<1>6. (result' = "running" <=> stack' # <<>>) /\ result' # "cycle"
  BY <1>1, <1>2, <1>4
<1>7. StackLinked'
  BY <1>1, <1>2 DEF EncodeInv, StackLinked
<1>8. RefsArePath'
  <2>1. refs' = refs \ {stack[n].table}
    BY DEF Return, Top
  <2>2. /\ refs = {stack[i].table : i \in 1..n}
        /\ \A i, j \in 1..n : stack[i].table = stack[j].table => i = j
    BY <1>1 DEF EncodeInv, RefsArePath
  <2>3. 1..n = 1..(n - 1) \cup {n} /\ n \notin 1..(n - 1)
    BY <1>1
  <2>4. refs' = {stack[i].table : i \in 1..(n - 1)}
    BY <2>1, <2>2, <2>3
  <2>. QED
    BY <1>2, <2>2, <2>3, <2>4 DEF RefsArePath
<1>. QED
  BY <1>5, <1>6, <1>7, <1>8 DEF EncodeInv, CycleIsReal

LEMMA FunctionKeeps == EncodeInv /\ JsonEncodeFunction => EncodeInv'
BY DEF EncodeInv, JsonEncodeFunction, TypeOK, Value, StackLinked, RefsArePath, CycleIsReal

LEMMA NextKeeps == EncodeInv /\ [Next]_vars => EncodeInv'
<1> SUFFICES ASSUME EncodeInv, [Next]_vars
             PROVE  EncodeInv'
  OBVIOUS
<1>1. ASSUME NEW t \in Table, LuaDB_JsonEncode(t)
      PROVE  EncodeInv'
  BY <1>1, EncodeKeeps
<1>2. CASE JsonEncodeFunction
  BY <1>2, FunctionKeeps
<1>3. CASE Return
  BY <1>3, ReturnKeeps
<1>4. ASSUME NEW f \in Field, EnterChild(f)
      PROVE  EncodeInv'
  BY <1>4, EnterKeeps
<1>5. ASSUME NEW f \in Field, RaiseCycle(f) \/ RaiseBadKey(f) \/ AppendNull(f)
      PROVE  EncodeInv'
  BY <1>5, RaiseKeeps
<1>6. CASE UNCHANGED vars
  BY <1>6 DEF vars, EncodeInv, TypeOK, StackLinked, RefsArePath, CycleIsReal, HasLoop
<1>. QED
  BY <1>1, <1>2, <1>3, <1>4, <1>5, <1>6 DEF Next, Walk

THEOREM EncodeInvariant == Spec => []EncodeInv
<1>. QED
  BY InitHolds, NextKeeps, PTL DEF Spec

\* The reference table is the path of the walk, whatever the tables hold.
THEOREM RefsCorrect == Spec => []RefsArePath
<1>1. EncodeInv => RefsArePath
  BY DEF EncodeInv
<1>. QED
  BY <1>1, EncodeInvariant, PTL

\* "Reference cycle detected" is never raised for tables without a cycle.
THEOREM CycleSound == Spec => []CycleIsReal
<1>1. EncodeInv => CycleIsReal
  BY DEF EncodeInv
<1>. QED
  BY <1>1, EncodeInvariant, PTL

\* The variables keep their types.
THEOREM TypeCorrect == Spec => []TypeOK
<1>1. EncodeInv => TypeOK
  BY DEF EncodeInv
<1>. QED
  BY <1>1, EncodeInvariant, PTL

-----------------------------------------------------------------------------
(* What a path of fields leads to. At is defined by recursion on the path;   *)
(* a trail is the values passed on the way.                                  *)

LEMMA NatMin ==
    ASSUME NEW T \in SUBSET Nat, T # {}
    PROVE  \E x \in T : \A y \in T : x <= y
<1>1. PICK x \in T : \A y \in T : ~ (<<y, x>> \in OpToRel(<, Nat))
  BY NatLessThanWellFounded, WFMin
<1>2. \A y \in T : y \in Nat /\ x \in Nat
  OBVIOUS
<1>3. \A y \in T : ~ (y < x)
  BY <1>1, <1>2 DEF OpToRel
<1>. QED
  BY <1>2, <1>3

\* Induction, for a set of numbers.
LEMMA AllNumbers ==
    ASSUME NEW T, 0 \in T, \A n \in Nat : n \in T => n + 1 \in T
    PROVE  \A n \in Nat : n \in T
<1> SUFFICES ASSUME Nat \ T # {} PROVE FALSE
  OBVIOUS
<1>1. PICK x \in Nat \ T : \A y \in Nat \ T : x <= y
  BY NatMin
<1>2. x - 1 \in Nat /\ (x - 1) + 1 = x /\ ~ (x <= x - 1)
  BY <1>1
<1>3. x - 1 \in T
  BY <1>1, <1>2
<1>. QED
  BY <1>1, <1>2, <1>3

Trail(t, v, p, n) ==
    t = [i \in 0..n |-> IF i = 0 THEN v ELSE Member(t[i - 1], p[i])]

LEMMA TrailExists ==
    ASSUME NEW v, NEW p
    PROVE  \A n \in Nat : \E t : Trail(t, v, p, n)
<1> DEFINE T == {n \in Nat : \E t : Trail(t, v, p, n)}
<1>1. 0 \in T
  <2> DEFINE t == [i \in 0..0 |-> v]
  <2>1. t = [i \in 0..0 |-> IF i = 0 THEN v ELSE Member(t[i - 1], p[i])]
    OBVIOUS
  <2>2. Trail(t, v, p, 0)
    BY <2>1 DEF Trail
  <2>. QED
    BY <2>2
<1>2. ASSUME NEW n \in Nat, n \in T
      PROVE  n + 1 \in T
  <2>1. PICK t : Trail(t, v, p, n)
    BY <1>2
  <2> DEFINE u == [i \in 0..(n + 1) |-> IF i = n + 1 THEN Member(t[n], p[n + 1]) ELSE t[i]]
  <2>2. ASSUME NEW i \in 0..(n + 1)
        PROVE  u[i] = IF i = 0 THEN v ELSE Member(u[i - 1], p[i])
    <3>1. CASE i = n + 1
      <4>1. u[i] = Member(t[n], p[n + 1]) /\ i - 1 = n /\ i # 0 /\ n \in 0..(n + 1) /\ n # n + 1
        BY <3>1
      <4>2. u[n] = t[n]
        BY <4>1
      <4>. QED
        BY <3>1, <4>1, <4>2
    <3>2. CASE i # n + 1
      <4>1. i \in 0..n /\ u[i] = t[i] /\ (i # 0 => i - 1 \in 0..n /\ i - 1 \in 0..(n + 1) /\ i - 1 # n + 1)
        BY <3>2
      <4>2. t[i] = IF i = 0 THEN v ELSE Member(t[i - 1], p[i])
        BY <2>1, <4>1 DEF Trail
      <4>3. i # 0 => u[i - 1] = t[i - 1]
        BY <4>1
      <4>. QED
        BY <4>1, <4>2, <4>3
    <3>. QED
      BY <3>1, <3>2
  <2>3. u = [i \in 0..(n + 1) |-> u[i]]
    OBVIOUS
  <2>. HIDE DEF u
  <2>4. Trail(u, v, p, n + 1)
    BY <2>2, <2>3 DEF Trail
  <2>. QED
    BY <2>4
<1>. HIDE DEF T
<1>3. \A n \in Nat : n \in T
  BY <1>1, <1>2, AllNumbers
<1>. QED
  BY <1>3 DEF T

LEMMA AtIsTrail ==
    ASSUME NEW v, NEW p, Len(p) \in Nat
    PROVE  \E t : Trail(t, v, p, Len(p)) /\ At(v, p) = t[Len(p)]
<1> DEFINE reached == CHOOSE t : t = [n \in 0..Len(p) |-> IF n = 0 THEN v ELSE Member(t[n - 1], p[n])]
<1>1. PICK t : t = [n \in 0..Len(p) |-> IF n = 0 THEN v ELSE Member(t[n - 1], p[n])]
  <2>1. \E t : Trail(t, v, p, Len(p))
    BY TrailExists
  <2>. QED
    BY <2>1 DEF Trail
<1>2. reached = [n \in 0..Len(p) |-> IF n = 0 THEN v ELSE Member(reached[n - 1], p[n])]
  BY <1>1
<1>3. At(v, p) = reached[Len(p)]
  BY DEF At
<1>. HIDE DEF reached
<1>. QED
  BY <1>2, <1>3 DEF Trail

\* A trail is the only one, as far as the paths agree.
LEMMA TrailUnique ==
    ASSUME NEW v, NEW p, NEW q, NEW m \in Nat, NEW n \in Nat, NEW k \in Nat, k <= m, k <= n,
           \A i \in 1..k : p[i] = q[i],
           NEW t, Trail(t, v, p, m), NEW u, Trail(u, v, q, n)
    PROVE  t[k] = u[k]
<1> DEFINE T == {i \in Nat : i <= k => t[i] = u[i]}
<1>1. 0 \in T
  BY DEF Trail
<1>2. ASSUME NEW i \in Nat, i \in T
      PROVE  i + 1 \in T
  <2> SUFFICES ASSUME i + 1 <= k PROVE t[i + 1] = u[i + 1]
    OBVIOUS
  <2>1. i + 1 \in 0..m /\ i + 1 \in 0..n /\ i + 1 # 0 /\ (i + 1) - 1 = i /\ i + 1 \in 1..k
    OBVIOUS
  <2>2. t[i + 1] = Member(t[i], p[i + 1]) /\ u[i + 1] = Member(u[i], q[i + 1])
    BY <2>1 DEF Trail
  <2>3. t[i] = u[i]
    BY <1>2, <2>1
  <2>. QED
    BY <2>1, <2>2, <2>3
<1>. HIDE DEF T
<1>3. k \in T
  BY <1>1, <1>2, AllNumbers
<1>. QED
  BY <1>3 DEF T

\* The two equations of At.
LEMMA AtRoot == ASSUME NEW v PROVE At(v, <<>>) = v
<1>1. Len(<<>>) = 0
  OBVIOUS
<1>2. PICK t : Trail(t, v, <<>>, 0) /\ At(v, <<>>) = t[0]
  BY <1>1, AtIsTrail
<1>. QED
  BY <1>2 DEF Trail

LEMMA AtMember ==
    ASSUME NEW v, NEW p \in Seq(Field), NEW f \in Field
    PROVE  At(v, Append(p, f)) = Member(At(v, p), f)
<1> DEFINE q == Append(p, f)
           n == Len(p)
<1>1. n \in Nat /\ Len(q) = n + 1 /\ q[n + 1] = f /\ \A i \in 1..n : q[i] = p[i]
  OBVIOUS
<1>. HIDE DEF q
<1>2. PICK t : Trail(t, v, p, n) /\ At(v, p) = t[n]
  BY <1>1, AtIsTrail
<1>3. PICK u : Trail(u, v, q, n + 1) /\ At(v, q) = u[n + 1]
  BY <1>1, AtIsTrail
<1>4. t[n] = u[n]
  <2>1. n \in Nat /\ n + 1 \in Nat /\ n <= n /\ n <= n + 1 /\ \A i \in 1..n : p[i] = q[i]
    BY <1>1
  <2>2. Trail(t, v, p, n) /\ Trail(u, v, q, n + 1)
    BY <1>2, <1>3
  <2>. HIDE DEF n
  <2>. QED
    BY <2>1, <2>2, TrailUnique
<1>5. u[n + 1] = Member(u[n], f)
  <2>1. n + 1 \in 0..(n + 1) /\ n + 1 # 0 /\ (n + 1) - 1 = n
    BY <1>1
  <2>. QED
    BY <1>1, <1>3, <2>1 DEF Trail
<1>. QED
  BY <1>2, <1>3, <1>4, <1>5 DEF q

\* Every path but the empty one is a path and a field.
LEMMA PathSplit ==
    ASSUME NEW p \in Seq(Field), NEW n \in Nat, Len(p) = n + 1
    PROVE  \E q \in Seq(Field), f \in Field : p = Append(q, f) /\ Len(q) = n
<1>1. SubSeq(p, 1, n) \in Seq(Field) /\ Len(SubSeq(p, 1, n)) = n /\ p[n + 1] \in Field
  OBVIOUS
<1>2. p = Append(SubSeq(p, 1, n), p[n + 1])
  OBVIOUS
<1>. QED
  BY <1>1, <1>2

LEMMA AtConcat ==
    ASSUME NEW v, NEW p \in Seq(Field), NEW q \in Seq(Field)
    PROVE  At(v, p \o q) = At(At(v, p), q)
<1> DEFINE T == {n \in Nat : \A r \in Seq(Field) : Len(r) = n => At(v, p \o r) = At(At(v, p), r)}
<1>1. 0 \in T
  <2> SUFFICES ASSUME NEW r \in Seq(Field), Len(r) = 0 PROVE At(v, p \o r) = At(At(v, p), r)
    OBVIOUS
  <2>1. r = <<>> /\ p \o r = p
    OBVIOUS
  <2>. QED
    BY <2>1, AtRoot
<1>2. ASSUME NEW n \in Nat, n \in T
      PROVE  n + 1 \in T
  <2> SUFFICES ASSUME NEW r \in Seq(Field), Len(r) = n + 1 PROVE At(v, p \o r) = At(At(v, p), r)
    OBVIOUS
  <2>1. PICK s \in Seq(Field), f \in Field : r = Append(s, f) /\ Len(s) = n
    BY PathSplit
  <2>2. p \o r = Append(p \o s, f) /\ p \o s \in Seq(Field)
    BY <2>1
  <2>3. At(v, p \o s) = At(At(v, p), s)
    BY <1>2, <2>1
  <2>4. At(v, Append(p \o s, f)) = Member(At(v, p \o s), f)
    BY <2>2, AtMember
  <2>5. At(At(v, p), Append(s, f)) = Member(At(At(v, p), s), f)
    BY <2>1, AtMember
  <2>. QED
    BY <2>1, <2>2, <2>3, <2>4, <2>5
<1>. HIDE DEF T
<1>3. Len(q) \in T
  <2>1. Len(q) \in Nat
    OBVIOUS
  <2>. QED
    BY <1>1, <1>2, <2>1, AllNumbers
<1>. QED
  BY <1>3 DEF T

\* Encoding changes no table.
LEMMA AtSame == ASSUME heap' = heap, root' = root, NEW p PROVE At(root, p)' = At(root, p)
BY DEF At, Member

LEMMA AtNewRoot == ASSUME heap' = heap, NEW t, root' = t, NEW p PROVE At(root, p)' = At(t, p)
BY DEF At, Member

LEMMA PathsAre ==
    ASSUME Cardinality(Table) \in Nat
    PROVE  \A p : p \in Paths <=> p \in Seq(Field) /\ Len(p) <= Cardinality(Table)
<1>1. ASSUME NEW p \in Paths
      PROVE  p \in Seq(Field) /\ Len(p) <= Cardinality(Table)
  <2>1. PICK n \in 0..Cardinality(Table) : p \in [1..n -> Field]
    BY DEF Paths
  <2>2. n \in Nat
    BY <2>1
  <2>3. p \in Seq(Field) /\ Len(p) = n
    BY <2>1, <2>2
  <2>. QED
    BY <2>1, <2>3
<1>2. ASSUME NEW p \in Seq(Field), Len(p) <= Cardinality(Table)
      PROVE  p \in Paths
  <2>1. Len(p) \in 0..Cardinality(Table) /\ p \in [1..Len(p) -> Field]
    BY <1>2
  <2>. QED
    BY <2>1 DEF Paths
<1>. QED
  BY <1>1, <1>2

-----------------------------------------------------------------------------
(* What has been converted, and what is left.                                *)

\* Where the table of the i-th frame is in the tree.
PathTo(i) == [j \in 1..(i - 1) |-> stack[j + 1].field]

\* What the field g of the table at p holds is in the tree.
Accounted(p, g) ==
    LET c == heap[At(root, p)][g]
    IN  c = Plain \/ (c \in Table /\ Append(p, g) \in out)

\* Every table in the tree is there with all its members.
TreeClosed ==
    /\ out \subseteq Seq(Field)
    /\ \A p \in out : /\ At(root, p) \in Table
                      /\ Len(p) < Cardinality(Table)
                      /\ \A g \in Field : Accounted(p, g)

\* Each frame is the table at its path, and each of its fields is still to be
\* given, is the one the walk is inside of, or is accounted for.
FramesPlaced ==
    /\ Cardinality(refs) = Len(stack)
    /\ \A i \in DOMAIN stack : At(root, PathTo(i)) = stack[i].table
    /\ \A i \in DOMAIN stack, g \in Field :
          \/ g \in stack[i].todo
          \/ i < Len(stack) /\ g = stack[i + 1].field
          \/ Accounted(PathTo(i), g)

ErrorJustified ==
    /\ result = "cycle" => \E t \in Reached : OnLoop(t)
    /\ result = "badkey" => BadKey \in Reached
    /\ result = "crash" => Function \in Reached

OutInv ==
    /\ EncodeInv
    /\ result \in {"running", "done"} => TreeClosed
    /\ result = "running" => FramesPlaced
    /\ result = "done" => <<>> \in out
    /\ ErrorJustified

LEMMA TablesCounted ==
    /\ Cardinality(Table) \in Nat
    /\ \A S \in SUBSET Table : /\ IsFiniteSet(S) /\ Cardinality(S) \in Nat
                               /\ Cardinality(S) <= Cardinality(Table)
BY TableAssumption, FS_CardinalityType, FS_Subset

LEMMA OutInit == Init => OutInv
BY InitHolds DEF Init, OutInv, ErrorJustified

LEMMA OutEncode ==
    ASSUME OutInv, NEW t \in Table, LuaDB_JsonEncode(t)
    PROVE  OutInv'
<1>1. EncodeInv'
  BY EncodeKeeps DEF OutInv
<1>2. /\ heap' = heap /\ root' = t /\ refs' = {t} /\ out' = {} /\ result' = "running"
      /\ stack' = <<Entered(t, Plain)>> /\ Len(stack') = 1 /\ DOMAIN stack' = {1}
      /\ stack'[1] = Entered(t, Plain)
  BY DEF LuaDB_JsonEncode
<1>3. TreeClosed'
  BY <1>2 DEF TreeClosed
<1>4. PathTo(1)' = <<>> /\ At(root, <<>>)' = t
  BY <1>2, AtNewRoot, AtRoot DEF PathTo
<1>5. Cardinality(refs') = 1
  BY <1>2, FS_Singleton
<1>6. ASSUME NEW g \in Field, g \notin stack'[1].todo
      PROVE  Accounted(<<>>, g)'
  <2>1. heap[t][g] = Plain
    BY <1>2, <1>6 DEF Entered
  <2>. QED
    BY <1>2, <1>4, <2>1 DEF Accounted
<1>7. FramesPlaced'
  <2>1. stack'[1].table = t
    BY <1>2 DEF Entered
  <2>2. \A i \in DOMAIN stack' : i = 1
    BY <1>2
  <2>3. At(root, PathTo(1))' = t
    BY <1>4
  <2>4. \A g \in Field : g \in stack'[1].todo \/ Accounted(PathTo(1), g)'
    BY <1>4, <1>6
  <2>. QED
    BY <1>2, <1>5, <2>1, <2>2, <2>3, <2>4 DEF FramesPlaced
<1>. QED
  BY <1>1, <1>2, <1>3, <1>7 DEF OutInv, ErrorJustified

\* Path is a path to the table the walk is in.
LEMMA PathPlaced ==
    ASSUME OutInv, result = "running"
    PROVE  /\ Path \in Seq(Field) /\ Len(Path) = Len(stack) - 1
           /\ At(root, Path) = Top.table /\ Top.table \in Table
           /\ Len(stack) <= Cardinality(Table)
<1> DEFINE n == Len(stack)
<1>1. /\ stack \in Seq(Frame) /\ n \in Nat \ {0} /\ DOMAIN stack = 1..n /\ n \in 1..n
      /\ Top \in Frame /\ refs \in SUBSET Table
  BY DEF OutInv, EncodeInv, TypeOK, Top
<1>2. \A i \in 1..(n - 1) : stack[i + 1].field \in Field
  <2>1. \A i \in 1..(n - 1) : i + 1 \in 2..n
    BY <1>1
  <2>. QED
    BY <2>1 DEF OutInv, EncodeInv, StackLinked
<1>3. Path \in Seq(Field) /\ Len(Path) = n - 1
  <2>1. Path \in [1..(n - 1) -> Field] /\ n - 1 \in Nat
    BY <1>1, <1>2 DEF Path
  <2>. QED
    BY <2>1
<1>4. At(root, Path) = Top.table
  BY <1>1 DEF OutInv, FramesPlaced, Path, PathTo, Top
<1>5. n <= Cardinality(Table)
  BY <1>1, TablesCounted DEF OutInv, FramesPlaced
<1>. QED
  BY <1>1, <1>3, <1>4, <1>5 DEF Frame

\* What the walk finds in the table it is in is what the path and the field
\* lead to.
LEMMA FoundAt ==
    ASSUME OutInv, result = "running", NEW f \in Field
    PROVE  /\ Path \in Seq(Field) /\ Len(Path) = Len(stack) - 1
           /\ Append(Path, f) \in Paths
           /\ At(root, Append(Path, f)) = Found(f)
<1>1. At(root, Append(Path, f)) = Found(f)
  BY PathPlaced, AtMember DEF Member, Found
<1>2. Append(Path, f) \in Seq(Field) /\ Len(Append(Path, f)) = Len(stack)
  <2>1. Len(Append(Path, f)) = Len(Path) + 1 /\ Len(stack) \in Nat
    BY PathPlaced DEF OutInv, EncodeInv, TypeOK
  <2>. QED
    BY <2>1, PathPlaced
<1>. QED
  BY <1>1, <1>2, PathPlaced, PathsAre, TablesCounted

\* A path is cut before any of its fields.
LEMMA PathCut ==
    ASSUME NEW w \in Seq(Field), NEW k \in 1..Len(w)
    PROVE  /\ SubSeq(w, 1, k - 1) = [j \in 1..(k - 1) |-> w[j]]
           /\ SubSeq(w, 1, k - 1) \in Seq(Field)
           /\ w = SubSeq(w, 1, k - 1) \o SubSeq(w, k, Len(w))
<1>1. /\ 1 \in 1..(Len(w) + 1) /\ k - 1 \in (1 - 1)..Len(w) /\ Len(w) \in (k - 1)..Len(w)
      /\ (k - 1) + 1 = k
  OBVIOUS
<1>2. w = SubSeq(w, 1, k - 1) \o SubSeq(w, k, Len(w))
  BY <1>1, ConcatAdjacentSubSeq, SubSeqFull
<1> DEFINE a == SubSeq(w, 1, k - 1)
<1>3. /\ a \in Seq(Field) /\ Len(a) = k - 1
      /\ \A j \in 1..(k - 1) : a[j] = w[1 + j - 1]
  <2>1. /\ 1 \in Int /\ k - 1 \in Int /\ (k - 1) - 1 + 1 = k - 1
        /\ \A j \in 1..(k - 1) : j \in 1..Len(w) /\ w[j] \in Field
        /\ (IF 1 <= k - 1 THEN (k - 1) - 1 + 1 ELSE 0) = k - 1
    OBVIOUS
  <2>. QED
    BY <2>1, SubSeqProperties
<1>. HIDE DEF a
<1>4. a = [j \in 1..(k - 1) |-> w[j]]
  <2>1. \A j \in 1..(k - 1) : 1 + j - 1 = j
    OBVIOUS
  <2>2. a = [j \in 1..(k - 1) |-> a[j]]
    BY <1>3
  <2>. QED
    BY <1>3, <2>1, <2>2
<1>. QED
  BY <1>2, <1>3, <1>4 DEF a

LEMMA OutRaise ==
    ASSUME OutInv, NEW f \in Field,
           RaiseCycle(f) \/ RaiseBadKey(f) \/ AppendNull(f)
    PROVE  OutInv'
<1> DEFINE n == Len(stack)
<1>1. EncodeInv'
  BY RaiseKeeps DEF OutInv
<1>2. result = "running" /\ heap' = heap /\ root' = root
  BY DEF RaiseCycle, RaiseBadKey, AppendNull, Raise
<1>3. /\ Path \in Seq(Field) /\ Len(Path) = n - 1
      /\ \E w, c : /\ w = Append(Path, f) /\ c = Found(f)
                   /\ w \in Paths /\ At(root, w) = c
  BY <1>2, FoundAt
\* The path and what it leads to, as values.
<1>4. PICK w, c : w = Append(Path, f) /\ c = Found(f) /\ w \in Paths /\ At(root, w) = c
  BY <1>3
<1>5. c \in Reached'
  <2>1. At(root, w)' = c
    BY <1>2, <1>4, AtSame
  <2>. QED
    BY <1>4, <2>1 DEF Reached
<1>6. CASE RaiseBadKey(f) \/ AppendNull(f)
  <2>1. ErrorJustified'
    BY <1>4, <1>5, <1>6 DEF RaiseBadKey, AppendNull, Raise, ErrorJustified
  <2>. QED
    BY <1>1, <1>6, <2>1 DEF OutInv, RaiseBadKey, AppendNull, Raise
<1>7. CASE RaiseCycle(f)
  <2>1. /\ stack \in Seq(Frame) /\ n \in Nat \ {0} /\ DOMAIN stack = 1..n
        /\ c \in refs /\ c \in Table
    BY <1>4, <1>7 DEF OutInv, EncodeInv, TypeOK, RaiseCycle, Raise
  <2>2. PICK k \in 1..n : stack[k].table = c
    BY <1>2, <2>1 DEF OutInv, EncodeInv, RefsArePath
  <2>3. /\ w \in Seq(Field) /\ Len(w) = n /\ \A j \in 1..(n - 1) : w[j] = Path[j]
    <3>1. Len(Append(Path, f)) = Len(Path) + 1
      BY <1>3
    <3>. QED
      BY <1>3, <1>4, <2>1, <3>1
  <2>. DEFINE q == SubSeq(w, k, n)
  <2>4. q \in Seq(Field) /\ Len(q) = n - k + 1 /\ q # <<>>
    <3>1. /\ k \in Int /\ n \in Int /\ k <= n /\ n - k + 1 # 0
          /\ \A j \in k..n : j \in 1..n /\ w[j] \in Field
      BY <2>1, <2>2, <2>3
    <3>2. q \in Seq(Field) /\ Len(q) = n - k + 1
      BY <3>1, SubSeqProperties
    <3>. QED
      BY <3>1, <3>2
  <2>5. PathTo(k) = SubSeq(w, 1, k - 1)
    <3>1. \A j \in 1..(k - 1) : j \in 1..(n - 1)
      BY <2>1, <2>2
    <3>2. \A j \in 1..(k - 1) : w[j] = stack[j + 1].field
      BY <2>3, <3>1 DEF Path
    <3>3. SubSeq(w, 1, k - 1) = [j \in 1..(k - 1) |-> w[j]]
      BY <2>2, <2>3, PathCut
    <3>. QED
      BY <3>2, <3>3 DEF PathTo
  <2>6. PathTo(k) \in Seq(Field) /\ w = PathTo(k) \o q
    BY <2>2, <2>3, <2>5, PathCut
  <2>7. At(root, PathTo(k)) = c
    BY <1>2, <2>1, <2>2 DEF OutInv, FramesPlaced
  <2>. HIDE DEF q
  <2>8. At(c, q) = c
    BY <1>4, <2>4, <2>6, <2>7, AtConcat
  <2>9. q \in Paths
    <3>1. n <= Cardinality(Table)
      BY <1>4, <2>1, <2>3, PathsAre, TablesCounted
    <3>. QED
      BY <2>1, <2>2, <2>4, <3>1, PathsAre, TablesCounted
  <2>10. PICK l : l = q
    OBVIOUS
  <2>11. At(c, l)' = At(c, l)
    BY <1>2 DEF At, Member
  <2>12. OnLoop(c)'
    BY <2>1, <2>4, <2>8, <2>9, <2>10, <2>11 DEF OnLoop
  <2>13. ErrorJustified'
    BY <1>5, <1>7, <2>12 DEF RaiseCycle, Raise, ErrorJustified
  <2>. QED
    BY <1>1, <1>7, <2>13 DEF OutInv, RaiseCycle, Raise
<1>. QED
  BY <1>6, <1>7

LEMMA OutEnter ==
    ASSUME OutInv, NEW f \in Field, EnterChild(f)
    PROVE  OutInv'
<1>1. EncodeInv'
  BY EnterKeeps DEF OutInv
<1>2. /\ result = "running" /\ result' = "running" /\ heap' = heap /\ root' = root /\ out' = out
      /\ Found(f) \in Table \ refs /\ refs' = refs \cup {Found(f)}
      /\ stack' = Append(Given(f), Entered(Found(f), f))
  BY DEF EnterChild
<1>3. PICK n : /\ n = Len(stack) /\ stack \in Seq(Frame) /\ n \in Nat \ {0}
               /\ DOMAIN stack = 1..n /\ refs \in SUBSET Table
  BY <1>2 DEF OutInv, EncodeInv, TypeOK
<1>4. /\ Len(stack') = n + 1 /\ DOMAIN stack' = 1..(n + 1)
      /\ \A i \in 1..n : stack'[i] = IF i = n THEN [stack[n] EXCEPT !.todo = @ \ {f}] ELSE stack[i]
      /\ stack'[n + 1] = Entered(Found(f), f)
  <2> DEFINE fr == [stack[n] EXCEPT !.todo = @ \ {f}]
  <2>1. fr \in Frame
    <3>1. stack[n] \in Frame
      BY <1>3
    <3>. QED
      BY <3>1 DEF Frame
  <2>2. Given(f) = [stack EXCEPT ![n] = fr]
    BY <1>3 DEF Given
  <2>3. Entered(Found(f), f) \in Frame
    BY <1>2 DEF Entered, Frame
  <2>. HIDE DEF fr
  <2>4. /\ Given(f) \in Seq(Frame) /\ Len(Given(f)) = n
        /\ \A i \in 1..n : Given(f)[i] = IF i = n THEN fr ELSE stack[i]
    BY <1>3, <2>1, <2>2
  <2>5. /\ Len(stack') = n + 1 /\ DOMAIN stack' = 1..(n + 1)
        /\ \A i \in 1..n : stack'[i] = Given(f)[i]
        /\ stack'[n + 1] = Entered(Found(f), f)
    BY <1>2, <1>3, <2>3, <2>4
  <2>. QED
    BY <2>4, <2>5 DEF fr
<1>5. /\ \A i \in 1..n : stack'[i].table = stack[i].table /\ stack'[i].field = stack[i].field
      /\ \A i \in 1..n : i # n => stack'[i].todo = stack[i].todo
      /\ stack'[n].todo = stack[n].todo \ {f}
      /\ stack'[n + 1].table = Found(f) /\ stack'[n + 1].field = f
      /\ stack'[n + 1].todo = {g \in Field : heap[Found(f)][g] # Plain}
  <2>1. stack[n] \in Frame /\ n \in 1..n
    BY <1>3
  <2>. QED
    BY <1>4, <2>1 DEF Entered, Frame
<1>6. \A p, g : Accounted(p, g) <=> Accounted(p, g)'
  <2>1. ASSUME NEW p, NEW g
        PROVE  Accounted(p, g) <=> Accounted(p, g)'
    BY <1>2, AtSame DEF Accounted
  <2>. QED
    BY <2>1
<1>7. TreeClosed'
  <2>1. \A p : At(root, p)' = At(root, p)
    BY <1>2, AtSame
  <2>. QED
    BY <1>2, <1>6, <2>1 DEF OutInv, TreeClosed
\* The paths of the frames, as values.
<1>8. PICK q : q = [i \in 1..n |-> PathTo(i)]
  OBVIOUS
<1>9. /\ \A i \in 1..n : q[i] = PathTo(i) /\ PathTo(i)' = q[i]
      /\ PathTo(n + 1)' = Append(q[n], f) /\ q[n] = Path
  <2>1. ASSUME NEW i \in 1..n
        PROVE  PathTo(i)' = PathTo(i)
    <3>1. \A j \in 1..(i - 1) : j + 1 \in 1..n
      BY <1>3
    <3>. QED
      BY <1>5, <3>1 DEF PathTo
  <2>2. q[n] = Path
    BY <1>3, <1>8 DEF PathTo, Path
  <2>3. PathTo(n + 1)' = Append(Path, f)
    <3>1. Path \in Seq(Field) /\ Len(Path) = n - 1
      BY <1>2, <1>3, FoundAt
    <3>2. \A j \in 1..n : Append(Path, f)[j] = stack'[j + 1].field
      <4>1. ASSUME NEW j \in 1..n, j # n
            PROVE  Append(Path, f)[j] = stack'[j + 1].field
        <5>1. j \in 1..(n - 1) /\ j + 1 \in 1..n
          BY <1>3, <4>1
        <5>2. Append(Path, f)[j] = Path[j]
          BY <3>1, <5>1
        <5>3. Path[j] = stack[j + 1].field
          BY <1>3, <5>1 DEF Path
        <5>. QED
          BY <1>5, <5>1, <5>2, <5>3
      <4>2. Append(Path, f)[n] = f
        BY <1>3, <3>1
      <4>. QED
        BY <1>5, <4>1, <4>2
    <3>3. Append(Path, f) = [j \in 1..n |-> Append(Path, f)[j]]
      <4>1. Append(Path, f) \in Seq(Field) /\ Len(Append(Path, f)) = Len(Path) + 1
        BY <3>1
      <4>2. Len(Append(Path, f)) = n
        BY <1>3, <3>1, <4>1
      <4>3. Append(Path, f) \in [1..n -> Field]
        <5>1. \A s \in Seq(Field) : s \in [1..Len(s) -> Field]
          OBVIOUS
        <5>. QED
          BY <4>1, <4>2, <5>1
      <4>. QED
        BY <4>3
    <3>4. (n + 1) - 1 = n
      BY <1>3
    <3>. QED
      BY <3>2, <3>3, <3>4 DEF PathTo
  <2>. QED
    BY <1>8, <2>1, <2>2, <2>3
<1>10. FramesPlaced'
  <2>1. Cardinality(refs') = n + 1
    <3>1. IsFiniteSet(refs) /\ Cardinality(refs) = n
      BY <1>2, <1>3, TablesCounted DEF OutInv, FramesPlaced
    <3>. QED
      BY <1>2, <3>1, FS_AddElement
  <2>2. ASSUME NEW i \in 1..(n + 1)
        PROVE  At(root, PathTo(i))' = stack'[i].table
    <3>1. CASE i \in 1..n
      <4>1. At(root, q[i]) = stack[i].table
        BY <1>2, <1>3, <1>9, <3>1 DEF OutInv, FramesPlaced
      <4>2. At(root, q[i])' = At(root, q[i])
        BY <1>2, AtSame
      <4>. QED
        BY <1>5, <1>9, <3>1, <4>1, <4>2
    <3>2. CASE i = n + 1
      <4>1. At(root, Append(q[n], f)) = Found(f)
        BY <1>2, <1>9, FoundAt
      <4>2. At(root, Append(q[n], f))' = At(root, Append(q[n], f))
        BY <1>2, AtSame
      <4>. QED
        BY <1>5, <1>9, <3>2, <4>1, <4>2
    <3>. QED
      BY <1>3, <3>1, <3>2
  <2>3. ASSUME NEW i \in 1..(n + 1), NEW g \in Field
        PROVE  \/ g \in stack'[i].todo
               \/ i < n + 1 /\ g = stack'[i + 1].field
               \/ Accounted(PathTo(i), g)'
    <3>1. CASE i \in 1..n
      <4>1. \/ g \in stack[i].todo
            \/ i < n /\ g = stack[i + 1].field
            \/ Accounted(q[i], g)
        BY <1>2, <1>3, <1>9, <3>1 DEF OutInv, FramesPlaced
      <4>2. Accounted(q[i], g) => Accounted(PathTo(i), g)'
        BY <1>6, <1>9, <3>1
      <4>3. CASE i = n
        BY <1>3, <1>5, <4>1, <4>2, <4>3
      <4>4. CASE i # n
        <5>1. i \in 1..(n - 1) /\ i + 1 \in 1..n /\ i < n + 1
          BY <1>3, <3>1, <4>4
        <5>2. stack'[i].todo = stack[i].todo /\ stack'[i + 1].field = stack[i + 1].field
          BY <1>5, <3>1, <4>4, <5>1
        <5>. QED
          BY <4>1, <4>2, <5>1, <5>2
      <4>. QED
        BY <4>3, <4>4
    <3>2. CASE i = n + 1
      <4>1. SUFFICES ASSUME heap[Found(f)][g] = Plain
                     PROVE  Accounted(PathTo(n + 1), g)'
        BY <1>5, <3>2
      <4>2. At(root, PathTo(n + 1))' = Found(f)
        BY <1>5, <2>2, <3>2
      <4>. QED
        BY <1>2, <4>1, <4>2 DEF Accounted
    <3>. QED
      BY <1>3, <3>1, <3>2
  <2>. QED
    BY <1>4, <2>1, <2>2, <2>3 DEF FramesPlaced
<1>. QED
  BY <1>1, <1>2, <1>7, <1>10 DEF OutInv, ErrorJustified

LEMMA OutReturn ==
    ASSUME OutInv, Return
    PROVE  OutInv'
<1>1. EncodeInv'
  BY ReturnKeeps DEF OutInv
<1>2. /\ result = "running" /\ heap' = heap /\ root' = root /\ out' = out \cup {Path}
      /\ Top.todo = {} /\ refs' = refs \ {Top.table}
      /\ stack' = SubSeq(stack, 1, Len(stack) - 1)
      /\ result' = IF Len(stack) = 1 THEN "done" ELSE "running"
  BY DEF Return
<1>3. PICK n : /\ n = Len(stack) /\ stack \in Seq(Frame) /\ n \in Nat \ {0}
               /\ DOMAIN stack = 1..n /\ refs \in SUBSET Table
               /\ Top = stack[n]
  BY <1>2 DEF OutInv, EncodeInv, TypeOK, Top
<1>4. /\ Len(stack') = n - 1 /\ DOMAIN stack' = 1..(n - 1)
      /\ \A i \in 1..(n - 1) : stack'[i] = stack[i]
  BY <1>2, <1>3
<1>5. \A p : At(root, p)' = At(root, p)
  BY <1>2, AtSame
<1>6. \A p, g : Accounted(p, g) => Accounted(p, g)'
  BY <1>2, <1>5 DEF Accounted
\* The paths of the frames, as values.
<1>7. PICK q : q = [i \in 1..n |-> PathTo(i)]
  OBVIOUS
<1>8. /\ \A i \in 1..n : q[i] = PathTo(i)
      /\ \A i \in 1..(n - 1) : PathTo(i)' = q[i]
      /\ q[n] = Path /\ q[n] \in Seq(Field) /\ Len(q[n]) = n - 1
  <2>1. ASSUME NEW i \in 1..(n - 1)
        PROVE  PathTo(i)' = PathTo(i)
    <3>1. \A j \in 1..(i - 1) : j + 1 \in 1..(n - 1)
      BY <1>3
    <3>2. \A j \in 1..(i - 1) : stack'[j + 1].field = stack[j + 1].field
      BY <1>4, <3>1
    <3>. QED
      BY <3>2 DEF PathTo
  <2>2. q[n] = Path /\ n \in 1..n /\ \A i \in 1..(n - 1) : i \in 1..n
    BY <1>3, <1>7 DEF PathTo, Path
  <2>. QED
    BY <1>2, <1>3, <2>1, <2>2, <1>7, PathPlaced
\* The table the walk leaves has all its members in the tree.
<1>9. /\ At(root, q[n]) \in Table /\ Len(q[n]) < Cardinality(Table)
      /\ \A g \in Field : Accounted(q[n], g)
  <2>1. \A g \in Field : \/ g \in stack[n].todo
                         \/ n < n /\ g = stack[n + 1].field
                         \/ Accounted(q[n], g)
    BY <1>2, <1>3, <1>8 DEF OutInv, FramesPlaced
  <2>. QED
    BY <1>2, <1>3, <1>8, <2>1, PathPlaced, TablesCounted
<1>10. TreeClosed'
  <2>1. out \subseteq Seq(Field) /\ out' \subseteq Seq(Field)
    BY <1>2, <1>8 DEF OutInv, TreeClosed
  <2>2. ASSUME NEW p \in out'
        PROVE  /\ At(root, p)' \in Table /\ Len(p) < Cardinality(Table)
               /\ \A g \in Field : Accounted(p, g)'
    <3>1. CASE p \in out
      BY <1>2, <1>5, <1>6, <3>1 DEF OutInv, TreeClosed
    <3>2. CASE p = q[n]
      BY <1>5, <1>6, <1>9, <3>2
    <3>. QED
      BY <1>2, <1>8, <3>1, <3>2
  <2>. QED
    BY <2>1, <2>2 DEF TreeClosed
<1>11. CASE n = 1
  <2>1. q[n] = <<>> /\ q[n] \in out'
    BY <1>2, <1>8, <1>11
  <2>. QED
    BY <1>1, <1>2, <1>3, <1>10, <1>11, <2>1 DEF OutInv, ErrorJustified
<1>12. CASE n # 1
  <2>1. Cardinality(refs') = n - 1
    <3>1. IsFiniteSet(refs) /\ Cardinality(refs) = n /\ Top.table \in refs
      BY <1>2, <1>3, TablesCounted DEF OutInv, FramesPlaced, EncodeInv, RefsArePath
    <3>. QED
      BY <1>2, <3>1, FS_RemoveElement
  <2>2. ASSUME NEW i \in 1..(n - 1)
        PROVE  At(root, PathTo(i))' = stack'[i].table
    <3>1. At(root, q[i]) = stack[i].table
      BY <1>2, <1>3, <1>8 DEF OutInv, FramesPlaced
    <3>. QED
      BY <1>4, <1>5, <1>8, <3>1
  <2>3. ASSUME NEW i \in 1..(n - 1), NEW g \in Field
        PROVE  \/ g \in stack'[i].todo
               \/ i < n - 1 /\ g = stack'[i + 1].field
               \/ Accounted(PathTo(i), g)'
    <3>1. i \in 1..n /\ i + 1 \in 2..n /\ (i + 1) - 1 = i /\ i + 1 \in 1..n
      BY <1>3
    <3>2. \/ g \in stack[i].todo
          \/ i < n /\ g = stack[i + 1].field
          \/ Accounted(q[i], g)
      BY <1>2, <1>3, <1>8, <3>1 DEF OutInv, FramesPlaced
    <3>3. Accounted(q[i], g) => Accounted(PathTo(i), g)'
      BY <1>6, <1>8
    <3>4. CASE i # n - 1
      <4>1. i + 1 \in 1..(n - 1) /\ i < n - 1
        BY <1>3, <3>4
      <4>. QED
        BY <1>4, <3>2, <3>3, <4>1
    \* The member the walk comes back with.
    <3>5. CASE i = n - 1 /\ g = stack[n].field
      <4>1. heap[stack[i].table][g] = stack[n].table /\ stack[n].table \in Table
        BY <1>2, <1>3, <3>1, <3>5, PathPlaced DEF OutInv, EncodeInv, StackLinked
      <4>2. At(root, q[i])' = stack[i].table
        BY <1>4, <1>8, <2>2
      <4>3. Append(q[i], g) = q[n]
        <5>1. q[i] = [j \in 1..(n - 2) |-> stack[j + 1].field] /\ n - 2 \in Nat
          <6>1. n - 2 \in Nat /\ i - 1 = n - 2
            BY <1>3, <1>12, <3>5
          <6>2. q[i] = PathTo(i)
            BY <1>8, <3>1
          <6>. QED
            BY <6>1, <6>2 DEF PathTo
        <5>2. q[n] = [j \in 1..(n - 1) |-> stack[j + 1].field]
          <6>1. q[n] = Path
            BY <1>8
          <6>. QED
            BY <1>3, <6>1 DEF Path
        <5>3. q[i] \in Seq(Field) /\ Len(q[i]) = n - 2
          <6>1. \A j \in 1..(n - 2) : j + 1 \in 2..n
            BY <1>3
          <6>2. \A j \in 1..(n - 2) : stack[j + 1].field \in Field
            BY <1>3, <6>1 DEF OutInv, EncodeInv, StackLinked
          <6>3. q[i] \in [1..(n - 2) -> Field]
            BY <5>1, <6>2
          <6>4. n - 2 \in Nat
            BY <5>1
          <6>. QED
            BY <6>3, <6>4
        <5>4. /\ Append(q[i], g) \in Seq(Field) /\ Len(Append(q[i], g)) = n - 1
              /\ \A j \in 1..(n - 2) : Append(q[i], g)[j] = q[i][j]
              /\ Append(q[i], g)[n - 1] = g
          <6>1. (n - 2) + 1 = n - 1
            BY <1>3
          <6>. QED
            BY <5>3, <6>1, AppendProperties
        <5>5. \A j \in 1..(n - 1) : Append(q[i], g)[j] = stack[j + 1].field
          <6>1. ASSUME NEW j \in 1..(n - 1)
                PROVE  Append(q[i], g)[j] = stack[j + 1].field
            <7>1. j = n - 1 \/ j \in 1..(n - 2)
              BY <1>3
            <7>2. (n - 1) + 1 = n
              BY <1>3
            <7>. QED
              BY <3>5, <5>1, <5>4, <7>1, <7>2
          <6>. QED
            BY <6>1
        <5>6. Append(q[i], g) = [j \in 1..(n - 1) |-> Append(q[i], g)[j]]
          BY <5>4
        <5>. QED
          BY <5>2, <5>5, <5>6
      <4>4. Append(q[i], g) \in out'
        BY <1>2, <1>8, <4>3
      <4>. QED
        BY <1>2, <1>8, <4>1, <4>2, <4>4 DEF Accounted
    <3>6. CASE i = n - 1 /\ g # stack[n].field
      <4>1. i + 1 = n
        BY <1>3, <3>6
      <4>. QED
        BY <1>4, <3>2, <3>3, <3>6, <4>1
    <3>. QED
      BY <3>4, <3>5, <3>6
  <2>4. FramesPlaced'
    BY <1>4, <2>1, <2>2, <2>3 DEF FramesPlaced
  <2>. QED
    BY <1>1, <1>2, <1>3, <1>10, <1>12, <2>4 DEF OutInv, ErrorJustified
<1>. QED
  BY <1>11, <1>12

LEMMA OutFunction ==
    ASSUME OutInv, JsonEncodeFunction
    PROVE  OutInv'
<1>1. EncodeInv'
  BY FunctionKeeps DEF OutInv
<1>2. heap' = heap /\ root' = Function /\ result' = "crash"
  BY DEF JsonEncodeFunction
<1>3. Function \in Reached'
  <2>1. At(root, <<>>)' = Function
    BY <1>2, AtNewRoot, AtRoot
  <2>2. <<>> \in Paths
    <3>1. \E p \in Seq(Field) : p = <<>> /\ Len(p) = 0
      <4>1. <<>> \in Seq(Field) /\ Len(<<>>) = 0
        OBVIOUS
      <4>. QED
        BY <4>1, Zenon
    <3>2. PICK p \in Seq(Field) : p = <<>> /\ Len(p) = 0
      BY <3>1
    <3>3. Len(p) <= Cardinality(Table)
      BY <3>2, TablesCounted
    <3>4. p \in Paths
      BY <3>3, PathsAre, TablesCounted
    <3>. QED
      BY <3>2, <3>4
  <2>. QED
    BY <2>1, <2>2 DEF Reached
<1>. QED
  BY <1>1, <1>2, <1>3 DEF OutInv, ErrorJustified

LEMMA OutStutters == OutInv /\ UNCHANGED vars => OutInv'
<1> SUFFICES ASSUME OutInv, UNCHANGED vars PROVE OutInv'
  OBVIOUS
<1>1. EncodeInv'
  BY NextKeeps DEF OutInv
<1>2. heap' = heap /\ root' = root /\ stack' = stack /\ refs' = refs /\ out' = out /\ result' = result
  BY DEF vars
<1>3. \A p : At(root, p)' = At(root, p)
  BY <1>2, AtSame
<1>4. \A p, g : Accounted(p, g)' <=> Accounted(p, g)
  BY <1>2, <1>3 DEF Accounted
<1>5. \A i : PathTo(i)' = PathTo(i)
  BY <1>2 DEF PathTo
<1>6. TreeClosed => TreeClosed'
  BY <1>2, <1>3, <1>4 DEF TreeClosed
<1>7. FramesPlaced => FramesPlaced'
  BY <1>2, <1>3, <1>4, <1>5 DEF FramesPlaced
<1>8. ErrorJustified => ErrorJustified'
  BY <1>2, <1>3 DEF ErrorJustified, Reached, OnLoop, At, Member
<1>. QED
  BY <1>1, <1>2, <1>6, <1>7, <1>8 DEF OutInv

-----------------------------------------------------------------------------
(* What the tree tells of the argument.                                      *)

\* Whatever path is taken from the argument, it ends in a table that is in the
\* tree, or nowhere.
LEMMA TreeComplete ==
    ASSUME TreeClosed, <<>> \in out
    PROVE  \A p \in Seq(Field) : \/ At(root, p) \in Table /\ p \in out
                                 \/ At(root, p) = Plain
<1> DEFINE Inside(p) == \/ At(root, p) \in Table /\ p \in out
                        \/ At(root, p) = Plain
           T == {n \in Nat : \A p \in Seq(Field) : Len(p) = n => Inside(p)}
<1>1. 0 \in T
  <2>1. \A p \in Seq(Field) : Len(p) = 0 => p = <<>>
    OBVIOUS
  <2>. QED
    BY <2>1 DEF TreeClosed
<1>2. ASSUME NEW n \in Nat, n \in T
      PROVE  n + 1 \in T
  <2>1. ASSUME NEW p \in Seq(Field), Len(p) = n + 1
        PROVE  Inside(p)
    <3>1. PICK q \in Seq(Field), f \in Field : p = Append(q, f) /\ Len(q) = n
      BY <2>1, PathSplit
    <3>2. At(root, p) = Member(At(root, q), f)
      BY <3>1, AtMember
    <3>3. CASE At(root, q) \in Table /\ q \in out
      <4>1. Accounted(q, f)
        BY <3>3 DEF TreeClosed
      <4>. QED
        BY <3>1, <3>2, <3>3, <4>1 DEF Member, Accounted
    <3>4. CASE At(root, q) = Plain
      BY <3>2, <3>4, TableAssumption DEF Member
    <3>. QED
      BY <1>2, <3>1, <3>3, <3>4
  <2>. QED
    BY <2>1
<1>. HIDE DEF T
<1>3. \A p \in Seq(Field) : Len(p) \in T
  <2>1. \A p \in Seq(Field) : Len(p) \in Nat
    OBVIOUS
  <2>. QED
    BY <1>1, <1>2, <2>1, AllNumbers
<1>. QED
  BY <1>3 DEF T

\* A table that is reached and holds itself would be in the tree at ever longer
\* paths, and the paths of the tree are shorter than the number of tables.
LEMMA NoLoopReached ==
    ASSUME TreeClosed, <<>> \in out, NEW t \in Reached
    PROVE  ~ OnLoop(t)
<1> SUFFICES ASSUME OnLoop(t) PROVE FALSE
  OBVIOUS
<1>1. PICK p \in Paths : t = At(root, p)
  BY DEF Reached
<1>2. PICK q \in Paths : t \in Table /\ q # <<>> /\ At(t, q) = t
  BY DEF OnLoop
<1>3. p \in Seq(Field) /\ q \in Seq(Field)
  BY PathsAre, TablesCounted
<1> DEFINE Places == {r \in out : At(root, r) = t}
           T == {Cardinality(Table) - Len(r) : r \in Places}
<1>4. p \in Places
  BY <1>1, <1>2, <1>3, TreeComplete, TableAssumption
<1>5. \A r \in Places : r \in Seq(Field) /\ Len(r) \in Nat /\ Len(r) < Cardinality(Table)
  <2>1. \A r \in Places : r \in Seq(Field) /\ Len(r) < Cardinality(Table)
    BY DEF TreeClosed
  <2>. QED
    BY <2>1
<1>6. T \in SUBSET Nat /\ T # {}
  BY <1>4, <1>5, TablesCounted
<1>7. PICK x \in T : \A y \in T : x <= y
  BY <1>6, NatMin
<1>8. PICK r \in Places : x = Cardinality(Table) - Len(r)
  BY <1>7
<1>9. r \o q \in Seq(Field) /\ Len(r \o q) = Len(r) + Len(q) /\ Len(q) \in Nat \ {0}
  BY <1>2, <1>3, <1>5
<1>10. At(root, r \o q) = t
  BY <1>2, <1>3, <1>5, <1>8, AtConcat
<1>11. r \o q \in Places
  BY <1>2, <1>9, <1>10, TreeComplete, TableAssumption
<1>12. Cardinality(Table) - Len(r \o q) \in T
  BY <1>11
<1>13. x <= Cardinality(Table) - Len(r \o q)
  BY <1>7, <1>12
<1>. QED
  BY <1>5, <1>8, <1>9, <1>13, TablesCounted

LEMMA OutJustifies == OutInv => OutcomeJustified
<1> SUFFICES ASSUME OutInv PROVE OutcomeJustified
  OBVIOUS
<1>1. ASSUME result = "done"
      PROVE  /\ Reached \subseteq Table \cup {Plain}
             /\ \A t \in Reached : ~ OnLoop(t)
             /\ out = {p \in Paths : At(root, p) \in Table}
  <2>1. TreeClosed /\ <<>> \in out
    BY <1>1 DEF OutInv
  <2>2. \A p \in Paths : p \in Seq(Field)
    BY PathsAre, TablesCounted
  <2>3. \A p \in Seq(Field) : \/ At(root, p) \in Table /\ p \in out
                              \/ At(root, p) = Plain
    BY <2>1, TreeComplete
  <2>4. Reached \subseteq Table \cup {Plain}
    BY <2>2, <2>3 DEF Reached
  <2>5. \A t \in Reached : ~ OnLoop(t)
    BY <2>1, NoLoopReached
  <2>6. ASSUME NEW p \in out
        PROVE  p \in Paths /\ At(root, p) \in Table
    <3>1. p \in Seq(Field) /\ At(root, p) \in Table /\ Len(p) < Cardinality(Table)
      BY <2>1 DEF TreeClosed
    <3>2. Len(p) <= Cardinality(Table)
      BY <3>1, TablesCounted
    <3>. QED
      BY <3>1, <3>2, PathsAre, TablesCounted
  <2>7. \A p \in Paths : At(root, p) \in Table => p \in out
    BY <2>2, <2>3, TableAssumption
  <2>. QED
    BY <2>4, <2>5, <2>6, <2>7
<1>. QED
  BY <1>1 DEF OutInv, ErrorJustified, OutcomeJustified

LEMMA OutNext == OutInv /\ [Next]_vars => OutInv'
<1> SUFFICES ASSUME OutInv, [Next]_vars
             PROVE  OutInv'
  OBVIOUS
<1>1. ASSUME NEW t \in Table, LuaDB_JsonEncode(t)
      PROVE  OutInv'
  BY <1>1, OutEncode
<1>2. CASE JsonEncodeFunction
  BY <1>2, OutFunction
<1>3. CASE Return
  BY <1>3, OutReturn
<1>4. ASSUME NEW f \in Field, EnterChild(f)
      PROVE  OutInv'
  BY <1>4, OutEnter
<1>5. ASSUME NEW f \in Field, RaiseCycle(f) \/ RaiseBadKey(f) \/ AppendNull(f)
      PROVE  OutInv'
  BY <1>5, OutRaise
<1>6. CASE UNCHANGED vars
  BY <1>6, OutStutters
<1>. QED
  BY <1>1, <1>2, <1>3, <1>4, <1>5, <1>6 DEF Next, Walk

\* Whatever a call ends in is justified by its argument: text with every table
\* reached, once for each path to it, and nothing else and no loop; an error
\* only for what is reached.
THEOREM OutcomeCorrect == Spec => []OutcomeJustified
<1>. QED
  BY OutInit, OutNext, OutJustifies, PTL DEF Spec
=============================================================================
