----------------------------- MODULE JsonDecode -----------------------------
(***************************************************************************)
(* json.decode, makearray, isarray, and what json.encode then writes of a   *)
(* decoded value (src/src/json.c). The Lua stack and the tables are as the  *)
(* code leaves them after each call. JsonEncode has the walk of encode;     *)
(* here only its result matters: which elements and members it writes, and  *)
(* in what order as far as lua_next fixes one.                              *)
(*                                                                         *)
(* A document is the sequence of its nodes in the order the walk comes to   *)
(* them, each with the number of its parent; <<>> is a text that is not     *)
(* JSON.                                                                    *)
(***************************************************************************)
EXTENDS Integers, SequencesExt

CONSTANTS Doc,     \* documents
          MaxOps   \* bound: what the script does with metatables

IsDocument(d) ==
    /\ d \in Seq(Range(d))
    /\ \A n \in DOMAIN d :
          /\ d[n].tag \in {"null", "leaf", "array", "object"}
          /\ d[n].parent \in 0..(n - 1) /\ (d[n].parent = 0 <=> n = 1)
          /\ n # 1 => d[d[n].parent].tag \in {"array", "object"}
          /\ \A m \in (d[n].parent + 1)..n : d[m].parent >= d[n].parent

ASSUME DocAssumption == MaxOps \in Nat /\ \A d \in Doc : IsDocument(d)

Nil == <<"nil">>
None == <<"none">>

VARIABLES heap,    \* the tables: their fields, and their metatable or 0
          marked,  \* metatables with a field _json_array
          mts,     \* metatables made so far
          doc,     \* the document decoded
          next,    \* the node the walk comes to next; 0 before it
          calls,   \* the calls of JsonToLuaValuePrivate that are in their loop
          stack,   \* the Lua stack of json.decode
          value,   \* what json.decode returned
          text,    \* what json.encode returned, as a tree
          ops,
          made,    \* history: the node each table was made for
          asked,   \* history: tables that are to be arrays
          mixed    \* history: tables whose metatable the script itself changed

tableVars == <<heap, marked, mts>>
walkVars == <<doc, next, calls, stack, made>>
vars == <<tableVars, walkVars, value, text, ops, asked, mixed>>

TypeOK ==
    /\ heap \in Seq([fields : {heap[t].fields : t \in DOMAIN heap}, mt : 0..mts])
    /\ mts \in Nat /\ marked \in SUBSET (1..mts)
    /\ IsDocument(doc) /\ next \in 0..(Len(doc) + 1)
    /\ stack \in Seq(Range(stack))
    /\ calls \in Seq([json : DOMAIN doc, i : Nat, need_key : BOOLEAN])
    /\ made \in Seq(DOMAIN doc) /\ Len(made) = Len(heap)
    /\ ops \in 0..MaxOps
    /\ asked \in SUBSET (DOMAIN heap) /\ mixed \in SUBSET (DOMAIN heap)

Init ==
    /\ heap = <<>> /\ marked = {} /\ mts = 0
    /\ doc = <<>> /\ next = 0 /\ calls = <<>> /\ stack = <<>>
    /\ value = None /\ text = None
    /\ ops = 0 /\ made = <<>> /\ asked = {} /\ mixed = {}

-----------------------------------------------------------------------------
(* The Lua API as decoding uses it.                                        *)

lua_istable(s) == Last(s)[1] = "table"

\* lua_settable(L, -3): a nil takes the field away.
lua_settable(s) ==
    LET n == Len(s)
        key == s[n - 1]
        val == s[n]
        Set(f) == [k \in (DOMAIN f \ {key}) \cup (IF val = Nil THEN {} ELSE {key}) |->
                      IF k = key THEN val ELSE f[k]]
    IN  [heap EXCEPT ![s[n - 2][2]].fields = Set(@)]

NewTable == [fields |-> <<>>, mt |-> 0]

\* Mutant: one metatable for all arrays.
SetTableAsJsonArrayShared(m, t) ==
    [m EXCEPT !.mts = 1, !.heap[t].mt = 1, !.marked = @ \cup {1}]

\* A table without a metatable gets one, one that has one keeps it.
SetTableAsJsonArray(m, t) ==
    IF m.heap[t].mt = 0
    THEN [m EXCEPT !.mts = @ + 1, !.heap[t].mt = m.mts + 1, !.marked = @ \cup {m.mts + 1}]
    ELSE [m EXCEPT !.marked = @ \cup {m.heap[t].mt}]

SetsArray(h, t) ==
    LET m == SetTableAsJsonArray([heap |-> h, marked |-> marked, mts |-> mts], t)
    IN  heap' = m.heap /\ marked' = m.marked /\ mts' = m.mts

LuaTableIsJsonArray(t) == heap[t].mt \in marked

LuaDB_JsonIsArray(v) == v[1] = "table" /\ LuaTableIsJsonArray(v[2])

-----------------------------------------------------------------------------
(* json.decode: a step for each node, and one for the end of each loop.     *)

\* A text that is not JSON gives nil.
LuaDB_JsonDecode(d) ==
    /\ next = 0 /\ value = None
    /\ doc' = d
    /\ IF d = <<>> THEN value' = Nil /\ UNCHANGED <<next, stack>>
                   ELSE next' = 1 /\ stack' = <<<<"argument">>>> /\ UNCHANGED value
    /\ UNCHANGED tableVars /\ UNCHANGED <<calls, text, ops, made, asked, mixed>>

\* The node whose loop makes the next call; 0 for LuaDB_JsonDecode itself.
Looping == IF calls = <<>> THEN 0 ELSE Last(calls).json

\* Mutant: the number of the array in its own array goes on.
FirstKept(parent, i) == i

\* The number a child is given: a nested array starts again at 1.
First(parent, i) == IF doc[parent].tag = "array" THEN 1 ELSE i

\* A call for the next node: what it is given, and what it pushes for a key.
GivenI == IF calls # <<>> /\ doc[Looping].tag = "array" THEN Last(calls).i ELSE 1
NeedKey == doc[next].parent # 0 /\ lua_istable(stack)
Keyed ==
    IF ~ NeedKey THEN stack
    ELSE Append(stack, IF doc[doc[next].parent].tag = "array" THEN <<"int", GivenI>>
                       ELSE <<"str", doc[next].name>>)
Call == [json |-> next, need_key |-> NeedKey,
         i |-> IF NeedKey THEN First(doc[next].parent, GivenI) ELSE GivenI]

\* The caller, whose loop counts its elements.
Counted ==
    IF calls # <<>> /\ doc[Looping].tag = "array"
    THEN [calls EXCEPT ![Len(calls)].i = @ + 1] ELSE calls

Reached == next \in DOMAIN doc /\ doc[next].parent = Looping

\* A string, number or boolean, or null: the call is over.
ConvertLeaf ==
    /\ Reached /\ doc[next].tag \in {"leaf", "null"}
    /\ LET v == IF doc[next].tag = "null" THEN Nil ELSE <<"leaf", doc[next].value>>
           pushed == Append(Keyed, v)
       IN  IF NeedKey THEN heap' = lua_settable(pushed) /\ stack' = SubSeq(pushed, 1, Len(pushed) - 2)
                      ELSE stack' = pushed /\ UNCHANGED heap
    /\ next' = next + 1 /\ calls' = Counted
    /\ UNCHANGED <<marked, mts, doc, made, value, text, ops, asked, mixed>>

\* An object or array: its table is made, and its loop begins.
EnterTable ==
    /\ Reached /\ doc[next].tag \in {"object", "array"}
    /\ LET t == Len(heap) + 1
           new == Append(heap, NewTable)
       IN  /\ stack' = Append(Keyed, <<"table", t>>)
           /\ IF doc[next].tag = "array" THEN SetsArray(new, t) /\ asked' = asked \cup {t}
                                         ELSE heap' = new /\ UNCHANGED <<marked, mts, asked>>
    /\ next' = next + 1 /\ calls' = Append(Counted, Call) /\ made' = Append(made, next)
    /\ UNCHANGED <<doc, value, text, ops, mixed>>

\* No child is left: the table goes into that of the caller.
LeaveTable ==
    /\ calls # <<>> /\ ~ Reached
    /\ calls' = Front(calls)
    /\ IF Last(calls).need_key
       THEN heap' = lua_settable(stack) /\ stack' = SubSeq(stack, 1, Len(stack) - 2)
       ELSE UNCHANGED <<heap, stack>>
    /\ UNCHANGED <<marked, mts, doc, next, made, value, text, ops, asked, mixed>>

DecodeReturns ==
    /\ next > 1 /\ calls = <<>> /\ value = None
    /\ value' = Last(stack)
    /\ UNCHANGED tableVars /\ UNCHANGED walkVars /\ UNCHANGED <<text, ops, asked, mixed>>

-----------------------------------------------------------------------------
(* json.makearray, and what a script does with metatables:                 *)
(* setmetatable(t, getmetatable(u)), setmetatable(t, {}), and               *)
(* getmetatable(t)._json_array = nil.                                       *)

Scripting == value # None /\ text = None /\ ops < MaxOps /\ ops' = ops + 1

LuaDB_JsonMakeArray(t) ==
    /\ Scripting
    /\ SetsArray(heap, t)
    /\ asked' = asked \cup {t}
    /\ UNCHANGED walkVars /\ UNCHANGED <<value, text, mixed>>

SetMetatable(t, u) ==
    /\ Scripting
    /\ heap' = [heap EXCEPT ![t].mt = heap[u].mt]
    /\ mixed' = mixed \cup {t, u}
    /\ UNCHANGED walkVars /\ UNCHANGED <<marked, mts, value, text, asked>>

NewMetatable(t) ==
    /\ Scripting
    /\ heap' = [heap EXCEPT ![t].mt = mts + 1] /\ mts' = mts + 1
    /\ mixed' = mixed \cup {t}
    /\ UNCHANGED walkVars /\ UNCHANGED <<marked, value, text, asked>>

Unmark(t) ==
    /\ Scripting /\ heap[t].mt # 0
    /\ marked' = marked \ {heap[t].mt}
    /\ mixed' = mixed \cup {t}
    /\ UNCHANGED walkVars /\ UNCHANGED <<heap, mts, value, text, asked>>

-----------------------------------------------------------------------------
(* json.encode.                                                            *)

\* Elements of which no order is known: what there is, and how often.
Shuffled(s) ==
    LET elements == {s[k] : k \in DOMAIN s}
    IN <<"shuffled", [e \in elements |-> Cardinality({k \in DOMAIN s : s[k] = e})]>>

Places(n) == {<<"int", i>> : i \in 1..n}

\* lua_next gives the fields of an array without holes in order, any others in
\* some order; as an array the keys are dropped, as an object they are kept.
Written(as_array, child) ==
    LET n == Cardinality(DOMAIN child)
    IN  IF ~ as_array THEN <<"object", child>>
        ELSE IF DOMAIN child = Places(n) THEN <<"array", [i \in 1..n |-> child[<<"int", i>>]]>>
        ELSE Shuffled(child)

LuaTableToJsonPrivate ==
    LET json[t \in DOMAIN heap] ==
            LET f == heap[t].fields
            IN  Written(LuaTableIsJsonArray(t),
                        [k \in DOMAIN f |-> IF f[k][1] = "table" THEN json[f[k][2]] ELSE f[k]])
    IN  json

LuaDB_JsonEncode ==
    /\ value # None /\ text = None
    /\ text' = CASE value[1] = "nil"   -> <<"null">>
                 [] value[1] = "table" -> LuaTableToJsonPrivate[value[2]]
                 [] OTHER              -> value
    /\ UNCHANGED tableVars /\ UNCHANGED walkVars /\ UNCHANGED <<value, ops, asked, mixed>>

Next ==
    \/ \E d \in Doc : LuaDB_JsonDecode(d)
    \/ ConvertLeaf \/ EnterTable \/ LeaveTable \/ DecodeReturns
    \/ \E t \in DOMAIN heap : LuaDB_JsonMakeArray(t) \/ NewMetatable(t) \/ Unmark(t)
    \/ \E t, u \in DOMAIN heap : SetMetatable(t, u)
    \/ LuaDB_JsonEncode

Spec == Init /\ [][Next]_vars

-----------------------------------------------------------------------------
(* Properties.                                                             *)

Children(n) == {m \in DOMAIN doc : doc[m].parent = n}

\* What is left of the children of a node: an array loses its nulls, an object
\* has the last member of each name, and none if that is null.
Kept(n) ==
    {m \in Children(n) :
        /\ doc[m].tag # "null"
        /\ doc[n].tag = "object" => \A k \in Children(n) : k > m => doc[k].name # doc[m].name}

NullsLast(n) ==
    \A m, k \in Children(n) : doc[m].tag = "null" /\ m < k => doc[k].tag = "null"

Place(m) == Cardinality({k \in 1..m : doc[k].parent = doc[m].parent})
At(n, i) == CHOOSE m \in Kept(n) : Place(m) = i
Named(n, name) == CHOOSE m \in Kept(n) : doc[m].name = name

\* What a node comes back as when its children come back as tree has them: an
\* array with nulls before its end loses its order.
TreeOf(tree, n) ==
    CASE doc[n].tag = "null" -> <<"null">>
      [] doc[n].tag = "leaf" -> <<"leaf", doc[n].value>>
      [] doc[n].tag = "object" ->
             <<"object", [k \in {<<"str", doc[m].name>> : m \in Kept(n)} |-> tree[Named(n, k[2])]]>>
      [] doc[n].tag = "array" /\ NullsLast(n) ->
             <<"array", [i \in 1..Cardinality(Kept(n)) |-> tree[At(n, i)]]>>
      [] doc[n].tag = "array" /\ ~ NullsLast(n) ->
             Shuffled([k \in {<<"int", Place(m)>> : m \in Kept(n)} |-> tree[At(n, k[2])]])

Returned == LET tree[n \in DOMAIN doc] == TreeOf(tree, n) IN tree

\* json.encode(json.decode(text)) is the document again, but for nulls in
\* arrays and objects and for names that come twice (json.c:198-335).
RoundTrip ==
    text # None /\ ops = 0 => text = IF doc = <<>> THEN <<"null">> ELSE Returned[1]

\* isarray() says of a table whose metatable the script left alone exactly
\* whether it came from an array or was given to makearray(), whatever was done
\* to other tables (json.c:94-115, 258-269).
MarksAsAsked ==
    \A t \in DOMAIN heap :
        t \notin mixed => (LuaDB_JsonIsArray(<<"table", t>>) <=> t \in asked)
=============================================================================
