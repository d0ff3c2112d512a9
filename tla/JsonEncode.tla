----------------------------- MODULE JsonEncode -----------------------------
(***************************************************************************)
(* json.encode (src/src/json.c): a recursive walk over a Lua table and the  *)
(* tables in it, which builds the tree that is then printed. The tables the *)
(* walk is inside of are kept in a Lua table made for each call, to find    *)
(* reference cycles. Strings, numbers, booleans and nil always succeed and  *)
(* are left out, as is what is printed for them.                            *)
(***************************************************************************)
EXTENDS Integers, Sequences, FiniteSets, SequencesExt

CONSTANTS Table,     \* the tables of a script
          Field,     \* keys, each a string or a number
          Plain,     \* no value, or one that is not a table and can be encoded
          Function,  \* a value that cannot: a function, userdata or thread
          BadKey     \* a value whose key is neither a string nor a number

\* Memory is finite.
ASSUME TableAssumption ==
    IsFiniteSet(Table) /\ Plain \notin Table /\ Function \notin Table /\ BadKey \notin Table

VARIABLES heap,    \* table -> field -> value; encoding does not change it
          root,    \* the argument of the last call
          stack,   \* the tables being converted, each with the field it was
                   \* found in and the fields lua_next has not yet given
          refs,    \* the keys of the reference table
          out,     \* where in the tree a table was converted: paths of fields
          result   \* of the last call, or "running"

vars == <<heap, root, stack, refs, out, result>>

Value == Table \cup {Plain, Function, BadKey}
Frame == [table : Table, field : Field \cup {Plain}, todo : SUBSET Field]

\* The types of the variables.
TypeOK ==
    /\ heap \in [Table -> [Field -> Value]]
    /\ root \in Value
    /\ stack \in Seq(Frame)
    /\ refs \subseteq Table
    /\ out \subseteq Seq(Field)
    /\ result \in {"none", "running", "done", "cycle", "badkey", "crash"}

Init ==
    /\ heap \in [Table -> [Field -> Value]]
    /\ root = Plain /\ stack = <<>> /\ refs = {} /\ out = {} /\ result = "none"

Top == stack[Len(stack)]
Found(f) == heap[Top.table][f]

\* lua_next gives the field f.
Given(f) == [stack EXCEPT ![Len(stack)].todo = @ \ {f}]

\* Where the table being converted is in the tree.
Path == [i \in 1..(Len(stack) - 1) |-> stack[i + 1].field]

\* The frame of a table: lua_next gives the fields in any order.
Entered(t, f) ==
    [table |-> t, field |-> f, todo |-> {g \in Field : heap[t][g] # Plain}]

-----------------------------------------------------------------------------
\* Mutant: one reference table for all calls.
LuaDB_JsonEncodeShared(t) ==
    /\ result \notin {"running", "crash"}
    /\ IF t \in refs THEN result' = "cycle" /\ UNCHANGED <<stack, refs>>
       ELSE result' = "running" /\ refs' = refs \cup {t} /\ stack' = <<Entered(t, Plain)>>
    /\ root' = t /\ out' = {}
    /\ UNCHANGED heap

LuaDB_JsonEncode(t) ==
    /\ result \notin {"running", "crash"}
    /\ root' = t
    /\ refs' = {t}
    /\ stack' = <<Entered(t, Plain)>>
    /\ out' = {}
    /\ result' = "running"
    /\ UNCHANGED heap

\* A function as the argument: no node is made of it, and json_encode follows
\* the NULL pointer.
JsonEncodeFunction ==
    /\ result \notin {"running", "crash"}
    /\ root' = Function /\ result' = "crash"
    /\ UNCHANGED <<heap, stack, refs, out>>

\* Mutant: the key of the member is lost.
EnterChildUnkeyed(f) ==
    /\ result = "running" /\ f \in Top.todo
    /\ Found(f) \in Table \ refs
    /\ stack' = Append(Given(f), Entered(Found(f), Plain))
    /\ refs' = refs \cup {Found(f)}
    /\ UNCHANGED <<heap, root, out, result>>

\* Mutant: after the member the loop starts over.
EnterChildAgain(f) ==
    /\ result = "running" /\ f \in Top.todo
    /\ Found(f) \in Table \ refs
    /\ stack' = Append(stack, Entered(Found(f), f))
    /\ refs' = refs \cup {Found(f)}
    /\ UNCHANGED <<heap, root, out, result>>

\* LuaValueToJson of a member that is a table: AddTableRef, and on with its
\* members.
EnterChild(f) ==
    /\ result = "running" /\ f \in Top.todo
    /\ Found(f) \in Table \ refs
    /\ stack' = Append(Given(f), Entered(Found(f), f))
    /\ refs' = refs \cup {Found(f)}
    /\ UNCHANGED <<heap, root, out, result>>

\* luaL_error: the Lua stack is unwound and the nodes made are not freed.
Raise(f, error) ==
    /\ result = "running" /\ f \in Top.todo
    /\ stack' = <<>>
    /\ result' = error
    /\ UNCHANGED <<heap, root, refs, out>>

\* IsRefCycle finds the member.
RaiseCycle(f) == Raise(f, "cycle") /\ Found(f) \in refs

RaiseBadKey(f) == Raise(f, "badkey") /\ Found(f) = BadKey

\* No node is made of a function, and json_append_member or
\* json_append_element follows the NULL pointer.
AppendNull(f) == Raise(f, "crash") /\ Found(f) = Function

\* Mutant: the reference stays.
ReturnKeepsRef ==
    /\ result = "running" /\ Top.todo = {}
    /\ out' = out \cup {Path}
    /\ stack' = SubSeq(stack, 1, Len(stack) - 1)
    /\ result' = IF Len(stack) = 1 THEN "done" ELSE "running"
    /\ UNCHANGED <<heap, root, refs>>

\* lua_next has given every member: RemoveTableRef, and back to the table that
\* has this one as a member, or to the caller with the text.
Return ==
    /\ result = "running" /\ Top.todo = {}
    /\ refs' = refs \ {Top.table}
    /\ out' = out \cup {Path}
    /\ stack' = SubSeq(stack, 1, Len(stack) - 1)
    /\ result' = IF Len(stack) = 1 THEN "done" ELSE "running"
    /\ UNCHANGED <<heap, root>>

Walk == Return \/ \E f \in Field : \/ EnterChild(f) \/ RaiseCycle(f)
                                   \/ RaiseBadKey(f) \/ AppendNull(f)

Next == Walk \/ JsonEncodeFunction \/ \E t \in Table : LuaDB_JsonEncode(t)

Spec == Init /\ [][Next]_vars

\* A C function that was called goes on.
FairSpec == Spec /\ WF_vars(Walk)

-----------------------------------------------------------------------------
(* Properties.                                                              *)

\* While encode runs, the reference table holds exactly the tables between the
\* argument and the one being converted, each once: AddTableRef and
\* RemoveTableRef are paired on every way through the walk.
RefsArePath ==
    result = "running" =>
        /\ refs = {stack[i].table : i \in DOMAIN stack}
        /\ \A i, j \in DOMAIN stack : stack[i].table = stack[j].table => i = j

\* "Reference cycle detected in table" is only raised if there is one: tables
\* each of which has another of them, or itself, as a member.
HasLoop == \E S \in SUBSET Table :
              S # {} /\ \A t \in S : \E f \in Field : heap[t][f] \in S
CycleIsReal == result = "cycle" => HasLoop

(* What the members of the argument unfold to, down to as many levels as    *)
(* there are tables.                                                        *)
Paths == UNION {[1..n -> Field] : n \in 0..Cardinality(Table)}
Member(w, f) == IF w \in Table THEN heap[w][f] ELSE Plain
At(v, p) ==
    LET reached[n \in 0..Len(p)] == IF n = 0 THEN v ELSE Member(reached[n - 1], p[n])
    IN  reached[Len(p)]
Reached == {At(root, p) : p \in Paths}
OnLoop(t) == t \in Table /\ \E p \in Paths : p # <<>> /\ At(t, p) = t

\* The outcome is that of the argument, whatever earlier calls ended in: text
\* only if every value reached can be encoded and nothing reached holds
\* itself, and then with every table once for each path that leads to it; an
\* error, or the end of the process, only for a reason that is reached.
OutcomeJustified ==
    /\ result = "done" => /\ Reached \subseteq Table \cup {Plain}
                          /\ \A t \in Reached : ~ OnLoop(t)
                          /\ out = {p \in Paths : At(root, p) \in Table}
    /\ result = "cycle" => \E t \in Reached : OnLoop(t)
    /\ result = "badkey" => BadKey \in Reached
    /\ result = "crash" => Function \in Reached

\* Every call ends: a table that holds itself is not followed for ever.
EncodeEnds == result = "running" ~> result # "running"
=============================================================================
