----------------------------- MODULE LuaDbOrder -----------------------------
(***************************************************************************)
(* One write transaction of a LuaDB script (src/src/lmdb.c): put and        *)
(* delete, the iterator of order() and iorder(), next(), data() and _dump() *)
(* on the keys of LuaDbKeys. LMDB's B-tree is the set of stored keys in the *)
(* order of CompareKeys, with at most one of those that compare equal, all  *)
(* on one page. The count that iorder adds to its answers is left out.      *)
(***************************************************************************)
EXTENDS LuaDbKeys, FiniteSets

CONSTANTS Keys,    \* the keys a script uses
          Vals,    \* the values it stores (strings of bytes)
          NoName,  \* (of the abstract scan) before the first child
          End      \* nil; and no iterator

\* GetLmdbKeyFromLua: what the arguments of a call become. LMDB refuses an
\* empty key.
ASSUME KeysAssumption ==
    /\ \A k \in Keys :
          /\ k \in Key \ {<<>>}
          /\ \A i \in DOMAIN k :
                /\ k[i].type \in {BooleanType, IntegerType, NumericType, StringType}
                /\ Len(k[i].data) <= 127
    /\ Vals \subseteq Seq(Byte)

ASSUME NothingAssumption ==
    /\ End \notin Key \cup Segment \cup [prefix : Key, last : Key]
    /\ NoName \notin Segment

\* Names the theorems about traversal are for: none is empty or holds a NUL or
\* the byte 255.
PlainName(seg) == seg.data # <<>> /\ \A j \in DOMAIN seg.data : seg.data[j] \in 1..254

PlainNames == \A k \in Keys : \A i \in DOMAIN k : PlainName(k[i])

\* Where two keys have names of the same bytes, the names are the same (the
\* string "10" and the number 10 are not).
OneSpelling ==
    \A a, b \in Keys : \A i \in DOMAIN a \cap DOMAIN b :
        a[i].data = b[i].data => a[i].type = b[i].type

\* No name starts another (finding 3 is about names that do).
NoneStartsAnother ==
    \A a, b \in Keys : \A i \in DOMAIN a \cap DOMAIN b : ~ IsStrictPrefix(a[i].data, b[i].data)

\* What PushValueByType makes of a name is the name: no number is followed by
\* what sscanf would read on.
ReadsBack ==
    \A k \in Keys, v \in Vals : \A i \in DOMAIN k : PushValueByType(k, i, v) = k[i]

VARIABLES db,   \* stored keys -> their values
          cur,  \* the LuaDB_LmdbOrder of the iterator, or End
          got   \* what the last call of the iterator or of next returned

vars == <<db, cur, got>>

NilLast == {Append(k, NilSegment) : k \in Keys}
Args == {<<>>} \cup Keys \cup NilLast

\* The stored keys are keys of the script; what the iterator and next return is
\* one segment.
TypeOK ==
    /\ DOMAIN db \subseteq Keys /\ \A k \in DOMAIN db : db[k] \in Vals
    /\ cur = End \/ cur \in [prefix : Key, last : Key]
    /\ got = End \/ got \in Segment

Init == db = <<>> /\ cur = End /\ got = End

-----------------------------------------------------------------------------
(* Writing: the stored key keeps the types it was first written with.       *)

Stored(k) == {x \in DOMAIN db : SameKey(x, k)}

LmdbTx_Put(k, v) ==
    /\ db' = IF Stored(k) = {} THEN [x \in DOMAIN db \cup {k} |-> IF x = k THEN v ELSE db[x]]
             ELSE [x \in DOMAIN db |-> IF x \in Stored(k) THEN v ELSE db[x]]
    /\ UNCHANGED <<cur, got>>

\* Mutant: delete leaves a mark.
LmdbTx_DeleteMarks(k) ==
    /\ db' = [x \in DOMAIN db |-> IF x \in Stored(k) THEN <<0>> ELSE db[x]]
    /\ UNCHANGED <<cur, got>>

LmdbTx_Delete(k) ==
    /\ db' = [x \in DOMAIN db \ Stored(k) |-> db[x]]
    /\ UNCHANGED <<cur, got>>

-----------------------------------------------------------------------------
(* The cursor operations of LMDB that are used.                             *)

\* MDB_SET_RANGE, and MDB_FIRST when there is no key: the keys it can stop at.
AtOrAfter(k) == IF k = <<>> THEN DOMAIN db
                ELSE {x \in DOMAIN db : CompareKeys(x, k) >= 0}
After(k) == {x \in DOMAIN db : CompareKeys(x, k) > 0}

-----------------------------------------------------------------------------
(* order() and next().                                                      *)

\* The key, if any, at which order and next stop for key under prefix.
Found(prefix, key) ==
    {x \in AtOrAfter(key) : /\ \A y \in AtOrAfter(key) : CompareKeys(x, y) <= 0
                            /\ Matches(prefix, x)
                            /\ FindFirstDifferentKeyNode(prefix, x) # 0}

\* What they push of it.
Pushed(prefix, k) == PushValueByType(k, FindFirstDifferentKeyNode(prefix, k), db[k])

\* Mutant: the search starts at the node given.
SearchedHere(args) == args

\* The key to look for: <<>> for MDB_FIRST.
Searched(args) == IF args = <<>> THEN <<>> ELSE ComputeNextLexicalValue(args)

LmdbTx_Order(args) ==
    /\ cur' = [prefix |-> GetKeyPrefix(args), last |-> Searched(args)]
    /\ UNCHANGED <<db, got>>

\* One call of the iterator. A generic for stops at the first nil; a script
\* that calls it itself may go on, and the same search is made again.
LuaDbOrderTxClosure ==
    /\ cur # End
    /\ \/ /\ Found(cur.prefix, cur.last) = {}
          /\ got' = End /\ UNCHANGED cur
       \/ \E k \in Found(cur.prefix, cur.last) :
            /\ got' = Pushed(cur.prefix, k)
            /\ cur' = [cur EXCEPT !.last = ComputeNextLexicalValue(ReplaceLastKeySegment(
                          @, k[FindFirstDifferentKeyNode(cur.prefix, k)]))]
    /\ UNCHANGED db

LmdbTx_Next(args) ==
    /\ LET prefix == GetKeyPrefix(Searched(args))
           found == Found(prefix, Searched(args))
       IN  \/ found = {} /\ got' = End
           \/ \E k \in found : got' = Pushed(prefix, k)
    /\ UNCHANGED <<db, cur>>

-----------------------------------------------------------------------------
(* data() and _dump(), which change nothing.                                *)

LeastOf(S) == CHOOSE x \in S : \A y \in S : CompareKeys(x, y) <= 0

\* Mutant: data() does not look at the prefix.
LmdbTx_DataUnprefixed(k) ==
    (IF Stored(k) # {} THEN 1 ELSE 0) + (IF After(k) # {} THEN 10 ELSE 0)

\* data(): the cursor is set on the key, if it is there, and then moved on; if
\* it is not, the cursor is left on the first key after it.
LmdbTx_Data(k) ==
    LET here == Stored(k)
        S == After(k)
        next == IF here # {} \/ S = {} THEN S ELSE S \ {LeastOf(S)}
        child == next # {} /\ Matches(k, LeastOf(next))
    IN  (IF here # {} THEN 1 ELSE 0) + (IF child THEN 10 ELSE 0)

\* Mutant: _dump goes on to the last key.
LmdbTx__DumpToEnd(k) == AtOrAfter(k)

\* _dump(): the keys printed, from the one given up to the first that does not
\* match it.
LmdbTx__Dump(k) ==
    {x \in AtOrAfter(k) : \A y \in AtOrAfter(k) : CompareKeys(y, x) <= 0 => Matches(k, y)}

-----------------------------------------------------------------------------
Next ==
    \/ \E k \in Keys : LmdbTx_Delete(k) \/ \E v \in Vals : LmdbTx_Put(k, v)
    \/ \E a \in Args : LmdbTx_Order(a) \/ LmdbTx_Next(a)
    \/ LuaDbOrderTxClosure

Spec == Init /\ [][Next]_vars

-----------------------------------------------------------------------------
(* Properties.                                                              *)

Below(k) == {x \in DOMAIN db : IsStrictPrefix(k, x)}

\* data() reports a value exactly if there is one, descendants only if there
\* are any, and fails to report them at most for the only descendant of a node
\* without a value (see DataAsDocumented).
DataTrusted ==
    \A k \in Keys :
        LET reported == LmdbTx_Data(k) \in {10, 11}
        IN  /\ LmdbTx_Data(k) \in {1, 11} <=> k \in DOMAIN db
            /\ reported => Below(k) # {}
            /\ Below(k) # {} /\ (k \in DOMAIN db \/ Cardinality(Below(k)) > 1) => reported

\* "Returns 0 if there is no data or children, 1 if there is only data at the
\* specified node, 10 if there are only children, and 11 if there is data and
\* the node has children" (doc/API.md:81-85).
DataAsDocumented ==
    \A k \in Keys : LmdbTx_Data(k) =
        (IF k \in DOMAIN db THEN 1 ELSE 0) + (IF Below(k) # {} THEN 10 ELSE 0)

\* _dump(k) prints the node k and everything below it, and nothing else: the
\* order of the keys keeps every subtree together.
DumpIsSubtree ==
    \A k \in Keys : LmdbTx__Dump(k) = {x \in DOMAIN db : IsPrefix(k, x)}

\* "Iterate over the keys in key order": every answer of the iterator moves it
\* forward, so that a loop over finitely many children ends, whatever it writes.
Advances == [][LuaDbOrderTxClosure /\ got' # End =>
                  CompareKeys(cur'.last, cur.last) > 0]_vars

(* The promise of doc/API.md. The iterator holds the first key it has not   *)
(* passed; the child it is at is one less in the last byte.                 *)
Undone(seg) == IF seg.data = <<>> THEN [seg EXCEPT !.type = (@ - 1) % 256]
               ELSE [seg EXCEPT !.data[Len(seg.data)] = (@ - 1) % 256]

Scan == INSTANCE OrderedScan WITH
    node <- IF cur = End THEN End ELSE cur.prefix,
    at <- IF cur = End \/ cur.last = <<>> \/ Last(cur.last).type = EmptyType THEN NoName
          ELSE Undone(Last(cur.last))

\* The iterator and next() return the children in order, none left out.
ImplementsScan == Scan!Spec
=============================================================================
