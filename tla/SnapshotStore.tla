--------------------------- MODULE SnapshotStore ---------------------------
(***************************************************************************)
(* What LuaDB gives the scripts of several worker processes that share one  *)
(* LMDB file (doc/API.md, lmdb.Transaction). Write transactions run one at  *)
(* a time and see the last committed state and their own changes; commit    *)
(* publishes them all and rollback none. A read transaction sees one state, *)
(* the one committed when it began, unless a commit ended while it was      *)
(* beginning: such a reader, overtaken, may get the changes of any later    *)
(* commit that is being made before it has begun, one that fails included.  *)
(* A commit cut off by the death of its worker, or that fails and cannot be *)
(* taken back, is in doubt until a writer or an opening of the file settles *)
(* it, or the next commit replaces it.                                      *)
(***************************************************************************)
CONSTANTS Proc, Key, Val, NoVal, NoTxn

Map == [Key -> Val \cup {NoVal}]
Empty == [k \in Key |-> NoVal]

VARIABLES
    store,      \* the committed state
    reader,     \* Proc -> the state its read transaction sees, or NoTxn
    begun,      \* readers whose begin has not returned
    overtaken,  \* those during whose begin a commit ended
    writer,     \* the worker that writes, or NoTxn
    view,       \* the state it sees, Empty without one
    doubt       \* the state a commit left in doubt would make, or NoTxn

vars == <<store, reader, begun, overtaken, writer, view, doubt>>
readVars == <<reader, begun, overtaken>>

TypeOK ==
    /\ store \in Map
    /\ reader \in [Proc -> Map \cup {NoTxn}]
    /\ begun \in SUBSET Proc /\ overtaken \in SUBSET begun
    /\ writer \in Proc \cup {NoTxn}
    /\ view \in Map
    /\ doubt \in Map \cup {NoTxn}

Init == /\ store = Empty /\ view = Empty
        /\ reader = [p \in Proc |-> NoTxn]
        /\ begun = {} /\ overtaken = {}
        /\ writer = NoTxn /\ doubt = NoTxn

-----------------------------------------------------------------------------
BeginRead(p) == /\ reader[p] = NoTxn
                /\ reader' = [reader EXCEPT ![p] = store]
                /\ begun' = begun \cup {p}
                /\ UNCHANGED <<overtaken, store, writer, view, doubt>>

Return(p) == /\ p \in begun
             /\ begun' = begun \ {p} /\ overtaken' = overtaken \ {p}
             /\ UNCHANGED <<reader, store, writer, view, doubt>>

EndRead(p) == /\ reader[p] # NoTxn /\ p \notin begun
              /\ reader' = [reader EXCEPT ![p] = NoTxn]
              /\ UNCHANGED <<begun, overtaken, store, writer, view, doubt>>

-----------------------------------------------------------------------------
\* Start from the state left in doubt, which every begin under way misses.
Resolve == /\ doubt # NoTxn
           /\ store' = doubt /\ doubt' = NoTxn
           /\ overtaken' = begun
           /\ UNCHANGED <<reader, begun>>

Settle == writer = NoTxn /\ Resolve /\ UNCHANGED <<writer, view>>

BeginWrite(p) == /\ writer = NoTxn
                 /\ Resolve \/ UNCHANGED <<store, doubt, readVars>>
                 /\ writer' = p
                 /\ view' = store'

Write(p, k, v) == /\ writer = p
                  /\ view' = [view EXCEPT ![k] = v]
                  /\ UNCHANGED <<store, writer, doubt>> /\ UNCHANGED readVars

EndWrite(p) == writer = p /\ writer' = NoTxn /\ view' = Empty

\* The changes can be seen by readers S, if they were overtaken.
Shown(S) == /\ S \subseteq overtaken
            /\ reader' = [p \in Proc |-> IF p \in S THEN view ELSE reader[p]]
            /\ UNCHANGED <<begun, overtaken>>

\* A commit first replaces what was in doubt; a crash from here on leaves its
\* own changes in doubt.
Offer(p) == /\ writer = p
            /\ \E S \in SUBSET Proc : Shown(S)
            /\ doubt' = NoTxn
            /\ UNCHANGED <<store, writer, view>>

Commit(p) == /\ EndWrite(p)
             /\ store' = view
             /\ overtaken' = begun
             /\ UNCHANGED <<doubt, reader, begun>>

Rollback(p) == EndWrite(p) /\ UNCHANGED <<store, doubt>> /\ UNCHANGED readVars

\* A commit fails.
Fail(p) == /\ EndWrite(p)
           /\ \E S \in SUBSET Proc : Shown(S)
           /\ doubt' \in {doubt, view}
           /\ UNCHANGED store

Crash(p) == /\ reader' = [reader EXCEPT ![p] = NoTxn]
            /\ begun' = begun \ {p} /\ overtaken' = overtaken \ {p}
            /\ \/ writer # p /\ UNCHANGED <<writer, view, doubt>>
               \/ EndWrite(p) /\ doubt' \in {doubt, view}
            /\ UNCHANGED store

-----------------------------------------------------------------------------
Next == \/ \E p \in Proc :
               \/ BeginRead(p) \/ Return(p) \/ EndRead(p)
               \/ BeginWrite(p) \/ Offer(p) \/ Commit(p) \/ Rollback(p) \/ Fail(p)
               \/ Crash(p)
               \/ \E k \in Key, v \in Val \cup {NoVal} : Write(p, k, v)
        \/ Settle

Spec == Init /\ [][Next]_vars
=============================================================================
