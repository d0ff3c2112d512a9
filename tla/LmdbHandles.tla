---------------------------- MODULE LmdbHandles ----------------------------
(***************************************************************************)
(* The Lua side of the LMDB binding (src/src/lmdb.c) in one Lua state: the  *)
(* userdata that wrap MDB_env, MDB_txn and order cursors, the weak          *)
(* reference table kept for every environment, the explicit close, commit   *)
(* and rollback calls, and the collector of Lua 5.3, which runs the         *)
(* finalizers (__gc) between, and inside, those calls.                      *)
(*                                                                         *)
(* A write transaction is always the one object env->me_txn0 that LMDB      *)
(* allocates with the environment, so a handle that kept its pointer after  *)
(* its transaction ended points at whatever write transaction runs next.    *)
(* slot[e][m] names the handle on whose behalf LMDB runs the transaction    *)
(* of mode m: m = "write" holds the writer mutex, m = "read" occupies the   *)
(* thread's reader slot (no MDB_NOTLS).                                     *)
(***************************************************************************)
CONSTANTS Env,    \* identities of Env userdata (and of the MDB_env they own)
          Tx,     \* identities of Tx userdata
          Iter,   \* identities of order()/iorder() cursor userdata
          None,   \* no transaction runs
          Lost    \* a transaction runs that no handle can end any more

Mode == {"read", "write"}
Object == Env \cup Tx \cup Iter

ASSUME HandleAssumption ==
    /\ Env \cap Tx = {} /\ Env \cap Iter = {} /\ Tx \cap Iter = {}
    /\ None \notin Object /\ Lost \notin Tx /\ None # Lost

VARIABLES
    env,     \* *loc: "absent", "open", "closed" (NULL) or "lost" (no handle)
    tx,      \* [st, env]: st is loc->txn: a transaction of that mode or "null"
    iter,    \* Iter -> the Tx whose transaction the cursor was opened in
    slot,    \* Env -> Mode -> the handle whose transaction LMDB runs
    listed,  \* Env -> the keys of the weak table under the env's uuid
    held,    \* objects the script (or the C stack) still reaches
    floating, \* objects dropped after the collector's cycle had marked them
    pend,    \* the collector's tobefnz list: finalizers still to be called
    call,    \* the C function that allocates: a window for the collector
    halt     \* "no", or why the process cannot go on: it waits for a mutex
             \* of its own ("hang") or has used what LMDB freed ("stale")

vars == <<env, tx, iter, slot, listed, held, floating, pend, call, halt>>

Idle == [fn |-> "lua", env |-> None, mode |-> None, tx |-> None]
Absent == [st |-> "absent", env |-> None]
NoSlots == [m \in Mode |-> None]

TypeOK ==
    /\ env \in [Env -> {"absent", "open", "closed", "lost"}]
    /\ tx \in [Tx -> [st : {"absent", "null"} \cup Mode, env : Env \cup {None}]]
    /\ iter \in [Iter -> Tx \cup {None}]
    /\ slot \in [Env -> [Mode -> Tx \cup {None, Lost}]]
    /\ listed \in [Env -> SUBSET Tx]
    /\ held \in SUBSET Object
    /\ floating \in SUBSET Object
    /\ pend \in SUBSET Object
    /\ call \in [fn : {"lua", "open", "begun", "tagged"}, env : Env \cup {None},
                 mode : Mode \cup {None}, tx : Tx \cup {None}]
    /\ halt \in {"no", "hang", "stale"}

Init ==
    /\ env = [e \in Env |-> "absent"]
    /\ tx = [t \in Tx |-> Absent]
    /\ iter = [i \in Iter |-> None]
    /\ slot = [e \in Env |-> NoSlots]
    /\ listed = [e \in Env |-> {}]
    /\ held = {} /\ floating = {} /\ pend = {}
    /\ call = Idle
    /\ halt = "no"

-----------------------------------------------------------------------------
(* What the calls read. *)

Running == halt = "no"
InLua == Running /\ call.fn = "lua"

Live(t) == tx[t].st \in Mode          \* loc->txn # NULL

Dangling(t) == Live(t) /\ env[tx[t].env] # "open"

\* The transaction the cursor of i walks still runs.
CursorValid(i) == Live(iter[i]) /\ ~ Dangling(iter[i])
                  /\ slot[tx[iter[i]].env][tx[iter[i]].st] = iter[i]

\* A name may stand for a new object once nothing refers to the old one.
TxFree(t) == tx[t] = Absent /\ t \notin held \cup pend
             /\ \A i \in Iter : iter[i] # t
             /\ t # call.tx
EnvFree(e) == env[e] = "absent" /\ e \notin held \cup pend
              /\ \A t \in Tx : tx[t].env # e

-----------------------------------------------------------------------------
(* lmdb.open(): mdb_env_open first, then the userdata, the weak table and,  *)
(* last, the metatable; every allocation in between may run the collector.  *)

OpenStart(e) ==
    /\ InLua /\ EnvFree(e)
    /\ call' = [fn |-> "open", env |-> e, mode |-> None, tx |-> None]
    /\ UNCHANGED <<env, tx, iter, slot, listed, held, floating, pend, halt>>

OpenFinish ==
    /\ Running /\ call.fn = "open"
    /\ env' = [env EXCEPT ![call.env] = "open"]
    /\ listed' = [listed EXCEPT ![call.env] = {}]
    /\ slot' = [slot EXCEPT ![call.env] = NoSlots]
    /\ held' = held \cup {call.env}
    /\ call' = Idle
    /\ UNCHANGED <<tx, iter, floating, pend, halt>>

(* env:begin(): mdb_txn_begin, then the userdata (no finalizer yet), then   *)
(* its metatable, then the entry in the weak table. A second read           *)
(* transaction of the thread is refused (MDB_BAD_RSLOT) and changes         *)
(* nothing; a second write transaction waits for the mutex its own thread   *)
(* holds, and the collector does not run while it waits.                    *)

StartTxn(e, m, t) ==
    /\ InLua /\ e \in held /\ env[e] = "open" /\ TxFree(t)
    /\ slot' = [slot EXCEPT ![e] = [@ EXCEPT ![m] = t]]
    /\ call' = [fn |-> "begun", env |-> e, mode |-> m, tx |-> t]
    /\ UNCHANGED <<env, tx, iter, listed, held, floating, pend, halt>>

BeginTx(e, m, t) == slot[e][m] = None /\ StartTxn(e, m, t)

BeginTxBlocks(e) ==
    /\ InLua /\ e \in held /\ env[e] = "open"
    /\ slot[e]["write"] # None
    /\ halt' = "hang"
    /\ UNCHANGED <<env, tx, iter, slot, listed, held, floating, pend, call>>

\* Mutant: the new userdata in place of the mode.
BeginTxTagSwapped ==
    /\ Running /\ call.fn = "begun"
    /\ tx' = [tx EXCEPT ![call.tx] = [st |-> call.tx, env |-> call.env]]
    /\ held' = held \cup {call.tx}
    /\ call' = [fn |-> "tagged", env |-> call.env, mode |-> call.mode, tx |-> call.tx]
    /\ UNCHANGED <<env, iter, slot, listed, floating, pend, halt>>

BeginTxTag ==
    /\ Running /\ call.fn = "begun"
    /\ tx' = [tx EXCEPT ![call.tx] = [st |-> call.mode, env |-> call.env]]
    /\ held' = held \cup {call.tx}
    /\ call' = [fn |-> "tagged", env |-> call.env, mode |-> call.mode, tx |-> call.tx]
    /\ UNCHANGED <<env, iter, slot, listed, floating, pend, halt>>

BeginTxList ==
    /\ Running /\ call.fn = "tagged"
    /\ listed' = [listed EXCEPT ![call.env] = @ \cup {call.tx}]
    /\ call' = Idle
    /\ UNCHANGED <<env, tx, iter, slot, held, floating, pend, halt>>

-----------------------------------------------------------------------------
(* Ending a transaction. mdb_txn_abort and mdb_txn_commit act on the object *)
(* the pointer names: for "write" that is me_txn0, whoever began it.        *)

Ended(h) == [st |-> "null", env |-> h.env]      \* loc->txn = NULL
Unlist(t) == listed' = [listed EXCEPT ![tx[t].env] = @ \ {t}]

\* Mutant: aborting one transaction ends whatever runs in the environment.
EndAllTxns(t) == slot' = [slot EXCEPT ![tx[t].env] = NoSlots]

EndTxn(t) ==
    slot' = [slot EXCEPT ![tx[t].env] = [@ EXCEPT ![tx[t].st] = None]]

\* Mutant: close without RemoveTxFromLmdbEnvRefTable.
LmdbTx_CloseKeepsEntry(t) ==
    /\ InLua /\ t \in held /\ Live(t) /\ ~ Dangling(t)
    /\ EndTxn(t)
    /\ tx' = [tx EXCEPT ![t] = Ended(@)]
    /\ UNCHANGED <<env, iter, listed, held, floating, pend, call, halt>>

\* tx:close() / tx:rollback(); on a NULL pointer it only raises an error.
LmdbTx_Close(t) ==
    /\ InLua /\ t \in held /\ Live(t) /\ ~ Dangling(t)
    /\ Unlist(t) /\ EndTxn(t)
    /\ tx' = [tx EXCEPT ![t] = Ended(@)]
    /\ UNCHANGED <<env, iter, held, floating, pend, call, halt>>

\* Mutant: a commit that leaves the pointer.
LmdbTx_CommitKeepsPointer(t) ==
    /\ InLua /\ t \in held /\ Live(t) /\ ~ Dangling(t)
    /\ slot[tx[t].env][tx[t].st] # None
    /\ Unlist(t) /\ EndTxn(t)
    /\ UNCHANGED <<env, tx, iter, held, floating, pend, call, halt>>

\* tx:commit(), when mdb_txn_commit returns 0: a read transaction, or the
\* active write transaction (whichever handle began it).
LmdbTx_Commit(t) ==
    /\ InLua /\ t \in held /\ Live(t) /\ ~ Dangling(t)
    /\ slot[tx[t].env][tx[t].st] # None
    /\ Unlist(t) /\ EndTxn(t)
    /\ tx' = [tx EXCEPT ![t] = Ended(@)]
    /\ UNCHANGED <<env, iter, held, floating, pend, call, halt>>

\* tx:commit(), when mdb_txn_commit fails: LMDB has aborted the transaction,
\* the call raises an error before it clears loc->txn.
LmdbTx_CommitFails(t) ==
    /\ InLua /\ t \in held /\ ~ Dangling(t)
    /\ tx[t].st = "write"
    /\ Unlist(t) /\ EndTxn(t)
    /\ UNCHANGED <<env, tx, iter, held, floating, pend, call, halt>>

\* get, put, delete, data, next or order on a handle whose pointer names freed
\* memory or the write transaction object while no transaction runs in it
\* (close and commit of the latter find nothing to end, see above).
UseStale(t) ==
    /\ InLua /\ t \in held /\ Live(t)
    /\ Dangling(t) \/ slot[tx[t].env][tx[t].st] = None
    /\ halt' = "stale"
    /\ UNCHANGED <<env, tx, iter, slot, listed, held, floating, pend, call>>

-----------------------------------------------------------------------------
(* tx:order(...) and the closure it returns.                                *)

LmdbTx_Order(t, i) ==
    /\ InLua /\ t \in held /\ Live(t) /\ ~ Dangling(t)
    /\ slot[tx[t].env][tx[t].st] = t
    /\ iter[i] = None /\ i \notin held \cup pend
    /\ iter' = [iter EXCEPT ![i] = t]
    /\ held' = held \cup {i}
    /\ UNCHANGED <<env, tx, slot, listed, floating, pend, call, halt>>

\* One call of the closure on a cursor whose transaction has ended.
IterateStale(i) ==
    /\ InLua /\ i \in held
    /\ iter[i] \in Tx /\ ~ CursorValid(i)
    /\ halt' = "stale"
    /\ UNCHANGED <<env, tx, iter, slot, listed, held, floating, pend, call>>

-----------------------------------------------------------------------------
(* env:close(): abort the transactions still in the weak table, then free   *)
(* the environment and clear the pointer.                                   *)

\* Mutant: the pointers are cleared and nothing is aborted.
CloseListedKeepsRunning(e) ==
    /\ tx' = [t \in Tx |-> IF t \in listed[e] THEN Ended(tx[t]) ELSE tx[t]]
    /\ listed' = [listed EXCEPT ![e] = {}]
    /\ UNCHANGED slot

CloseListed(e) ==
    /\ tx' = [t \in Tx |-> IF t \in listed[e] THEN Ended(tx[t]) ELSE tx[t]]
    /\ slot' = [slot EXCEPT ![e] = [m \in Mode |->
                   IF \E t \in listed[e] : tx[t].st = m THEN None ELSE @[m]]]
    /\ listed' = [listed EXCEPT ![e] = {}]

LmdbEnv_Close(e) ==
    /\ InLua /\ e \in held /\ env[e] = "open"
    /\ CloseListed(e)
    /\ env' = [env EXCEPT ![e] = "closed"]
    /\ UNCHANGED <<iter, held, floating, pend, call, halt>>

-----------------------------------------------------------------------------
(* The collector.                                                           *)

\* The script forgets an object. If a cycle is under way (it marks step by step
\* while the script runs) it may have marked the object before.
Drop(o) ==
    /\ InLua /\ o \in held
    /\ held' = held \ {o}
    /\ \/ floating' = floating
       \/ pend = {} /\ floating' = floating \cup {o}
    /\ UNCHANGED <<env, tx, iter, slot, listed, pend, call, halt>>

\* Mutant: no finalizer for transactions.
CollectableWithoutTx ==
    {e \in Env : env[e] \in {"open", "closed"} /\ e \notin held}
    \cup {i \in Iter : iter[i] # None /\ i \notin held}

Collectable ==
    {e \in Env : env[e] \in {"open", "closed"} /\ e \notin held}
    \cup {t \in Tx : tx[t].st # "absent" /\ t \notin held}
    \cup {i \in Iter : iter[i] # None /\ i \notin held}

\* The end of a cycle that has marked keep beside what is reachable: an entry
\* of the weak table keeps neither its key nor its value (the inner table)
\* alive, so every entry is cleared; objects with a finalizer are queued unless
\* marked. A cycle starts only after the finalizers of the last one have run.
EndCycle(keep) ==
    /\ Running /\ pend = {}
    /\ pend' = Collectable \ keep
    /\ floating' = {}
    /\ listed' = [e \in Env |-> {}]
    /\ UNCHANGED <<env, tx, iter, slot, held, call, halt>>

\* The atomic phase: what was dropped after it was marked stays, but no longer
\* listed, until the next cycle.
CollectAtomic == EndCycle(floating)

\* collectgarbage(): gives up the cycle under way and runs a whole one.
CollectFull == InLua /\ EndCycle({})

\* Finalizers run in the reverse order of creation: a transaction of the
\* queue before its environment (one that floats is not in the queue).
NextToFinalize(o) ==
    /\ Running /\ o \in pend
    /\ o \in Env => \A t \in pend \cap Tx : tx[t].env # o

\* An error in a finalizer is raised in the call that was allocating. An
\* environment or transaction that has no metatable yet is then lost; one that
\* has is an unreachable object like any other. base is env as the finalizer
\* left it.
Interrupted(base) ==
    /\ call' = Idle
    /\ held' = held \ {call.tx}
    /\ slot' = IF call.fn = "begun"
               THEN [slot EXCEPT ![call.env] = [@ EXCEPT ![call.mode] = Lost]]
               ELSE slot
    /\ env' = IF call.fn = "open"
              THEN [base EXCEPT ![call.env] = "lost"] ELSE base

\* __gc of a Tx with a transaction: LmdbTx_Close.
FinalizeTx(t) ==
    /\ NextToFinalize(t) /\ Live(t) /\ ~ Dangling(t)
    /\ Unlist(t) /\ EndTxn(t)
    /\ tx' = [tx EXCEPT ![t] = Absent]
    /\ pend' = pend \ {t}
    /\ UNCHANGED <<env, iter, held, floating, call, halt>>

\* __gc of a Tx that was committed, closed or rolled back: raises "LMDB
\* transaction has no associated environment".
FinalizeEndedTx(t) ==
    /\ NextToFinalize(t) /\ tx[t].st = "null"
    /\ tx' = [tx EXCEPT ![t] = Absent]
    /\ pend' = pend \ {t}
    /\ Interrupted(env)
    /\ UNCHANGED <<iter, listed, floating, halt>>

FinalizeDanglingTx(t) ==
    /\ NextToFinalize(t) /\ Dangling(t)
    /\ halt' = "stale"
    /\ UNCHANGED <<env, tx, iter, slot, listed, held, floating, pend, call>>

\* __gc of an open Env: LmdbEnv_Close.
FinalizeEnv(e) ==
    /\ NextToFinalize(e) /\ env[e] = "open"
    /\ CloseListed(e)
    /\ env' = [env EXCEPT ![e] = "absent"]
    /\ pend' = pend \ {e}
    /\ UNCHANGED <<iter, held, floating, call, halt>>

\* __gc of an Env that was closed: raises "LMDB environment not found".
FinalizeClosedEnv(e) ==
    /\ NextToFinalize(e) /\ env[e] = "closed"
    /\ pend' = pend \ {e}
    /\ Interrupted([env EXCEPT ![e] = "absent"])
    /\ UNCHANGED <<tx, iter, listed, floating, halt>>

\* __gc of an order cursor: its argument check reads an upvalue the function
\* does not have and raises; the MDB_cursor and the prefix stay allocated.
Lmdb_OrderClose(i) ==
    /\ NextToFinalize(i)
    /\ iter' = [iter EXCEPT ![i] = None]
    /\ pend' = pend \ {i}
    /\ Interrupted(env)
    /\ UNCHANGED <<tx, listed, floating, halt>>
-----------------------------------------------------------------------------
Opening == (\E e \in Env : OpenStart(e)) \/ OpenFinish
Beginning == \/ \E e \in Env, m \in Mode, t \in Tx : BeginTx(e, m, t)
             \/ \E e \in Env : BeginTxBlocks(e)
             \/ BeginTxTag
             \/ BeginTxList
Ending == \E t \in Tx : LmdbTx_Close(t) \/ LmdbTx_Commit(t)
Ordering == \E t \in Tx, i \in Iter : LmdbTx_Order(t, i)

Finalizing == \/ \E t \in Tx : \/ FinalizeTx(t)
                                \/ FinalizeEndedTx(t)
                                \/ FinalizeDanglingTx(t)
              \/ \E e \in Env : FinalizeEnv(e) \/ FinalizeClosedEnv(e)
              \/ \E i \in Iter : Lmdb_OrderClose(i)

Collecting == CollectAtomic \/ CollectFull

\* Whatever a script may do as long as LMDB commits what it is asked to.
CommittingNext ==
    \/ Opening \/ Beginning \/ Ending \/ Ordering
    \/ \E t \in Tx : UseStale(t)
    \/ \E i \in Iter : IterateStale(i)
    \/ \E e \in Env : LmdbEnv_Close(e)
    \/ \E o \in Object : Drop(o)
    \/ Collecting \/ Finalizing

Next == CommittingNext \/ \E t \in Tx : LmdbTx_CommitFails(t)

Spec == Init /\ [][Next]_vars
CommittingSpec == Init /\ [][CommittingNext]_vars

(* A careful script: it closes an environment only when every transaction   *)
(* begun in it has ended, forgets one only after the handles of its open    *)
(* transactions, never iterates past the end of a transaction, and no       *)
(* commit of it fails. It may forget open transactions and iterators.       *)
CloseInOrder(e) == /\ \A t \in Tx : tx[t].env = e => ~ Live(t)
                   /\ LmdbEnv_Close(e)
DropEnvInOrder(e) == /\ \A t \in held \cap Tx : tx[t].env = e => ~ Live(t)
                     /\ Drop(e)

OrderedNext ==
    \/ Opening \/ Beginning \/ Ending \/ Ordering
    \/ \E e \in Env : CloseInOrder(e) \/ DropEnvInOrder(e)
    \/ \E o \in Tx \cup Iter : Drop(o)
    \/ Collecting \/ Finalizing

OrderedSpec == Init /\ [][OrderedNext]_vars

(* The collector is driven by allocation, which a script never stops doing, *)
(* and a C function that was started returns.                               *)
FairCommittingSpec ==
    /\ CommittingSpec
    /\ WF_vars(CollectAtomic)
    /\ WF_vars(Finalizing)
    /\ WF_vars(OpenFinish \/ BeginTxTag \/ BeginTxList)

-----------------------------------------------------------------------------
(* Properties. *)

\* Every entry of the weak table is a handle with a transaction in that
\* environment, so env:close() never aborts a NULL or a freed transaction
\* (CleanLmdbEnvRefTable trusts the table).
ListedAreLive ==
    \A e \in Env : \A t \in listed[e] :
        Live(t) /\ tx[t].env = e /\ env[e] = "open"

\* While its environment is open, a handle of a read transaction is the one
\* LMDB runs that transaction for: no other call can have ended it.
ReadHandleOwnsTxn ==
    \A t \in Tx : tx[t].st = "read" /\ ~ Dangling(t)
                    => slot[tx[t].env]["read"] = t

\* While its environment is open, every handle with a pointer is the one LMDB
\* runs the transaction of that mode for, wherever the collector ran: no call
\* and no finalizer ends another handle's transaction, or one that has ended.
\* The code breaks it after a commit that failed, which leaves the pointer.
HandleOwnsTxn ==
    \A t \in Tx : Live(t) /\ ~ Dangling(t) => slot[tx[t].env][tx[t].st] = t

\* A transaction that runs has a handle with a pointer to it, by which it can
\* be ended, or is about to get one: no call loses a transaction, also when it
\* fails or closes the environment. (A finalizer's error in env:begin() does,
\* and leaves Lost.)
RunningHasHandle ==
    \A e \in Env, m \in Mode : slot[e][m] \in Tx =>
        \/ tx[slot[e][m]] = [st |-> m, env |-> e]
        \/ call = [fn |-> "begun", env |-> e, mode |-> m, tx |-> slot[e][m]]

\* Once an environment is closed LMDB runs no transaction of any handle in it
\* (the writer mutex of the file would stay locked). The code breaks it, also
\* for a careful script: one that drops a transaction and its environment, the
\* first of which was marked before.
ClosedEnvHasNoTxn ==
    \A e \in Env, m \in Mode : env[e] # "open" => slot[e][m] \notin Tx

\* The same, of transactions that lost their handle: env:close() cleans up "any
\* lingering cursors and transactions".
ClosedEnvHasNoLostTxn ==
    \A e \in Env, m \in Mode : env[e] # "open" => slot[e][m] # Lost

\* A transaction that some handle began ends only together with the pointer
\* of that handle: by its own close or commit, its own finalizer, or the
\* closing of its environment.
EndsWithHandle ==
    \A e \in Env, m \in Mode :
        slot[e][m] \in Tx /\ slot'[e][m] # slot[e][m]
            => slot'[e][m] = Lost \/ tx'[slot[e][m]].st \notin Mode

NoSilentEnd == [][EndsWithHandle]_vars

\* A transaction whose handle the script forgot does not hold the writer mutex
\* or the reader slot for ever: the collector ends it.
ForgottenTxnEnds ==
    \A t \in Tx : (Live(t) /\ t \notin held) ~> (~ Live(t) \/ ~ Running)
=============================================================================
