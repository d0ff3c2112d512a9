----------------------------- MODULE LmdbStore -----------------------------
(***************************************************************************)
(* Transactions of several LuaDB worker processes on one LMDB file: the     *)
(* calls lmdb.c makes into the vendored LMDB 0.9.14 (src/src/deps/lmdb) for *)
(* env:begin, tx:put, tx:delete, tx:commit and tx:rollback, the two meta    *)
(* pages a commit alternates between, the writer mutex and the transaction  *)
(* number of the lock file, and the robust-mutex repair after a worker      *)
(* died holding the mutex. A worker may be killed between any two steps.    *)
(*                                                                         *)
(* Each worker has one Lua state with at most one write and one read        *)
(* transaction (a second write blocks, a second read is refused: see        *)
(* LmdbHandles), and is one thread: it calls nothing else while it is in    *)
(* env:begin or tx:commit. env:begin(true) reads the transaction number and *)
(* then, after whatever others did meanwhile, the roots on the meta page of *)
(* that parity. Page reuse and the reader table are LmdbReaders.            *)
(***************************************************************************)
EXTENDS Integers

CONSTANTS Proc,     \* worker processes
          Key, Val,
          NoVal,    \* no value stored under a key
          NoTxn,    \* no read transaction
          NoProc,   \* nobody holds the writer mutex
          MaxTxn    \* bound: highest transaction number begun

ASSUME StoreAssumption ==
    /\ NoProc \notin Proc /\ NoTxn \notin Proc /\ NoTxn \notin Nat
    /\ NoTxn \notin [Key -> Val \cup {NoVal}]
    /\ MaxTxn \in Nat

Map == [Key -> Val \cup {NoVal}]
Empty == [k \in Key |-> NoVal]

VARIABLES
    txnid,   \* 0..1 -> mm_txnid of that meta page
    root,    \* 0..1 -> the map its roots lead to
    mti,     \* mti_txnid of the lock file
    owner,   \* holder of the writer mutex
    dead,    \* the holder died (the next locker gets EOWNERDEAD)
    up,      \* workers that have the environment open
    fatal,   \* workers whose environment has MDB_FATAL_ERROR
    wpc,     \* Proc -> where its write transaction is
    wid,     \* Proc -> mt_txnid of it
    wview,   \* Proc -> the map it sees
    wflag,   \* Proc -> "clean", "dirty" (MDB_TXN_DIRTY), "error"
    rnum,    \* Proc -> the number env:begin(true) has read, the roots not yet
    rview,   \* Proc -> the map its read transaction sees, or NoTxn
    stray    \* history: the number a failed commit left on its meta page, or 0

metaVars == <<txnid, root, mti, stray>>
lockVars == <<owner, dead>>
writeVars == <<wpc, wid, wview, wflag>>
readVars == <<rnum, rview>>
vars == <<txnid, root, mti, stray, owner, dead, up, fatal, wpc, wid, wview, wflag,
          rnum, rview>>

TypeOK ==
    /\ txnid \in [0..1 -> Nat] /\ root \in [0..1 -> Map] /\ mti \in Nat
    /\ owner \in Proc \cup {NoProc} /\ dead \in BOOLEAN
    /\ up \in SUBSET Proc /\ fatal \in SUBSET Proc
    /\ wpc \in [Proc -> {"none", "open", "meta", "publish", "unlock"}]
    /\ wid \in [Proc -> Nat]
    /\ wview \in [Proc -> Map]
    /\ wflag \in [Proc -> {"clean", "dirty", "error"}]
    /\ rnum \in [Proc -> Nat \cup {NoTxn}]
    /\ rview \in [Proc -> Map \cup {NoTxn}]
    /\ stray \in Nat

Init ==
    /\ txnid = [i \in 0..1 |-> 0] /\ root = [i \in 0..1 |-> Empty] /\ mti = 0
    /\ owner = NoProc /\ dead = FALSE
    /\ up = {} /\ fatal = {}
    /\ wpc = [p \in Proc |-> "none"]
    /\ wid = [p \in Proc |-> 0]
    /\ wview = [p \in Proc |-> Empty]
    /\ wflag = [p \in Proc |-> "clean"]
    /\ rnum = [p \in Proc |-> NoTxn]
    /\ rview = [p \in Proc |-> NoTxn]
    /\ stray = 0

\* mdb_env_pick_meta: the meta page with the higher number.
Newest == IF txnid[0] < txnid[1] THEN 1 ELSE 0

\* The script runs: the worker is in none of the calls below.
InLua(p) == p \in up /\ rnum[p] = NoTxn /\ wpc[p] \in {"none", "open"}

-----------------------------------------------------------------------------
(* Opening and losing a worker.                                             *)

\* Mutant: every process that opens the file initialises the mutex.
OpenResetsMutex(p) ==
    /\ p \notin up
    /\ up' = up \cup {p}
    /\ mti' = txnid[Newest] /\ owner' = NoProc /\ dead' = FALSE /\ stray' = 0
    /\ UNCHANGED <<txnid, root, fatal>> /\ UNCHANGED writeVars /\ UNCHANGED readVars

\* Mutant: the first process keeps the number it finds in the lock file.
OpenKeepsMti(p) ==
    /\ p \notin up
    /\ up' = up \cup {p}
    /\ IF up = {} THEN owner' = NoProc /\ dead' = FALSE /\ stray' = 0
                  ELSE UNCHANGED <<owner, dead, stray>>
    /\ UNCHANGED <<mti, txnid, root, fatal>> /\ UNCHANGED writeVars /\ UNCHANGED readVars

\* lmdb.open: the first process to open the file gets the exclusive lock,
\* initialises the mutexes and takes mti from the newest meta page.
Open(p) ==
    /\ p \notin up
    /\ up' = up \cup {p}
    /\ IF up = {}
       THEN mti' = txnid[Newest] /\ owner' = NoProc /\ dead' = FALSE /\ stray' = 0
       ELSE UNCHANGED <<mti, owner, dead, stray>>
    /\ UNCHANGED <<txnid, root, fatal>> /\ UNCHANGED writeVars /\ UNCHANGED readVars

\* What a write transaction kept for itself is forgotten with it.
WriteOver(p) ==
    /\ wpc' = [wpc EXCEPT ![p] = "none"]
    /\ wid' = [wid EXCEPT ![p] = 0]
    /\ wview' = [wview EXCEPT ![p] = Empty]
    /\ wflag' = [wflag EXCEPT ![p] = "clean"]

\* The process ends with whatever it had open (killed, or aborted by Lua).
Crash(p) ==
    /\ p \in up
    /\ up' = up \ {p}
    /\ fatal' = fatal \ {p}
    /\ WriteOver(p)
    /\ rnum' = [rnum EXCEPT ![p] = NoTxn]
    /\ rview' = [rview EXCEPT ![p] = NoTxn]
    /\ dead' = (dead \/ owner = p)
    /\ UNCHANGED owner /\ UNCHANGED metaVars

-----------------------------------------------------------------------------
(* env:begin(). A fatal environment returns MDB_PANIC.                      *)

\* Mutant: a reader that takes the number from the newest meta page.
BeginReadNewest(p) ==
    /\ InLua(p) /\ p \notin fatal /\ rview[p] = NoTxn
    /\ rnum' = [rnum EXCEPT ![p] = txnid[Newest]]
    /\ UNCHANGED <<up, fatal, rview>> /\ UNCHANGED metaVars
    /\ UNCHANGED lockVars /\ UNCHANGED writeVars

\* The number, as of the last turn of the loop that reads it.
BeginRead(p) ==
    /\ InLua(p) /\ p \notin fatal /\ rview[p] = NoTxn
    /\ rnum' = [rnum EXCEPT ![p] = mti]
    /\ UNCHANGED <<up, fatal, rview>> /\ UNCHANGED metaVars
    /\ UNCHANGED lockVars /\ UNCHANGED writeVars

\* The roots, from the meta page of that parity as it is by now; env:begin
\* returns.
CopyRoots(p) ==
    /\ rnum[p] # NoTxn
    /\ rview' = [rview EXCEPT ![p] = root[rnum[p] % 2]]
    /\ rnum' = [rnum EXCEPT ![p] = NoTxn]
    /\ UNCHANGED <<up, fatal>> /\ UNCHANGED metaVars
    /\ UNCHANGED lockVars /\ UNCHANGED writeVars

EndRead(p) ==
    /\ InLua(p) /\ rview[p] # NoTxn
    /\ rview' = [rview EXCEPT ![p] = NoTxn]
    /\ UNCHANGED <<up, fatal, rnum>> /\ UNCHANGED metaVars
    /\ UNCHANGED lockVars /\ UNCHANGED writeVars

WriteTxn(p, last) ==
    /\ last < MaxTxn
    /\ wpc' = [wpc EXCEPT ![p] = "open"]
    /\ wid' = [wid EXCEPT ![p] = last + 1]
    /\ wview' = [wview EXCEPT ![p] = root[last % 2]]
    /\ wflag' = [wflag EXCEPT ![p] = "clean"]
    /\ owner' = p
    /\ dead' = FALSE
    /\ mti' = last
    /\ UNCHANGED <<txnid, root, up, fatal>> /\ UNCHANGED readVars

CanBegin(p) == InLua(p) /\ p \notin fatal /\ wpc[p] = "none"

BeginWrite(p) ==
    /\ CanBegin(p) /\ owner = NoProc
    /\ WriteTxn(p, mti)
    /\ UNCHANGED stray

\* Mutants: taking over the mutex without bringing mti up to date, and only
\* when nothing is in doubt.
BeginWriteTrustsMti(p) ==
    CanBegin(p) /\ dead /\ WriteTxn(p, mti) /\ UNCHANGED stray
BeginWriteIfSettled(p) ==
    /\ CanBegin(p) /\ dead /\ txnid[Newest] = mti
    /\ WriteTxn(p, mti) /\ stray' = 0

\* The mutex comes with EOWNERDEAD: mdb_mutex_failed first brings mti up to
\* the newest meta page.
BeginWriteRepairs(p) ==
    /\ CanBegin(p) /\ dead
    /\ WriteTxn(p, txnid[Newest])
    /\ stray' = 0

-----------------------------------------------------------------------------
(* tx:put and tx:delete; a put that finds the map full poisons the          *)
(* transaction (MDB_TXN_ERROR), and later calls on it are refused.          *)

Update(p, k, v) ==
    /\ InLua(p) /\ wpc[p] = "open" /\ wflag[p] # "error"
    /\ wview' = [wview EXCEPT ![p] = [@ EXCEPT ![k] = v]]
    /\ wflag' = [wflag EXCEPT ![p] = "dirty"]
    /\ UNCHANGED <<wpc, wid, up, fatal>> /\ UNCHANGED readVars
    /\ UNCHANGED metaVars /\ UNCHANGED lockVars

LmdbTx_Put(p, k, v) == v \in Val /\ Update(p, k, v)

\* Mutant: a deleted key keeps a value of its own.
LmdbTx_DeleteMarks(p, k) == wview[p][k] # NoVal /\ Update(p, k, NoTxn)

LmdbTx_Delete(p, k) == wview[p][k] # NoVal /\ Update(p, k, NoVal)

PutMapFull(p) ==
    /\ InLua(p) /\ wpc[p] = "open"
    /\ wflag' = [wflag EXCEPT ![p] = "error"]
    /\ UNCHANGED <<wpc, wid, wview, up, fatal>> /\ UNCHANGED readVars
    /\ UNCHANGED metaVars /\ UNCHANGED lockVars

-----------------------------------------------------------------------------
(* Ending a write transaction.                                              *)

Release(p) ==
    /\ WriteOver(p)
    /\ owner' = NoProc
    /\ UNCHANGED <<dead, up>> /\ UNCHANGED readVars

\* tx:rollback, the finalizer, and every failure before the meta page:
\* mdb_txn_abort.
Abort(p) ==
    /\ wpc[p] = "meta" \/ (InLua(p) /\ wpc[p] = "open")
    /\ Release(p)
    /\ UNCHANGED fatal /\ UNCHANGED metaVars

\* tx:commit, one step for each thing others see: the pages are written and
\* synced, then the meta page, then mti, then the mutex is released. With
\* nothing dirty only the mutex is. A poisoned transaction is aborted.
LmdbTx_Commit(p) ==
    /\ InLua(p) /\ wpc[p] = "open" /\ wflag[p] # "error"
    /\ wpc' = [wpc EXCEPT ![p] = IF wflag[p] = "clean" THEN "unlock" ELSE "meta"]
    /\ UNCHANGED <<wid, wview, wflag, up, fatal>> /\ UNCHANGED readVars
    /\ UNCHANGED metaVars /\ UNCHANGED lockVars

\* The roots and the number on the older meta page.
NewRoots(p) == root' = [root EXCEPT ![wid[p] % 2] = wview[p]]
NewNumber(p) == txnid' = [txnid EXCEPT ![wid[p] % 2] = wid[p]]

WriteMeta(p) ==
    /\ wpc[p] = "meta"
    /\ NewRoots(p) /\ NewNumber(p)
    /\ stray' = 0
    /\ wpc' = [wpc EXCEPT ![p] = "publish"]
    /\ UNCHANGED <<mti, wid, wview, wflag, up, fatal>> /\ UNCHANGED readVars
    /\ UNCHANGED lockVars

\* The write of the meta page fails, before anything of it is in the page
\* cache or after; then the number that was on the page is written back, which
\* may fail as well (its result is ignored). The roots in the page cache stay
\* new, and the environment is unusable in this process.
WriteMetaFails(p) ==
    /\ wpc[p] = "meta"
    /\ \/ UNCHANGED <<txnid, root, stray>>
       \/ NewRoots(p) /\ UNCHANGED <<txnid, stray>>
       \/ NewRoots(p) /\ NewNumber(p) /\ stray' = wid[p]
    /\ fatal' = fatal \cup {p}
    /\ Release(p)
    /\ UNCHANGED mti

Publish(p) ==
    /\ wpc[p] = "publish"
    /\ mti' = wid[p]
    /\ wpc' = [wpc EXCEPT ![p] = "unlock"]
    /\ UNCHANGED <<txnid, root, stray, wid, wview, wflag, up, fatal>>
    /\ UNCHANGED readVars /\ UNCHANGED lockVars

\* Mutant: the writer waits for the readers to finish.
UnlockWaitsForReaders(p) ==
    /\ wpc[p] = "unlock"
    /\ \A q \in Proc : rview[q] = NoTxn /\ rnum[q] = NoTxn
    /\ Release(p)
    /\ UNCHANGED fatal /\ UNCHANGED metaVars

Unlock(p) ==
    /\ wpc[p] = "unlock"
    /\ Release(p)
    /\ UNCHANGED fatal /\ UNCHANGED metaVars

-----------------------------------------------------------------------------
Begin(p) == BeginWrite(p) \/ BeginWriteRepairs(p)
Finish(p) == WriteMeta(p) \/ Publish(p) \/ Unlock(p)
Change(p) == \E k \in Key : LmdbTx_Delete(p, k) \/ \E v \in Val : LmdbTx_Put(p, k, v)

Next == \E p \in Proc :
    \/ Open(p) \/ Crash(p)
    \/ BeginRead(p) \/ CopyRoots(p) \/ EndRead(p)
    \/ Begin(p) \/ Change(p) \/ PutMapFull(p)
    \/ Abort(p) \/ LmdbTx_Commit(p) \/ Finish(p) \/ WriteMetaFails(p)

Spec == Init /\ [][Next]_vars

(* A call that was made runs to its end unless the worker dies, and workers *)
(* do not read for ever: requests that write keep coming, so one of those   *)
(* that again and again could begin a write transaction does.               *)
FairSpec == /\ Spec
            /\ \A p \in Proc : /\ WF_vars(Finish(p) \/ WriteMetaFails(p))
                               /\ WF_vars(CopyRoots(p))
            /\ SF_vars(\E p \in Proc : Begin(p))

-----------------------------------------------------------------------------
(* Properties.                                                              *)

\* Two workers never write at once: whoever has a write transaction, or is in
\* its commit, holds the mutex.
WriterHoldsMutex ==
    \A p \in Proc : wpc[p] # "none" => owner = p /\ ~ dead /\ p \in up

\* "Keep mti_txnid updated, otherwise next writer can overwrite data which
\* latest meta page refers to" (mdb_mutex_failed): a transaction not yet
\* written is numbered after both meta pages, but for the number a failed
\* commit left there, and never replaces the page of the last commit.
NewestMetaKept ==
    \A p \in Proc : wpc[p] \in {"open", "meta"} =>
        /\ wid[p] = (IF stray = 0 THEN txnid[Newest] + 1 ELSE stray)
        /\ wid[p] % 2 # mti % 2

\* The number new transactions start from names a meta page, and lags the
\* newest one only while a commit is between its two writes or was cut there,
\* or by the page of a commit that failed and could not be taken back.
MtiNamesMeta ==
    /\ txnid[mti % 2] = mti
    /\ txnid[Newest] # mti => \/ dead \/ \E p \in Proc : wpc[p] = "publish"
                              \/ stray = txnid[Newest]

\* A commit that was started returns.
CommitReturns ==
    \A p \in Proc : wpc[p] \in {"meta", "publish", "unlock"} ~> wpc[p] = "none"

\* The mutex of a dead worker does not stay locked, unless no worker is left
\* whose environment can begin a transaction.
DeadOwnerReplaced == (dead /\ txnid[Newest] < MaxTxn) ~> (~ dead \/ up \subseteq fatal)

-----------------------------------------------------------------------------
(* The abstract store this implements.                                      *)

Deciding(p) == wpc[p] \in {"open", "meta", "publish"}
Writing == owner \in Proc /\ Deciding(owner)

Committed == root[mti % 2]
Writer == IF Writing THEN owner ELSE NoTxn
WriterView == IF Writing THEN wview[owner] ELSE Empty

\* A commit that died between its two writes, or failed and could not be taken
\* back, is there for the next repair or the next opening to find.
InDoubt == IF txnid[Newest] # mti /\ \A p \in Proc : wpc[p] # "publish"
           THEN root[Newest] ELSE NoTxn

\* A reader without its roots would get those now on the page it goes to.
Reader == [p \in Proc |-> IF rnum[p] = NoTxn THEN rview[p] ELSE root[rnum[p] % 2]]
Begun == {p \in Proc : rnum[p] # NoTxn}
Overtaken == {p \in Begun : rnum[p] # mti}

Store == INSTANCE SnapshotStore WITH
    store <- Committed, reader <- Reader, begun <- Begun, overtaken <- Overtaken,
    writer <- Writer, view <- WriterView, doubt <- InDoubt

\* Every behaviour of the workers is one of the abstract store.
ImplementsStore == Store!Spec
=============================================================================
