----------------------------- MODULE LmdbReaders -----------------------------
(***************************************************************************)
(* Read transactions against page reuse: how env:begin(true) of one worker  *)
(* registers in the reader table of the lock file while the writer of       *)
(* another looks for the oldest reader without any lock, and what           *)
(* env:reader_check, killed workers and reused process ids do to the table  *)
(* (src/src/lmdb.c, src/src/deps/lmdb/mdb.c).                               *)
(*                                                                         *)
(* A snapshot is the number of the transaction that committed it: LmdbStore *)
(* has what a snapshot holds and what a failed commit leaves behind; here   *)
(* each access to the reader table is a step. A worker is one thread and    *)
(* has one read and one write transaction at most. A process id is a member *)
(* of Proc: a worker that opens the file again may have that of a dead one. *)
(***************************************************************************)
EXTENDS Integers

CONSTANTS Proc, NoProc,
          MaxReaders,  \* me_maxreaders: slots in the table
          MaxTxn       \* bound: highest transaction number begun

ASSUME ReadersAssumption ==
    NoProc \notin Proc /\ MaxReaders \in Nat /\ MaxTxn \in Nat

Slot == 1..MaxReaders
Unset == -1   \* (txnid_t)-1: the slot is not in a transaction
Dirty == -1   \* the roots of a transaction whose meta page failed to be written

VARIABLES
    txnid,        \* 0..1 -> mm_txnid of that meta page
    root,         \* 0..1 -> the snapshot its roots lead to, or Dirty
    mti,          \* mti_txnid of the lock file
    owner, dead,  \* holder of the writer mutex; whether it died
    wpc,          \* the write transaction: "none", "open", "scan", "publish"
    wid,          \* mt_txnid of it
    wscan, wold,  \* mdb_find_oldest: slots still to visit, oldest so far
    pgoldest,     \* Proc -> me_pgoldest
    reused,       \* pages of snapshots before this one may be overwritten
    slot,         \* mti_readers: pid and txnid of each
    numreaders,   \* mti_numreaders
    up, fatal,    \* workers with the environment open, with MDB_FATAL_ERROR
    live,         \* process ids whose lock byte is set (me_live_reader)
    mine,         \* Proc -> the slot in its me_txkey, or 0
    closers,      \* Proc -> me_close_readers
    chk,          \* Proc -> the id mdb_reader_check0 found dead, or NoProc
    rpc,          \* Proc -> where env:begin(true) is
    reg,          \* Proc -> the number it read (then mt_txnid)
    snap,         \* Proc -> the snapshot its roots lead to
    since,        \* history: mti when env:begin(true) was called
    left          \* history: slots whose worker was killed

metaVars == <<txnid, root, mti>>
mutexVars == <<owner, dead, wpc, wid, wscan, wold>>
writeVars == <<mutexVars, pgoldest, reused>>
tableVars == <<slot, numreaders, left>>
procVars == <<up, fatal, live, mine, closers>>
readVars == <<rpc, reg, snap, since>>
vars == <<metaVars, writeVars, tableVars, procVars, readVars, chk>>

TypeOK ==
    /\ txnid \in [0..1 -> Nat] /\ root \in [0..1 -> Nat \cup {Dirty}] /\ mti \in Nat
    /\ owner \in Proc \cup {NoProc} /\ dead \in BOOLEAN
    /\ wpc \in {"none", "open", "scan", "publish"}
    /\ wid \in Nat /\ wscan \in 0..MaxReaders /\ wold \in Nat
    /\ pgoldest \in [Proc -> Nat] /\ reused \in Nat
    /\ slot \in [Slot -> [pid : Proc \cup {NoProc}, txnid : Nat \cup {Unset}]]
    /\ numreaders \in 0..MaxReaders /\ left \in SUBSET Slot
    /\ up \in SUBSET Proc /\ fatal \in SUBSET Proc /\ live \in SUBSET Proc
    /\ mine \in [Proc -> 0..MaxReaders] /\ closers \in [Proc -> 0..MaxReaders]
    /\ chk \in [Proc -> Proc \cup {NoProc}]
    /\ rpc \in [Proc -> {"idle", "claim", "load", "store", "check", "copy", "reading"}]
    /\ reg \in [Proc -> Nat] /\ since \in [Proc -> Nat]
    /\ snap \in [Proc -> Nat \cup {Dirty}]

NoSlots == [i \in Slot |-> [pid |-> NoProc, txnid |-> Unset]]

Init ==
    /\ txnid = [i \in 0..1 |-> 0] /\ root = [i \in 0..1 |-> 0] /\ mti = 0
    /\ owner = NoProc /\ dead = FALSE
    /\ wpc = "none" /\ wid = 0 /\ wscan = 0 /\ wold = 0
    /\ pgoldest = [p \in Proc |-> 0] /\ reused = 0
    /\ slot = NoSlots
    /\ numreaders = 0 /\ left = {}
    /\ up = {} /\ fatal = {} /\ live = {}
    /\ mine = [p \in Proc |-> 0] /\ closers = [p \in Proc |-> 0]
    /\ chk = [p \in Proc |-> NoProc]
    /\ rpc = [p \in Proc |-> "idle"]
    /\ reg = [p \in Proc |-> 0] /\ since = [p \in Proc |-> 0]
    /\ snap = [p \in Proc |-> 0]

\* mdb_env_pick_meta: the meta page with the higher number.
Newest == IF txnid[0] < txnid[1] THEN 1 ELSE 0

\* The worker has the write transaction.
Writes(p) == owner = p /\ ~ dead

\* The worker is in none of the calls below.
Free(p) ==
    /\ p \in up /\ chk[p] = NoProc
    /\ rpc[p] \in {"idle", "reading"}
    /\ Writes(p) => wpc = "open"

\* The slots S, seen up to mti_numreaders, given back.
Cleared(S) == [i \in Slot |-> IF i \in S THEN [slot[i] EXCEPT !.pid = NoProc] ELSE slot[i]]
SlotsOf(p) == {i \in Slot : i <= numreaders /\ slot[i].pid = p}

\* What a transaction kept for itself is forgotten with it.
WriteOver == wpc' = "none" /\ wid' = 0 /\ wscan' = 0 /\ wold' = 0
ReadOver(p) ==
    /\ rpc' = [rpc EXCEPT ![p] = "idle"]
    /\ reg' = [reg EXCEPT ![p] = 0] /\ since' = [since EXCEPT ![p] = 0]
    /\ snap' = [snap EXCEPT ![p] = 0]

-----------------------------------------------------------------------------
(* Opening, closing and losing a worker.                                    *)

\* lmdb.open: the first process resets the lock file. What the slots hold is
\* out of reach behind mti_numreaders = 0, and a claim erases it.
Open(p) ==
    /\ p \notin up
    /\ up' = up \cup {p}
    /\ IF up = {}
       THEN /\ mti' = txnid[Newest] /\ numreaders' = 0 /\ slot' = NoSlots /\ left' = {}
            /\ owner' = NoProc /\ dead' = FALSE
       ELSE UNCHANGED <<mti, numreaders, slot, left, owner, dead>>
    /\ UNCHANGED <<txnid, root, wpc, wid, wscan, wold, pgoldest, reused>>
    /\ UNCHANGED <<fatal, live, mine, closers, chk>> /\ UNCHANGED readVars

Leave(p) ==
    /\ up' = up \ {p} /\ fatal' = fatal \ {p}
    /\ live' = live \ {p}
    /\ mine' = [mine EXCEPT ![p] = 0] /\ closers' = [closers EXCEPT ![p] = 0]
    /\ pgoldest' = [pgoldest EXCEPT ![p] = 0]

\* env:close, its transactions ended (LmdbHandles has the rest): gives back
\* the slots with its process id, without the reader mutex, as far as
\* mti_numreaders was when it last claimed one.
LmdbEnv_Close(p) ==
    /\ Free(p) /\ rpc[p] = "idle" /\ ~ Writes(p)
    /\ LET own == {i \in 1..closers[p] : slot[i].pid = p}
       IN  slot' = Cleared(own) /\ left' = left \ own
    /\ Leave(p)
    /\ UNCHANGED numreaders
    /\ UNCHANGED metaVars /\ UNCHANGED mutexVars /\ UNCHANGED <<readVars, chk, reused>>

Crash(p) ==
    /\ p \in up
    /\ Leave(p)
    /\ left' = left \cup ({mine[p]} \cap Slot)
    /\ dead' = (dead \/ owner = p)
    /\ IF Writes(p) THEN WriteOver ELSE UNCHANGED <<wpc, wid, wscan, wold>>
    /\ ReadOver(p)
    /\ chk' = [chk EXCEPT ![p] = NoProc]
    /\ UNCHANGED <<owner, reused, slot, numreaders>> /\ UNCHANGED metaVars

-----------------------------------------------------------------------------
(* env:begin(true): mdb_txn_renew0 of a read transaction.                   *)

\* A thread that has a slot uses it again. Without one it first locks the
\* byte of its process id, which tells reader_check that the id is alive.
LmdbEnv_BeginRead(p) ==
    /\ Free(p) /\ p \notin fatal /\ rpc[p] = "idle"
    /\ since' = [since EXCEPT ![p] = mti]
    /\ IF mine[p] # 0
       THEN /\ slot[mine[p]] = [pid |-> p, txnid |-> Unset]   \* else MDB_BAD_RSLOT
            /\ rpc' = [rpc EXCEPT ![p] = "load"]
            /\ UNCHANGED live
       ELSE /\ rpc' = [rpc EXCEPT ![p] = "claim"]
            /\ live' = live \cup {p}
    /\ UNCHANGED <<up, fatal, mine, closers, reg, snap, chk>>
    /\ UNCHANGED metaVars /\ UNCHANGED writeVars /\ UNCHANGED tableVars

\* Under the reader mutex: the first free slot seen, or the next one.
FirstFree(i) ==
    /\ i <= numreaders + 1
    /\ i <= numreaders => slot[i].pid = NoProc
    /\ \A j \in 1..(i - 1) : slot[j].pid # NoProc

ClaimSlot(p, i) ==
    /\ rpc[p] = "claim" /\ FirstFree(i)
    /\ slot' = [slot EXCEPT ![i] = [pid |-> p, txnid |-> Unset]]
    /\ numreaders' = IF i > numreaders THEN i ELSE numreaders
    /\ closers' = [closers EXCEPT ![p] = numreaders']
    /\ mine' = [mine EXCEPT ![p] = i]
    /\ left' = left \ {i}
    /\ rpc' = [rpc EXCEPT ![p] = "load"]
    /\ UNCHANGED <<up, fatal, live, reg, snap, since, chk>>
    /\ UNCHANGED metaVars /\ UNCHANGED writeVars

\* Mutant: the size of the table is not looked at.
ClaimUnbounded(p) == \E i \in 1..(MaxReaders + 1) : ClaimSlot(p, i)

Claim(p) == \E i \in Slot : ClaimSlot(p, i)

\* MDB_READERS_FULL.
ClaimFails(p) ==
    /\ rpc[p] = "claim" /\ ~ \E i \in Slot : FirstFree(i)
    /\ ReadOver(p)
    /\ UNCHANGED chk /\ UNCHANGED procVars
    /\ UNCHANGED metaVars /\ UNCHANGED writeVars /\ UNCHANGED tableVars

Load(p) ==
    /\ rpc[p] = "load"
    /\ reg' = [reg EXCEPT ![p] = mti]
    /\ rpc' = [rpc EXCEPT ![p] = "store"]
    /\ UNCHANGED <<snap, since, chk>> /\ UNCHANGED procVars
    /\ UNCHANGED metaVars /\ UNCHANGED writeVars /\ UNCHANGED tableVars

Store(p) ==
    /\ rpc[p] = "store"
    /\ slot' = [slot EXCEPT ![mine[p]].txnid = reg[p]]
    /\ rpc' = [rpc EXCEPT ![p] = "check"]
    /\ UNCHANGED <<reg, snap, since, numreaders, left, chk>> /\ UNCHANGED procVars
    /\ UNCHANGED metaVars /\ UNCHANGED writeVars

\* Once more while a commit was published in between.
Check(p) ==
    /\ rpc[p] = "check"
    /\ rpc' = [rpc EXCEPT ![p] = IF mti = slot[mine[p]].txnid THEN "copy" ELSE "load"]
    /\ UNCHANGED <<reg, snap, since, chk>> /\ UNCHANGED procVars
    /\ UNCHANGED metaVars /\ UNCHANGED writeVars /\ UNCHANGED tableVars

\* Mutant: the other meta page.
CopyOther(p) ==
    /\ rpc[p] = "copy"
    /\ snap' = [snap EXCEPT ![p] = root[(reg[p] + 1) % 2]]
    /\ rpc' = [rpc EXCEPT ![p] = "reading"]
    /\ UNCHANGED <<reg, since, chk>> /\ UNCHANGED procVars
    /\ UNCHANGED metaVars /\ UNCHANGED writeVars /\ UNCHANGED tableVars

\* The roots, from the meta page of that parity as it is by now.
Copy(p) ==
    /\ rpc[p] = "copy"
    /\ snap' = [snap EXCEPT ![p] = root[reg[p] % 2]]
    /\ rpc' = [rpc EXCEPT ![p] = "reading"]
    /\ UNCHANGED <<reg, since, chk>> /\ UNCHANGED procVars
    /\ UNCHANGED metaVars /\ UNCHANGED writeVars /\ UNCHANGED tableVars

\* Mutant: the thread forgets its slot.
EndReadForgets(p) ==
    /\ rpc[p] \in {"copy", "reading"} /\ chk[p] = NoProc /\ (Writes(p) => wpc = "open")
    /\ slot' = [slot EXCEPT ![mine[p]].txnid = Unset]
    /\ mine' = [mine EXCEPT ![p] = 0]
    /\ ReadOver(p)
    /\ UNCHANGED <<numreaders, left, up, fatal, live, closers, chk>>
    /\ UNCHANGED metaVars /\ UNCHANGED writeVars

\* tx:rollback or tx:commit of a read transaction, or MDB_MAP_RESIZED after
\* the roots: the thread keeps the slot.
EndRead(p) ==
    /\ rpc[p] \in {"copy", "reading"} /\ chk[p] = NoProc /\ (Writes(p) => wpc = "open")
    /\ slot' = [slot EXCEPT ![mine[p]].txnid = Unset]
    /\ ReadOver(p)
    /\ UNCHANGED <<numreaders, left, chk>> /\ UNCHANGED procVars
    /\ UNCHANGED metaVars /\ UNCHANGED writeVars

-----------------------------------------------------------------------------
(* env:reader_check().                                                      *)

\* Without the mutex: the id of a slot, not its own, whose byte nobody locks.
CheckFindsDead(p) ==
    /\ Free(p)
    /\ \E i \in 1..numreaders :
           /\ slot[i].pid \notin live \cup {p, NoProc}
           /\ chk' = [chk EXCEPT ![p] = slot[i].pid]
    /\ UNCHANGED readVars /\ UNCHANGED procVars
    /\ UNCHANGED metaVars /\ UNCHANGED writeVars /\ UNCHANGED tableVars

\* Mutant: the id is not looked up again once the mutex is held.
CheckClearsUnseen(p) ==
    /\ chk[p] # NoProc
    /\ slot' = Cleared(SlotsOf(chk[p])) /\ left' = left \ SlotsOf(chk[p])
    /\ chk' = [chk EXCEPT ![p] = NoProc]
    /\ UNCHANGED numreaders /\ UNCHANGED readVars /\ UNCHANGED procVars
    /\ UNCHANGED metaVars /\ UNCHANGED writeVars

\* With it: the id may have been reused by now; if not, its slots are free.
CheckClears(p) ==
    /\ chk[p] # NoProc
    /\ LET stale == IF chk[p] \in live THEN {} ELSE SlotsOf(chk[p])
       IN  slot' = Cleared(stale) /\ left' = left \ stale
    /\ chk' = [chk EXCEPT ![p] = NoProc]
    /\ UNCHANGED numreaders /\ UNCHANGED readVars /\ UNCHANGED procVars
    /\ UNCHANGED metaVars /\ UNCHANGED writeVars

-----------------------------------------------------------------------------
(* The write transaction, where it meets the readers.                       *)

StartWrite(p, last) ==
    /\ last < MaxTxn
    /\ owner' = p /\ dead' = FALSE
    /\ wpc' = "open" /\ wid' = last + 1
    /\ mti' = last
    /\ UNCHANGED <<txnid, root, wscan, wold, pgoldest, reused, numreaders, chk>>
    /\ UNCHANGED readVars /\ UNCHANGED procVars

BeginWrite(p) ==
    /\ Free(p) /\ p \notin fatal /\ owner = NoProc
    /\ StartWrite(p, mti)
    /\ UNCHANGED <<slot, left>>

\* EOWNERDEAD: mdb_mutex_failed takes the number from the newest meta page
\* and frees the slots of every dead process but an earlier one with its id.
BeginWriteRepairs(p) ==
    /\ Free(p) /\ p \notin fatal /\ dead
    /\ LET stale == UNION {SlotsOf(q) : q \in Proc \ (live \cup {p})}
       IN  slot' = Cleared(stale) /\ left' = left \ stale
    /\ StartWrite(p, txnid[Newest])

\* mdb_find_oldest, called by mdb_page_alloc when the free pages it may take
\* by the number it knows run out: mti_numreaders once, then each slot.
FindOldest(p) ==
    /\ Writes(p) /\ Free(p)
    /\ wpc' = "scan" /\ wscan' = numreaders /\ wold' = wid - 1
    /\ UNCHANGED <<owner, dead, wid, pgoldest, reused, chk>>
    /\ UNCHANGED readVars /\ UNCHANGED procVars /\ UNCHANGED metaVars /\ UNCHANGED tableVars

ScanSlot(p) ==
    /\ Writes(p) /\ wpc = "scan" /\ wscan > 0
    /\ LET r == slot[wscan]
       IN  wold' = IF r.pid # NoProc /\ r.txnid # Unset /\ r.txnid < wold
                   THEN r.txnid ELSE wold
    /\ wscan' = wscan - 1
    /\ UNCHANGED <<owner, dead, wpc, wid, pgoldest, reused, chk>>
    /\ UNCHANGED readVars /\ UNCHANGED procVars /\ UNCHANGED metaVars /\ UNCHANGED tableVars

\* Mutant: the loop stops before the first slot.
ScanEndsEarly(p) ==
    /\ Writes(p) /\ wpc = "scan" /\ wscan <= 1
    /\ pgoldest' = [pgoldest EXCEPT ![p] = wold]
    /\ wpc' = "open" /\ wold' = 0 /\ wscan' = 0
    /\ UNCHANGED <<owner, dead, wid, reused, chk>>
    /\ UNCHANGED readVars /\ UNCHANGED procVars /\ UNCHANGED metaVars /\ UNCHANGED tableVars

ScanEnds(p) ==
    /\ Writes(p) /\ wpc = "scan" /\ wscan = 0
    /\ pgoldest' = [pgoldest EXCEPT ![p] = wold]
    /\ wpc' = "open" /\ wold' = 0
    /\ UNCHANGED <<owner, dead, wid, wscan, reused, chk>>
    /\ UNCHANGED readVars /\ UNCHANGED procVars /\ UNCHANGED metaVars /\ UNCHANGED tableVars

\* mdb_page_alloc takes the record of transaction k (the pages it freed, all
\* of snapshots before k) if k is below me_pgoldest, known from now or from
\* an earlier transaction, and the pages are written over, at the commit or
\* when the dirty list spills.
TakePages(p) ==
    /\ Writes(p) /\ Free(p)
    /\ \E k \in 1..MaxTxn : reused < k /\ k < pgoldest[p] /\ reused' = k
    /\ UNCHANGED <<owner, dead, wpc, wid, wscan, wold, pgoldest, chk>>
    /\ UNCHANGED readVars /\ UNCHANGED procVars /\ UNCHANGED metaVars /\ UNCHANGED tableVars

\* tx:commit: the meta page, then mti (the mutex is released with it here;
\* LmdbStore keeps the two apart).
WriteMeta(p) ==
    /\ Writes(p) /\ Free(p)
    /\ txnid' = [txnid EXCEPT ![wid % 2] = wid]
    /\ root' = [root EXCEPT ![wid % 2] = wid]
    /\ wpc' = "publish"
    /\ UNCHANGED <<mti, owner, dead, wid, wscan, wold, pgoldest, reused, chk>>
    /\ UNCHANGED readVars /\ UNCHANGED procVars /\ UNCHANGED tableVars

\* The write fails after the page cache has the new roots; the old number is
\* written back (LmdbStore has the failure of that too) and the environment
\* cannot be used any more.
WriteMetaFails(p) ==
    /\ Writes(p) /\ Free(p)
    /\ root' = [root EXCEPT ![wid % 2] = Dirty]
    /\ fatal' = fatal \cup {p}
    /\ owner' = NoProc /\ WriteOver
    /\ UNCHANGED <<txnid, mti, dead, pgoldest, reused, chk>>
    /\ UNCHANGED <<up, live, mine, closers>> /\ UNCHANGED readVars /\ UNCHANGED tableVars

Publish(p) ==
    /\ Writes(p) /\ wpc = "publish"
    /\ mti' = wid
    /\ owner' = NoProc /\ WriteOver
    /\ UNCHANGED <<txnid, root, dead, pgoldest, reused, chk>>
    /\ UNCHANGED readVars /\ UNCHANGED procVars /\ UNCHANGED tableVars

\* tx:rollback, and a commit with nothing to write. me_pgoldest stays.
AbortWrite(p) ==
    /\ Writes(p) /\ Free(p)
    /\ owner' = NoProc /\ WriteOver
    /\ UNCHANGED <<dead, pgoldest, reused, chk>>
    /\ UNCHANGED readVars /\ UNCHANGED procVars /\ UNCHANGED metaVars /\ UNCHANGED tableVars

-----------------------------------------------------------------------------
BeginRead(p) == LmdbEnv_BeginRead(p) \/ Claim(p) \/ ClaimFails(p)
                \/ Load(p) \/ Store(p) \/ Check(p) \/ Copy(p)
LmdbEnv_ReaderCheck(p) == CheckFindsDead(p) \/ CheckClears(p)
PageAlloc(p) == FindOldest(p) \/ ScanSlot(p) \/ ScanEnds(p) \/ TakePages(p)
EndWrite(p) == WriteMeta(p) \/ WriteMetaFails(p) \/ Publish(p) \/ AbortWrite(p)

Next == \E p \in Proc :
    \/ Open(p) \/ LmdbEnv_Close(p) \/ Crash(p)
    \/ BeginRead(p) \/ EndRead(p)
    \/ LmdbEnv_ReaderCheck(p)
    \/ BeginWrite(p) \/ BeginWriteRepairs(p) \/ PageAlloc(p) \/ EndWrite(p)

Spec == Init /\ [][Next]_vars

-----------------------------------------------------------------------------
(* Properties.                                                              *)

Reading(p) == rpc[p] = "reading"

\* No page of a snapshot somebody reads, or would start from now, is written
\* over: the writer never passes a reader, wherever it was in env:begin when
\* the writer looked, whatever the writer still knew from an earlier
\* transaction, and whoever cleared slots meanwhile. A snapshot of a failed
\* commit is nobody's (see FreshSnapshot).
SnapshotIntact ==
    /\ reused <= mti
    /\ \A p \in Proc : Reading(p) /\ snap[p] # Dirty => reused <= snap[p]

\* A read transaction sees every commit that returned before it began, though
\* commits may overtake it between its number and its roots; it meets the
\* roots of a commit that failed only when one overtook it there.
FreshSnapshot ==
    \A p \in Proc : Reading(p) =>
        \/ since[p] <= snap[p] /\ snap[p] <= txnid[Newest]
        \/ snap[p] = Dirty /\ reg[p] < txnid[Newest]

\* A read transaction is in the table under its process id and number, in a
\* slot no other worker uses, until it ends: neither reader_check nor the
\* repair of a mutex nor a closing worker takes the slot of a live one.
SlotOwned ==
    \A p \in Proc : mine[p] # 0 =>
        /\ p \in live /\ mine[p] <= numreaders
        /\ slot[mine[p]].pid = p
        /\ Reading(p) => slot[mine[p]].txnid = reg[p]
        /\ rpc[p] = "idle" => slot[mine[p]].txnid = Unset

\* Only killed workers leave slots behind: any other taken slot is the one
\* its worker uses for all its read transactions. MDB_READERS_FULL thus needs
\* as many live readers and killed workers as the table has slots.
SlotsAccounted ==
    \A i \in Slot : i <= numreaders /\ slot[i].pid # NoProc =>
        i \in left \/ (slot[i].pid \in up /\ mine[slot[i].pid] = i)
=============================================================================
