-------------------------- MODULE LmdbStore_proofs --------------------------
(* Theorems about LmdbStore, for any number of workers, keys and values.    *)
EXTENDS LmdbStore, TLAPS

LEMMA Parity == /\ \A n \in Nat : n % 2 \in 0..1
                /\ \A n \in Nat : (n + 1) % 2 = 1 - (n % 2)
                /\ 0 % 2 = 0
  OBVIOUS

(* The mutex is held exactly by the worker that writes, or by a dead one.   *)
LockInv ==
    /\ \A p \in Proc : owner = p /\ ~ dead => wpc[p] # "none"
    /\ dead => owner \in Proc

(* The current meta page is the one mti names; the other one is older, or   *)
(* (a commit is between its two writes, was cut there, or failed without    *)
(* being taken back) one newer. Both are 0 in a new file.                   *)
Other == 1 - (mti % 2)

MetaInv ==
    /\ txnid[mti % 2] = mti
    /\ \/ txnid[Other] < mti
       \/ txnid[Other] = mti /\ mti = 0
       \/ /\ txnid[Other] = mti + 1
          /\ dead \/ (\E p \in Proc : wpc[p] = "publish") \/ stray = mti + 1
    /\ stray # 0 => stray = mti + 1 /\ txnid[Other] = mti + 1

(* A running write transaction has the next number; one that has written    *)
(* its meta page finds it there.                                            *)
WriteInv ==
    \A p \in Proc :
        /\ wpc[p] \in {"open", "meta", "publish"} => wid[p] = mti + 1
        /\ wpc[p] = "publish" => /\ txnid[Other] = mti + 1 /\ root[Other] = wview[p]
                                 /\ stray = 0

(* A reader that has no roots yet has read mti, now or before.              *)
ReadInv ==
    \A p \in Proc : rnum[p] # NoTxn => p \in up /\ rnum[p] \in Nat /\ rnum[p] <= mti

StoreInv == TypeOK /\ WriterHoldsMutex /\ LockInv /\ MetaInv /\ WriteInv /\ ReadInv

LEMMA NewestPage ==
    ASSUME TypeOK, MetaInv
    PROVE  Newest = IF txnid[Other] = mti + 1 THEN Other ELSE mti % 2
  BY Parity DEF TypeOK, MetaInv, Other, Newest

(* Taking mti from the newest meta page leaves no page newer than it.       *)
Current == \/ txnid[Other] < mti
           \/ txnid[Other] = mti /\ mti = 0

LEMMA Repaired ==
    ASSUME TypeOK, MetaInv, mti' = txnid[Newest], txnid' = txnid
    PROVE  mti' \in Nat /\ mti <= mti' /\ txnid'[mti' % 2] = mti' /\ Current'
<1> USE Parity DEF TypeOK, MetaInv, Other, Current
<1>1. CASE txnid[Other] = mti + 1
  <2>1. mti' = mti + 1 /\ mti' % 2 = Other
    BY <1>1, NewestPage
  <2> QED
    BY <1>1, <2>1
<1>2. CASE txnid[Other] # mti + 1
  <2>1. mti' = mti
    BY <1>2, NewestPage
  <2> QED
    BY <1>2, <2>1
<1> QED
  BY <1>1, <1>2

LEMMA InitStoreInv == Init => StoreInv
<1> SUFFICES ASSUME Init PROVE StoreInv
  OBVIOUS
<1>1. Empty \in Map
  BY DEF Empty, Map
<1>2. mti = 0 /\ mti % 2 = 0 /\ Other = 1 /\ txnid[0] = 0 /\ txnid[1] = 0
  BY Parity DEF Init, Other
<1>3. TypeOK
  BY <1>1 DEF Init, TypeOK
<1>4. MetaInv
  BY <1>2 DEF Init, MetaInv
<1>5. WriterHoldsMutex /\ LockInv /\ WriteInv /\ ReadInv
  BY StoreAssumption DEF Init, WriterHoldsMutex, LockInv, WriteInv, ReadInv
<1> QED
  BY <1>3, <1>4, <1>5 DEF StoreInv

LEMMA NextStoreInv == StoreInv /\ [Next]_vars => StoreInv'
<1> SUFFICES ASSUME StoreInv, [Next]_vars PROVE StoreInv'
  OBVIOUS
<1> USE StoreAssumption, Parity, NewestPage
    DEF StoreInv, TypeOK, WriterHoldsMutex, LockInv, MetaInv, WriteInv, ReadInv, Other,
        InLua, CanBegin, metaVars, lockVars, writeVars, readVars
<1>a. Empty \in Map
  BY DEF Empty, Map
<1>1. ASSUME NEW p \in Proc, Open(p) PROVE StoreInv'
  <2>1. CASE up = {}
    <3>1. \A q \in Proc : wpc[q] = "none" /\ wpc'[q] = "none"
      BY <1>1, <2>1 DEF Open
    <3>2. mti' \in Nat /\ mti <= mti' /\ txnid'[mti' % 2] = mti' /\ Current'
      BY <1>1, <2>1, Repaired DEF Open
    <3>3. TypeOK'
      <4>1. /\ up' = up \cup {p} /\ owner' = NoProc /\ dead' = FALSE /\ stray' = 0
            /\ UNCHANGED <<txnid, root, fatal, wpc, wid, wview, wflag, rnum, rview>>
        BY <1>1, <2>1 DEF Open
      <4> QED
        BY <3>2, <4>1
    <3>4. MetaInv'
      BY <1>1, <2>1, <3>2 DEF Open, Current
    <3>5. WriterHoldsMutex' /\ LockInv' /\ WriteInv' /\ ReadInv'
      BY <1>1, <2>1, <3>1 DEF Open
    <3> QED
      BY <3>3, <3>4, <3>5
  <2>2. CASE up # {}
    BY <1>1, <2>2 DEF Open
  <2> QED
    BY <2>1, <2>2
<1>2. ASSUME NEW p \in Proc, Crash(p) PROVE StoreInv'
  <2>1. TypeOK'
    BY <1>2, <1>a DEF Crash, WriteOver
  <2>2. MetaInv'
    BY <1>2 DEF Crash, WriteOver
  <2>3. WriterHoldsMutex' /\ LockInv' /\ WriteInv' /\ ReadInv'
    BY <1>2 DEF Crash, WriteOver
  <2> QED
    BY <2>1, <2>2, <2>3
<1>3. ASSUME NEW p \in Proc, BeginRead(p) PROVE StoreInv'
  BY <1>3 DEF BeginRead
<1>4. ASSUME NEW p \in Proc, EndRead(p) PROVE StoreInv'
  BY <1>4 DEF EndRead
<1>16. ASSUME NEW p \in Proc, CopyRoots(p) PROVE StoreInv'
  BY <1>16 DEF CopyRoots
<1>5. ASSUME NEW p \in Proc, BeginWrite(p) PROVE StoreInv'
  <2>1. \A q \in Proc : wpc[q] = "none"
    BY <1>5 DEF BeginWrite
  <2>2. ~ dead /\ mti' = mti
    BY <1>5 DEF BeginWrite, WriteTxn
  <2>3. root[mti % 2] \in Map
    OBVIOUS
  <2>4. TypeOK'
    <3>1. wview' \in [Proc -> Map]
      BY <1>5, <2>2, <2>3 DEF BeginWrite, WriteTxn
    <3>2. wid' \in [Proc -> Nat] /\ mti' \in Nat
      BY <1>5, <2>2 DEF BeginWrite, WriteTxn
    <3>3. wpc' \in [Proc -> {"none", "open", "meta", "publish", "unlock"}]
      BY <1>5 DEF BeginWrite, WriteTxn
    <3>4. wflag' \in [Proc -> {"clean", "dirty", "error"}]
      BY <1>5 DEF BeginWrite, WriteTxn
    <3> QED
      BY <1>5, <3>1, <3>2, <3>3, <3>4 DEF BeginWrite, WriteTxn
  <2>5. MetaInv'
    BY <1>5, <2>1, <2>2 DEF BeginWrite, WriteTxn
  <2>6. WriterHoldsMutex' /\ LockInv' /\ WriteInv' /\ ReadInv'
    BY <1>5, <2>1, <2>2 DEF BeginWrite, WriteTxn
  <2> QED
    BY <2>4, <2>5, <2>6
<1>6. ASSUME NEW p \in Proc, BeginWriteRepairs(p) PROVE StoreInv'
  <2>1. \A q \in Proc : wpc[q] = "none"
    BY <1>6 DEF BeginWriteRepairs
  <2>2. mti' \in Nat /\ mti <= mti' /\ txnid'[mti' % 2] = mti' /\ Current'
    BY <1>6, Repaired DEF BeginWriteRepairs, WriteTxn
  <2>3. root[mti' % 2] \in Map
    BY <2>2
  <2>4. TypeOK'
    <3>1. wview' \in [Proc -> Map]
      BY <1>6, <2>2, <2>3 DEF BeginWriteRepairs, WriteTxn
    <3>2. wid' \in [Proc -> Nat] /\ mti' \in Nat
      BY <1>6, <2>2 DEF BeginWriteRepairs, WriteTxn
    <3>3. wpc' \in [Proc -> {"none", "open", "meta", "publish", "unlock"}]
      BY <1>6 DEF BeginWriteRepairs, WriteTxn
    <3>4. wflag' \in [Proc -> {"clean", "dirty", "error"}]
      BY <1>6 DEF BeginWriteRepairs, WriteTxn
    <3> QED
      BY <1>6, <3>1, <3>2, <3>3, <3>4 DEF BeginWriteRepairs, WriteTxn
  <2>5. MetaInv'
    BY <1>6, <2>1, <2>2 DEF BeginWriteRepairs, WriteTxn, Current
  <2>6. WriterHoldsMutex' /\ LockInv' /\ WriteInv' /\ ReadInv'
    BY <1>6, <2>1, <2>2 DEF BeginWriteRepairs, WriteTxn
  <2> QED
    BY <2>4, <2>5, <2>6
<1>7. ASSUME NEW p \in Proc, NEW k \in Key, NEW v \in Val \cup {NoVal}, Update(p, k, v)
      PROVE  StoreInv'
  BY <1>7 DEF Update, Map
<1>8. ASSUME NEW p \in Proc, PutMapFull(p) PROVE StoreInv'
  BY <1>8 DEF PutMapFull
<1>9. ASSUME NEW p \in Proc, Abort(p) PROVE StoreInv'
  BY <1>9, <1>a DEF Abort, Release, WriteOver
<1>10. ASSUME NEW p \in Proc, LmdbTx_Commit(p) PROVE StoreInv'
  BY <1>10 DEF LmdbTx_Commit
<1>11. ASSUME NEW p \in Proc, WriteMeta(p) PROVE StoreInv'
  BY <1>11 DEF WriteMeta, NewRoots, NewNumber
<1>12. ASSUME NEW p \in Proc, WriteMetaFails(p) PROVE StoreInv'
  <2>1. wid[p] = mti + 1 /\ wid[p] % 2 = Other /\ ~ dead
        /\ \A q \in Proc : wpc[q] # "none" => q = p
    BY <1>12 DEF WriteMetaFails
  <2>2. TypeOK'
    BY <1>12, <1>a DEF WriteMetaFails, NewRoots, NewNumber, Release, WriteOver
  <2>3. MetaInv'
    BY <1>12, <2>1 DEF WriteMetaFails, NewRoots, NewNumber, Release, WriteOver
  <2>4. WriterHoldsMutex' /\ LockInv' /\ WriteInv' /\ ReadInv'
    BY <1>12, <2>1 DEF WriteMetaFails, Release, WriteOver
  <2> QED
    BY <2>2, <2>3, <2>4
<1>13. ASSUME NEW p \in Proc, Publish(p) PROVE StoreInv'
  BY <1>13 DEF Publish
<1>14. ASSUME NEW p \in Proc, Unlock(p) PROVE StoreInv'
  BY <1>14, <1>a DEF Unlock, Release, WriteOver
<1>15. CASE UNCHANGED vars
  BY <1>15 DEF vars
<1> QED
  BY <1>1, <1>2, <1>3, <1>4, <1>5, <1>6, <1>7, <1>8, <1>9, <1>10, <1>11,
     <1>12, <1>13, <1>14, <1>15, <1>16
     DEF Next, Begin, Finish, Change, LmdbTx_Put, LmdbTx_Delete

THEOREM StoreInvariant == Spec => []StoreInv
<1>1. Init => StoreInv
  BY InitStoreInv
<1>2. StoreInv /\ [Next]_vars => StoreInv'
  BY NextStoreInv
<1> QED
  BY <1>1, <1>2, PTL DEF Spec

(* Every variable keeps its type.                                           *)
THEOREM TypeCorrect == Spec => []TypeOK
<1>1. StoreInv => TypeOK
  BY DEF StoreInv
<1> QED
  BY <1>1, StoreInvariant, PTL

(* Two workers never write at once, also after one died with the mutex      *)
(* (mdb_txn_renew0, mdb_mutex_failed).                                      *)
THEOREM WritersExcluded == Spec => []WriterHoldsMutex
<1>1. StoreInv => WriterHoldsMutex
  BY DEF StoreInv
<1> QED
  BY <1>1, StoreInvariant, PTL

(* A writer numbers its transaction after the newest meta page, or again as *)
(* a failed commit did, and never replaces the page of the last commit      *)
(* (mdb_txn_renew0, mdb_env_write_meta).                                    *)
THEOREM NewestMetaSafe == Spec => []NewestMetaKept
<1>1. StoreInv => NewestMetaKept
  <2> SUFFICES ASSUME StoreInv, NEW p \in Proc, wpc[p] \in {"open", "meta"}
               PROVE  /\ wid[p] = (IF stray = 0 THEN txnid[Newest] + 1 ELSE stray)
                      /\ wid[p] % 2 # mti % 2
    BY DEF NewestMetaKept
  <2>1. wid[p] = mti + 1 /\ txnid[mti % 2] = mti /\ mti \in Nat
    BY DEF StoreInv, TypeOK, WriteInv, MetaInv
  <2>2. ~ dead /\ \A q \in Proc : wpc[q] # "none" => q = p
    BY DEF StoreInv, WriterHoldsMutex
  <2>3. stray # 0 => stray = mti + 1
    BY DEF StoreInv, MetaInv
  <2>4. stray = 0 => txnid[Other] # mti + 1
    BY <2>1, <2>2 DEF StoreInv, TypeOK, MetaInv
  <2>5. stray = 0 => Newest = mti % 2
    BY <2>4, NewestPage DEF StoreInv
  <2> QED
    BY <2>1, <2>3, <2>5, Parity
<1> QED
  BY <1>1, StoreInvariant, PTL

(* mti_txnid always names a meta page, and lags the newest one only inside  *)
(* a commit, after a worker died in one, or by the page of a failed one.    *)
THEOREM MtiTrusted == Spec => []MtiNamesMeta
<1>1. StoreInv => MtiNamesMeta
  BY NewestPage DEF StoreInv, TypeOK, MetaInv, MtiNamesMeta
<1> QED
  BY <1>1, StoreInvariant, PTL

-----------------------------------------------------------------------------
(* The refinement.                                                          *)

(* What the refinement mapping is while a worker p is between begin and the *)
(* publishing of its commit, and while no worker is.                        *)
LEMMA MappedWriter ==
    ASSUME StoreInv, NEW p \in Proc, Deciding(p)
    PROVE  Writer = p /\ WriterView = wview[p]
  BY DEF StoreInv, TypeOK, WriterHoldsMutex, Deciding, Writing, Writer, WriterView

LEMMA MappedIdle ==
    ASSUME StoreInv, \A p \in Proc : ~ Deciding(p)
    PROVE  Writer = NoTxn /\ WriterView = Empty
  BY DEF Writing, Writer, WriterView

LEMMA MappedReads ==
    ASSUME UNCHANGED <<rnum, rview, root, mti>>
    PROVE  UNCHANGED <<Committed, Reader, Begun, Overtaken>>
  BY DEF Committed, Reader, Begun, Overtaken

LEMMA MappedDoubt ==
    ASSUME UNCHANGED <<txnid, root, mti>>,
           \A p \in Proc : wpc'[p] = "publish" <=> wpc[p] = "publish"
    PROVE  UNCHANGED InDoubt
  BY DEF InDoubt, Newest

(* New roots on the older page are seen by the readers that go there, all   *)
(* of them overtaken.                                                       *)
LEMMA MappedRoots ==
    ASSUME StoreInv, NEW p \in Proc, wpc[p] = "meta", NewRoots(p),
           UNCHANGED <<mti, rnum, rview>>
    PROVE  /\ \E S \in SUBSET Proc : Store!Shown(S)
           /\ Committed' = Committed
           /\ root'[Other] = wview[p]
<1> DEFINE S == {q \in Begun : rnum[q] % 2 = wid[p] % 2}
<1>1. /\ wid[p] = mti + 1 /\ mti \in Nat /\ mti % 2 \in 0..1 /\ wid[p] % 2 = Other
      /\ Other # mti % 2 /\ Other \in 0..1 /\ root' = [root EXCEPT ![Other] = wview[p]]
  <2>1. wid[p] = mti + 1 /\ mti \in Nat
    BY DEF StoreInv, TypeOK, WriteInv
  <2>2. mti % 2 \in 0..1 /\ wid[p] % 2 = Other
    BY <2>1, Parity DEF Other
  <2>3. Other # mti % 2 /\ Other \in 0..1
    BY <2>2 DEF Other
  <2>4. root' = [root EXCEPT ![Other] = wview[p]]
    BY <2>2 DEF NewRoots
  <2> QED
    BY <2>1, <2>2, <2>3, <2>4
<1>2. WriterView = wview[p]
  BY MappedWriter DEF Deciding
<1>3. Committed' = Committed /\ root'[Other] = wview[p]
  BY <1>1 DEF Committed, StoreInv, TypeOK
<1>4. S \subseteq Overtaken
  BY <1>1 DEF Overtaken
<1>5. ASSUME NEW q \in Proc
      PROVE  Reader'[q] = IF q \in S THEN WriterView ELSE Reader[q]
  <2>1. CASE rnum[q] = NoTxn
    BY <2>1 DEF Reader, Begun
  <2>2. CASE rnum[q] # NoTxn
    <3>1. rnum[q] % 2 \in 0..1
      BY <2>2, Parity DEF StoreInv, ReadInv
    <3> QED
      BY <1>1, <1>2, <2>2, <3>1 DEF Reader, Begun, StoreInv, TypeOK
  <2> QED
    BY <2>1, <2>2
<1>6. Reader' = [q \in Proc |-> IF q \in S THEN WriterView ELSE Reader[q]]
  BY <1>5 DEF Reader
<1>7. UNCHANGED <<Begun, Overtaken>>
  BY DEF Begun, Overtaken
<1>8. S \in SUBSET Proc
  BY DEF Begun
<1> HIDE DEF S
<1> QED
  BY <1>3, <1>4, <1>6, <1>7, <1>8 DEF Store!Shown

LEMMA InitRefines == Init => Store!Init
<1> SUFFICES ASSUME Init PROVE Store!Init
  OBVIOUS
<1>1. Committed = Empty
  BY Parity DEF Init, Committed
<1>2. ~ Writing
  BY StoreAssumption DEF Init, Writing
<1>3. InDoubt = NoTxn
  BY DEF Init, InDoubt, Newest
<1>4. Begun = {} /\ Overtaken = {}
  BY DEF Init, Begun, Overtaken
<1>5. Reader = [p \in Proc |-> NoTxn]
  BY DEF Init, Reader
<1> QED
  BY <1>1, <1>2, <1>3, <1>4, <1>5
     DEF Store!Init, Writer, WriterView, Empty, Store!Empty

LEMMA NextRefines == StoreInv /\ StoreInv' /\ [Next]_vars => [Store!Next]_(Store!vars)
<1> SUFFICES ASSUME StoreInv, StoreInv', [Next]_vars
             PROVE  Store!Next \/ UNCHANGED Store!vars
  OBVIOUS
<1> DEFINE SameReads == UNCHANGED <<Reader, Begun, Overtaken>>
           Same == SameReads /\ UNCHANGED <<Committed, Writer, WriterView, InDoubt>>
<1>a. Same => UNCHANGED Store!vars
  BY DEF Store!vars
<1>b. /\ \A p \in Proc : p # NoTxn /\ p # NoProc
      /\ NoProc \notin Proc /\ NoTxn \notin Map /\ NoTxn \notin Nat
  BY StoreAssumption DEF Map
<1>d. /\ mti \in Nat /\ mti % 2 \in 0..1 /\ txnid[mti % 2] = mti /\ mti' \in Nat
      /\ Other \in 0..1 /\ Other # mti % 2 /\ (mti + 1) % 2 = Other
  BY Parity DEF StoreInv, TypeOK, MetaInv, Other
<1>e. /\ Newest \in 0..1
      /\ txnid[Newest] = mti => Newest = mti % 2
      /\ txnid[Newest] # mti => Newest = Other /\ txnid[Newest] = mti + 1
  BY <1>d, NewestPage DEF StoreInv
<1>f. root[Newest] # NoTxn
  BY <1>b, <1>e DEF StoreInv, TypeOK
<1>1. ASSUME NEW p \in Proc, Open(p) PROVE Store!Settle \/ Same
  <2>1. CASE up = {}
    <3>1. \A q \in Proc : wpc[q] = "none" /\ wpc'[q] = "none" /\ rnum[q] = NoTxn
      BY <1>1, <2>1 DEF StoreInv, WriterHoldsMutex, ReadInv, Open, writeVars
    <3>2. Writer = NoTxn /\ UNCHANGED <<Writer, WriterView>>
      BY <3>1 DEF Writing, Deciding, Writer, WriterView
    <3>3. Begun = {} /\ UNCHANGED <<Reader, Begun>> /\ Overtaken = {} /\ Overtaken' = {}
      BY <1>1, <3>1 DEF Open, readVars, Reader, Begun, Overtaken
    <3>4. mti' = txnid[Newest] /\ UNCHANGED <<txnid, root>> /\ Newest' = Newest
      BY <1>1, <2>1 DEF Open, Newest
    <3>5. InDoubt' = NoTxn
      BY <3>4 DEF InDoubt
    <3>6. CASE txnid[Newest] = mti
      BY <3>2, <3>3, <3>4, <3>5, <3>6 DEF InDoubt, Committed
    <3>7. CASE txnid[Newest] # mti
      <4>1. InDoubt = root[Newest]
        BY <3>1, <3>7 DEF InDoubt
      <4>2. Committed' = root[Newest]
        BY <1>d, <1>e, <3>4, <3>7 DEF Committed
      <4> QED
        BY <1>f, <3>2, <3>3, <3>5, <4>1, <4>2 DEF Store!Settle, Store!Resolve
    <3> QED
      BY <3>6, <3>7
  <2>2. CASE up # {}
    <3>1. UNCHANGED <<metaVars, lockVars, writeVars, readVars>>
      BY <1>1, <2>2 DEF Open, metaVars, lockVars
    <3> QED
      BY <3>1, MappedReads, MappedDoubt DEF metaVars, lockVars, writeVars, readVars,
         Writer, WriterView, Writing, Deciding
  <2> QED
    BY <2>1, <2>2
<1>2. ASSUME NEW p \in Proc, Crash(p) PROVE Store!Crash(p)
  <2>1. Committed' = Committed /\ UNCHANGED <<txnid, root, mti>>
    BY <1>2 DEF Crash, metaVars, Committed
  <2>2. /\ Reader' = [Reader EXCEPT ![p] = NoTxn]
        /\ Begun' = Begun \ {p} /\ Overtaken' = Overtaken \ {p}
    BY <1>2, <2>1 DEF Crash, Reader, Begun, Overtaken, StoreInv, TypeOK
  <2>3. CASE Deciding(p)
    <3>1. /\ owner = p /\ ~ dead /\ Writer = p /\ WriterView = wview[p]
          /\ \A q \in Proc : wpc[q] # "none" => q = p
      BY <2>3, MappedWriter DEF StoreInv, WriterHoldsMutex, Deciding
    <3>2. \A q \in Proc : wpc'[q] = "none"
      BY <1>2, <3>1 DEF Crash, WriteOver, StoreInv, TypeOK
    <3>3. Writer' = NoTxn /\ WriterView' = Empty
      BY <3>2 DEF Writing, Deciding, Writer, WriterView
    <3>4. InDoubt' \in {InDoubt, WriterView}
      <4>1. CASE wpc[p] = "publish"
        <5>1. Newest = Other /\ root[Other] = wview[p] /\ txnid[Newest] # mti
          BY <4>1, <1>d, NewestPage DEF StoreInv, WriteInv
        <5>2. InDoubt' = wview[p]
          BY <2>1, <3>2, <5>1 DEF InDoubt, Newest
        <5> QED
          BY <3>1, <5>2
      <4>2. CASE wpc[p] # "publish"
        BY <4>2, <2>1, <3>1, <3>2, MappedDoubt
      <4> QED
        BY <4>1, <4>2
    <3> QED
      BY <2>1, <2>2, <3>1, <3>3, <3>4 DEF Store!Crash, Store!EndWrite, Store!Empty, Empty
  <2>4. CASE ~ Deciding(p)
    <3>1. Writer # p /\ UNCHANGED <<Writer, WriterView>>
      BY <1>2, <2>4, <1>b DEF Crash, WriteOver, StoreInv, TypeOK, Writing, Deciding,
                              Writer, WriterView
    <3>2. InDoubt' = InDoubt
      <4>1. \A q \in Proc : wpc'[q] = "publish" <=> wpc[q] = "publish"
        BY <1>2, <2>4 DEF Crash, WriteOver, Deciding, StoreInv, TypeOK
      <4> QED
        BY <2>1, <4>1, MappedDoubt
    <3> QED
      BY <2>1, <2>2, <3>1, <3>2 DEF Store!Crash
  <2> QED
    BY <2>3, <2>4
<1>3. ASSUME NEW p \in Proc, BeginRead(p) PROVE Store!BeginRead(p)
  <2>1. UNCHANGED <<metaVars, lockVars, writeVars>> /\ rnum[p] = NoTxn /\ rview[p] = NoTxn
    BY <1>3 DEF BeginRead, InLua
  <2>2. UNCHANGED <<Committed, Writer, WriterView, InDoubt>>
    BY <2>1, MappedDoubt DEF metaVars, lockVars, writeVars, Committed, Writer,
       WriterView, Writing, Deciding
  <2>3. rnum' = [rnum EXCEPT ![p] = mti] /\ UNCHANGED <<rview, root, mti>> /\ mti # NoTxn
    BY <1>3, <1>b, <1>d DEF BeginRead, metaVars
  <2>4. Reader[p] = NoTxn /\ Reader' = [Reader EXCEPT ![p] = Committed]
    BY <2>1, <2>3 DEF Reader, Committed, StoreInv, TypeOK
  <2>5. Begun' = Begun \cup {p} /\ Overtaken' = Overtaken
    BY <2>1, <2>3 DEF Begun, Overtaken, StoreInv, TypeOK
  <2> QED
    BY <2>2, <2>4, <2>5 DEF Store!BeginRead
<1>16. ASSUME NEW p \in Proc, CopyRoots(p) PROVE Store!Return(p)
  <2>1. UNCHANGED <<metaVars, lockVars, writeVars>>
    BY <1>16 DEF CopyRoots
  <2>2. UNCHANGED <<Committed, Writer, WriterView, InDoubt>>
    BY <2>1, MappedDoubt DEF metaVars, lockVars, writeVars, Committed, Writer,
       WriterView, Writing, Deciding
  <2>3. /\ rnum[p] # NoTxn /\ rnum' = [rnum EXCEPT ![p] = NoTxn]
        /\ rview' = [rview EXCEPT ![p] = root[rnum[p] % 2]] /\ UNCHANGED <<root, mti>>
    BY <1>16 DEF CopyRoots, metaVars
  <2>4. Reader' = Reader
    BY <2>3 DEF Reader, StoreInv, TypeOK
  <2>5. p \in Begun /\ Begun' = Begun \ {p} /\ Overtaken' = Overtaken \ {p}
    BY <2>3 DEF Begun, Overtaken, StoreInv, TypeOK
  <2> QED
    BY <2>2, <2>4, <2>5 DEF Store!Return
<1>4. ASSUME NEW p \in Proc, EndRead(p) PROVE Store!EndRead(p)
  <2>1. UNCHANGED <<metaVars, lockVars, writeVars>> /\ rnum[p] = NoTxn /\ rview[p] # NoTxn
    BY <1>4 DEF EndRead, InLua
  <2>2. UNCHANGED <<Committed, Writer, WriterView, InDoubt>>
    BY <2>1, MappedDoubt DEF metaVars, lockVars, writeVars, Committed, Writer,
       WriterView, Writing, Deciding
  <2>3. rview' = [rview EXCEPT ![p] = NoTxn] /\ UNCHANGED <<rnum, root, mti>>
    BY <1>4 DEF EndRead, metaVars
  <2>4. Reader[p] # NoTxn /\ Reader' = [Reader EXCEPT ![p] = NoTxn] /\ p \notin Begun
    BY <2>1, <2>3 DEF Reader, Begun, StoreInv, TypeOK
  <2>5. UNCHANGED <<Begun, Overtaken>>
    BY <2>3 DEF Begun, Overtaken
  <2> QED
    BY <2>2, <2>4, <2>5 DEF Store!EndRead
<1>5. ASSUME NEW p \in Proc, BeginWrite(p) PROVE Store!BeginWrite(p)
  <2>1. \A q \in Proc : wpc[q] = "none"
    BY <1>5, <1>b DEF BeginWrite, StoreInv, WriterHoldsMutex, TypeOK
  <2>2. Writer = NoTxn
    BY <2>1, MappedIdle DEF Deciding
  <2>3. UNCHANGED <<txnid, root, mti, rnum, rview>>
    BY <1>5 DEF BeginWrite, WriteTxn, readVars
  <2>4. /\ wpc'[p] = "open" /\ owner' = p /\ wview'[p] = Committed
        /\ \A q \in Proc : wpc'[q] # "publish"
    BY <1>5, <2>1 DEF BeginWrite, WriteTxn, Committed, StoreInv, TypeOK
  <2>5. Writer' = p /\ WriterView' = Committed
    BY <2>4 DEF Writing, Deciding, Writer, WriterView
  <2>6. SameReads /\ UNCHANGED <<Committed, InDoubt>>
    BY <2>1, <2>3, <2>4, MappedReads, MappedDoubt
  <2> QED
    BY <2>2, <2>5, <2>6 DEF Store!BeginWrite, Store!readVars
<1>6. ASSUME NEW p \in Proc, BeginWriteRepairs(p) PROVE Store!BeginWrite(p)
  <2>1. \A q \in Proc : wpc[q] = "none"
    BY <1>6 DEF BeginWriteRepairs, StoreInv, WriterHoldsMutex, TypeOK
  <2>2. Writer = NoTxn
    BY <2>1, MappedIdle DEF Deciding
  <2>3. /\ UNCHANGED <<txnid, root, rnum, rview>> /\ mti' = txnid[Newest]
        /\ Newest' = Newest
    BY <1>6 DEF BeginWriteRepairs, WriteTxn, readVars, Newest
  <2>4. txnid[Newest] % 2 = Newest
    BY <1>d, <1>e
  <2>5. /\ wpc'[p] = "open" /\ owner' = p /\ wview'[p] = root[Newest]
        /\ \A q \in Proc : wpc'[q] # "publish"
    BY <1>6, <2>1, <2>4 DEF BeginWriteRepairs, WriteTxn, StoreInv, TypeOK
  <2>6. Writer' = p /\ WriterView' = root[Newest]
    BY <2>5 DEF Writing, Deciding, Writer, WriterView
  <2>7. Committed' = root[Newest] /\ InDoubt' = NoTxn
    BY <2>3, <2>4 DEF Committed, InDoubt
  <2>8. CASE txnid[Newest] = mti
    <3>1. SameReads /\ UNCHANGED <<Committed, InDoubt>>
      BY <2>1, <2>3, <2>5, <2>8, MappedReads, MappedDoubt
    <3> QED
      BY <2>2, <2>6, <2>7, <3>1 DEF Store!BeginWrite, Store!readVars
  <2>9. CASE txnid[Newest] # mti
    <3>1. InDoubt = root[Newest]
      BY <2>1, <2>9 DEF InDoubt
    <3>2. UNCHANGED <<Reader, Begun>>
      BY <2>3 DEF Reader, Begun
    <3>3. Overtaken' = Begun
      BY <1>d, <1>e, <2>3, <2>9 DEF Begun, Overtaken, StoreInv, ReadInv
    <3> QED
      BY <1>f, <2>2, <2>6, <2>7, <3>1, <3>2, <3>3 DEF Store!BeginWrite, Store!Resolve
  <2> QED
    BY <2>8, <2>9
<1>7. ASSUME NEW p \in Proc, NEW k \in Key, NEW v \in Val \cup {NoVal}, Update(p, k, v)
      PROVE  Store!Write(p, k, v)
  <2>1. Deciding(p) /\ Deciding(p)'
    BY <1>7 DEF Update, Deciding
  <2>2. Writer = p /\ WriterView = wview[p]
    BY <2>1, MappedWriter
  <2>3. SameReads /\ UNCHANGED <<Committed, InDoubt>>
    BY <1>7, MappedReads, MappedDoubt DEF Update, metaVars, readVars
  <2>4. Writer' = p /\ WriterView' = wview'[p]
    BY <1>7, <2>1, <2>2, <1>b DEF Update, lockVars, Writing, Writer, WriterView
  <2>5. wview'[p] = [wview[p] EXCEPT ![k] = v]
    BY <1>7 DEF Update, StoreInv, TypeOK
  <2> QED
    BY <2>2, <2>3, <2>4, <2>5 DEF Store!Write, Store!readVars
<1>8. ASSUME NEW p \in Proc, PutMapFull(p) PROVE Same
  BY <1>8, MappedReads, MappedDoubt DEF PutMapFull, metaVars, lockVars, readVars,
     Writer, WriterView, Writing, Deciding
<1>17. ASSUME NEW p \in Proc, Deciding(p), Release(p)
       PROVE  Store!EndWrite(p) /\ \A q \in Proc : wpc'[q] = "none"
  <2>1. Writer = p /\ \A q \in Proc : wpc[q] # "none" => q = p
    BY <1>17, MappedWriter DEF StoreInv, WriterHoldsMutex, Deciding
  <2>2. \A q \in Proc : wpc'[q] = "none"
    BY <1>17, <2>1 DEF Release, WriteOver, StoreInv, TypeOK
  <2>3. Writer' = NoTxn /\ WriterView' = Empty
    BY <2>2 DEF Writing, Deciding, Writer, WriterView
  <2> QED
    BY <2>1, <2>2, <2>3 DEF Store!EndWrite, Store!Empty, Empty
<1>9. ASSUME NEW p \in Proc, Abort(p) PROVE Store!Rollback(p)
  <2>1. Store!EndWrite(p) /\ \A q \in Proc : wpc'[q] = "none"
    BY <1>9, <1>17 DEF Abort, Deciding
  <2>2. \A q \in Proc : wpc[q] # "publish"
    BY <1>9 DEF Abort, StoreInv, WriterHoldsMutex
  <2>3. SameReads /\ UNCHANGED <<Committed, InDoubt>>
    BY <1>9, <2>1, <2>2, MappedReads, MappedDoubt DEF Abort, Release, metaVars, readVars
  <2> QED
    BY <2>1, <2>3 DEF Store!Rollback, Store!readVars
<1>10. ASSUME NEW p \in Proc, LmdbTx_Commit(p) PROVE Store!Rollback(p) \/ Same
  <2>1. Writer = p /\ owner = p
    BY <1>10, MappedWriter DEF LmdbTx_Commit, Deciding, StoreInv, WriterHoldsMutex
  <2>2. \A q \in Proc : wpc'[q] = "publish" <=> wpc[q] = "publish"
    BY <1>10 DEF LmdbTx_Commit, StoreInv, TypeOK
  <2>3. SameReads /\ UNCHANGED <<Committed, InDoubt>>
    BY <1>10, <2>2, MappedReads, MappedDoubt DEF LmdbTx_Commit, metaVars, readVars
  <2>4. CASE wflag[p] = "clean"
    <3>1. Writer' = NoTxn /\ WriterView' = Empty
      BY <1>10, <2>1, <2>4 DEF LmdbTx_Commit, lockVars, Writing, Deciding, Writer,
                               WriterView, StoreInv, TypeOK
    <3> QED
      BY <2>1, <2>3, <3>1
         DEF Store!Rollback, Store!EndWrite, Store!readVars, Store!Empty, Empty
  <2>5. CASE wflag[p] # "clean"
    <3>1. UNCHANGED <<Writer, WriterView>>
      BY <1>10, <2>1, <2>5 DEF LmdbTx_Commit, lockVars, Writing, Deciding, Writer,
                               WriterView, StoreInv, TypeOK
    <3> QED
      BY <2>3, <3>1
  <2> QED
    BY <2>4, <2>5
<1>11. ASSUME NEW p \in Proc, WriteMeta(p) PROVE Store!Offer(p)
  <2>1. owner = p /\ Writer = p /\ WriterView = wview[p]
    BY <1>11, MappedWriter DEF WriteMeta, Deciding, StoreInv, WriterHoldsMutex
  <2>2. (\E S \in SUBSET Proc : Store!Shown(S)) /\ Committed' = Committed
    BY <1>11, MappedRoots DEF WriteMeta, readVars
  <2>3. wpc'[p] = "publish"
    BY <1>11 DEF WriteMeta, StoreInv, TypeOK
  <2>4. UNCHANGED <<Writer, WriterView>>
    BY <1>11, <2>1, <2>3, <1>b DEF WriteMeta, lockVars, Writing, Deciding, Writer, WriterView
  <2>5. InDoubt' = NoTxn
    BY <2>3 DEF InDoubt
  <2> QED
    BY <2>1, <2>2, <2>4, <2>5 DEF Store!Offer
<1>12. ASSUME NEW p \in Proc, WriteMetaFails(p) PROVE Store!Fail(p)
  <2>1. Store!EndWrite(p) /\ \A q \in Proc : wpc'[q] = "none"
    BY <1>12, <1>17 DEF WriteMetaFails, Deciding
  <2>2. /\ WriterView = wview[p] /\ wid[p] = mti + 1
        /\ \A q \in Proc : wpc[q] # "publish"
    BY <1>12, MappedWriter DEF WriteMetaFails, Deciding, StoreInv, WriterHoldsMutex,
                               WriteInv
  <2>3. UNCHANGED <<mti, rnum, rview>>
    BY <1>12 DEF WriteMetaFails, Release, readVars
  <2>4. CASE UNCHANGED <<txnid, root>>
    <3>1. SameReads /\ UNCHANGED <<Committed, InDoubt>>
      BY <2>1, <2>2, <2>3, <2>4, MappedReads, MappedDoubt
    <3>2. Store!Shown({})
      BY <3>1 DEF Store!Shown, Reader
    <3> QED
      BY <2>1, <3>1, <3>2 DEF Store!Fail
  <2>5. ASSUME NewRoots(p) PROVE Store!Fail(p)
    <3>1. /\ \E S \in SUBSET Proc : Store!Shown(S)
          /\ Committed' = Committed /\ root'[Other] = wview[p]
      BY <1>12, <2>3, <2>5, MappedRoots DEF WriteMetaFails
    <3>2. InDoubt' \in {InDoubt, WriterView}
      <4>1. CASE txnid' = txnid
        <5>1. Newest' = Newest
          BY <4>1 DEF Newest
        <5> QED
          BY <1>e, <2>1, <2>2, <2>3, <3>1, <4>1, <5>1 DEF InDoubt
      <4>2. CASE NewNumber(p)
        <5>1. txnid'[Other] = mti + 1 /\ Other' = Other
          BY <1>d, <2>2, <2>3, <4>2 DEF NewNumber, StoreInv, TypeOK, Other
        <5>2. txnid'[mti % 2] = mti
          BY <1>d, <2>2, <4>2 DEF NewNumber, StoreInv, TypeOK
        <5>3. Newest' = Other
          BY <1>d, <5>1, <5>2, Parity DEF Newest, Other
        <5> QED
          BY <1>d, <2>1, <2>2, <2>3, <3>1, <5>1, <5>3 DEF InDoubt
      <4> QED
        BY <1>12, <2>5, <4>1, <4>2 DEF WriteMetaFails
    <3> QED
      BY <2>1, <3>1, <3>2 DEF Store!Fail
  <2> QED
    BY <1>12, <2>4, <2>5 DEF WriteMetaFails
<1>13. ASSUME NEW p \in Proc, Publish(p) PROVE Store!Commit(p)
  <2>1. /\ Writer = p /\ WriterView = wview[p] /\ owner = p
        /\ \A q \in Proc : wpc[q] # "none" => q = p
    BY <1>13, MappedWriter DEF Publish, Deciding, StoreInv, WriterHoldsMutex
  <2>2. /\ mti' = mti + 1 /\ mti' % 2 = Other /\ root[Other] = wview[p]
        /\ txnid[Other] = mti + 1 /\ UNCHANGED <<txnid, root, rnum, rview>>
    BY <1>13, <1>d DEF Publish, StoreInv, WriteInv, readVars
  <2>3. Committed' = wview[p]
    BY <2>2 DEF Committed
  <2>4. wpc'[p] = "unlock" /\ \A q \in Proc : wpc'[q] # "publish"
    BY <1>13, <2>1 DEF Publish, StoreInv, TypeOK
  <2>5. Writer' = NoTxn /\ WriterView' = Empty
    BY <1>13, <2>1, <2>4 DEF Publish, lockVars, Writing, Deciding, Writer, WriterView
  <2>6. InDoubt = NoTxn
    BY <1>13 DEF Publish, InDoubt
  <2>7. InDoubt' = NoTxn
    BY <1>e, <1>d, <2>2, NewestPage DEF InDoubt, Newest, StoreInv
  <2>8. UNCHANGED <<Reader, Begun>>
    BY <2>2 DEF Reader, Begun
  <2>9. Overtaken' = Begun
    BY <1>d, <2>2 DEF Begun, Overtaken, StoreInv, ReadInv
  <2> QED
    BY <2>1, <2>3, <2>5, <2>6, <2>7, <2>8, <2>9
       DEF Store!Commit, Store!EndWrite, Store!Empty, Empty
<1>14. ASSUME NEW p \in Proc, Unlock(p) PROVE Same
  <2>1. owner = p /\ ~ Writing
    BY <1>14 DEF Unlock, StoreInv, WriterHoldsMutex, Writing, Deciding
  <2>2. ~ Writing'
    BY <1>14, <1>b DEF Unlock, Release, Writing
  <2>3. UNCHANGED <<Writer, WriterView>>
    BY <2>1, <2>2 DEF Writer, WriterView, Empty
  <2>4. \A q \in Proc : wpc'[q] = "publish" <=> wpc[q] = "publish"
    BY <1>14 DEF Unlock, Release, WriteOver, StoreInv, TypeOK
  <2> QED
    BY <1>14, <2>3, <2>4, MappedReads, MappedDoubt DEF Unlock, Release, metaVars, readVars
<1>15. CASE UNCHANGED vars
  <2>1. Same
    BY <1>15, MappedReads, MappedDoubt DEF vars, Writer, WriterView, Writing, Deciding
  <2> QED
    BY <1>a, <2>1
<1>18. CASE Next
  <2> HIDE DEF Same
  <2>1. PICK p \in Proc :
            \/ Open(p) \/ Crash(p) \/ BeginRead(p) \/ CopyRoots(p) \/ EndRead(p)
            \/ Begin(p) \/ Change(p) \/ PutMapFull(p)
            \/ Abort(p) \/ LmdbTx_Commit(p) \/ Finish(p) \/ WriteMetaFails(p)
    BY <1>18 DEF Next
  <2>2. Begin(p) => Store!Next
    BY <1>5, <1>6 DEF Begin, Store!Next
  <2>3. Change(p) => Store!Next
    BY <1>7 DEF Change, LmdbTx_Put, LmdbTx_Delete, Store!Next
  <2>4. Finish(p) => Store!Next \/ Same
    BY <1>11, <1>13, <1>14 DEF Finish, Store!Next
  <2>5. Abort(p) \/ LmdbTx_Commit(p) \/ WriteMetaFails(p) \/ PutMapFull(p)
            => Store!Next \/ Same
    BY <1>8, <1>9, <1>10, <1>12 DEF Store!Next
  <2>6. Open(p) \/ Crash(p) \/ BeginRead(p) \/ CopyRoots(p) \/ EndRead(p)
            => Store!Next \/ Same
    BY <1>1, <1>2, <1>3, <1>4, <1>16 DEF Store!Next
  <2> QED
    BY <1>a, <2>1, <2>2, <2>3, <2>4, <2>5, <2>6
<1> QED
  BY <1>15, <1>18

(* The workers' transactions are those of SnapshotStore: committed states   *)
(* follow one another whole, a reader keeps the one that was committed when *)
(* it began unless a commit overtook its begin, and a crash or a failure in *)
(* a commit leaves the old state or the new one.                            *)
THEOREM Refinement == Spec => ImplementsStore
<1>1. Init => Store!Init
  BY InitRefines
<1>2. StoreInv /\ StoreInv' /\ [Next]_vars => [Store!Next]_(Store!vars)
  BY NextRefines
<1> QED
  BY <1>1, <1>2, StoreInvariant, PTL DEF Spec, ImplementsStore, Store!Spec
=============================================================================
