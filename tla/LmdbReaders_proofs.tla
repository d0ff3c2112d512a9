------------------------- MODULE LmdbReaders_proofs -------------------------
(* Theorems about LmdbReaders, for any number of workers and slots.         *)
EXTENDS LmdbReaders, TLAPS

LEMMA Parity == /\ \A n \in Nat : n % 2 \in 0..1
                /\ \A n \in Nat : (n + 1) % 2 = 1 - (n % 2)
                /\ \A n \in Nat : n > 0 => (n - 1) % 2 = 1 - (n % 2)
                /\ 0 % 2 = 0
  OBVIOUS

(* The writer is the live holder of the mutex.                              *)
LockInv ==
    /\ wpc # "none" => owner \in up /\ ~ dead
    /\ wpc = "none" => owner = NoProc \/ dead
    /\ dead => owner \in Proc

(* The meta page mti names is current. The other one is one older (or both  *)
(* are 0), or one newer while a commit is between its writes or was cut.    *)
Other == 1 - (mti % 2)

MetaInv ==
    /\ txnid[mti % 2] = mti /\ root[mti % 2] = mti
    /\ root[Other] \in {txnid[Other], Dirty}
    /\ \/ mti = 0 /\ txnid[Other] = 0
       \/ mti > 0 /\ txnid[Other] = mti - 1
       \/ /\ txnid[Other] = mti + 1 /\ root[Other] = mti + 1
          /\ dead \/ wpc = "publish"
    /\ wpc # "none" => wid = mti + 1
    /\ wpc = "publish" => txnid[Other] = mti + 1

(* No bound the writer has, or gets, is beyond the committed number.        *)
PageInv ==
    /\ reused <= mti
    /\ \A q \in Proc : pgoldest[q] <= mti
    /\ wpc = "scan" => wold <= mti

(* What a worker in env:begin(true) has in the table.                       *)
InTable == {"load", "store", "check", "copy", "reading"}
TableInv ==
    \A p \in Proc :
        /\ p \notin up => rpc[p] = "idle" /\ mine[p] = 0 /\ p \notin live
        /\ rpc[p] \in InTable => mine[p] # 0
        /\ rpc[p] = "claim" => mine[p] = 0 /\ p \in live
        /\ mine[p] # 0 =>
              /\ p \in live /\ mine[p] <= numreaders /\ mine[p] <= closers[p]
              /\ slot[mine[p]].pid = p
              /\ rpc[p] \in {"check", "copy", "reading"} => slot[mine[p]].txnid = reg[p]
              /\ rpc[p] = "idle" => slot[mine[p]].txnid = Unset

(* A reader that found mti unchanged is safe from every bound known, and    *)
(* from a scan that has not come to its slot yet.                           *)
Safe(p) ==
    /\ reused <= reg[p]
    /\ \A q \in Proc : pgoldest[q] <= reg[p]
    /\ wpc = "scan" => wold <= reg[p] \/ mine[p] <= wscan

Reader(p) ==
    /\ rpc[p] # "idle" => since[p] <= mti
    /\ rpc[p] \in {"store", "check", "copy", "reading"} => since[p] <= reg[p] /\ reg[p] <= mti
    /\ rpc[p] \in {"copy", "reading"} => Safe(p)
    /\ rpc[p] = "reading" =>
          \/ reg[p] <= snap[p] /\ snap[p] <= txnid[Newest]
          \/ snap[p] = Dirty /\ reg[p] < mti

ReadInv == \A p \in Proc : Reader(p)

ReadersInv == /\ TypeOK /\ LockInv /\ MetaInv /\ PageInv
              /\ TableInv /\ ReadInv /\ SlotsAccounted

(* The parts of TypeOK, by group of variables.                              *)
MetaType ==
    /\ txnid \in [0..1 -> Nat] /\ root \in [0..1 -> Nat \cup {Dirty}] /\ mti \in Nat
WriteType ==
    /\ owner \in Proc \cup {NoProc} /\ dead \in BOOLEAN
    /\ wpc \in {"none", "open", "scan", "publish"}
PageType ==
    /\ wid \in Nat /\ wscan \in 0..MaxReaders /\ wold \in Nat
    /\ pgoldest \in [Proc -> Nat] /\ reused \in Nat
ProcType ==
    /\ numreaders \in 0..MaxReaders /\ left \in SUBSET Slot
    /\ up \in SUBSET Proc /\ fatal \in SUBSET Proc /\ live \in SUBSET Proc
    /\ mine \in [Proc -> 0..MaxReaders] /\ closers \in [Proc -> 0..MaxReaders]
    /\ chk \in [Proc -> Proc \cup {NoProc}]
ReadType ==
    /\ rpc \in [Proc -> {"idle", "claim", "load", "store", "check", "copy", "reading"}]
    /\ reg \in [Proc -> Nat] /\ since \in [Proc -> Nat]
    /\ snap \in [Proc -> Nat \cup {Dirty}]

SlotTable == [Slot -> [pid : Proc \cup {NoProc}, txnid : Nat \cup {Unset}]]

LEMMA TypeParts == TypeOK <=> MetaType /\ WriteType /\ PageType /\ slot \in SlotTable /\ ProcType /\ ReadType
  BY DEF TypeOK, MetaType, WriteType, PageType, SlotTable, ProcType, ReadType

LEMMA NoSlotsType == NoSlots \in SlotTable
  BY DEF NoSlots, SlotTable

LEMMA ClearedType == ASSUME slot \in SlotTable, NEW S PROVE Cleared(S) \in SlotTable
  BY DEF Cleared, SlotTable

LEMMA InitReadersInv == Init => ReadersInv
<1> SUFFICES ASSUME Init PROVE ReadersInv
  OBVIOUS
<1>1. TypeOK
  <2>1. slot \in SlotTable
    BY NoSlotsType DEF Init
  <2>1a. MetaType
    BY DEF Init, MetaType
  <2>2. WriteType
    BY DEF Init, WriteType
  <2>2a. PageType
    BY ReadersAssumption DEF Init, PageType
  <2>3. ProcType
    BY ReadersAssumption DEF Init, ProcType
  <2>4. ReadType
    BY DEF Init, ReadType
  <2> QED
    BY <2>1, <2>1a, <2>2, <2>2a, <2>3, <2>4, TypeParts
<1>2. LockInv /\ MetaInv
  BY ReadersAssumption, Parity DEF Init, LockInv, MetaInv, Other
<1>3. PageInv /\ TableInv /\ ReadInv /\ SlotsAccounted
  BY ReadersAssumption DEF Init, PageInv, TableInv, ReadInv, Reader, SlotsAccounted, InTable, Slot
<1> QED
  BY <1>1, <1>2, <1>3 DEF ReadersInv

LEMMA NewestPage ==
    ASSUME TypeOK, MetaInv
    PROVE  /\ Newest = IF txnid[Other] = mti + 1 THEN Other ELSE mti % 2
           /\ txnid[Newest] \in Nat /\ mti <= txnid[Newest] /\ txnid[Newest] <= mti + 1
  BY Parity DEF TypeOK, MetaInv, Other, Newest

(* Type correctness of one step.                                            *)
LEMMA NextTypeOK == ReadersInv /\ [Next]_vars => TypeOK'
<1> SUFFICES ASSUME ReadersInv, [Next]_vars PROVE TypeOK'
  OBVIOUS
<1> USE ReadersAssumption DEF ReadersInv
<1>0. txnid[Newest] \in Nat
  BY NewestPage
<1> USE DEF TypeOK
<1>1. ASSUME NEW p \in Proc, Open(p) PROVE TypeOK'
  <2>1. slot' \in SlotTable
    BY <1>1, NoSlotsType DEF Open, SlotTable
  <2>1a. MetaType'
    BY <1>0, <1>1 DEF Open, MetaType
  <2>2. WriteType'
    BY <1>1 DEF Open, WriteType
  <2>2a. PageType'
    BY <1>1 DEF Open, PageType
  <2>3. ProcType'
    BY <1>1 DEF Open, ProcType
  <2>4. ReadType'
    BY <1>1 DEF Open, ReadType, readVars
  <2> QED
    BY <2>1, <2>1a, <2>2, <2>2a, <2>3, <2>4 DEF MetaType, WriteType, PageType, SlotTable, ProcType, ReadType
<1>2. ASSUME NEW p \in Proc, LmdbEnv_Close(p) PROVE TypeOK'
  BY <1>2 DEF LmdbEnv_Close, Leave, Cleared, readVars, metaVars, mutexVars
<1>3. ASSUME NEW p \in Proc, Crash(p) PROVE TypeOK'
  BY <1>3 DEF Crash, Leave, WriteOver, ReadOver, metaVars
<1>4. ASSUME NEW p \in Proc, LmdbEnv_BeginRead(p) \/ ClaimFails(p) \/ Load(p) \/ Check(p) PROVE TypeOK'
  BY <1>4 DEF LmdbEnv_BeginRead, ClaimFails, Load, Check, ReadOver,
              metaVars, writeVars, mutexVars, tableVars, procVars
<1>5. ASSUME NEW p \in Proc, Claim(p) PROVE TypeOK'
  <2>1. PICK i \in Slot : ClaimSlot(p, i)
    BY <1>5 DEF Claim
  <2>2. numreaders' \in 0..MaxReaders
    BY <2>1 DEF ClaimSlot, Slot
  <2>3. slot' \in SlotTable
    BY <2>1 DEF ClaimSlot, SlotTable
  <2>4. i \in 0..MaxReaders
    BY DEF Slot
  <2> QED
    BY <2>1, <2>2, <2>3, <2>4 DEF ClaimSlot, SlotTable, metaVars, writeVars, mutexVars
<1>6. ASSUME NEW p \in Proc, Store(p) \/ EndRead(p) PROVE TypeOK'
  <2>1. slot' \in SlotTable
    BY <1>6 DEF Store, EndRead, SlotTable
  <2> QED
    BY <1>6, <2>1 DEF Store, EndRead, ReadOver, SlotTable, metaVars, writeVars, mutexVars, procVars
<1>7. ASSUME NEW p \in Proc, Copy(p) PROVE TypeOK'
  <2>1. root[reg[p] % 2] \in Nat \cup {Dirty}
    BY Parity
  <2> QED
    BY <1>7, <2>1 DEF Copy, metaVars, writeVars, mutexVars, tableVars, procVars
<1>8. ASSUME NEW p \in Proc, LmdbEnv_ReaderCheck(p) PROVE TypeOK'
  <2>1. CASE CheckFindsDead(p)
    <3>1. \A i \in 1..numreaders : slot[i].pid \in Proc \cup {NoProc}
      BY DEF Slot
    <3>2. chk' \in [Proc -> Proc \cup {NoProc}]
      BY <2>1, <3>1 DEF CheckFindsDead
    <3> QED
      BY <2>1, <3>2 DEF CheckFindsDead, readVars, metaVars, writeVars, mutexVars, tableVars, procVars
  <2>2. CASE CheckClears(p)
    BY <2>2 DEF CheckClears, Cleared, readVars, metaVars, writeVars, mutexVars, procVars
  <2> QED
    BY <1>8, <2>1, <2>2 DEF LmdbEnv_ReaderCheck
<1>9. ASSUME NEW p \in Proc, BeginWrite(p) \/ BeginWriteRepairs(p) PROVE TypeOK'
  <2>1. PICK last \in Nat : StartWrite(p, last)
    BY <1>0, <1>9 DEF BeginWrite, BeginWriteRepairs
  <2>2. slot' \in SlotTable /\ left' \in SUBSET Slot
    BY <1>9, ClearedType DEF BeginWrite, BeginWriteRepairs, SlotTable
  <2>2a. MetaType'
    BY <2>1 DEF StartWrite, MetaType
  <2>3. WriteType'
    BY <2>1 DEF StartWrite, WriteType
  <2>3a. PageType'
    BY <2>1 DEF StartWrite, PageType
  <2>4. ProcType'
    BY <2>1, <2>2 DEF StartWrite, ProcType, procVars
  <2>5. ReadType'
    BY <2>1 DEF StartWrite, ReadType, readVars
  <2> QED
    BY <2>2, <2>2a, <2>3, <2>3a, <2>4, <2>5 DEF MetaType, WriteType, PageType, SlotTable, ProcType, ReadType
<1>10. ASSUME NEW p \in Proc, PageAlloc(p) PROVE TypeOK'
  <2>1. CASE FindOldest(p)
    <3>1. wid - 1 \in Nat
      BY <2>1 DEF FindOldest, Free, Writes, MetaInv, LockInv
    <3> QED
      BY <2>1, <3>1 DEF FindOldest, readVars, procVars, metaVars, tableVars
  <2>2. CASE ScanSlot(p)
    <3>1. wscan \in Slot /\ slot[wscan].txnid \in Nat \cup {Unset}
      BY <2>2 DEF ScanSlot, Slot
    <3> QED
      BY <2>2, <3>1 DEF ScanSlot, Unset, readVars, procVars, metaVars, tableVars
  <2>3. CASE ScanEnds(p)
    BY <2>3 DEF ScanEnds, readVars, procVars, metaVars, tableVars
  <2>4. CASE TakePages(p)
    BY <2>4 DEF TakePages, readVars, procVars, metaVars, tableVars
  <2> QED
    BY <1>10, <2>1, <2>2, <2>3, <2>4 DEF PageAlloc
<1>11. ASSUME NEW p \in Proc, EndWrite(p) PROVE TypeOK'
  BY <1>11 DEF EndWrite, WriteMeta, WriteMetaFails, Publish, AbortWrite, WriteOver,
               readVars, procVars, metaVars, tableVars
<1>12. ASSUME UNCHANGED vars PROVE TypeOK'
  BY <1>12 DEF vars, metaVars, writeVars, mutexVars, tableVars, procVars, readVars
<1> QED
  BY <1>1, <1>2, <1>3, <1>4, <1>5, <1>6, <1>7, <1>8, <1>9, <1>10, <1>11, <1>12
     DEF Next, BeginRead

(* The writer and the meta pages.                                           *)
WriterInv == LockInv /\ MetaInv /\ PageInv

(* Taking mti from the newest meta page leaves no page newer than it.       *)
LEMMA Repaired ==
    ASSUME TypeOK, MetaInv, mti' = txnid[Newest], UNCHANGED <<txnid, root>>
    PROVE  /\ txnid'[mti' % 2] = mti' /\ root'[mti' % 2] = mti'
           /\ root'[Other'] \in {txnid'[Other'], Dirty}
           /\ \/ mti' = 0 /\ txnid'[Other'] = 0
              \/ mti' > 0 /\ txnid'[Other'] = mti' - 1
<1> USE Parity DEF TypeOK, MetaInv, Other
<1>1. CASE txnid[Other] = mti + 1
  <2>1. mti' = mti + 1 /\ mti' % 2 = Other /\ Other' = mti % 2
    BY <1>1, NewestPage
  <2> QED
    BY <1>1, <2>1
<1>2. CASE txnid[Other] # mti + 1
  <2>1. mti' = mti
    BY <1>2, NewestPage
  <2> QED
    BY <1>2, <2>1
<1> QED
  BY <1>1, <1>2

LEMMA NextWriterInv == ReadersInv /\ [Next]_vars => WriterInv'
<1> SUFFICES ASSUME ReadersInv, [Next]_vars PROVE WriterInv'
  OBVIOUS
<1>0. TypeOK' /\ TypeOK /\ txnid[Newest] \in Nat /\ mti <= txnid[Newest]
  BY NextTypeOK, NewestPage DEF ReadersInv
<1> USE ReadersAssumption DEF ReadersInv, WriterInv
<1>1. ASSUME NEW p \in Proc, Open(p) PROVE WriterInv'
  <2>1. LockInv' /\ PageInv'
    BY <1>0, <1>1 DEF Open, LockInv, PageInv, TypeOK
  <2>2. CASE up = {}
    BY <1>0, <1>1, <2>1, <2>2, Repaired DEF Open, LockInv, MetaInv
  <2>3. CASE up # {}
    BY <1>1, <2>1, <2>3 DEF Open, MetaInv, Other
  <2> QED
    BY <2>2, <2>3
<1>2. ASSUME NEW p \in Proc, LmdbEnv_Close(p) PROVE WriterInv'
  <2>1. PageInv'
    BY <1>0, <1>2 DEF LmdbEnv_Close, Leave, PageInv, TypeOK, metaVars, mutexVars
  <2>2. LockInv' /\ MetaInv'
    BY <1>2 DEF LmdbEnv_Close, Leave, Writes, LockInv, MetaInv, Other, metaVars, mutexVars
  <2> QED
    BY <2>1, <2>2
<1>3. ASSUME NEW p \in Proc, Crash(p) PROVE WriterInv'
  <2>1. PageInv'
    BY <1>0, <1>3 DEF Crash, Leave, WriteOver, PageInv, TypeOK, metaVars
  <2>2. LockInv'
    BY <1>0, <1>3 DEF Crash, Leave, WriteOver, Writes, LockInv, TypeOK
  <2>3. MetaInv'
    BY <1>3 DEF Crash, WriteOver, Writes, LockInv, MetaInv, Other, metaVars
  <2> QED
    BY <2>1, <2>2, <2>3
<1>4. ASSUME NEW p \in Proc, BeginRead(p) \/ EndRead(p) \/ LmdbEnv_ReaderCheck(p) PROVE WriterInv'
  <2>1. UNCHANGED <<metaVars, writeVars, up>>
    BY <1>4 DEF BeginRead, LmdbEnv_BeginRead, Claim, ClaimSlot, ClaimFails, Load, Store, Check, Copy,
                EndRead, LmdbEnv_ReaderCheck, CheckFindsDead, CheckClears, procVars
  <2> QED
    BY <2>1 DEF LockInv, MetaInv, PageInv, Other, metaVars, writeVars, mutexVars
<1>5. ASSUME NEW p \in Proc, BeginWrite(p) PROVE WriterInv'
  BY <1>0, <1>5 DEF BeginWrite, StartWrite, Free, LockInv, MetaInv, PageInv, Other, procVars, TypeOK
<1>6. ASSUME NEW p \in Proc, BeginWriteRepairs(p) PROVE WriterInv'
  <2>1. LockInv' /\ PageInv'
    BY <1>0, <1>6 DEF BeginWriteRepairs, StartWrite, Free, LockInv, PageInv, TypeOK, procVars
  <2>2. MetaInv'
    BY <1>0, <1>6, Repaired DEF BeginWriteRepairs, StartWrite, MetaInv
  <2> QED
    BY <2>1, <2>2
<1>7. ASSUME NEW p \in Proc, PageAlloc(p) PROVE WriterInv'
  <2>1. LockInv' /\ MetaInv'
    BY <1>7 DEF PageAlloc, FindOldest, ScanSlot, ScanEnds, TakePages, Free, Writes,
                LockInv, MetaInv, Other, procVars, metaVars
  <2>2. CASE FindOldest(p)
    <3>1. wid - 1 = mti
      BY <1>0, <2>2 DEF FindOldest, Free, Writes, LockInv, MetaInv, TypeOK
    <3> QED
      BY <2>1, <2>2, <3>1 DEF FindOldest, PageInv, metaVars
  <2>3. CASE ScanSlot(p)
    BY <1>0, <2>1, <2>3, SMTT(30) DEF ScanSlot, PageInv, metaVars, TypeOK, Slot
  <2>4. CASE ScanEnds(p)
    BY <1>0, <2>1, <2>4 DEF ScanEnds, PageInv, metaVars, TypeOK
  <2>5. CASE TakePages(p)
    BY <1>0, <2>1, <2>5 DEF TakePages, PageInv, metaVars, TypeOK
  <2> QED
    BY <1>7, <2>1, <2>2, <2>3, <2>4, <2>5 DEF PageAlloc
<1>8. ASSUME NEW p \in Proc, WriteMeta(p) PROVE WriterInv'
  <2>1. wid = mti + 1 /\ wid % 2 = Other /\ Other \in 0..1 /\ mti % 2 \in 0..1 /\ Other # mti % 2
    BY <1>0, <1>8, Parity DEF WriteMeta, Free, Writes, LockInv, MetaInv, Other, TypeOK
  <2>2. LockInv' /\ PageInv'
    BY <1>8 DEF WriteMeta, Free, Writes, LockInv, PageInv, procVars
  <2>3. MetaInv'
    BY <1>0, <1>8, <2>1 DEF WriteMeta, MetaInv, Other, TypeOK
  <2> QED
    BY <2>2, <2>3
<1>9. ASSUME NEW p \in Proc, WriteMetaFails(p) PROVE WriterInv'
  <2>1. wid % 2 = Other /\ Other \in 0..1 /\ mti % 2 \in 0..1 /\ Other # mti % 2 /\ wpc = "open"
    BY <1>0, <1>9, Parity DEF WriteMetaFails, Free, Writes, LockInv, MetaInv, Other, TypeOK
  <2>2. LockInv' /\ PageInv'
    BY <1>9 DEF WriteMetaFails, WriteOver, Writes, LockInv, PageInv
  <2>3. MetaInv'
    BY <1>0, <1>9, <2>1 DEF WriteMetaFails, WriteOver, Writes, MetaInv, Other, TypeOK
  <2> QED
    BY <2>2, <2>3
<1>10. ASSUME NEW p \in Proc, Publish(p) PROVE WriterInv'
  <2>1. mti' = mti + 1 /\ mti' % 2 = Other /\ Other' = mti % 2
    BY <1>0, <1>10, Parity DEF Publish, MetaInv, Other, TypeOK
  <2>2. LockInv'
    BY <1>10 DEF Publish, WriteOver, LockInv
  <2>3. PageInv'
    BY <1>0, <1>10, <2>1 DEF Publish, WriteOver, PageInv, TypeOK
  <2>4. MetaInv'
    BY <1>0, <1>10, <2>1 DEF Publish, WriteOver, Writes, MetaInv, TypeOK
  <2> QED
    BY <2>2, <2>3, <2>4
<1>11. ASSUME NEW p \in Proc, AbortWrite(p) PROVE WriterInv'
  BY <1>11 DEF AbortWrite, WriteOver, Writes, Free, LockInv, MetaInv, PageInv, Other, metaVars
<1>12. ASSUME UNCHANGED vars PROVE WriterInv'
  BY <1>12 DEF vars, LockInv, MetaInv, PageInv, Other, metaVars, writeVars, mutexVars, procVars
<1> QED
  BY <1>1, <1>2, <1>3, <1>4, <1>5, <1>6, <1>7, <1>8, <1>9, <1>10, <1>11, <1>12 DEF Next, EndWrite

(* The reader table.                                                        *)
LEMMA Left ==
    ASSUME TypeOK, NEW p \in Proc, Leave(p)
    PROVE  /\ mine'[p] = 0 /\ p \notin up' /\ p \notin live'
           /\ up' = up \ {p} /\ live' = live \ {p}
           /\ \A q \in Proc \ {p} : mine'[q] = mine[q] /\ closers'[q] = closers[q]
<1>1. mine \in [Proc -> 0..MaxReaders] /\ closers \in [Proc -> 0..MaxReaders]
  BY DEF TypeOK
<1> QED
  BY <1>1 DEF Leave

LEMMA NextTableInv == ReadersInv /\ [Next]_vars => TableInv' /\ SlotsAccounted'
<1> SUFFICES ASSUME ReadersInv, [Next]_vars PROVE TableInv' /\ SlotsAccounted'
  OBVIOUS
<1>0. TypeOK' /\ TypeOK /\ TableInv /\ SlotsAccounted
  BY NextTypeOK DEF ReadersInv
<1> USE ReadersAssumption, <1>0
<1>a. \A q \in Proc : mine[q] # 0 => mine[q] \in Slot
  <2>1. mine \in [Proc -> 0..MaxReaders] /\ MaxReaders \in Nat
    BY ReadersAssumption DEF TypeOK
  <2> QED
    BY <2>1 DEF Slot
<1>b. \A i \in Slot : slot[i] \in [pid : Proc \cup {NoProc}, txnid : Nat \cup {Unset}]
  BY DEF TypeOK
<1>c. up \subseteq Proc
  BY DEF TypeOK
<1>1. ASSUME NEW p \in Proc, Open(p) PROVE TableInv' /\ SlotsAccounted'
  <2>1. TableInv'
    BY <1>1 DEF Open, TableInv, readVars, TypeOK
  <2>2. SlotsAccounted'
    BY <1>1 DEF Open, SlotsAccounted, Slot
  <2> QED
    BY <2>1, <2>2
<1>2. ASSUME NEW p \in Proc, LmdbEnv_Close(p) PROVE TableInv' /\ SlotsAccounted'
  <2> DEFINE own == {i \in 1..closers[p] : slot[i].pid = p}
  <2>1. /\ slot' = Cleared(own) /\ left' = left \ own /\ Leave(p) /\ rpc[p] = "idle"
        /\ UNCHANGED <<numreaders, rpc, reg>>
    BY <1>2 DEF LmdbEnv_Close, readVars
  <2>2. \A q \in Proc \ {p} : mine[q] # 0 => mine[q] \notin own
    BY DEF TableInv
  <2>3. TableInv'
    <3>1. \A q \in Proc \ {p} : mine[q] # 0 => slot'[mine[q]] = slot[mine[q]]
      BY <1>a, <2>1, <2>2 DEF Cleared
    <3> QED
      BY <2>1, <3>1, Left DEF TableInv, InTable
  <2>4. mine[p] # 0 => mine[p] \in own
    BY DEF TableInv, TypeOK
  <2>5. SlotsAccounted'
    <3>1. \A i \in Slot : (i \in own => slot'[i].pid = NoProc) /\ (i \notin own => slot'[i] = slot[i])
      BY <1>b, <2>1 DEF Cleared
    <3>2. ASSUME NEW i \in Slot, i \notin own, slot[i].pid \in up, mine[slot[i].pid] = i
          PROVE  slot[i].pid \in up' /\ mine'[slot[i].pid] = i
      <4>1. slot[i].pid \in Proc \ {p}
        BY <1>c, <2>4, <3>2 DEF Slot
      <4> QED
        BY <2>1, <3>2, <4>1, Left
    <3> HIDE DEF own
    <3> QED
      BY <2>1, <3>1, <3>2 DEF SlotsAccounted
  <2> QED
    BY <2>3, <2>5
<1>3. ASSUME NEW p \in Proc, Crash(p) PROVE TableInv' /\ SlotsAccounted'
  <2>1. TableInv'
    <3>1. rpc'[p] = "idle" /\ \A q \in Proc \ {p} : rpc'[q] = rpc[q] /\ reg'[q] = reg[q]
      BY <1>3 DEF Crash, ReadOver, TypeOK
    <3> QED
      BY <1>3, <3>1, Left DEF Crash, TableInv, InTable
  <2>2. SlotsAccounted'
    BY <1>3 DEF Crash, Leave, SlotsAccounted, TypeOK
  <2> QED
    BY <2>1, <2>2
<1>4. ASSUME NEW p \in Proc, LmdbEnv_BeginRead(p) PROVE TableInv' /\ SlotsAccounted'
  <2>1. TableInv'
    BY <1>4 DEF LmdbEnv_BeginRead, Free, TableInv, InTable, TypeOK, tableVars
  <2>2. SlotsAccounted'
    BY <1>4 DEF LmdbEnv_BeginRead, SlotsAccounted, tableVars
  <2> QED
    BY <2>1, <2>2
<1>5. ASSUME NEW p \in Proc, Claim(p) PROVE TableInv' /\ SlotsAccounted'
  <2>1. PICK i \in Slot : ClaimSlot(p, i)
    BY <1>5 DEF Claim
  <2>2. /\ i \in Nat \ {0} /\ numreaders' \in Nat /\ i <= numreaders' /\ numreaders <= numreaders'
        /\ numreaders' <= numreaders \/ numreaders' = i
    BY <2>1 DEF ClaimSlot, Slot, TypeOK
  <2>3. \A q \in Proc : mine[q] # 0 => mine[q] # i
    BY <2>1, <2>2 DEF ClaimSlot, FirstFree, TableInv, TypeOK
  <2>4. TableInv'
    BY <1>a, <2>1, <2>2, <2>3 DEF ClaimSlot, TableInv, InTable, TypeOK
  <2>5. \A j \in Slot : j <= numreaders' => j = i \/ j <= numreaders
    BY <2>1 DEF ClaimSlot, FirstFree, Slot, TypeOK
  <2>6. p \in up /\ mine[p] = 0
    BY <2>1 DEF ClaimSlot, TableInv
  <2>7. SlotsAccounted'
    <3>1. /\ slot'[i].pid = p /\ mine'[p] = i /\ up' = up /\ left' = left \ {i}
          /\ \A j \in Slot \ {i} : slot'[j] = slot[j]
          /\ \A q \in Proc \ {p} : mine'[q] = mine[q]
      BY <2>1 DEF ClaimSlot, TypeOK
    <3>2. ASSUME NEW j \in Slot, j # i, j <= numreaders', slot'[j].pid # NoProc
          PROVE  j \in left' \/ (slot'[j].pid \in up' /\ mine'[slot'[j].pid] = j)
      <4>1. j \in left \/ (slot[j].pid \in up /\ mine[slot[j].pid] = j)
        BY <2>5, <3>1, <3>2 DEF SlotsAccounted
      <4>2. CASE j \in left
        BY <3>1, <3>2, <4>2
      <4>3. CASE slot[j].pid \in up /\ mine[slot[j].pid] = j
        <5>1. slot[j].pid \in Proc \ {p}
          BY <1>c, <2>6, <4>3, <3>2 DEF Slot
        <5> QED
          BY <3>1, <3>2, <4>3, <5>1
      <4> QED
        BY <4>1, <4>2, <4>3
    <3> QED
      BY <2>6, <3>1, <3>2 DEF SlotsAccounted
  <2> QED
    BY <2>4, <2>7
<1>6. ASSUME NEW p \in Proc, ClaimFails(p) \/ Load(p) \/ Check(p) \/ Copy(p)
      PROVE  TableInv' /\ SlotsAccounted'
  <2>1. UNCHANGED <<tableVars, procVars>>
    BY <1>6 DEF ClaimFails, Load, Check, Copy
  <2>2. TableInv'
    BY <1>6, <2>1 DEF ClaimFails, ReadOver, Load, Check, Copy, TableInv, InTable, TypeOK,
                      tableVars, procVars
  <2>3. SlotsAccounted'
    BY <2>1 DEF SlotsAccounted, tableVars, procVars
  <2> QED
    BY <2>2, <2>3
<1>7. ASSUME NEW p \in Proc, Store(p) \/ EndRead(p) PROVE TableInv' /\ SlotsAccounted'
  <2>1. /\ UNCHANGED <<numreaders, left, procVars>> /\ mine[p] # 0 /\ rpc[p] \in InTable
        /\ \A i \in Slot : slot'[i].pid = slot[i].pid /\ (i # mine[p] => slot'[i] = slot[i])
    BY <1>7, <1>a, <1>b DEF Store, EndRead, TableInv, InTable, TypeOK
  <2>2. \A q \in Proc \ {p} : mine[q] # 0 => mine[q] # mine[p]
    BY <2>1 DEF TableInv
  <2>3. TableInv'
    BY <1>7, <1>a, <2>1, <2>2 DEF Store, EndRead, ReadOver, TableInv, InTable, TypeOK, procVars
  <2>4. SlotsAccounted'
    BY <2>1 DEF SlotsAccounted, procVars
  <2> QED
    BY <2>3, <2>4
<1>8. ASSUME NEW S \in SUBSET Slot, slot' = Cleared(S), left' = left \ S,
             \A q \in Proc : mine[q] \notin S,
             UNCHANGED <<numreaders, procVars, rpc, reg>>
      PROVE  TableInv' /\ SlotsAccounted'
  <2>1. TableInv'
    BY <1>8, <1>a DEF Cleared, TableInv, procVars
  <2>2. SlotsAccounted'
    BY <1>8, <1>b DEF Cleared, SlotsAccounted, procVars
  <2> QED
    BY <2>1, <2>2
<1>9. ASSUME NEW p \in Proc, LmdbEnv_ReaderCheck(p) PROVE TableInv' /\ SlotsAccounted'
  <2>1. CASE CheckFindsDead(p)
    BY <2>1 DEF CheckFindsDead, TableInv, SlotsAccounted, readVars, procVars, tableVars
  <2>2. CASE CheckClears(p)
    <3> DEFINE stale == IF chk[p] \in live THEN {} ELSE SlotsOf(chk[p])
    <3>1. stale \in SUBSET Slot /\ \A q \in Proc : mine[q] \notin stale
      BY DEF SlotsOf, TableInv, Slot
    <3> QED
      BY <1>8, <2>2, <3>1 DEF CheckClears, readVars
  <2> QED
    BY <1>9, <2>1, <2>2 DEF LmdbEnv_ReaderCheck
<1>10. ASSUME NEW p \in Proc, BeginWrite(p) PROVE TableInv' /\ SlotsAccounted'
  BY <1>10 DEF BeginWrite, StartWrite, TableInv, SlotsAccounted, readVars, procVars
<1>11. ASSUME NEW p \in Proc, BeginWriteRepairs(p) PROVE TableInv' /\ SlotsAccounted'
  <2> DEFINE stale == UNION {SlotsOf(q) : q \in Proc \ (live \cup {p})}
  <2>1. stale \in SUBSET Slot /\ \A q \in Proc : mine[q] \notin stale
    BY DEF SlotsOf, TableInv, Slot
  <2> QED
    BY <1>8, <1>11, <2>1 DEF BeginWriteRepairs, StartWrite, readVars
<1>12. ASSUME NEW p \in Proc, PageAlloc(p) \/ EndWrite(p) PROVE TableInv' /\ SlotsAccounted'
  <2>1. UNCHANGED <<tableVars, readVars, up, live, mine, closers>>
    BY <1>12 DEF PageAlloc, FindOldest, ScanSlot, ScanEnds, TakePages,
                 EndWrite, WriteMeta, WriteMetaFails, Publish, AbortWrite, procVars
  <2> QED
    BY <2>1 DEF TableInv, SlotsAccounted, tableVars, readVars
<1>13. ASSUME UNCHANGED vars PROVE TableInv' /\ SlotsAccounted'
  BY <1>13 DEF vars, TableInv, SlotsAccounted, tableVars, readVars, procVars
<1> QED
  BY <1>1, <1>2, <1>3, <1>4, <1>5, <1>6, <1>7, <1>9, <1>10, <1>11, <1>12, <1>13 DEF Next, BeginRead

(* The numbers only grow.                                                   *)
LEMMA NextGrows ==
    ReadersInv /\ [Next]_vars => mti <= mti' /\ txnid[Newest] <= txnid'[Newest']
<1> SUFFICES ASSUME ReadersInv, [Next]_vars PROVE mti <= mti' /\ txnid[Newest] <= txnid'[Newest']
  OBVIOUS
<1>0. TypeOK' /\ TypeOK /\ MetaInv /\ LockInv /\ mti <= txnid[Newest] /\ txnid[Newest] \in Nat
  BY NextTypeOK, NewestPage DEF ReadersInv
<1>1. txnid \in [0..1 -> Nat] /\ txnid' \in [0..1 -> Nat] /\ mti \in Nat /\ mti' \in Nat /\ wid \in Nat
  BY <1>0 DEF TypeOK
<1>2. ASSUME txnid[0] <= txnid'[0], txnid[1] <= txnid'[1] PROVE txnid[Newest] <= txnid'[Newest']
  BY <1>1, <1>2 DEF Newest
<1>3. ASSUME NEW p \in Proc, WriteMeta(p)
      PROVE  mti <= mti' /\ txnid[0] <= txnid'[0] /\ txnid[1] <= txnid'[1]
  <2>1. wid = mti + 1 /\ wid % 2 = Other /\ txnid[Other] <= mti + 1
    BY <1>0, <1>1, <1>3, Parity DEF WriteMeta, Free, Writes, LockInv, MetaInv, Other
  <2> QED
    BY <1>1, <1>3, <2>1 DEF WriteMeta
<1>4. ASSUME NEW p \in Proc, Publish(p) PROVE mti <= mti' /\ txnid' = txnid
  BY <1>0, <1>1, <1>4 DEF Publish, Writes, MetaInv
<1>5. ASSUME NEW p \in Proc,
             \/ Open(p) \/ LmdbEnv_Close(p) \/ Crash(p) \/ BeginRead(p) \/ EndRead(p)
             \/ LmdbEnv_ReaderCheck(p) \/ BeginWrite(p) \/ BeginWriteRepairs(p) \/ PageAlloc(p)
             \/ WriteMetaFails(p) \/ AbortWrite(p)
      PROVE  mti <= mti' /\ txnid' = txnid
  BY <1>0, <1>1, <1>5 DEF Open, LmdbEnv_Close, Crash, BeginRead, LmdbEnv_BeginRead, Claim, ClaimSlot,
       ClaimFails, Load, Store, Check, Copy, EndRead, LmdbEnv_ReaderCheck, CheckFindsDead, CheckClears,
       BeginWrite, BeginWriteRepairs, StartWrite, PageAlloc, FindOldest, ScanSlot, ScanEnds, TakePages,
       WriteMetaFails, AbortWrite, metaVars
<1>6. ASSUME UNCHANGED vars PROVE mti <= mti' /\ txnid' = txnid
  BY <1>1, <1>6 DEF vars, metaVars
<1>7. ASSUME txnid' = txnid PROVE txnid[0] <= txnid'[0] /\ txnid[1] <= txnid'[1]
  BY <1>1, <1>7
<1> QED
  BY <1>2, <1>3, <1>4, <1>5, <1>6, <1>7 DEF Next, EndWrite

(* Readers and the bounds of page reuse.                                    *)
LEMMA NextReadInv == ReadersInv /\ [Next]_vars => ReadInv'
<1> SUFFICES ASSUME ReadersInv, [Next]_vars PROVE ReadInv'
  OBVIOUS
<1>0. TypeOK' /\ TypeOK /\ TableInv /\ ReadInv /\ LockInv /\ MetaInv /\ PageInv
  BY NextTypeOK DEF ReadersInv
<1>1. /\ mti \in Nat /\ mti' \in Nat /\ mti <= mti' /\ mti <= txnid[Newest]
      /\ txnid[Newest] \in Nat /\ txnid'[Newest'] \in Nat /\ txnid[Newest] <= txnid'[Newest']
  <2>1. txnid'[Newest'] \in Nat
    BY <1>0 DEF TypeOK, Newest
  <2> QED
    BY <1>0, <2>1, NewestPage, NextGrows DEF TypeOK
<1>2. /\ \A q \in Proc : reg[q] \in Nat /\ since[q] \in Nat /\ snap[q] \in Nat \cup {Dirty}
      /\ \A q \in Proc : pgoldest[q] \in Nat /\ mine[q] \in 0..MaxReaders
      /\ reused \in Nat /\ wold \in Nat /\ wscan \in 0..MaxReaders
  BY <1>0 DEF TypeOK
(* A reader that does nothing stays as it is if it stays safe.              *)
<1>3. ASSUME NEW q \in Proc,
             rpc'[q] = rpc[q], reg'[q] = reg[q], snap'[q] = snap[q], since'[q] = since[q],
             rpc[q] \in {"copy", "reading"} => Safe(q)'
      PROVE  Reader(q)'
  BY <1>0, <1>1, <1>2, <1>3 DEF ReadInv, Reader, Dirty
<1>4. ASSUME NEW q \in Proc, rpc'[q] = "idle" PROVE Reader(q)'
  BY <1>4 DEF Reader
<1>5. ASSUME NEW q \in Proc, rpc[q] \in {"copy", "reading"}
      PROVE  Safe(q) /\ mine[q] # 0 /\ mine[q] <= numreaders /\ q # NoProc
             /\ slot[mine[q]].pid = q /\ slot[mine[q]].txnid = reg[q]
  BY <1>0, <1>5, ReadersAssumption DEF ReadInv, Reader, TableInv, InTable
(* Steps that leave the readers alone.                                      *)
<1>6. ASSUME UNCHANGED <<readVars, mine>>,
             \A q \in Proc : rpc[q] \in {"copy", "reading"} => Safe(q)'
      PROVE  ReadInv'
  BY <1>3, <1>6 DEF ReadInv, readVars
<1>7. ASSUME NEW p \in Proc, LmdbEnv_Close(p) \/ Crash(p) PROVE ReadInv'
  <2>1. rpc'[p] = "idle" /\ pgoldest' = [pgoldest EXCEPT ![p] = 0] /\ reused' = reused
    BY <1>0, <1>7 DEF LmdbEnv_Close, Crash, Leave, ReadOver, readVars, TypeOK
  <2>2. \A q \in Proc \ {p} : /\ rpc'[q] = rpc[q] /\ reg'[q] = reg[q] /\ snap'[q] = snap[q]
                              /\ since'[q] = since[q] /\ mine'[q] = mine[q]
    BY <1>0, <1>7 DEF LmdbEnv_Close, Crash, Leave, ReadOver, readVars, TypeOK
  <2>3. wpc' = "scan" => wpc = "scan" /\ wold' = wold /\ wscan' = wscan
    BY <1>7 DEF LmdbEnv_Close, Crash, WriteOver, mutexVars
  <2>4. \A q \in Proc : pgoldest'[q] <= pgoldest[q]
    BY <1>0, <1>2, <2>1 DEF TypeOK
  <2>5. ASSUME NEW q \in Proc \ {p}, rpc[q] \in {"copy", "reading"} PROVE Safe(q)'
    <3>1. Safe(q) /\ \A r \in Proc : pgoldest'[r] \in Nat
      BY <1>0, <1>5, <2>5 DEF TypeOK
    <3> QED
      BY <1>2, <2>1, <2>2, <2>3, <2>4, <3>1 DEF Safe
  <2> QED
    BY <1>3, <1>4, <2>1, <2>2, <2>5 DEF ReadInv
<1>8. ASSUME NEW p \in Proc,
             \/ Open(p) \/ LmdbEnv_ReaderCheck(p) \/ BeginWrite(p) \/ BeginWriteRepairs(p)
             \/ EndWrite(p)
      PROVE  ReadInv'
  <2>1. /\ UNCHANGED <<readVars, mine, pgoldest, reused>>
        /\ wpc' = "scan" => UNCHANGED <<wpc, wold, wscan>>
    BY <1>8 DEF Open, LmdbEnv_ReaderCheck, CheckFindsDead, CheckClears, BeginWrite, BeginWriteRepairs,
                StartWrite, EndWrite, WriteMeta, WriteMetaFails, Publish, AbortWrite, WriteOver,
                procVars, writeVars, mutexVars
  <2>2. ASSUME NEW q \in Proc, rpc[q] \in {"copy", "reading"} PROVE Safe(q)'
    BY <1>5, <2>1, <2>2 DEF Safe, readVars
  <2> QED
    BY <1>6, <2>1, <2>2
<1>9. ASSUME NEW p \in Proc, PageAlloc(p) PROVE ReadInv'
  <2>1. UNCHANGED <<readVars, mine>>
    BY <1>9 DEF PageAlloc, FindOldest, ScanSlot, ScanEnds, TakePages, procVars
  <2>2. ASSUME NEW q \in Proc, rpc[q] \in {"copy", "reading"} PROVE Safe(q)'
    <3>1. /\ reg'[q] = reg[q] /\ mine'[q] = mine[q] /\ mine[q] \in Slot
          /\ Safe(q) /\ mine[q] <= numreaders /\ slot[mine[q]].pid = q /\ q # NoProc
          /\ slot[mine[q]].txnid = reg[q]
      BY <1>2, <1>5, <2>1, <2>2 DEF readVars, Slot
    <3>2. CASE FindOldest(p)
      BY <3>1, <3>2 DEF FindOldest, Safe
    <3>3. CASE ScanSlot(p)
      <4>1. /\ UNCHANGED <<reused, pgoldest>> /\ wold' <= wold /\ wscan' = wscan - 1
            /\ mine[q] = wscan => wold' <= reg[q]
        BY <1>0, <1>2, <3>1, <3>3 DEF ScanSlot, Unset, TypeOK
      <4>2. wold' \in Nat /\ wpc = "scan"
        BY <1>0, <3>3 DEF TypeOK, ScanSlot
      <4> QED
        BY <1>2, <3>1, <4>1, <4>2 DEF Safe, Slot
    <3>4. CASE ScanEnds(p)
      <4>1. wold <= reg[q]
        BY <1>2, <3>1, <3>4 DEF ScanEnds, Safe, Slot
      <4> QED
        BY <1>0, <3>1, <3>4, <4>1 DEF ScanEnds, Safe, TypeOK
    <3>5. CASE TakePages(p)
      <4>1. reused' <= reg[q]
        BY <1>2, <3>1, <3>5 DEF TakePages, Safe
      <4> QED
        BY <3>1, <3>5, <4>1 DEF TakePages, Safe
    <3> QED
      BY <1>9, <3>2, <3>3, <3>4, <3>5 DEF PageAlloc
  <2> QED
    BY <1>6, <2>1, <2>2
(* Steps of one reader.                                                     *)
<1>10. ASSUME NEW p \in Proc, BeginRead(p) \/ EndRead(p) PROVE ReadInv'
  <2>1. UNCHANGED writeVars
    BY <1>10 DEF BeginRead, LmdbEnv_BeginRead, Claim, ClaimSlot, ClaimFails, Load, Store, Check, Copy, EndRead
  <2>2. \A q \in Proc \ {p} : /\ rpc'[q] = rpc[q] /\ reg'[q] = reg[q] /\ snap'[q] = snap[q]
                              /\ since'[q] = since[q] /\ mine'[q] = mine[q]
    BY <1>0, <1>10 DEF BeginRead, LmdbEnv_BeginRead, Claim, ClaimSlot, ClaimFails, Load, Store, Check, Copy,
                       EndRead, ReadOver, procVars, TypeOK
  <2>3. ASSUME NEW q \in Proc \ {p} PROVE Reader(q)'
    <3>1. ASSUME rpc[q] \in {"copy", "reading"} PROVE Safe(q)'
      BY <1>5, <2>1, <2>2, <3>1 DEF Safe, writeVars, mutexVars
    <3> QED
      BY <1>3, <2>2, <3>1
  <2>4. ASSUME LmdbEnv_BeginRead(p) PROVE Reader(p)'
    BY <1>0, <1>1, <2>4 DEF LmdbEnv_BeginRead, Reader, metaVars, TypeOK
  <2>5. ASSUME Claim(p) PROVE Reader(p)'
    BY <1>0, <1>1, <2>5 DEF Claim, ClaimSlot, ReadInv, Reader, metaVars, TypeOK
  <2>6. ASSUME ClaimFails(p) \/ EndRead(p) PROVE Reader(p)'
    <3>1. rpc'[p] = "idle"
      BY <1>0, <2>6 DEF ClaimFails, EndRead, ReadOver, TypeOK
    <3> QED
      BY <1>4, <3>1
  <2>7. ASSUME Load(p) PROVE Reader(p)'
    BY <1>0, <1>1, <2>7 DEF Load, ReadInv, Reader, metaVars, TypeOK
  <2>8. ASSUME Store(p) PROVE Reader(p)'
    BY <1>0, <1>1, <2>8 DEF Store, ReadInv, Reader, metaVars, TypeOK
  <2>9. ASSUME Check(p) PROVE Reader(p)'
    <3>1. /\ UNCHANGED <<mti, reg, since, mine>> /\ Reader(p) /\ rpc[p] = "check"
          /\ (rpc'[p] = "copy" /\ reg[p] = mti) \/ rpc'[p] = "load"
      BY <1>0, <2>9 DEF Check, ReadInv, TableInv, InTable, metaVars, procVars, TypeOK
    <3>2. reg[p] = mti => Safe(p)'
      BY <1>0, <1>2, <2>1, <3>1 DEF PageInv, Safe, writeVars, mutexVars
    <3> QED
      BY <3>1, <3>2 DEF Reader
  <2>10. ASSUME Copy(p) PROVE Reader(p)'
    <3>1. /\ UNCHANGED <<mti, txnid, reg, since, mine>> /\ Reader(p) /\ rpc[p] = "copy"
          /\ rpc'[p] = "reading" /\ snap'[p] = root[reg[p] % 2]
      BY <1>0, <2>10 DEF Copy, ReadInv, metaVars, procVars, TypeOK
    <3>2. Safe(p)'
      BY <2>1, <3>1 DEF Reader, Safe, writeVars, mutexVars
    <3>3. Newest' = Newest
      BY <3>1 DEF Newest
    <3>4. \/ reg[p] <= root[reg[p] % 2] /\ root[reg[p] % 2] <= txnid[Newest]
          \/ root[reg[p] % 2] = Dirty /\ reg[p] < mti
      <4>1. reg[p] \in Nat /\ reg[p] <= mti
        BY <1>2, <3>1 DEF Reader
      <4>2. CASE reg[p] % 2 = mti % 2
        BY <1>0, <1>1, <4>1, <4>2 DEF MetaInv
      <4>3. CASE reg[p] % 2 # mti % 2
        <5>1. reg[p] % 2 = Other /\ reg[p] < mti
          BY <1>1, <4>1, <4>3, Parity DEF Other
        <5>2. reg[p] <= txnid[Other] /\ txnid[Other] <= txnid[Newest]
          BY <1>0, <1>1, <4>1, <5>1, NewestPage DEF MetaInv
        <5> QED
          BY <1>0, <5>1, <5>2 DEF MetaInv
      <4> QED
        BY <4>2, <4>3
    <3> QED
      BY <3>1, <3>2, <3>3, <3>4 DEF Reader
  <2>11. Reader(p)'
    BY <1>10, <2>4, <2>5, <2>6, <2>7, <2>8, <2>9, <2>10 DEF BeginRead
  <2> QED
    BY <2>3, <2>11 DEF ReadInv
<1>11. ASSUME UNCHANGED vars PROVE ReadInv'
  <2>1. ASSUME NEW q \in Proc, rpc[q] \in {"copy", "reading"} PROVE Safe(q)'
    BY <1>5, <1>11, <2>1 DEF Safe, vars, readVars, procVars, writeVars, mutexVars
  <2> QED
    BY <1>6, <1>11, <2>1 DEF vars, procVars
<1> QED
  BY <1>7, <1>8, <1>9, <1>10, <1>11 DEF Next

LEMMA NextReadersInv == ReadersInv /\ [Next]_vars => ReadersInv'
  BY NextTypeOK, NextWriterInv, NextTableInv, NextReadInv DEF ReadersInv, WriterInv

LEMMA SpecReadersInv == Spec => []ReadersInv
  BY InitReadersInv, NextReadersInv, PTL DEF Spec

-----------------------------------------------------------------------------
(* Every variable keeps its type.                                           *)
THEOREM TypeCorrect == Spec => []TypeOK
<1>1. ReadersInv => TypeOK
  BY DEF ReadersInv
<1> QED
  BY <1>1, SpecReadersInv, PTL

(* Page reuse never reaches a snapshot that is read (mdb_find_oldest and    *)
(* mdb_page_alloc against mdb_txn_renew0), for any number of readers.       *)
THEOREM ReadersAreSafe == Spec => []SnapshotIntact
<1>1. ReadersInv => SnapshotIntact
  BY DEF ReadersInv, SnapshotIntact, PageInv, ReadInv, Reader, Reading, Safe, TypeOK, Dirty
<1> QED
  BY <1>1, SpecReadersInv, PTL

(* env:begin(true) sees all that was committed before it was called.        *)
THEOREM ReadersAreFresh == Spec => []FreshSnapshot
<1>1. ReadersInv => FreshSnapshot
  <2> SUFFICES ASSUME ReadersInv PROVE FreshSnapshot
    OBVIOUS
  <2>1. mti \in Nat /\ txnid[Newest] \in Nat /\ mti <= txnid[Newest]
    BY NewestPage DEF ReadersInv, TypeOK
  <2> QED
    BY <2>1 DEF ReadersInv, FreshSnapshot, ReadInv, Reader, Reading, TypeOK, Dirty
<1> QED
  BY <1>1, SpecReadersInv, PTL

(* No call takes the slot of a live worker.                                 *)
THEOREM SlotsAreOwned == Spec => []SlotOwned
<1>1. ReadersInv => SlotOwned
  BY DEF ReadersInv, SlotOwned, TableInv, Reading
<1> QED
  BY <1>1, SpecReadersInv, PTL

(* Only killed workers leave slots behind.                                  *)
THEOREM OnlyKilledLeaveSlots == Spec => []SlotsAccounted
<1>1. ReadersInv => SlotsAccounted
  BY DEF ReadersInv
<1> QED
  BY <1>1, SpecReadersInv, PTL
=============================================================================
