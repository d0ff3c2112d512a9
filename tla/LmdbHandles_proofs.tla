------------------------- MODULE LmdbHandles_proofs -------------------------
(* Theorems about LmdbHandles, for any sets of userdata.                    *)
EXTENDS LmdbHandles, TLAPS

(* What holds whatever the script does: the collector queues only objects   *)
(* nobody reaches, and the environment and the handle of a call in progress *)
(* cannot be collected under it.                                            *)
QueueInv ==
    /\ pend \cap held = {}
    /\ \A t \in pend \cap Tx : tx[t].st # "absent"
    /\ \A e \in pend \cap Env : env[e] \in {"open", "closed"}

CallInv ==
    /\ call.fn = "open" =>
          /\ call.env \in Env /\ env[call.env] = "absent"
          /\ \A t \in Tx : tx[t].env # call.env
    /\ call.fn \in {"begun", "tagged"} =>
          /\ call.env \in Env /\ call.mode \in Mode /\ call.tx \in Tx
          /\ call.env \in held /\ env[call.env] = "open"
    /\ call.fn = "begun" =>
          /\ tx[call.tx] = Absent
          /\ call.mode = "read" => slot[call.env]["read"] = call.tx
    /\ call.fn = "tagged" =>
          /\ tx[call.tx] = [st |-> call.mode, env |-> call.env]
          /\ call.tx \in held

HandleTyped == \A t \in Tx : tx[t].st # "absent" => tx[t].env \in Env

AnyInv == /\ TypeOK /\ QueueInv /\ CallInv /\ HandleTyped
          /\ ListedAreLive /\ ReadHandleOwnsTxn /\ RunningHasHandle

(* What holds as long as commits succeed.                                   *)
BeginInv == call.fn = "begun" => slot[call.env][call.mode] = call.tx

CommittingInv == AnyInv /\ HandleOwnsTxn /\ BeginInv

-----------------------------------------------------------------------------
(* AnyInv is inductive.                                                      *)

LEMMA InitAnyInv == Init => AnyInv
<1> USE HandleAssumption DEF
           TypeOK, QueueInv, CallInv, HandleTyped, ListedAreLive,
           ReadHandleOwnsTxn, RunningHasHandle, Mode, Object, Live, Dangling,
           Idle, Absent, NoSlots, Running, InLua, TxFree, EnvFree
<1> QED
  BY DEF Init, AnyInv

LEMMA NextAnyInv == AnyInv /\ [Next]_vars => AnyInv'
<1> SUFFICES ASSUME AnyInv, [Next]_vars PROVE AnyInv'
  OBVIOUS
<1> USE HandleAssumption DEF AnyInv,
           TypeOK, QueueInv, CallInv, HandleTyped, ListedAreLive,
           ReadHandleOwnsTxn, RunningHasHandle, Mode, Object, Live, Dangling,
           Idle, Absent, NoSlots, Running, InLua, TxFree, EnvFree
<1>1. ASSUME NEW e \in Env, OpenStart(e)
      PROVE  AnyInv'
  BY <1>1 DEF OpenStart
<1>2. ASSUME OpenFinish
      PROVE  AnyInv'
  BY <1>2 DEF OpenFinish
<1>3. ASSUME NEW e \in Env, NEW m \in Mode, NEW t \in Tx, BeginTx(e, m, t)
      PROVE  AnyInv'
  BY <1>3 DEF BeginTx, StartTxn
<1>4. ASSUME NEW e \in Env, BeginTxBlocks(e)
      PROVE  AnyInv'
  BY <1>4 DEF BeginTxBlocks
<1>5. ASSUME BeginTxTag
      PROVE  AnyInv'
  BY <1>5 DEF BeginTxTag
<1>6. ASSUME BeginTxList
      PROVE  AnyInv'
  BY <1>6 DEF BeginTxList
<1>7. ASSUME NEW t \in Tx, LmdbTx_Close(t)
      PROVE  AnyInv'
  BY <1>7 DEF LmdbTx_Close, Ended, Unlist, EndTxn
<1>8. ASSUME NEW t \in Tx, LmdbTx_Commit(t)
      PROVE  AnyInv'
  BY <1>8 DEF LmdbTx_Commit, Ended, Unlist, EndTxn
<1>9. ASSUME NEW t \in Tx, NEW i \in Iter, LmdbTx_Order(t, i)
      PROVE  AnyInv'
  BY <1>9 DEF LmdbTx_Order
<1>10. ASSUME NEW t \in Tx, LmdbTx_CommitFails(t)
      PROVE  AnyInv'
  BY <1>10 DEF LmdbTx_CommitFails, Ended, Unlist, EndTxn
<1>11. ASSUME NEW t \in Tx, UseStale(t)
      PROVE  AnyInv'
  BY <1>11 DEF UseStale
<1>12. ASSUME NEW i \in Iter, IterateStale(i)
      PROVE  AnyInv'
  BY <1>12 DEF IterateStale
<1>13. ASSUME NEW e \in Env, LmdbEnv_Close(e)
      PROVE  AnyInv'
  BY <1>13 DEF LmdbEnv_Close, CloseListed, Ended
<1>14. ASSUME NEW o \in Object, Drop(o)
      PROVE  AnyInv'
  BY <1>14 DEF Drop
<1>15. ASSUME Collecting
      PROVE  AnyInv'
  BY <1>15 DEF Collecting, CollectAtomic, CollectFull, EndCycle, Collectable
<1>16. ASSUME NEW t \in Tx, FinalizeTx(t)
      PROVE  AnyInv'
  BY <1>16 DEF FinalizeTx, Ended, Unlist, EndTxn, NextToFinalize
<1>17. ASSUME NEW t \in Tx, FinalizeEndedTx(t)
      PROVE  AnyInv'
  BY <1>17 DEF FinalizeEndedTx, NextToFinalize, Interrupted
<1>18. ASSUME NEW t \in Tx, FinalizeDanglingTx(t)
      PROVE  AnyInv'
  BY <1>18 DEF FinalizeDanglingTx, NextToFinalize
<1>19. ASSUME NEW e \in Env, FinalizeEnv(e)
      PROVE  AnyInv'
  BY <1>19 DEF FinalizeEnv, NextToFinalize, CloseListed, Ended
<1>20. ASSUME NEW e \in Env, FinalizeClosedEnv(e)
      PROVE  AnyInv'
  BY <1>20 DEF FinalizeClosedEnv, NextToFinalize, Interrupted
<1>21. ASSUME NEW i \in Iter, Lmdb_OrderClose(i)
      PROVE  AnyInv'
  BY <1>21 DEF Lmdb_OrderClose, NextToFinalize, Interrupted
<1>22. CASE UNCHANGED vars
  BY <1>22 DEF vars
<1> HIDE DEF AnyInv, TypeOK, QueueInv, CallInv, HandleTyped, ListedAreLive,
             ReadHandleOwnsTxn, RunningHasHandle, Object
<1> QED
  BY <1>1, <1>2, <1>3, <1>4, <1>5, <1>6, <1>7, <1>8, <1>9, <1>10, <1>11,
     <1>12, <1>13, <1>14, <1>15, <1>16, <1>17, <1>18, <1>19, <1>20,
     <1>21, <1>22
     DEF Next, CommittingNext, Opening, Beginning, Ending, Ordering, Finalizing

THEOREM AnyInvariant == Spec => []AnyInv
  BY InitAnyInv, NextAnyInv, PTL DEF Spec

(* Every variable keeps its type, whatever the script does.                 *)
THEOREM TypeCorrect == Spec => []TypeOK
<1>1. AnyInv => TypeOK
  BY DEF AnyInv
<1> QED
  BY <1>1, AnyInvariant, PTL

(* env:close() and the finalizer of an environment never abort a NULL or a  *)
(* freed transaction through the weak table.                                *)
THEOREM TableTrusted == Spec => []ListedAreLive
<1>1. AnyInv => ListedAreLive
  BY DEF AnyInv
<1> QED
  BY <1>1, AnyInvariant, PTL

(* No call ends a read transaction behind its handle's back while the       *)
(* environment is open.                                                     *)
THEOREM ReadTxnOwned == Spec => []ReadHandleOwnsTxn
<1>1. AnyInv => ReadHandleOwnsTxn
  BY DEF AnyInv
<1> QED
  BY <1>1, AnyInvariant, PTL

(* No call loses a transaction: what LMDB runs for a handle, that handle has *)
(* a pointer to, or is about to get one. Commits may fail.                  *)
THEOREM TxnsKeepTheirHandle == Spec => []RunningHasHandle
<1>1. AnyInv => RunningHasHandle
  BY DEF AnyInv
<1> QED
  BY <1>1, AnyInvariant, PTL

-----------------------------------------------------------------------------
(* Scripts whose commits succeed.                                           *)

LEMMA CommittingIsAny == CommittingNext => Next
  BY DEF Next

LEMMA NextCommittingInv == CommittingInv /\ [CommittingNext]_vars => CommittingInv'
<1> SUFFICES ASSUME CommittingInv, [CommittingNext]_vars
             PROVE  HandleOwnsTxn' /\ BeginInv'
  BY NextAnyInv, CommittingIsAny DEF CommittingInv
<1> USE HandleAssumption DEF CommittingInv, AnyInv,
           TypeOK, QueueInv, CallInv, HandleTyped, ListedAreLive,
           ReadHandleOwnsTxn, RunningHasHandle, Mode, Object, Live, Dangling,
           Idle, Absent, NoSlots, Running, InLua, TxFree, EnvFree,
           HandleOwnsTxn, BeginInv
<1>1. ASSUME NEW e \in Env, OpenStart(e)
      PROVE  HandleOwnsTxn' /\ BeginInv'
  BY <1>1 DEF OpenStart
<1>2. ASSUME OpenFinish
      PROVE  HandleOwnsTxn' /\ BeginInv'
  BY <1>2 DEF OpenFinish
<1>3. ASSUME NEW e \in Env, NEW m \in Mode, NEW t \in Tx, BeginTx(e, m, t)
      PROVE  HandleOwnsTxn' /\ BeginInv'
  BY <1>3 DEF BeginTx, StartTxn
<1>4. ASSUME NEW e \in Env, BeginTxBlocks(e)
      PROVE  HandleOwnsTxn' /\ BeginInv'
  BY <1>4 DEF BeginTxBlocks
<1>5. ASSUME BeginTxTag
      PROVE  HandleOwnsTxn' /\ BeginInv'
  BY <1>5 DEF BeginTxTag
<1>6. ASSUME BeginTxList
      PROVE  HandleOwnsTxn' /\ BeginInv'
  BY <1>6 DEF BeginTxList
<1>7. ASSUME NEW t \in Tx, LmdbTx_Close(t)
      PROVE  HandleOwnsTxn' /\ BeginInv'
  BY <1>7 DEF LmdbTx_Close, Ended, Unlist, EndTxn
<1>8. ASSUME NEW t \in Tx, LmdbTx_Commit(t)
      PROVE  HandleOwnsTxn' /\ BeginInv'
  <2>1. LmdbTx_Close(t)
    BY <1>8 DEF LmdbTx_Commit, LmdbTx_Close
  <2> HIDE DEF CommittingInv
  <2> QED
    BY <1>7, <2>1
<1>9. ASSUME NEW t \in Tx, NEW i \in Iter, LmdbTx_Order(t, i)
      PROVE  HandleOwnsTxn' /\ BeginInv'
  BY <1>9 DEF LmdbTx_Order
<1>10. ASSUME NEW e \in Env, LmdbEnv_Close(e)
      PROVE  HandleOwnsTxn' /\ BeginInv'
  BY <1>10 DEF LmdbEnv_Close, CloseListed, Ended
<1>11. ASSUME NEW t \in Tx, UseStale(t)
      PROVE  HandleOwnsTxn' /\ BeginInv'
  BY <1>11 DEF UseStale
<1>21. ASSUME NEW i \in Iter, IterateStale(i)
      PROVE  HandleOwnsTxn' /\ BeginInv'
  BY <1>21 DEF IterateStale
<1>12. ASSUME NEW o \in Object, Drop(o)
      PROVE  HandleOwnsTxn' /\ BeginInv'
  BY <1>12 DEF Drop
<1>13. ASSUME Collecting
      PROVE  HandleOwnsTxn' /\ BeginInv'
  BY <1>13 DEF Collecting, CollectAtomic, CollectFull, EndCycle
<1>14. ASSUME NEW t \in Tx, FinalizeTx(t)
      PROVE  HandleOwnsTxn' /\ BeginInv'
  BY <1>14 DEF FinalizeTx, Ended, Unlist, EndTxn, NextToFinalize
<1>15. ASSUME NEW t \in Tx, FinalizeEndedTx(t)
      PROVE  HandleOwnsTxn' /\ BeginInv'
  BY <1>15 DEF FinalizeEndedTx, NextToFinalize, Interrupted
<1>16. ASSUME NEW t \in Tx, FinalizeDanglingTx(t)
      PROVE  HandleOwnsTxn' /\ BeginInv'
  BY <1>16 DEF FinalizeDanglingTx, NextToFinalize
<1>17. ASSUME NEW e \in Env, FinalizeEnv(e)
      PROVE  HandleOwnsTxn' /\ BeginInv'
  BY <1>17 DEF FinalizeEnv, NextToFinalize, CloseListed, Ended
<1>18. ASSUME NEW e \in Env, FinalizeClosedEnv(e)
      PROVE  HandleOwnsTxn' /\ BeginInv'
  BY <1>18 DEF FinalizeClosedEnv, NextToFinalize, Interrupted
<1>19. ASSUME NEW i \in Iter, Lmdb_OrderClose(i)
      PROVE  HandleOwnsTxn' /\ BeginInv'
  BY <1>19 DEF Lmdb_OrderClose, NextToFinalize, Interrupted
<1>20. CASE UNCHANGED vars
  BY <1>20 DEF vars
<1> HIDE DEF HandleOwnsTxn, BeginInv
<1> QED
  BY <1>1, <1>2, <1>3, <1>4, <1>5, <1>6, <1>7, <1>8, <1>9, <1>10, <1>11,
     <1>12, <1>13, <1>14, <1>15, <1>16, <1>17, <1>18, <1>19, <1>20, <1>21
     DEF CommittingNext, Opening, Beginning, Ending, Ordering, Finalizing

LEMMA InitCommittingInv == Init => CommittingInv
  BY InitAnyInv, HandleAssumption
     DEF Init, CommittingInv, HandleOwnsTxn, BeginInv,
         Live, Mode, Absent, NoSlots, Idle, Object

THEOREM CommittingInvariant == CommittingSpec => []CommittingInv
  BY InitCommittingInv, NextCommittingInv, PTL DEF CommittingSpec

(* As long as commits succeed, a handle's pointer into an open environment  *)
(* names the transaction that handle began, whatever the script does and    *)
(* however the collector's cycles fall: no call and no finalizer ends        *)
(* another handle's transaction.                                            *)
THEOREM HandlesOwnTheirTxn == CommittingSpec => []HandleOwnsTxn
<1>1. CommittingInv => HandleOwnsTxn
  BY DEF CommittingInv
<1> QED
  BY <1>1, CommittingInvariant, PTL

(* An environment about to be created runs no transaction of a handle.       *)
LEMMA NewEnvRunsNothing ==
    ASSUME CommittingInv, call.fn = "open", NEW m \in Mode
    PROVE  slot[call.env][m] \notin Tx
<1> SUFFICES ASSUME slot[call.env][m] \in Tx PROVE FALSE
  OBVIOUS
<1>1. call.env \in Env /\ \A t \in Tx : tx[t].env # call.env
  BY DEF CommittingInv, AnyInv, CallInv
<1>2. call # [fn |-> "begun", env |-> call.env, mode |-> m, tx |-> slot[call.env][m]]
  OBVIOUS
<1>3. tx[slot[call.env][m]] = [st |-> m, env |-> call.env]
  BY <1>1, <1>2 DEF CommittingInv, AnyInv, RunningHasHandle
<1> QED
  BY <1>1, <1>3

(* Closing an environment ends the transactions of listed handles only.      *)
LEMMA ClosingEnds ==
    ASSUME CommittingInv, NEW e \in Env, CloseListed(e), call.env # e \/ call.fn # "begun"
    PROVE  EndsWithHandle
<1> SUFFICES ASSUME NEW d \in Env, NEW m \in Mode,
                    slot[d][m] \in Tx, slot'[d][m] # slot[d][m]
             PROVE  tx'[slot[d][m]].st \notin Mode
  BY DEF EndsWithHandle
<1> USE DEF CommittingInv, AnyInv, TypeOK, Mode
<1>1. d = e /\ \E t \in listed[e] : tx[t].st = m
  BY DEF CloseListed
<1>2. PICK t \in listed[e] : tx[t].st = m
  BY <1>1
<1>3. slot[e][m] = t
  BY <1>2 DEF ListedAreLive, HandleOwnsTxn, Live, Dangling
<1> QED
  BY <1>1, <1>2, <1>3 DEF CloseListed, Ended

(* ... and no transaction ends behind its handle's back.                    *)
LEMMA StepEndsWithHandle == CommittingInv /\ [CommittingNext]_vars => [EndsWithHandle]_vars
<1> SUFFICES ASSUME CommittingInv, CommittingNext PROVE EndsWithHandle
  OBVIOUS
<1> USE HandleAssumption DEF CommittingInv, AnyInv,
           TypeOK, QueueInv, CallInv, HandleTyped, ListedAreLive,
           ReadHandleOwnsTxn, RunningHasHandle, Mode, Object, Live, Dangling,
           Idle, Absent, NoSlots, Running, InLua, TxFree, EnvFree,
           HandleOwnsTxn, BeginInv,
           EndsWithHandle
<1>1. ASSUME NEW e \in Env, OpenStart(e)
      PROVE  EndsWithHandle
  BY <1>1 DEF OpenStart
<1>2. ASSUME OpenFinish
      PROVE  EndsWithHandle
  <2>1. \A m \in Mode : slot[call.env][m] \notin Tx
    BY <1>2, NewEnvRunsNothing DEF OpenFinish
  <2> QED
    BY <1>2, <2>1 DEF OpenFinish
<1>3. ASSUME NEW e \in Env, NEW m \in Mode, NEW t \in Tx, BeginTx(e, m, t)
      PROVE  EndsWithHandle
  BY <1>3 DEF BeginTx, StartTxn
<1>4. ASSUME NEW e \in Env, BeginTxBlocks(e)
      PROVE  EndsWithHandle
  BY <1>4 DEF BeginTxBlocks
<1>5. ASSUME BeginTxTag
      PROVE  EndsWithHandle
  BY <1>5 DEF BeginTxTag
<1>6. ASSUME BeginTxList
      PROVE  EndsWithHandle
  BY <1>6 DEF BeginTxList
<1>7. ASSUME NEW t \in Tx, LmdbTx_Close(t)
      PROVE  EndsWithHandle
  BY <1>7 DEF LmdbTx_Close, Ended, Unlist, EndTxn
<1>8. ASSUME NEW t \in Tx, LmdbTx_Commit(t)
      PROVE  EndsWithHandle
  BY <1>8 DEF LmdbTx_Commit, Ended, Unlist, EndTxn
<1>9. ASSUME NEW t \in Tx, NEW i \in Iter, LmdbTx_Order(t, i)
      PROVE  EndsWithHandle
  BY <1>9 DEF LmdbTx_Order
<1>10. ASSUME NEW e \in Env, LmdbEnv_Close(e)
      PROVE  EndsWithHandle
  BY <1>10, ClosingEnds DEF LmdbEnv_Close
<1>11. ASSUME NEW t \in Tx, UseStale(t)
      PROVE  EndsWithHandle
  BY <1>11 DEF UseStale
<1>21. ASSUME NEW i \in Iter, IterateStale(i)
      PROVE  EndsWithHandle
  BY <1>21 DEF IterateStale
<1>12. ASSUME NEW o \in Object, Drop(o)
      PROVE  EndsWithHandle
  BY <1>12 DEF Drop
<1>13. ASSUME Collecting
      PROVE  EndsWithHandle
  BY <1>13 DEF Collecting, CollectAtomic, CollectFull, EndCycle
<1>14. ASSUME NEW t \in Tx, FinalizeTx(t)
      PROVE  EndsWithHandle
  BY <1>14 DEF FinalizeTx, Ended, Unlist, EndTxn, NextToFinalize
<1>15. ASSUME NEW t \in Tx, FinalizeEndedTx(t)
      PROVE  EndsWithHandle
  BY <1>15 DEF FinalizeEndedTx, NextToFinalize, Interrupted
<1>16. ASSUME NEW t \in Tx, FinalizeDanglingTx(t)
      PROVE  EndsWithHandle
  BY <1>16 DEF FinalizeDanglingTx, NextToFinalize
<1>17. ASSUME NEW e \in Env, FinalizeEnv(e)
      PROVE  EndsWithHandle
  <2>1. CloseListed(e) /\ e \notin held
    BY <1>17 DEF FinalizeEnv, NextToFinalize
  <2>2. call.env # e \/ call.fn # "begun"
    BY <2>1
  <2> HIDE DEF CommittingInv, EndsWithHandle
  <2> QED
    BY <2>1, <2>2, ClosingEnds
<1>18. ASSUME NEW e \in Env, FinalizeClosedEnv(e)
      PROVE  EndsWithHandle
  BY <1>18 DEF FinalizeClosedEnv, NextToFinalize, Interrupted
<1>19. ASSUME NEW i \in Iter, Lmdb_OrderClose(i)
      PROVE  EndsWithHandle
  BY <1>19 DEF Lmdb_OrderClose, NextToFinalize, Interrupted
<1> HIDE DEF EndsWithHandle, HandleOwnsTxn
<1> QED
  BY <1>1, <1>2, <1>3, <1>4, <1>5, <1>6, <1>7, <1>8, <1>9, <1>10, <1>11,
     <1>12, <1>13, <1>14, <1>15, <1>16, <1>17, <1>18, <1>19, <1>21
     DEF CommittingNext, Opening, Beginning, Ending, Ordering, Finalizing

THEOREM NoTxnEndsSilently == CommittingSpec => NoSilentEnd
  BY CommittingInvariant, StepEndsWithHandle, PTL DEF CommittingSpec, NoSilentEnd
=============================================================================
