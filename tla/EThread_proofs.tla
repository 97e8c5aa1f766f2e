---------------------------- MODULE EThread_proofs ----------------------------
(***************************************************************************)
(* Proofs about EThread, whether or not pthread_create may fail: first what *)
(* holds for any owner, then what holds for one that joins the old thread  *)
(* before it starts a new one.                                             *)
(*                                                                         *)
(* NoFatal alone is not inductive: an ASSERT looks at the value of the     *)
(* semaphore.  IInv ties that value to the places of the owner and of the  *)
(* thread (SemaphoreKept) and says which pairs of places occur (Places).   *)
(***************************************************************************)
EXTENDS EThread, TLAPS

(* No step of any owner or of the thread leaves AliveKept: run() goes past its *)
(* sync() only when the thread before has cleared m_alive, and that one never   *)
(* sets it again.                                                              *)
THEOREM AliveInductive == AliveKept /\ [Next]_vars => AliveKept'
<1> SUFFICES ASSUME AliveKept, [Next]_vars PROVE AliveKept'
  OBVIOUS
<1> USE DEF AliveKept, ThreadPlace, OwnerPlace, Step
<1>1. CASE Run \/ Sync \/ \E c \in BOOLEAN : Kill(c)
  BY <1>1 DEF Run, Sync, Kill
<1>2. CASE SyncDown
  BY <1>2 DEF SyncDown
<1>3. CASE SyncRead \/ SyncUp
  BY <1>3 DEF SyncRead, SyncUp
<1>4. CASE Down \/ SetAlive \/ SetNotStarted \/ SendCancel
  BY <1>4 DEF Down, SetAlive, SetNotStarted, SendCancel
<1>5. CASE Join
  BY <1>5 DEF Join
<1>6. CASE Create \/ CreateFails
  BY <1>6 DEF Create, CreateFails
<1>7. CASE HasStarted \/ Up
  BY <1>7 DEF HasStarted, Up
<1>8. CASE Finish \/ NotAlive \/ Recover \/ Finished
  BY <1>8 DEF Finish, NotAlive, Recover, Finished
<1>9. CASE UNCHANGED vars
  BY <1>9 DEF vars
<1> QED
  BY <1>1, <1>2, <1>3, <1>4, <1>5, <1>6, <1>7, <1>8, <1>9 DEF Next, OwnerStep, ThreadStep

(* m_alive and the_thread say the truth about the thread, for any owner.       *)
THEOREM AliveTruthful == Spec => []AliveKept
<1>1. Init => AliveKept
  BY DEF Init, AliveKept, ThreadPlace, OwnerPlace
<1> QED
  BY <1>1, AliveInductive, PTL DEF Spec

(* When the object holds no thread, none of its code runs, whoever the owner   *)
(* is: what kill() means to a destructor.                                      *)
THEOREM KillWaitsForThread == Spec => []KillWaits
<1>1. AliveKept => KillWaits
  BY DEF AliveKept, KillWaits
<1> QED
  BY AliveTruthful, <1>1, PTL

-----------------------------------------------------------------------------
(* A thread object starts out with a free semaphore and no thread. *)
THEOREM Initially == Init => IInv
  BY DEF Init, IInv, TypeOK, NoFatal, SemaphoreKept, Places, Announced, Announcing, InSync,
         ThreadPlace, OwnerPlace

(* No step of the owner, of the thread or of the two together leaves IInv. *)
THEOREM Inductive == ASSUME OwnerJoins = TRUE
                     PROVE  IInv /\ [Next]_vars => IInv'
<1> SUFFICES ASSUME IInv, [Next]_vars PROVE IInv'
  OBVIOUS
<1> USE ThreadAssumption
    DEF IInv, TypeOK, NoFatal, SemaphoreKept, Places, Announced, Announcing, InSync, Step,
        ThreadPlace, OwnerPlace
<1>1. CASE Run \/ Sync
  BY <1>1 DEF Run, Sync
<1>2. ASSUME NEW c \in BOOLEAN, Kill(c) PROVE IInv'
  BY <1>2 DEF Kill
<1>3. CASE SyncDown
  BY <1>3 DEF SyncDown
<1>4. CASE SyncRead \/ SyncUp
  BY <1>4 DEF SyncRead, SyncUp
<1>5. CASE Down \/ SetAlive \/ SetNotStarted
  BY <1>5 DEF Down, SetAlive, SetNotStarted
<1>6. CASE Join \/ SendCancel
  BY <1>6 DEF Join, SendCancel
<1>7. CASE Create \/ CreateFails
  BY <1>7 DEF Create, CreateFails
<1>8. CASE HasStarted \/ Up
  BY <1>8 DEF HasStarted, Up
<1>9. CASE Finish \/ NotAlive \/ Recover \/ Finished
  BY <1>9 DEF Finish, NotAlive, Recover, Finished
<1>10. CASE UNCHANGED vars
  BY <1>10 DEF vars
<1> QED
  BY <1>1, <1>2, <1>3, <1>4, <1>5, <1>6, <1>7, <1>8, <1>9, <1>10
     DEF Next, OwnerStep, ThreadStep

(* The inductive invariant holds in every reachable state. *)
THEOREM ThreadInvariant == ASSUME OwnerJoins = TRUE
                           PROVE  Spec => []IInv
<1>1. IInv /\ [Next]_vars => IInv'
  BY Inductive
<1> QED
  BY Initially, <1>1, PTL DEF Spec

(* An owner that joins never trips over an ASSERT of thread.cpp, nor makes    *)
(* sync() call eFatal.                                                        *)
THEOREM NeverFatal == ASSUME OwnerJoins = TRUE
                      PROVE  Spec => []NoFatal
<1>1. IInv => NoFatal
  BY DEF IInv
<1> QED
  BY ThreadInvariant, <1>1, PTL

(* run() never returns while the thread it started initialises itself.        *)
THEOREM RunWaitsForThread == ASSUME OwnerJoins = TRUE
                             PROVE  Spec => []RunWaits
<1>1. IInv => RunWaits
  BY DEF IInv, SemaphoreKept, Announced, Announcing, RunWaits
<1> QED
  BY ThreadInvariant, <1>1, PTL
=============================================================================
