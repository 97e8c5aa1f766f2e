--------------------------- MODULE FileEraser_proofs ---------------------------
(***************************************************************************)
(* Proofs about FileEraser, for any files and any number of calls: when the  *)
(* destructor has returned nothing runs any more, although nobody joins the  *)
(* thread before erase() starts it again.                                   *)
(***************************************************************************)
EXTENDS FileEraser, TLAPS

TP == INSTANCE EThread_proofs WITH OwnerJoins <- FALSE, CreateMayFail <- FALSE, create_failed <- 0

(* Any step of the thread object keeps m_alive and the_thread truthful.        *)
LEMMA ThreadMoves ==
  Thread!AliveKept /\ (Thread!Next \/ UNCHANGED thread_vars) => Thread!AliveKept'
<1>1. TP!AliveKept /\ [TP!Next]_(TP!vars) => TP!AliveKept'
  BY TP!AliveInductive
<1>2. Thread!AliveKept <=> TP!AliveKept
  BY DEF Thread!AliveKept, TP!AliveKept, Thread!ThreadPlace, TP!ThreadPlace, Thread!OwnerPlace, TP!OwnerPlace
<1>3. Thread!AliveKept' <=> TP!AliveKept'
  BY DEF Thread!AliveKept, TP!AliveKept, Thread!ThreadPlace, TP!ThreadPlace, Thread!OwnerPlace, TP!OwnerPlace
<1>4. Thread!Next <=> TP!Next
  BY DEF Thread!Next, TP!Next, Thread!OwnerStep, TP!OwnerStep,
      Thread!ThreadStep, TP!ThreadStep, Thread!Run, TP!Run, Thread!Kill,
      TP!Kill, Thread!Sync, TP!Sync, Thread!SyncDown, TP!SyncDown,
      Thread!SyncRead, TP!SyncRead, Thread!SyncUp, TP!SyncUp, Thread!Down, TP!Down, Thread!SetAlive,
      TP!SetAlive, Thread!SetNotStarted, TP!SetNotStarted, Thread!SendCancel,
      TP!SendCancel, Thread!Join, TP!Join, Thread!Create, TP!Create,
      Thread!CreateFails, TP!CreateFails, Thread!HasStarted, TP!HasStarted,
      Thread!Up, TP!Up, Thread!Finish, TP!Finish, Thread!NotAlive, TP!NotAlive,
      Thread!Recover, TP!Recover, Thread!Finished, TP!Finished, Thread!Step,
      TP!Step
<1> QED
  BY <1>1, <1>2, <1>3, <1>4 DEF thread_vars, TP!vars

(* Every step of the eraser is a step of the thread object or leaves it alone. *)
LEMMA StepsOfTheThread == [Next]_vars => Thread!Next \/ UNCHANGED thread_vars
<1> SUFFICES ASSUME [Next]_vars PROVE Thread!Next \/ UNCHANGED thread_vars
  OBVIOUS
<1> USE DEF Thread!Next, Thread!OwnerStep, Thread!ThreadStep
<1>1. CASE Starting \/ Started \/ Leave \/ Complete
  BY <1>1 DEF Starting, Started, Leave, Complete
<1>2. CASE InThreadCall \/ Run \/ Kill
  BY <1>2 DEF InThreadCall, Run, Kill
<1>3. CASE Reset \/ Iterate \/ Take \/ PollEnds \/ GotMessage
  BY <1>3 DEF Reset, Iterate, Take, PollEnds, GotMessage
<1>4. CASE RunReturns \/ Destroyed \/ Destroy \/ \E f \in File : Erase(f)
  BY <1>4 DEF RunReturns, Destroyed, Destroy, Erase
<1>5. CASE UNCHANGED vars
  BY <1>5 DEF vars
<1> QED
  BY <1>1, <1>2, <1>3, <1>4, <1>5 DEF Next, ThreadStep, OwnerStep

-----------------------------------------------------------------------------
(* The eraser starts with its thread gone and no call under way.               *)
THEOREM Initially == Init => IInv
<1> SUFFICES ASSUME Init PROVE IInv
  OBVIOUS
<1>1. TypeOK
  <2>1. pending \in Seq(File \cup {Quit}) /\ hand = NoMessage
    BY DEF Init, Channel!Init
  <2>2. erases \in 0 .. MaxErases
    BY EraserAssumption DEF Init
  <2> QED
    BY <2>1, <2>2 DEF Init, TypeOK
<1>2. Thread!AliveKept /\ CallsMatch
  BY DEF Init, Thread!Init, Thread!AliveKept, Thread!ThreadPlace, Thread!OwnerPlace, CallsMatch
<1> QED
  BY <1>1, <1>2 DEF IInv

(* Files, messages and the state of the loop keep their types.                 *)
LEMMA TypesKept == TypeOK /\ [Next]_vars => TypeOK'
<1> SUFFICES ASSUME TypeOK, [Next]_vars PROVE TypeOK'
  OBVIOUS
<1> USE EraserAssumption DEF TypeOK, channel, At, Call
<1>1. CASE Starting \/ Started \/ Leave \/ Complete
  BY <1>1 DEF Starting, Started, Leave, Complete
<1>2. CASE Reset \/ Iterate \/ PollEnds
  BY <1>2 DEF Reset, Iterate, PollEnds
<1>3. CASE Take
  BY <1>3 DEF Take, Channel!Take
<1>4. CASE GotMessage
  BY <1>4 DEF GotMessage, Channel!Done
<1>5. CASE InThreadCall \/ Run \/ RunReturns \/ Kill \/ Destroyed
  BY <1>5 DEF InThreadCall, Run, RunReturns, Kill, Destroyed
<1>6. CASE Destroy
  BY <1>6 DEF Destroy, Channel!Send
<1>7. ASSUME NEW f \in File, Erase(f) PROVE TypeOK'
  BY <1>7 DEF Erase, Channel!Send
<1>8. CASE UNCHANGED vars
  BY <1>8 DEF vars
<1> QED
  BY <1>1, <1>2, <1>3, <1>4, <1>5, <1>6, <1>7, <1>8 DEF Next, ThreadStep, OwnerStep

(* Loop and calls keep to their parts of EThread.  When kill() finds no thread, *)
(* or has joined it, the thread is gone, and only run() could make another.     *)
LEMMA CallsMatchKept == IInv /\ [Next]_vars => CallsMatch'
<1> SUFFICES ASSUME IInv, [Next]_vars PROVE CallsMatch'
  OBVIOUS
<1> USE DEF IInv, CallsMatch, Thread!AliveKept, Thread!Step, At, Call
<1>1. CASE Starting
  BY <1>1 DEF Starting, Thread!HasStarted
<1>2. CASE Started
  BY <1>2 DEF Started, Thread!Up
<1>3. CASE Reset \/ Iterate \/ Take \/ PollEnds \/ GotMessage
  BY <1>3 DEF Reset, Iterate, Take, PollEnds, GotMessage, thread_vars, TypeOK
<1>4. CASE Leave
  BY <1>4 DEF Leave, Thread!Finish
<1>5. CASE Complete
  BY <1>5 DEF Complete, Thread!NotAlive, Thread!Recover, Thread!Finished
<1>6. CASE InThreadCall
  <2>1. CASE Thread!SyncDown \/ Thread!SyncRead \/ Thread!SyncUp
    BY <1>6, <2>1 DEF InThreadCall, Thread!SyncDown, Thread!SyncRead, Thread!SyncUp
  <2>2. CASE Thread!Down \/ Thread!SetAlive \/ Thread!SetNotStarted \/ Thread!SendCancel
    BY <1>6, <2>2 DEF InThreadCall, Thread!Down, Thread!SetAlive, Thread!SetNotStarted,
                      Thread!SendCancel
  <2>3. CASE Thread!Join
    BY <1>6, <2>3 DEF InThreadCall, Thread!Join
  <2>4. CASE Thread!Create \/ Thread!CreateFails
    BY <1>6, <2>4 DEF InThreadCall, Thread!Create, Thread!CreateFails
  <2> QED
    BY <1>6, <2>1, <2>2, <2>3, <2>4 DEF InThreadCall, Thread!OwnerStep
<1>7. CASE Run \/ RunReturns
  BY <1>7 DEF Run, RunReturns, Thread!Run, thread_vars
<1>8. CASE Kill \/ Destroyed
  BY <1>8 DEF Kill, Destroyed, Thread!Kill, thread_vars
<1>9. CASE Destroy \/ \E f \in File : Erase(f)
  BY <1>9 DEF Destroy, Erase, thread_vars
<1>10. CASE UNCHANGED vars
  BY <1>10 DEF vars, thread_vars
<1> QED
  BY <1>1, <1>2, <1>3, <1>4, <1>5, <1>6, <1>7, <1>8, <1>9, <1>10
     DEF Next, ThreadStep, OwnerStep

(* No step leaves the invariant.                                               *)
THEOREM Inductive == IInv /\ [Next]_vars => IInv'
  BY StepsOfTheThread, ThreadMoves, TypesKept, CallsMatchKept DEF IInv

(* The inductive invariant holds in every reachable state.                     *)
THEOREM EraserInvariant == Spec => []IInv
  BY Initially, Inductive, PTL DEF Spec

(* When the destructor has returned, the thread is out of its loop and past     *)
(* thread_finished(): the object and its pump may go.                          *)
THEOREM DestroyedForGood == Spec => []GoneForGood
<1>1. IInv => GoneForGood
  BY DEF IInv, CallsMatch, GoneForGood
<1> QED
  BY EraserInvariant, <1>1, PTL
================================================================================
