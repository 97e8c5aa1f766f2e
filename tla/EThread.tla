------------------------------- MODULE EThread -------------------------------
(***************************************************************************)
(* eThread (lib/base/thread.cpp): one thread object, the thread it starts  *)
(* and the thread that owns it.  The semaphore m_state tells the owner     *)
(* that the new thread finished its initialisation (or died).  The owner's *)
(* calls and the end of the thread are cut where the other side can get in *)
(* between.                                                                *)
(***************************************************************************)
EXTENDS Integers

CONSTANTS
  OwnerJoins,    \* whether the owner calls kill() before it calls run() again
  CreateMayFail  \* whether pthread_create may fail

ASSUME ThreadAssumption == OwnerJoins \in BOOLEAN /\ CreateMayFail \in BOOLEAN

VARIABLES
  m_state,     \* value of the semaphore
  m_alive, m_started,
  the_thread,  \* 1 while a thread was created that is not joined
  tpc,         \* the thread: "gone", in its "body" before or "ready" after
               \* hasStarted(), "starting" in it, at "end1" .. "end5" of
               \* thread_completed
  opc,         \* the owner: "idle", in "run1" .. "run9", in "kill1" .. "kill4",
               \* in "sync1", "sync2"; with an "r" when sync() has read m_alive
  alive,       \* what the last sync() returned
  cancel,      \* whether the kill() under way was "asked" for a pthread_cancel,
               \* or has "sent" it; else "no"
  program,     \* "runs", or is "dead": an ASSERT failed or sync() called eFatal
  create_failed \* history: 1 once a pthread_create has failed

vars == <<m_state, m_alive, m_started, the_thread, tpc, opc, alive, cancel, program,
          create_failed>>

Init ==
  /\ m_state = 1 /\ m_alive = 0
  /\ m_started \in 0 .. 1         \* the constructor leaves it alone
  /\ the_thread = 0
  /\ tpc = "gone" /\ opc = "idle" /\ alive = 0 /\ cancel = "no"
  /\ program = "runs" /\ create_failed = 0

\* A step of the owner or of the thread that runs the ASSERTs in "holds".
Step(pc, holds) ==
  program = "runs" /\ pc /\ program' = IF holds THEN "runs" ELSE "dead"

-----------------------------------------------------------------------------
(* The owner.  run() is sync, start, join, create, sync. *)

Run ==
  /\ Step(opc = "idle", TRUE)
  /\ OwnerJoins => the_thread = 0
  /\ opc' = "run1"
  /\ UNCHANGED <<m_state, m_alive, m_started, the_thread, tpc, alive, cancel, create_failed>>

\* kill() of a thread that is joined already returns at once.
Kill(sendcancel) ==
  /\ Step(opc = "idle", TRUE)
  /\ opc' = IF the_thread = 1 THEN "kill1" ELSE "idle"
  /\ cancel' = IF sendcancel /\ the_thread = 1 THEN "asked" ELSE "no"
  /\ UNCHANGED <<m_state, m_alive, m_started, the_thread, tpc, alive, create_failed>>

Sync ==
  /\ Step(opc = "idle", TRUE)
  /\ opc' = "sync1"
  /\ UNCHANGED <<m_state, m_alive, m_started, the_thread, tpc, alive, cancel, create_failed>>

\* sync(): m_state.down() ...
SyncDown ==
  \E p \in {<<"run1", "run2">>, <<"run8", "run9">>, <<"kill1", "kill2">>,
            <<"sync1", "sync2">>} :
    /\ Step(opc = p[1] /\ m_state > 0, TRUE)
    /\ m_state' = m_state - 1
    /\ opc' = p[2]
    /\ UNCHANGED <<m_alive, m_started, the_thread, tpc, alive, cancel, create_failed>>

\* ... m_alive is read ...
SyncRead ==
  \E p \in {<<"run2", "run2r">>, <<"run9", "run9r">>, <<"kill2", "kill2r">>,
            <<"sync2", "sync2r">>} :
    /\ Step(opc = p[1], TRUE)
    /\ alive' = m_alive
    /\ opc' = p[2]
    /\ UNCHANGED <<m_state, m_alive, m_started, the_thread, tpc, cancel, create_failed>>

\* ... the value checked, and m_state.up().  A run() that has found the thread
\* alive gives up.
SyncUp ==
  \E p \in {<<"run2r", IF alive = 1 THEN "idle" ELSE "run3">>, <<"run9r", "idle">>,
            <<"kill2r", "kill3">>, <<"sync2r", "idle">>} :
    /\ Step(opc = p[1], m_state = 0)
    /\ m_state' = m_state + 1
    /\ opc' = p[2]
    /\ UNCHANGED <<m_alive, m_started, the_thread, tpc, alive, cancel, create_failed>>

\* [slip] runAsync forgets to take the semaphore for the thread to give
Down_Forgotten ==
  /\ Step(opc = "run3", m_state = 1 /\ m_alive = 0)
  /\ opc' = "run4"
  /\ UNCHANGED <<m_state, m_alive, m_started, the_thread, tpc, alive, cancel, create_failed>>

\* runAsync: m_state.down() ...
Down ==
  /\ Step(opc = "run3" /\ m_state > 0, m_state = 1 /\ m_alive = 0)
  /\ m_state' = m_state - 1
  /\ opc' = "run4"
  /\ UNCHANGED <<m_alive, m_started, the_thread, tpc, alive, cancel, create_failed>>

\* ... the thread to come counts as alive ...
SetAlive ==
  /\ Step(opc = "run4", TRUE)
  /\ m_alive' = 1
  /\ opc' = "run5"
  /\ UNCHANGED <<m_state, m_started, the_thread, tpc, alive, cancel, create_failed>>

\* ... and as not started.
SetNotStarted ==
  /\ Step(opc = "run5", TRUE)
  /\ m_started' = 0
  /\ opc' = "run6"
  /\ UNCHANGED <<m_state, m_alive, the_thread, tpc, alive, cancel, create_failed>>

\* [slip] kill() cancels only threads that are dead
SendCancel_Dead ==
  /\ Step(opc = "kill3", TRUE)
  /\ cancel' = IF alive = 0 /\ cancel = "asked" THEN "sent" ELSE "no"
  /\ opc' = "kill4"
  /\ UNCHANGED <<m_state, m_alive, m_started, the_thread, tpc, alive, create_failed>>

\* kill() cancels a thread that sync() found alive, if it was asked to.
SendCancel ==
  /\ Step(opc = "kill3", TRUE)
  /\ cancel' = IF alive = 1 /\ cancel = "asked" THEN "sent" ELSE "no"
  /\ opc' = "kill4"
  /\ UNCHANGED <<m_state, m_alive, m_started, the_thread, tpc, alive, create_failed>>

\* [slip] kill() does not wait for the thread
Join_NoWait ==
  \E p \in {<<"run6", "run7">>, <<"kill4", "idle">>} :
    /\ Step(opc = p[1], TRUE)
    /\ the_thread' = 0 /\ cancel' = "no"
    /\ opc' = p[2]
    /\ UNCHANGED <<m_state, m_alive, m_started, tpc, alive, create_failed>>

\* pthread_join of the thread before, in runAsync and in kill
Join ==
  \E p \in {<<"run6", "run7">>, <<"kill4", "idle">>} :
    /\ Step(opc = p[1] /\ (the_thread = 1 => tpc = "gone"), TRUE)
    /\ the_thread' = 0 /\ cancel' = "no"
    /\ opc' = p[2]
    /\ UNCHANGED <<m_state, m_alive, m_started, tpc, alive, create_failed>>

Create ==
  /\ Step(opc = "run7", TRUE)
  /\ the_thread' = 1 /\ tpc' = "body" /\ opc' = "run8"
  /\ UNCHANGED <<m_state, m_alive, m_started, alive, cancel, create_failed>>

CreateFails ==
  /\ CreateMayFail /\ Step(opc = "run7", TRUE)
  /\ m_alive' = 0 /\ opc' = "idle" /\ create_failed' = 1
  /\ UNCHANGED <<m_state, m_started, the_thread, tpc, alive, cancel>>

-----------------------------------------------------------------------------
(* The thread *)

\* hasStarted(), called by thread() or in thread_completed: m_started = 1 ...
HasStarted ==
  \E p \in {<<"body", "starting">>, <<"end3", "end4">>} :
    /\ Step(tpc = p[1], m_state = 0)
    /\ m_started' = 1
    /\ tpc' = p[2]
    /\ UNCHANGED <<m_state, m_alive, the_thread, opc, alive, cancel, create_failed>>

\* ... and m_state.up()
Up ==
  \E p \in {<<"starting", "ready">>, <<"end4", "end5">>} :
    /\ Step(tpc = p[1], TRUE)
    /\ m_state' = m_state + 1
    /\ tpc' = p[2]
    /\ UNCHANGED <<m_alive, m_started, the_thread, opc, alive, cancel, create_failed>>

\* thread() returns or is cancelled, before or after hasStarted()
Finish ==
  /\ Step(tpc \in {"body", "ready"}, TRUE)
  /\ tpc' = "end1"
  /\ UNCHANGED <<m_state, m_alive, m_started, the_thread, opc, alive, cancel, create_failed>>

\* thread_completed: m_alive = 0 ...
NotAlive ==
  /\ Step(tpc = "end1", TRUE)
  /\ m_alive' = 0
  /\ tpc' = "end2"
  /\ UNCHANGED <<m_state, m_started, the_thread, opc, alive, cancel, create_failed>>

\* [slip] a thread that ends before hasStarted() gives the semaphore to nobody
Recover_Silent ==
  /\ Step(tpc = "end2", TRUE)
  /\ tpc' = "end5"
  /\ UNCHANGED <<m_state, m_alive, m_started, the_thread, opc, alive, cancel, create_failed>>

\* ... hasStarted() if nobody called it ...
Recover ==
  /\ Step(tpc = "end2", TRUE)
  /\ tpc' = IF m_started = 1 THEN "end5" ELSE "end3"
  /\ UNCHANGED <<m_state, m_alive, m_started, the_thread, opc, alive, cancel, create_failed>>

\* ... and thread_finished().
Finished ==
  /\ Step(tpc = "end5", TRUE)
  /\ tpc' = "gone"
  /\ UNCHANGED <<m_state, m_alive, m_started, the_thread, opc, alive, cancel, create_failed>>

-----------------------------------------------------------------------------
OwnerStep == SyncDown \/ SyncRead \/ SyncUp \/ Down \/ SetAlive \/ SetNotStarted \/ Join \/ Create
             \/ CreateFails \/ SendCancel
ThreadStep == HasStarted \/ Up \/ NotAlive \/ Recover \/ Finished

Next == Run \/ Sync \/ (\E c \in BOOLEAN : Kill(c)) \/ OwnerStep \/ ThreadStep \/ Finish

Spec == Init /\ [][Next]_vars

\* Both threads are scheduled; thread() need not end unless it is cancelled.
FairSpec == Spec /\ WF_vars(OwnerStep) /\ WF_vars(ThreadStep)
                 /\ WF_vars(cancel = "sent" /\ Finish)

-----------------------------------------------------------------------------
ThreadPlace ==
  {"gone", "body", "starting", "ready", "end1", "end2", "end3", "end4", "end5"}
OwnerPlace ==
  {"idle", "run1", "run2", "run2r", "run3", "run4", "run5", "run6", "run7", "run8", "run9",
   "run9r", "kill1", "kill2", "kill2r", "kill3", "kill4", "sync1", "sync2", "sync2r"}

TypeOK ==
  /\ m_state \in 0 .. 1
  /\ m_alive \in 0 .. 1 /\ m_started \in 0 .. 1 /\ the_thread \in 0 .. 1
  /\ tpc \in ThreadPlace /\ opc \in OwnerPlace
  /\ cancel \in {"no", "asked", "sent"} /\ alive \in 0 .. 1
  /\ program \in {"runs", "dead"} /\ create_failed \in 0 .. 1

\* No ASSERT of thread.cpp fails, and sync() never finds the semaphore taken.
NoFatal == program = "runs"

\* run() returns only when the new thread is past its initialisation or dead.
RunWaits == opc = "idle" => tpc \notin {"body", "starting"}

\* When kill() has returned, nothing of the thread runs any more, not even
\* thread_finished(): its owner may be destroyed.
KillWaits == opc = "idle" /\ the_thread = 0 => tpc = "gone"

\* Inside sync() the owner has the semaphore.
InSync == opc \in {"run2", "run2r", "run9", "run9r", "kill2", "kill2r", "sync2", "sync2r"}

\* A thread that was announced has not given its semaphore yet.
Announcing == opc \in {"run4", "run5", "run6", "run7"}
Announced ==
  \/ Announcing
  \/ tpc \in {"body", "starting", "end3", "end4"}
  \/ tpc \in {"end1", "end2"} /\ m_started = 0

\* sync() waits while the thread initialises itself, and no longer, however that
\* thread ends; only a pthread_create that has failed leaves it waiting for good.
Syncing == opc \in {"run1", "run8", "kill1", "sync1"}
SyncReturns == Syncing ~> ~Syncing \/ create_failed = 1

\* kill(true) ends a thread that would not end by itself, and returns.
CancelReturns == cancel = "asked" ~> opc = "idle"

\* The semaphore is taken exactly while the owner is inside sync() or a thread
\* is announced.  A failed pthread_create leaves it taken, with no thread to give
\* it: no call but one that finds nothing to join gets through any more.
SemaphoreKept ==
  /\ m_state = 1 => ~Announced /\ ~InSync
  /\ m_state = 0 /\ create_failed = 0 => Announced \/ InSync
  /\ Announced => Announcing \/ opc = "run8"
  /\ create_failed = 1 => /\ CreateMayFail /\ m_state = 0 /\ the_thread = 0
                          /\ opc \in {"idle", "run1", "sync1"}

\* Where owner and thread can be at the same time.
Places ==
  /\ Announcing \/ opc \in {"run1", "run2", "run2r", "run3"} => the_thread = 0
  /\ opc \in {"run8", "run9", "run9r", "kill1", "kill2", "kill2r", "kill3", "kill4"}
       => the_thread = 1
  /\ opc = "run3" => m_state = 1
  /\ the_thread = 0 => tpc = "gone"
  /\ opc \in {"run6", "run7"} => m_started = 0
  /\ tpc \in {"body", "end3"} => m_started = 0
  /\ tpc \in {"starting", "ready", "end4", "end5"} => m_started = 1
  /\ m_alive = 1 => opc \in {"run5", "run6", "run7"} \/ tpc \in {"body", "starting", "ready", "end1"}

\* What m_alive and the_thread say of the thread, whether the owner joins or not:
\* the semaphore may be lost in a race then, these two are not.  A sync() that has
\* read m_alive as cleared returns what still holds.
AliveKept ==
  /\ m_alive \in 0 .. 1 /\ the_thread \in 0 .. 1 /\ alive \in 0 .. 1
  /\ tpc \in ThreadPlace /\ opc \in OwnerPlace
  /\ m_alive = 1 <=> \/ tpc \in {"body", "starting", "ready", "end1"}
                    \/ opc \in {"run5", "run6", "run7"}
  /\ opc \in {"run3", "run4", "run5", "run6", "run7"}
       => tpc \notin {"body", "starting", "ready", "end1"}
  /\ opc \in {"run2r", "run9r", "kill2r", "sync2r"} /\ alive = 0 => m_alive = 0
  /\ the_thread = 0 \/ opc = "run7" => tpc = "gone"

\* The inductive invariant, for an owner that joins.
IInv == TypeOK /\ NoFatal /\ SemaphoreKept /\ Places
=============================================================================
