---------------------------- MODULE FilePush_proofs ----------------------------
(***************************************************************************)
(* Proofs about FilePush, for any sizes of packets, buffer, spans and FIFO,  *)
(* any file and any seeks.                                                  *)
(*                                                                          *)
(* That the main thread has the buffer for itself when it flushes it         *)
(* (StopLeavesLoop) comes first; the order of the bytes (InOrder) and that    *)
(* seeks come before the data (RequestsFirst) rest on it.                    *)
(***************************************************************************)
EXTENDS FilePush, TLAPS

TP == INSTANCE EThread_proofs WITH OwnerJoins <- FALSE, CreateMayFail <- FALSE, create_failed <- 0

(* Any step of the thread object keeps m_alive and the_thread truthful.        *)
LEMMA ThreadMoves ==
  Thread!AliveKept /\ (Thread!Next \/ UNCHANGED thread_vars) => Thread!AliveKept'
<1>1. TP!AliveKept /\ [TP!Next]_(TP!vars) => TP!AliveKept'
  BY TP!AliveInductive
<1>2. Thread!AliveKept <=> TP!AliveKept
  BY DEF Thread!AliveKept, TP!AliveKept, Thread!ThreadPlace, TP!ThreadPlace, Thread!OwnerPlace, TP!OwnerPlace
<1>3. Thread!AliveKept' <=> TP!AliveKept'
  BY DEF Thread!AliveKept, TP!AliveKept, Thread!ThreadPlace, TP!ThreadPlace, Thread!OwnerPlace, TP!OwnerPlace
<1>4. Thread!Next <=> TP!Next
  BY DEF Thread!Next, TP!Next, Thread!OwnerStep, TP!OwnerStep,
      Thread!ThreadStep, TP!ThreadStep, Thread!Run, TP!Run, Thread!Kill,
      TP!Kill, Thread!Sync, TP!Sync, Thread!SyncDown, TP!SyncDown,
      Thread!SyncRead, TP!SyncRead, Thread!SyncUp, TP!SyncUp, Thread!Down, TP!Down, Thread!SetAlive,
      TP!SetAlive, Thread!SetNotStarted, TP!SetNotStarted, Thread!SendCancel,
      TP!SendCancel, Thread!Join, TP!Join, Thread!Create, TP!Create,
      Thread!CreateFails, TP!CreateFails, Thread!HasStarted, TP!HasStarted,
      Thread!Up, TP!Up, Thread!Finish, TP!Finish, Thread!NotAlive, TP!NotAlive,
      Thread!Recover, TP!Recover, Thread!Finished, TP!Finished, Thread!Step,
      TP!Step
<1> QED
  BY <1>1, <1>2, <1>3, <1>4 DEF thread_vars, TP!vars

(* Every step is a step of the thread object or leaves it alone.               *)
LEMMA StepsOfTheThread == [Next]_vars => Thread!Next \/ UNCHANGED thread_vars
<1> SUFFICES ASSUME [Next]_vars PROVE Thread!Next \/ UNCHANGED thread_vars
  OBVIOUS
<1> USE DEF Thread!Next, Thread!OwnerStep, Thread!ThreadStep
<1>1. CASE HasStarted \/ Up \/ Complete
  BY <1>1 DEF HasStarted, Up, Complete
<1>2. CASE Top \/ WriteError
  BY <1>2 DEF Top, Leave, WriteError
<1>3. CASE EnterWrite \/ CopyByte \/ NextSpan \/ Read \/ ReadError \/ Eof
  BY <1>3 DEF EnterWrite, CopyByte, NextSpan, Read, ReadError, Eof
<1>4. CASE InThreadCall \/ Kill \/ Resume \/ Delete
  BY <1>4 DEF InThreadCall, Kill, Resume, Delete
<1>5. CASE SetStop \/ Signal \/ Joined \/ Flush \/ Resumed \/ Deleted
  BY <1>5 DEF SetStop, Signal, Joined, Flush, Resumed, Deleted
<1>6. CASE StopSource \/ \E t \in Target : Seek(t)
  BY <1>6 DEF StopSource, Seek
<1>7. CASE Decode \/ Grow
  BY <1>7 DEF Decode, Grow
<1>8. CASE UNCHANGED vars
  BY <1>8 DEF vars
<1> QED
  BY <1>1, <1>2, <1>3, <1>4, <1>5, <1>6, <1>7, <1>8 DEF Next, ThreadStep, OwnerStep

(* The sizes are natural numbers.                                              *)
LEMMA Sizes == /\ FileLen \in Nat /\ SpanSize \in Nat /\ FifoSize \in Nat /\ MaxSeeks \in Nat
               /\ BlockSize \in Nat \ {0} /\ BufferSize \in Nat \ {0}
  BY PushAssumption

(* Whole packets are no more than what was read.                               *)
LEMMA WholePackets == ASSUME NEW g \in Nat, NEW b \in Nat \ {0}
                      PROVE  (g \div b) * b \in 0 .. g
  OBVIOUS

(* A read stays within the span, and within the file if there is any left.     *)
LEMMA ReadIsBounded ==
  ASSUME TypeOK
  PROVE  /\ Aligned \in 0 .. SpanSize /\ Aligned <= span
         /\ m_current_position + Aligned \in 0 .. FileLen
<1>1. /\ Got \in Nat /\ Got <= span
      /\ Got = 0 \/ m_current_position + Got <= file_len
  BY PushAssumption DEF TypeOK, Got, Least
<1>2. Aligned \in 0 .. Got
  BY <1>1, WholePackets, PushAssumption DEF Aligned
<1>3. /\ span \in 0 .. SpanSize /\ m_current_position \in 0 .. FileLen
      /\ file_len \in 0 .. FileLen /\ SpanSize \in Nat /\ FileLen \in Nat
  BY Sizes DEF TypeOK
<1> QED
  BY <1>1, <1>2, <1>3

-----------------------------------------------------------------------------
(* Before the first run() nothing is read and nobody has sought.               *)
THEOREM Initially == Init => IInv
<1> SUFFICES ASSUME Init PROVE IInv
  OBVIOUS
<1>1. TypeOK
  <2>1. m_seek_requests \in Seq(Target)
    BY DEF Init
  <2>2. 0 \in 0 .. FileLen /\ 0 \in 0 .. SpanSize /\ 0 \in 0 .. FifoSize
        /\ MaxSeeks \in 0 .. MaxSeeks
    BY PushAssumption
  <2>3. closing \in BOOLEAN /\ cut \in BOOLEAN /\ failed \in {"never", "now", "before"}
    BY DEF Init
  <2>4. m_stop \in 0 .. 1 /\ wpc = "out" /\ call = "start"
    BY DEF Init
  <2>5. /\ buf_start \in 0 .. FileLen /\ buf_end \in 0 .. FileLen
        /\ m_current_position \in 0 .. FileLen /\ due \in 0 .. FileLen
        /\ file_len \in 0 .. FileLen
    BY <2>2 DEF Init
  <2>6. span \in 0 .. SpanSize /\ fifo \in 0 .. FifoSize /\ seeks_left \in 0 .. MaxSeeks
    BY <2>2 DEF Init
  <2> QED
    BY <2>1, <2>3, <2>4, <2>5, <2>6 DEF TypeOK
<1>2. Thread!AliveKept /\ StopLeavesLoop
  BY DEF Init, Thread!Init, Thread!AliveKept, Thread!ThreadPlace, Thread!OwnerPlace,
         StopLeavesLoop
<1>3. InOrder /\ RequestsFirst
  BY DEF Init, InOrder, Position, RequestsFirst
<1>4. JoinedSoFar
  <2>1. JoinedThread!IInv
    BY DEF Init, Thread!Init, JoinedThread!IInv, JoinedThread!TypeOK, JoinedThread!NoFatal,
           JoinedThread!SemaphoreKept, JoinedThread!Places, JoinedThread!Announced,
           JoinedThread!Announcing, JoinedThread!InSync, JoinedThread!ThreadPlace,
           JoinedThread!OwnerPlace
  <2>2. StopJoins
    BY DEF Init, Thread!Init, StopJoins
  <2> QED
    BY <2>1, <2>2 DEF JoinedSoFar
<1> QED
  BY <1>1, <1>2, <1>3, <1>4 DEF IInv

-----------------------------------------------------------------------------
(* Offsets stay inside the file, spans, the FIFO and the requests within their *)
(* bounds.                                                                     *)
LEMMA TypesKept == IInv /\ [Next]_vars => TypeOK'
<1> SUFFICES ASSUME TypeOK, InOrder, [Next]_vars PROVE TypeOK'
  BY DEF IInv
<1> USE Sizes DEF TypeOK, data, outside, owner, At, Call
<1>1. CASE HasStarted
  BY <1>1 DEF HasStarted
<1>2. CASE Up
  BY <1>2 DEF Up
<1>3. CASE Top
  BY <1>3 DEF Top, Leave
<1>4. CASE EnterWrite
  BY <1>4 DEF EnterWrite
<1>5. CASE CopyByte
  <2>1. cut' \in BOOLEAN /\ closing' \in BOOLEAN /\ failed' \in {"never", "now", "before"}
    BY <1>5 DEF CopyByte
  <2> QED
    BY <1>5, <2>1 DEF CopyByte, InOrder
<1>6. CASE WriteError
  BY <1>6 DEF WriteError
<1>7. CASE NextSpan
  <2>1. CASE span > 0
    BY <1>7, <2>1 DEF NextSpan
  <2>2. CASE ~(span > 0)
    <3>1. \A i \in DOMAIN m_seek_requests : m_seek_requests[i] \in 0 .. FileLen
      BY PushAssumption
    <3>2. cut' \in BOOLEAN /\ closing' \in BOOLEAN /\ failed' \in {"never", "now", "before"}
      BY <1>7, <2>2 DEF NextSpan
    <3>3. m_current_position' \in 0 .. FileLen /\ due' \in 0 .. FileLen
      BY <1>7, <2>2, <3>1 DEF NextSpan
    <3> QED
      BY <1>7, <2>2, <3>2, <3>3 DEF NextSpan
  <2> QED
    BY <2>1, <2>2
<1>8. CASE Read
  BY <1>8, ReadIsBounded DEF Read
<1>26. CASE ReadError
  BY <1>26 DEF ReadError
<1>9. CASE Eof
  BY <1>9 DEF Eof
<1>10. CASE Complete
  BY <1>10 DEF Complete
<1>11. CASE InThreadCall
  BY <1>11 DEF InThreadCall
<1>12. CASE SetStop
  BY <1>12 DEF SetStop
<1>13. CASE Signal
  BY <1>13 DEF Signal
<1>14. CASE Kill
  BY <1>14 DEF Kill
<1>15. CASE Joined
  BY <1>15 DEF Joined
<1>16. CASE Flush
  <2>1. cut' \in BOOLEAN /\ closing' \in BOOLEAN /\ failed' \in {"never", "now", "before"}
    BY <1>16 DEF Flush
  <2>2. /\ buf_start' \in 0 .. FileLen /\ buf_end' \in 0 .. FileLen /\ due' \in 0 .. FileLen
        /\ m_current_position' \in 0 .. FileLen /\ file_len' \in 0 .. FileLen
    BY <1>16 DEF Flush
  <2>3. /\ m_stop' = m_stop /\ wpc' = wpc /\ span' = span /\ fifo' = fifo /\ call' = "start"
        /\ m_seek_requests' = m_seek_requests /\ seeks_left' = seeks_left
    BY <1>16 DEF Flush
  <2> QED
    BY <2>1, <2>2, <2>3
<1>17. CASE Resume
  <2>1. cut' \in BOOLEAN /\ closing' \in BOOLEAN /\ failed' \in {"never", "now", "before"}
    BY <1>17 DEF Resume
  <2>2. /\ m_stop' = 0 /\ call' = "run"
        /\ UNCHANGED <<wpc, buf_start, buf_end, m_current_position, span, due, file_len,
                       m_seek_requests, seeks_left, fifo>>
    BY <1>17 DEF Resume
  <2> QED
    BY <2>1, <2>2
<1>18. CASE Resumed
  BY <1>18 DEF Resumed
<1>19. CASE Delete
  BY <1>19 DEF Delete
<1>20. CASE Deleted
  BY <1>20 DEF Deleted
<1>21. CASE StopSource
  BY <1>21 DEF StopSource
<1>22. ASSUME NEW t \in Target, Seek(t) PROVE TypeOK'
  BY <1>22 DEF Seek
<1>23. CASE Decode
  BY <1>23 DEF Decode
<1>24. CASE Grow
  BY <1>24 DEF Grow
<1>25. CASE UNCHANGED vars
  BY <1>25 DEF vars
<1> QED
  BY <1>1, <1>2, <1>3, <1>4, <1>5, <1>6, <1>7, <1>8, <1>9, <1>10, <1>11, <1>12,
     <1>13, <1>14, <1>15, <1>16, <1>17, <1>18, <1>19, <1>20, <1>21, <1>22,
     <1>23, <1>24, <1>25, <1>26
     DEF Next, ThreadStep, OwnerStep

-----------------------------------------------------------------------------
(* Loop and calls keep to their parts of EThread.  stop() is over when it found *)
(* the thread dead or has joined it, and only run() makes another.             *)
LEMMA LeavesLoopKept == IInv /\ [Next]_vars => StopLeavesLoop'
<1> SUFFICES ASSUME IInv, [Next]_vars PROVE StopLeavesLoop'
  OBVIOUS
<1> USE DEF IInv, StopLeavesLoop, Thread!AliveKept, Thread!Step, At, Call, data, owner, outside
<1>1. CASE HasStarted
  BY <1>1 DEF HasStarted, Thread!HasStarted
<1>2. CASE Up
  BY <1>2 DEF Up, Thread!Up
<1>3. CASE Top
  BY <1>3 DEF Top, Leave, Thread!Finish, thread_vars
<1>4. CASE EnterWrite \/ Eof
  BY <1>4 DEF EnterWrite, Eof, thread_vars
<1>5. CASE CopyByte
  BY <1>5 DEF CopyByte, thread_vars
<1>6. CASE WriteError
  BY <1>6 DEF WriteError, Thread!Finish
<1>7. CASE NextSpan
  BY <1>7 DEF NextSpan, thread_vars
<1>8. CASE Read \/ ReadError
  BY <1>8 DEF Read, ReadError, thread_vars
<1>9. CASE Complete
  BY <1>9 DEF Complete, Thread!NotAlive, Thread!Recover, Thread!Finished
<1>10. CASE InThreadCall
  <2>1. CASE Thread!SyncDown
    BY <1>10, <2>1 DEF InThreadCall, Thread!SyncDown
  <2>2. CASE Thread!SyncRead \/ Thread!SyncUp
    BY <1>10, <2>2 DEF InThreadCall, Thread!SyncRead, Thread!SyncUp
  <2>3. CASE Thread!Down \/ Thread!SetAlive \/ Thread!SetNotStarted \/ Thread!SendCancel
    BY <1>10, <2>3 DEF InThreadCall, Thread!Down, Thread!SetAlive, Thread!SetNotStarted,
                       Thread!SendCancel
  <2>4. CASE Thread!Join
    BY <1>10, <2>4 DEF InThreadCall, Thread!Join
  <2>5. CASE Thread!Create \/ Thread!CreateFails
    BY <1>10, <2>5 DEF InThreadCall, Thread!Create, Thread!CreateFails
  <2> QED
    BY <1>10, <2>1, <2>2, <2>3, <2>4, <2>5 DEF InThreadCall, Thread!OwnerStep
<1>11. CASE SetStop
  BY <1>11 DEF SetStop, thread_vars
<1>12. CASE Signal
  BY <1>12 DEF Signal, thread_vars
<1>13. CASE Kill \/ Delete
  BY <1>13 DEF Kill, Delete, Thread!Kill
<1>14. CASE Joined \/ Deleted
  BY <1>14 DEF Joined, Deleted, thread_vars
<1>15. CASE Flush
  BY <1>15 DEF Flush, thread_vars
<1>16. CASE Resume
  <2>1. /\ opc' = "run1" /\ call' = "run" /\ call = "start"
        /\ m_alive' = m_alive /\ tpc' = tpc /\ wpc' = wpc
    BY <1>16 DEF Resume, Thread!Run
  <2> QED
    BY <2>1
<1>17. CASE Resumed
  BY <1>17 DEF Resumed, thread_vars
<1>18. CASE StopSource \/ \E t \in Target : Seek(t)
  BY <1>18 DEF StopSource, Seek, Thread!Sync
<1>19. CASE Decode \/ Grow \/ UNCHANGED vars
  BY <1>19 DEF Decode, Grow, vars, thread_vars
<1> QED
  BY <1>1, <1>2, <1>3, <1>4, <1>5, <1>6, <1>7, <1>8, <1>9, <1>10, <1>11, <1>12,
     <1>13, <1>14, <1>15, <1>16, <1>17, <1>18, <1>19
     DEF Next, ThreadStep, OwnerStep

(* A call that finds stop() over finds the thread out of its loop.             *)
LEMMA LoopIsLeft ==
  Thread!AliveKept /\ StopLeavesLoop /\ call \in {"stopped", "start", "delete", "deleted"}
    => wpc = "out"
  BY DEF Thread!AliveKept, StopLeavesLoop

(* What is read follows what was read before, and a flush drops the rest of a   *)
(* buffer, never something behind the place it goes on from.                   *)
LEMMA OrderKept == IInv /\ [Next]_vars => InOrder'
<1> SUFFICES ASSUME IInv, TypeOK, InOrder, Thread!AliveKept, StopLeavesLoop, [Next]_vars
             PROVE InOrder'
  BY DEF IInv
<1> USE DEF InOrder, Position, At, Call, data, owner, outside
<1>1. CASE HasStarted \/ Complete \/ InThreadCall
  BY <1>1 DEF HasStarted, Complete, InThreadCall
<1>2. CASE Up
  BY <1>2 DEF Up
<1>3. CASE Top
  BY <1>3 DEF Top, Leave
<1>4. CASE EnterWrite \/ Eof
  BY <1>4 DEF EnterWrite, Eof
<1>5. CASE CopyByte
  BY <1>5 DEF CopyByte, TypeOK
<1>6. CASE WriteError
  BY <1>6 DEF WriteError
<1>7. CASE NextSpan
  <2>1. CASE UNCHANGED <<m_current_position, due, cut>>
    BY <1>7, <2>1 DEF NextSpan
  <2>2. CASE m_current_position' = due'
    <3>1. m_current_position' \in 0 .. FileLen
      <4>1. TypeOK'
        BY TypesKept
      <4> QED
        BY <4>1 DEF TypeOK
    <3> QED
      BY <1>7, <2>2, <3>1 DEF NextSpan
  <2> QED
    BY <1>7, <2>1, <2>2 DEF NextSpan
<1>8. CASE Read \/ ReadError
  BY <1>8, ReadIsBounded DEF Read, ReadError, TypeOK
<1>9. CASE SetStop \/ Signal \/ Kill \/ Joined \/ Resumed \/ Delete \/ Deleted
  BY <1>9 DEF SetStop, Signal, Kill, Joined, Resumed, Delete, Deleted
<1>10. CASE Flush
  <2>1. wpc' = "out"
    BY <1>10, LoopIsLeft DEF Flush
  <2>2. m_current_position \in Nat /\ due \in Nat /\ buf_start \in Nat /\ buf_end \in Nat
    BY DEF TypeOK
  <2>3. /\ buf_start' = buf_end' /\ m_current_position' = m_current_position /\ due' = due
        /\ buf_start # buf_end => cut'
        /\ cut => cut'
    BY <1>10 DEF Flush
  <2>4. due <= m_current_position /\ (due = m_current_position \/ cut')
    BY <2>2, <2>3
  <2> QED
    BY <2>1, <2>3, <2>4
<1>11. CASE Resume
  BY <1>11 DEF Resume
<1>12. CASE StopSource \/ \E t \in Target : Seek(t)
  BY <1>12 DEF StopSource, Seek
<1>13. CASE Decode \/ Grow \/ UNCHANGED vars
  BY <1>13 DEF Decode, Grow, vars
<1> QED
  BY <1>1, <1>2, <1>3, <1>4, <1>5, <1>6, <1>7, <1>8, <1>9, <1>10, <1>11, <1>12, <1>13
     DEF Next, ThreadStep, OwnerStep

(* The thread that comes back after a flush has no span and nothing to write:   *)
(* it asks for a span, and takes the requests, first.                          *)
LEMMA RequestsKept == IInv /\ [Next]_vars => RequestsFirst'
<1> SUFFICES ASSUME TypeOK, InOrder, RequestsFirst, Thread!AliveKept, StopLeavesLoop, [Next]_vars
             PROVE RequestsFirst'
  BY DEF IInv
<1> USE DEF RequestsFirst, At, Call, data, owner, outside
<1>1. CASE HasStarted \/ Complete \/ InThreadCall
  BY <1>1 DEF HasStarted, Complete, InThreadCall
<1>2. CASE Up
  BY <1>2 DEF Up, Thread!Up, Thread!Step, StopLeavesLoop
<1>3. CASE Top
  BY <1>3 DEF Top, Leave
<1>4. CASE EnterWrite \/ Eof
  BY <1>4 DEF EnterWrite, Eof
<1>5. CASE CopyByte
  BY <1>5 DEF CopyByte
<1>6. CASE WriteError
  BY <1>6 DEF WriteError
<1>7. CASE NextSpan
  BY <1>7 DEF NextSpan, TypeOK
<1>8. CASE Read \/ ReadError
  BY <1>8 DEF Read, ReadError
<1>9. CASE SetStop \/ Signal \/ Kill \/ Joined \/ Resumed \/ Delete \/ Deleted
  BY <1>9 DEF SetStop, Signal, Kill, Joined, Resumed, Delete, Deleted
<1>10. CASE Flush
  BY <1>10, LoopIsLeft DEF Flush
<1>11. CASE Resume
  BY <1>11 DEF Resume
<1>12. CASE StopSource \/ \E t \in Target : Seek(t)
  BY <1>12 DEF StopSource, Seek
<1>13. CASE Decode \/ Grow \/ UNCHANGED vars
  BY <1>13 DEF Decode, Grow, vars
<1> QED
  BY <1>1, <1>2, <1>3, <1>4, <1>5, <1>6, <1>7, <1>8, <1>9, <1>10, <1>11, <1>12, <1>13
     DEF Next, ThreadStep, OwnerStep

-----------------------------------------------------------------------------
(* As long as no write has failed.                                              *)

TJ == INSTANCE EThread_proofs WITH OwnerJoins <- TRUE, CreateMayFail <- FALSE, create_failed <- 0

(* A step of the thread object, but for run(), is the same for every owner; an  *)
(* owner that joins calls run() when the object holds no thread.                *)
LEMMA SameSteps ==
  /\ JoinedThread!Finish <=> Thread!Finish
  /\ JoinedThread!ThreadStep <=> Thread!ThreadStep
  /\ JoinedThread!OwnerStep <=> Thread!OwnerStep
  /\ JoinedThread!Sync <=> Thread!Sync
  /\ JoinedThread!Kill(FALSE) <=> Thread!Kill(FALSE)
  /\ JoinedThread!Run <=> Thread!Run /\ the_thread = 0
<1>1. /\ JoinedThread!Finish <=> Thread!Finish
      /\ JoinedThread!ThreadStep <=> Thread!ThreadStep
  BY DEF Thread!Step, JoinedThread!Step, Thread!Finish, JoinedThread!Finish,
         Thread!ThreadStep, JoinedThread!ThreadStep, Thread!HasStarted, JoinedThread!HasStarted,
         Thread!Up, JoinedThread!Up, Thread!NotAlive, JoinedThread!NotAlive,
         Thread!Recover, JoinedThread!Recover, Thread!Finished, JoinedThread!Finished
<1>2. JoinedThread!OwnerStep <=> Thread!OwnerStep
  BY DEF Thread!Step, JoinedThread!Step, Thread!OwnerStep, JoinedThread!OwnerStep,
         Thread!SyncDown, JoinedThread!SyncDown, Thread!SyncRead, JoinedThread!SyncRead,
         Thread!SyncUp, JoinedThread!SyncUp,
         Thread!Down, JoinedThread!Down, Thread!SetAlive, JoinedThread!SetAlive,
         Thread!SetNotStarted, JoinedThread!SetNotStarted, Thread!Join, JoinedThread!Join,
         Thread!Create, JoinedThread!Create, Thread!CreateFails, JoinedThread!CreateFails,
         Thread!SendCancel, JoinedThread!SendCancel
<1>3. JoinedThread!Sync <=> Thread!Sync
  BY DEF Thread!Step, JoinedThread!Step, Thread!Sync, JoinedThread!Sync
<1>4. JoinedThread!Kill(FALSE) <=> Thread!Kill(FALSE)
  BY DEF Thread!Step, JoinedThread!Step, Thread!Kill, JoinedThread!Kill
<1>5. JoinedThread!Run <=> Thread!Run /\ the_thread = 0
  BY DEF Thread!Step, JoinedThread!Step, Thread!Run, JoinedThread!Run
<1> QED
  BY <1>1, <1>2, <1>3, <1>4, <1>5

(* Every step is one of an owner that joins, or leaves the thread object alone. *)
LEMMA StepsOfTheJoined == StopJoins /\ [Next]_vars => JoinedThread!Next \/ UNCHANGED thread_vars
<1> SUFFICES ASSUME StopJoins, [Next]_vars PROVE JoinedThread!Next \/ UNCHANGED thread_vars
  OBVIOUS
<1> USE SameSteps DEF JoinedThread!Next
<1>1. CASE HasStarted \/ Up \/ Complete
  BY <1>1 DEF HasStarted, Up, Complete, Thread!ThreadStep
<1>2. CASE Top \/ WriteError
  BY <1>2 DEF Top, Leave, WriteError
<1>3. CASE EnterWrite \/ CopyByte \/ NextSpan \/ Read \/ ReadError \/ Eof
  BY <1>3 DEF EnterWrite, CopyByte, NextSpan, Read, ReadError, Eof
<1>4. CASE InThreadCall \/ Kill \/ Delete
  BY <1>4 DEF InThreadCall, Kill, Delete
<1>5. CASE Resume
  BY <1>5 DEF Resume, Call, StopJoins
<1>6. CASE SetStop \/ Signal \/ Joined \/ Flush \/ Resumed \/ Deleted
  BY <1>6 DEF SetStop, Signal, Joined, Flush, Resumed, Deleted
<1>7. CASE StopSource \/ \E t \in Target : Seek(t)
  BY <1>7 DEF StopSource, Seek
<1>8. CASE Decode \/ Grow
  BY <1>8 DEF Decode, Grow
<1>9. CASE UNCHANGED vars
  BY <1>9 DEF vars
<1> QED
  BY <1>1, <1>2, <1>3, <1>4, <1>5, <1>6, <1>7, <1>8, <1>9 DEF Next, ThreadStep, OwnerStep

(* So semaphore, thread and owner stay as EThread says.                         *)
LEMMA SemaphoreStaysKept ==
  JoinedThread!IInv /\ (JoinedThread!Next \/ UNCHANGED thread_vars) => JoinedThread!IInv'
<1>1. TJ!IInv /\ [TJ!Next]_(TJ!vars) => TJ!IInv'
  BY TJ!Inductive
<1>2. JoinedThread!IInv <=> TJ!IInv
  BY DEF JoinedThread!IInv, TJ!IInv, JoinedThread!TypeOK, TJ!TypeOK, JoinedThread!NoFatal,
         TJ!NoFatal, JoinedThread!SemaphoreKept, TJ!SemaphoreKept, JoinedThread!Places, TJ!Places,
         JoinedThread!Announced, TJ!Announced, JoinedThread!Announcing, TJ!Announcing,
         JoinedThread!InSync, TJ!InSync, JoinedThread!ThreadPlace, TJ!ThreadPlace,
         JoinedThread!OwnerPlace, TJ!OwnerPlace
<1>3. JoinedThread!IInv' <=> TJ!IInv'
  BY DEF JoinedThread!IInv, TJ!IInv, JoinedThread!TypeOK, TJ!TypeOK, JoinedThread!NoFatal,
         TJ!NoFatal, JoinedThread!SemaphoreKept, TJ!SemaphoreKept, JoinedThread!Places, TJ!Places,
         JoinedThread!Announced, TJ!Announced, JoinedThread!Announcing, TJ!Announcing,
         JoinedThread!InSync, TJ!InSync, JoinedThread!ThreadPlace, TJ!ThreadPlace,
         JoinedThread!OwnerPlace, TJ!OwnerPlace
<1>4. JoinedThread!Next <=> TJ!Next
  BY DEF JoinedThread!Next, TJ!Next, JoinedThread!OwnerStep, TJ!OwnerStep,
      JoinedThread!ThreadStep, TJ!ThreadStep, JoinedThread!Run, TJ!Run, JoinedThread!Kill,
      TJ!Kill, JoinedThread!Sync, TJ!Sync, JoinedThread!SyncDown, TJ!SyncDown,
      JoinedThread!SyncRead, TJ!SyncRead, JoinedThread!SyncUp, TJ!SyncUp, JoinedThread!Down, TJ!Down, JoinedThread!SetAlive,
      TJ!SetAlive, JoinedThread!SetNotStarted, TJ!SetNotStarted, JoinedThread!SendCancel,
      TJ!SendCancel, JoinedThread!Join, TJ!Join, JoinedThread!Create, TJ!Create,
      JoinedThread!CreateFails, TJ!CreateFails, JoinedThread!HasStarted, TJ!HasStarted,
      JoinedThread!Up, TJ!Up, JoinedThread!Finish, TJ!Finish, JoinedThread!NotAlive, TJ!NotAlive,
      JoinedThread!Recover, TJ!Recover, JoinedThread!Finished, TJ!Finished, JoinedThread!Step,
      TJ!Step
<1> QED
  BY <1>1, <1>2, <1>3, <1>4 DEF thread_vars, TJ!vars

(* What the proof below needs of JoinedThread!IInv.                             *)
LEMMA WhereTheThreadIs ==
  JoinedThread!IInv => /\ the_thread = 0 => tpc = "gone"
                       /\ opc \in {"run1", "run2", "run2r", "run3", "run4", "run5", "run6", "run7"}
                            => the_thread = 0
                       /\ opc \in {"run8", "run9", "run9r", "kill1", "kill2", "kill2r", "kill3", "kill4"}
                            => the_thread = 1
                       /\ the_thread \in 0 .. 1
  BY DEF JoinedThread!IInv, JoinedThread!Places, JoinedThread!Announcing, JoinedThread!TypeOK

(* A thread that was not told to stop goes on, so the sync() of stop() finds it  *)
(* alive and stop() joins it.                                                   *)
LEMMA StopJoinsKept ==
  ASSUME IInv, StopJoins, JoinedThread!IInv, [Next]_vars, failed' = "never"
  PROVE  StopJoins'
<1>0. /\ the_thread = 0 => tpc = "gone"
      /\ opc \in {"run1", "run2", "run2r", "run3", "run4", "run5", "run6", "run7"} => the_thread = 0
      /\ opc \in {"run8", "run9", "run9r", "kill1", "kill2", "kill2r", "kill3", "kill4"} => the_thread = 1
      /\ the_thread \in 0 .. 1
  BY WhereTheThreadIs
<1>1. m_stop \in 0 .. 1 /\ StopLeavesLoop /\ Thread!AliveKept /\ StopJoins
  BY DEF IInv, TypeOK
<1> USE <1>0, <1>1 DEF StopLeavesLoop, StopJoins, Thread!Step, At, Call, owner
<1>2. CASE HasStarted
  BY <1>2 DEF HasStarted, Thread!HasStarted
<1>3. CASE Up
  BY <1>3 DEF Up, Thread!Up
<1>4. CASE Top
  BY <1>4 DEF Top, Leave, Thread!Finish, thread_vars
<1>5. CASE EnterWrite \/ CopyByte \/ NextSpan \/ Read \/ ReadError \/ Eof
  BY <1>5 DEF EnterWrite, CopyByte, NextSpan, Read, ReadError, Eof, thread_vars
<1>6. CASE WriteError
  BY <1>6 DEF WriteError
<1>7. CASE Complete
  BY <1>7 DEF Complete, Thread!NotAlive, Thread!Recover, Thread!Finished
<1>8. CASE InThreadCall
  <2>1. CASE Thread!SyncDown
    BY <1>8, <2>1 DEF InThreadCall, Thread!SyncDown
  <2>2. CASE Thread!SyncRead \/ Thread!SyncUp
    BY <1>8, <2>2 DEF InThreadCall, Thread!SyncRead, Thread!SyncUp, Thread!AliveKept
  <2>3. CASE Thread!Down \/ Thread!SetAlive \/ Thread!SetNotStarted \/ Thread!SendCancel
    BY <1>8, <2>3 DEF InThreadCall, Thread!Down, Thread!SetAlive, Thread!SetNotStarted,
                      Thread!SendCancel
  <2>4. CASE Thread!Join
    BY <1>8, <2>4 DEF InThreadCall, Thread!Join
  <2>5. CASE Thread!Create
    BY <1>8, <2>5 DEF InThreadCall, Thread!Create
  <2>6. CASE Thread!CreateFails
    BY <2>6 DEF Thread!CreateFails
  <2> QED
    BY <1>8, <2>1, <2>2, <2>3, <2>4, <2>5, <2>6 DEF InThreadCall, Thread!OwnerStep
<1>9. CASE SetStop
  BY <1>9 DEF SetStop, thread_vars
<1>10. CASE Signal \/ Joined \/ Deleted \/ Flush \/ Resumed
  BY <1>10 DEF Signal, Joined, Deleted, Flush, Resumed, thread_vars
<1>11. CASE Kill
  BY <1>11 DEF Kill, Thread!Kill
<1>12. CASE Delete
  BY <1>12 DEF Delete, Thread!Kill
<1>13. CASE Resume
  BY <1>13 DEF Resume, Thread!Run
<1>14. CASE StopSource \/ \E t \in Target : Seek(t)
  BY <1>14 DEF StopSource, Seek, Thread!Sync
<1>15. CASE Decode \/ Grow \/ UNCHANGED vars
  BY <1>15 DEF Decode, Grow, vars, thread_vars
<1> QED
  BY <1>2, <1>3, <1>4, <1>5, <1>6, <1>7, <1>8, <1>9, <1>10, <1>11, <1>12, <1>13, <1>14, <1>15
     DEF Next, ThreadStep, OwnerStep

(* A write that failed is not forgotten.                                        *)
LEMMA NeverSince == [Next]_vars /\ failed' = "never" => failed = "never"
<1> SUFFICES ASSUME [Next]_vars, failed # "never" PROVE failed' # "never"
  OBVIOUS
<1>1. CASE UNCHANGED failed
  BY <1>1
<1>2. CASE WriteError
  BY <1>2 DEF WriteError
<1>3. CASE Resume
  BY <1>3 DEF Resume
<1> QED
  BY <1>1, <1>2, <1>3
     DEF Next, ThreadStep, OwnerStep, HasStarted, Up, Top, Leave, EnterWrite, CopyByte, NextSpan,
         Read, ReadError, Eof, Complete, InThreadCall, SetStop, Signal, Kill, Joined, Flush, Resumed, Delete,
         Deleted, StopSource, Seek, Decode, Grow, data, vars

(* While no write has failed the thread object is as EThread has it for an owner *)
(* that joins.                                                                  *)
LEMMA JoinedKept == IInv /\ [Next]_vars => JoinedSoFar'
<1> SUFFICES ASSUME IInv, [Next]_vars, failed' = "never"
             PROVE  StopJoins' /\ JoinedThread!IInv'
  BY DEF JoinedSoFar
<1>1. StopJoins /\ JoinedThread!IInv
  BY NeverSince DEF IInv, JoinedSoFar
<1>2. JoinedThread!IInv'
  BY <1>1, StepsOfTheJoined, SemaphoreStaysKept
<1> QED
  BY <1>1, <1>2, StopJoinsKept

-----------------------------------------------------------------------------
(* No step leaves the invariant.                                               *)
THEOREM Inductive == IInv /\ [Next]_vars => IInv'
  BY StepsOfTheThread, ThreadMoves, TypesKept, LeavesLoopKept, OrderKept, RequestsKept, JoinedKept
     DEF IInv

(* The inductive invariant holds in every reachable state.                     *)
THEOREM PlaybackInvariant == Spec => []IInv
  BY Initially, Inductive, PTL DEF Spec

(* While the main thread flushes the buffer or unmaps it, the playback thread   *)
(* is out of its loop: what the code relies on when it touches the buffer       *)
(* without a lock.                                                             *)
THEOREM BufferForOne == Spec => []BufferExclusive
<1>1. IInv => BufferExclusive
  BY LoopIsLeft DEF IInv, BufferExclusive
<1> QED
  BY PlaybackInvariant, <1>1, PTL

(* The decoder gets the file without gap or repetition, but for what a flush    *)
(* drops, however the writes are cut up and whenever seeks come.               *)
THEOREM PlayedInOrder == Spec => Contiguous
<1>1. IInv /\ CopyByte => IF cut THEN buf_start >= due ELSE buf_start = due
  BY DEF IInv, TypeOK, InOrder, Position, CopyByte, At
<1>2. IInv /\ [Next]_vars
        => [CopyByte => IF cut THEN buf_start >= due ELSE buf_start = due]_vars
  BY <1>1
<1> QED
  BY PlaybackInvariant, <1>2, PTL DEF Spec, Contiguous

(* A thread that goes on after a seek takes the request before it writes a byte. *)
THEOREM SeeksFirst == Spec => SeekComesFirst
<1>1. IInv /\ CopyByte /\ call \in {"run", "idle"} => m_seek_requests = <<>>
  BY DEF IInv, RequestsFirst, CopyByte, At
<1>2. IInv /\ [Next]_vars
        => [CopyByte /\ call \in {"run", "idle"} => m_seek_requests = <<>>]_vars
  BY <1>1
<1> QED
  BY PlaybackInvariant, <1>2, PTL DEF Spec, SeekComesFirst

-----------------------------------------------------------------------------
(* As long as no write has failed, every step is one of an owner that joins the *)
(* old thread before it starts a new one, or of its thread, or leaves the thread *)
(* object alone.                                                                *)
THEOREM JoinsBeforeRun ==
  Spec => [][failed' = "never" => [JoinedThread!Next]_thread_vars]_vars
<1>1. IInv /\ [Next]_vars => [failed' = "never" => [JoinedThread!Next]_thread_vars]_vars
  BY NeverSince, StepsOfTheJoined DEF IInv, JoinedSoFar
<1> QED
  BY PlaybackInvariant, <1>1, PTL DEF Spec

(* As long as no write has failed, neither a seek nor the end of playback makes *)
(* an ASSERT of thread.cpp fail, or sync() call eFatal.                         *)
THEOREM PlaybackNeverDead == Spec => [](failed = "never" => program = "runs")
<1>1. IInv => (failed = "never" => program = "runs")
  BY DEF IInv, JoinedSoFar, JoinedThread!IInv, JoinedThread!NoFatal
<1> QED
  BY PlaybackInvariant, <1>1, PTL

(* Where writes do not fail at all, the playback implements EThread for an owner *)
(* that joins.                                                                  *)
THEOREM ImplementsJoined == ASSUME WriteFails = FALSE
                            PROVE  Spec => JoinedThread!Spec
<1> DEFINE Never == failed = "never"
<1>1. Init => JoinedThread!Init /\ Never
  BY DEF Init, Thread!Init, JoinedThread!Init
<1>2. Never /\ [Next]_vars => Never'
  <2> SUFFICES ASSUME failed = "never", [Next]_vars PROVE failed' = "never"
    OBVIOUS
  <2>1. CASE UNCHANGED failed
    BY <2>1
  <2>2. CASE Resume
    BY <2>2 DEF Resume
  <2> QED
    BY <2>1, <2>2
       DEF Next, ThreadStep, OwnerStep, HasStarted, Up, Top, Leave, EnterWrite, CopyByte,
           WriteError, NextSpan, Read, ReadError, Eof, Complete, InThreadCall, SetStop, Signal, Kill, Joined,
           Flush, Resumed, Delete, Deleted, StopSource, Seek, Decode, Grow, data, vars
<1>3. IInv /\ Never /\ [Next]_vars => [JoinedThread!Next]_(JoinedThread!vars)
  BY StepsOfTheJoined DEF IInv, JoinedSoFar, thread_vars, JoinedThread!vars
<1> HIDE DEF Never
<1> QED
  BY <1>1, <1>2, <1>3, PlaybackInvariant, PTL DEF Spec, JoinedThread!Spec
================================================================================
