------------------------- MODULE RecordService_proofs -------------------------
(***************************************************************************)
(* Proofs about RecordService, for any set of PIDs.                          *)
(*                                                                          *)
(* That a thread writes to the file of its service needs to know what a       *)
(* thread comes with (ThreadKept), and that only a service in use has a        *)
(* recorder needs to know when a service with a channel is idle: after a       *)
(* write error, when it has been started and must not be started again         *)
(* (IdleAfterError).  That what is wanted is recorded rests on these, on what  *)
(* the recorder is told (PidsKept) and on who comes last (LastOneRecords).     *)
(***************************************************************************)
EXTENDS RecordService, TLAPS

RecorderSafe == TypeOK /\ RecorderKept /\ ThreadKept /\ IdleAfterError

(* A service starts out idle.                                                 *)
THEOREM Initially == Init => IInv
  BY DEF Init, IInv, TypeOK, RecorderKept, ThreadKept, IdleAfterError, PidsKept, LastOneRecords

(* A recorder that runs: of the PIDs the device did not refuse, it delivers      *)
(* those in m_pids.                                                           *)
LEMMA DeviceAsked ==
  ASSUME m_pids \subseteq Pid, m_pids' \subseteq Pid, source \subseteq Pid, refused \subseteq Pid,
         AskDevice(m_pids' \ m_pids, m_pids \ m_pids')
  PROVE  /\ source' \subseteq Pid /\ refused' \subseteq Pid
         /\ source \ refused = m_pids \ refused => source' \ refused' = m_pids' \ refused'
<1>1. PICK r \in SUBSET ((m_pids' \ m_pids) \cup ((m_pids \ m_pids') \ refused)) :
        /\ source' = (source \cup ((m_pids' \ m_pids) \ r))
                      \ ((m_pids \ m_pids') \ (refused \cup r))
        /\ refused' = (refused \ (m_pids' \ m_pids)) \cup r
  BY DEF AskDevice
<1> QED
  BY <1>1

(* A recorder that is started, with nothing of an earlier one left.             *)
LEMMA RecorderStarted ==
  ASSUME NEW pids \in SUBSET Pid, StartRecorder(pids), source \subseteq Pid, refused \subseteq Pid,
         tpc \in {"gone", "loop", "write", "ended", "unread", "failed"}
  PROVE  /\ source' \subseteq Pid /\ refused' \subseteq Pid /\ pump' = pump
         /\ \/ /\ m_running' = TRUE /\ m_stop' = FALSE /\ tpc' = "loop" /\ start_failed' = FALSE
               /\ source' \ refused' = pids \ refused'
            \/ /\ m_running' = m_running /\ m_stop' = m_stop /\ tpc' = tpc
               /\ start_failed' = TRUE
  BY DEF StartRecorder, thread

(* doRecord, called for a service that is not idle and wanted by somebody.     *)
LEMMA DoRecordIsSafe ==
  ASSUME RecorderSafe, PidsKept, DoRecord, m_state # "idle", m_want_record' = TRUE,
         m_tuned' \in BOOLEAN, m_streaming' = m_streaming, channel' \in BOOLEAN,
         demux' \in BOOLEAN, program' \in SUBSET Pid, wanted' \in BOOLEAN,
         m_running => (wanted' <=> wanted), main = "idle", main' = main
  PROVE  RecorderSafe'
<1> USE DEF RecorderSafe, TypeOK, RecorderKept, ThreadKept, IdleAfterError, recorder, thread,
           refusals
<1>1. CASE ~m_tuned'
  BY <1>1 DEF DoRecord
<1>2. CASE RecordFails
  BY <1>2 DEF RecordFails, NoRecorderYet
<1>3. CASE RecordProgram /\ program' = {}
  BY <1>3 DEF RecordProgram, MakeRecorder, NoRecorderYet
<1>4. CASE RecordProgram /\ program' # {}
  <2>1. /\ m_pids' \subseteq Pid /\ m_pids_active' \subseteq Pid
        /\ m_state' = "recording" /\ m_error' = FALSE
    BY <1>4 DEF RecordProgram, AddAndRemove
  <2>2. m_record' = TRUE /\ (m_record => m_target_fd' = m_target_fd) /\ m_target_fd' = TRUE
    BY <1>4 DEF RecordProgram, MakeRecorder, NoRecorderYet
  <2>3. CASE m_state = "recording"
    <3>1. /\ IF m_running THEN AskDevice(m_pids' \ m_pids, m_pids \ m_pids')
             ELSE source' = source /\ refused' = refused
          /\ UNCHANGED <<m_running, m_stop, tpc, pump, start_failed>>
      BY <1>4, <2>3 DEF RecordProgram
    <3>2. source' \subseteq Pid /\ refused' \subseteq Pid
      BY <2>1, <3>1, DeviceAsked
    <3> QED
      BY <2>1, <2>2, <3>1, <3>2
  <2>4. CASE m_state # "recording"
    <3>1. StartRecorder(m_pids')
      BY <1>4, <2>4 DEF RecordProgram
    <3>2. ~m_running /\ tpc = "gone"
      BY <2>4 DEF PidsKept
    <3> QED
      BY <2>1, <2>2, <3>1, <3>2, RecorderStarted
  <2> QED
    BY <2>3, <2>4
<1>5. CASE Stream
  BY <1>5 DEF Stream
<1> QED
  BY <1>1, <1>2, <1>3, <1>4, <1>5 DEF DoRecord

(* doRecord tells the recorder about the program, if there is one.             *)
LEMMA DoRecordTells ==
  ASSUME RecorderSafe, PidsKept, DoRecord, m_state # "idle", m_streaming' = m_streaming,
         m_want_record' = TRUE, m_state = "recording" => (wanted' <=> wanted),
         program' \in SUBSET Pid
  PROVE  /\ PidsKept'
         /\ m_tuned' /\ program' # {} /\ ~m_streaming' /\ ~m_error'
              => m_state' = "recording" /\ m_pids_active' = program'
<1> USE DEF RecorderSafe, TypeOK, PidsKept, recorder, thread, refusals
<1>1. CASE ~m_tuned'
  BY <1>1 DEF DoRecord
<1>2. CASE RecordFails
  BY <1>2 DEF RecordFails, NoRecorderYet
<1>3. CASE RecordProgram /\ program' = {}
  BY <1>3 DEF RecordProgram, MakeRecorder, NoRecorderYet
<1>4. CASE RecordProgram /\ program' # {}
  <2>1. m_pids' = program'
    BY <1>4 DEF RecordProgram, AddAndRemove
  <2>2. m_record' = TRUE
    BY <1>4 DEF RecordProgram, MakeRecorder, NoRecorderYet
  <2>3. m_pids_active' = program' /\ m_state' = "recording" /\ m_want_record'
    BY <1>4 DEF RecordProgram
  <2>4. CASE m_state = "recording"
    <3>1. /\ m_running => AskDevice(m_pids' \ m_pids, m_pids \ m_pids')
          /\ ~m_running => source' = source /\ refused' = refused
          /\ UNCHANGED <<m_running, start_failed>>
      BY <1>4, <2>4 DEF RecordProgram
    <3>2. m_running /\ source \ refused = m_pids \ refused
            => source' \ refused' = m_pids' \ refused'
      BY <2>1, <3>1, DeviceAsked
    <3> QED
      BY <1>4, <2>1, <2>2, <2>3, <2>4, <3>1, <3>2 DEF RecordProgram
  <2>5. CASE m_state # "recording"
    <3>1. StartRecorder(m_pids')
      BY <1>4, <2>5 DEF RecordProgram
    <3>2. m_pids' \in SUBSET Pid
      BY <2>1
    <3>3. \/ m_running' = TRUE /\ source' \ refused' = m_pids' \ refused'
          \/ m_running' = m_running /\ start_failed' = TRUE
      BY <3>1, <3>2, RecorderStarted
    <3>4. IF m_running' THEN source' \ refused' = m_pids' \ refused' ELSE start_failed'
      BY <2>5, <3>3
    <3> QED
      BY <2>1, <2>2, <2>3, <3>4
  <2> QED
    BY <2>4, <2>5
<1>5. CASE Stream
  BY <1>5 DEF Stream
<1> QED
  BY <1>1, <1>2, <1>3, <1>4, <1>5 DEF DoRecord

(* stop() only tells the device and the thread to come to an end.              *)
LEMMA StopIsSafe ==
  ASSUME RecorderSafe, NEW why \in {"error", "owner"}, Stop(why), why = "error" => m_want_record
  PROVE  RecorderSafe'
<1>1. UNCHANGED <<m_state, m_want_record, m_tuned, m_error, m_streaming, m_pids_active,
                  m_target_fd, m_record, m_running, m_pids, tpc, pump, channel, demux, program,
                  start_failed, refused>>
  BY DEF Stop, handler, refusals
<1>2. wanted' = FALSE /\ main' = why
  BY DEF Stop
<1>3. (m_stop' = m_stop \/ m_stop' = TRUE) /\ (source' = source \/ source' = {})
  BY DEF Stop
<1>4. m_stop' \in BOOLEAN /\ source' \subseteq Pid
  BY <1>3, Zenon DEF RecorderSafe, TypeOK
<1>5. TypeOK'
  <2>1. TypeOK
    BY DEF RecorderSafe
  <2>2. wanted' \in BOOLEAN /\ main' \in {"idle", "error", "owner"}
    BY <1>2
  <2>3. /\ m_state' = "idle" => ~m_record'
        /\ m_state' \in {"idle", "prepared", "recording"}
        /\ tpc' \in {"gone", "loop", "write", "ended", "unread", "failed"}
    BY <1>1, <2>1 DEF TypeOK
  <2>4. /\ m_want_record' \in BOOLEAN /\ m_tuned' \in BOOLEAN /\ m_error' \in BOOLEAN
        /\ m_streaming' \in BOOLEAN /\ m_target_fd' \in BOOLEAN /\ m_record' \in BOOLEAN
        /\ m_running' \in BOOLEAN /\ pump' \in BOOLEAN /\ channel' \in BOOLEAN
        /\ demux' \in BOOLEAN /\ start_failed' \in BOOLEAN
    BY <1>1, <2>1 DEF TypeOK
  <2>5. m_pids_active' \subseteq Pid /\ m_pids' \subseteq Pid /\ program' \subseteq Pid
        /\ refused' \subseteq Pid
    BY <1>1, <2>1 DEF TypeOK
  <2> QED
    BY <1>4, <2>2, <2>3, <2>4, <2>5 DEF TypeOK
<1>6. RecorderKept' /\ ThreadKept'
  BY <1>1, <1>2 DEF RecorderSafe, RecorderKept, ThreadKept
<1>7. IdleAfterError'
  BY <1>1, <1>2 DEF RecorderSafe, IdleAfterError
<1> QED
  BY <1>5, <1>6, <1>7 DEF RecorderSafe

(* The recorder and its thread through every step.                            *)
LEMMA SafeKept == IInv /\ [Next]_vars => RecorderSafe'
<1> SUFFICES ASSUME IInv, [Next]_vars PROVE RecorderSafe'
  OBVIOUS
<1>0. RecorderSafe /\ PidsKept /\ LastOneRecords
  BY DEF IInv, RecorderSafe
<1> USE DEF TypeOK, RecorderKept, ThreadKept, IdleAfterError
<1>1. ASSUME NEW streaming \in BOOLEAN, Prepare(streaming) PROVE RecorderSafe'
  <2>1. /\ m_state = "idle" /\ main = "idle" /\ main' = main
        /\ UNCHANGED <<m_want_record, m_error, m_target_fd, recorder, thread, history>>
    BY <1>1 DEF Prepare
  <2>2. /\ m_state' = "prepared" /\ m_pids_active' \subseteq Pid /\ program' \subseteq Pid
        /\ m_streaming' \in BOOLEAN /\ channel' \in BOOLEAN /\ m_tuned' \in BOOLEAN
        /\ demux' \in BOOLEAN
    BY <1>1 DEF Prepare
  <2>3. TypeOK'
    BY <1>0, <2>1, <2>2 DEF recorder, thread, history, refusals, RecorderSafe
  <2>4. RecorderKept' /\ ThreadKept' /\ IdleAfterError'
    BY <1>0, <2>1, <2>2 DEF recorder, thread, history, refusals, RecorderSafe
  <2> QED
    BY <2>3, <2>4 DEF RecorderSafe
<1>2. CASE Start
  <2>1. m_state # "idle" /\ main = "idle"
    BY <1>0, <1>2 DEF Start, RecorderSafe
  <2>2. m_running => (wanted' <=> wanted)
    BY <1>0, <1>2 DEF Start, PidsKept
  <2> QED
    BY <1>0, <1>2, <2>1, <2>2, DoRecordIsSafe DEF Start, RecorderSafe, handler
<1>3. CASE StopByOwner
  BY <1>0, <1>3, StopIsSafe DEF StopByOwner
<1>4. CASE RecordEvent
  BY <1>0, <1>4, StopIsSafe DEF RecordEvent, RecorderSafe
<1>5. CASE Stopped
  BY <1>0, <1>5 DEF Stopped, ThreadEnded, handler, history, refusals, RecorderSafe
<1>6. CASE Dropped
  BY <1>0, <1>6 DEF Dropped, ThreadEnded, RecorderSafe
<1>7. CASE ChannelOk
  <2>1. CASE m_state = "recording" /\ m_want_record
    BY <1>0, <1>7, <2>1, DoRecordIsSafe DEF ChannelOk, RecorderSafe
  <2>2. CASE ~(m_state = "recording" /\ m_want_record)
    BY <1>0, <1>7, <2>2 DEF ChannelOk, recorder, thread, refusals, RecorderSafe
  <2> QED
    BY <2>1, <2>2
<1>8. CASE NewProgramInfo
  <2>1. CASE m_state # "idle" /\ m_want_record
    BY <1>0, <1>8, <2>1, DoRecordIsSafe DEF NewProgramInfo, RecorderSafe
  <2>2. CASE ~(m_state # "idle" /\ m_want_record)
    BY <1>0, <1>8, <2>2 DEF NewProgramInfo, recorder, thread, refusals, RecorderSafe
  <2> QED
    BY <2>1, <2>2
<1>9. CASE Read \/ ReadFails \/ EndLoop \/ Write \/ WriteError
  <2>1. UNCHANGED <<m_state, m_want_record, m_tuned, m_error, m_streaming, m_pids_active,
                    m_target_fd, m_record, m_running, m_pids, source, channel, demux, program,
                    main, wanted, start_failed, refused, m_stop>>
    BY <1>9 DEF Read, ReadFails, EndLoop, Write, WriteError, Quiet, service, recorder, handler,
                history, refusals
  <2>2. /\ tpc # "gone" /\ tpc' \in {"loop", "write", "ended", "unread", "failed"}
        /\ tpc' = "ended" => m_stop = TRUE
        /\ tpc' = "failed" => pump' = TRUE
    BY <1>9 DEF Read, ReadFails, EndLoop, Write, WriteError
  <2>3. pump' = pump \/ pump' = TRUE
    BY <1>9 DEF Read, ReadFails, EndLoop, Write, WriteError
  <2>4. pump' \in BOOLEAN
    BY <1>0, <2>3, Zenon DEF RecorderSafe
  <2>5. TypeOK'
    BY <1>0, <2>1, <2>2, <2>4 DEF RecorderSafe
  <2>6. RecorderKept' /\ IdleAfterError'
    BY <1>0, <2>1 DEF RecorderSafe
  <2>7. ThreadKept'
    BY <1>0, <2>1, <2>2, <2>3 DEF RecorderSafe
  <2> QED
    BY <2>5, <2>6, <2>7 DEF RecorderSafe
<1>10. CASE UNCHANGED vars
  BY <1>0, <1>10 DEF vars, service, recorder, thread, handler, history, refusals, RecorderSafe
<1> QED
  BY <1>1, <1>2, <1>3, <1>4, <1>5, <1>6, <1>7, <1>8, <1>9, <1>10 DEF Next

(* What the recorder was told, and who comes last, through every step.         *)
LEMMA WantedKept == IInv /\ [Next]_vars => PidsKept' /\ LastOneRecords'
<1> SUFFICES ASSUME IInv, [Next]_vars PROVE PidsKept' /\ LastOneRecords'
  OBVIOUS
<1>0. RecorderSafe /\ PidsKept /\ LastOneRecords
  BY DEF IInv, RecorderSafe
<1>1. ASSUME NEW streaming \in BOOLEAN, Prepare(streaming)
      PROVE  PidsKept' /\ LastOneRecords'
  BY <1>0, <1>1 DEF Prepare, recorder, thread, history, refusals, RecorderSafe, TypeOK, PidsKept,
                    LastOneRecords, RecorderKept
<1>2. CASE Start
  <2>1. m_state # "idle" /\ main = "idle" /\ program' \in SUBSET Pid
    BY <1>0, <1>2 DEF Start, RecorderSafe, TypeOK, IdleAfterError, handler
  <2>2. m_state = "recording" => (wanted' <=> wanted)
    BY <1>0, <1>2 DEF Start, RecorderSafe, TypeOK, PidsKept
  <2>3. /\ PidsKept'
        /\ m_tuned' /\ program' # {} /\ ~m_streaming' /\ ~m_error'
             => m_state' = "recording" /\ m_pids_active' = program'
    BY <1>0, <1>2, <2>1, <2>2, DoRecordTells DEF Start
  <2> QED
    BY <1>0, <1>2, <2>3 DEF Start, LastOneRecords, handler
<1>3. CASE StopByOwner
  BY <1>0, <1>3 DEF StopByOwner, Stop, handler, PidsKept, LastOneRecords
<1>4. CASE RecordEvent
  BY <1>0, <1>4 DEF RecordEvent, Stop, handler, PidsKept, LastOneRecords
<1>5. CASE Stopped
  BY <1>0, <1>5 DEF Stopped, handler, history, refusals, PidsKept, LastOneRecords, RecorderSafe,
                    IdleAfterError
<1>6. CASE Dropped
  BY <1>0, <1>6 DEF Dropped, PidsKept, LastOneRecords
<1>7. CASE ChannelOk
  <2>1. CASE m_state = "recording" /\ m_want_record
    <3>1. PidsKept'
      BY <1>0, <1>7, <2>1, DoRecordTells DEF ChannelOk, RecorderSafe, TypeOK
    <3> QED
      BY <1>0, <1>7, <3>1 DEF ChannelOk, LastOneRecords
  <2>2. CASE ~(m_state = "recording" /\ m_want_record)
    BY <1>0, <1>7, <2>2 DEF ChannelOk, recorder, thread, refusals, PidsKept, LastOneRecords
  <2> QED
    BY <2>1, <2>2
<1>8. CASE NewProgramInfo
  <2>1. CASE m_state # "idle" /\ m_want_record
    <3>1. /\ PidsKept'
          /\ m_tuned' /\ program' # {} /\ ~m_streaming' /\ ~m_error'
               => m_state' = "recording" /\ m_pids_active' = program'
      BY <1>0, <1>8, <2>1, DoRecordTells DEF NewProgramInfo, RecorderSafe, TypeOK
    <3> QED
      BY <1>0, <1>8, <3>1 DEF NewProgramInfo, LastOneRecords
  <2>2. CASE m_state # "idle" /\ ~m_want_record
    BY <1>0, <1>8, <2>2 DEF NewProgramInfo, recorder, thread, refusals, PidsKept,
                                 LastOneRecords
  <2>3. CASE m_state = "idle"
    <3>1. ~wanted
      BY <1>0, <2>3 DEF LastOneRecords, RecorderSafe, IdleAfterError
    <3> QED
      BY <1>0, <1>8, <2>3, <3>1 DEF NewProgramInfo, recorder, thread, refusals, PidsKept,
                                 LastOneRecords
  <2> QED
    BY <2>1, <2>2, <2>3
<1>9. CASE Read \/ ReadFails \/ EndLoop \/ Write \/ WriteError
  BY <1>0, <1>9 DEF Read, ReadFails, EndLoop, Write, WriteError, Quiet, service, recorder, handler,
                    history, refusals, PidsKept, LastOneRecords
<1>10. CASE UNCHANGED vars
  BY <1>0, <1>10 DEF vars, service, recorder, thread, handler, history, refusals,
                     PidsKept, LastOneRecords
<1> QED
  BY <1>1, <1>2, <1>3, <1>4, <1>5, <1>6, <1>7, <1>8, <1>9, <1>10 DEF Next

(* Every step keeps the inductive invariant.                                  *)
THEOREM Inductive == IInv /\ [Next]_vars => IInv'
<1> SUFFICES ASSUME IInv, [Next]_vars PROVE IInv'
  OBVIOUS
<1>1. RecorderSafe' /\ PidsKept' /\ LastOneRecords'
  BY SafeKept, WantedKept
<1> QED
  BY <1>1 DEF IInv, RecorderSafe

(* The inductive invariant holds of every recording.                          *)
THEOREM ServiceInvariant == Spec => []IInv
  BY Initially, Inductive, PTL DEF Spec

(* A recorder never writes to a file that is not, or no longer, that of its    *)
(* service, however start, stop, the tuner and a write error come together.    *)
THEOREM NeverElsewhere == Spec => []WritesToItsFile
<1>1. IInv => WritesToItsFile
  BY DEF IInv, TypeOK, RecorderKept, ThreadKept, WritesToItsFile
<1> QED
  BY <1>1, ServiceInvariant, PTL

(* Whichever of start(), the tuner and the program information comes last, the  *)
(* PIDs of the current program are what is recorded.                           *)
THEOREM WantedRecorded == Spec => []WantedIsRecorded
<1>1. IInv => WantedIsRecorded
  BY DEF IInv, TypeOK, ThreadKept, PidsKept, LastOneRecords, WantedIsRecorded
<1> QED
  BY <1>1, ServiceInvariant, PTL
===============================================================================
