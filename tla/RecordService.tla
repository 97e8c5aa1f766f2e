----------------------------- MODULE RecordService -----------------------------
(***************************************************************************)
(* A recording: eDVBServiceRecord (service/servicedvbrecord.cpp), called by  *)
(* its owner, a RecordTimerEntry, and by its eDVBServicePMTHandler; the      *)
(* eDVBTSRecorder it makes (dvb/demux.cpp), which adds the PIDs of the       *)
(* program to a demux device; and the thread of that recorder (base/         *)
(* filepush.cpp), which copies what the device delivers into the file.       *)
(* Service and recorder run on the main thread.  How a thread is started     *)
(* and joined is in EThread, how a tuner is found in ResourceManager.        *)
(*                                                                          *)
(* Left out: simulated recordings, file descriptors lost on an error path,   *)
(* and that a recorder with a connection to its events outlives its service   *)
(* by a moment.                                                              *)
(***************************************************************************)
EXTENDS FiniteSets

CONSTANT Pid  \* the PIDs a program may have, that of its PMT among them; the PAT
              \* goes without saying

VARIABLES
  m_state, m_want_record, m_tuned, m_error, m_streaming, m_pids_active,
  m_target_fd,  \* whether it is open
  m_record,     \* whether there is a recorder, and its ...
  m_running, m_pids,
  source,       \* ... source device: the PIDs it delivers, none when it is closed
  m_stop,
  tpc,          \* its thread: in its "loop", at a "write", "ended" as it was told,
                \* "unread" or "failed" after a read or a write that failed, or "gone"
  pump,         \* evtWriteError is in the message pump of the thread
  channel,      \* the handler has a channel
  demux,        \* the handler has a demux
  program,      \* the PIDs getProgramInfo returns, none when it fails
  main,         \* the main thread is "idle" or in stop(), joining the thread: called
                \* for a write "error" or by the "owner"
  wanted,       \* ... the owner wants it recorded: start() but not stop() yet ...
  start_failed, \* ... the recorder could not be started, and ...
  refused       \* ... the PIDs of which the device refused the last request: where
                \* m_pids has -1 for one of its PIDs

service == <<m_state, m_want_record, m_tuned, m_error, m_streaming, m_pids_active, m_target_fd>>
recorder == <<m_record, m_running, m_pids, source>>
thread == <<m_stop, tpc, pump>>
handler == <<channel, demux, program>>
refusals == <<start_failed, refused>>
history == <<wanted, refusals>>
vars == <<service, recorder, thread, handler, main, history>>

Init ==
  /\ m_state = "idle"
  /\ m_want_record = FALSE /\ m_tuned = FALSE /\ m_error = FALSE /\ m_streaming = FALSE
  /\ m_pids_active = {} /\ m_target_fd = FALSE
  /\ m_record = FALSE /\ m_running = FALSE /\ m_pids = {} /\ source = {}
  /\ m_stop = FALSE /\ tpc = "gone" /\ pump = FALSE
  /\ channel = FALSE /\ demux = FALSE /\ program = {}
  /\ main = "idle" /\ wanted = FALSE /\ start_failed = FALSE /\ refused = {}

(***************************************************************************)
(* doRecord.                                                                *)
(***************************************************************************)
NoRecorderYet == ~m_record /\ ~m_streaming

(* The file is removed before it is opened; then it may not open, or there is *)
(* no demux to make a recorder from. *)
RecordFails ==
  /\ NoRecorderYet
  /\ m_error' = TRUE
  /\ UNCHANGED <<m_state, m_pids_active, m_target_fd, recorder, thread, refusals>>

MakeRecorder ==
  IF NoRecorderYet
  THEN demux' /\ m_record' = TRUE /\ m_target_fd' = TRUE
  ELSE UNCHANGED <<m_record, m_target_fd>>

(* eDVBTSRecorder::start, called with the device closed: it may refuse to open, *)
(* or to filter the PAT, and then the recorder is not started; the service does *)
(* not look at the result.  Or it refuses some of the other PIDs, and startPID  *)
(* just says so. *)
StartRecorder(pids) ==
  \/ /\ m_running' = TRUE
     /\ \E r \in SUBSET pids : source' = pids \ r /\ refused' = r
     /\ m_stop' = FALSE /\ tpc' = "loop"
     /\ start_failed' = FALSE
     /\ UNCHANGED pump
  \/ /\ start_failed' = TRUE
     /\ UNCHANGED <<m_running, source, thread, refused>>

(* addPID and removePID, of a recorder that runs: whatever the device answers,  *)
(* the PID is in m_pids, or out of it.  What was never added is not removed.    *)
AskDevice(added, removed) ==
  \E r \in SUBSET (added \cup (removed \ refused)) :
    /\ source' = (source \cup (added \ r)) \ (removed \ (refused \cup r))
    /\ refused' = (refused \ added) \cup r

(* addPID and removePID for what is new and what is obsolete *)
AddAndRemove(pids) == (m_pids \cup (pids \ m_pids_active)) \ (m_pids_active \ pids)

RecordProgram ==
  /\ ~m_streaming
  /\ MakeRecorder
  /\ IF program' = {}
     THEN UNCHANGED <<m_state, m_pids_active, m_running, m_pids, source, thread, refusals>>
     ELSE /\ m_pids' = AddAndRemove(program')
          /\ m_pids_active' = program'
          /\ m_state' = "recording"
          /\ IF m_state # "recording" THEN StartRecorder(m_pids')
             ELSE /\ IF m_running THEN AskDevice(m_pids' \ m_pids, m_pids \ m_pids')
                     ELSE UNCHANGED <<source, refused>>
                  /\ UNCHANGED <<m_running, thread, start_failed>>
  /\ m_error' = FALSE

Stream ==
  /\ m_streaming
  /\ m_state' = "recording" /\ m_error' = FALSE
  /\ UNCHANGED <<m_pids_active, m_target_fd, recorder, thread, refusals>>

DoRecord ==
  IF m_tuned' THEN RecordFails \/ RecordProgram \/ Stream
  ELSE UNCHANGED <<m_state, m_error, m_pids_active, m_target_fd, recorder, thread, refusals>>

(***************************************************************************)
(* The owner: prepare or prepareStreaming, start and stop.                  *)
(***************************************************************************)
(* doPrepare tunes.  That may fail, or find the channel tuned by another       *)
(* service already, and the PIDs of the service in the cache.  The state is    *)
(* "prepared" in any case, and the owner drops a service it could not prepare. *)
Prepare(streaming) ==
  /\ main = "idle" /\ m_state = "idle" /\ ~channel
  /\ m_streaming' = streaming
  /\ m_pids_active' = {} /\ m_state' = "prepared"
  /\ channel' = TRUE
  /\ m_tuned' \in BOOLEAN
  /\ demux' \in IF m_tuned' THEN BOOLEAN ELSE {FALSE}
  /\ program' \in IF demux' THEN SUBSET Pid ELSE {{}}
  /\ UNCHANGED <<m_want_record, m_error, m_target_fd, recorder, thread, main, history>>

(* start(), again when it has failed *)
Start ==
  /\ main = "idle" /\ channel /\ (m_want_record => wanted)
  /\ m_want_record' = TRUE /\ wanted' = TRUE
  /\ UNCHANGED <<m_tuned, m_streaming, handler, main>>
  /\ DoRecord

(* [slip] The file is closed before the thread is stopped. *)
Stop_CloseFirst(why) ==
  /\ wanted' = FALSE /\ main' = why
  /\ IF m_running THEN source' = {} /\ m_stop' = TRUE /\ m_target_fd' = FALSE
     ELSE UNCHANGED <<source, m_stop, m_target_fd>>
  /\ UNCHANGED <<m_state, m_want_record, m_tuned, m_error, m_streaming, m_pids_active, m_record,
                 m_running, m_pids, tpc, pump, handler, refusals>>

(* stop(): the recorder closes the device and tells its thread to stop ... *)
Stop(why) ==
  /\ wanted' = FALSE /\ main' = why
  /\ IF m_running THEN source' = {} /\ m_stop' = TRUE ELSE UNCHANGED <<source, m_stop>>
  /\ UNCHANGED <<m_state, m_want_record, m_tuned, m_error, m_streaming, m_pids_active, m_target_fd,
                 m_record, m_running, m_pids, tpc, pump, handler, refusals>>

ThreadEnded == tpc \in {"ended", "unread", "failed", "gone"}

(* [slip] The recorder is kept. *)
Stopped_KeepsRecorder ==
  /\ main = "error" /\ ThreadEnded
  /\ main' = "idle" /\ m_state' = "idle"
  /\ m_target_fd' = (m_target_fd /\ m_state # "recording")
  /\ m_running' = FALSE /\ tpc' = "gone" /\ pump' = FALSE
  /\ UNCHANGED <<m_want_record, m_tuned, m_error, m_streaming, m_pids_active, source, m_stop,
                 m_record, m_pids, handler, history>>

(* ... and when that has ended, the file is closed and the recorder deleted, *)
(* with its thread and the messages of that.  Only a recording closes the    *)
(* file: a recorder that was never started leaves it open. *)
Stopped ==
  /\ main = "error" /\ ThreadEnded
  /\ main' = "idle" /\ m_state' = "idle"
  /\ m_target_fd' = (m_target_fd /\ m_state # "recording")
  /\ m_record' = FALSE /\ m_running' = FALSE /\ m_pids' = {} /\ refused' = {}
  /\ tpc' = "gone" /\ pump' = FALSE
  /\ UNCHANGED <<m_want_record, m_tuned, m_error, m_streaming, m_pids_active, source, m_stop,
                 handler, wanted, start_failed>>

(* The owner stops the service and drops it at once.  The next timer has another *)
(* service and another file. *)
StopByOwner == main = "idle" /\ channel /\ Stop("owner")

Dropped ==
  /\ main = "owner" /\ ThreadEnded
  /\ main' = "idle"
  /\ m_state' = "idle" /\ m_want_record' = FALSE /\ m_tuned' = FALSE /\ m_error' = FALSE
  /\ m_streaming' = FALSE /\ m_pids_active' = {} /\ m_target_fd' = FALSE
  /\ m_record' = FALSE /\ m_running' = FALSE /\ m_pids' = {}
  /\ tpc' = "gone" /\ pump' = FALSE
  /\ channel' = FALSE /\ demux' = FALSE /\ program' = {}
  /\ start_failed' = FALSE /\ refused' = {}
  /\ UNCHANGED <<source, m_stop, wanted>>

(***************************************************************************)
(* The handler.                                                             *)
(***************************************************************************)
(* The channel is tuned: eventTuned, again each time it comes back as long as *)
(* there was no demux.  The PIDs of the service may be in the cache. *)
ChannelOk ==
  /\ main = "idle" /\ channel /\ ~demux
  /\ m_tuned' = TRUE
  /\ demux' \in BOOLEAN
  /\ UNCHANGED <<m_want_record, m_streaming, channel, program, main, wanted>>
  /\ IF m_state = "recording" /\ m_want_record THEN DoRecord
     ELSE UNCHANGED <<m_state, m_error, m_pids_active, m_target_fd, recorder, thread, refusals>>

(* [slip] The information comes to a service that is prepared, and is ignored. *)
NewProgramInfo_RecordingOnly ==
  /\ main = "idle" /\ demux
  /\ program' \in (SUBSET Pid) \ {{}}
  /\ UNCHANGED <<m_want_record, m_tuned, m_streaming, channel, demux, main, wanted>>
  /\ IF m_want_record /\ m_state = "recording" THEN DoRecord
     ELSE UNCHANGED <<m_state, m_error, m_pids_active, m_target_fd, recorder, thread, refusals>>

(* A PMT, or the cached PIDs, have come: eventNewProgramInfo.  An idle service *)
(* is prepared again: it has its channel and tunes at once. *)
NewProgramInfo ==
  /\ main = "idle" /\ demux
  /\ program' \in (SUBSET Pid) \ {{}}
  /\ UNCHANGED <<m_want_record, m_tuned, m_streaming, channel, demux, main, wanted>>
  /\ IF m_state = "idle"
     THEN /\ m_state' = "prepared" /\ m_pids_active' = {}
          /\ UNCHANGED <<m_error, m_target_fd, recorder, thread, refusals>>
     ELSE IF m_want_record THEN DoRecord
     ELSE UNCHANGED <<m_state, m_error, m_pids_active, m_target_fd, recorder, thread, refusals>>

(***************************************************************************)
(* The thread.                                                              *)
(***************************************************************************)
Quiet == UNCHANGED <<service, recorder, handler, main, history>>

Read == /\ tpc = "loop" /\ ~m_stop
        /\ tpc' = "write"
        /\ UNCHANGED <<m_stop, pump>> /\ Quiet

(* A read that fails, or finds no more, ends the thread, and nobody is told. *)
ReadFails == /\ tpc = "loop" /\ ~m_stop
             /\ tpc' = "unread"
             /\ UNCHANGED <<m_stop, pump>> /\ Quiet

EndLoop == /\ tpc = "loop" /\ m_stop
           /\ tpc' = "ended"
           /\ UNCHANGED <<m_stop, pump>> /\ Quiet

Write == /\ tpc = "write"
         /\ tpc' = "loop"
         /\ UNCHANGED <<m_stop, pump>> /\ Quiet

(* [slip] The thread ends without a word. *)
WriteError_Silent == /\ tpc = "write"
                     /\ tpc' = "failed"
                     /\ UNCHANGED <<m_stop, pump>> /\ Quiet

WriteError == /\ tpc = "write"
              /\ tpc' = "failed" /\ pump' = TRUE
              /\ UNCHANGED m_stop /\ Quiet

(* evtWriteError gets to recordEvent, which stops the recording. *)
RecordEvent == main = "idle" /\ pump /\ Stop("error")

Next ==
  \/ \E streaming \in BOOLEAN : Prepare(streaming)
  \/ Start \/ StopByOwner \/ Stopped \/ Dropped
  \/ ChannelOk \/ NewProgramInfo
  \/ Read \/ ReadFails \/ EndLoop \/ Write \/ WriteError \/ RecordEvent

Spec == Init /\ [][Next]_vars

(* The main loop runs, and the thread: a write returns, and a thread that was *)
(* told to stop leaves its loop. *)
FairSpec ==
  Spec /\ WF_vars(RecordEvent) /\ WF_vars(Stopped \/ Dropped)
       /\ WF_vars(Write \/ WriteError) /\ WF_vars(EndLoop)

--------------------------------------------------------------------------------
(* The types of the variables, and that only a service in use has a recorder. *)
TypeOK ==
  /\ m_state = "idle" => ~m_record
  /\ m_state \in {"idle", "prepared", "recording"}
  /\ m_want_record \in BOOLEAN /\ m_tuned \in BOOLEAN /\ m_error \in BOOLEAN
  /\ m_streaming \in BOOLEAN /\ m_target_fd \in BOOLEAN /\ m_record \in BOOLEAN
  /\ m_running \in BOOLEAN /\ m_stop \in BOOLEAN /\ pump \in BOOLEAN
  /\ channel \in BOOLEAN /\ demux \in BOOLEAN /\ wanted \in BOOLEAN
  /\ start_failed \in BOOLEAN
  /\ m_pids_active \subseteq Pid /\ m_pids \subseteq Pid /\ source \subseteq Pid
  /\ program \subseteq Pid /\ refused \subseteq Pid
  /\ tpc \in {"gone", "loop", "write", "ended", "unread", "failed"} /\ main \in {"idle", "error", "owner"}

(* While there is a thread in its loop there is a recorder, and the file it  *)
(* writes to is open: the number could belong to another file by now. *)
WritesToItsFile == tpc \in {"loop", "write"} => m_record /\ m_running /\ m_target_fd

(* In whatever order start(), the tuner and the program information come, and *)
(* however often the program changes: when all are there, the PIDs of the      *)
(* current program, and no others, are what the device delivers, and the thread *)
(* is at it.  Four things stand against it, and nothing else does: the recorder *)
(* could not be started; the device refused to add a PID or to remove it, which *)
(* concerns no other PID; a read has failed; or a write has, and its message is *)
(* on the way to the service. *)
WantedIsRecorded ==
  wanted /\ m_tuned /\ program # {} /\ ~m_streaming /\ ~m_error
    => /\ m_state = "recording"
       /\ ~start_failed => /\ m_running
                           /\ source \ refused = program \ refused
                           /\ tpc \in {"loop", "write", "unread"} \/ (tpc = "failed" /\ pump)

(* A recorder has its file, and belongs to a service in use. *)
RecorderKept == m_record => m_target_fd /\ m_state # "idle"

(* A thread that was started and not deleted yet has a recorder.  It is told to *)
(* stop when the recording is no longer wanted, and only then. *)
ThreadKept ==
  /\ tpc # "gone" => m_record /\ m_running /\ m_want_record
  /\ pump => m_want_record
  /\ m_running /\ wanted => ~m_stop /\ tpc \notin {"gone", "ended"}
  /\ tpc = "failed" => pump

(* A service with a channel is idle after a write error only: it has been      *)
(* started, and must not be started again. *)
IdleAfterError ==
  /\ main = "error" => m_want_record /\ ~wanted
  /\ m_state = "idle" /\ channel => m_want_record /\ ~wanted

(* Only what was started is recorded; the service knows which PIDs the recorder *)
(* has, and while it is wanted these are what the device delivers, but for the  *)
(* PIDs it refused. *)
PidsKept ==
  /\ m_state = "recording" => m_want_record
  /\ m_state # "recording" => m_pids = {} /\ ~m_running
  /\ m_state = "prepared" => m_pids_active = {}
  /\ m_state = "recording" /\ ~m_streaming
       => /\ m_record /\ m_pids = m_pids_active
          /\ wanted => IF m_running THEN source \ refused = m_pids \ refused
                        ELSE start_failed

(* What start(), eventTuned and eventNewProgramInfo leave to one another: the   *)
(* last of them finds all there is to be known, and records it. *)
LastOneRecords ==
  /\ wanted => channel /\ m_want_record /\ main = "idle"
  /\ program # {} => demux
  /\ wanted /\ m_tuned /\ program # {} /\ ~m_streaming /\ ~m_error
       => m_state = "recording" /\ m_pids_active = program

(* The inductive invariant. *)
IInv == TypeOK /\ RecorderKept /\ ThreadKept /\ IdleAfterError /\ PidsKept /\ LastOneRecords

(* The recorder ends, and the service with it, when a write has failed. *)
ErrorEndsRecording == tpc = "failed" ~> m_state = "idle"
================================================================================
