------------------------------- MODULE FilePush -------------------------------
(***************************************************************************)
(* Playback of a file: eFilePushThread (lib/base/filepush.cpp) copies it    *)
(* into the FIFO the decoder reads, asking eDVBChannel for spans of the     *)
(* file, while eDVBChannel, on the main thread, seeks (pause, flush and     *)
(* resume) and at last closes the source (stop and delete).  EThread says   *)
(* how the two start and join each other.                                   *)
(*                                                                          *)
(* Data are offsets into the file: m_buffer holds the bytes from buf_start  *)
(* up to buf_end.  A file shorter than a span is played without cue spans   *)
(* or skip mode; it may still grow, as a timeshift does.                    *)
(***************************************************************************)
EXTENDS Integers, Sequences

CONSTANTS
  Target,      \* offsets a user may seek to
  MaxSeeks,    \* bound: seeks
  FileLen,     \* bound: the file grows up to here
  BlockSize,   \* m_blocksize, a TS packet
  BufferSize,  \* m_buffersize
  SpanSize,    \* the most getNextSourceSpan hands out at once
  FifoSize,    \* what the FIFO holds
  WriteFails   \* whether a write to the FIFO may fail

ASSUME PushAssumption ==
  /\ {BlockSize, BufferSize, SpanSize, FifoSize} \subseteq Nat \ {0}
  /\ {FileLen, MaxSeeks} \subseteq Nat
  /\ BufferSize % BlockSize = 0 /\ SpanSize % BlockSize = 0
  /\ \A t \in Target : t \in 0 .. FileLen /\ t % BlockSize = 0
  /\ WriteFails \in BOOLEAN

VARIABLES
  m_state, m_alive, m_started, the_thread, tpc, opc, alive, cancel, program, \* of EThread
  m_stop,
  wpc,        \* the thread's loop: at the "top", about to write ("drain"), inside
              \* "write", at "span", "read" or "eof", or "out" of it
  buf_start, buf_end,
  m_current_position,
  span,       \* current_span_remaining
  m_seek_requests,
  call,       \* the main thread: "idle", in one of the calls below, or "deleted"
  closing,    \* whether the stop under way ends the playback
  fifo,       \* bytes in the FIFO
  file_len,
  seeks_left,
  due, cut,   \* history: the offset to be written next, and whether a flush
              \* has dropped bytes from there on
  failed      \* history: whether a write failed: "never", "now", since the thread was
              \* started, or only "before" that

thread_vars == <<m_state, m_alive, m_started, the_thread, tpc, opc, alive, cancel, program>>
data == <<buf_start, buf_end, m_current_position, span, due, cut, failed>>
outside == <<fifo, file_len>>
owner == <<m_stop, call, closing, seeks_left>>
vars == <<thread_vars, m_stop, wpc, data, m_seek_requests, call, closing, outside, seeks_left>>

Thread == INSTANCE EThread WITH OwnerJoins <- FALSE, CreateMayFail <- FALSE, create_failed <- 0
JoinedThread == INSTANCE EThread WITH OwnerJoins <- TRUE, CreateMayFail <- FALSE, create_failed <- 0

Least(a, b) == IF a < b THEN a ELSE b

Init ==
  /\ Thread!Init
  /\ m_stop = 0 /\ wpc = "out"
  /\ buf_start = 0 /\ buf_end = 0 /\ m_current_position = 0 /\ span = 0
  /\ m_seek_requests = <<>>
  /\ call = "start" /\ closing = FALSE
  /\ fifo = 0 /\ file_len = 0
  /\ seeks_left = MaxSeeks
  /\ due = 0 /\ cut = FALSE /\ failed = "never"

-----------------------------------------------------------------------------
(* The thread.  At(pc, to): its loop is at "pc" and goes on at "to". *)

At(pc, to) == program = "runs" /\ wpc = pc /\ wpc' = to

HasStarted == Thread!HasStarted
              /\ UNCHANGED <<wpc, data, m_seek_requests, owner, outside>>

\* [slip] what is left of the span survives the end of the thread
Up_KeepsSpan ==
  /\ Thread!Up
  /\ wpc' = IF tpc = "starting" THEN "top" ELSE wpc
  /\ UNCHANGED <<data, m_seek_requests, owner, outside>>

\* When hasStarted() is done the loop begins, with no span in hand.
Up ==
  /\ Thread!Up
  /\ IF tpc = "starting" THEN wpc' = "top" /\ span' = 0 ELSE UNCHANGED <<wpc, span>>
  /\ UNCHANGED <<buf_start, buf_end, m_current_position, due, cut, failed, m_seek_requests,
                 owner, outside>>

\* thread() is left.
Leave(pc) == At(pc, "out") /\ Thread!Finish
             /\ UNCHANGED <<data, m_seek_requests, owner, outside>>

\* while (!m_stop): flush the buffer first
Top ==
  IF m_stop = 1 THEN Leave("top")
  ELSE /\ At("top", IF buf_start # buf_end THEN "drain" ELSE "span")
       /\ UNCHANGED <<thread_vars, data, m_seek_requests, owner, outside>>

\* write() is entered; a signal that came before is forgotten.
EnterWrite == At("drain", "write")
              /\ UNCHANGED <<thread_vars, data, m_seek_requests, owner, outside>>

\* The kernel copies a byte as soon as there is room, and write() returns when
\* nothing is left to copy.
CopyByte ==
  /\ fifo < FifoSize
  /\ At("write", IF buf_start + 1 = buf_end THEN "top" ELSE "write")
  /\ fifo' = fifo + 1 /\ buf_start' = buf_start + 1
  /\ due' = buf_start + 1 /\ cut' = FALSE
  /\ UNCHANGED <<thread_vars, buf_end, m_current_position, span, failed, m_seek_requests,
                 owner, file_len>>

\* A write that fails for good ends the thread.
WriteError ==
  /\ WriteFails /\ At("write", "out") /\ Thread!Finish
  /\ failed' = "now"
  /\ UNCHANGED <<buf_start, buf_end, m_current_position, span, due, cut, m_seek_requests,
                 owner, outside>>

\* [slip] a seek counts from the current position
NextSpan_Relative ==
  /\ At("span", "read")
  /\ IF span > 0 THEN UNCHANGED <<m_current_position, span, m_seek_requests, due, cut>>
     ELSE /\ span' = SpanSize
          /\ m_seek_requests' = <<>>
          /\ \/ UNCHANGED <<m_current_position, due, cut>>
             \/ \E i \in DOMAIN m_seek_requests :
                  LET t == m_current_position + m_seek_requests[i]
                  IN  m_current_position' = t /\ due' = t /\ cut' = FALSE
  /\ UNCHANGED <<thread_vars, buf_start, buf_end, failed, owner, outside>>

\* getNextSourceSpan, when the span is used up: the requests to seek are taken
\* off the cue sheet; the last one that an offset is found for counts.
NextSpan ==
  /\ At("span", "read")
  /\ IF span > 0 THEN UNCHANGED <<m_current_position, span, m_seek_requests, due, cut>>
     ELSE /\ span' = SpanSize
          /\ m_seek_requests' = <<>>
          /\ \/ UNCHANGED <<m_current_position, due, cut>>
             \/ \E i \in DOMAIN m_seek_requests :
                  LET t == m_seek_requests[i]
                  IN  m_current_position' = t /\ due' = t /\ cut' = FALSE
  /\ UNCHANGED <<thread_vars, buf_start, buf_end, failed, owner, outside>>

\* What a read gets: up to the end of the span or of the file ...
Got == LET left == IF file_len < m_current_position THEN 0 ELSE file_len - m_current_position
       IN  Least(Least(BufferSize, span), left)
\* ... cut to whole packets.
Aligned == (Got \div BlockSize) * BlockSize

\* [slip] the bytes that do not fill a packet count as read
Read_CountsTail ==
  /\ At("read", IF Aligned = 0 THEN "eof" ELSE "top")
  /\ buf_start' = m_current_position
  /\ buf_end' = m_current_position + Aligned
  /\ m_current_position' = m_current_position + Got
  /\ span' = span - Aligned
  /\ UNCHANGED <<thread_vars, due, cut, failed, m_seek_requests, owner, outside>>

Read ==
  /\ At("read", IF Aligned = 0 THEN "eof" ELSE "top")
  /\ buf_start' = m_current_position
  /\ buf_end' = m_current_position + Aligned
  /\ m_current_position' = m_current_position + Aligned
  /\ span' = span - Aligned
  /\ UNCHANGED <<thread_vars, due, cut, failed, m_seek_requests, owner, outside>>

\* A read that fails is tried again, at once after a signal or an overflow; any
\* other error is taken for the end of the file.
ReadError ==
  /\ At("read", "top") \/ At("read", "eof")
  /\ buf_start' = m_current_position /\ buf_end' = m_current_position
  /\ UNCHANGED <<thread_vars, m_current_position, span, due, cut, failed, m_seek_requests,
                 owner, outside>>

\* [slip] the thread ends with the file
Eof_Leaves == Leave("eof")

\* The end of the file, in stream mode: wait for the FIFO to have room, sleep and
\* try again.
Eof == At("eof", "top") /\ UNCHANGED <<thread_vars, data, m_seek_requests, owner, outside>>

\* thread_completed()
Complete == (Thread!NotAlive \/ Thread!Recover \/ Thread!Finished)
            /\ UNCHANGED <<wpc, data, m_seek_requests, owner, outside>>

-----------------------------------------------------------------------------
(* The main thread: seekTo and flushPVR, stopSource.  It goes on when the call *)
(* of EThread it made is over.                                                 *)

Call(from, to) == program = "runs" /\ call = from /\ opc = "idle" /\ call' = to

\* EThread's own steps in sync(), run() and kill()
InThreadCall ==
  /\ Thread!OwnerStep
  /\ UNCHANGED <<wpc, data, m_seek_requests, owner, outside>>

\* The first half of stop(): sync()
Seek(t) ==
  /\ seeks_left > 0 /\ Call("idle", "sync")
  /\ m_seek_requests' = Append(m_seek_requests, t)
  /\ seeks_left' = seeks_left - 1
  /\ Thread!Sync
  /\ UNCHANGED <<wpc, data, m_stop, closing, outside>>

StopSource ==
  /\ Call("idle", "sync")
  /\ closing' = TRUE
  /\ Thread!Sync
  /\ UNCHANGED <<wpc, data, m_seek_requests, m_stop, seeks_left, outside>>

\* [slip] the thread is not told to stop
SetStop_NoFlag ==
  /\ Call("sync", IF alive = 0 THEN "stopped" ELSE "signal")
  /\ UNCHANGED <<thread_vars, wpc, data, m_seek_requests, m_stop, closing, seeks_left, outside>>

\* A thread that is not alive is not stopped, nor joined.
SetStop ==
  /\ Call("sync", IF alive = 0 THEN "stopped" ELSE "signal")
  /\ m_stop' = IF alive = 0 THEN m_stop ELSE 1
  /\ UNCHANGED <<thread_vars, wpc, data, m_seek_requests, closing, seeks_left, outside>>

\* SIGUSR1 ends the system call the thread is in, if it is in one.
Signal ==
  /\ Call("signal", "kill")
  /\ wpc' = IF m_alive = 1 /\ wpc \in {"write", "eof"} THEN "top" ELSE wpc
  /\ UNCHANGED <<thread_vars, data, m_seek_requests, m_stop, closing, seeks_left, outside>>

\* [slip] stop() does not wait for the thread
Kill_NoJoin ==
  /\ Call("kill", "stopped")
  /\ UNCHANGED <<thread_vars, wpc, data, m_seek_requests, m_stop, closing, seeks_left, outside>>

Kill ==
  /\ Call("kill", "join")
  /\ Thread!Kill(FALSE)
  /\ UNCHANGED <<wpc, data, m_seek_requests, m_stop, closing, seeks_left, outside>>

Joined ==
  /\ Call("join", "stopped")
  /\ UNCHANGED <<thread_vars, wpc, data, m_seek_requests, m_stop, closing, seeks_left, outside>>

\* [slip] the buffer keeps what was read before the seek
Flush_KeepsBuffer ==
  /\ ~closing /\ Call("stopped", "start")
  /\ UNCHANGED <<thread_vars, wpc, data, m_seek_requests, m_stop, closing, seeks_left, outside>>

\* eFilePushThread::flush
Flush ==
  /\ ~closing /\ Call("stopped", "start")
  /\ buf_start' = 0 /\ buf_end' = 0
  /\ cut' = (cut \/ buf_start # buf_end)
  /\ UNCHANGED <<thread_vars, wpc, m_current_position, span, due, failed, m_seek_requests,
                 m_stop, closing, seeks_left, outside>>

\* resume(), of start() and of flushPVR()
Resume ==
  /\ Call("start", "run")
  /\ m_stop' = 0
  /\ Thread!Run
  /\ failed' = IF failed = "now" THEN "before" ELSE failed
  /\ UNCHANGED <<wpc, buf_start, buf_end, m_current_position, span, due, cut,
                 m_seek_requests, closing, seeks_left, outside>>

Resumed ==
  /\ Call("run", "idle")
  /\ UNCHANGED <<thread_vars, wpc, data, m_seek_requests, m_stop, closing, seeks_left, outside>>

\* delete m_pvr_thread: munmap, then kill() in ~eThread
Delete ==
  /\ closing /\ Call("stopped", "delete")
  /\ Thread!Kill(FALSE)
  /\ UNCHANGED <<wpc, data, m_seek_requests, m_stop, closing, seeks_left, outside>>

Deleted ==
  /\ Call("delete", "deleted")
  /\ UNCHANGED <<thread_vars, wpc, data, m_seek_requests, m_stop, closing, seeks_left, outside>>

-----------------------------------------------------------------------------
(* The decoder reads the FIFO; whoever records the file makes it grow. *)

Decode == fifo > 0 /\ fifo' = fifo - 1
          /\ UNCHANGED <<thread_vars, wpc, data, m_seek_requests, owner, file_len>>

Grow == file_len < FileLen /\ file_len' = file_len + 1
        /\ UNCHANGED <<thread_vars, wpc, data, m_seek_requests, owner, fifo>>

ThreadStep == HasStarted \/ Up \/ Top \/ EnterWrite \/ CopyByte \/ WriteError \/ NextSpan
              \/ Read \/ ReadError \/ Eof \/ Complete
OwnerStep == InThreadCall \/ SetStop \/ Signal \/ Kill \/ Joined \/ Flush \/ Resume
             \/ Resumed \/ Delete \/ Deleted

Next == ThreadStep \/ OwnerStep \/ StopSource \/ (\E t \in Target : Seek(t)) \/ Decode \/ Grow

Spec == Init /\ [][Next]_vars

\* Both threads are scheduled.
ThreadsFair == WF_vars(ThreadStep) /\ WF_vars(OwnerStep)

\* The decoder plays, too, and a read that is tried again and again succeeds.
FairSpec == Spec /\ ThreadsFair /\ WF_vars(Decode) /\ SF_vars(Read)

\* The decoder may be paused for good.
PausedSpec == Spec /\ ThreadsFair

-----------------------------------------------------------------------------
\* EThread states the types of its variables.
TypeOK ==
  /\ m_stop \in 0 .. 1
  /\ wpc \in {"top", "drain", "write", "span", "read", "eof", "out"}
  /\ buf_start \in 0 .. FileLen /\ buf_end \in 0 .. FileLen
  /\ m_current_position \in 0 .. FileLen /\ due \in 0 .. FileLen /\ file_len \in 0 .. FileLen
  /\ span \in 0 .. SpanSize /\ m_seek_requests \in Seq(Target)
  /\ call \in {"start", "run", "idle", "sync", "signal", "kill", "join", "stopped",
               "delete", "deleted"}
  /\ closing \in BOOLEAN /\ cut \in BOOLEAN /\ failed \in {"never", "now", "before"}
  /\ fifo \in 0 .. FifoSize /\ seeks_left \in 0 .. MaxSeeks

\* While the main thread flushes the buffer or unmaps it, the thread is out of
\* its loop, whether it was stopped or had ended by itself.
BufferExclusive == call \in {"stopped", "start", "delete", "deleted"} => wpc = "out"

\* The decoder gets the file without gap or repetition: what is written next is
\* what follows the byte written before or the target of a seek, except that a
\* flush may have dropped bytes in between.
Contiguous == [][CopyByte => IF cut THEN buf_start >= due ELSE buf_start = due]_vars

\* The thread that runs after a seek does not write a byte before it has taken
\* the request: nothing read before the seek gets to the decoder any more.
SeekComesFirst == [][CopyByte /\ call \in {"run", "idle"} => m_seek_requests = <<>>]_vars

\* A call of the main thread is in its own part of EThread, and the loop of the
\* thread is left when stop() is over: stop() found m_alive cleared, which only
\* run() sets again, or has joined the thread.
StopLeavesLoop ==
  /\ wpc # "out" <=> tpc = "ready"
  /\ opc # "idle" => call \in {"run", "sync", "join", "delete"}
  /\ call = "sync" => opc \in {"idle", "sync1", "sync2", "sync2r"}
  /\ call \in {"join", "delete"} => opc \in {"idle", "kill1", "kill2", "kill2r", "kill3", "kill4"}
  /\ call = "run" => opc \notin {"kill1", "kill2", "kill2r", "kill3", "kill4", "sync1", "sync2",
                              "sync2r"}
  /\ (\/ call \in {"stopped", "start", "delete", "deleted"}
      \/ call = "sync" /\ opc = "idle" /\ alive = 0
      \/ call = "join" /\ opc = "idle"
      \/ call = "run" /\ opc \in {"run1", "run2", "run2r"}) => m_alive = 0

\* Where the next byte to be written comes from.
Position == IF buf_start # buf_end THEN buf_start ELSE m_current_position

\* The buffer ends where the next read begins, and nothing is read over it.
InOrder ==
  /\ buf_start # buf_end => buf_start < buf_end /\ buf_end = m_current_position
  /\ wpc \in {"drain", "write"} => buf_start # buf_end
  /\ wpc \in {"span", "read", "eof"} => buf_start = buf_end
  /\ due <= Position /\ (due = Position \/ cut)

\* After a flush the thread has nothing to write and no span until it has taken
\* the requests.
RequestsFirst ==
  m_seek_requests # <<>> /\ call \in {"start", "run", "idle"}
    => /\ buf_start = buf_end
       /\ wpc = "out" \/ (wpc \in {"top", "span"} /\ span = 0)

\* A thread whose writes succeed ends only when it is told to, and is joined then:
\* between stop() and run() the object holds no thread.
StopJoins ==
  /\ call \in {"stopped", "start", "delete", "deleted"} => the_thread = 0
  /\ call = "join" /\ opc = "idle" => the_thread = 0
  /\ call \in {"idle", "sync", "signal"} => the_thread = 1
  /\ call = "run" /\ opc = "idle" => the_thread = 1
  /\ call = "sync" /\ opc \in {"sync2r", "idle"} => alive = 1
  /\ opc = "run2r" => alive = 0
  /\ call \in {"run", "idle", "sync"} => m_stop = 0
  /\ the_thread = 1 /\ m_stop = 0 => tpc \in {"body", "starting", "ready"}

\* As long as no write has failed, semaphore and thread are as EThread says for an
\* owner that joins: no ASSERT of thread.cpp fails, whatever a seek, a pause or the
\* end of playback meets.
JoinedSoFar == failed = "never" => StopJoins /\ JoinedThread!IInv

\* The inductive invariant.
IInv ==
  TypeOK /\ Thread!AliveKept /\ StopLeavesLoop /\ InOrder /\ RequestsFirst /\ JoinedSoFar

\* stop() returns, unless the program is dead (see FileEraser: the same happens
\* here when a seek comes while the thread ends after a write error).
StopReturns == call = "sync" ~> call = "stopped" \/ program = "dead"

\* All of the file is handed to the decoder in the end, what is appended while it
\* plays included, unless playback is closed or a write has failed.
AllPlayed ==
  <>[](\/ call = "deleted" \/ failed = "now" \/ program = "dead"
       \/ buf_start = buf_end /\ file_len - m_current_position < BlockSize)

-----------------------------------------------------------------------------
(* What a comment of the repository says, and the code does not do. *)

\* filepush.cpp:352: "just do it ONCE. it won't help to do this more than once."
\* A thread that is told to stop is not left in a system call.
OnceIsEnough == call = "join" /\ opc = "kill4" ~> call = "stopped"
=============================================================================
