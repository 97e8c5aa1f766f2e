------------------------------ MODULE FileEraser ------------------------------
(***************************************************************************)
(* eBackgroundFileEraser (lib/components/file_eraser.cpp): erase() renames  *)
(* a file, sends its name to a thread and starts that thread if need be;    *)
(* the thread's main loop (lib/base/ebase.cpp) deletes the files and ends   *)
(* itself when it has had nothing to do for a second.  Nobody joins it      *)
(* before it is started again.                                              *)
(*                                                                          *)
(* The thread object is EThread, the pump MessageChannel: a message counts  *)
(* as sent when its byte is in the pipe.                                    *)
(***************************************************************************)
EXTENDS Integers, Sequences

CONSTANTS
  File,
  Quit,       \* the empty message of the destructor
  NoMessage,
  MaxErases   \* bound: calls of erase()

ASSUME EraserAssumption ==
  Quit \notin File /\ NoMessage \notin File \cup {Quit} /\ MaxErases \in Nat

VARIABLES
  m_state, m_alive, m_started, the_thread, tpc, opc, alive, cancel, program, \* of EThread
  pending, hand,  \* of MessageChannel
  disk,           \* a file is "there" under its name, "renamed" or "gone"
  loop,           \* the thread: "out" of runLoop, before the "reset", at the "top"
                  \* of an iteration, in "poll", or handling a message ("busy")
  app_quit_now,
  timer,          \* whether stop_thread_timer runs
  call,           \* the main thread: "idle", has "sent" a name, in "run",
                  \* in the destructor ("destroy", "kill") or past it ("gone")
  erases          \* what is left of the bound

thread_vars == <<m_state, m_alive, m_started, the_thread, tpc, opc, alive, cancel, program>>
channel == <<pending, hand>>
vars == <<thread_vars, channel, disk, loop, app_quit_now, timer, call, erases>>

Thread == INSTANCE EThread WITH OwnerJoins <- FALSE, CreateMayFail <- FALSE, create_failed <- 0
Channel == INSTANCE MessageChannel WITH Message <- File \cup {Quit}

Init ==
  /\ Thread!Init /\ Channel!Init
  /\ disk = [f \in File |-> "there"]
  /\ loop = "out" /\ app_quit_now = FALSE /\ timer = FALSE
  /\ call = "idle" /\ erases = MaxErases

-----------------------------------------------------------------------------
(* The thread *)

Starting == Thread!HasStarted /\ UNCHANGED <<channel, disk, loop, app_quit_now, timer, call, erases>>

Started ==
  /\ Thread!Up
  /\ loop' = IF tpc = "starting" THEN "reset" ELSE loop
  /\ UNCHANGED <<channel, disk, app_quit_now, timer, call, erases>>

At(pc, to) == program = "runs" /\ loop = pc /\ loop' = to

\* [slip] the loop still thinks it was told to quit
Reset_Missing ==
  /\ At("reset", "top")
  /\ UNCHANGED <<thread_vars, channel, disk, app_quit_now, timer, call, erases>>

Reset ==
  /\ At("reset", "top")
  /\ app_quit_now' = FALSE
  /\ UNCHANGED <<thread_vars, channel, disk, timer, call, erases>>

\* runLoop: an iteration begins with the timers; idle() calls quit(0), but the
\* iteration goes on.
Iterate ==
  /\ ~app_quit_now /\ At("top", "poll")
  /\ \/ UNCHANGED <<app_quit_now, timer>>
     \/ timer /\ timer' = FALSE /\ app_quit_now' = TRUE
  /\ UNCHANGED <<thread_vars, channel, disk, call, erases>>

\* poll: a message is taken, if there is one ...
Take ==
  /\ At("poll", "busy")
  /\ Channel!Take
  /\ UNCHANGED <<thread_vars, disk, app_quit_now, timer, call, erases>>

\* ... or it ends for a timer that is due, the one that has just fired included.
PollEnds ==
  /\ At("poll", "top")
  /\ pending = <<>> /\ (timer \/ app_quit_now)
  /\ UNCHANGED <<thread_vars, channel, disk, app_quit_now, timer, call, erases>>

\* [slip] the empty message is taken for the name of a file
GotMessage_NoQuit ==
  /\ At("busy", "top")
  /\ Channel!Done
  /\ disk' = [f \in File \cup {hand} |-> IF f = hand THEN "gone" ELSE disk[f]]
  /\ timer' = TRUE
  /\ UNCHANGED <<thread_vars, app_quit_now, call, erases>>

\* gotMessage: the file is deleted, as far as unlink() can, and the timer started,
\* or the loop ended.
GotMessage ==
  /\ At("busy", "top")
  /\ Channel!Done
  /\ IF hand = Quit THEN app_quit_now' = TRUE /\ UNCHANGED <<disk, timer>>
     ELSE /\ \E d \in {"gone", disk[hand]} : disk' = [disk EXCEPT ![hand] = d]
          /\ timer' = TRUE /\ UNCHANGED app_quit_now
  /\ UNCHANGED <<thread_vars, call, erases>>

\* runLoop returns, the timer is stopped and thread() is over.
Leave ==
  /\ app_quit_now /\ At("top", "out")
  /\ Thread!Finish
  /\ timer' = FALSE
  /\ UNCHANGED <<channel, disk, app_quit_now, call, erases>>

Complete == (Thread!NotAlive \/ Thread!Recover \/ Thread!Finished)
            /\ UNCHANGED <<channel, disk, loop, app_quit_now, timer, call, erases>>

-----------------------------------------------------------------------------
(* The main thread *)

Call(from, to) == program = "runs" /\ call = from /\ opc = "idle" /\ call' = to

InThreadCall == Thread!OwnerStep
                /\ UNCHANGED <<channel, disk, loop, app_quit_now, timer, call, erases>>

\* erase(), for a file that exists; the rename may fail, the name is sent.
Erase(f) ==
  /\ erases > 0 /\ erases' = erases - 1
  /\ disk[f] = "there" /\ Call("idle", "sent")
  /\ \E d \in {"renamed", "there"} : disk' = [disk EXCEPT ![f] = d]
  /\ Channel!Send(f)
  /\ UNCHANGED <<thread_vars, loop, app_quit_now, timer>>

Run ==
  /\ Call("sent", "run")
  /\ Thread!Run
  /\ UNCHANGED <<channel, disk, loop, app_quit_now, timer, erases>>

\* What run() returned does not matter.
RunReturns ==
  /\ Call("run", "idle")
  /\ UNCHANGED <<thread_vars, channel, disk, loop, app_quit_now, timer, erases>>

\* ~eBackgroundFileEraser
Destroy ==
  /\ Call("idle", "destroy")
  /\ Channel!Send(Quit)
  /\ UNCHANGED <<thread_vars, disk, loop, app_quit_now, timer, erases>>

\* [slip] the thread is not waited for
Kill_Missing ==
  /\ Call("destroy", "kill")
  /\ UNCHANGED <<thread_vars, channel, disk, loop, app_quit_now, timer, erases>>

Kill ==
  /\ Call("destroy", "kill")
  /\ Thread!Kill(FALSE)
  /\ UNCHANGED <<channel, disk, loop, app_quit_now, timer, erases>>

Destroyed ==
  /\ Call("kill", "gone")
  /\ UNCHANGED <<thread_vars, channel, disk, loop, app_quit_now, timer, erases>>

ThreadStep == Starting \/ Started \/ Reset \/ Iterate \/ Take \/ PollEnds \/ GotMessage
              \/ Leave \/ Complete
OwnerStep == InThreadCall \/ Run \/ RunReturns \/ Kill \/ Destroyed

Next == ThreadStep \/ OwnerStep \/ Destroy \/ \E f \in File : Erase(f)

Spec == Init /\ [][Next]_vars

\* Both threads are scheduled.
FairSpec == Spec /\ WF_vars(ThreadStep) /\ WF_vars(OwnerStep)

-----------------------------------------------------------------------------
TypeOK ==
  /\ pending \in Seq(File \cup {Quit}) /\ hand \in File \cup {Quit, NoMessage}
  /\ disk \in [File -> {"there", "renamed", "gone"}]
  /\ loop \in {"out", "reset", "top", "poll", "busy"}
  /\ app_quit_now \in BOOLEAN /\ timer \in BOOLEAN
  /\ call \in {"idle", "sent", "run", "destroy", "kill", "gone"}
  /\ erases \in 0 .. MaxErases

\* When the destructor has returned, no thread uses the object any more.
GoneForGood == call = "gone" => loop = "out" /\ tpc = "gone"

\* The loop runs in a thread that was announced and has not ended; a call of the
\* main thread is in its own part of EThread; past the kill() of the destructor
\* there is no thread.
CallsMatch ==
  /\ loop # "out" <=> tpc = "ready"
  /\ opc # "idle" => call \in {"run", "kill"}
  /\ call = "run" => opc \notin {"kill1", "kill2", "kill2r", "kill3", "kill4", "sync1", "sync2",
                              "sync2r"}
  /\ call = "kill" => opc \in {"idle", "kill1", "kill2", "kill2r", "kill3", "kill4"}
  /\ call \in {"kill", "gone"} /\ opc = "idle" => tpc = "gone"

\* The inductive invariant.
IInv == TypeOK /\ Thread!AliveKept /\ CallsMatch

\* The destructor returns, whatever the thread is doing when it is called.
DestructorReturns == call = "destroy" ~> call = "gone" \/ program = "dead"

\* A name that was sent is taken up, unless it stays where it is for good: the
\* thread gone, and nobody calling erase() any more.  Whatever ended the thread
\* before, one that is started takes up the name that waits longest.
Oldest(f) == pending # <<>> /\ pending[1] = f
Stranded(f) == Oldest(f) /\ tpc = "gone" /\ call \in {"idle", "gone"}
SentIsTaken ==
  \A f \in File :
    /\ Oldest(f) ~> hand = f \/ program = "dead" \/ []Stranded(f)
    /\ Oldest(f) /\ tpc = "body" ~> hand = f \/ program = "dead"

-----------------------------------------------------------------------------
(* What an assertion of the repository says, and the code does not keep. *)

\* thread.cpp:128: "ASSERT(!m_state.value());"
StateIsTaken == Thread!NoFatal
=============================================================================
