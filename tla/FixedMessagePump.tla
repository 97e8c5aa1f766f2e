-------------------------- MODULE FixedMessagePump --------------------------
(***************************************************************************)
(* eFixedMessagePump (lib/base/message.h): messages travel in a queue      *)
(* guarded by a lock, and a byte in a pipe wakes the reader's main loop    *)
(* for each of them.  The byte is written after the lock is given up, so   *)
(* bytes and messages run out of step; do_recv takes one of each.          *)
(*                                                                         *)
(* Threads in Sharing hold a mutex of the application around send(), and   *)
(* the handler of recv_msg takes that mutex too.                           *)
(***************************************************************************)
EXTENDS Integers, Sequences, FiniteSets

CONSTANTS
  Sender,      \* threads that call send()
  Sharing,     \* those of them that hold the application's mutex meanwhile
  Reader,      \* the thread whose main loop owns the notifier
  Message, NoMessage,
  PipeSize,    \* bytes the kernel keeps in the pipe
  MaxSends     \* bound: messages each sender sends

CONSTANT Free  \* nobody: the value of a lock that is not held

ASSUME PumpAssumption ==
  /\ IsFiniteSet(Sender) /\ Sharing \subseteq Sender
  /\ Reader \notin Sender /\ Free \notin Sender \cup {Reader}
  /\ NoMessage \notin Message
  /\ PipeSize \in Nat \ {0} /\ MaxSends \in Nat

VARIABLES
  m_queue,
  m_pipe,   \* bytes in the pipe
  lock,     \* who holds the pump's lock
  mutex,    \* who holds the application's mutex
  spc,      \* where each sender is: "idle", "lock", "push", "write"
  msg,      \* the message each sender is sending
  sends,    \* messages each sender may still send
  rpc,      \* where the reader is: "poll", "got", "locked", "deliver"
  front     \* the message do_recv copied out of the queue

vars == <<m_queue, m_pipe, lock, mutex, spc, msg, sends, rpc, front>>

Init ==
  /\ m_queue = <<>> /\ m_pipe = 0
  /\ lock = Free /\ mutex = Free
  /\ spc = [s \in Sender |-> "idle"]
  /\ msg = [s \in Sender |-> NoMessage]
  /\ sends = [s \in Sender |-> MaxSends]
  /\ rpc = "poll" /\ front = NoMessage

-----------------------------------------------------------------------------
(* send() *)

Begin(s, m) ==
  /\ spc[s] = "idle" /\ sends[s] > 0
  /\ IF s \in Sharing THEN mutex = Free /\ mutex' = s ELSE UNCHANGED mutex
  /\ spc' = [spc EXCEPT ![s] = "lock"]
  /\ msg' = [msg EXCEPT ![s] = m]
  /\ sends' = [sends EXCEPT ![s] = @ - 1]
  /\ UNCHANGED <<m_queue, m_pipe, lock, rpc, front>>

Lock(s) ==
  /\ spc[s] = "lock" /\ lock = Free
  /\ lock' = s
  /\ spc' = [spc EXCEPT ![s] = "push"]
  /\ UNCHANGED <<m_queue, m_pipe, mutex, msg, sends, rpc, front>>

\* [slip] a message equal to the last one waiting is not queued again
Push_Coalesces(s) ==
  /\ spc[s] = "push"
  /\ m_queue' = IF m_queue # <<>> /\ m_queue[Len(m_queue)] = msg[s] THEN m_queue
                ELSE Append(m_queue, msg[s])
  /\ lock' = Free
  /\ spc' = [spc EXCEPT ![s] = "write"]
  /\ msg' = [msg EXCEPT ![s] = NoMessage]
  /\ UNCHANGED <<m_pipe, mutex, sends, rpc, front>>

Push(s) ==
  /\ spc[s] = "push"
  /\ m_queue' = Append(m_queue, msg[s])
  /\ lock' = Free
  /\ spc' = [spc EXCEPT ![s] = "write"]
  /\ msg' = [msg EXCEPT ![s] = NoMessage]
  /\ UNCHANGED <<m_pipe, mutex, sends, rpc, front>>

\* write() blocks while the pipe is full; EINTR makes it try again.
Write(s) ==
  /\ spc[s] = "write" /\ m_pipe < PipeSize
  /\ m_pipe' = m_pipe + 1
  /\ mutex' = IF s \in Sharing THEN Free ELSE mutex
  /\ spc' = [spc EXCEPT ![s] = "idle"]
  /\ UNCHANGED <<m_queue, lock, msg, sends, rpc, front>>

-----------------------------------------------------------------------------
(* do_recv(), which the main loop calls when the pipe has something to read *)

\* [slip] the reader drains the pipe at once
Read_Drains ==
  /\ rpc = "poll" /\ m_pipe > 0
  /\ m_pipe' = 0
  /\ rpc' = "got"
  /\ UNCHANGED <<m_queue, lock, mutex, spc, msg, sends, front>>

Read ==
  /\ rpc = "poll" /\ m_pipe > 0
  /\ m_pipe' = m_pipe - 1
  /\ rpc' = "got"
  /\ UNCHANGED <<m_queue, lock, mutex, spc, msg, sends, front>>

RecvLock ==
  /\ rpc = "got" /\ lock = Free
  /\ lock' = Reader
  /\ rpc' = "locked"
  /\ UNCHANGED <<m_queue, m_pipe, mutex, spc, msg, sends, front>>

\* [slip] the message is delivered with the lock still held
Pop_KeepsLock ==
  /\ rpc = "locked" /\ m_queue # <<>>
  /\ front' = Head(m_queue) /\ m_queue' = Tail(m_queue) /\ rpc' = "deliver"
  /\ UNCHANGED <<m_pipe, lock, mutex, spc, msg, sends>>

\* [slip] the newest message is taken
Pop_Newest ==
  /\ rpc = "locked" /\ m_queue # <<>>
  /\ front' = m_queue[Len(m_queue)] /\ m_queue' = SubSeq(m_queue, 1, Len(m_queue) - 1)
  /\ lock' = Free /\ rpc' = "deliver"
  /\ UNCHANGED <<m_pipe, mutex, spc, msg, sends>>

\* The front of the queue is copied and taken off, the lock given up; an empty
\* queue is tolerated, and its byte spent for nothing.
Pop ==
  /\ rpc = "locked"
  /\ lock' = Free
  /\ IF m_queue = <<>>
     THEN rpc' = "poll" /\ UNCHANGED <<front, m_queue>>
     ELSE front' = Head(m_queue) /\ m_queue' = Tail(m_queue) /\ rpc' = "deliver"
  /\ UNCHANGED <<m_pipe, mutex, spc, msg, sends>>

\* recv_msg(msg): the handler runs, with the application's mutex if it is shared
Deliver ==
  /\ rpc = "deliver" /\ (Sharing # {} => mutex = Free)
  /\ front' = NoMessage
  /\ rpc' = "poll"
  /\ UNCHANGED <<m_queue, m_pipe, lock, mutex, spc, msg, sends>>

SenderStep(s) == Lock(s) \/ Push(s) \/ Write(s)
ReaderStep == Read \/ RecvLock \/ Pop \/ Deliver

Next == ReaderStep \/ \E s \in Sender : SenderStep(s) \/ \E m \in Message : Begin(s, m)

Spec == Init /\ [][Next]_vars

\* Threads are scheduled; nobody has to send.  Senders pause in the end (their
\* sends are bounded), so a thread that waits for a lock gets it.
FairSpec == Spec /\ WF_vars(ReaderStep) /\ \A s \in Sender : WF_vars(SenderStep(s))

-----------------------------------------------------------------------------
TypeOK ==
  /\ m_queue \in Seq(Message)
  /\ m_pipe \in 0 .. PipeSize
  /\ lock \in Sender \cup {Reader, Free}
  /\ mutex \in Sharing \cup {Free}
  /\ spc \in [Sender -> {"idle", "lock", "push", "write"}]
  /\ msg \in [Sender -> Message \cup {NoMessage}]
  /\ sends \in [Sender -> 0 .. MaxSends]
  /\ rpc \in {"poll", "got", "locked", "deliver"}
  /\ front \in Message \cup {NoMessage}

Writing == {s \in Sender : spc[s] = "write"}

\* Every message in the queue has its byte: in the pipe, about to be written by
\* a sender that gave up the lock, or in the hands of the reader.
BytesMatchMessages ==
  Len(m_queue) = m_pipe + Cardinality(Writing)
                 + (IF rpc \in {"got", "locked"} THEN 1 ELSE 0)

\* The reader never finds the queue empty, the branch do_recv is prepared for:
\* no byte is ever spent without a message, so no later message is stranded.
NeverEmptyHanded == rpc = "locked" => m_queue # <<>>

\* A message is in the hands of a sender before it is queued, and in the
\* reader's while the handler runs.
InHand ==
  /\ \A s \in Sender : msg[s] \in Message <=> spc[s] \in {"lock", "push"}
  /\ front \in Message <=> rpc = "deliver"

\* The inductive invariant.
IInv == TypeOK /\ InHand /\ BytesMatchMessages

\* The pump implements the channel.
Channel == INSTANCE MessageChannel WITH pending <- m_queue, hand <- front
ChannelSpec == Channel!Spec
ChannelFairSpec == Channel!FairSpec
=============================================================================
