----------------------- MODULE FixedMessagePump_proofs -----------------------
(***************************************************************************)
(* Proofs about FixedMessagePump, for any number of senders, messages and  *)
(* any size of the pipe.                                                   *)
(***************************************************************************)
EXTENDS FixedMessagePump, FiniteSetTheorems, TLAPS

USE PumpAssumption

(***************************************************************************)
(* A sender that pushed joins the writers: their number grows by one.      *)
(***************************************************************************)
LEMMA WriterJoins ==
  ASSUME NEW s \in Sender, spc \in [Sender -> {"idle", "lock", "push", "write"}],
         spc[s] # "write", spc' = [spc EXCEPT ![s] = "write"]
  PROVE  /\ Cardinality(Writing) \in Nat
         /\ Cardinality(Writing') = Cardinality(Writing) + 1
<1>1. IsFiniteSet(Writing)
  BY FS_Subset DEF Writing
<1>2. Writing' = Writing \cup {s} /\ s \notin Writing
  BY DEF Writing
<1> QED
  BY <1>1, <1>2, FS_AddElement, FS_CardinalityType

(***************************************************************************)
(* A sender that wrote its byte leaves them.                               *)
(***************************************************************************)
LEMMA WriterLeaves ==
  ASSUME NEW s \in Sender, spc \in [Sender -> {"idle", "lock", "push", "write"}],
         spc[s] = "write", spc' = [spc EXCEPT ![s] = "idle"]
  PROVE  /\ Cardinality(Writing) \in Nat
         /\ Cardinality(Writing') = Cardinality(Writing) - 1
<1>1. IsFiniteSet(Writing)
  BY FS_Subset DEF Writing
<1>2. Writing' = Writing \ {s} /\ s \in Writing
  BY DEF Writing
<1> QED
  BY <1>1, <1>2, FS_RemoveElement, FS_CardinalityType

(***************************************************************************)
(* Any other step of a sender leaves the writers alone.                    *)
(***************************************************************************)
LEMMA WritersStay ==
  ASSUME NEW s \in Sender, spc \in [Sender -> {"idle", "lock", "push", "write"}],
         NEW t \in {"lock", "push"}, spc[s] # "write", spc' = [spc EXCEPT ![s] = t]
  PROVE  Writing' = Writing
BY DEF Writing

-----------------------------------------------------------------------------
THEOREM Initially == Init => IInv
<1> SUFFICES ASSUME Init PROVE IInv
  OBVIOUS
<1>1. TypeOK
  BY DEF Init, TypeOK
<1>2. InHand
  BY DEF Init, InHand
<1>3. Writing = {}
  BY DEF Init, Writing
<1>4. BytesMatchMessages
  BY <1>3, FS_EmptySet DEF Init, BytesMatchMessages
<1> QED
  BY <1>1, <1>2, <1>4 DEF IInv

(***************************************************************************)
(* Every step keeps the books: each action moves one byte or one message   *)
(* from one place of the sum to another, or both into it.                  *)
(***************************************************************************)
THEOREM Inductive == IInv /\ [Next]_vars => IInv'
<1> SUFFICES ASSUME IInv, [Next]_vars PROVE IInv'
  OBVIOUS
<1> USE DEF IInv
<1>a. /\ IsFiniteSet(Writing) /\ Cardinality(Writing) \in Nat
  <2>1. IsFiniteSet(Writing)
    BY FS_Subset DEF Writing
  <2> QED BY <2>1, FS_CardinalityType
<1>1. ASSUME NEW s \in Sender, NEW m \in Message, Begin(s, m) PROVE IInv'
  <2>1. TypeOK'
    BY <1>1 DEF Begin, TypeOK
  <2>2. InHand'
    BY <1>1 DEF Begin, TypeOK, InHand
  <2>3. BytesMatchMessages'
    <3>1. Writing' = Writing
      BY <1>1, WritersStay DEF Begin, TypeOK
    <3> QED BY <1>1, <3>1 DEF Begin, BytesMatchMessages
  <2> QED BY <2>1, <2>2, <2>3
<1>2. ASSUME NEW s \in Sender, Lock(s) PROVE IInv'
  <2>1. TypeOK'
    BY <1>2 DEF Lock, TypeOK
  <2>2. InHand'
    BY <1>2 DEF Lock, TypeOK, InHand
  <2>3. BytesMatchMessages'
    <3>1. Writing' = Writing
      BY <1>2, WritersStay DEF Lock, TypeOK
    <3> QED BY <1>2, <3>1 DEF Lock, BytesMatchMessages
  <2> QED BY <2>1, <2>2, <2>3
<1>3. ASSUME NEW s \in Sender, Push(s) PROVE IInv'
  <2>0. msg[s] \in Message
    BY <1>3 DEF Push, InHand
  <2>1. TypeOK'
    BY <1>3, <2>0 DEF Push, TypeOK
  <2>2. InHand'
    BY <1>3 DEF Push, TypeOK, InHand
  <2>3. BytesMatchMessages'
    <3>1. Cardinality(Writing') = Cardinality(Writing) + 1
      BY <1>3, WriterJoins DEF Push, TypeOK
    <3>2. Len(m_queue') = Len(m_queue) + 1
      BY <1>3, <2>0 DEF Push, TypeOK
    <3> QED BY <1>3, <1>a, <3>1, <3>2 DEF Push, BytesMatchMessages, TypeOK
  <2> QED BY <2>1, <2>2, <2>3
<1>4. ASSUME NEW s \in Sender, Write(s) PROVE IInv'
  <2>1. TypeOK'
    BY <1>4 DEF Write, TypeOK
  <2>2. InHand'
    BY <1>4 DEF Write, TypeOK, InHand
  <2>3. BytesMatchMessages'
    <3>1. Cardinality(Writing') = Cardinality(Writing) - 1
      BY <1>4, WriterLeaves DEF Write, TypeOK
    <3> QED BY <1>4, <1>a, <3>1 DEF Write, BytesMatchMessages, TypeOK
  <2> QED BY <2>1, <2>2, <2>3
<1>5. CASE Read
  <2>1. TypeOK'
    BY <1>5 DEF Read, TypeOK
  <2>2. InHand'
    BY <1>5 DEF Read, TypeOK, InHand
  <2>3. BytesMatchMessages'
    BY <1>5, <1>a DEF Read, BytesMatchMessages, TypeOK, Writing
  <2> QED BY <2>1, <2>2, <2>3
<1>6. CASE RecvLock
  <2>1. TypeOK'
    BY <1>6 DEF RecvLock, TypeOK
  <2>2. InHand'
    BY <1>6 DEF RecvLock, TypeOK, InHand
  <2>3. BytesMatchMessages'
    BY <1>6, <1>a DEF RecvLock, BytesMatchMessages, TypeOK, Writing
  <2> QED BY <2>1, <2>2, <2>3
<1>7. CASE Pop
  <2>0. /\ m_queue # <<>> /\ Head(m_queue) \in Message
        /\ Tail(m_queue) \in Seq(Message) /\ Len(Tail(m_queue)) = Len(m_queue) - 1
    BY <1>7, <1>a DEF Pop, BytesMatchMessages, TypeOK
  <2>1. TypeOK'
    BY <1>7, <2>0 DEF Pop, TypeOK
  <2>2. InHand'
    BY <1>7, <2>0 DEF Pop, TypeOK, InHand
  <2>3. BytesMatchMessages'
    BY <1>7, <1>a, <2>0 DEF Pop, BytesMatchMessages, TypeOK, Writing
  <2> QED BY <2>1, <2>2, <2>3
<1>8. CASE Deliver
  <2>1. TypeOK'
    BY <1>8 DEF Deliver, TypeOK
  <2>2. InHand'
    BY <1>8 DEF Deliver, TypeOK, InHand
  <2>3. BytesMatchMessages'
    BY <1>8, <1>a DEF Deliver, BytesMatchMessages, TypeOK, Writing
  <2> QED BY <2>1, <2>2, <2>3
<1>9. CASE UNCHANGED vars
  BY <1>9 DEF vars, TypeOK, InHand, BytesMatchMessages, Writing
<1> QED
  BY <1>1, <1>2, <1>3, <1>4, <1>5, <1>6, <1>7, <1>8, <1>9 DEF Next, ReaderStep, SenderStep

(***************************************************************************)
(* The inductive invariant holds of the pump.                              *)
(***************************************************************************)
THEOREM PumpInvariant == Spec => []IInv
<1>1. Init => IInv
  BY Initially
<1>2. IInv /\ [Next]_vars => IInv'
  BY Inductive
<1> QED
  BY <1>1, <1>2, PTL DEF Spec

(***************************************************************************)
(* do_recv never meets an empty queue (message.h:60): the byte it read     *)
(* stands for a message that is there.                                     *)
(***************************************************************************)
THEOREM NeverEmpty == Spec => []NeverEmptyHanded
<1>1. IInv => NeverEmptyHanded
  <2> SUFFICES ASSUME IInv, rpc = "locked" PROVE m_queue # <<>>
    BY DEF NeverEmptyHanded
  <2>1. Cardinality(Writing) \in Nat
    <3>1. IsFiniteSet(Writing)
      BY FS_Subset DEF Writing
    <3> QED BY <3>1, FS_CardinalityType
  <2> QED BY <2>1 DEF IInv, TypeOK, BytesMatchMessages
<1> QED
  BY <1>1, PumpInvariant, PTL

-----------------------------------------------------------------------------
(***************************************************************************)
(* The pump implements the channel: Push is Send, Pop is Take, Deliver is  *)
(* Done, and every other step stutters.                                    *)
(***************************************************************************)
THEOREM Refinement == Spec => ChannelSpec
<1>1. Init => Channel!Init
  BY DEF Init, Channel!Init
<1>2. IInv /\ [Next]_vars => [Channel!Next]_<<m_queue, front>>
  <2> SUFFICES ASSUME IInv, [Next]_vars PROVE [Channel!Next]_<<m_queue, front>>
    OBVIOUS
  <2> USE DEF IInv
  <2>1. ASSUME NEW s \in Sender, NEW m \in Message, Begin(s, m)
        PROVE  UNCHANGED <<m_queue, front>>
    BY <2>1 DEF Begin
  <2>2. ASSUME NEW s \in Sender, Lock(s) PROVE UNCHANGED <<m_queue, front>>
    BY <2>2 DEF Lock
  <2>3. ASSUME NEW s \in Sender, Push(s) PROVE Channel!Next
    <3>1. msg[s] \in Message
      BY <2>3 DEF Push, InHand
    <3>2. Channel!Send(msg[s])
      BY <2>3 DEF Push, Channel!Send
    <3> QED BY <3>1, <3>2 DEF Channel!Next
  <2>4. ASSUME NEW s \in Sender, Write(s) PROVE UNCHANGED <<m_queue, front>>
    BY <2>4 DEF Write
  <2>5. CASE Read
    BY <2>5 DEF Read
  <2>6. CASE RecvLock
    BY <2>6 DEF RecvLock
  <2>7. CASE Pop
    <3>1. front = NoMessage
      BY <2>7 DEF Pop, InHand, TypeOK
    <3>2. CASE m_queue = <<>>
      BY <2>7, <3>2 DEF Pop
    <3>3. CASE m_queue # <<>>
      <4>1. Channel!Take
        BY <2>7, <3>1, <3>3 DEF Pop, Channel!Take
      <4> QED BY <4>1 DEF Channel!Next
    <3> QED BY <3>2, <3>3
  <2>8. CASE Deliver
    <3>1. front # NoMessage
      BY <2>8 DEF Deliver, InHand
    <3>2. Channel!Done
      BY <2>8, <3>1 DEF Deliver, Channel!Done
    <3> QED BY <3>2 DEF Channel!Next
  <2>9. CASE UNCHANGED vars
    BY <2>9 DEF vars
  <2> QED
    BY <2>1, <2>2, <2>3, <2>4, <2>5, <2>6, <2>7, <2>8, <2>9 DEF Next, ReaderStep, SenderStep
<1> QED
  BY <1>1, <1>2, PumpInvariant, PTL DEF Spec, ChannelSpec, Channel!Spec
=============================================================================
