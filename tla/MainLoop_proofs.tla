---------------------------- MODULE MainLoop_proofs ----------------------------
(***************************************************************************)
(* Proofs about MainLoop, for any timers, notifiers and descriptor numbers:    *)
(* first the notifiers, then the timers.                                     *)
(*                                                                          *)
(* MapAgrees alone is not inductive: that the ASSERT of addSocketNotifier    *)
(* holds rests on files having numbers of their own (OneFile) and on what     *)
(* runs being referred to; that the activated notifier is ready, on what      *)
(* poll() reported being still true of all that is in the poll set.           *)
(*                                                                          *)
(* The types and the order of the timer list are inductive as they stand; the  *)
(* work is in what insertion and removal do to a sequence.                   *)
(***************************************************************************)
EXTENDS MainLoop, TLAPS, FiniteSetTheorems, SequenceTheorems, WellFoundedInduction

(* stop() changes the notifier and its entry only, and is never fatal when    *)
(* the map agrees with the states.                                            *)
LEMMA StopEffect ==
  ASSUME NEW r \in Registrations, NEW n \in Notifier, Agrees(r)
  PROVE  LET s == StoppedNotifier(r, n)
         IN  /\ s \in Registrations /\ s.fatal = r.fatal
             /\ s.state = [r.state EXCEPT ![n] = 0]
             /\ \A f \in Fd : s.notifiers[f] = IF f = FD[n] /\ r.notifiers[f] = n
                                               THEN None ELSE r.notifiers[f]
             /\ Agrees(s)
<1> USE LoopAssumption DEF Registrations, Fd
<1>1. CASE r.state[n] = 0
  BY <1>1 DEF StoppedNotifier, Agrees
<1>2. CASE r.state[n] # 0
  <2> DEFINE s == [state |-> [r.state EXCEPT ![n] = 0],
                   notifiers |-> [r.notifiers EXCEPT ![FD[n]] = None], fatal |-> r.fatal]
  <2>1. r.notifiers[FD[n]] = n /\ FD[n] \in Fd
    BY <1>2 DEF Agrees
  <2>2. StoppedNotifier(r, n) = s
    BY <1>2, <2>1 DEF StoppedNotifier, Removed
  <2>3. s \in Registrations
    BY <2>1
  <2>4. Agrees(s)
    BY <2>1 DEF Agrees
  <2> QED
    BY <2>1, <2>2, <2>3, <2>4
<1> QED
  BY <1>1, <1>2

(* start() of a notifier that is held, whose file has a number of its own.    *)
LEMMA StartEffect ==
  ASSUME NEW r \in Registrations, NEW n \in Notifier, NEW h \in [Notifier -> BOOLEAN],
         ~r.fatal, Agrees(r), h[n], OneFile(h),
         m_inActivate \in Notifier \cup {None}, Referred(r, h)
  PROVE  LET s == StartedNotifier(r, n, h)
         IN  /\ s \in Registrations /\ ~s.fatal /\ Agrees(s) /\ Referred(s, h)
             /\ s.state[n] = 2
             /\ \A o \in Notifier : s.state[o] = 1 => r.state[o] = 1 /\ o # n
<1> USE LoopAssumption
<1> DEFINE a == StoppedNotifier(r, n)
           b == IF LastReference(h) THEN StoppedNotifier(a, m_inActivate) ELSE a
           s == [state |-> [b.state EXCEPT ![n] = 2],
                 notifiers |-> [b.notifiers EXCEPT ![FD[n]] = n], fatal |-> FALSE]
<1>1. a \in Registrations /\ ~a.fatal /\ Agrees(a) /\ a.state = [r.state EXCEPT ![n] = 0]
  BY StopEffect
<1>2. /\ b \in Registrations /\ ~b.fatal /\ Agrees(b) /\ b.state[n] = 0
      /\ \A o \in Notifier : b.state[o] # 0 => h[o] /\ b.state[o] = r.state[o] /\ o # n
  <2>1. CASE LastReference(h)
    <3>1. m_inActivate \in Notifier
      BY <2>1 DEF LastReference
    <3>2. /\ b \in Registrations /\ b.fatal = a.fatal /\ Agrees(b)
          /\ b.state = [a.state EXCEPT ![m_inActivate] = 0]
      BY <1>1, <2>1, <3>1, StopEffect
    <3> QED
      BY <1>1, <3>1, <3>2 DEF Registrations, Referred
  <2>2. CASE ~LastReference(h)
    BY <1>1, <2>2 DEF Registrations, Referred, LastReference
  <2> QED
    BY <2>1, <2>2
<1>3. FD[n] \in Fd /\ b.notifiers[FD[n]] = None
  <2>1. FD[n] \in Fd
    BY DEF Fd
  <2>2. ASSUME b.notifiers[FD[n]] # None PROVE FALSE
    <3> DEFINE o == b.notifiers[FD[n]]
    <3>1. o \in Notifier /\ FD[o] = FD[n]
      BY <1>2, <2>1, <2>2 DEF Registrations, Agrees
    <3>2. b.state[o] # 0
      BY <1>2, <3>1 DEF Agrees
    <3> QED
      BY <1>2, <3>1, <3>2 DEF OneFile
  <2> QED
    BY <2>1, <2>2
<1>4. StartedNotifier(r, n, h) = s
  <2> DEFINE c == [state |-> b.state, notifiers |-> [b.notifiers EXCEPT ![FD[n]] = n],
                   fatal |-> FALSE]
  <2>1. (b.fatal \/ b.notifiers[FD[n]] # None) = FALSE
    BY <1>2, <1>3 DEF Registrations
  <2>2. Added(a, n, h) = c
    BY <2>1, Zenon DEF Added
  <2>3. StartedNotifier(r, n, h) = [c EXCEPT !.state[n] = 2]
    BY <2>2 DEF StartedNotifier
  <2> HIDE DEF a, b
  <2> QED
    BY <2>3
<1>5. s \in Registrations
  BY <1>2, <1>3 DEF Registrations
<1>6. Agrees(s)
  BY <1>2, <1>3 DEF Agrees, Registrations, Fd
<1>7. Referred(s, h)
  BY <1>2 DEF Referred, Registrations
<1>8. \A o \in Notifier : s.state[o] = 1 => r.state[o] = 1 /\ o # n
  BY <1>2 DEF Registrations
<1> QED
  BY <1>2, <1>4, <1>5, <1>6, <1>7, <1>8 DEF Registrations

(* The loop starts with no notifier.                                          *)
THEOREM Initially == Init => IInv
  BY LoopAssumption
     DEF Init, IInv, SocketTypes, Registrations, MapAgrees, Agrees, Referred, OneFile, Pass,
         FoundReady, Fd

(* Building the poll array changes 2 to 1 and nothing else.                    *)
LEMMA InPollEffect ==
  ASSUME reg \in Registrations, MapAgrees
  PROVE  /\ InPoll \in Registrations /\ ~InPoll.fatal
         /\ Agrees(InPoll) /\ Referred(InPoll, held)
  BY DEF InPoll, Registrations, MapAgrees, Agrees, Referred

(* No operation of a callback or of Python leaves IInv.                        *)
LEMMA OperationKeeps == IInv /\ Operation => IInv'
<1> SUFFICES ASSUME IInv, Operation PROVE IInv'
  OBVIOUS
<1> USE LoopAssumption
<1>1. /\ reg \in Registrations /\ ~reg.fatal /\ Agrees(reg) /\ Referred(reg, held)
      /\ m_inActivate \in Notifier \cup {None}
  BY DEF IInv, SocketTypes, MapAgrees
<1>2. UNCHANGED loop /\ pc \in {"app", "timer", "fd"}
  BY DEF Operation
<1>3. CASE UNCHANGED sockets
  BY <1>2, <1>3
     DEF sockets, loop, IInv, SocketTypes, MapAgrees, Agrees, Referred, OneFile, Pass, FoundReady
<1>4. ASSUME NEW n \in Notifier, Create(n) PROVE IInv'
  <2>1. held' \in [Notifier -> BOOLEAN] /\ held'[n] /\ OneFile(held') /\ Referred(reg, held')
    BY <1>1, <1>4 DEF Create, IInv, SocketTypes, OneFile, Referred, Registrations
  <2>2. /\ reg' \in Registrations /\ ~reg'.fatal /\ Agrees(reg') /\ Referred(reg', held')
        /\ reg'.state[n] = 2
        /\ \A o \in Notifier : reg'.state[o] = 1 => reg.state[o] = 1 /\ o # n
    <3>1. reg' = StartedNotifier(reg, n, held')
      BY <1>4 DEF Create
    <3> QED
      BY <1>1, <2>1, <3>1, StartEffect
  <2>3. FoundReady'
    <3> SUFFICES ASSUME NEW o \in Notifier, reg'.state[o] = 1, FD[o] \in revents
                 PROVE  ready'[FD[o]]
      BY <1>2 DEF FoundReady, loop
    <3>1. reg.state[o] = 1 /\ o # n
      BY <2>2
    <3>2. FD[o] # FD[n]
      BY <2>2, <3>1 DEF Agrees
    <3> QED
      BY <1>4, <3>1, <3>2 DEF Create, IInv, FoundReady, SocketTypes, Fd
  <2> QED
    BY <1>2, <1>4, <2>1, <2>2, <2>3
       DEF Create, loop, IInv, SocketTypes, MapAgrees, Referred, Pass, OneFile
<1>5. ASSUME NEW n \in Notifier, Start(n) PROVE IInv'
  <2>1. /\ reg' \in Registrations /\ ~reg'.fatal /\ Agrees(reg') /\ Referred(reg', held)
        /\ \A o \in Notifier : reg'.state[o] = 1 => reg.state[o] = 1
    BY <1>1, <1>5, StartEffect DEF Start, IInv, SocketTypes
  <2> QED
    BY <1>2, <1>5, <2>1
       DEF Start, loop, IInv, SocketTypes, MapAgrees, Referred, Pass, OneFile, FoundReady
<1>6. ASSUME NEW n \in Notifier, Stop(n) PROVE IInv'
  <2>1. /\ reg' \in Registrations /\ reg'.fatal = reg.fatal /\ Agrees(reg')
        /\ reg'.state = [reg.state EXCEPT ![n] = 0]
    BY <1>1, <1>6, StopEffect DEF Stop
  <2> QED
    BY <1>1, <1>2, <1>6, <2>1
       DEF Stop, loop, IInv, SocketTypes, Registrations, MapAgrees, Referred, Pass, OneFile,
           FoundReady
<1>7. ASSUME NEW n \in Notifier, Drop(n) PROVE IInv'
  <2>1. /\ reg' \in Registrations /\ ~reg'.fatal /\ Agrees(reg')
        /\ \A o \in Notifier : reg'.state[o] = IF o = n /\ n # m_inActivate THEN 0
                                                ELSE reg.state[o]
    <3>1. CASE n = m_inActivate
      BY <1>1, <1>7, <3>1 DEF Drop
    <3>2. CASE n # m_inActivate
      <4>1. reg' = StoppedNotifier(reg, n)
        BY <1>7, <3>2 DEF Drop
      <4>2. /\ reg' \in Registrations /\ ~reg'.fatal /\ Agrees(reg')
            /\ reg'.state = [reg.state EXCEPT ![n] = 0]
        BY <1>1, <4>1, StopEffect
      <4> QED
        BY <1>1, <3>2, <4>2 DEF Registrations
    <3> QED
      BY <3>1, <3>2
  <2>2. OneFile(held') /\ Referred(reg', held') /\ held' \in [Notifier -> BOOLEAN]
    BY <1>1, <1>2, <1>7, <2>1 DEF Drop, loop, IInv, SocketTypes, OneFile, Referred
  <2>3. FoundReady'
    <3> SUFFICES ASSUME NEW o \in Notifier, reg'.state[o] = 1, FD[o] \in revents
                 PROVE  ready'[FD[o]]
      BY <1>2 DEF FoundReady, loop
    <3>1. reg.state[o] = 1 /\ o # m_inActivate
      BY <1>1, <2>1 DEF IInv, Pass
    <3>2. held[o] /\ o # n
      BY <1>1, <2>1, <3>1 DEF Referred
    <3>3. FD[o] # FD[n]
      BY <1>7, <3>2 DEF Drop, IInv, OneFile
    <3> QED
      BY <1>7, <3>1, <3>3 DEF Drop, IInv, FoundReady, SocketTypes, Fd
  <2> QED
    BY <1>2, <1>7, <2>1, <2>2, <2>3
       DEF Drop, loop, IInv, SocketTypes, MapAgrees, Referred, Pass, OneFile
<1>8. ASSUME NEW n \in Notifier, Read(n) PROVE IInv'
  BY <1>2, <1>8
     DEF Read, loop, IInv, SocketTypes, MapAgrees, Agrees, Referred, Pass, OneFile, FoundReady, Fd
<1> QED
  BY <1>3, <1>4, <1>5, <1>6, <1>7, <1>8 DEF Operation

(* No step leaves IInv.                                                        *)
THEOREM Inductive == IInv /\ [Next]_vars => IInv'
<1> SUFFICES ASSUME IInv, [Next]_vars PROVE IInv'
  OBVIOUS
<1> USE LoopAssumption
<1>1. CASE AppReturns \/ Iterate
  BY <1>1 DEF AppReturns, Iterate, sockets, IInv, SocketTypes, MapAgrees, Agrees, Referred,
              OneFile, Pass, FoundReady
<1>2. CASE TimerFires
  BY <1>2 DEF TimerFires, sockets, IInv, SocketTypes, MapAgrees, Agrees, Referred, OneFile,
              Pass, FoundReady
<1>3. CASE TimerReturns \/ Poll
  <2>1. UNCHANGED <<held, ready, revents, m_inActivate>> /\ pc' \in {"poll", "timers"}
    BY <1>3 DEF TimerReturns, Poll
  <2>2. pc \in {"timer", "timers"} /\ (reg' = reg \/ reg' = InPoll)
    BY <1>3 DEF TimerReturns, Poll
  <2>3. Pass' /\ FoundReady'
    BY <2>1, <2>2 DEF IInv, Pass, FoundReady
  <2>4. /\ reg' \in Registrations /\ ~reg'.fatal /\ Agrees(reg') /\ Referred(reg', held)
    BY <2>2, InPollEffect DEF IInv, SocketTypes, MapAgrees
  <2> QED
    BY <2>1, <2>3, <2>4 DEF IInv, SocketTypes, MapAgrees, Referred, OneFile
<1>4. CASE PollReturns \/ PollInterrupted
  BY <1>4 DEF PollReturns, PollInterrupted, ReadyFds, sockets, IInv, SocketTypes, MapAgrees,
              Agrees, Referred, OneFile, Pass, FoundReady
<1>5. CASE FdReady
  <2> PICK f \in revents :
        /\ revents' = revents \ {f}
        /\ LET n == reg.notifiers[f]
           IN  IF n # None /\ InThisPoll(n)
               THEN m_inActivate' = n /\ pc' = "fd" /\ ops' = MaxOps
               ELSE UNCHANGED <<m_inActivate, pc, ops>>
    BY <1>5 DEF FdReady
  <2>1. UNCHANGED sockets /\ pc = "fds" /\ f \in Fd
    BY <1>5 DEF FdReady, IInv, SocketTypes
  <2>2. Pass' /\ m_inActivate' \in Notifier \cup {None} /\ pc' \in {"fds", "fd"}
    BY <2>1 DEF IInv, Pass, SocketTypes, Registrations, MapAgrees, Agrees
  <2>3. MapAgrees'
    <3>1. m_inActivate = None
      BY <2>1 DEF IInv, Pass
    <3> QED
      BY <2>1, <3>1 DEF sockets, IInv, MapAgrees, Agrees, Referred
  <2>4. FoundReady'
    BY <2>1 DEF sockets, IInv, FoundReady
  <2> QED
    BY <2>1, <2>2, <2>3, <2>4 DEF sockets, IInv, SocketTypes, OneFile
<1>6. CASE FdReturns
  <2>1. /\ m_inActivate \in Notifier /\ m_inActivate' = None /\ pc' = "fds"
        /\ UNCHANGED <<held, ready, revents>>
    BY <1>6 DEF FdReturns, IInv, SocketTypes, Pass
  <2>2. /\ reg' \in Registrations /\ ~reg'.fatal /\ Agrees(reg')
        /\ \A o \in Notifier : reg'.state[o] = IF o = m_inActivate /\ ~held[o] THEN 0
                                                ELSE reg.state[o]
    <3>1. CASE held[m_inActivate]
      BY <1>6, <2>1, <3>1 DEF FdReturns, LastReference, IInv, SocketTypes, MapAgrees
    <3>2. CASE ~held[m_inActivate]
      <4>1. reg' = StoppedNotifier(reg, m_inActivate)
        BY <1>6, <2>1, <3>2 DEF FdReturns, LastReference
      <4>2. /\ reg' \in Registrations /\ ~reg'.fatal /\ Agrees(reg')
            /\ reg'.state = [reg.state EXCEPT ![m_inActivate] = 0]
        <5>1. reg \in Registrations /\ ~reg.fatal /\ Agrees(reg)
          BY DEF IInv, SocketTypes, MapAgrees
        <5> QED
          BY <2>1, <4>1, <5>1, StopEffect
      <4>3. PICK st \in [Notifier -> 0 .. 2] : st = reg.state
        BY DEF Registrations, IInv, SocketTypes
      <4>4. \A o \in Notifier : reg'.state[o] = IF o = m_inActivate THEN 0 ELSE reg.state[o]
        <5>1. reg'.state = [st EXCEPT ![m_inActivate] = 0]
          BY <4>2, <4>3
        <5> QED
          BY <4>3, <5>1
      <4> QED
        BY <3>2, <4>2, <4>4
    <3> QED
      BY <3>1, <3>2
  <2>3. Referred(reg, held)'
    BY <2>1, <2>2 DEF IInv, MapAgrees, Referred
  <2> QED
    BY <2>1, <2>2, <2>3 DEF IInv, SocketTypes, MapAgrees, OneFile, Pass, FoundReady
<1>7. CASE PassEnds
  BY <1>7 DEF PassEnds, sockets, IInv, SocketTypes, MapAgrees, Agrees, Referred, OneFile,
              Pass, FoundReady
<1>8. CASE Tick
  BY <1>8 DEF Tick, sockets, loop, IInv, SocketTypes, MapAgrees, Agrees, Referred, OneFile,
              Pass, FoundReady
<1>9. ASSUME NEW n \in Notifier, Arrive(n) PROVE IInv'
  BY <1>9 DEF Arrive, loop, IInv, SocketTypes, MapAgrees, Agrees, Referred, OneFile,
              Pass, FoundReady, Fd
<1>10. CASE UNCHANGED vars
  BY <1>10 DEF vars, sockets, loop, IInv, SocketTypes, MapAgrees, Agrees, Referred, OneFile,
               Pass, FoundReady
<1> QED
  BY <1>1, <1>2, <1>3, <1>4, <1>5, <1>6, <1>7, <1>8, <1>9, <1>10, OperationKeeps
     DEF Next, LoopStep

(* The inductive invariant holds in every reachable state: no ASSERT and no    *)
(* eFatal of the notifiers is ever reached (MapAgrees is part of it).          *)
THEOREM SocketsConsistent == Spec => []IInv
  BY Initially, Inductive, PTL DEF Spec

(* A step that activates a notifier finds its descriptor ready.                *)
LEMMA OnlyReady ==
  ASSUME IInv, Next, NEW n \in Notifier, m_inActivate # n, m_inActivate' = n
  PROVE  ready[FD[n]]
<1>1. FdReady
  BY LoopAssumption
     DEF Next, LoopStep, AppReturns, Iterate, TimerFires, TimerReturns, Poll, PollReturns,
         FdReturns, PassEnds, Operation, PollInterrupted, Tick, Arrive, loop
<1>2. PICK f \in revents : reg.notifiers[f] = n /\ n # None /\ reg.state[n] = 1
  BY <1>1 DEF FdReady, InThisPoll
<1>3. FD[n] = f
  BY <1>2 DEF IInv, SocketTypes, MapAgrees, Agrees
<1> QED
  BY <1>2, <1>3 DEF IInv, FoundReady

(* The loop never calls a notifier for a file that poll() did not find ready.  *)
THEOREM NeverStale == Spec => NoStaleActivation
<1>1. IInv /\ [Next]_vars
      => [\A n \in Notifier : m_inActivate # n /\ m_inActivate' = n => ready[FD[n]]]_vars
  BY OnlyReady
<1> QED
  BY SocketsConsistent, <1>1, PTL DEF Spec, NoStaleActivation

-----------------------------------------------------------------------------
(* A set of numbers has a least one.                                          *)
LEMMA Least ==
  ASSUME NEW T \in SUBSET Nat, T # {}
  PROVE  \E n \in T : \A m \in T : n <= m
<1> DEFINE R == OpToRel(<, Nat)
<1>1. PICK n \in T : \A m \in T : ~(<<m, n>> \in R)
  <2>1. IsWellFoundedOn(R, Nat)
    BY NatLessThanWellFounded
  <2> HIDE DEF R
  <2> QED
    BY <2>1, WFMin
<1>2. \A m \in T : ~(m < n)
  BY <1>1 DEF OpToRel
<1> QED
  BY <1>2

(* InsertAt and RemoveAt, element by element.                                 *)
LEMMA InsertAtEffect ==
  ASSUME NEW T, NEW s \in Seq(T), NEW p \in 1 .. Len(s) + 1, NEW t \in T
  PROVE  /\ InsertAt(s, p, t) \in Seq(T) /\ Len(InsertAt(s, p, t)) = Len(s) + 1
         /\ \A i \in 1 .. Len(s) + 1 :
              InsertAt(s, p, t)[i] = IF i < p THEN s[i] ELSE IF i = p THEN t ELSE s[i - 1]
<1> DEFINE a == SubSeq(s, 1, p - 1)  b == SubSeq(s, p, Len(s))  c == a \o <<t>>
<1>0. Len(s) \in Nat /\ p \in Int /\ \A i \in 1 .. Len(s) : s[i] \in T
  BY LenProperties, ElementOfSeq
<1>1. a \in Seq(T) /\ Len(a) = p - 1 /\ \A i \in 1 .. p - 1 : a[i] = s[i]
  BY <1>0, SubSeqProperties
<1>2. b \in Seq(T) /\ Len(b) = Len(s) - p + 1
      /\ \A i \in 1 .. Len(s) - p + 1 : b[i] = s[p + i - 1]
  BY <1>0, SubSeqProperties
<1>3. <<t>> \in Seq(T) /\ Len(<<t>>) = 1 /\ <<t>>[1] = t
  OBVIOUS
<1> HIDE DEF a, b
<1>4. c \in Seq(T) /\ Len(c) = p /\ c[p] = t /\ \A i \in 1 .. p - 1 : c[i] = s[i]
  <2>1. /\ c \in Seq(T) /\ Len(c) = Len(a) + Len(<<t>>)
        /\ \A i \in 1 .. Len(a) + Len(<<t>>) :
             c[i] = IF i <= Len(a) THEN a[i] ELSE <<t>>[i - Len(a)]
    BY <1>1, <1>3, ConcatProperties
  <2> HIDE DEF c
  <2>2. Len(c) = p /\ \A i \in 1 .. p : c[i] = IF i <= p - 1 THEN a[i] ELSE <<t>>[i - (p - 1)]
    BY <1>0, <1>1, <1>3, <2>1
  <2>3. c[p] = <<t>>[1]
    BY <1>0, <2>2
  <2>4. \A i \in 1 .. p - 1 : c[i] = s[i]
    BY <1>0, <1>1, <2>2
  <2> QED
    BY <1>3, <2>1, <2>2, <2>3, <2>4
<1> HIDE DEF c
<1>5. /\ c \o b \in Seq(T) /\ Len(c \o b) = Len(s) + 1
      /\ \A i \in 1 .. Len(s) + 1 : (c \o b)[i] = IF i <= p THEN c[i] ELSE b[i - p]
  <2>1. /\ c \o b \in Seq(T) /\ Len(c \o b) = Len(c) + Len(b)
        /\ \A i \in 1 .. Len(c) + Len(b) :
             (c \o b)[i] = IF i <= Len(c) THEN c[i] ELSE b[i - Len(c)]
    BY <1>2, <1>4, ConcatProperties
  <2>2. Len(c) + Len(b) = Len(s) + 1
    BY <1>0, <1>2, <1>4
  <2> QED
    BY <1>4, <2>1, <2>2
<1>6. \A i \in 1 .. Len(s) + 1 :
        (c \o b)[i] = IF i < p THEN s[i] ELSE IF i = p THEN t ELSE s[i - 1]
  BY <1>0, <1>2, <1>4, <1>5
<1>7. InsertAt(s, p, t) = c \o b
  BY DEF InsertAt, a, b, c
<1> QED
  BY <1>5, <1>6, <1>7

LEMMA RemoveAtEffect ==
  ASSUME NEW T, NEW s \in Seq(T), NEW p \in 1 .. Len(s)
  PROVE  /\ RemoveAt(s, p) \in Seq(T) /\ Len(RemoveAt(s, p)) = Len(s) - 1
         /\ \A i \in 1 .. Len(s) - 1 : RemoveAt(s, p)[i] = IF i < p THEN s[i] ELSE s[i + 1]
<1> DEFINE a == SubSeq(s, 1, p - 1)  b == SubSeq(s, p + 1, Len(s))
<1>0. Len(s) \in Nat /\ p \in Int /\ \A i \in 1 .. Len(s) : s[i] \in T
  BY LenProperties, ElementOfSeq
<1>1. a \in Seq(T) /\ Len(a) = p - 1 /\ \A i \in 1 .. p - 1 : a[i] = s[i]
  BY <1>0, SubSeqProperties
<1>2. b \in Seq(T) /\ Len(b) = Len(s) - p /\ \A i \in 1 .. Len(s) - p : b[i] = s[p + i]
  BY <1>0, SubSeqProperties
<1> HIDE DEF a, b
<1>3. /\ a \o b \in Seq(T) /\ Len(a \o b) = Len(s) - 1
      /\ \A i \in 1 .. Len(s) - 1 : (a \o b)[i] = IF i < p THEN a[i] ELSE b[i - p + 1]
  BY <1>0, <1>1, <1>2, ConcatProperties
<1>4. RemoveAt(s, p) = a \o b
  BY DEF RemoveAt, a, b
<1> QED
  BY <1>0, <1>1, <1>2, <1>3, <1>4

(* RemoveFirst takes one out of a list that holds it once.                     *)
LEMMA RemoveKeeps ==
  ASSUME NEW T, NEW s \in Seq(T), NEW t, NEW when, IsInjective(s), Sorted(s, when)
  PROVE  LET r == RemoveFirst(s, t)
         IN  /\ r \in Seq(T) /\ IsInjective(r) /\ Sorted(r, when)
             /\ ToSet(r) = ToSet(s) \ {t}
<1>0. Len(s) \in Nat /\ DOMAIN s = 1 .. Len(s)
  OBVIOUS
<1>1. CASE ~\E i \in 1 .. Len(s) : s[i] = t
  BY <1>0, <1>1 DEF RemoveFirst, ToSet
<1>2. CASE \E i \in 1 .. Len(s) : s[i] = t
  <2> DEFINE I == {i \in 1 .. Len(s) : s[i] = t}  r == RemoveFirst(s, t)
  <2>1. PICK p \in I : \A j \in I : p <= j
    <3>1. I \in SUBSET Nat /\ I # {}
      BY <1>0, <1>2
    <3> HIDE DEF I
    <3> QED
      BY <3>1, Least
  <2>2. Min(I) = p
    BY <1>0, <2>1 DEF Min
  <2>3. r = RemoveAt(s, p)
    BY <1>2, <2>2 DEF RemoveFirst, SelectInSeq
  <2>4. /\ r \in Seq(T) /\ DOMAIN r = 1 .. Len(s) - 1
        /\ \A i \in 1 .. Len(s) - 1 : r[i] = IF i < p THEN s[i] ELSE s[i + 1]
    BY <1>0, <2>1, <2>3, RemoveAtEffect, LenProperties
  <2> HIDE DEF r
  <2> DEFINE from(i) == IF i < p THEN i ELSE i + 1
  <2>9. \A i \in 1 .. Len(s) - 1 : from(i) \in 1 .. Len(s) /\ r[i] = s[from(i)]
    BY <1>0, <2>1, <2>4
  <2>10. \A i, j \in 1 .. Len(s) - 1 : i < j => from(i) < from(j)
    BY <1>0, <2>1
  <2>5. IsInjective(r)
    <3>1. \A i, j \in 1 .. Len(s) - 1 : i < j => r[i] # r[j]
      <4> HIDE DEF from
      <4> QED
        BY <1>0, <2>9, <2>10 DEF IsInjective
    <3> QED
      BY <1>0, <2>4, <3>1 DEF IsInjective
  <2>6. Sorted(r, when)
    <3> HIDE DEF from
    <3> QED
      BY <1>0, <2>4, <2>9, <2>10 DEF Sorted
  <2>7. ToSet(r) \subseteq ToSet(s) \ {t}
    BY <1>0, <2>1, <2>4 DEF ToSet, IsInjective
  <2>8. ASSUME NEW i \in 1 .. Len(s), s[i] # t PROVE s[i] \in ToSet(r)
    <3>1. \E j \in 1 .. Len(s) - 1 : r[j] = s[i]
      <4>1. CASE i < p
        BY <1>0, <2>1, <2>4, <4>1
      <4>2. CASE i > p
        <5>1. i - 1 \in 1 .. Len(s) - 1 /\ r[i - 1] = s[i]
          BY <1>0, <2>1, <2>4, <4>2
        <5> QED
          BY <5>1
      <4> QED
        BY <1>0, <2>1, <2>8, <4>1, <4>2
    <3> QED
      BY <2>4, <3>1 DEF ToSet
  <2> QED
    BY <1>0, <2>4, <2>5, <2>6, <2>7, <2>8 DEF ToSet, r
<1> QED
  BY <1>1, <1>2

(* What is inserted between what is not later and what is not earlier leaves    *)
(* the list sorted.                                                           *)
LEMMA InsertKeeps ==
  ASSUME NEW T, NEW s \in Seq(T), NEW t \in T, NEW when \in [T -> Int],
         IsInjective(s), t \notin ToSet(s), NEW p \in 1 .. Len(s) + 1
  PROVE  LET r == InsertAt(s, p, t)
         IN  /\ r \in Seq(T) /\ IsInjective(r) /\ ToSet(r) = ToSet(s) \cup {t}
             /\ Sorted(s, when)
                /\ (\A i \in 1 .. Len(s) : IF i < p THEN when[s[i]] <= when[t]
                                           ELSE when[t] <= when[s[i]])
                  => Sorted(r, when)
<1>0. Len(s) \in Nat /\ DOMAIN s = 1 .. Len(s) /\ \A i \in 1 .. Len(s) : s[i] \in T
  BY LenProperties, ElementOfSeq
<1> DEFINE r == InsertAt(s, p, t)  from(i) == IF i < p THEN i ELSE i - 1
<1>1. /\ r \in Seq(T) /\ DOMAIN r = 1 .. Len(s) + 1
      /\ \A i \in 1 .. Len(s) + 1 : r[i] = IF i < p THEN s[i] ELSE IF i = p THEN t ELSE s[i - 1]
  <2>1. /\ r \in Seq(T) /\ Len(r) = Len(s) + 1
        /\ \A i \in 1 .. Len(s) + 1 : r[i] = IF i < p THEN s[i] ELSE IF i = p THEN t ELSE s[i - 1]
    BY InsertAtEffect
  <2> HIDE DEF r
  <2> QED
    BY <2>1, LenProperties
<1> HIDE DEF r
<1>2. \A i \in 1 .. Len(s) : s[i] # t
  BY <1>0 DEF ToSet
<1>3. /\ r[p] = t /\ p \in 1 .. Len(s) + 1
      /\ \A i \in 1 .. Len(s) + 1 : i # p => from(i) \in 1 .. Len(s) /\ r[i] = s[from(i)]
  BY <1>0, <1>1
<1>4. \A i, j \in 1 .. Len(s) + 1 : i # p /\ j # p /\ i < j => from(i) < from(j)
  BY <1>0
<1>5. \A i \in 1 .. Len(s) : \E j \in 1 .. Len(s) + 1 : r[j] = s[i]
  <2> TAKE i \in 1 .. Len(s)
  <2>1. CASE i < p
    <3>1. i \in 1 .. Len(s) + 1 /\ r[i] = s[i]
      BY <1>0, <1>1, <2>1
    <3> QED
      BY <3>1
  <2>2. CASE ~(i < p)
    <3>1. i + 1 \in 1 .. Len(s) + 1 /\ r[i + 1] = s[i]
      <4>1. i + 1 \in 1 .. Len(s) + 1 /\ ~(i + 1 < p) /\ i + 1 # p /\ (i + 1) - 1 = i
        BY <1>0, <2>2
      <4>2. r[i + 1] = s[(i + 1) - 1]
        BY <1>1, <4>1
      <4> QED
        BY <4>1, <4>2
    <3> QED
      BY <3>1
  <2> QED
    BY <2>1, <2>2
<1>6. \A i \in 1 .. Len(s) + 1 : i # p => (i < p <=> from(i) < p)
  BY <1>0
<1> HIDE DEF from
<1>7. IsInjective(r)
  <2>1. \A i, j \in 1 .. Len(s) + 1 : i < j => r[i] # r[j]
    BY <1>0, <1>2, <1>3, <1>4 DEF IsInjective
  <2> QED
    BY <1>0, <1>1, <2>1 DEF IsInjective
<1>8. ToSet(r) = ToSet(s) \cup {t}
  <2>1. ToSet(r) \subseteq ToSet(s) \cup {t}
    BY <1>0, <1>1, <1>3 DEF ToSet
  <2>2. ToSet(s) \subseteq ToSet(r)
    <3> SUFFICES ASSUME NEW x \in ToSet(s) PROVE x \in ToSet(r)
      OBVIOUS
    <3>1. PICK i \in 1 .. Len(s) : x = s[i]
      BY <1>0 DEF ToSet
    <3>2. PICK j \in 1 .. Len(s) + 1 : r[j] = s[i]
      BY <1>5
    <3> QED
      BY <1>1, <3>1, <3>2 DEF ToSet
  <2>3. t \in ToSet(r)
    BY <1>1, <1>3 DEF ToSet
  <2> QED
    BY <2>1, <2>2, <2>3
<1>9. ASSUME Sorted(s, when),
             \A i \in 1 .. Len(s) : IF i < p THEN when[s[i]] <= when[t]
                                    ELSE when[t] <= when[s[i]]
      PROVE  Sorted(r, when)
  <2>1. \A i \in 1 .. Len(s) : when[s[i]] \in Int
    BY <1>0
  <2> SUFFICES ASSUME NEW i \in 1 .. Len(s) + 1, NEW j \in 1 .. Len(s) + 1, i < j
               PROVE  when[r[i]] <= when[r[j]]
    BY <1>1 DEF Sorted
  <2>2. CASE i # p /\ j # p
    BY <1>0, <1>3, <1>4, <1>9, <2>2 DEF Sorted
  <2>3. CASE i = p
    <3>1. from(j) \in 1 .. Len(s) /\ r[j] = s[from(j)] /\ ~(from(j) < p)
      BY <1>0, <1>3, <1>6, <2>3
    <3> QED
      BY <1>3, <1>9, <2>3, <3>1
  <2>4. CASE j = p
    <3>1. from(i) \in 1 .. Len(s) /\ r[i] = s[from(i)] /\ from(i) < p
      BY <1>0, <1>3, <1>6, <2>4
    <3> QED
      BY <1>3, <1>9, <2>4, <3>1
  <2> QED
    BY <2>2, <2>3, <2>4
<1> QED
  BY <1>1, <1>7, <1>8, <1>9 DEF r

(* lower_bound finds such a place.                                            *)
LEMMA InOrderKeeps ==
  ASSUME NEW s \in Seq(Timer), NEW t \in Timer, NEW when \in [Timer -> Int],
         IsInjective(s), Sorted(s, when), t \notin ToSet(s)
  PROVE  LET r == InOrder(s, t, when)
         IN  /\ r \in Seq(Timer) /\ IsInjective(r) /\ Sorted(r, when)
             /\ ToSet(r) = ToSet(s) \cup {t}
<1>0. /\ Len(s) \in Nat /\ DOMAIN s = 1 .. Len(s) 
      /\ \A i \in 1 .. Len(s) : s[i] \in Timer /\ when[s[i]] \in Int
  BY LenProperties, ElementOfSeq
<1> DEFINE I == {i \in 1 .. Len(s) : when[t] <= when[s[i]]}
<1>1. PICK p \in 1 .. Len(s) + 1 :
        /\ InOrder(s, t, when) = InsertAt(s, p, t)
        /\ \A i \in 1 .. Len(s) : IF i < p THEN when[s[i]] <= when[t] ELSE when[t] <= when[s[i]]
  <2>1. CASE I = {}
    <3>1. InOrder(s, t, when) = Append(s, t)
      BY <2>1 DEF InOrder, SelectInSeq
    <3>2. PICK p \in 1 .. Len(s) + 1 : p = Len(s) + 1
      BY <1>0
    <3> DEFINE a == Append(s, t)  b == InsertAt(s, p, t)
    <3>3. /\ a \in Seq(Timer) /\ Len(a) = Len(s) + 1
          /\ \A i \in 1 .. Len(s) + 1 : a[i] = IF i < p THEN s[i] ELSE t
      BY <1>0, <3>2
    <3>4. /\ b \in Seq(Timer) /\ Len(b) = Len(s) + 1
          /\ \A i \in 1 .. Len(s) + 1 : b[i] = IF i < p THEN s[i] ELSE IF i = p THEN t ELSE s[i - 1]
      BY InsertAtEffect
    <3>5. a = b
      <4> HIDE DEF a, b
      <4>1. \A i \in 1 .. Len(a) : a[i] = b[i]
        BY <1>0, <3>2, <3>3, <3>4
      <4> QED
        BY <3>3, <3>4, <4>1, SeqEqual
    <3>6. \A i \in 1 .. Len(s) : i < p /\ when[s[i]] <= when[t]
      BY <1>0, <2>1, <3>2
    <3> QED
      BY <3>1, <3>5, <3>6
  <2>2. CASE I # {}
    <3>1. PICK p \in I : \A j \in I : p <= j
      <4>1. I \in SUBSET Nat
        BY <1>0
      <4> HIDE DEF I
      <4> QED
        BY <2>2, <4>1, Least
    <3>2. Min(I) = p
      BY <1>0, <3>1 DEF Min
    <3>3. InOrder(s, t, when) = InsertAt(s, p, t)
      BY <1>0, <2>2, <3>1, <3>2 DEF InOrder, SelectInSeq
    <3>4. \A i \in 1 .. Len(s) : p < i => when[s[p]] <= when[s[i]]
      BY <1>0, <3>1 DEF Sorted
    <3> QED
      BY <1>0, <3>1, <3>3, <3>4
  <2> QED
    BY <2>1, <2>2
<1>2. /\ InsertAt(s, p, t) \in Seq(Timer) /\ IsInjective(InsertAt(s, p, t))
      /\ ToSet(InsertAt(s, p, t)) = ToSet(s) \cup {t} /\ Sorted(InsertAt(s, p, t), when)
  BY <1>1, InsertKeeps
<1> QED
  BY <1>1, <1>2

-----------------------------------------------------------------------------
(* The list of timers is sorted and holds the active ones.                    *)
LEMMA TypeInit == Init => TypeOK
<1> SUFFICES ASSUME Init PROVE TypeOK
  OBVIOUS
<1>1. Cardinality(Timer) \in Nat
  BY LoopAssumption, FS_CardinalityType
<1>2. m_timer_list \in Seq(Timer) /\ Len(m_timer_list) = 0 /\ DOMAIN m_timer_list = {}
  BY DEF Init
<1>3. TimersListed
  BY <1>2 DEF Init, TimersListed, Sorted, IsInjective, ToSet
<1>4. bActive \in [Timer -> BOOLEAN] /\ bSingleShot \in [Timer -> BOOLEAN]
  BY DEF Init
<1>5. interval \in [Timer -> Interval \cup {0}] /\ due \in [Timer -> Int]
  BY DEF Init
<1>6. iterations \in 0 .. Cardinality(Timer) /\ at_once \in BOOLEAN /\ ops \in 0 .. MaxOps
  <2>1. iterations = 0 /\ at_once = FALSE /\ ops = MaxOps
    BY DEF Init
  <2>2. MaxOps \in Nat
    BY LoopAssumption
  <2>3. iterations \in 0 .. Cardinality(Timer)
    BY <1>1, <2>1
  <2>4. ops \in 0 .. MaxOps
    BY <2>1, <2>2
  <2> QED
    BY <2>1, <2>3, <2>4
<1> QED
  BY <1>2, <1>3, <1>4, <1>5, <1>6 DEF TypeOK

(* A list without repetitions is not longer than there are timers.             *)
LEMMA LengthBound ==
  ASSUME NEW s \in Seq(Timer), IsInjective(s)
  PROVE  Cardinality(Timer) \in Nat /\ Len(s) \in 0 .. Cardinality(Timer)
<1>1. Len(s) \in Nat /\ s \in [1 .. Len(s) -> Timer] /\ DOMAIN s = 1 .. Len(s)
  BY LenProperties
<1>2. s \in Injection(1 .. Len(s), Timer)
  BY <1>1 DEF Injection, IsInjective
<1>3. Cardinality(1 .. Len(s)) <= Cardinality(Timer)
  BY <1>2, LoopAssumption, FS_Injection
<1>4. Cardinality(1 .. Len(s)) = Len(s)
  BY <1>1, FS_Interval
<1>5. Cardinality(Timer) \in Nat
  BY LoopAssumption, FS_CardinalityType
<1> QED
  BY <1>1, <1>3, <1>4, <1>5

(* The part of TypeOK the timers are responsible for.                          *)
TimersRight ==
  /\ m_timer_list \in Seq(Timer) /\ TimersListed
  /\ bActive \in [Timer -> BOOLEAN] /\ bSingleShot \in [Timer -> BOOLEAN]
  /\ interval \in [Timer -> Interval \cup {0}] /\ due \in [Timer -> Int]

(* A timer is taken out.                                                      *)
LEMMA DropKeeps ==
  ASSUME TimersRight, NEW t \in Timer
  PROVE  LET r == RemoveFirst(m_timer_list, t)
         IN  /\ r \in Seq(Timer) /\ IsInjective(r) /\ Sorted(r, due)
             /\ ToSet(r) = {u \in Timer : bActive[u]} \ {t}
<1>1. PICK s \in Seq(Timer) :
        s = m_timer_list /\ IsInjective(s) /\ Sorted(s, due) /\ ToSet(s) = {u \in Timer : bActive[u]}
  BY DEF TimersRight, TimersListed
<1>2. PICK when : when = due
  OBVIOUS
<1>3. LET r == RemoveFirst(s, t)
      IN  /\ r \in Seq(Timer) /\ IsInjective(r) /\ Sorted(r, when) /\ ToSet(r) = ToSet(s) \ {t}
  BY <1>1, <1>2, RemoveKeeps
<1> QED
  BY <1>1, <1>2, <1>3

(* A timer is taken out and put back where it is due.                          *)
LEMMA MoveKeeps ==
  ASSUME TimersRight, NEW t \in Timer, NEW when \in [Timer -> Int],
         \A u \in Timer \ {t} : when[u] = due[u]
  PROVE  LET r == InOrder(RemoveFirst(m_timer_list, t), t, when)
         IN  /\ r \in Seq(Timer) /\ IsInjective(r) /\ Sorted(r, when)
             /\ ToSet(r) = {u \in Timer : bActive[u]} \cup {t}
<1> DEFINE rest == RemoveFirst(m_timer_list, t)
<1>1. /\ rest \in Seq(Timer) /\ IsInjective(rest) /\ Sorted(rest, due)
      /\ ToSet(rest) = {u \in Timer : bActive[u]} \ {t}
  BY DropKeeps
<1> HIDE DEF rest
<1>2. Sorted(rest, when)
  <2>1. \A i \in DOMAIN rest : rest[i] \in Timer \ {t}
    BY <1>1 DEF ToSet
  <2> QED
    BY <1>1, <2>1 DEF Sorted
<1>3. PICK s \in Seq(Timer) : s = rest /\ IsInjective(s) /\ Sorted(s, when) /\ t \notin ToSet(s)
  BY <1>1, <1>2
<1>4. LET r == InOrder(s, t, when)
      IN  /\ r \in Seq(Timer) /\ IsInjective(r) /\ Sorted(r, when) /\ ToSet(r) = ToSet(s) \cup {t}
  BY <1>3, InOrderKeeps
<1> QED
  BY <1>1, <1>3, <1>4 DEF rest

(* startLongTimer.                                                            *)
LEMMA StartKeeps ==
  ASSUME TimersRight, NEW t \in Timer, NEW msek \in Interval, NEW single \in BOOLEAN,
         StartTimer(t, msek, single)
  PROVE  TimersRight'
<1>0. msek \in Int
  BY LoopAssumption
<1>1. PICK when \in [Timer -> Int] : due' = when /\ \A u \in Timer \ {t} : when[u] = due[u]
  BY <1>0 DEF StartTimer, TimersRight
<1>2. /\ m_timer_list' \in Seq(Timer) /\ IsInjective(m_timer_list')
      /\ Sorted(m_timer_list', when)
      /\ ToSet(m_timer_list') = {u \in Timer : bActive[u]} \cup {t}
  BY <1>1, MoveKeeps DEF StartTimer
<1>3. /\ bActive' = [bActive EXCEPT ![t] = TRUE] /\ bSingleShot' \in [Timer -> BOOLEAN]
      /\ interval' \in [Timer -> Interval \cup {0}]
  BY DEF StartTimer, TimersRight
<1>4. bActive' \in [Timer -> BOOLEAN] /\ \A u \in Timer : bActive'[u] <=> bActive[u] \/ u = t
  BY <1>3 DEF TimersRight
<1> QED
  BY <1>1, <1>2, <1>3, <1>4 DEF TimersRight, TimersListed

(* stop, and what activate does to a timer that fires once.                    *)
LEMMA StopKeeps ==
  ASSUME TimersRight, NEW t \in Timer,
         bActive' = [bActive EXCEPT ![t] = FALSE], due' = [due EXCEPT ![t] = 0],
         m_timer_list' = RemoveFirst(m_timer_list, t), UNCHANGED <<bSingleShot, interval>>
  PROVE  TimersRight'
<1>1. PICK when \in [Timer -> Int] : due' = when /\ \A u \in Timer \ {t} : when[u] = due[u]
  <2>1. due \in [Timer -> Int]
    BY DEF TimersRight
  <2>2. [due EXCEPT ![t] = 0] \in [Timer -> Int]
    BY <2>1
  <2> QED
    BY <2>1, <2>2
<1>2. /\ m_timer_list' \in Seq(Timer) /\ IsInjective(m_timer_list')
      /\ Sorted(m_timer_list', due)
      /\ ToSet(m_timer_list') = {u \in Timer : bActive[u]} \ {t}
  BY DropKeeps
<1>3. Sorted(m_timer_list', when)
  <2>1. \A i \in DOMAIN m_timer_list' : m_timer_list'[i] \in Timer \ {t}
    BY <1>2 DEF ToSet
  <2> QED
    BY <1>1, <1>2, <2>1 DEF Sorted
<1>4. bActive' \in [Timer -> BOOLEAN] /\ \A u \in Timer : bActive'[u] <=> bActive[u] /\ u # t
  BY DEF TimersRight
<1> QED
  BY <1>1, <1>2, <1>3, <1>4 DEF TimersRight, TimersListed

(* activate, before it calls anybody.                                         *)
LEMMA ActivateKeeps ==
  ASSUME TimersRight, NEW t \in Timer, bActive[t], ActivateTimer(t)
  PROVE  TimersRight'
<1>1. CASE bSingleShot[t]
  BY <1>1, StopKeeps DEF ActivateTimer
<1>2. CASE ~bSingleShot[t]
  <2>1. PICK when \in [Timer -> Int] : due' = when /\ \A u \in Timer \ {t} : when[u] = due[u]
    <3>0. interval[t] \in Interval \cup {0}
      BY DEF TimersRight
    <3>1. interval[t] \in Int
      <4>1. interval[t] \in Interval => interval[t] \in Nat
        BY LoopAssumption
      <4>2. CASE interval[t] \in Interval
        BY <4>1, <4>2
      <4>3. CASE interval[t] = 0
        BY <4>3
      <4> QED
        BY <3>0, <4>2, <4>3
    <3> QED
      BY <1>2, <3>1 DEF ActivateTimer, TimersRight
  <2>2. /\ m_timer_list' \in Seq(Timer) /\ IsInjective(m_timer_list')
        /\ Sorted(m_timer_list', when)
        /\ ToSet(m_timer_list') = {u \in Timer : bActive[u]} \cup {t}
    BY <1>2, <2>1, MoveKeeps DEF ActivateTimer
  <2>3. UNCHANGED <<bActive, bSingleShot, interval>>
    BY <1>2 DEF ActivateTimer
  <2> QED
    BY <2>1, <2>2, <2>3 DEF TimersRight, TimersListed
<1> QED
  BY <1>1, <1>2

(* No step leaves TypeOK.                                                     *)
LEMMA TypeInductive == TypeOK /\ [Next]_vars => TypeOK'
<1> SUFFICES ASSUME TypeOK, [Next]_vars PROVE TypeOK'
  OBVIOUS
<1> USE LoopAssumption
<1>1. TimersRight /\ Cardinality(Timer) \in Nat
  BY FS_CardinalityType DEF TypeOK, TimersRight
<1>2. TimersRight'
  <2>1. CASE UNCHANGED timers
    BY <1>1, <2>1 DEF timers, TimersRight, TimersListed
  <2>2. CASE Operation
    <3>1. ASSUME NEW t \in Timer, StopTimer(t) PROVE TimersRight'
      BY <1>1, <3>1, StopKeeps DEF StopTimer
    <3> QED
      BY <1>1, <2>1, <2>2, <3>1, StartKeeps DEF Operation
  <2>3. CASE TimerFires
    <3>1. Head(m_timer_list) \in Timer /\ bActive[Head(m_timer_list)]
      <4>1. 1 \in DOMAIN m_timer_list /\ Head(m_timer_list) = m_timer_list[1]
        BY <1>1, <2>3 DEF TimerFires, HeadIsDue, TimersRight
      <4> QED
        BY <1>1, <4>1 DEF TimersRight, TimersListed, ToSet
    <3>2. PICK t \in Timer : t = Head(m_timer_list)
      BY <3>1
    <3> QED
      BY <1>1, <2>3, <3>1, <3>2, ActivateKeeps DEF TimerFires
  <2>4. CASE Tick
    <3>1. due' = [t \in Timer |-> IF bActive[t] THEN due[t] - 1 ELSE 0]
          /\ UNCHANGED <<m_timer_list, bActive, bSingleShot, interval>>
      BY <2>4 DEF Tick
    <3>2. \A i \in DOMAIN m_timer_list : m_timer_list[i] \in Timer /\ bActive[m_timer_list[i]]
      BY <1>1 DEF TimersRight, TimersListed, ToSet
    <3>3. Sorted(m_timer_list', due')
      BY <1>1, <3>1, <3>2 DEF TimersRight, TimersListed, Sorted
    <3> QED
      BY <1>1, <3>1, <3>3 DEF TimersRight, TimersListed
  <2> QED
    BY <2>1, <2>2, <2>3, <2>4
       DEF Next, LoopStep, AppReturns, Iterate, TimerReturns, Poll, PollReturns, FdReady,
           FdReturns, PassEnds, PollInterrupted, Arrive, vars
<1>3. iterations' \in 0 .. Cardinality(Timer)
  <2>1. Len(m_timer_list) \in 0 .. Cardinality(Timer)
    BY <1>1, LengthBound DEF TimersRight, TimersListed
  <2>2. iterations' \in {iterations, iterations - 1, 0, Len(m_timer_list)}
        /\ (iterations' = iterations - 1 => iterations # 0)
    BY DEF Next, LoopStep, AppReturns, Iterate, TimerFires, TimerReturns, Poll, PollReturns,
           FdReady, FdReturns, PassEnds, Operation, PollInterrupted, Tick, Arrive, loop, vars,
           TypeOK
  <2> QED
    BY <1>1, <2>1, <2>2 DEF TypeOK
<1>4. at_once' \in BOOLEAN
  <2>1. CASE TimerReturns
    BY <2>1 DEF TimerReturns
  <2>2. CASE at_once' \in {at_once, FALSE}
    BY <2>2 DEF TypeOK
  <2> QED
    BY <2>1, <2>2
       DEF Next, LoopStep, AppReturns, Iterate, TimerFires, Poll, PollReturns, FdReady,
           FdReturns, PassEnds, Operation, PollInterrupted, Tick, Arrive, loop, vars
<1>5. ops' \in 0 .. MaxOps
  <2>1. ops \in 0 .. MaxOps
    BY DEF TypeOK
  <2>2. ops' \in {ops, 0, MaxOps} \/ (ops > 0 /\ ops' = ops - 1)
    BY DEF Next, LoopStep, AppReturns, Iterate, TimerFires, TimerReturns, Poll, PollReturns,
           FdReady, FdReturns, PassEnds, Operation, PollInterrupted, Tick, Arrive, vars
  <2> QED
    BY <2>1, <2>2
<1> QED
  BY <1>2, <1>3, <1>4, <1>5 DEF TimersRight, TypeOK

(* The list always holds just the active timers, each once and in the order in  *)
(* which they are due, whatever callbacks start and stop; at most all of them   *)
(* are served in a row.                                                       *)
THEOREM TimersSorted == Spec => []TypeOK
  BY TypeInit, TypeInductive, PTL DEF Spec
===============================================================================
