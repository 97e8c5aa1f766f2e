------------------------------- MODULE MainLoop -------------------------------
(***************************************************************************)
(* eMainloop, eTimer and eSocketNotifier (lib/base/ebase.cpp).  One thread   *)
(* runs iterate(): timers that are due, then poll(), then the notifiers      *)
(* whose descriptors are ready.  The callbacks of both may start and stop    *)
(* timers and notifiers, close descriptors and get the same numbers again.   *)
(* eApp gives control back to Python (pc = "app") between two polls.         *)
(*                                                                          *)
(* Two notifiers may have the same descriptor number, one after the other.   *)
(* A file is read by the callback of its own notifier only, and its owner    *)
(* drops the notifier when it closes the file.                               *)
(***************************************************************************)
EXTENDS Integers, Sequences, FiniteSets, SequencesExt

CONSTANTS
  Timer,
  Notifier,  \* identities of eSocketNotifier objects
  FD,        \* FD[n]: the descriptor number of the notifier
  None,
  Interval,  \* the delays and intervals timers are started with
  MaxLate,   \* bound: how late, at most, a timer gets
  MaxOps     \* bound: operations of one callback

Fd == {FD[n] : n \in Notifier}

ASSUME LoopAssumption ==
  /\ IsFiniteSet(Timer) /\ IsFiniteSet(Notifier)
  /\ FD \in [Notifier -> Nat] /\ None \notin Timer \cup Notifier
  /\ Interval \subseteq Nat /\ MaxLate \in Nat /\ MaxOps \in Nat

VARIABLES
  m_timer_list,
  bActive, bSingleShot, interval,
  due,           \* nextActivation, counted from now (0 when not active)
  reg,           \* the notifiers' states and the map of them: a record
                 \*   state      0 stopped, 1 running and in poll, 2 running but not in poll yet
                 \*   notifiers  [Fd -> the notifier or None]
                 \*   fatal      an ASSERT or eFatal was reached
  held,          \* [Notifier -> its owner has it, and its file is open]
  ready,         \* [Fd -> the file has data]
  pc,            \* "app", "iterate", "timers", "timer", "poll", "fds", "fd"
  iterations,
  at_once,       \* poll_timeout is 0
  revents,       \* descriptors found ready that the loop has not looked at yet
  m_inActivate,
  ops            \* operations the callback may still do

timers == <<m_timer_list, bActive, bSingleShot, interval, due>>
sockets == <<reg, held, ready>>
loop == <<pc, iterations, at_once, revents, m_inActivate>>
vars == <<timers, sockets, loop, ops>>

Init ==
  /\ m_timer_list = <<>>
  /\ bActive = [t \in Timer |-> FALSE] /\ bSingleShot = [t \in Timer |-> TRUE]
  /\ interval = [t \in Timer |-> 0] /\ due = interval
  /\ reg = [state |-> [n \in Notifier |-> 0], notifiers |-> [f \in Fd |-> None],
            fatal |-> FALSE]
  /\ held = [n \in Notifier |-> FALSE] /\ ready = [f \in Fd |-> FALSE]
  /\ pc = "app" /\ iterations = 0 /\ at_once = FALSE
  /\ revents = {} /\ m_inActivate = None /\ ops = MaxOps

-----------------------------------------------------------------------------
(* Timers *)

\* [slip] the timer goes to the end of the list
InOrder_Last(list, t, when) == Append(list, t)

\* insert_in_order: lower_bound, before the first that is not due earlier
InOrder(list, t, when) ==
  LET p == SelectInSeq(list, LAMBDA u : when[t] <= when[u])
  IN  IF p = 0 THEN Append(list, t) ELSE InsertAt(list, p, t)

\* eTimer::start and startLongTimer
StartTimer(t, msek, single) ==
  /\ bActive' = [bActive EXCEPT ![t] = TRUE]
  /\ bSingleShot' = [bSingleShot EXCEPT ![t] = single]
  /\ interval' = [interval EXCEPT ![t] = msek]
  /\ due' = [due EXCEPT ![t] = msek]
  /\ m_timer_list' = InOrder(RemoveFirst(m_timer_list, t), t, due')

StopTimer(t) ==
  /\ bActive[t]
  /\ bActive' = [bActive EXCEPT ![t] = FALSE]
  /\ due' = [due EXCEPT ![t] = 0]
  /\ m_timer_list' = RemoveFirst(m_timer_list, t)
  /\ UNCHANGED <<bSingleShot, interval>>

\* The list without t, then eTimer::activate before it emits timeout.
ActivateTimer(t) ==
  /\ IF bSingleShot[t]
     THEN /\ bActive' = [bActive EXCEPT ![t] = FALSE]
          /\ due' = [due EXCEPT ![t] = 0]
          /\ m_timer_list' = RemoveFirst(m_timer_list, t)
     ELSE /\ due' = [due EXCEPT ![t] = @ + interval[t]]
          /\ m_timer_list' = InOrder(RemoveFirst(m_timer_list, t), t, due')
          /\ UNCHANGED bActive
  /\ UNCHANGED <<bSingleShot, interval>>

-----------------------------------------------------------------------------
(* Notifiers *)

\* removeSocketNotifier: erases by number
Removed(r, f) == [r EXCEPT !.notifiers[f] = None,
                           !.fatal = @ \/ r.notifiers[f] = None]

StoppedNotifier(r, n) ==
  IF r.state[n] = 0 THEN r ELSE Removed([r EXCEPT !.state[n] = 0], FD[n])

\* Only the loop refers to the notifier whose callback runs.
LastReference(h) == m_inActivate # None /\ ~h[m_inActivate]

\* [slip] the notifier about to be destroyed stays in the map
Added_NoEarlyStop(r, n, h) ==
  [r EXCEPT !.notifiers[FD[n]] = n,
            !.fatal = @ \/ r.notifiers[FD[n]] # None]

\* addSocketNotifier, which stops a notifier about to be destroyed first
Added(r, n, h) ==
  LET s == IF LastReference(h) THEN StoppedNotifier(r, m_inActivate) ELSE r
  IN  [state |-> s.state, notifiers |-> [s.notifiers EXCEPT ![FD[n]] = n],
       fatal |-> s.fatal \/ s.notifiers[FD[n]] # None]

StartedNotifier(r, n, h) ==
  [Added(StoppedNotifier(r, n), n, h) EXCEPT !.state[n] = 2]

\* A file is opened, with the lowest free number, and gets a notifier (startnow).
Create(n) ==
  /\ ~held[n] /\ n # m_inActivate /\ \A o \in Notifier : held[o] => FD[o] # FD[n]
  /\ held' = [held EXCEPT ![n] = TRUE]
  /\ ready' = [ready EXCEPT ![FD[n]] = FALSE]
  /\ reg' = StartedNotifier(reg, n, held')

Start(n) ==
  /\ held[n]
  /\ reg' = StartedNotifier(reg, n, held)
  /\ UNCHANGED <<held, ready>>

Stop(n) ==
  /\ held[n] /\ reg.state[n] # 0
  /\ reg' = StoppedNotifier(reg, n)
  /\ UNCHANGED <<held, ready>>

\* The owner closes the file and drops the notifier; the destructor stops it,
\* unless the loop still refers to it.
Drop(n) ==
  /\ held[n]
  /\ held' = [held EXCEPT ![n] = FALSE]
  /\ ready' = [ready EXCEPT ![FD[n]] = FALSE]
  /\ reg' = IF n = m_inActivate THEN reg ELSE StoppedNotifier(reg, n)

Read(n) ==
  /\ n = m_inActivate /\ held[n] /\ ready[FD[n]]
  /\ ready' = [ready EXCEPT ![FD[n]] = FALSE]
  /\ UNCHANGED <<reg, held>>

-----------------------------------------------------------------------------
(* One operation of the code that runs: a callback or Python *)

Operation ==
  /\ pc \in {"app", "timer", "fd"} /\ ops > 0
  /\ ops' = ops - 1
  /\ \/ /\ \E t \in Timer : \/ StopTimer(t)
                            \/ \E i \in Interval, s \in BOOLEAN : StartTimer(t, i, s)
        /\ UNCHANGED sockets
     \/ /\ \E n \in Notifier : Create(n) \/ Start(n) \/ Stop(n) \/ Drop(n) \/ Read(n)
        /\ UNCHANGED timers
  /\ UNCHANGED loop

-----------------------------------------------------------------------------
(* iterate and processOneEvent *)

AppReturns ==
  /\ pc = "app" /\ pc' = "iterate" /\ ops' = 0
  /\ UNCHANGED <<timers, sockets, iterations, at_once, revents, m_inActivate>>

Iterate ==
  /\ pc = "iterate" /\ pc' = "timers"
  /\ iterations' = Len(m_timer_list)
  /\ UNCHANGED <<timers, sockets, at_once, revents, m_inActivate, ops>>

HeadIsDue == m_timer_list # <<>> /\ due[Head(m_timer_list)] <= 0

TimerFires ==
  /\ pc = "timers" /\ HeadIsDue
  /\ ActivateTimer(Head(m_timer_list))
  /\ pc' = "timer" /\ ops' = MaxOps
  /\ UNCHANGED <<sockets, iterations, at_once, revents, m_inActivate>>

\* The poll array is built: what runs is in poll now.
InPoll == [reg EXCEPT !.state = [n \in Notifier |-> IF reg.state[n] = 0 THEN 0 ELSE 1]]

\* [slip] no limit of the timers served in a row
TimerReturns_NoLimit ==
  /\ pc = "timer" /\ ops' = 0
  /\ at_once' = (m_timer_list = <<>>)
  /\ pc' = IF at_once' THEN "poll" ELSE "timers"
  /\ reg' = IF at_once' THEN InPoll ELSE reg
  /\ UNCHANGED <<timers, held, ready, iterations, revents, m_inActivate>>

TimerReturns ==
  /\ pc = "timer" /\ ops' = 0
  /\ LET enough == m_timer_list = <<>> \/ iterations = 0
     IN  /\ at_once' = enough
         /\ iterations' = IF enough THEN 0 ELSE iterations - 1
         /\ pc' = IF enough THEN "poll" ELSE "timers"
         /\ reg' = IF enough THEN InPoll ELSE reg
  /\ UNCHANGED <<timers, held, ready, revents, m_inActivate>>

Poll ==
  /\ pc = "timers" /\ ~HeadIsDue
  /\ pc' = "poll" /\ at_once' = FALSE /\ iterations' = 0
  /\ reg' = InPoll
  /\ UNCHANGED <<timers, held, ready, revents, m_inActivate, ops>>

ReadyFds == {f \in Fd : reg.notifiers[f] # None /\ ready[f]}

PollReturns ==
  /\ pc = "poll"
  /\ at_once \/ ReadyFds # {} \/ HeadIsDue
  /\ pc' = "fds" /\ revents' = ReadyFds /\ at_once' = FALSE
  /\ UNCHANGED <<timers, sockets, iterations, m_inActivate, ops>>

\* A signal, the timeout Python gave, or one of the descriptors Python gave.
PollInterrupted ==
  /\ pc = "poll" /\ ReadyFds = {}
  /\ pc' = "app" /\ at_once' = FALSE /\ ops' = MaxOps
  /\ UNCHANGED <<timers, sockets, iterations, revents, m_inActivate>>

\* [slip] a notifier that was not in the poll array is activated
InThisPoll_Any(n) == reg.state[n] # 0

InThisPoll(n) == reg.state[n] = 1

\* The next descriptor of the array: its notifier is looked up by number.
FdReady ==
  /\ pc = "fds"
  /\ \E f \in revents :
       /\ \A g \in revents : f <= g
       /\ revents' = revents \ {f}
       /\ LET n == reg.notifiers[f]
          IN  IF n # None /\ InThisPoll(n)
              THEN m_inActivate' = n /\ pc' = "fd" /\ ops' = MaxOps
              ELSE UNCHANGED <<m_inActivate, pc, ops>>
  /\ UNCHANGED <<timers, sockets, iterations, at_once>>

\* Release destroys, and so stops, a notifier its owner has dropped meanwhile.
FdReturns ==
  /\ pc = "fd" /\ pc' = "fds" /\ ops' = 0
  /\ m_inActivate' = None
  /\ reg' = IF LastReference(held) THEN StoppedNotifier(reg, m_inActivate) ELSE reg
  /\ UNCHANGED <<timers, held, ready, iterations, at_once, revents>>

\* iterate goes on, or returns because of interruptPoll, quit, the timeout or
\* descriptors of Python.
PassEnds ==
  /\ pc = "fds" /\ revents = {}
  /\ \/ pc' = "iterate" /\ UNCHANGED ops
     \/ pc' = "app" /\ ops' = MaxOps
  /\ UNCHANGED <<timers, sockets, iterations, at_once, revents, m_inActivate>>

LoopStep ==
  AppReturns \/ Iterate \/ TimerFires \/ TimerReturns \/ Poll \/ PollReturns \/ FdReady
    \/ FdReturns \/ PassEnds

-----------------------------------------------------------------------------
(* The world around *)

Tick ==
  /\ \A t \in Timer : bActive[t] => due[t] > -MaxLate
  /\ \E t \in Timer : bActive[t]
  /\ due' = [t \in Timer |-> IF bActive[t] THEN due[t] - 1 ELSE 0]
  /\ UNCHANGED <<m_timer_list, bActive, bSingleShot, interval, sockets, loop, ops>>

Arrive(n) ==
  /\ held[n] /\ ~ready[FD[n]]
  /\ ready' = [ready EXCEPT ![FD[n]] = TRUE]
  /\ UNCHANGED <<timers, reg, held, loop, ops>>

Next ==
  LoopStep \/ Operation \/ PollInterrupted \/ Tick \/ (\E n \in Notifier : Arrive(n))

Spec == Init /\ [][Next]_vars

\* The thread runs; callbacks return.
FairSpec == Spec /\ WF_vars(LoopStep)

-----------------------------------------------------------------------------
Sorted(list, when) == \A i, j \in DOMAIN list : i < j => when[list[i]] <= when[list[j]]

\* The list holds each active timer once, in the order of the activations.
TimersListed ==
  /\ ToSet(m_timer_list) = {t \in Timer : bActive[t]}
  /\ IsInjective(m_timer_list)
  /\ Sorted(m_timer_list, due)

(* The types, and a timer list that agrees with the timers (ebase.cpp:342-351). *)
TypeOK ==
  /\ m_timer_list \in Seq(Timer) /\ TimersListed
  /\ bActive \in [Timer -> BOOLEAN] /\ bSingleShot \in [Timer -> BOOLEAN]
  /\ interval \in [Timer -> Interval \cup {0}] /\ due \in [Timer -> Int]
  /\ iterations \in 0 .. Cardinality(Timer) /\ at_once \in BOOLEAN /\ ops \in 0 .. MaxOps

Registrations ==
  [state : [Notifier -> 0 .. 2], notifiers : [Fd -> Notifier \cup {None}], fatal : BOOLEAN]

SocketTypes ==
  /\ reg \in Registrations
  /\ held \in [Notifier -> BOOLEAN] /\ ready \in [Fd -> BOOLEAN]
  /\ pc \in {"app", "iterate", "timers", "timer", "poll", "fds", "fd"}
  /\ revents \subseteq Fd /\ m_inActivate \in Notifier \cup {None}

\* The map holds just the notifiers that run, each under its number.
Agrees(r) ==
  /\ \A n \in Notifier : r.state[n] # 0 <=> r.notifiers[FD[n]] = n
  /\ \A f \in Fd : r.notifiers[f] # None => FD[r.notifiers[f]] = f

\* A notifier runs only as long as somebody refers to it.
Referred(r, h) == \A n \in Notifier : r.state[n] # 0 => h[n] \/ n = m_inActivate

MapAgrees == ~reg.fatal /\ Agrees(reg) /\ Referred(reg, held)

\* No two open files have the same number.
OneFile(h) == \A n, o \in Notifier : h[n] /\ h[o] /\ FD[n] = FD[o] => n = o

\* Where in a pass there are descriptors to look at and a notifier being served.
Pass ==
  /\ pc = "fd" <=> m_inActivate # None
  /\ m_inActivate # None => FD[m_inActivate] \notin revents
  /\ revents # {} => pc \in {"fds", "fd"}

\* What poll() found ready and is in the poll set is ready still.
FoundReady ==
  \A n \in Notifier : reg.state[n] = 1 /\ FD[n] \in revents => ready[FD[n]]

(* The inductive invariant.  MapAgrees is what matters: no ASSERT and no eFatal *)
(* of addSocketNotifier and removeSocketNotifier is reached, and the map holds  *)
(* just the notifiers that run, also when a callback drops its own notifier,    *)
(* closes its descriptor and opens another file that gets the same number       *)
(* (ebase.cpp:140-170).                                                         *)
IInv == SocketTypes /\ MapAgrees /\ OneFile(held) /\ Pass /\ FoundReady

(* A callback is only called when its descriptor has something to read: what   *)
(* an earlier callback of the same pass did (another file under the same       *)
(* number, a notifier stopped and started) never makes the loop activate a     *)
(* notifier for what poll() said of the file before.  A read() there would      *)
(* block the whole program (ebase.cpp:294-313).                                *)
NoStaleActivation ==
  [][\A n \in Notifier : m_inActivate # n /\ m_inActivate' = n => ready[FD[n]]]_vars

(* Whatever the timers do, those that start themselves again with no delay     *)
(* included, the loop gets to poll(), and a notifier whose descriptor is ready  *)
(* is served unless it is stopped or started afresh (ebase.cpp:199-222).       *)
ReadyServed ==
  /\ []<>(pc = "poll")
  /\ \A n \in Notifier :
       reg.state[n] = 1 /\ ready[FD[n]]
         ~> m_inActivate = n \/ ~ready[FD[n]] \/ reg.state[n] # 1
===============================================================================
