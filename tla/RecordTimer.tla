----------------------------- MODULE RecordTimer -----------------------------
(***************************************************************************)
(* The recording timers: timer.py (Timer, TimerEntry) as RecordTimer.py    *)
(* specialises it, with the handlers of the timer screens that change a    *)
(* timer.                                                                  *)
(*                                                                         *)
(* Everything runs on the main thread, yet nothing is atomic: one pass of  *)
(* processActivation activates entry after entry while the clock runs on,  *)
(* and the handler that started the pass has work left to do when the pass *)
(* is over.  A step here is one iteration of that loop.  "pc" says whether *)
(* a pass is under way and "after" what the interrupted handler still has  *)
(* to do.                                                                  *)
(*                                                                         *)
(* Time is a number of ticks.  A timer that repeats does so on a set of    *)
(* days of a week of Week days.                                            *)
(***************************************************************************)
EXTENDS Integers, SequencesExt

CONSTANTS
  Timer,          \* the RecordTimerEntry objects
  NoTimer,        \* a value outside of Timer
  ZapOnly,        \* the timers created with justplay set
  Spans,          \* <<begin, end>> a timer may be given
  Repeats,        \* "repeated" flags a timer may be given, sets of days
  PrepareTime,    \* TimerEntry.prepare_time
  Day, Week,      \* ticks of a day, days of a week
  MaxWaitTime,    \* Timer.MaxWaitTime
  Backoff, MaxBackoff, \* first and largest retry delay
  KeepTime,       \* config.recording.keep_timers
  MaxTime,        \* bound: the clock stops here
  PassTime,       \* bound: ticks that go by while one handler runs
  MaxUpsets,      \* bound: restarts and corrections that set the clock back
  MaxEdits,       \* bound: user requests
  AskFirst,       \* whether a running repeated timer may be stopped by dialog
  EditConflicts   \* whether an edit may be refused by the sanity check

ASSUME TimerAssumption ==
  /\ NoTimer \notin Timer /\ ZapOnly \subseteq Timer
  /\ \A s \in Spans : s[1] \in Nat /\ s[2] \in Nat /\ s[1] <= s[2]
  /\ \A r \in Repeats : r \subseteq 0 .. Week - 1
  /\ Day \in Nat \ {0} /\ Week \in Nat \ {0} /\ MaxWaitTime \in Nat \ {0}
  /\ Backoff \in Nat \ {0} /\ MaxBackoff \in Nat /\ Backoff <= MaxBackoff
  /\ PrepareTime \in Nat /\ KeepTime \in Nat
  /\ MaxTime \in Nat /\ PassTime \in Nat /\ MaxUpsets \in Nat /\ MaxEdits \in Nat
  /\ AskFirst \in BOOLEAN /\ EditConflicts \in BOOLEAN

VARIABLES
  now,              \* time()
  entry,            \* the fields of every timer
  timer_list,       \* timers still to run, a sequence kept in order by insort
  processed_timers, \* timers that are over, and how often each is in that list
  warped,           \* those of them still to be re-evaluated after a time warp
  lastActivation,
  wait,             \* ticks until the eTimer fires (it counts in elapsed time)
  pc,               \* "idle", in the re-evaluation after a time "warp", in a
                    \* "pass" of processActivation, in what comes "after" it,
                    \* or "error": an exception ended the program
  bound,            \* t, the time the pass compares activations with
  slack,            \* ticks that may still go by before the handler returns
  after,            \* what the handler does when the pass is over
  dialog,           \* the timer a "stop current event" ChoiceBox is open for
  conflict,         \* the timer a TimerSanityConflict screen is open for
  saved,            \* timers.xml
  upsets, edits     \* what is left of the bounds

vars == <<now, entry, timer_list, processed_timers, warped, lastActivation, wait, pc,
          bound, slack, after, dialog, conflict, saved, upsets, edits>>

Waiting == 0
Prepared == 1
Running == 2
Ended == 3

Service == {"none", "prepared", "recording"}

Entry == [state : Waiting .. Ended, begin : Nat, end : Nat, start_prepare : Int,
          backoff : 0 .. MaxBackoff, cancelled : BOOLEAN, disabled : BOOLEAN,
          first_try_prepare : BOOLEAN, repeated : SUBSET (0 .. Week - 1),
          record_service : Service]

Blank == [state |-> Waiting, begin |-> 0, end |-> 0, start_prepare |-> 0,
          backoff |-> 0, cancelled |-> FALSE, disabled |-> FALSE,
          first_try_prepare |-> TRUE, repeated |-> {}, record_service |-> "none"]

\* The entries and the two lists, and what they are now.
Lists == [entry : [Timer -> Entry], list : Seq(Timer), done : [Timer -> Nat]]
S == [entry |-> entry, list |-> timer_list, done |-> processed_timers]

After == [op : {"nothing", "save", "remove", "change", "load"},
          timer : Timer \cup {NoTimer}, disable : BOOLEAN, timers : SUBSET Timer]

Nothing == [op |-> "nothing", timer |-> NoTimer, disable |-> FALSE, timers |-> {}]
AfterSave == [Nothing EXCEPT !.op = "save"]
AfterRemove(w) == [Nothing EXCEPT !.op = "remove", !.timer = w]
AfterStop(w, disable) == [Nothing EXCEPT !.op = "change", !.timer = w, !.disable = disable]
AfterLoad(T) == [Nothing EXCEPT !.op = "load", !.timers = T]

\* What is in such a list, one more of it, one less of it, a part of it.
Over(d) == {w \in Timer : d[w] > 0}
Add(d, w) == [d EXCEPT ![w] = @ + 1]
Take(d, w) == [d EXCEPT ![w] = @ - 1]
Only(d, T) == [w \in Timer |-> IF w \in T THEN d[w] ELSE 0]
Nobody == [w \in Timer |-> 0]

Known == ToSet(timer_list) \cup Over(processed_timers)

-----------------------------------------------------------------------------
(* The entry: getNextActivation, timeChanged, processRepeated, shouldSkip.  *)

getNextActivation(e) ==
  IF e.state = Waiting THEN e.start_prepare
  ELSE IF e.state = Prepared THEN e.begin
  ELSE e.end

Activation(ent) == [w \in Timer |-> getNextActivation(ent[w])]

EntryTimeChanged(e) == [e EXCEPT !.start_prepare = e.begin - PrepareTime, !.backoff = 0]

\* The days from e.begin to its next occurrence: the first of the flagged days
\* on which the edge (the end or the begin) has not passed by now.  Past now, no
\* more than a week is needed.
DaysAhead(e, edge) ==
  Min({k \in 0 .. now + Week : /\ ((e.begin + k * Day) \div Day) % Week \in e.repeated
                              /\ edge + k * Day > now})

processRepeated(e, findRunningEvent) ==
  LET shift == DaysAhead(e, IF findRunningEvent THEN e.end ELSE e.begin) * Day
  IN  IF e.repeated = {} THEN e
      ELSE EntryTimeChanged(
             [e EXCEPT !.begin = @ + shift,
                       !.end = @ + shift + (IF e.begin = e.end THEN 1 ELSE 0)])

shouldSkip(e) == e.end <= now /\ e.state = Waiting

abort(e) == [e EXCEPT !.end = now, !.begin = IF @ > now THEN now ELSE @,
                      !.cancelled = TRUE]

\* [slip] the state of a processed timer is not reset
resetState_KeepsState(e) == EntryTimeChanged([e EXCEPT !.cancelled = FALSE,
                                                       !.first_try_prepare = TRUE])

resetState(e) == EntryTimeChanged([e EXCEPT !.state = Waiting, !.cancelled = FALSE,
                                            !.first_try_prepare = TRUE])

\* [slip] the delay doubles without a limit
do_backoff_NoLimit(e) == [e EXCEPT !.backoff = IF @ = 0 THEN Backoff ELSE 2 * @]

do_backoff(e) ==
  [e EXCEPT !.backoff = IF @ = 0 THEN Backoff
                        ELSE IF 2 * @ > MaxBackoff THEN MaxBackoff ELSE 2 * @]

-----------------------------------------------------------------------------
(* The two lists.  These operators take and return the triple S of the      *)
(* entries and the lists, so that a handler can apply several in turn.      *)

\* [slip] the timer goes to the end of the list
insort_Appends(ent, s, w) == Append(s, w)

\* bisect: where a binary search that trusts the list to be sorted puts w,
\* behind as many timers of the list.
bisect(when, s, w) ==
  LET at[p \in (0 .. Len(s)) \X (0 .. Len(s))] ==
        LET mid == (p[1] + p[2]) \div 2
        IN  IF p[1] >= p[2] THEN p[1]
            ELSE IF when[w] < when[s[mid + 1]] THEN at[<<p[1], mid>>]
            ELSE at[<<mid + 1, p[2]>>]
  IN  at[<<0, Len(s)>>]

insort(ent, s, w) == InsertAt(s, bisect(Activation(ent), s, w) + 1, w)

\* [slip] a skipped timer is not marked as ended
addTimerEntry_NotEnded(s, w) ==
  LET e   == processRepeated(s.entry[w], TRUE)
      ent == [s.entry EXCEPT ![w] = e]
  IN  IF shouldSkip(e) \/ e.state = Ended \/ (e.state = Waiting /\ e.disabled)
      THEN [s EXCEPT !.entry = ent, !.done = Add(@, w)]
      ELSE [s EXCEPT !.entry = ent, !.list = insort(ent, @, w)]

\* addTimerEntry, up to the call of calcNextActivation
addTimerEntry(s, w) ==
  LET e   == processRepeated(s.entry[w], TRUE)
      ent == [s.entry EXCEPT ![w] = e]
  IN  IF shouldSkip(e) \/ e.state = Ended \/ (e.state = Waiting /\ e.disabled)
      THEN [s EXCEPT !.entry = [s.entry EXCEPT ![w] = [e EXCEPT !.state = Ended]],
                     !.done = Add(@, w)]
      ELSE [s EXCEPT !.entry = ent, !.list = insort(ent, @, w)]

Put(s) == /\ entry' = s.entry
          /\ timer_list' = s.list
          /\ processed_timers' = s.done
          /\ slack' = IF pc' = "idle" THEN PassTime ELSE slack

\* calcNextActivation: the pass of processActivation begins, unless the clock was
\* set back.  Then processed timers get another chance first (ReEvaluate).
calcNextActivation(s, then) ==
  /\ after' = then
  /\ IF lastActivation > now
     THEN /\ pc' = "warp" /\ UNCHANGED bound
          /\ warped' = s.done /\ Put([s EXCEPT !.done = Nobody])
     ELSE /\ pc' = "pass" /\ bound' = now
          /\ UNCHANGED warped /\ Put(s)

\* A handler, or an iteration of the loop, that leaves the lists as s and does
\* not begin a pass of its own.
Settle(s, then) ==
  /\ pc' = IF pc = "pass" THEN "pass" ELSE IF then = Nothing THEN "idle" ELSE "after"
  /\ Put(s)
  /\ after' = then
  /\ UNCHANGED <<warped, bound>>

\* addTimerEntry with the recalculation it ends in when the timer is queued
enqueue(s, w, then) ==
  LET a == addTimerEntry(s, w)
  IN  IF w \in ToSet(a.list) THEN calcNextActivation(a, then) ELSE Settle(a, then)

\* An exception that nobody catches.
Fail(s) == pc' = "error" /\ Put(s) /\ UNCHANGED <<warped, bound, after>>

\* An entry that left both lists is as good as a new one, but for a service it
\* may still hold, and unless a screen still shows it.
Forget(s, shown) ==
  [s EXCEPT !.entry = [w \in Timer |->
      IF w \in ToSet(s.list) \cup Over(s.done) \cup {shown} THEN s.entry[w]
      ELSE [Blank EXCEPT !.record_service = s.entry[w].record_service]]]

cleanupDaily(s) ==
  [s EXCEPT !.done = Only(@, {w \in Timer :
      \/ s.entry[w].disabled /\ s.entry[w].repeated # {}
      \/ s.entry[w].end > now - KeepTime})]

\* The fields timers.xml keeps.
Persistent(e) == [begin |-> e.begin, end |-> e.end, repeated |-> e.repeated,
                  disabled |-> e.disabled]

\* What the file says of a timer: nothing, or its fields.
saveTimer(s) ==
  saved' = [w \in Timer |-> IF w \in ToSet(s.list) \cup Over(s.done)
                            THEN {Persistent(s.entry[w])} ELSE {}]

-----------------------------------------------------------------------------
(* RecordTimerEntry.activate: the entries it may leave, and whether it      *)
(* accepted.  The outcomes of recordService, prepare and start are the      *)
(* environment's choice.                                                    *)

Outcome == [entry : Entry, ok : BOOLEAN]

\* [slip] a failed prepare keeps the service
tryPrepare_KeepsService(w, e) ==
  IF w \in ZapOnly THEN {[entry |-> e, ok |-> TRUE]}
  ELSE {[entry |-> [e EXCEPT !.record_service = "prepared"], ok |-> ok] : ok \in BOOLEAN}

tryPrepare(w, e) ==
  IF w \in ZapOnly THEN {[entry |-> e, ok |-> TRUE]}
  ELSE {[entry |-> [e EXCEPT !.record_service = "prepared"], ok |-> TRUE],
        \* recordService gave nothing
        [entry |-> e, ok |-> FALSE],
        \* prepare failed: back off, stop the service
        [entry |-> LET b == do_backoff(e) IN [b EXCEPT !.start_prepare = now + b.backoff],
         ok |-> FALSE]}

\* [slip] a cancelled timer is started like any other
startRecording_IgnoresCancel(w, e) ==
  {[entry |-> [e EXCEPT !.record_service = "recording"], ok |-> TRUE],
   [entry |-> LET b == do_backoff(e) IN [b EXCEPT !.begin = now + b.backoff], ok |-> FALSE]}

startRecording(w, e) ==
  IF e.cancelled \/ w \in ZapOnly THEN {[entry |-> e, ok |-> TRUE]}
  ELSE {[entry |-> [e EXCEPT !.record_service = "recording"], ok |-> TRUE],
        [entry |-> LET b == do_backoff(e) IN [b EXCEPT !.begin = now + b.backoff],
         ok |-> FALSE]}

\* [slip] the end of a recording is declined
stopRecording_Declines(w, e) == {[entry |-> e, ok |-> FALSE]}

stopRecording(w, e) ==
  {[entry |-> IF w \in ZapOnly THEN e ELSE [e EXCEPT !.record_service = "none"],
    ok |-> TRUE]}

activate(w, e) ==
  IF e.state = Waiting
  THEN {IF o.ok THEN [o EXCEPT !.entry.backoff = 0]
        ELSE [o EXCEPT !.entry.first_try_prepare = FALSE] : o \in tryPrepare(w, e)}
  ELSE IF e.state = Prepared THEN startRecording(w, e)
  ELSE IF e.state = Running THEN stopRecording(w, e)
  ELSE {[entry |-> e, ok |-> FALSE]}

\* The entry after it, a state further if it accepted, and out of the list.
activated(s, w) ==
  LET e == s.entry[w]
  IN  {[s EXCEPT !.list = RemoveFirst(@, w),
                 !.entry[w] = IF shouldSkip(e) THEN [e EXCEPT !.state = Ended]
                              ELSE IF o.ok THEN [o.entry EXCEPT !.state = @ + 1]
                              ELSE o.entry] : o \in activate(w, e)}

\* RecordTimer.doActivate: activate, then move the entry to where it belongs.
doActivate(s, w, then) ==
  \E r \in activated(s, w) :
    IF w \notin ToSet(s.list) THEN Fail(r)
    ELSE IF r.entry[w].state < Ended
    THEN Settle([r EXCEPT !.list = insort(r.entry, @, w)], then)
    ELSE IF r.entry[w].repeated = {}
    THEN LET c == cleanupDaily(r)
         IN  Settle(Forget([c EXCEPT !.done = Add(@, w)], conflict), then)
    ELSE enqueue([r EXCEPT !.entry[w] = [processRepeated(@, TRUE) EXCEPT !.state = Waiting]],
                 w, then)

\* Timer.timeChanged, for an entry whose fields were set to e
timeChanged(w, e, then) ==
  LET c == EntryTimeChanged(e)
      s == [S EXCEPT !.entry[w] = c]
  IN  IF c.state = Ended
      THEN IF w \in Over(processed_timers)
           THEN enqueue([s EXCEPT !.entry[w].state = Waiting, !.done = Take(@, w)], w, then)
           ELSE Fail(s)
      ELSE IF w \in ToSet(timer_list)
           THEN enqueue([s EXCEPT !.list = RemoveFirst(@, w)], w, then)
           ELSE Settle(s, then)

-----------------------------------------------------------------------------
Init ==
  /\ now = 0 /\ lastActivation = 0 /\ wait = MaxWaitTime
  /\ entry = [w \in Timer |-> Blank]
  /\ timer_list = <<>> /\ processed_timers = Nobody /\ warped = Nobody
  /\ pc = "idle" /\ bound = 0 /\ slack = PassTime /\ after = Nothing
  /\ dialog = NoTimer /\ conflict = NoTimer
  /\ saved = [w \in Timer |-> {}]
  /\ upsets = MaxUpsets /\ edits = MaxEdits

limits == <<upsets, edits>>
screens == <<dialog, conflict>>
clocks == <<now, lastActivation, wait>>

Tick ==
  /\ now < MaxTime
  /\ \/ pc = "idle" /\ UNCHANGED slack
     \/ pc \in {"warp", "pass", "after"} /\ slack > 0 /\ slack' = slack - 1
  /\ now' = now + 1
  /\ wait' = IF wait > 0 THEN wait - 1 ELSE 0
  /\ UNCHANGED <<entry, timer_list, processed_timers, warped, lastActivation, pc, bound,
                 after, screens, saved, limits>>

\* The clock is set back.
WarpBack ==
  /\ pc = "idle" /\ upsets > 0 /\ upsets' = upsets - 1
  /\ \E n \in 0 .. now - 1 : now' = n
  /\ UNCHANGED <<entry, timer_list, processed_timers, warped, lastActivation, wait, pc,
                 bound, slack, after, screens, saved, edits>>

\* The eTimer fires.
Poll ==
  /\ pc = "idle" /\ wait = 0
  /\ calcNextActivation(S, Nothing)
  /\ UNCHANGED <<clocks, screens, saved, limits>>

\* The time-warp branch of calcNextActivation: one more processed timer is made
\* to wait again; after the last one the pass begins.
ReEvaluate ==
  /\ pc = "warp"
  /\ IF Over(warped) = {}
     THEN pc' = "pass" /\ bound' = now /\ Put(S) /\ UNCHANGED warped
     ELSE /\ UNCHANGED <<pc, bound>>
          /\ \E w \in Over(warped) :
               /\ warped' = Take(warped, w)
               /\ Put(addTimerEntry([S EXCEPT !.entry[w] = resetState(@)], w))
  /\ UNCHANGED <<clocks, after, screens, saved, limits>>

Due == timer_list # <<>> /\ getNextActivation(entry[Head(timer_list)]) <= bound

\* One iteration of processActivation.
Iterate ==
  /\ pc = "pass" /\ Due
  /\ doActivate(S, Head(timer_list), after)
  /\ UNCHANGED <<clocks, screens, saved, limits>>

\* The rest of calcNextActivation, and setNextActivation.
PassDone ==
  /\ pc = "pass" /\ ~Due
  /\ lastActivation' = now
  /\ LET w == IF timer_list = <<>> THEN MaxWaitTime
              ELSE getNextActivation(entry[Head(timer_list)]) - now
     IN  wait' = IF w < 0 THEN 0 ELSE IF w < MaxWaitTime THEN w ELSE MaxWaitTime
  /\ pc' = (IF after = Nothing THEN "idle" ELSE "after") /\ bound' = 0
  /\ Put(S)
  /\ UNCHANGED <<now, warped, after, screens, saved, limits>>

\* What the handler that started the pass still has to do.
SaveAfter ==
  /\ pc = "after" /\ after = AfterSave
  /\ saveTimer(S)
  /\ Settle(S, Nothing)
  /\ UNCHANGED <<clocks, screens, limits>>

RemoveAfter ==
  /\ pc = "after" /\ after.op = "remove"
  /\ LET s == Forget([S EXCEPT !.done = Take(@, after.timer)], conflict)
     IN  IF after.timer \in Over(processed_timers)
         THEN Settle(s, Nothing) /\ saveTimer(s)
         ELSE Fail(S) /\ UNCHANGED saved
  /\ UNCHANGED <<clocks, screens, limits>>

ChangeAfter ==
  /\ pc = "after" /\ after.op = "change"
  /\ LET w == after.timer
     IN  timeChanged(w, [entry[w] EXCEPT !.disabled = @ \/ after.disable], Nothing)
  /\ UNCHANGED <<clocks, screens, saved, limits>>

\* loadTimer: the next timer of the file goes through record(), which ignores
\* one that begins with another and records the same.  A retry may have saved a
\* begin past the end; a timer that is made does not keep it so.
LoadAfter ==
  /\ pc = "after" /\ after.op = "load"
  /\ \/ after.timers = {} /\ Settle(S, Nothing)
     \/ \E w \in after.timers : \E p \in saved[w] :
          LET e == [Blank EXCEPT !.begin = p.begin,
                              !.end = IF p.end < p.begin THEN p.begin ELSE p.end,
                              !.repeated = p.repeated, !.disabled = p.disabled]
          IN  \/ enqueue([S EXCEPT !.entry[w] = EntryTimeChanged(e)], w,
                      AfterLoad(after.timers \ {w}))
              \/ /\ \E v \in ToSet(timer_list) : entry[v].begin = p.begin
                 /\ Settle(S, AfterLoad(after.timers \ {w}))
  /\ UNCHANGED <<clocks, screens, saved, limits>>

-----------------------------------------------------------------------------
(* Requests of the user: one at a time, as the screens are modal.           *)

Request == /\ pc = "idle" /\ edits > 0 /\ edits' = edits - 1
           /\ UNCHANGED <<clocks, upsets>>

NoScreen == dialog = NoTimer /\ conflict = NoTimer

\* RecordTimer.record, once the sanity check lets the timer pass
Record(w) ==
  /\ Request /\ NoScreen
  /\ w \notin Known /\ entry[w] = Blank
  /\ \E s \in Spans, r \in Repeats :
       enqueue([S EXCEPT !.entry[w] = EntryTimeChanged(
                  [Blank EXCEPT !.begin = s[1], !.end = s[2], !.repeated = r])],
               w, AfterSave)
  /\ UNCHANGED <<screens, saved>>

\* RecordTimer.removeEntry
RemoveEntry(w) ==
  /\ Request /\ NoScreen
  /\ w \in Known
  /\ LET e == abort([entry[w] EXCEPT !.repeated = {}])
     IN  IF e.state = Ended THEN Settle([S EXCEPT !.entry[w] = e], AfterRemove(w))
         ELSE timeChanged(w, e, AfterRemove(w))
  /\ UNCHANGED <<screens, saved>>

\* Timer.cleanup
Cleanup ==
  /\ Request /\ NoScreen
  /\ Settle(Forget([S EXCEPT !.done = Only(@, {w \in Timer : entry[w].disabled})], conflict),
            Nothing)
  /\ UNCHANGED <<screens, saved>>

\* TimerEditList.toggleDisabledState
ToggleDisabled(w) ==
  /\ Request /\ NoScreen
  /\ w \in Known
  /\ \/ /\ entry[w].disabled        \* enable, if the sanity check agrees
        /\ timeChanged(w, [entry[w] EXCEPT !.disabled = FALSE], Nothing)
        /\ UNCHANGED screens
     \/ /\ entry[w].disabled        \* it does not, and may ask what to do
        /\ timeChanged(w, entry[w], Nothing)
        /\ UNCHANGED conflict \/ (EditConflicts /\ conflict' = w)
        /\ UNCHANGED dialog
     \/ /\ ~entry[w].disabled /\ entry[w].state # Running
        /\ timeChanged(w, [entry[w] EXCEPT !.disabled = TRUE], Nothing)
        /\ UNCHANGED screens
     \/ /\ ~entry[w].disabled /\ entry[w].state = Running
        /\ \/ entry[w].repeated # {} /\ AskFirst /\ dialog' = w
           \/ entry[w].repeated = {} /\ UNCHANGED dialog
        /\ timeChanged(w, entry[w], Nothing)
        /\ UNCHANGED conflict
  /\ UNCHANGED saved

\* The current event of a repeated timer ends, outside of any pass.
stopCurrent(w, then) ==
  LET e == processRepeated([entry[w] EXCEPT !.disabled = FALSE], FALSE)
  IN  doActivate([S EXCEPT !.entry[w] = e], w, then)

\* MovieSelection.stopTimer, for a repeated timer
StopTimer(w) ==
  /\ Request /\ NoScreen
  /\ w \in Known /\ entry[w].state = Running /\ entry[w].repeated # {}
  /\ stopCurrent(w, Nothing)
  /\ UNCHANGED <<screens, saved>>

\* TimerEditList.runningEventCallback: the answer comes when the user gives it.
AnswerDialog ==
  /\ pc = "idle" /\ dialog # NoTimer /\ dialog' = NoTimer
  /\ \/ Settle(S, Nothing)                               \* left without a choice
     \/ stopCurrent(dialog, AfterStop(dialog, FALSE))    \* stoponlycurrent
     \/ stopCurrent(dialog, AfterStop(dialog, TRUE))     \* stopall
     \/ timeChanged(dialog, [entry[dialog] EXCEPT !.disabled = TRUE], Nothing)
  /\ UNCHANGED <<clocks, conflict, saved, limits>>

\* TimerEntry.keyGo writes the new times and flags into the timer at once and
\* saves; finishedEdit then calls timeChanged, unless the sanity check finds a
\* conflict and the user has to settle that first.
Edit(w) ==
  /\ Request /\ NoScreen
  /\ w \in Known
  /\ \E p \in Spans, r \in Repeats :
       LET e == [entry[w] EXCEPT !.begin = p[1], !.end = p[2], !.repeated = r]
           s == [S EXCEPT !.entry[w] = e]
       IN  /\ saveTimer(s)
           /\ \/ timeChanged(w, e, Nothing) /\ UNCHANGED conflict
              \/ EditConflicts /\ conflict' = w /\ Settle(s, Nothing)
  /\ UNCHANGED dialog

\* TimerSanityConflict, toggleTimer1 and toggleTimer2: the timer the screen is open
\* for, or one it is in conflict with.  The screen closes, and opens again when the
\* check still finds a conflict.
ToggleConflicting(w) ==
  /\ Request /\ conflict # NoTimer
  /\ w \in Known \cup {conflict}
  /\ entry[w].disabled \/ entry[w].state # Running
  /\ timeChanged(w, [entry[w] EXCEPT !.disabled = ~@], Nothing)
  /\ UNCHANGED <<screens, saved>>

\* The same screen, editTimer1 and editTimer2: keyGo writes and saves, and only the
\* timer the screen is open for will see a timeChanged.
EditConflicting(w) ==
  /\ Request /\ conflict # NoTimer
  /\ w \in Known \cup {conflict}
  /\ \E p \in Spans, r \in Repeats :
       LET s == [S EXCEPT !.entry[w] = [@ EXCEPT !.begin = p[1], !.end = p[2],
                                                 !.repeated = r]]
       IN  saveTimer(s) /\ Settle(s, Nothing)
  /\ UNCHANGED screens

\* finishedEdit again, when the conflict screen is left
ResolveConflict ==
  /\ pc = "idle" /\ conflict # NoTimer /\ conflict' = NoTimer
  /\ \/ timeChanged(conflict, entry[conflict], Nothing)
     \/ Settle(Forget(S, NoTimer), Nothing)
  /\ UNCHANGED <<clocks, dialog, saved, limits>>

\* The program stops anywhere and starts again from timers.xml.
Restart ==
  /\ upsets > 0 /\ upsets' = upsets - 1
  /\ entry' = [w \in Timer |-> Blank]
  /\ timer_list' = <<>> /\ processed_timers' = Nobody /\ warped' = Nobody
  /\ lastActivation' = now /\ wait' = MaxWaitTime
  /\ pc' = "after" /\ after' = AfterLoad({w \in Timer : saved[w] # {}})
  /\ slack' = PassTime
  /\ dialog' = NoTimer /\ conflict' = NoTimer
  /\ UNCHANGED <<now, bound, saved, edits>>

Next ==
  \/ Tick \/ WarpBack \/ Poll \/ ReEvaluate \/ Iterate \/ PassDone \/ SaveAfter
  \/ RemoveAfter \/ ChangeAfter \/ LoadAfter \/ AnswerDialog \/ ResolveConflict
  \/ Cleanup \/ Restart
  \/ \E w \in Timer : Record(w) \/ RemoveEntry(w) \/ ToggleDisabled(w) \/ StopTimer(w)
                      \/ Edit(w) \/ ToggleConflicting(w) \/ EditConflicting(w)

Spec == Init /\ [][Next]_vars

\* The main loop runs, and time goes on.
MainLoop == \/ Poll \/ ReEvaluate \/ Iterate \/ PassDone
            \/ SaveAfter \/ RemoveAfter \/ ChangeAfter \/ LoadAfter
FairSpec == Spec /\ WF_vars(Tick) /\ WF_vars(MainLoop)

-----------------------------------------------------------------------------
TypeOK ==
  /\ now \in 0 .. MaxTime /\ lastActivation \in 0 .. MaxTime
  /\ wait \in 0 .. MaxWaitTime /\ bound \in 0 .. MaxTime /\ slack \in 0 .. PassTime
  /\ S \in Lists /\ warped \in [Timer -> Nat]
  /\ pc \in {"idle", "warp", "pass", "after", "error"} /\ after \in After
  /\ dialog \in Timer \cup {NoTimer} /\ conflict \in Timer \cup {NoTimer}
  /\ saved \in [Timer -> SUBSET [begin : Nat, end : Nat, repeated : SUBSET (0 .. Week - 1),
                                 disabled : BOOLEAN]]
  /\ upsets \in 0 .. MaxUpsets /\ edits \in 0 .. MaxEdits

\* A timer is in one list only and once, the lists say which timers are over, and
\* one that is in neither has been given up, unless a screen still shows it, and
\* then it is over: no sequence of activations, edits and restarts loses or doubles
\* one.
ListsAgree ==
  pc # "error" =>
  /\ IsInjective(timer_list)
  /\ \A w \in Timer :
       /\ processed_timers[w] + warped[w] <= 1
       /\ w \in ToSet(timer_list) => w \notin Over(processed_timers) /\ entry[w].state < Ended
       /\ w \in Over(processed_timers) => entry[w].state = Ended
       /\ \/ w \in Known \/ w \in Over(warped)
          \/ w # conflict /\ entry[w] = Blank
          \/ w = conflict /\ entry[w].state = Ended

\* A record service (and the tuner with it) is held exactly while its timer is
\* prepared or running: whatever ends a timer gives the service back, a removal
\* of a prepared or running one included.
HasService(w, e) ==
  e.record_service # "none" <=> w \notin ZapOnly /\ e.state \in {Prepared, Running}
ServiceHeld == \A w \in Timer : HasService(w, entry[w])

\* removeEntry and doActivate take the timer out of the list they believe it to
\* be in; list.remove raises when it is not there.
NoValueError == pc # "error"

\* When a pass is over, nothing that was due is left in the list: the loop stops
\* at the first entry that lies in the future, so the order of the list decides.
NothingDueLeft ==
  [][PassDone => \A w \in ToSet(timer_list) : getNextActivation(entry[w]) > bound]_vars

\* A poll that finds the clock set back gives every processed timer another
\* chance: only those stay processed that are disabled or over even now.
WarpReenqueues ==
  [][pc = "warp" /\ pc' = "pass" =>
       \A w \in Over(processed_timers) : entry[w].disabled \/ entry[w].end <= now]_vars

\* A recording that was started stops, whatever other timers do meanwhile.
ServiceReleased ==
  \A w \in Timer : entry[w].record_service = "recording"
                     ~> entry[w].record_service = "none"

-----------------------------------------------------------------------------
(* The inductive invariant.                                                 *)

\* Timers are taken out of both lists in a re-evaluation only, and are over then.
WarpKept ==
  /\ \A w \in Over(warped) : /\ pc \in {"warp", "error"} /\ entry[w].state = Ended
                             /\ w \notin ToSet(timer_list)
  /\ pc = "warp" =>
       \A w \in Over(processed_timers) : entry[w].disabled \/ entry[w].end <= now

\* A handler that has something left to do has not returned.
HandlerKept == /\ pc = "idle" => after = Nothing
               /\ pc = "pass" => bound <= now

\* A timer that repeats and is not disabled goes on for ever, whatever passes do:
\* the one a dialog is open for, and the one whose event the answer has stopped.
GoesOn(s, w) == w \in ToSet(s.list) /\ s.entry[w].repeated # {} /\ ~s.entry[w].disabled
DialogKept ==
  pc # "error" =>
  /\ dialog # NoTimer => after = Nothing /\ conflict = NoTimer /\ GoesOn(S, dialog)
  /\ after.op = "change" => GoesOn(S, after.timer)

\* What is still to be loaded is in no list.
LoadKept ==
  \A w \in after.timers : w \notin Known /\ w \notin Over(warped)

\* The list is in the order of the activations, unless an edit changed one of
\* them behind its back.
Sorted(list, when) ==
  \A i, j \in DOMAIN list : i < j => when[list[i]] <= when[list[j]]
SortedKept ==
  ~EditConflicts => conflict = NoTimer
                    /\ (pc # "error" => Sorted(timer_list, Activation(entry)))

\* The timer that is being removed was ended when the handler began.  It is due
\* until it is over, and then the lists keep it until the handler takes it out.
RemovalKept ==
  after.op = "remove" /\ pc # "error" /\ ~EditConflicts /\ PassTime < KeepTime =>
  LET w == after.timer
  IN  /\ w \in Timer /\ entry[w].repeated = {}
      /\ entry[w].end <= now /\ now + slack <= entry[w].end + PassTime
      /\ \/ w \in Over(processed_timers)
         \/ w \in Over(warped)
         \/ /\ w \in ToSet(timer_list) /\ pc \in {"warp", "pass"}
            /\ entry[w].cancelled /\ entry[w].state \in {Prepared, Running}
            /\ pc = "pass" => /\ getNextActivation(entry[w]) <= bound
                              /\ entry[w].end <= bound
            /\ pc = "warp" => getNextActivation(entry[w]) <= now

NoErrorKept == ~EditConflicts /\ PassTime < KeepTime => NoValueError

IInv ==
  /\ TypeOK /\ ListsAgree /\ ServiceHeld /\ WarpKept /\ HandlerKept /\ DialogKept
  /\ LoadKept /\ SortedKept /\ RemovalKept /\ NoErrorKept

-----------------------------------------------------------------------------
(* What comments and tests of the repository say, and the code does not do. *)

\* tests/test_timer.py:72: "repeated timer time of day does not match"
TimeOfDayKept ==
  \A w \in Known : entry[w].repeated # {} /\ entry[w].state = Waiting =>
    \E s \in Spans : entry[w].begin % Day = s[1] % Day
=============================================================================
