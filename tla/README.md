# openpliPC in TLA+

openpliPC is enigma2, the software of a set-top box, on a PC: it tunes, records on a timer, plays
recordings and live streams through a copy of xine-lib, and draws a user interface from Python.
This directory models the parts where order matters: timers, threads, message queues, the main
loop, who has which tuner, recordings, and the byte stream between a file and the decoder.

Paths below are relative to `src/enigma2/` unless they begin with `xine-lib`.

## The system

One process. A *main loop* (`lib/base/ebase.cpp`, wrapped by the Python reactor) runs almost
everything: timers, file descriptor callbacks, all Python. *Threads* do what blocks (copying
files, deleting files, the EPG cache, decoding pictures, xine). They talk to the main loop through
*message pumps*, and are started and joined through *thread objects*.

| Component | State | Operations | Interacts with | What makes it correct |
|---|---|---|---|---|
| Recording timers (`timer.py`, `RecordTimer.py`) | two sorted lists, the entries, the last activation, timers.xml | record, removeEntry, timeChanged, doActivate, poll, load, save | eTimer, record services, screens | no timer is lost or doubled; a service is held exactly while its timer is prepared or running; nothing due is left waiting; every recording ends |
| Timer screens (`lib/python/Screens/TimerEdit.py`, `TimerEntry.py`, `MovieSelection.py`) | an open dialog, a half-done edit | toggle, edit, stop, answer | calls into the timers, from callbacks that come later | an answer is about the event it was asked for |
| Thread objects (`lib/base/thread.cpp`, `elock.cpp`) | a semaphore, alive and started flags, the handle | run, sync, kill, hasStarted, thread_completed | every thread of the program | run waits for the initialisation, kill for the very end; sync never hangs or aborts |
| Message pumps (`lib/base/message.h`, `message.cpp`) | a queue, a lock, a pipe | send, do_recv | threads to main loop and back | FIFO, each message once, none stranded, no deadlock with the mutex of the user |
| File playback thread (`lib/base/filepush.cpp`) | a buffer, a position, a span, the stop flag | thread, start, stop, pause, resume, flush | the channel, the FIFO of the decoder | no gap and no repetition; nothing of before a seek after it; stop returns |
| DVB channel (`lib/dvb/dvb.cpp`) | frontend, use counts, cue sheet, the playback thread | setChannel, playSource, stopSource, seek, getNextSourceSpan | resource manager, frontend, services | spans follow the cue sheet; a channel goes idle when its last user does |
| DVB resource manager (`lib/dvb/dvb.cpp`) | frontends, demuxes, active and cached channels | allocateChannel, canAllocateChannel, release timer | channels, services | no frontend serves two channels; a cached channel is given up when it stands in the way; what is announced can be had; an unused tuner is closed |
| File eraser (`lib/components/file_eraser.cpp`) | a loop of its own, an idle timer, the pump | erase, gotMessage, idle, destructor | the trash can | a thread that starts deletes something; the destructor returns and leaves no thread |
| Main loop (`lib/base/ebase.cpp`) | a sorted list of timers, a map of notifiers by descriptor, the notifier being served | iterate, processOneEvent, start and stop of timers and notifiers | every callback | the map is right whatever callbacks do; none is called for a file that has nothing to read; descriptors are served however busy the timers are |
| Recorder (`lib/dvb/demux.cpp`, `rawfile.cpp`) | a source descriptor, PIDs, its thread, parsers | start, stop, addPID, removePID, write errors | record service | its thread writes only while its file is open |
| Record service (`lib/service/servicedvbrecord.cpp`) | prepared, tuned, wanted, recording | prepare, start, stop, events | channel, recorder, timers | what is wanted is recorded, with the PIDs of now, in whatever order tuner and tables come; a write error ends it |
| Playback services (`servicedvb.cpp`, `servicexine.cpp`) | timeshift, cue list, the decoder | start, stop, seek, timeshift | channel, xine | timeshift follows the live stream |
| PMT handler, scan (`pmt.cpp`, `scan.cpp`) | tables under way | events of tables and channels | channel, demux | every branch ends in an event |
| Frontend, dish control (`frontend.cpp`, `sec.cpp`) | a tuner, a command sequence | tune, timeouts, rotor | hardware | a sequence is not run with stale parameters |
| EPG cache (`epgcache.cpp`) | maps by time and by event | update, lookup, save | its own thread | the two maps agree |
| xine-lib (`xine-lib/src/xine-engine`) | buffer FIFOs, demux and decoder threads, clocks | open, play, stop, flush | playback service | flush and stop do not lose a control buffer |
| CI stack, transport stream tools, navigation, jobs, sleep timer, tuner configuration, storage, GUI, plugins | | | | see `PROJECT.json` |

What is hard to test here: a step of the main thread between two steps of a thread that starts,
ends, blocks or is signalled; data read before a seek and written after it; a screen that is
answered minutes after it was opened; a list kept sorted by values that change in place; a clock
that jumps; the end of the program in the middle of a recording. `PROJECT.json` lists every such
place under "hazards", at its line.

## The modules

| Module | Models |
|---|---|
| `RecordTimer` | timers, lists, clock, timers.xml, screens |
| `RecordTimer_proofs` | theorems about it |
| `EThread` | one thread object, its thread and its owner |
| `EThread_proofs` | theorems about it |
| `MessageChannel` | abstract: what a pump promises, a FIFO channel |
| `FixedMessagePump` | `eFixedMessagePump`; refines `MessageChannel` |
| `FixedMessagePump_proofs` | theorems about it, the refinement included |
| `FilePush` | playback; composes `EThread` with the file, the FIFO and the channel |
| `FilePush_proofs` | theorems about it, on those about `EThread` |
| `FileEraser` | the eraser; composes `EThread`, `MessageChannel` and the main loop |
| `FileEraser_proofs` | theorems about it, on those about `EThread` |
| `TunerPool` | abstract: what the resource manager promises its clients |
| `ResourceManager` | `eDVBResourceManager`, `eDVBChannel`, the tuners; refines `TunerPool` |
| `ResourceManager_proofs` | theorems about it, the refinement included |
| `RecordService` | `eDVBServiceRecord`, `eDVBTSRecorder` and the thread of that |
| `RecordService_proofs` | theorems about it |
| `MainLoop` | `eMainloop`, `eTimer`, `eSocketNotifier` |
| `MainLoop_proofs` | theorems about it |
| `MC...` | instances for TLC |

Operators marked `[slip]` are deliberate mistakes in the operator that follows them. They are no
part of a specification; each shows that some property would notice the mistake.

**RecordTimer.** `entry[w]` holds the fields of a RecordTimerEntry. `timer_list` is the list of
that name; `processed_timers` counts how often each timer is in that one, whose order nobody uses.
All of it is one thread, but handlers are not atomic: `processActivation` activates one entry
after the other while the clock runs, and the handler that started the pass has work left when it
is over. So one step is one iteration of that loop (`Iterate`), or of the re-evaluation after a
time warp that comes before it (`ReEvaluate`, with what is still to be re-evaluated in `warped`);
`pc` says where the recalculation is and `after` what the handler still has to do (`SaveAfter`,
`RemoveAfter`, `ChangeAfter`, `LoadAfter`). While a handler runs the clock goes on by at most
`PassTime` ticks; `slack` is what is left of them. `addTimerEntry`, `timeChanged`, `insort` and
the rest are operators on the triple of entries and lists, named as in the code; `insort` is the
binary search, so that what an unsorted list does to it is modelled. The nested recalculation that
`addTimerEntry` starts inside a pass is the same pass with a later bound, which is what the nested
loop comes to, as the outer one finds nothing left to do. A timer that left both lists is as good
as a new one (`Forget`), unless the conflict screen still shows it: leaving that screen calls
`timeChanged` for a timer that may be over and in no list. While it is open the screen may disable
and enable timers (`ToggleConflicting`) and edit them (`EditConflicting`), the one it was opened
for or another; an edit there writes the new times and timers.xml, but does not call
`timeChanged`. A timer loaded from timers.xml is clamped as the constructor does. The sanity
check, `recordService`, `prepare` and `start` succeed or fail freely. `Restart` may happen
anywhere, and loads what was last saved.

**EThread.** The owner's calls are cut where the thread can get in between: before each operation
on the semaphore and each access to `m_alive` and `m_started`. `run()` is `Run`, a `sync()`,
`Down`, `SetAlive`, `SetNotStarted`, `Join`, `Create` and a `sync()` again, where `sync()` is
`SyncDown`, `SyncRead`, `SyncUp`; the end of the thread is `Finish`, `NotAlive`, `Recover`,
perhaps `HasStarted` and `Up`, `Finished`. `create_failed` is history, and the only excuse of
`SyncReturns`: as long as no `pthread_create` has failed `sync()` returns. `program = "dead"`
stands for a failed ASSERT or for `eFatal`; ASSERT is compiled in for debug builds only, but the
`eFatal` in `sync()` always is. After a failed check no further step is taken. `OwnerJoins` says
whether the owner calls `kill()` before it calls `run()` again.

**FixedMessagePump.** `Begin`, `Lock`, `Push` and `Write` are `send()`, with the lock given up
between `Push` and `Write`; `Read`, `RecvLock`, `Pop`, `Deliver` are `do_recv()`. Senders in
`Sharing` hold a mutex of the application during `send()` that the handler takes too, the case
that the comment in `do_recv()` is about.

**FilePush.** Data are offsets into the file, so that gaps and repetitions can be told. The kernel
copies byte after byte (`CopyByte`), and a signal may end a `write()` between two of them. A read
may fail (`ReadError`), which in stream mode does not end the thread but leaves it as short of
data as the end of the file does. The main thread seeks (`Seek`, then pause, flush and resume) or
closes (`StopSource`, `Delete`). Modelled is playback in stream mode of a file without cue spans
and skip mode. `due`, `cut` and `failed` are history, read by properties only. `Thread` is its
thread object, for an owner that does not join (a thread that has ended is not joined before
`run()`, but inside it); `JoinedThread` is the same object as `EThread` describes it for one that
does.

**FileEraser.** The thread object of `EThread` with `OwnerJoins = FALSE`, as `erase()` never
joins; messages travel through `MessageChannel`, where a message counts as sent when its byte is
in the pipe (`FixedMessagePump` shows that the pump is such a channel). `Iterate`, `Take` and
`PollEnds` are one turn of the loop: timers first, then poll. `unlink` may fail, which is only
logged, and then the file stays. A name sent to a thread that is about to leave its loop waits in
the pipe for the next one, which may never come (`Stranded`); `SentIsTaken` says that this is the
only way for a name not to be taken up.

**ResourceManager.** Who refers to a channel is state: the cache (`cached`), the `m_channel`, the
scan and the connection of each client (`chan`, `scan`, `conn`). Use counts, whether a channel
lives, and what `AddUse`, `ReleaseUse` and `DVBChannelStateChanged` do are functions of the
pointers before and after a step: `StateAfter`, `TimerAfter`, `DisableAfter`, put together in
`Settle`. One step is one call from outside, with all it changes. A connection keeps a channel
alive but does not count as a use, which is why a stopped handler that somebody still holds keeps
a tuner that `canAllocateChannel` takes for free (`NoStoppedHandlerKept`). `Score` stands for
`isCompatibleWith`, and depends on what `canTune` of `sec.cpp` looks at: which tuners are in use,
and how switches and rotors stand (`sec`, which changes while a tuner tunes or loses its lock,
`SecChanges`). `NextLinked` are the tuners a tuner gives its voltage to, `SatposDepends` the one
that shares a rotor with a tuner. Where `canAllocateChannel` lowers `m_inuse` for a moment,
`FreeSpared` are the tuners that then count as free. `TunerPool` knows tuners and users only; a
channel kept by the cache or by a connection is one of its free tuners that still `serves`
something, which may be given up at any moment.

**RecordService.** Service and recorder run on the main thread, the thread of the recorder between
any two of their steps; `stop()` is cut where it joins that thread (`Stop`, then `Stopped` for a
write error or `Dropped` for the owner, who drops the service at once). `doRecord` is one operator
with its three ways out; a device that does not open, a file that does not open and a missing
demux are free choices. So is whether the device takes a request to add or to remove a PID
(`AskDevice`), as the recorder goes on with the PID if not. A failed read ends the thread without
a word (`ReadFails`, `tpc = "unread"`); otherwise it leaves its loop when it was told to stop
(`EndLoop`) or after a failed write. `wanted` and `start_failed` are history, read by properties
only; `refused` are the PIDs of which the device refused the last request.

**MainLoop.** `pc` says where in `iterate` the thread is; while it is in a callback (`timer`,
`fd`) or in Python (`app`), `Operation` does up to `MaxOps` things: start and stop timers, create,
start, stop and drop notifiers, read. Two notifiers may have one descriptor number, one after the
other, which is what closing and opening files does. `reg` is the map and the three states of a
notifier; `reg.fatal` stands for the ASSERT and the eFatal. The clock is `due`, counted from now.
What interrupts `poll()` from Python, and `interruptPoll` and `quit`, show as places where
`iterate` may return.

## What the runs show

| Run | Bounds | Shows |
|---|---|---|
| `timers` | 2 timers, times 0..5, a day of 4 ticks and a week of 2 days, 2 requests, 1 restart or step back of the clock, at most 1 tick while a handler runs | `IInv`, `ListsAgree`, `ServiceHeld`, `NoValueError`, `NothingDueLeft`, `WarpReenqueues` |
| `timers_live` | 2 timers, once, times 0..3, 3 requests, edits that a conflict holds up and edits of the other timer meanwhile, 1 restart or step back of the clock | `ServiceReleased` |
| `timers_time_of_day` | 1 timer | a disagreement, below |
| `pump` | 2 senders (1 sharing its mutex), 2 messages, 2 sends each, a pipe of 3 bytes | `IInv`, `NeverEmptyHanded`, refinement of `MessageChannel`, safety and liveness |
| `thread` | none: the state space is finite | `IInv`, `RunWaits`, `KillWaits`, `SyncReturns`, `CancelReturns` |
| `playback` | 5 bytes in packets of 2, spans of 4, a FIFO of 3, 2 seeks, reads and writes that fail | `IInv`, `BufferExclusive`, `Contiguous`, `SeekComesFirst`, `StopReturns`, `AllPlayed` |
| `playback_signal` | the same, decoder may be paused | a disagreement, below |
| `eraser` | 2 files, 4 calls of `erase()` | `IInv`, `GoneForGood`, `DestructorReturns`, `SentIsTaken` |
| `eraser_restart` | the same | a disagreement, below |
| `resources` | 2 clients, 2 channels, 2 tuners, the first giving the second its voltage, 2 states of the switches, 3 channel objects | `IInv`, `Exclusive`, refinement of `TunerPool`, `AsAnnounced`, `ZapAsAnnounced`, `FrontendCloses` |
| `recording` | 2 PIDs, each refused or not; otherwise the state space is finite | `IInv`, `WritesToItsFile`, `WantedIsRecorded`, `ErrorEndsRecording` |
| `mainloop` | 2 timers with delays 0 and 1, at most 1 tick late, 3 notifiers on 2 numbers, 2 operations a callback | `TypeOK`, `IInv`, `NoStaleActivation`, `ReadyServed` |

Why the bounds are enough: two timers are the fewest that can be in the wrong order or collide in
one pass, and five ticks let one of them be prepared, run, end and come back on a later day; a
FIFO that is smaller than a buffer and holds a broken packet makes writes both block and split; a
file that is no whole number of packets has a tail; two seeks queue up behind each other; a thread
that is started twice meets its own end. The first tuner receives one channel, the second that one
too, and better, and the other; while one tuner is in use the other receives only what the
switches are set for. So a client, the cache and the other client come into each other's way over
a tuner and over what is linked to it. A third object is needed when a cached channel is on its
way out. No tuner of the run depends on another's rotor (`SatposDepends` is `None`); the theorems
leave that open. In `timers_live` handlers take no time (`PassTime = 0`; in `timers` they do),
which leaves the clock one value for every step of a handler; a timer is long or of no length. Two
PIDs let a program change by gaining one and by losing one. Two operations let a callback close
its file and open another; a third notifier is what there is left to serve after it. The pipe of
`pump` has room for the bytes of the sender that shares its mutex, as 64 KiB have in practice;
with a smaller pipe that sender and the handler wait for each other.

`AsAnnounced` and `ZapAsAnnounced` are about a client whose handlers are dropped when they are
stopped (`NoStoppedHandlerKept`); with a stopped handler kept alive both fail, and the code has no
provision for that. `ZapAsAnnounced` leaves out the channel to be ignored itself: it is announced
because it is there, and may be refused once it is gone (see below). `NoValueError` relies on
`KeepTime` (config.recording.keep_timers, days in the program) being longer than a handler takes
(`PassTime`); `NothingDueLeft` is checked without edits held up by a conflict, since those leave
the list unsorted (see below); `AllPlayed`, `StopReturns` and the liveness of the eraser except
the program that has died, which the runs `eraser_restart` and `playback` explain.

Deadlock is checked in `resources`, `recording` and `mainloop`. It is not where the system stops
by itself: the clock of the timers and the sends of the pump are bounded, playback ends when it is
closed, the eraser when it is destroyed, and `thread` once `pthread_create` has failed.

**Fairness.** Weak fairness for each thread: the operating system schedules it when it can go on.
A thread waiting for a lock of the pump gets it because the others stop sending. The clock goes
on, the main loop serves its timers. No fairness for users, for the file that grows, for threads
that decide to send, nor for a thread body to end unless it was cancelled. The decoder plays
(`WF(Decode)`) in `playback` and need not in `playback_signal`; a read that is tried again and
again succeeds at last (`SF(Read)` in `playback`), so the file is not broken. In `resources` only
the timers that close tuners are fair, as eTimers are; in `recording` the main loop handles
messages and gets out of `stop()`, a write returns, and a thread that was told to stop leaves its
loop; in `mainloop` the thread runs (`WF(LoopStep)`), which says also that callbacks return: they
may do up to `MaxOps` things but need not do any. The clock and the descriptors owe it nothing.

### Disagreements between the code and what it says

- `timers_time_of_day`: a failed start sets `begin = time() + backoff` (`RecordTimer.py:294`). A
  repeated timer computes its later events from that begin, so it starts late every day;
  `tests/test_timer.py:72` calls that an error.
- `playback_signal`: `filepush.cpp:352` says that one signal is enough. If it comes between the
  test of `m_stop` and `write()`, and the FIFO is full and stays so, `stop()` hangs.
- `eraser_restart`: `sync()` returns 0 as soon as `m_alive` is cleared, although
  `thread_completed` has not yet read `m_started`. A `run()` in between resets `m_started`, the
  old thread gives the semaphore on behalf of the new one, and the ASSERT of `thread.cpp:128`
  fails, or `sync()` ends in `eFatal`. `FilePush` has the same race after a write error, and only
  then: as long as no write has failed it joins (`JoinedSoFar`, the theorem `JoinsBeforeRun`).

Seen while modelling, and not a run of their own:

- Threads and pumps: after a failed `pthread_create` (`thread.cpp:65`) nobody gives the semaphore
  back and the next `sync()` hangs (`create_failed` in `EThread`).
- Timers: when `recordService` gives nothing (`RecordTimer.py:185`) the timer keeps an activation
  time that has passed and is activated again at once; an edit writes the new begin before the
  conflict is settled, so the list is not sorted meanwhile (`TimerEntry.py:280`); the dialog of
  `TimerEdit.py:97` offers to stop the current event, and when that is over by the time of the
  answer the coming one is activated (`TimerEdit.py:113`); an edit of another timer in the
  conflict screen (`TimerEdit.py:380`) writes its times, but `timeChanged` is called for the timer
  the screen was opened for only, so the other keeps its activation time and its place in the
  list.
- Playback: an interrupted write and a flush cut a packet in spite of `filepush.cpp:148`;
  `stopSource` closes a number it keeps (`dvb.cpp:1828`), and is called by `free()` and again by
  the destructor of the channel.
- Recording: `m_want_record` outlives a write error. The service is idle then, is prepared again
  by the next program information, and by the one after that removes its file and records anew,
  although the owner only notes the error (`RecordTimer.py:385`, a TODO). The result of
  `m_record->start()` is ignored (`servicedvbrecord.cpp:419`), a failed read ends the thread of a
  recorder without a word (`filepush.cpp:242`), and `stop()` between opening the file and the
  first program information leaves the file open. A PID the device refuses (`demux.cpp:726`) is
  reported on the console and counts as active from then on, so it is not tried again.
  `filterRecordData` of `demux.cpp:481` has two parameters and does not override the one of
  `eFilePushThread`, so no meta data are collected.
- Tuners: a lock event on a channel only the cache uses turns `state_last_instance` into
  `state_ok` and stops the release timer; the channel stays cached until somebody tunes.
  `canAllocateChannel` says yes to the channel that is to be ignored because it is active
  (`dvb.cpp:836`), without asking a tuner; when it has been given up, `canTune` may refuse it
  while a linked tuner is in use.
- Main loop: `interruptPoll` called from a timer callback is not looked at before `poll()` blocks
  (`ebase.cpp:366`); the limit of timers in a row allows one more than its comment says
  (`ebase.cpp:219`); a periodic timer with interval 0 would stay at the head of the list for good
  and keep the others waiting, though not the descriptors.

## What is proved

By TLAPS, for every value of the constants that satisfies the assumptions the modules name. These
say what the code takes for granted: sizes are positive and buffers hold whole packets
(`PushAssumption`); senders, timers and notifiers are finite (`PumpAssumption`, `LoopAssumption`);
there is a channel object to spare for every client (`IdentityAssumption`, as memory has); a timer
does not end before it begins and a day has a length (`TimerAssumption`).

- `RecordTimer_proofs`: `TimersInvariant` (`Spec => []IInv`), `ListsAlwaysAgree`,
  `ServiceAlwaysHeld`, `WarpAlwaysReenqueues`; `PassLeavesNothingDue` without edits held up by a
  conflict, as those leave the list unsorted (see above); `NeverAValueError` if besides a handler
  takes less time than processed timers are kept, as otherwise `cleanupDaily` may forget the timer
  that `removeEntry` is about to take out. None of these properties is inductive. A step may be
  anywhere in a handler, so the invariant says what every handler has left to do and what that
  finds: the re-evaluation after a time warp (`WarpKept`), a dialog and its answer (`DialogKept`),
  loading (`LoadKept`), a removal (`RemovalKept`). The proof collects in `Kept` what a handler
  hands over when it returns or starts a pass, shows once that `Settle`, `enqueue`, `doActivate`
  and `timeChanged` make it, and has then a short lemma for each action. Two parts carry most of
  the weight. `SortedKept`: `bisect` is a function defined by recursion over intervals, so that it
  has values at all is proved first, by well-founded induction over their length; then that it
  finds the place of `insort`, and that inserting there and removing keep a list sorted.
  `RemovalKept`: the timer that `removeEntry` has stopped ends now and is cancelled, so each of
  its activations is due and none starts it again; as the list is sorted the pass does not end
  before that timer is over; and while the handler runs the clock does not get far enough for it
  to be forgotten. That a repeated timer has a next event for `processRepeated` to find
  (`DaysAhead` takes the least of a set, which must not be empty) is a fact about remainders and
  proved too.
- `FixedMessagePump_proofs`: `PumpInvariant` (`Spec => []IInv`), `NeverEmpty` and `Refinement`
  (the pump implements `MessageChannel!Spec`). `NeverEmptyHanded` is not inductive: it needs the
  count of bytes, `BytesMatchMessages`, which says that every queued message has a byte in the
  pipe, in the hands of the reader, or about to be written by a sender that has given up the lock.
  The only step that can break the refinement is `Pop`, and there the count shows that the queue
  is not empty.
- `EThread_proofs`, whether or not `pthread_create` may fail. For any owner: `AliveTruthful` and
  `KillWaitsForThread`; what `m_alive` and `the_thread` say of the thread is right even where the
  semaphore is lost in a race. For an owner that joins (`OwnerJoins = TRUE`): `ThreadInvariant`,
  and from it `NeverFatal`, `RunWaitsForThread`. An ASSERT looks at the value of the semaphore;
  `SemaphoreKept` ties that value to who holds it, and `Places` says where owner and thread can be
  at the same time. The race of `eraser_restart` shows that the assumption is needed.
- `FilePush_proofs`: `PlaybackInvariant`, `BufferForOne`, `PlayedInOrder`, `SeeksFirst`. Every
  step is one of `EThread` or leaves the thread object alone, so `AliveTruthful` holds here, for
  an owner that does not join. With it `StopLeavesLoop` follows: `stop()` returns because
  `m_alive` is cleared, which only `run()` sets again, or because it has joined. `InOrder` says
  where the next byte comes from, `RequestsFirst` that after a flush there is nothing to write
  until the thread has taken the requests. Then, as long as no write has failed (`failed =
  "never"`): `JoinsBeforeRun` (every step is one `EThread` allows an owner that joins),
  `PlaybackNeverDead`, and `ImplementsJoined`, which makes the first a refinement where writes do
  not fail at all. The code joins only a thread that `sync()` found alive, so this needs that a
  thread nobody told to stop does not end (`StopJoins`): then `stop()` always joins, and `run()`
  finds no thread in the object. With that the induction of `EThread_proofs` for such an owner
  carries the semaphore along (`JoinedSoFar`), and `StopJoins` needs no more of it than where
  owner and thread can be at the same time. `eraser_restart` is what happens otherwise.
- `FileEraser_proofs`: `EraserInvariant`, `DestroyedForGood`, in the same way: `CallsMatch` says
  in which part of `EThread` each call of the eraser is.
- `ResourceManager_proofs`: `ManagerInvariant` (`Spec => []IInv`), `AlwaysExclusive`,
  `KeepsPromise` (the manager implements `TunerPool`), `AllocatesAsAnnounced`, `ZapsAsAnnounced`,
  for any clients, channels, tuners, links, and scores that depend in any way on the tuners in use
  and on switches and rotors. All actions are brought to one of six shapes (`Shapes`), so that
  what happens to the pointers is looked at once. Before anything is allocated the cache lets go,
  which can only take channels away; a tuner is taken only when no channel that outlives this
  holds it (`NewIsExclusive`). For the refinement, a tuner that nobody has taken over serves what
  it did or, when its channel is gone, nobody (`KeptUntilUnused`). The two about announcements
  compare counts of uses with pointers: who refers to a channel can be told from the number of
  those who do (`Counted`, `CacheIsCounted`, `HandlerIsCounted`), and so the tuners
  `canAllocateChannel` takes for free are those that `allocateChannel` finds free, with the same
  scores. `ZapsAsAnnounced` compares the states before and after the handler goes; the switches do
  not move in that step.
- `RecordService_proofs`: `ServiceInvariant`, `NeverElsewhere`, `WantedRecorded`, for any set of
  PIDs. `WritesToItsFile` needs that a recorder that runs belongs to a service that is recording
  and has its file open (`RecorderKept`), that there is a thread only with such a recorder
  (`ThreadKept`), and what is left when the main thread comes out of `stop()` (`IdleAfterError`).
  `WantedIsRecorded` says that the thread runs and that the device delivers the PIDs of the newest
  program information; it excepts a recorder that did not start, the PIDs the device refused, and
  a thread that ended after a failed read, or a failed write whose message is on its way. It needs
  what the device is told compared with what the service believes (`PidsKept`), and that each of
  `start()`, `eventTuned` and `eventNewProgramInfo` does the rest if it comes last
  (`LastOneRecords`).
- `MainLoop_proofs`: `SocketsConsistent` (`Spec => []IInv`), `NeverStale` (`Spec =>
  NoStaleActivation`) and `TimersSorted` (`Spec => []TypeOK`, the list of timers included), for
  any timers, notifiers and numbers and any operations of a callback. `MapAgrees` needs to know
  who refers to a notifier (`Referred`), that no two open files have one number (`OneFile`), and
  that the notifier being served has left `revents` (`Pass`). `FoundReady` carries the second
  theorem: a notifier whose state is 1 was in this poll, so its file is still the one `poll()`
  looked at, and its owner has not read it yet. The third rests on what insertion and removal do
  to a sorted sequence (`InsertKeeps`, `RemoveKeeps`).

Only model-checked: all liveness (`ServiceReleased`, `ChannelFairSpec`, `SyncReturns`,
`CancelReturns`, `StopReturns`, `AllPlayed`, `DestructorReturns`, `SentIsTaken`, `FrontendCloses`,
`ErrorEndsRecording`, `ReadyServed`), which needs fairness and is out of the prover's reach. Every
invariant, every action property and the safety part of every refinement of a passing run is also
a theorem; `RunWaits` is one for an owner that joins only, as the others do not keep it (TLC finds
a counterexample). What joining gives the playback has no counterpart for the eraser, whose thread
may end by itself at any time.

## What is not modelled

Instant recordings that extend themselves, justplay edits, what happens after a recording, the
sanity check's arithmetic, daylight saving, the date a repetition begins (`timer.py:69`), the
conflict screen of a timer that is being added, and in that screen timers that were forgotten
while it was open; the delayed close of a tuner on a single cable (`frontend.cpp:607`), the moment
a recorder outlives its service because it is in a callback (`demux.cpp:685`); cue spans and skip
mode, and the events from the playback thread to the main thread; demuxes and simulated tuners;
simulated recordings and the marks of a recording; `changeInterval` of timers, which nothing
calls; the tables of a service, taken as events that come or do not; and the components marked
`not_modelled` in `PROJECT.json`, with the reason: display, calls of external tools, hardware
absent on a PC, or later on the plan.

## Plan

Done so far, in the order of importance: timers, threads, pumps, playback, eraser; then tuners,
recording, main loop. What is left, each with a type invariant, safety first, then liveness:

1. `FilePush`: source spans and skip mode (`getNextSourceSpan`, an operator checked against a
   reference definition over bounded sheets) and the events to the main thread.
2. `RecordTimer`: justplay edits and self-extending recordings.
3. Proofs: safety of what is added in 1 and 2. (That `FileEraser` and `FilePush` take only steps
   of `EThread` is the lemma `StepsOfTheThread` of each, which their invariants rest on.)
4. `EPGCache`: the two maps and the lock between its thread and the main thread.
5. The demux of a channel and the raw pump.
