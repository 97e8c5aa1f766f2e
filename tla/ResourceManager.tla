---------------------------- MODULE ResourceManager ----------------------------
(***************************************************************************)
(* eDVBResourceManager and eDVBChannel (lib/dvb/dvb.cpp), the tuners they    *)
(* share out and the handlers (eDVBServicePMTHandler) and raw clients that   *)
(* ask for them.  All of it runs on the main thread.                         *)
(*                                                                          *)
(* A channel lives while something refers to it: the manager's cache, the    *)
(* m_channel of a client, the SDT scan of a handler (each an eUsePtr, which  *)
(* counts as a use) or the connection of a handler to its state changes (an  *)
(* eConnection, which does not).  It holds a frontend as long as it lives.   *)
(*                                                                          *)
(* Left out: tuners on a Unicable, whose closing is a matter of two steps.   *)
(***************************************************************************)
EXTENDS Integers, FiniteSets, FiniteSetsExt

CONSTANTS
  Client,      \* handlers and raw clients
  NFrontends,  \* the tuners, in the order of m_frontend
  ChannelId,
  Object,      \* identities of eDVBChannel objects
  SecState,    \* what canTune reads of switches, rotors and setup
  Score,       \* Score[s][S][id][f]: isCompatibleWith, when s is what canTune reads and
               \* just those of S are not in use; 0 for all when id is not in the list
  NextLinked,  \* NextLinked[f]: the frontends that follow f in the chain of linked ones
  SatposDepends,  \* SatposDepends[f]: the frontend that shares a rotor with f, or None
  None

Frontend == 1 .. NFrontends

ASSUME PoolAssumption ==
  /\ NFrontends \in Nat /\ None \notin Frontend \cup ChannelId \cup Object
  /\ Score \in [SecState -> [SUBSET Frontend -> [ChannelId -> [Frontend -> Nat]]]]
  /\ SecState # {}
  /\ NextLinked \in [Frontend -> SUBSET Frontend]
  /\ SatposDepends \in [Frontend -> Frontend \cup {None}]

\* There is always an identity left for another channel, and "raw" stands for
\* the id that the channel of a raw client does not have.
ASSUME IdentityAssumption ==
  /\ IsFiniteSet(Client)
  /\ IsFiniteSet(Object) => Cardinality(Object) > Cardinality(Client)
  /\ "raw" \notin ChannelId \cup {None}

VARIABLES
  cached,    \* m_cached_channel
  watched,   \* the channels whose m_stateChanged calls DVBChannelStateChanged
  timer,     \* m_releaseCachedChannelTimer is active
  chan,      \* [Client -> the channel in its m_channel]
  scan,      \* [Client -> the channel of its m_dvb_scan]
  conn,      \* [Client -> the channel of its m_channelStateChanged_connection]
  st,        \* [Object -> m_state]; "none": no such object
  fe,        \* [Object -> the frontend it holds]
  cid,       \* [Object -> m_channel_id]
  fe_state,  \* [Frontend -> m_state]
  disable,   \* [Frontend -> its disable timer is active]
  sec        \* the state of switches, rotors and setup

manager == <<cached, watched, timer>>
clients == <<chan, scan, conn>>
channels == <<st, fe, cid>>
tuners == <<fe_state, disable, sec>>
vars == <<manager, clients, channels, tuners>>

ChannelState == {"idle", "tuning", "failed", "unavailable", "ok", "last_instance", "release"}
FrontendState == {"closed", "idle", "tuning", "lock", "lost", "failed"}

Init ==
  /\ cached = None /\ watched = {} /\ timer = FALSE
  /\ chan = [c \in Client |-> None] /\ scan = chan /\ conn = chan
  /\ st = [o \in Object |-> "none"]
  /\ fe = [o \in Object |-> None] /\ cid = fe
  /\ fe_state = [f \in Frontend |-> "closed"] /\ disable = [f \in Frontend |-> FALSE]
  /\ sec \in SecState

(***************************************************************************)
(* References and what follows from them.                                   *)
(***************************************************************************)
m_use_count(o) == Cardinality({c \in Client : chan[c] = o})
                  + Cardinality({c \in Client : scan[c] = o})
                  + IF cached = o THEN 1 ELSE 0

Referenced(o) == cached = o \/ \E c \in Client : o \in {chan[c], scan[c], conn[c]}

m_inuse(f) == Cardinality({o \in Object : fe[o] = f})
Free(f) == m_inuse(f) = 0

(* [slip] The last use ends a channel, whoever is connected to it. *)
StateAfter_Uses(o) ==
  IF m_use_count(o)' = 0 /\ m_use_count(o) > 0 THEN "none" ELSE st[o]

(* AddUse and ReleaseUse: the state a channel is left in, given the pointers *)
(* before and after a step. *)
StateAfter(o) ==
  LET before == m_use_count(o)
      after == m_use_count(o)'
  IN CASE ~Referenced(o)' -> "none"
       [] Referenced(o)' /\ after < before /\ after = 0 -> "release"
       [] Referenced(o)' /\ after < before /\ after = 1 -> "last_instance"
       [] Referenced(o)' /\ after > before /\ after > 1 /\ st[o] = "last_instance" -> "ok"
       [] OTHER -> st[o]

(* DVBChannelStateChanged, called for the channels in "listening". *)
TimerAfter(listening, active) ==
  LET Down(o, n) == m_use_count(o) > n /\ m_use_count(o)' = n
      Up(o) == st[o] = "last_instance" /\ StateAfter(o) = "ok"
  IN IF \E o \in listening : Down(o, 1) THEN TRUE
     ELSE active /\ ~\E o \in listening : Down(o, 0) \/ Up(o)

(* dec_use at the end of a channel: its frontend is to be closed in 3 s. *)
DisableAfter(f) == disable[f] \/ (~Free(f) /\ \A o \in Object : fe[o] = f => ~Referenced(o)')

(* The pointers have changed: what becomes of the channels, "new" among them, *)
(* and of the frontends, of which those in "tried" were taken and let go.     *)
Settle(new, tried, listening, active) ==
  LET Left(o, x) == IF Referenced(o)' THEN x ELSE None
  IN /\ st' = [o \in Object |-> IF o = new.o THEN new.st ELSE StateAfter(o)]
     /\ fe' = [o \in Object |-> IF o = new.o THEN new.fe ELSE Left(o, fe[o])]
     /\ cid' = [o \in Object |-> IF o = new.o THEN new.id ELSE Left(o, cid[o])]
     /\ watched' = {o \in listening : Referenced(o)'}
     /\ timer' = TimerAfter(listening, active)
     /\ disable' = [f \in Frontend |-> f \in tried \/ DisableAfter(f)]

Nothing == [o |-> None, st |-> "none", fe |-> None, id |-> None]
SettleOld(listening, active) == Settle(Nothing, {}, listening, active)

Opened(f) == IF fe_state[f] = "closed" THEN "idle" ELSE fe_state[f]

(***************************************************************************)
(* Allocation.                                                              *)
(***************************************************************************)
(* isCompatibleWith, while those of S are not in use: a linked tuner in use, or *)
(* one that shares a rotor, may rule a channel out. *)
IsCompatibleWith(id, f, S) == Score[sec][S][id][f]

(* allocateFrontend: of the frontends S that are not in use, the first with the *)
(* best score. *)
AllocateFrontend(id, S) ==
  LET fit == {f \in S : IsCompatibleWith(id, f, S) > 0}
      best == {f \in fit : \A g \in fit : IsCompatibleWith(id, g, S) <= IsCompatibleWith(id, f, S)}
  IN IF best = {} THEN None ELSE Min(best)

(* [slip] A frontend in use is taken. *)
FreeUncached_Any == Frontend

(* Every allocation first takes the cached channel from the cache, unless it *)
(* is the one wanted; a channel only the cache refers to ends there. *)
OutlivesCache(o) == o # cached \/ \E c \in Client : o \in {chan[c], scan[c], conn[c]}
FreeUncached == {f \in Frontend : \A o \in Object : fe[o] = f => ~OutlivesCache(o)}
TimerUncached == timer /\ cached = None

New == CHOOSE o \in Object : st[o] = "none"

Attach(c, o) == /\ chan' = [chan EXCEPT ![c] = o]
                /\ scan' = [scan EXCEPT ![c] = o]
                /\ conn' = [conn EXCEPT ![c] = o]

IsCached(id) == cached # None /\ cid[cached] = id

(* [slip] allocateChannel does not look for a channel to share. *)
Active_None(id) == {}

Active(id) == {o \in Object : cid[o] = id}

UseCached(c, id) ==
  /\ IsCached(id)
  /\ UNCHANGED <<cached, fe_state, sec>>
  /\ Attach(c, cached)
  /\ SettleOld(watched, timer)

UseShared(c, id) ==
  /\ ~IsCached(id)
  /\ \E o \in Active(id) :
       /\ cached' = None
       /\ Attach(c, o)
       /\ SettleOld(watched \ {cached}, TimerUncached)
  /\ UNCHANGED <<fe_state, sec>>

(* A new channel is tuned, given to the client and put into the cache; when *)
(* the frontend refuses to tune, the channel is dropped again at once. *)
UseNew(c, id, tunes) ==
  /\ ~IsCached(id) /\ Active(id) = {}
  /\ LET f == AllocateFrontend(id, FreeUncached)
         new == [o |-> New, st |-> "tuning", fe |-> f, id |-> id]
     IN /\ f # None
        /\ sec' \in SecState
        /\ IF tunes
           THEN /\ cached' = New
                /\ Attach(c, New)
                /\ Settle(new, {}, (watched \ {cached}) \cup {New}, TimerUncached)
                /\ fe_state' = [fe_state EXCEPT ![f] = "tuning"]
           ELSE /\ cached' = None
                /\ UNCHANGED clients
                /\ Settle(Nothing, {f}, watched \ {cached}, TimerUncached)
                /\ fe_state' = [fe_state EXCEPT ![f] = Opened(f)]

NoneLeft(c, id) ==
  /\ ~IsCached(id) /\ Active(id) = {}
  /\ AllocateFrontend(id, FreeUncached) = None
  /\ cached' = None
  /\ UNCHANGED <<clients, fe_state, sec>>
  /\ SettleOld(watched \ {cached}, TimerUncached)

(* allocateChannel, called by the tuneExt of a handler, which then connects *)
(* to the channel and starts a scan on it. *)
Tune(c, id, tunes) ==
  /\ chan[c] = None /\ conn[c] = None
  /\ \/ UseCached(c, id)
     \/ UseShared(c, id)
     \/ UseNew(c, id, tunes)
     \/ NoneLeft(c, id)

(* allocateRawChannel for the frontend of a slot; the one that shares its rotor, *)
(* or else none that is linked to it, may be in use either.  The channel has no  *)
(* id and is neither listed nor cached. *)
Linked(f) == NextLinked[f] \cup {g \in Frontend : f \in NextLinked[g]}
Wanted(f) == {f} \cup IF SatposDepends[f] # None THEN {SatposDepends[f]} ELSE Linked(f)

AllocateRawChannel(c, f) ==
  /\ chan[c] = None /\ conn[c] = None
  /\ cached' = None
  /\ UNCHANGED <<scan, conn, sec>>
  /\ IF Wanted(f) \subseteq FreeUncached
     THEN /\ chan' = [chan EXCEPT ![c] = New]
          /\ Settle([o |-> New, st |-> "idle", fe |-> f, id |-> None], {},
                    watched \ {cached}, TimerUncached)
          /\ fe_state' = [fe_state EXCEPT ![f] = Opened(f)]
     ELSE /\ UNCHANGED <<chan, fe_state>>
          /\ SettleOld(watched \ {cached}, TimerUncached)

(* allocatePVRChannel: the channel of a recording has no frontend, so only *)
(* what happens to the cache is of interest here. *)
AllocatePVRChannel ==
  /\ cached # None /\ timer
  /\ cached' = None
  /\ UNCHANGED <<clients, fe_state, sec>>
  /\ SettleOld(watched \ {cached}, FALSE)

(* releaseCachedChannel, after 3 s: the connection stays. *)
ReleaseCachedChannel ==
  /\ timer
  /\ cached' = None
  /\ UNCHANGED <<clients, fe_state, sec>>
  /\ SettleOld(watched, FALSE)

(* [slip] The use of the cache is forgotten. *)
LoneUse_Uncached(o) == m_use_count(o) = 2

(* canAllocateChannel(id, ignore): may a client have the channel, when the  *)
(* one that is about to let go of "ignore" has done so?  A handler and its   *)
(* scan are two uses, the cache is a third. *)
LoneUse(o) == m_use_count(o) = IF o = cached THEN 3 ELSE 2

(* [slip] The cached channel that nobody uses is taken for one in use. *)
Spare_Cached(ignore) ==
  {o \in Object : ignore # None /\ cid[o] = ignore /\ LoneUse(o)}

Spare(ignore) ==
  {o \in Object : \/ ignore # None /\ cid[o] = ignore /\ LoneUse(o)
                  \/ o = cached /\ m_use_count(o) = 1}

FreeSpared(ignore) == {f \in Frontend : \A o \in Object : fe[o] = f => o \in Spare(ignore)}

CanAllocateChannel(id, ignore) ==
  \/ IsCached(id) \/ Active(id) # {}
  \/ \E f \in FreeSpared(ignore) : IsCompatibleWith(id, f, FreeSpared(ignore)) > 0

(***************************************************************************)
(* The clients let go.                                                      *)
(***************************************************************************)
(* free() of a handler whose service is stopped: the connection stays. *)
StopHandler(c) ==
  /\ scan[c] # None
  /\ chan' = [chan EXCEPT ![c] = None] /\ scan' = [scan EXCEPT ![c] = None]
  /\ UNCHANGED <<conn, cached, fe_state, sec>>
  /\ SettleOld(watched, timer)

(* The end of a handler or of a raw client's pointer. *)
Destroy(c) ==
  /\ {chan[c], conn[c]} # {None}
  /\ chan' = [chan EXCEPT ![c] = None] /\ scan' = [scan EXCEPT ![c] = None]
  /\ conn' = [conn EXCEPT ![c] = None]
  /\ UNCHANGED <<cached, fe_state, sec>>
  /\ SettleOld(watched, timer)

(***************************************************************************)
(* The frontends.                                                           *)
(***************************************************************************)
(* tuneLoop goes on with the commands to switches and rotors, or the setup is  *)
(* changed. *)
SecChanges == sec' \in SecState
              /\ UNCHANGED <<manager, clients, channels, fe_state, disable>>

(* frontendStateChanged: frontend f has gone to "state", its channel, if it  *)
(* has one that is not shut down, to "ours".                                 *)
FrontendStateChanged(f, state, ours) ==
  LET told == {o \in Object : fe[o] = f /\ st[o] \notin {"release", ours}}
  IN /\ fe_state' = [fe_state EXCEPT ![f] = state]
     /\ st' = [o \in Object |-> IF o \in told THEN ours ELSE st[o]]
     /\ timer' = (timer /\ ~(ours = "ok" /\ told \cap watched # {}))
     /\ UNCHANGED <<cached, watched, clients, fe, cid, disable>>

Managed(f) == \E o \in Object : fe[o] = f /\ cid[o] # None /\ st[o] # "release"

Lock(f) == /\ fe_state[f] \in {"tuning", "lost", "failed"} /\ FrontendStateChanged(f, "lock", "ok")
           /\ UNCHANGED sec

(* A managed channel tunes again at once.  What is known of the switches is     *)
(* forgotten, here and at a timeout. *)
LoseLock(f) ==
  /\ fe_state[f] = "lock" /\ sec' \in SecState
  /\ IF Managed(f) THEN FrontendStateChanged(f, "tuning", "tuning")
                   ELSE FrontendStateChanged(f, "lost", "unavailable")

TuneTimeout(f) ==
  /\ fe_state[f] = "tuning" /\ sec' \in SecState
  /\ FrontendStateChanged(f, IF Managed(f) THEN "tuning" ELSE "failed", "failed")

TuneRaw(c) == /\ chan[c] # None /\ cid[chan[c]] = None
              /\ sec' \in SecState
              /\ FrontendStateChanged(fe[chan[c]], "tuning", "tuning")

(* closeFrontend: busy, and tried again in 60 s, while a frontend that gets *)
(* its voltage through this one is in use. *)
Busy(f) == fe_state[f] # "idle" /\ \E g \in NextLinked[f] : ~Free(g)

(* [slip] A busy frontend is not tried again. *)
CloseFrontend_Once(f) ==
  /\ disable[f]
  /\ LET close == Free(f) /\ fe_state[f] # "closed"
     IN /\ disable' = [disable EXCEPT ![f] = FALSE]
        /\ fe_state' = [fe_state EXCEPT ![f] = IF close /\ ~Busy(f) THEN "closed" ELSE @]
  /\ UNCHANGED <<manager, clients, channels, sec>>

CloseFrontend(f) ==
  /\ disable[f]
  /\ LET close == Free(f) /\ fe_state[f] # "closed"
     IN /\ disable' = [disable EXCEPT ![f] = close /\ Busy(f)]
        /\ fe_state' = [fe_state EXCEPT ![f] = IF close /\ ~Busy(f) THEN "closed" ELSE @]
  /\ UNCHANGED <<manager, clients, channels, sec>>

Next ==
  \/ \E c \in Client, id \in ChannelId, tunes \in BOOLEAN : Tune(c, id, tunes)
  \/ \E c \in Client, f \in Frontend : AllocateRawChannel(c, f)
  \/ \E c \in Client : StopHandler(c) \/ Destroy(c) \/ TuneRaw(c)
  \/ AllocatePVRChannel \/ ReleaseCachedChannel \/ SecChanges
  \/ \E f \in Frontend : Lock(f) \/ LoseLock(f) \/ TuneTimeout(f) \/ CloseFrontend(f)

Spec == Init /\ [][Next]_vars
FairSpec == Spec /\ \A f \in Frontend : WF_vars(CloseFrontend(f))
--------------------------------------------------------------------------------
(* The types of the variables, and that exactly the channels something refers *)
(* to exist. *)
TypeOK ==
  /\ cached \in Object \cup {None} /\ watched \subseteq Object /\ timer \in BOOLEAN
  /\ \A p \in {chan, scan, conn} : p \in [Client -> Object \cup {None}]
  /\ st \in [Object -> ChannelState \cup {"none"}]
  /\ fe \in [Object -> Frontend \cup {None}] /\ cid \in [Object -> ChannelId \cup {None}]
  /\ fe_state \in [Frontend -> FrontendState] /\ disable \in [Frontend -> BOOLEAN]
  /\ sec \in SecState
  /\ \A o \in Object : /\ Referenced(o) <=> st[o] # "none"
                       /\ Referenced(o) <=> fe[o] # None

(* No frontend is ever in the hands of two channels, and no channel is tuned *)
(* twice: allocateChannel and allocateRawChannel look at m_inuse only after   *)
(* the cache has let go, and share before they allocate. *)
Exclusive ==
  \A o, p \in Object : o # p =>
     /\ fe[o] # None => fe[o] # fe[p]
     /\ cid[o] # None => cid[o] # cid[p]

(* A handler refers to one channel, by all three pointers until its service is *)
(* stopped and by the connection from then on; the channel of a connection has *)
(* an id. *)
OnePerClient ==
  \A c \in Client :
     /\ scan[c] # None => chan[c] = scan[c] /\ conn[c] = scan[c]
     /\ chan[c] # None /\ conn[c] # None => chan[c] = conn[c]
     /\ conn[c] # None => cid[conn[c]] # None

(* A channel with an id holds a frontend that can receive it, if switches and *)
(* other tuners allow it. *)
CanReceive(id, f) ==
  \E s \in SecState, S \in SUBSET Frontend : f \in S /\ Score[s][S][id][f] > 0
WellTuned == \A o \in Object : cid[o] # None => fe[o] # None /\ CanReceive(cid[o], fe[o])

(* The inductive invariant. *)
IInv == TypeOK /\ Exclusive /\ OnePerClient /\ WellTuned

(* What the manager promises its clients: see TunerPool. *)
Pool == INSTANCE TunerPool WITH
  Raw <- "raw",
  serves <- [f \in Frontend |->
               IF Free(f) THEN None
               ELSE LET o == CHOOSE p \in Object : fe[p] = f
                    IN IF cid[o] = None THEN "raw" ELSE cid[o]],
  user <- [c \in Client |-> IF chan[c] = None THEN None ELSE fe[chan[c]]]

PoolPromise == Pool!Spec

(* A handler whose service was stopped and that somebody still holds on to    *)
(* keeps the frontend; canAllocateChannel does not know of it. *)
NoStoppedHandlerKept == \A c \in Client : conn[c] # None => chan[c] # None

(* canAllocateChannel, which counts the uses by itself and lowers m_inuse for *)
(* a moment, and allocateChannel, which drops the cache, agree. *)
AsAnnounced ==
  [][\A c \in Client, id \in ChannelId :
       Tune(c, id, TRUE) /\ NoStoppedHandlerKept
         => (chan'[c] # None <=> CanAllocateChannel(id, None))]_vars

(* A zap: what is announced while the running service is to be ignored is     *)
(* what can be had once its handler is gone, no more and no less, for each     *)
(* channel but the one that goes.  That one is announced because it is there;  *)
(* with its tuner free again, and a linked one in use, canTune may refuse it.  *)
ZapAsAnnounced ==
  [][\A c \in Client :
       Destroy(c) /\ scan[c] # None /\ NoStoppedHandlerKept
         => \A id \in ChannelId \ {cid[chan[c]]} :
              CanAllocateChannel(id, cid[chan[c]]) <=> CanAllocateChannel(id, None)']_vars

(* An unused frontend is closed in the end, also when it was busy because a   *)
(* linked one needed its voltage at the time it was to be closed. *)
FrontendCloses ==
  \A f \in Frontend :
    []<>(fe_state[f] = "closed" \/ ~Free(f) \/ \E g \in NextLinked[f] : ~Free(g))
===============================================================================
