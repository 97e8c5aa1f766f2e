------------------------ MODULE ResourceManager_proofs ------------------------
(***************************************************************************)
(* Proofs about ResourceManager, for any clients, tuners, channels and      *)
(* scores: no tuner is given to two channels and no channel is tuned twice,   *)
(* the manager implements TunerPool, and canAllocateChannel tells the truth.  *)
(*                                                                          *)
(* Every action is brought to one of six shapes (Shapes) before anything is   *)
(* proved of it.                                                             *)
(***************************************************************************)
EXTENDS ResourceManager, TLAPS, WellFoundedInduction, FiniteSetTheorems

(* Every non-empty set of natural numbers has a least element.                 *)
LEMMA LeastOne == ASSUME NEW S \in SUBSET Nat, S # {} PROVE \E x \in S : \A y \in S : x <= y
<1>1. PICK x \in S : \A y \in S : ~ (<<y, x>> \in OpToRel(<, Nat))
  BY NatLessThanWellFounded, WFMin
<1>2. \A y \in S : x <= y
  <2> SUFFICES ASSUME NEW y \in S, y < x PROVE FALSE
    OBVIOUS
  <2>1. <<y, x>> \in {ss \in Nat \X Nat : ss[1] < ss[2]}
    OBVIOUS
  <2> QED
    BY <1>1, <2>1 DEF OpToRel
<1> QED
  BY <1>2

LEMMA MinInSet == ASSUME NEW S \in SUBSET Nat, S # {} PROVE Min(S) \in S
  BY LeastOne DEF Min

(* allocateFrontend takes a frontend that fits.                                *)
LEMMA AllocatedFits ==
  ASSUME NEW id \in ChannelId, NEW S \in SUBSET Frontend, AllocateFrontend(id, S) # None
  PROVE  /\ AllocateFrontend(id, S) \in S
         /\ IsCompatibleWith(id, AllocateFrontend(id, S), S) > 0
<1> DEFINE fit == {f \in S : IsCompatibleWith(id, f, S) > 0}
           best == {f \in fit : \A g \in fit :
                                IsCompatibleWith(id, g, S) <= IsCompatibleWith(id, f, S)}
<1>1. AllocateFrontend(id, S) = IF best = {} THEN None ELSE Min(best)
  BY DEF AllocateFrontend
<1>2. best \in SUBSET Nat
  <2>1. best \subseteq Frontend
    OBVIOUS
  <2>2. Frontend \subseteq Nat
    BY DEF Frontend
  <2> QED
    BY <2>1, <2>2
<1>3. best # {} => Min(best) \in best
  BY <1>2, MinInSet
<1> QED
  BY <1>1, <1>3

--------------------------------------------------------------------------------
(* What AddUse and ReleaseUse make of a channel: it is gone when nothing refers *)
(* to it, and one that was there stays.                                       *)
LEMMA StatesOfChannels ==
  ASSUME NEW o \in Object, st[o] \in ChannelState \cup {"none"},
         Referenced(o)' => st[o] # "none"
  PROVE  /\ StateAfter(o) \in ChannelState \cup {"none"}
         /\ Referenced(o)' <=> StateAfter(o) # "none"
  BY Zenon DEF StateAfter, ChannelState

(* While a client has nothing, there is an identity for the channel to come:    *)
(* every other client refers to one channel, and the cache to one.             *)
LEMMA NewIsThere ==
  ASSUME TypeOK, OnePerClient, NEW c \in Client, chan[c] = None, conn[c] = None
  PROVE  New \in Object /\ st[New] = "none"
<1> SUFFICES ASSUME \A o \in Object : Referenced(o) PROVE FALSE
  BY DEF New, TypeOK
<1> DEFINE Uncached == Object \ {cached}
           Others == Client \ {c}
           h == [o \in Uncached |-> CHOOSE d \in Client : o \in {chan[d], scan[d], conn[d]}]
<1>1. scan[c] = None
  BY DEF OnePerClient
<1>2. ASSUME NEW o \in Uncached
      PROVE  h[o] \in Others /\ o \in {chan[h[o]], scan[h[o]], conn[h[o]]}
  <2>1. \E d \in Client : o \in {chan[d], scan[d], conn[d]}
    BY <1>2 DEF Referenced
  <2>2. h[o] \in Client /\ o \in {chan[h[o]], scan[h[o]], conn[h[o]]}
    BY <2>1
  <2> QED
    BY <2>2, <1>1, PoolAssumption
<1>3. ASSUME NEW o \in Uncached, NEW p \in Uncached, h[o] = h[p] PROVE o = p
  <2>1. o # None /\ p # None
    BY PoolAssumption
  <2> HIDE DEF h
  <2> QED
    BY <1>2, <1>3, <2>1 DEF OnePerClient
<1>4. h \in Injection(Uncached, Others)
  BY <1>2, <1>3 DEF Injection, IsInjective
<1>5. IsFiniteSet(Others) /\ Cardinality(Others) = Cardinality(Client) - 1
  BY IdentityAssumption, FS_RemoveElement
<1>6. IsFiniteSet(Uncached) /\ Cardinality(Uncached) <= Cardinality(Client) - 1
  BY <1>4, <1>5, FS_Injection
<1>7. IsFiniteSet(Uncached \cup {cached})
      /\ Cardinality(Uncached \cup {cached}) <= Cardinality(Client)
  <2>1. cached \notin Uncached
    OBVIOUS
  <2> HIDE DEF Uncached
  <2>2. Cardinality(Uncached) \in Nat /\ Cardinality(Client) \in Nat
    BY <1>6, FS_CardinalityType, IdentityAssumption
  <2>3. /\ IsFiniteSet(Uncached \cup {cached})
        /\ Cardinality(Uncached \cup {cached}) = Cardinality(Uncached) + 1
    BY <1>6, <2>1, FS_AddElement, Zenon
  <2> QED
    BY <1>6, <2>2, <2>3
<1>8. IsFiniteSet(Object) /\ Cardinality(Object) <= Cardinality(Client)
  <2>1. Object \in SUBSET (Uncached \cup {cached})
    OBVIOUS
  <2> QED
    BY <1>7, <2>1, FS_Subset, FS_CardinalityType, IdentityAssumption
<1> QED
  BY <1>8, IdentityAssumption, FS_CardinalityType

(* What an allocation puts in the place of an identity that is not used.       *)
Created(new) == /\ \E o \in Object : o = new.o /\ Referenced(o)'
                /\ new.st \in ChannelState /\ new.fe \in Frontend
                /\ new.id \in ChannelId \cup {None}

LEMMA SettleTypes ==
  ASSUME TypeOK, NEW new, new = Nothing \/ Created(new),
         NEW tried, NEW listening \in SUBSET Object, NEW active \in BOOLEAN,
         Settle(new, tried, listening, active),
         \A o \in Object : o # new.o /\ Referenced(o)' => Referenced(o),
         cached' \in Object \cup {None}, fe_state' \in [Frontend -> FrontendState],
         sec' \in SecState,
         chan' \in [Client -> Object \cup {None}], scan' \in [Client -> Object \cup {None}],
         conn' \in [Client -> Object \cup {None}]
  PROVE  TypeOK'
<1>1. ASSUME NEW o \in Object
      PROVE  /\ st'[o] \in ChannelState \cup {"none"}
             /\ fe'[o] \in Frontend \cup {None} /\ cid'[o] \in ChannelId \cup {None}
             /\ Referenced(o)' <=> st'[o] # "none"
             /\ Referenced(o)' <=> fe'[o] # None
  <2>1. CASE o = new.o
    <3>1. Created(new)
      BY <2>1, PoolAssumption DEF Nothing
    <3>2. st'[o] = new.st /\ fe'[o] = new.fe /\ cid'[o] = new.id
      BY <2>1 DEF Settle
    <3> QED
      BY <2>1, <3>1, <3>2, PoolAssumption DEF Created, ChannelState
  <2>2. CASE o # new.o
    <3>1. /\ st'[o] = StateAfter(o)
          /\ fe'[o] = IF Referenced(o)' THEN fe[o] ELSE None
          /\ cid'[o] = IF Referenced(o)' THEN cid[o] ELSE None
      BY <2>2 DEF Settle
    <3>2. Referenced(o)' => st[o] # "none" /\ fe[o] # None
      BY <2>2 DEF TypeOK
    <3>3. st[o] \in ChannelState \cup {"none"}
      BY DEF TypeOK
    <3> QED
      BY <3>1, <3>2, <3>3, StatesOfChannels DEF TypeOK
  <2> QED
    BY <2>1, <2>2
<1>2. /\ st' \in [Object -> ChannelState \cup {"none"}]
      /\ fe' \in [Object -> Frontend \cup {None}] /\ cid' \in [Object -> ChannelId \cup {None}]
  <2>1. /\ st' = [o \in Object |-> st'[o]] /\ fe' = [o \in Object |-> fe'[o]]
        /\ cid' = [o \in Object |-> cid'[o]]
    BY DEF Settle
  <2> QED
    BY <1>1, <2>1
<1>3. watched' \subseteq Object
  BY DEF Settle
<1>4. timer' \in BOOLEAN
  BY DEF Settle, TimerAfter
<1>5. disable' \in [Frontend -> BOOLEAN]
  BY DEF Settle
<1> QED
  BY <1>1, <1>2, <1>3, <1>4, <1>5 DEF TypeOK

--------------------------------------------------------------------------------
(***************************************************************************)
(* Next has many actions, which do to the pointers and the channels one of   *)
(* six things.                                                              *)
(***************************************************************************)
Settled(new) ==
  \E tried \in SUBSET Frontend, listening \in SUBSET Object, active \in BOOLEAN :
     Settle(new, tried, listening, active)

\* A client joins a channel that is there: the cached one or one in use.
Joins(c, id, o) ==
  /\ chan[c] = None /\ conn[c] = None
  /\ cid[o] = id /\ Referenced(o)
  /\ cached' \in {cached, None} /\ Attach(c, o) /\ Settled(Nothing)

\* A client gets a new channel, which is cached, too.
GetsNew(c, id, f, n) ==
  /\ chan[c] = None /\ conn[c] = None /\ st[n] = "none"
  /\ Active(id) = {} /\ f \in FreeUncached
  /\ IsCompatibleWith(id, f, FreeUncached) > 0
  /\ cached' = n /\ Attach(c, n)
  /\ Settled([o |-> n, st |-> "tuning", fe |-> f, id |-> id])

\* A client gets a new channel without an id.
GetsRaw(c, f, n) ==
  /\ chan[c] = None /\ conn[c] = None /\ st[n] = "none"
  /\ f \in FreeUncached
  /\ cached' = None /\ chan' = [chan EXCEPT ![c] = n] /\ UNCHANGED <<scan, conn>>
  /\ Settled([o |-> n, st |-> "idle", fe |-> f, id |-> None])

\* The cache lets go.
Uncaches == cached' = None /\ UNCHANGED clients /\ Settled(Nothing)

\* A client lets go.
LetsGo(c) ==
  /\ chan' = [chan EXCEPT ![c] = None] /\ scan' = [scan EXCEPT ![c] = None]
  /\ conn' = conn \/ conn' = [conn EXCEPT ![c] = None]
  /\ UNCHANGED cached /\ Settled(Nothing)

\* Only the states of channels and frontends change.
FrontendMoves ==
  \/ \E f \in Frontend, state \in FrontendState, ours \in ChannelState :
       FrontendStateChanged(f, state, ours)
  \/ \E f \in Frontend : CloseFrontend(f)
  \/ SecChanges
  \/ UNCHANGED vars

LEMMA MovesOnlyStates == FrontendMoves => UNCHANGED <<cached, watched, clients, fe, cid>>
  BY DEF FrontendMoves, FrontendStateChanged, CloseFrontend, SecChanges, vars, manager, channels

LEMMA TuneShapes ==
  ASSUME TypeOK, OnePerClient, NEW c \in Client, NEW id \in ChannelId, NEW tunes \in BOOLEAN,
         Tune(c, id, tunes), WellTuned
  PROVE  \/ \E o \in Object : Joins(c, id, o)
         \/ \E f \in Frontend, n \in Object : GetsNew(c, id, f, n)
         \/ Uncaches
<1>1. /\ chan[c] = None /\ conn[c] = None
      /\ watched \in SUBSET Object /\ watched \ {cached} \in SUBSET Object
      /\ timer \in BOOLEAN /\ TimerUncached \in BOOLEAN /\ {} \in SUBSET Frontend
  BY DEF Tune, TypeOK, TimerUncached
<1>2. CASE UseCached(c, id)
  <2>1. cached \in Object /\ Referenced(cached)
    BY <1>2 DEF UseCached, IsCached, TypeOK, Referenced
  <2>2. Settled(Nothing)
    BY <1>1, <1>2 DEF UseCached, SettleOld, Settled
  <2> QED
    BY <1>1, <1>2, <2>1, <2>2 DEF UseCached, IsCached, Joins
<1>3. CASE UseShared(c, id)
  <2>1. PICK o \in Active(id) : Attach(c, o) /\ SettleOld(watched \ {cached}, TimerUncached)
    BY <1>3 DEF UseShared
  <2>2. Settled(Nothing)
    BY <1>1, <2>1 DEF SettleOld, Settled
  <2>3. o \in Object /\ cid[o] = id /\ Referenced(o)
    BY <2>1, PoolAssumption DEF Active, WellTuned, TypeOK
  <2> QED
    BY <1>1, <1>3, <2>1, <2>2, <2>3 DEF UseShared, Joins
<1>4. CASE UseNew(c, id, tunes) /\ tunes
  <2> DEFINE f == AllocateFrontend(id, FreeUncached)
  <2>1. /\ f # None /\ Active(id) = {} /\ cached' = New /\ Attach(c, New)
        /\ Settle([o |-> New, st |-> "tuning", fe |-> f, id |-> id], {},
                  (watched \ {cached}) \cup {New}, TimerUncached)
    BY <1>4 DEF UseNew
  <2>2. FreeUncached \in SUBSET Frontend
    BY DEF FreeUncached
  <2>3. /\ f \in FreeUncached /\ f \in Frontend
        /\ IsCompatibleWith(id, f, FreeUncached) > 0
    BY <2>1, <2>2, AllocatedFits
  <2>4. (watched \ {cached}) \cup {New} \in SUBSET Object
    BY <1>1, NewIsThere
  <2> HIDE DEF f
  <2>5. Settled([o |-> New, st |-> "tuning", fe |-> f, id |-> id])
    BY <1>1, <2>1, <2>4 DEF Settled
  <2>6. GetsNew(c, id, f, New)
    BY <1>1, <2>1, <2>3, <2>5, NewIsThere DEF GetsNew
  <2> QED
    BY <1>1, <2>3, <2>6, NewIsThere
<1>5. CASE UseNew(c, id, tunes) /\ ~tunes
  <2> DEFINE f == AllocateFrontend(id, FreeUncached)
  <2>1. /\ f # None /\ cached' = None /\ UNCHANGED clients
        /\ Settle(Nothing, {f}, watched \ {cached}, TimerUncached)
    BY <1>5 DEF UseNew
  <2>2. FreeUncached \in SUBSET Frontend
    BY DEF FreeUncached
  <2>3. {f} \in SUBSET Frontend
    BY <2>1, <2>2, AllocatedFits
  <2> HIDE DEF f
  <2> QED
    BY <1>1, <2>1, <2>3 DEF Uncaches, Settled
<1>6. CASE NoneLeft(c, id)
  BY <1>1, <1>6 DEF NoneLeft, SettleOld, Uncaches, Settled
<1> QED
  BY <1>2, <1>3, <1>4, <1>5, <1>6 DEF Tune

LEMMA RawShapes ==
  ASSUME TypeOK, OnePerClient, NEW c \in Client, NEW f \in Frontend, AllocateRawChannel(c, f)
  PROVE  (\E n \in Object : GetsRaw(c, f, n)) \/ Uncaches
<1>1. /\ chan[c] = None /\ conn[c] = None /\ cached' = None
      /\ watched \ {cached} \in SUBSET Object /\ TimerUncached \in BOOLEAN
      /\ {} \in SUBSET Frontend
  BY DEF AllocateRawChannel, TypeOK, TimerUncached
<1>2. CASE Wanted(f) \subseteq FreeUncached
  <2>1. Settled([o |-> New, st |-> "idle", fe |-> f, id |-> None])
    BY <1>1, <1>2 DEF AllocateRawChannel, Settled
  <2>2. GetsRaw(c, f, New)
    BY <1>1, <1>2, <2>1, NewIsThere DEF AllocateRawChannel, Wanted, GetsRaw
  <2> QED
    BY <1>1, <2>2, NewIsThere
<1>3. CASE ~(Wanted(f) \subseteq FreeUncached)
  BY <1>1, <1>3 DEF AllocateRawChannel, Uncaches, clients, SettleOld, Settled
<1> QED
  BY <1>2, <1>3

LEMMA Shapes ==
  ASSUME TypeOK, OnePerClient, WellTuned, [Next]_vars
  PROVE  \/ \E c \in Client, id \in ChannelId, o \in Object : Joins(c, id, o)
         \/ \E c \in Client, id \in ChannelId, f \in Frontend, n \in Object :
              GetsNew(c, id, f, n)
         \/ \E c \in Client, f \in Frontend, n \in Object : GetsRaw(c, f, n)
         \/ Uncaches
         \/ \E c \in Client : LetsGo(c)
         \/ FrontendMoves
<1>1. ASSUME NEW c \in Client, NEW id \in ChannelId, NEW tunes \in BOOLEAN, Tune(c, id, tunes)
      PROVE  \/ \E o \in Object : Joins(c, id, o)
             \/ \E f \in Frontend, n \in Object : GetsNew(c, id, f, n)
             \/ Uncaches
  BY <1>1, TuneShapes
<1>2. ASSUME NEW c \in Client, NEW f \in Frontend, AllocateRawChannel(c, f)
      PROVE  (\E n \in Object : GetsRaw(c, f, n)) \/ Uncaches
  BY <1>2, RawShapes
<1>3. watched \in SUBSET Object /\ watched \ {cached} \in SUBSET Object /\ timer \in BOOLEAN
      /\ {} \in SUBSET Frontend
  BY DEF TypeOK
<1>4. ASSUME NEW c \in Client, StopHandler(c) PROVE LetsGo(c)
  BY <1>3, <1>4 DEF StopHandler, LetsGo, SettleOld, Settled
<1>5. ASSUME NEW c \in Client, Destroy(c) PROVE LetsGo(c)
  BY <1>3, <1>5 DEF Destroy, LetsGo, SettleOld, Settled
<1>6. CASE AllocatePVRChannel \/ ReleaseCachedChannel
  BY <1>3, <1>6 DEF AllocatePVRChannel, ReleaseCachedChannel, Uncaches, SettleOld, Settled
<1>7. ASSUME NEW c \in Client, TuneRaw(c) PROVE FrontendMoves
  <2>1. chan[c] \in Object /\ Referenced(chan[c])
    BY <1>7 DEF TuneRaw, TypeOK, Referenced
  <2>2. fe[chan[c]] \in Frontend
    BY <2>1 DEF TypeOK
  <2> QED
    BY <1>7, <2>2 DEF TuneRaw, FrontendMoves, FrontendState, ChannelState
<1>8. ASSUME NEW f \in Frontend, Lock(f) \/ LoseLock(f) \/ TuneTimeout(f) PROVE FrontendMoves
  <2>1. \E state \in FrontendState, ours \in ChannelState : FrontendStateChanged(f, state, ours)
    BY <1>8 DEF Lock, LoseLock, TuneTimeout, FrontendState, ChannelState
  <2> QED
    BY <2>1 DEF FrontendMoves
<1>9. ASSUME NEW f \in Frontend, CloseFrontend(f) PROVE FrontendMoves
  BY <1>9 DEF FrontendMoves
<1>10. CASE SecChanges \/ UNCHANGED vars
  BY <1>10 DEF FrontendMoves
<1> QED
  BY <1>1, <1>2, <1>4, <1>5, <1>6, <1>7, <1>8, <1>9, <1>10 DEF Next

--------------------------------------------------------------------------------
(* Frontends stay in the states the drivers know.                              *)
LEMMA FrontendsTyped ==
  TypeOK /\ [Next]_vars => fe_state' \in [Frontend -> FrontendState] /\ sec' \in SecState
<1> DEFINE Typed == fe_state' \in [Frontend -> FrontendState] /\ sec' \in SecState
<1> SUFFICES ASSUME TypeOK, [Next]_vars PROVE Typed
  OBVIOUS
<1>1. fe_state \in [Frontend -> FrontendState] /\ sec \in SecState
  BY DEF TypeOK
<1>2. ASSUME NEW c \in Client, NEW id \in ChannelId, NEW tunes \in BOOLEAN, Tune(c, id, tunes)
      PROVE  Typed
  BY <1>1, <1>2 DEF Tune, UseCached, UseShared, UseNew, NoneLeft, Opened, FrontendState
<1>3. ASSUME NEW c \in Client, NEW f \in Frontend, AllocateRawChannel(c, f) PROVE Typed
  BY <1>1, <1>3 DEF AllocateRawChannel, Opened, FrontendState
<1>4. ASSUME NEW c \in Client, StopHandler(c) \/ Destroy(c) PROVE Typed
  BY <1>1, <1>4 DEF StopHandler, Destroy
<1>5. ASSUME NEW c \in Client, TuneRaw(c) PROVE Typed
  BY <1>1, <1>5 DEF TuneRaw, FrontendStateChanged, FrontendState
<1>6. CASE AllocatePVRChannel \/ ReleaseCachedChannel
  BY <1>1, <1>6 DEF AllocatePVRChannel, ReleaseCachedChannel
<1>7. ASSUME NEW f \in Frontend, Lock(f) \/ LoseLock(f) \/ TuneTimeout(f) PROVE Typed
  BY <1>1, <1>7 DEF Lock, LoseLock, TuneTimeout, FrontendStateChanged, FrontendState
<1>8. ASSUME NEW f \in Frontend, CloseFrontend(f) PROVE Typed
  BY <1>1, <1>8 DEF CloseFrontend, FrontendState
<1>9. CASE SecChanges \/ UNCHANGED vars
  BY <1>1, <1>9 DEF SecChanges, vars, tuners
<1> QED
  BY <1>2, <1>3, <1>4, <1>5, <1>6, <1>7, <1>8, <1>9 DEF Next

(* A frontend that changes its state, or is closed, leaves the channels there.  *)
LEMMA StatesTyped ==
  ASSUME TypeOK, FrontendMoves, fe_state' \in [Frontend -> FrontendState], sec' \in SecState
  PROVE  TypeOK'
<1>1. ASSUME st' \in [Object -> ChannelState \cup {"none"}],
             \A o \in Object : st'[o] = "none" <=> st[o] = "none",
             timer' \in BOOLEAN, disable' \in [Frontend -> BOOLEAN]
      PROVE  TypeOK'
  <2>1. \A o \in Object : Referenced(o)' <=> Referenced(o)
    BY MovesOnlyStates DEF clients, Referenced
  <2> QED
    BY <1>1, <2>1, MovesOnlyStates DEF TypeOK, clients
<1>2. timer \in BOOLEAN /\ disable \in [Frontend -> BOOLEAN]
      /\ st \in [Object -> ChannelState \cup {"none"}]
  BY DEF TypeOK
<1>3. ASSUME NEW f \in Frontend, NEW state, NEW ours \in ChannelState,
             FrontendStateChanged(f, state, ours)
      PROVE  TypeOK'
  <2>1. /\ \A o \in Object : st'[o] = IF fe[o] = f /\ st[o] \notin {"release", ours}
                                    THEN ours ELSE st[o]
        /\ st' = [o \in Object |-> st'[o]]
        /\ timer' \in BOOLEAN /\ disable' = disable
    BY <1>2, <1>3 DEF FrontendStateChanged
  <2>2. \A o \in Object : fe[o] = f => st[o] # "none"
    BY PoolAssumption DEF TypeOK
  <2>3. "none" \notin ChannelState
    BY DEF ChannelState
  <2> QED
    BY <1>1, <1>2, <2>1, <2>2, <2>3
<1>4. ASSUME NEW f \in Frontend, CloseFrontend(f) PROVE TypeOK'
  BY <1>1, <1>2, <1>4 DEF CloseFrontend, manager, channels
<1>5. CASE SecChanges \/ UNCHANGED vars
  BY <1>1, <1>2, <1>5 DEF SecChanges, vars, manager, channels, tuners
<1> QED
  BY <1>3, <1>4, <1>5 DEF FrontendMoves

LEMMA TypesKept == TypeOK /\ OnePerClient /\ WellTuned /\ [Next]_vars => TypeOK'
<1> SUFFICES ASSUME TypeOK, OnePerClient, WellTuned, [Next]_vars PROVE TypeOK'
  OBVIOUS
<1>1. fe_state' \in [Frontend -> FrontendState] /\ sec' \in SecState
  BY FrontendsTyped
<1>2. /\ chan \in [Client -> Object \cup {None}] /\ scan \in [Client -> Object \cup {None}]
      /\ conn \in [Client -> Object \cup {None}] /\ cached \in Object \cup {None}
  BY DEF TypeOK
<1>3. Nothing = Nothing \/ Created(Nothing)
  OBVIOUS
<1>4. ASSUME NEW c \in Client, NEW id \in ChannelId, NEW o \in Object, Joins(c, id, o)
      PROVE  TypeOK'
  <2>1. \A p \in Object : Referenced(p)' => Referenced(p)
    BY <1>2, <1>4, PoolAssumption DEF Joins, Attach, Referenced
  <2>2. /\ chan' \in [Client -> Object \cup {None}] /\ scan' \in [Client -> Object \cup {None}]
        /\ conn' \in [Client -> Object \cup {None}] /\ cached' \in Object \cup {None}
    BY <1>2, <1>4 DEF Joins, Attach
  <2> QED
    BY <1>1, <1>4, <2>1, <2>2, SettleTypes DEF Joins, Settled
<1>5. CASE Uncaches
  <2>1. \A p \in Object : Referenced(p)' => Referenced(p)
    BY <1>2, <1>5, PoolAssumption DEF Uncaches, clients, Referenced
  <2>2. /\ chan' \in [Client -> Object \cup {None}] /\ scan' \in [Client -> Object \cup {None}]
        /\ conn' \in [Client -> Object \cup {None}] /\ cached' \in Object \cup {None}
    BY <1>2, <1>5 DEF Uncaches, clients
  <2> QED
    BY <1>1, <1>5, <2>1, <2>2, SettleTypes DEF Uncaches, Settled
<1>6. ASSUME NEW c \in Client, LetsGo(c) PROVE TypeOK'
  <2>1. \A p \in Object : Referenced(p)' => Referenced(p)
    BY <1>2, <1>6, PoolAssumption DEF LetsGo, Referenced
  <2>2. /\ chan' \in [Client -> Object \cup {None}] /\ scan' \in [Client -> Object \cup {None}]
        /\ conn' \in [Client -> Object \cup {None}] /\ cached' \in Object \cup {None}
    BY <1>2, <1>6 DEF LetsGo
  <2> QED
    BY <1>1, <1>6, <2>1, <2>2, SettleTypes DEF LetsGo, Settled
<1>7. ASSUME NEW c \in Client, NEW id \in ChannelId, NEW f \in Frontend, NEW n \in Object,
             GetsNew(c, id, f, n)
      PROVE  TypeOK'
  <2> DEFINE new == [o |-> n, st |-> "tuning", fe |-> f, id |-> id]
  <2>1. /\ chan' \in [Client -> Object \cup {None}] /\ scan' \in [Client -> Object \cup {None}]
        /\ conn' \in [Client -> Object \cup {None}] /\ cached' \in Object \cup {None}
    BY <1>2, <1>7 DEF GetsNew, Attach
  <2>2. \A p \in Object : p # n /\ Referenced(p)' => Referenced(p)
    BY <1>2, <1>7, PoolAssumption DEF GetsNew, Attach, Referenced
  <2>3. Created(new)
    BY <1>7 DEF GetsNew, Created, Referenced, ChannelState
  <2>4. Settled(new) /\ new.o = n
    BY <1>7 DEF GetsNew
  <2> HIDE DEF new
  <2> QED
    BY <1>1, <2>1, <2>2, <2>3, <2>4, SettleTypes DEF Settled
<1>8. ASSUME NEW c \in Client, NEW f \in Frontend, NEW n \in Object, GetsRaw(c, f, n)
      PROVE  TypeOK'
  <2> DEFINE new == [o |-> n, st |-> "idle", fe |-> f, id |-> None]
  <2>1. /\ chan' \in [Client -> Object \cup {None}] /\ scan' \in [Client -> Object \cup {None}]
        /\ conn' \in [Client -> Object \cup {None}] /\ cached' \in Object \cup {None}
    BY <1>2, <1>8 DEF GetsRaw
  <2>2. \A p \in Object : p # n /\ Referenced(p)' => Referenced(p)
    BY <1>2, <1>8, PoolAssumption DEF GetsRaw, Referenced
  <2>3. chan'[c] = n
    BY <1>2, <1>8 DEF GetsRaw
  <2>4. Created(new)
    BY <2>3 DEF Created, Referenced, ChannelState
  <2>5. Settled(new) /\ new.o = n
    BY <1>8 DEF GetsRaw
  <2> HIDE DEF new
  <2> QED
    BY <1>1, <2>1, <2>2, <2>4, <2>5, SettleTypes DEF Settled
<1>9. CASE FrontendMoves
  BY <1>1, <1>9, StatesTyped
<1> QED
  BY <1>4, <1>5, <1>6, <1>7, <1>8, <1>9, Shapes

--------------------------------------------------------------------------------
(* What a channel holds: the new one what it was given, the others what they    *)
(* had, for as long as something refers to them.                               *)
LEMMA Holdings ==
  ASSUME NEW new, Settled(new), NEW o \in Object
  PROVE  /\ fe'[o] = IF o = new.o THEN new.fe ELSE IF Referenced(o)' THEN fe[o] ELSE None
         /\ cid'[o] = IF o = new.o THEN new.id ELSE IF Referenced(o)' THEN cid[o] ELSE None
  BY DEF Settled, Settle

LEMMA OldHoldings ==
  ASSUME Settled(Nothing), NEW o \in Object
  PROVE  /\ fe'[o] = IF Referenced(o)' THEN fe[o] ELSE None
         /\ cid'[o] = IF Referenced(o)' THEN cid[o] ELSE None
  BY Holdings, PoolAssumption DEF Nothing

LEMMA WellTunedKept == TypeOK /\ OnePerClient /\ WellTuned /\ [Next]_vars => WellTuned'
<1> SUFFICES ASSUME TypeOK, OnePerClient, WellTuned, [Next]_vars PROVE WellTuned'
  OBVIOUS
<1>1. CASE Settled(Nothing)
  BY <1>1, OldHoldings DEF WellTuned
<1>2. ASSUME NEW c \in Client, NEW id \in ChannelId, NEW f \in Frontend, NEW n \in Object,
             GetsNew(c, id, f, n)
      PROVE  WellTuned'
  <2> DEFINE new == [o |-> n, st |-> "tuning", fe |-> f, id |-> id]
  <2>1. /\ Settled(new) /\ new.o = n /\ new.fe = f /\ new.id = id
        /\ f # None
    BY <1>2, PoolAssumption DEF GetsNew
  <2>2. CanReceive(id, f)
    <3>1. f \in FreeUncached /\ FreeUncached \in SUBSET Frontend /\ sec \in SecState
      BY <1>2 DEF GetsNew, FreeUncached, TypeOK
    <3> QED
      BY <1>2, <3>1 DEF GetsNew, IsCompatibleWith, CanReceive
  <2> HIDE DEF new
  <2> QED
    BY <2>1, <2>2, Holdings DEF WellTuned
<1>3. ASSUME NEW c \in Client, NEW f \in Frontend, NEW n \in Object, GetsRaw(c, f, n)
      PROVE  WellTuned'
  <2> DEFINE new == [o |-> n, st |-> "idle", fe |-> f, id |-> None]
  <2>1. Settled(new) /\ new.o = n /\ new.id = None
    BY <1>3 DEF GetsRaw
  <2> HIDE DEF new
  <2> QED
    BY <2>1, Holdings DEF WellTuned
<1>4. CASE FrontendMoves
  BY <1>4, MovesOnlyStates DEF WellTuned
<1> QED
  BY <1>1, <1>2, <1>3, <1>4, Shapes DEF Joins, Uncaches, LetsGo

(* Channels keep what they hold or lose it, but for the new one of an allocation, *)
(* which gets a frontend whose holder, the cached channel, ends in that step.    *)
LEMMA NewIsExclusive ==
  ASSUME Exclusive, NEW new, Settled(new), new.fe # None,
         \A o \in Object : o # new.o /\ fe[o] = new.fe => ~Referenced(o)',
         new.id # None => \A o \in Object : cid[o] # new.id
  PROVE  Exclusive'
  BY Holdings DEF Exclusive

(* A channel that only the cache refers to ends when the cache lets go.        *)
LEMMA EndsWithCache ==
  ASSUME TypeOK, NEW c \in Client, NEW n \in Object, NEW o \in Object, o # n,
         ~OutlivesCache(o), cached' # o, chan' = [chan EXCEPT ![c] = n],
         scan' = [scan EXCEPT ![c] = n] \/ scan' = scan,
         conn' = [conn EXCEPT ![c] = n] \/ conn' = conn
  PROVE  ~Referenced(o)'
  BY DEF TypeOK, OutlivesCache, Referenced

LEMMA ExclusiveKept == IInv /\ [Next]_vars => Exclusive'
<1> SUFFICES ASSUME TypeOK, Exclusive, OnePerClient, WellTuned, [Next]_vars PROVE Exclusive'
  BY DEF IInv
<1>1. CASE Settled(Nothing)
  BY <1>1, OldHoldings DEF Exclusive
<1>2. ASSUME NEW c \in Client, NEW id \in ChannelId, NEW f \in Frontend, NEW n \in Object,
             GetsNew(c, id, f, n)
      PROVE  Exclusive'
  <2> DEFINE new == [o |-> n, st |-> "tuning", fe |-> f, id |-> id]
  <2>1. /\ Settled(new) /\ new.o = n /\ new.fe = f /\ new.id = id /\ f # None
        /\ \A o \in Object : cid[o] # id
    BY <1>2, PoolAssumption DEF GetsNew, Active
  <2> HIDE DEF new
  <2>2. ASSUME NEW o \in Object, o # n, fe[o] = f PROVE ~Referenced(o)'
    BY <1>2, <2>2, EndsWithCache DEF GetsNew, Attach, FreeUncached
  <2> QED
    BY <2>1, <2>2, NewIsExclusive
<1>3. ASSUME NEW c \in Client, NEW f \in Frontend, NEW n \in Object, GetsRaw(c, f, n)
      PROVE  Exclusive'
  <2> DEFINE new == [o |-> n, st |-> "idle", fe |-> f, id |-> None]
  <2>1. Settled(new) /\ new.o = n /\ new.fe = f /\ new.id = None /\ f # None
    BY <1>3, PoolAssumption DEF GetsRaw
  <2> HIDE DEF new
  <2>2. ASSUME NEW o \in Object, o # n, fe[o] = f PROVE ~Referenced(o)'
    BY <1>3, <2>2, PoolAssumption, EndsWithCache DEF GetsRaw, FreeUncached
  <2> QED
    BY <2>1, <2>2, NewIsExclusive
<1>4. CASE FrontendMoves
  BY <1>4, MovesOnlyStates DEF Exclusive
<1> QED
  BY <1>1, <1>2, <1>3, <1>4, Shapes DEF Joins, Uncaches, LetsGo

LEMMA OnePerClientKept == TypeOK /\ OnePerClient /\ WellTuned /\ [Next]_vars => OnePerClient'
<1> SUFFICES ASSUME TypeOK, OnePerClient, WellTuned, [Next]_vars PROVE OnePerClient'
  OBVIOUS
<1>1. /\ chan \in [Client -> Object \cup {None}] /\ scan \in [Client -> Object \cup {None}]
      /\ conn \in [Client -> Object \cup {None}]
  BY DEF TypeOK
<1>2. ASSUME NEW new, Settled(new), NEW d \in Client, conn'[d] = conn[d], conn[d] # None,
             conn[d] # new.o
      PROVE  cid'[conn'[d]] # None
  <2>1. conn[d] \in Object
    BY <1>1, <1>2
  <2>2. PICK o \in Object : o = conn[d]
    BY <2>1
  <2>3. Referenced(o)'
    BY <1>2, <2>2 DEF Referenced
  <2>4. cid'[o] = cid[o]
    BY <1>2, <2>2, <2>3, Holdings
  <2> QED
    BY <1>2, <2>2, <2>4 DEF OnePerClient
<1>3. ASSUME NEW c \in Client, NEW id \in ChannelId, NEW o \in Object, Joins(c, id, o)
      PROVE  OnePerClient'
  <2>1. conn' = [conn EXCEPT ![c] = o] /\ chan' = [chan EXCEPT ![c] = o]
        /\ scan' = [scan EXCEPT ![c] = o] /\ Settled(Nothing) /\ cid[o] = id
    BY <1>3 DEF Joins, Attach
  <2>2. cid'[o] # None
    <3>1. Referenced(o)'
      BY <1>1, <2>1 DEF Referenced
    <3> QED
      BY <2>1, <3>1, OldHoldings, PoolAssumption
  <2>3. ASSUME NEW d \in Client, d # c, conn'[d] # None PROVE cid'[conn'[d]] # None
    <3>1. conn'[d] = conn[d] /\ conn[d] # Nothing.o
      BY <1>1, <2>1, <2>3 DEF Nothing
    <3> QED
      BY <1>2, <2>1, <2>3, <3>1
  <2> QED
    BY <1>1, <2>1, <2>2, <2>3 DEF OnePerClient
<1>4. ASSUME NEW c \in Client, NEW id \in ChannelId, NEW f \in Frontend, NEW n \in Object,
             GetsNew(c, id, f, n)
      PROVE  OnePerClient'
  <2> DEFINE new == [o |-> n, st |-> "tuning", fe |-> f, id |-> id]
  <2>1. conn' = [conn EXCEPT ![c] = n] /\ chan' = [chan EXCEPT ![c] = n]
        /\ scan' = [scan EXCEPT ![c] = n] /\ Settled(new) /\ new.o = n /\ new.id = id
    BY <1>4 DEF GetsNew, Attach
  <2> HIDE DEF new
  <2>2. ~Referenced(n)
    BY <1>4 DEF GetsNew, TypeOK
  <2>3. cid'[n] # None
    BY <2>1, Holdings, PoolAssumption
  <2>4. ASSUME NEW d \in Client, d # c, conn'[d] # None PROVE cid'[conn'[d]] # None
    <3>1. conn'[d] = conn[d] /\ conn[d] # new.o
      BY <1>1, <2>1, <2>2, <2>4 DEF Referenced
    <3> QED
      BY <1>2, <2>1, <2>4, <3>1
  <2> QED
    BY <1>1, <2>1, <2>3, <2>4 DEF OnePerClient
<1>5. ASSUME NEW c \in Client, NEW f \in Frontend, NEW n \in Object, GetsRaw(c, f, n)
      PROVE  OnePerClient'
  <2> DEFINE new == [o |-> n, st |-> "idle", fe |-> f, id |-> None]
  <2>1. conn' = conn /\ scan' = scan /\ chan' = [chan EXCEPT ![c] = n]
        /\ Settled(new) /\ new.o = n /\ chan[c] = None /\ conn[c] = None
    BY <1>5 DEF GetsRaw
  <2> HIDE DEF new
  <2>2. ~Referenced(n)
    BY <1>5 DEF GetsRaw, TypeOK
  <2>3. ASSUME NEW d \in Client, conn'[d] # None PROVE cid'[conn'[d]] # None
    <3>1. conn'[d] = conn[d] /\ conn[d] # new.o
      BY <2>1, <2>2, <2>3 DEF Referenced
    <3> QED
      BY <1>2, <2>1, <2>3, <3>1
  <2> QED
    BY <1>1, <2>1, <2>3 DEF OnePerClient
<1>6. CASE Uncaches
  <2>1. ASSUME NEW d \in Client, conn'[d] # None PROVE cid'[conn'[d]] # None
    <3>1. conn'[d] = conn[d] /\ conn[d] # Nothing.o /\ Settled(Nothing)
      BY <1>6, <2>1 DEF Uncaches, clients, Nothing
    <3> QED
      BY <1>2, <2>1, <3>1
  <2> QED
    BY <1>6, <2>1 DEF Uncaches, clients, OnePerClient
<1>7. ASSUME NEW c \in Client, LetsGo(c) PROVE OnePerClient'
  <2>1. ASSUME NEW d \in Client, conn'[d] # None PROVE cid'[conn'[d]] # None
    <3>1. conn'[d] = conn[d] /\ conn[d] # Nothing.o /\ Settled(Nothing)
      BY <1>1, <1>7, <2>1 DEF LetsGo, Nothing
    <3> QED
      BY <1>2, <2>1, <3>1
  <2> QED
    BY <1>1, <1>7, <2>1 DEF LetsGo, OnePerClient
<1>8. CASE FrontendMoves
  BY <1>8, MovesOnlyStates DEF OnePerClient, clients
<1> QED
  BY <1>3, <1>4, <1>5, <1>6, <1>7, <1>8, Shapes

--------------------------------------------------------------------------------
(* The manager starts with no channel.                                        *)
THEOREM Initially == Init => IInv
<1> SUFFICES ASSUME Init PROVE IInv
  OBVIOUS
<1>1. TypeOK
  BY PoolAssumption DEF Init, TypeOK, Referenced, ChannelState, FrontendState
<1>2. Exclusive /\ OnePerClient /\ WellTuned
  BY DEF Init, Exclusive, OnePerClient, WellTuned
<1> QED
  BY <1>1, <1>2 DEF IInv

(* No step leaves the invariant.                                               *)
THEOREM Inductive == IInv /\ [Next]_vars => IInv'
  BY TypesKept, ExclusiveKept, OnePerClientKept, WellTunedKept DEF IInv

(* The inductive invariant holds in every reachable state.                     *)
THEOREM ManagerInvariant == Spec => []IInv
  BY Initially, Inductive, PTL DEF Spec

(* No frontend is in the hands of two channels, and no channel is tuned twice. *)
THEOREM AlwaysExclusive == Spec => []Exclusive
<1>1. IInv => Exclusive
  BY DEF IInv
<1> QED
  BY ManagerInvariant, <1>1, PTL

--------------------------------------------------------------------------------
(***************************************************************************)
(* The manager implements TunerPool.                                        *)
(***************************************************************************)
\* The values of the abstract variables, by the channel that holds a frontend.
Serves(f) == IF Free(f) THEN None
             ELSE LET o == CHOOSE p \in Object : fe[p] = f
                  IN IF cid[o] = None THEN "raw" ELSE cid[o]
User(c) == IF chan[c] = None THEN None ELSE fe[chan[c]]
Ident(o) == IF cid[o] = None THEN "raw" ELSE cid[o]

(* A frontend has at most one holder, and is free if it has none.              *)
LEMMA FreeMeansUnheld ==
  ASSUME Exclusive, NEW f \in Frontend
  PROVE  Free(f) <=> \A o \in Object : fe[o] # f
<1> DEFINE S == {o \in Object : fe[o] = f}
<1>1. CASE S = {}
  <2>1. Cardinality(S) = 0
    BY <1>1, FS_EmptySet
  <2> QED
    BY <1>1, <2>1 DEF Free, m_inuse
<1>2. ASSUME NEW o \in S PROVE Cardinality(S) = 1
  <2>1. S = {o}
    BY PoolAssumption DEF Exclusive
  <2> QED
    BY <2>1, FS_Singleton
<1>3. CASE S # {}
  <2>1. Cardinality(S) = 1
    BY <1>2, <1>3
  <2> QED
    BY <1>3, <2>1 DEF Free, m_inuse
<1> QED
  BY <1>1, <1>3

\* What a frontend serves is told by its holder.
AsHeld ==
  \A f \in Frontend :
     /\ \A o \in Object : fe[o] = f => Serves(f) = Ident(o)
     /\ (\A o \in Object : fe[o] # f) => Serves(f) = None

LEMMA ServesItsHolder == Exclusive => AsHeld
<1> SUFFICES ASSUME Exclusive, NEW f \in Frontend
             PROVE  /\ \A o \in Object : fe[o] = f => Serves(f) = Ident(o)
                    /\ (\A o \in Object : fe[o] # f) => Serves(f) = None
  BY DEF AsHeld
<1>1. ASSUME NEW o \in Object, fe[o] = f PROVE Serves(f) = Ident(o)
  <2>1. ~Free(f)
    BY <1>1, FreeMeansUnheld
  <2>2. (CHOOSE p \in Object : fe[p] = f) = o
    BY <1>1, PoolAssumption DEF Exclusive
  <2>3. Serves(f) = Ident(CHOOSE p \in Object : fe[p] = f)
    BY <2>1 DEF Serves, Ident
  <2> QED
    BY <2>2, <2>3, Zenon
<1>2. (\A o \in Object : fe[o] # f) => Serves(f) = None
  BY FreeMeansUnheld DEF Serves
<1> QED
  BY <1>1, <1>2

LEMMA ServesNext == Exclusive' => AsHeld'
  BY ServesItsHolder, PTL

(* A frontend that nobody has taken over serves what it did, or, when its       *)
(* channel is gone, nobody.                                                    *)
LEMMA KeptUntilUnused ==
  ASSUME IInv, IInv', NEW F \in SUBSET Frontend,
         \A f \in F, o \in Object : fe'[o] = f => fe[o] = f /\ cid'[o] = cid[o]
  PROVE  Pool!Kept(F)
<1> DEFINE serves == [f \in Frontend |-> Serves(f)]
           user == [c \in Client |-> User(c)]
<1>1. ASSUME NEW f \in F, serves'[f] # serves[f]
      PROVE  serves'[f] = None /\ \A c \in Client : user'[c] # f
  <2>1. AsHeld /\ AsHeld'
    BY ServesItsHolder, ServesNext DEF IInv
  <2>2. ASSUME NEW o \in Object, fe'[o] = f PROVE FALSE
    <3>1. fe[o] = f /\ cid'[o] = cid[o]
      BY <2>2
    <3>2. Serves(f) = Ident(o) /\ Serves(f)' = Ident(o)'
      BY <2>1, <2>2, <3>1 DEF AsHeld
    <3>3. Ident(o)' = Ident(o)
      BY <3>1 DEF Ident
    <3> QED
      BY <1>1, <3>2, <3>3
  <2>3. Serves(f)' = None
    BY <2>1, <2>2 DEF AsHeld
  <2>4. ASSUME NEW c \in Client PROVE User(c)' # f
    BY <2>2, PoolAssumption DEF User, IInv, TypeOK
  <2> QED
    BY <2>3, <2>4
<1> QED
  BY <1>1 DEF Pool!Kept, Pool!Unused, Serves, User

\* A client that has nothing gets the use of the frontend of a channel: one that
\* was there, or a new one on a frontend that no other client uses.
Takes(c, o, f, ch) ==
  /\ chan[c] = None /\ chan' = [chan EXCEPT ![c] = o]
  /\ fe'[o] = f /\ Ident(o)' = ch
  /\ \A p \in Object : p # o => /\ Referenced(p)' => fe'[p] = fe[p] /\ cid'[p] = cid[p]
                                /\ fe'[p] # None => fe[p] = fe'[p] /\ cid'[p] = cid[p]
  /\ \/ fe[o] = f /\ Ident(o) = ch /\ ch # "raw"
     \/ /\ fe[o] = None
        /\ \A p \in Object : fe[p] = f => ~OutlivesCache(p)
        /\ ch = "raw" \/ Active(ch) = {}

LEMMA GetsIt ==
  ASSUME IInv, IInv', NEW c \in Client, NEW o \in Object, NEW f \in Frontend,
         NEW ch \in ChannelId \cup {"raw"}, Takes(c, o, f, ch)
  PROVE  Pool!Get(c, f, ch)
<1> DEFINE serves == [g \in Frontend |-> Serves(g)]
           user == [d \in Client |-> User(d)]
<1>0. /\ chan[c] = None /\ chan' = [chan EXCEPT ![c] = o]
      /\ fe'[o] = f /\ Ident(o)' = ch
      /\ \A p \in Object : p # o /\ Referenced(p)' => fe'[p] = fe[p] /\ cid'[p] = cid[p]
      /\ \A p \in Object : p # o /\ fe'[p] # None => fe[p] = fe'[p] /\ cid'[p] = cid[p]
  BY DEF Takes
<1>1. AsHeld /\ AsHeld'
  BY ServesItsHolder, ServesNext DEF IInv
<1>2. user[c] = None
  BY <1>0 DEF User
<1>3. \/ serves[f] = ch /\ ch # "raw"
      \/ /\ \A d \in Client : user[d] # f
         /\ ch = "raw" \/ \A g \in Frontend : serves[g] # ch
  <2>1. CASE fe[o] = f /\ Ident(o) = ch /\ ch # "raw"
    BY <1>1, <2>1 DEF AsHeld
  <2>2. CASE /\ \A p \in Object : fe[p] = f => ~OutlivesCache(p)
             /\ ch = "raw" \/ Active(ch) = {}
    <3>1. ASSUME NEW d \in Client PROVE User(d) # f
      BY <2>2, PoolAssumption DEF User, IInv, TypeOK, OutlivesCache
    <3>2. ASSUME NEW g \in Frontend, Active(ch) = {}, ch # "raw" PROVE Serves(g) # ch
      <4>1. \A p \in Object : Ident(p) # ch
        BY <3>2 DEF Active, Ident
      <4> QED
        BY <1>1, <4>1, PoolAssumption, IdentityAssumption DEF AsHeld
    <3> QED
      BY <2>2, <3>1, <3>2
  <2> QED
    BY <2>1, <2>2 DEF Takes
<1>4. user' = [user EXCEPT ![c] = f]
  <2>1. chan \in [Client -> Object \cup {None}]
    BY DEF IInv, TypeOK
  <2>2. User(c)' = f
    BY <1>0, <2>1, PoolAssumption DEF User
  <2>3. ASSUME NEW d \in Client, d # c PROVE User(d)' = User(d)
    <3>1. chan'[d] = chan[d]
      BY <1>0, <2>1, <2>3
    <3>2. CASE chan[d] = None
      BY <3>1, <3>2 DEF User
    <3>3. CASE chan[d] # None
      <4>1. PICK p \in Object : p = chan[d]
        BY <2>1, <3>3
      <4>2. Referenced(p) /\ Referenced(p)'
        BY <3>1, <4>1 DEF Referenced
      <4>3. fe'[p] = fe[p]
        <5>1. fe[p] # None
          BY <4>2 DEF IInv, TypeOK
        <5>2. CASE p # o
          BY <1>0, <4>2, <5>2
        <5>3. CASE p = o
          BY <1>0, <5>1, <5>3 DEF Takes
        <5> QED
          BY <5>2, <5>3
      <4> QED
        BY <3>1, <4>1, <4>3 DEF User
    <3> QED
      BY <3>2, <3>3
  <2> QED
    BY <2>2, <2>3
<1>5. serves'[f] = ch
  BY <1>0, <1>1 DEF AsHeld
<1>6. Pool!Kept(Frontend \ {f})
  <2>1. ASSUME NEW g \in Frontend \ {f}, NEW p \in Object, fe'[p] = g
        PROVE  fe[p] = g /\ cid'[p] = cid[p]
    BY <1>0, <2>1, PoolAssumption
  <2> QED
    BY <2>1, KeptUntilUnused
<1> QED
  BY <1>2, <1>3, <1>4, <1>5, <1>6 DEF Pool!Get, Pool!Unused, Serves, User

(* Every step of the manager is a Get, a Leave or a GiveUp of the pool.         *)
LEMMA StepsOfThePool ==
  ASSUME IInv, IInv', [Next]_vars
  PROVE  Pool!Next \/ UNCHANGED <<[f \in Frontend |-> Serves(f)], [c \in Client |-> User(c)]>>
<1> USE DEF IInv
<1>1. /\ chan \in [Client -> Object \cup {None}] /\ scan \in [Client -> Object \cup {None}]
      /\ conn \in [Client -> Object \cup {None}]
  BY DEF TypeOK
<1>2. ASSUME Settled(Nothing)
      PROVE  /\ \A p \in Object : Referenced(p)' => fe'[p] = fe[p] /\ cid'[p] = cid[p]
             /\ \A p \in Object : fe'[p] # None => fe[p] = fe'[p] /\ cid'[p] = cid[p]
             /\ Pool!Kept(Frontend)
  <2>1. \A p \in Object : Referenced(p)' => fe'[p] = fe[p] /\ cid'[p] = cid[p]
    BY <1>2, OldHoldings
  <2>2. \A p \in Object : fe'[p] # None => fe[p] = fe'[p] /\ cid'[p] = cid[p]
    BY <1>2, OldHoldings
  <2>3. Pool!Kept(Frontend)
    BY <2>2, PoolAssumption, KeptUntilUnused
  <2> QED
    BY <2>1, <2>2, <2>3
<1>3. ASSUME Settled(Nothing), NEW d \in Client, chan'[d] = chan[d] PROVE User(d)' = User(d)
  <2>1. CASE chan[d] = None
    BY <1>3, <2>1 DEF User
  <2>2. CASE chan[d] # None
    <3>1. PICK p \in Object : p = chan[d]
      BY <1>1, <2>2
    <3>2. Referenced(p)'
      BY <1>3, <3>1 DEF Referenced
    <3> QED
      BY <1>2, <1>3, <3>1, <3>2 DEF User
  <2> QED
    BY <2>1, <2>2
<1>4. ASSUME NEW c \in Client, NEW id \in ChannelId, NEW o \in Object, Joins(c, id, o)
      PROVE  Pool!Next
  <2>1. /\ chan[c] = None /\ cid[o] = id /\ Referenced(o) /\ chan' = [chan EXCEPT ![c] = o]
        /\ Settled(Nothing)
    BY <1>4 DEF Joins, Attach
  <2>2. Referenced(o)'
    BY <1>1, <2>1 DEF Referenced
  <2>3. PICK f \in Frontend : fe[o] = f
    BY <2>1 DEF TypeOK
  <2>4. fe'[o] = f /\ cid'[o] = cid[o]
    BY <1>2, <2>1, <2>2, <2>3
  <2>5. Ident(o) = id /\ Ident(o)' = id /\ id # "raw"
    BY <2>1, <2>4, PoolAssumption, IdentityAssumption DEF Ident
  <2>6. Takes(c, o, f, id)
    BY <1>2, <2>1, <2>3, <2>4, <2>5 DEF Takes
  <2>7. Pool!Get(c, f, id)
    BY <2>6, GetsIt
  <2> QED
    BY <2>7 DEF Pool!Next
<1>5. ASSUME NEW c \in Client, NEW id \in ChannelId, NEW f \in Frontend, NEW n \in Object,
             GetsNew(c, id, f, n)
      PROVE  Pool!Next
  <2> DEFINE new == [o |-> n, st |-> "tuning", fe |-> f, id |-> id]
  <2>1. /\ chan[c] = None /\ st[n] = "none" /\ Active(id) = {} /\ f \in FreeUncached
        /\ chan' = [chan EXCEPT ![c] = n]
        /\ Settled(new) /\ new.o = n /\ new.fe = f /\ new.id = id
    BY <1>5 DEF GetsNew, Attach
  <2> HIDE DEF new
  <2>2. fe[n] = None /\ fe'[n] = f /\ cid'[n] = id
    BY <2>1, Holdings DEF TypeOK
  <2>3. Ident(n)' = id
    BY <2>2, PoolAssumption DEF Ident
  <2>4. \A p \in Object : p # n => /\ Referenced(p)' => fe'[p] = fe[p] /\ cid'[p] = cid[p]
                                   /\ fe'[p] # None => fe[p] = fe'[p] /\ cid'[p] = cid[p]
    BY <2>1, Holdings
  <2>5. \A p \in Object : fe[p] = f => ~OutlivesCache(p)
    BY <2>1 DEF FreeUncached
  <2>6. Takes(c, n, f, id)
    BY <2>1, <2>2, <2>3, <2>4, <2>5 DEF Takes
  <2>7. Pool!Get(c, f, id)
    BY <2>6, GetsIt
  <2> QED
    BY <2>7 DEF Pool!Next
<1>6. ASSUME NEW c \in Client, NEW f \in Frontend, NEW n \in Object, GetsRaw(c, f, n)
      PROVE  Pool!Next
  <2> DEFINE new == [o |-> n, st |-> "idle", fe |-> f, id |-> None]
  <2>1. /\ chan[c] = None /\ st[n] = "none" /\ f \in FreeUncached
        /\ chan' = [chan EXCEPT ![c] = n]
        /\ Settled(new) /\ new.o = n /\ new.fe = f /\ new.id = None
    BY <1>6 DEF GetsRaw
  <2> HIDE DEF new
  <2>2. fe[n] = None /\ fe'[n] = f /\ cid'[n] = None
    BY <2>1, Holdings DEF TypeOK
  <2>3. Ident(n)' = "raw"
    BY <2>2 DEF Ident
  <2>4. \A p \in Object : p # n => /\ Referenced(p)' => fe'[p] = fe[p] /\ cid'[p] = cid[p]
                                   /\ fe'[p] # None => fe[p] = fe'[p] /\ cid'[p] = cid[p]
    BY <2>1, Holdings
  <2>5. \A p \in Object : fe[p] = f => ~OutlivesCache(p)
    BY <2>1 DEF FreeUncached
  <2>6. Takes(c, n, f, "raw")
    BY <2>1, <2>2, <2>3, <2>4, <2>5 DEF Takes
  <2>7. Pool!Get(c, f, "raw")
    BY <2>6, GetsIt
  <2> QED
    BY <2>7 DEF Pool!Next
<1>7. CASE Uncaches
  <2>1. \A d \in Client : User(d)' = User(d)
    BY <1>3, <1>7 DEF Uncaches, clients
  <2>2. Pool!Kept(Frontend)
    BY <1>2, <1>7 DEF Uncaches
  <2>3. Pool!GiveUp
    BY <2>1, <2>2 DEF Pool!GiveUp, User
  <2> QED
    BY <2>3 DEF Pool!Next
<1>8. ASSUME NEW c \in Client, LetsGo(c) PROVE Pool!Next
  <2>1. User(c)' = None
    BY <1>1, <1>8 DEF LetsGo, User
  <2>2. \A d \in Client : d # c => User(d)' = User(d)
    BY <1>1, <1>3, <1>8 DEF LetsGo
  <2>3. Pool!Kept(Frontend)
    BY <1>2, <1>8 DEF LetsGo
  <2>4. Pool!Leave(c)
    BY <2>1, <2>2, <2>3 DEF Pool!Leave, User
  <2> QED
    BY <2>4 DEF Pool!Next
<1>9. CASE FrontendMoves
  BY <1>9, MovesOnlyStates DEF clients, Serves, User, Free, m_inuse
<1> QED
  BY <1>4, <1>5, <1>6, <1>7, <1>8, <1>9, Shapes

(* The manager keeps what TunerPool promises the clients: no tuner changes its  *)
(* channel under a client, none is shared by two channels or raw clients, and  *)
(* no channel takes two, whatever happens to the cache and its timer.          *)
THEOREM KeepsPromise == Spec => PoolPromise
<1>1. Init => Pool!Init
  <2> SUFFICES ASSUME Init PROVE Pool!Init
    OBVIOUS
  <2>1. Exclusive /\ \A o \in Object : fe[o] = None
    BY DEF Init, Exclusive
  <2>2. \A f \in Frontend : Serves(f) = None
    BY <2>1, ServesItsHolder, PoolAssumption DEF AsHeld
  <2>3. \A c \in Client : User(c) = None
    BY DEF Init, User
  <2> QED
    BY <2>2, <2>3 DEF Pool!Init, Serves, User
<1>2. IInv /\ IInv' /\ [Next]_vars
        => [Pool!Next]_<<[f \in Frontend |->
                           IF Free(f) THEN None
                           ELSE LET o == CHOOSE p \in Object : fe[p] = f
                                IN IF cid[o] = None THEN "raw" ELSE cid[o]],
                        [c \in Client |-> IF chan[c] = None THEN None ELSE fe[chan[c]]]>>
  BY StepsOfThePool DEF Serves, User
<1> QED
  BY <1>1, <1>2, ManagerInvariant, PTL DEF Spec, PoolPromise, Pool!Spec

--------------------------------------------------------------------------------
(***************************************************************************)
(* What canAllocateChannel announces.                                       *)
(***************************************************************************)
(* The scores of a list of frontends are bounded.                              *)
LEMMA Bounded ==
  ASSUME NEW s \in [Frontend -> Nat]
  PROVE  \E b \in Nat : \A g \in Frontend : s[g] <= b
<1> DEFINE Upto(k) == \E b \in Nat : \A g \in 1 .. k : s[g] <= b
           Bad == {k \in 0 .. NFrontends : ~Upto(k)}
<1>1. NFrontends \in Nat /\ Frontend = 1 .. NFrontends
  BY PoolAssumption DEF Frontend
<1>2. Bad = {}
  <2> SUFFICES ASSUME Bad # {} PROVE FALSE
    OBVIOUS
  <2>1. Bad \in SUBSET Nat
    BY <1>1
  <2>2. PICK k \in Bad : \A j \in Bad : k <= j
    BY <2>1, LeastOne
  <2>3. k # 0
    <3>1. \A g \in 1 .. 0 : s[g] <= 0
      OBVIOUS
    <3> QED
      BY <3>1
  <2>4. k - 1 \in 0 .. NFrontends /\ k \in Frontend
    BY <1>1, <2>3
  <2>5. Upto(k - 1)
    <3> HIDE DEF Upto
    <3>1. k \in 0 .. NFrontends /\ k - 1 \notin Bad
      BY <1>1, <2>2
    <3> QED
      BY <2>4, <3>1
  <2>6. PICK b \in Nat : \A g \in 1 .. (k - 1) : s[g] <= b
    BY <2>5
  <2>7. s[k] \in Nat
    BY <2>4
  <2>8. \A g \in 1 .. k : s[g] <= b + s[k]
    <3> SUFFICES ASSUME NEW g \in 1 .. k PROVE s[g] <= b + s[k]
      OBVIOUS
    <3>1. s[g] \in Nat
      <4>1. g \in Frontend
        BY <1>1, <2>4
      <4> QED
        BY <4>1
    <3>2. CASE g = k
      BY <2>7, <3>1, <3>2
    <3>3. CASE g # k
      <4>1. g \in 1 .. (k - 1)
        BY <1>1, <2>4, <3>3
      <4> QED
        BY <2>6, <2>7, <3>1, <4>1
    <3> QED
      BY <3>2, <3>3
  <2>9. b + s[k] \in Nat
    BY <2>7
  <2> QED
    BY <2>2, <2>8, <2>9
<1>3. NFrontends \in 0 .. NFrontends
  BY <1>1
<1>4. Upto(NFrontends)
  <2> HIDE DEF Upto
  <2> QED
    BY <1>2, <1>3
<1> QED
  BY <1>1, <1>4

(* allocateFrontend finds a frontend if there is one that fits.                *)
LEMMA AllocatedIfAny ==
  ASSUME NEW id \in ChannelId, NEW S \in SUBSET Frontend,
         NEW h \in S, IsCompatibleWith(id, h, S) > 0, sec \in SecState
  PROVE  AllocateFrontend(id, S) # None
<1> DEFINE score == Score[sec][S][id]
           fit == {f \in S : score[f] > 0}
           best == {f \in fit : \A g \in fit : score[g] <= score[f]}
           Bounds == {b \in Nat : \A g \in fit : score[g] <= b}
<1>1. AllocateFrontend(id, S) = IF best = {} THEN None ELSE Min(best)
  BY DEF AllocateFrontend, IsCompatibleWith
<1>2. score \in [Frontend -> Nat] /\ score[h] > 0
  BY PoolAssumption DEF IsCompatibleWith
<1> HIDE DEF score
<1>3. PICK m \in Bounds : \A b \in Bounds : m <= b
  <2>1. Bounds # {}
    BY <1>2, Bounded
  <2> QED
    BY <2>1, LeastOne
<1>4. \E f \in fit : score[f] = m
  <2> SUFFICES ASSUME \A f \in fit : score[f] # m PROVE FALSE
    OBVIOUS
  <2>1. h \in fit /\ score[h] \in Nat
    BY <1>2
  <2>2. m - 1 \in Nat
    BY <1>3, <2>1
  <2>3. \A g \in fit : score[g] <= m - 1
    BY <1>2, <1>3
  <2> QED
    BY <1>3, <2>2, <2>3
<1>5. best # {}
  BY <1>3, <1>4
<1>6. best \in SUBSET Nat
  <2>1. best \subseteq Frontend
    OBVIOUS
  <2>2. Frontend \subseteq Nat
    BY DEF Frontend
  <2> QED
    BY <2>1, <2>2
<1>7. Min(best) \in Frontend
  BY <1>5, <1>6, MinInSet
<1> QED
  BY <1>1, <1>5, <1>7, PoolAssumption

(* Counting the pointers to a channel tells who has them.                      *)
LEMMA Counted ==
  ASSUME NEW T \in SUBSET Client
  PROVE  /\ Cardinality(T) \in Nat
         /\ Cardinality(T) = 0 <=> T = {}
         /\ \A c \in T : Cardinality(T) = 1 <=> T = {c}
<1>1. IsFiniteSet(T)
  BY IdentityAssumption, FS_Subset
<1>2. Cardinality(T) \in Nat
  BY <1>1, FS_CardinalityType
<1>3. Cardinality(T) = 0 <=> T = {}
  BY <1>1, FS_EmptySet
<1>4. \A c \in T : Cardinality(T) = 1 <=> T = {c}
  BY <1>1, FS_Singleton
<1> QED
  BY <1>2, <1>3, <1>4

\* The cached channel has one use if no handler has it.
CacheCounts ==
  \A o \in Object : cached = o =>
    (m_use_count(o) = 1 <=> \A c \in Client : chan[c] # o /\ scan[c] # o)

LEMMA CacheIsCounted == CacheCounts
<1> SUFFICES ASSUME NEW o \in Object, cached = o
             PROVE  m_use_count(o) = 1 <=> \A c \in Client : chan[c] # o /\ scan[c] # o
  BY DEF CacheCounts
<1> DEFINE C == {c \in Client : chan[c] = o}
           S == {c \in Client : scan[c] = o}
<1>1. m_use_count(o) = Cardinality(C) + Cardinality(S) + 1
  BY DEF m_use_count
<1>2. /\ Cardinality(C) \in Nat /\ (Cardinality(C) = 0 <=> C = {})
      /\ Cardinality(S) \in Nat /\ (Cardinality(S) = 0 <=> S = {})
  BY Counted
<1>3. m_use_count(o) = 1 <=> C = {} /\ S = {}
  <2> HIDE DEF C, S
  <2> QED
    BY <1>1, <1>2
<1> QED
  BY <1>3

(* A handler has its channel for itself, the cache aside, if no other has it.   *)
LEMMA HandlerIsCounted ==
  ASSUME NEW o \in Object, NEW c \in Client, chan[c] = o, scan[c] = o
  PROVE  LoneUse(o) <=> \A d \in Client : d # c => chan[d] # o /\ scan[d] # o
<1> DEFINE C == {d \in Client : chan[d] = o}
           S == {d \in Client : scan[d] = o}
<1>1. LoneUse(o) <=> Cardinality(C) + Cardinality(S) = 2
  <2>1. Cardinality(C) \in Nat /\ Cardinality(S) \in Nat
    BY Counted
  <2> HIDE DEF C, S
  <2>2. m_use_count(o) = Cardinality(C) + Cardinality(S) + IF cached = o THEN 1 ELSE 0
    BY DEF m_use_count, C, S
  <2> QED
    BY <2>1, <2>2 DEF LoneUse
<1>2. /\ Cardinality(C) \in Nat /\ Cardinality(C) # 0 /\ (Cardinality(C) = 1 <=> C = {c})
      /\ Cardinality(S) \in Nat /\ Cardinality(S) # 0 /\ (Cardinality(S) = 1 <=> S = {c})
  <2>1. c \in C /\ c \in S
    OBVIOUS
  <2>2. C \in SUBSET Client /\ S \in SUBSET Client
    OBVIOUS
  <2> HIDE DEF C, S
  <2> QED
    BY <2>1, <2>2, Counted
<1>3. LoneUse(o) <=> C = {c} /\ S = {c}
  <2> HIDE DEF C, S
  <2> QED
    BY <1>1, <1>2
<1> QED
  BY <1>3

(* When no stopped handler is kept, a channel that only the cache uses ends     *)
(* when the cache lets go.                                                     *)
LEMMA CachedIsSpare ==
  ASSUME IInv, NoStoppedHandlerKept, NEW o \in Object
  PROVE  o = cached /\ m_use_count(o) = 1 <=> ~OutlivesCache(o)
<1>1. CASE o = cached
  <2>1. m_use_count(o) = 1 <=> \A c \in Client : chan[c] # o /\ scan[c] # o
    BY <1>1, CacheIsCounted DEF CacheCounts
  <2>2. \A c \in Client : conn[c] = o => chan[c] = o
    BY PoolAssumption DEF IInv, OnePerClient, NoStoppedHandlerKept
  <2> QED
    BY <1>1, <2>1, <2>2 DEF OutlivesCache
<1> QED
  BY <1>1 DEF OutlivesCache

(* What is announced for a channel id, with nothing to be ignored.              *)
LEMMA Announced ==
  ASSUME IInv, NoStoppedHandlerKept, NEW id \in ChannelId
  PROVE  CanAllocateChannel(id, None)
           <=> IsCached(id) \/ Active(id) # {} \/ AllocateFrontend(id, FreeUncached) # None
<1>1. \A o \in Object : o \in Spare(None) <=> ~OutlivesCache(o)
  BY CachedIsSpare DEF Spare
<1>2. FreeUncached = FreeSpared(None)
  BY <1>1 DEF FreeUncached, FreeSpared
<1>3. (\E f \in FreeUncached : IsCompatibleWith(id, f, FreeUncached) > 0)
        <=> AllocateFrontend(id, FreeUncached) # None
  <2>1. FreeUncached \in SUBSET Frontend /\ sec \in SecState
    BY DEF FreeUncached, IInv, TypeOK
  <2> QED
    BY <2>1, AllocatedFits, AllocatedIfAny
<1> QED
  BY <1>2, <1>3 DEF CanAllocateChannel

(* allocateChannel, which drops the cache before it looks at the frontends, and *)
(* canAllocateChannel, which counts uses instead, agree, as long as no stopped  *)
(* handler keeps a channel and the frontend does not refuse to tune.           *)
THEOREM AllocatesAsAnnounced == Spec => AsAnnounced
<1>1. ASSUME IInv, NEW c \in Client, NEW id \in ChannelId,
             Tune(c, id, TRUE), NoStoppedHandlerKept
      PROVE  chan'[c] # None <=> CanAllocateChannel(id, None)
  <2> USE DEF IInv
  <2>1. chan \in [Client -> Object \cup {None}] /\ chan[c] = None /\ conn[c] = None
    BY <1>1 DEF TypeOK, Tune
  <2>2. CASE UseCached(c, id)
    BY <1>1, <2>1, <2>2, Announced DEF UseCached, IsCached, Attach
  <2>3. CASE UseShared(c, id)
    <3>1. PICK o \in Active(id) : chan' = [chan EXCEPT ![c] = o]
      BY <2>3 DEF UseShared, Attach
    <3>2. o # None /\ Active(id) # {}
      BY <3>1, PoolAssumption DEF Active
    <3> QED
      BY <1>1, <2>1, <3>1, <3>2, Announced
  <2>4. CASE UseNew(c, id, TRUE)
    <3>1. AllocateFrontend(id, FreeUncached) # None /\ chan' = [chan EXCEPT ![c] = New]
      BY <2>4 DEF UseNew, Attach
    <3>2. New # None
      <4>1. TypeOK /\ OnePerClient
        BY <1>1
      <4>2. New \in Object
        BY <2>1, <4>1, NewIsThere
      <4> HIDE DEF New
      <4> QED
        BY <4>2, PoolAssumption
    <3> QED
      BY <1>1, <2>1, <3>1, <3>2, Announced
  <2>5. CASE NoneLeft(c, id)
    BY <1>1, <2>1, <2>5, Announced DEF NoneLeft, clients
  <2> QED
    BY <1>1, <2>2, <2>3, <2>4, <2>5 DEF Tune
<1>2. IInv /\ [Next]_vars
        => [\A c \in Client, id \in ChannelId :
              Tune(c, id, TRUE) /\ NoStoppedHandlerKept
                => (chan'[c] # None <=> CanAllocateChannel(id, None))]_vars
  BY <1>1
<1> QED
  BY ManagerInvariant, <1>2, PTL DEF Spec, AsAnnounced

\* canAllocateChannel without use counts.
AnnouncesFree ==
  \A id \in ChannelId :
    CanAllocateChannel(id, None)
      <=> \/ cached # None /\ cid[cached] = id
          \/ \E o \in Object : cid[o] = id
          \/ \E f \in FreeUncached : IsCompatibleWith(id, f, FreeUncached) > 0

LEMMA CanAllocateFree == IInv /\ NoStoppedHandlerKept => AnnouncesFree
<1> SUFFICES ASSUME IInv, NoStoppedHandlerKept PROVE AnnouncesFree
  OBVIOUS
<1>1. \A o \in Object : o \in Spare(None) <=> ~OutlivesCache(o)
  BY CachedIsSpare DEF Spare
<1>2. FreeUncached = FreeSpared(None)
  BY <1>1 DEF FreeUncached, FreeSpared
<1> QED
  BY <1>2 DEF AnnouncesFree, CanAllocateChannel, IsCached, Active

LEMMA CanAllocateFreeNext == IInv' /\ NoStoppedHandlerKept' => AnnouncesFree'
  BY CanAllocateFree, PTL

(* What is announced for a zap is what can be had when the handler is gone.      *)
LEMMA ZapOf ==
  ASSUME IInv, IInv', NoStoppedHandlerKept, NEW c \in Client, Destroy(c), scan[c] # None,
         NEW id \in ChannelId \ {cid[chan[c]]}
  PROVE  CanAllocateChannel(id, cid[chan[c]]) <=> CanAllocateChannel(id, None)'
<1>1. /\ chan \in [Client -> Object \cup {None}] /\ scan \in [Client -> Object \cup {None}]
      /\ conn \in [Client -> Object \cup {None}]
  BY DEF IInv, TypeOK
<1>2. PICK o \in Object : chan[c] = o
  BY <1>1 DEF IInv, OnePerClient
<1>3. /\ scan[c] = o /\ conn[c] = o /\ o # None
      /\ cid[o] \in ChannelId /\ fe[o] \in Frontend
  BY <1>2, PoolAssumption DEF IInv, OnePerClient, WellTuned, TypeOK
<1>4. /\ chan' = [chan EXCEPT ![c] = None] /\ scan' = [scan EXCEPT ![c] = None]
      /\ conn' = [conn EXCEPT ![c] = None] /\ cached' = cached /\ sec' = sec /\ Settled(Nothing)
  BY DEF Destroy, SettleOld, Settled, IInv, TypeOK
<1> DEFINE Alone == \A d \in Client : d # c => chan[d] # o /\ scan[d] # o
<1>5. ASSUME NEW p \in Object, p # o
      PROVE  /\ fe'[p] = fe[p] /\ cid'[p] = cid[p]
             /\ OutlivesCache(p)' <=> OutlivesCache(p)
             /\ p \in Spare(cid[o]) <=> ~OutlivesCache(p)
  <2>1. p # None
    BY PoolAssumption
  <2>2. Referenced(p)' <=> Referenced(p)
    BY <1>1, <1>2, <1>3, <1>4, <1>5, <2>1 DEF Referenced
  <2>3. OutlivesCache(p)' <=> OutlivesCache(p)
    BY <1>1, <1>2, <1>3, <1>4, <1>5, <2>1 DEF OutlivesCache
  <2>4. ~Referenced(p) => fe[p] = None /\ cid[p] = None
    BY DEF IInv, TypeOK, WellTuned
  <2>5. cid[p] # cid[o]
    BY <1>3, <1>5, PoolAssumption DEF IInv, Exclusive
  <2> QED
    BY <1>4, <2>2, <2>3, <2>4, <2>5, OldHoldings, CachedIsSpare DEF Spare
<1>6. \A d \in Client : conn[d] = o => chan[d] = o
  BY <1>3 DEF IInv, OnePerClient, NoStoppedHandlerKept
<1>7. o \in Spare(cid[o]) <=> Alone
  <2>1. LoneUse(o) <=> Alone
    BY <1>2, <1>3, HandlerIsCounted
  <2>2. OutlivesCache(o)
    BY <1>2 DEF OutlivesCache
  <2> QED
    BY <1>3, <2>1, <2>2, CachedIsSpare, PoolAssumption DEF Spare
<1>8. OutlivesCache(o)' <=> ~(o = cached /\ Alone)
  BY <1>1, <1>3, <1>4, <1>6 DEF OutlivesCache
<1>9. Referenced(o)' <=> ~(o # cached /\ Alone)
  BY <1>1, <1>3, <1>4, <1>6 DEF Referenced
<1>10. /\ fe'[o] = IF o # cached /\ Alone THEN None ELSE fe[o]
       /\ cid'[o] = IF o # cached /\ Alone THEN None ELSE cid[o]
  BY <1>4, <1>9, OldHoldings
<1>11. NoStoppedHandlerKept'
  BY <1>1, <1>4 DEF NoStoppedHandlerKept
<1>12. CanAllocateChannel(id, None)'
         <=> \/ cached # None /\ cid'[cached] = id
             \/ \E p \in Object : cid'[p] = id
             \/ \E f \in FreeUncached' : Score[sec][FreeUncached'][id][f] > 0
  BY <1>4, <1>11, CanAllocateFreeNext DEF AnnouncesFree, IsCompatibleWith
<1>13. CanAllocateChannel(id, cid[o])
         <=> \/ cached # None /\ cid[cached] = id
             \/ \E p \in Object : cid[p] = id
             \/ \E f \in FreeSpared(cid[o]) : Score[sec][FreeSpared(cid[o])][id][f] > 0
  BY DEF CanAllocateChannel, IsCached, Active, IsCompatibleWith
<1>14. cached # None => cached \in Object /\ cid'[cached] = cid[cached]
  BY <1>5, <1>10 DEF IInv, TypeOK
<1>15. ASSUME NEW p \in Object PROVE cid[p] = id <=> cid'[p] = id
  <2>1. id # cid[o] /\ id # None
    BY <1>2, PoolAssumption
  <2> QED
    BY <1>5, <1>10, <2>1
<1>16. ASSUME NEW f \in Frontend
       PROVE  (\A p \in Object : fe[p] = f => p \in Spare(cid[o]))
                <=> \A p \in Object : fe'[p] = f => ~OutlivesCache(p)'
  <2>1. \A p \in Object : p # o => ((fe[p] = f => p \in Spare(cid[o]))
                                     <=> (fe'[p] = f => ~OutlivesCache(p)'))
    BY <1>5
  <2>2. (fe[o] = f => o \in Spare(cid[o])) <=> (fe'[o] = f => ~OutlivesCache(o)')
    BY <1>7, <1>8, <1>10, PoolAssumption
  <2> QED
    BY <2>1, <2>2
<1>17. FreeSpared(cid[o]) = FreeUncached'
  BY <1>16 DEF FreeSpared, FreeUncached
<1> HIDE DEF Alone
<1>18. CanAllocateChannel(id, cid[o]) <=> CanAllocateChannel(id, None)'
  BY <1>12, <1>13, <1>14, <1>15, <1>17
<1> QED
  BY <1>2, <1>18

(* canAllocateChannel, asked to ignore the running service, announces for a zap *)
(* what can be had when its handler is gone, no more and no less.              *)
THEOREM ZapsAsAnnounced == Spec => ZapAsAnnounced
<1>1. IInv /\ IInv' /\ [Next]_vars
        => [\A c \in Client :
              Destroy(c) /\ scan[c] # None /\ NoStoppedHandlerKept
                => \A id \in ChannelId \ {cid[chan[c]]} :
                     CanAllocateChannel(id, cid[chan[c]]) <=> CanAllocateChannel(id, None)']_vars
  BY ZapOf
<1> QED
  BY ManagerInvariant, <1>1, PTL DEF Spec, ZapAsAnnounced
===============================================================================
