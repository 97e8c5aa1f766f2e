------------------------------ MODULE TunerPool ------------------------------
(***************************************************************************)
(* What the resource manager of lib/dvb promises to its clients, with no    *)
(* cache, timer, use count or connection in sight: a tuner is free, serves  *)
(* one channel to any number of clients, or is in the raw hands of one; it  *)
(* never changes channel under a client, and no channel takes two tuners.   *)
(***************************************************************************)
CONSTANTS Client, Frontend, ChannelId, Raw, None

VARIABLES
  serves,  \* [Frontend -> ChannelId, Raw or None]
  user     \* [Client -> Frontend or None]

Unused(f) == \A c \in Client : user[c] # f

Init == /\ serves = [f \in Frontend |-> None]
        /\ user = [c \in Client |-> None]

(* Tuners nobody uses may be given up at any moment. *)
Kept(S) == \A f \in S : serves'[f] # serves[f] => serves'[f] = None /\ Unused(f)'

Get(c, f, ch) ==
  /\ user[c] = None
  /\ \/ serves[f] = ch /\ ch # Raw
     \/ Unused(f) /\ (ch = Raw \/ \A g \in Frontend : serves[g] # ch)
  /\ user' = [user EXCEPT ![c] = f]
  /\ serves'[f] = ch
  /\ Kept(Frontend \ {f})

Leave(c) == /\ user' = [user EXCEPT ![c] = None]
            /\ Kept(Frontend)

GiveUp == UNCHANGED user /\ Kept(Frontend)

Next == \/ \E c \in Client, f \in Frontend, ch \in ChannelId \cup {Raw} : Get(c, f, ch)
        \/ \E c \in Client : Leave(c)
        \/ GiveUp

Spec == Init /\ [][Next]_<<serves, user>>
===============================================================================
