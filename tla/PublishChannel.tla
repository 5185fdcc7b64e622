--------------------------- MODULE PublishChannel ---------------------------
(***************************************************************************)
(* How QueueService keeps a channel: the one field every upload and every  *)
(* readiness probe shares, three places that assign it after an await, and *)
(* two event handlers that clear it.  UploadHandler.tla has one channel    *)
(* and lets requireChannel fail at will; this module shows when it does.   *)
(***************************************************************************)
CONSTANTS
    Callers,     \* calls of publishJob and ping under way at once
    Channels,    \* channel numbers of a connection: channel_max
    Null

ASSUME ChannelsAssumption == Null \notin Callers \cup Channels

VARIABLES
    link,       \* the connection of the RecoveringChannelModel: up or down
    chan,       \* chan[c]: free, opening or open
    channel,    \* this.channel
    call,       \* call[p]: where a call of publishJob or ping stands
    using,      \* the channel number it awaits, or has been given
    setup       \* the channel the recovery's setup awaits

vars == <<link, chan, channel, call, using, setup>>

TypeOK ==
    /\ link \in {"up", "down"}
    /\ chan \in [Channels -> {"free", "opening", "open"}]
    /\ channel \in Channels \cup {Null}
    /\ call \in [Callers -> {"idle", "opening", "sent", "failed"}]
    /\ using \in [Callers -> Channels \cup {Null}]
    /\ setup \in Channels \cup {Null}

(* connect() has resolved: the first setup is over. *)
Init ==
    /\ link = "up"
    /\ \E c \in Channels :
          /\ channel = c
          /\ chan = [d \in Channels |-> IF d = c THEN "open" ELSE "free"]
    /\ call = [p \in Callers |-> "idle"]
    /\ using = [p \in Callers |-> Null]
    /\ setup = Null

Free == {c \in Channels : chan[c] = "free"}

Becomes(p, where, c) ==
    /\ call' = [call EXCEPT ![p] = where]
    /\ using' = [using EXCEPT ![p] = c]
-----------------------------------------------------------------------------
(* requireChannel finds the field set; what follows up to the next await   *)
(* writes to that channel.                                                 *)
UseChannel(p) ==
    /\ call[p] = "idle"
    /\ channel # Null
    /\ Becomes(p, "sent", channel)
    /\ UNCHANGED <<link, chan, channel, setup>>

(* Mutant: a missing channel is left to the recovery of the connection. *)
FailWithoutChannel(p) ==
    /\ call[p] = "idle"
    /\ channel = Null
    /\ Becomes(p, "failed", Null)
    /\ UNCHANGED <<link, chan, channel, setup>>

(* It finds it null, and opens a channel; so does every other caller until *)
(* one of them is done.                                                    *)
OpenChannel(p) ==
    /\ call[p] = "idle"
    /\ channel = Null
    /\ IF link = "up" /\ Free # {}
       THEN \E c \in Free :
              /\ chan' = [chan EXCEPT ![c] = "opening"]
              /\ Becomes(p, "opening", c)
       ELSE Becomes(p, "failed", Null) /\ UNCHANGED chan
    /\ UNCHANGED <<link, channel, setup>>

(* The topology is declared, the handlers are attached; whoever is last    *)
(* has its channel in the field.                                           *)
ChannelOpened(p) ==
    /\ call[p] = "opening"
    /\ chan' = [chan EXCEPT ![using[p]] = "open"]
    /\ channel' = using[p]
    /\ Becomes(p, "sent", using[p])
    /\ UNCHANGED <<link, setup>>

(* The broker has confirmed, or answered checkQueue. *)
Confirmed(p) ==
    /\ call[p] = "sent"
    /\ chan[using[p]] = "open"
    /\ Becomes(p, "idle", Null)
    /\ UNCHANGED <<link, chan, channel, setup>>

(* The rejection reaches the caller: 503, or "not ready". *)
Failed(p) ==
    /\ call[p] = "failed"
    /\ Becomes(p, "idle", Null)
    /\ UNCHANGED <<link, chan, channel, setup>>
-----------------------------------------------------------------------------
(* Mutant: nobody rejects what waits for a confirm. *)
RejectOpenings(closed) ==
    /\ call' = [p \in Callers |->
                   IF call[p] = "opening" /\ using[p] \in closed THEN "failed" ELSE call[p]]
    /\ using' = [p \in Callers |->
                   IF call[p] = "opening" /\ using[p] \in closed THEN Null ELSE using[p]]

(* What awaits an answer on one of these channels is rejected. *)
Reject(closed) ==
    /\ call' = [p \in Callers |-> IF using[p] \in closed THEN "failed" ELSE call[p]]
    /\ using' = [p \in Callers |-> IF using[p] \in closed THEN Null ELSE using[p]]

(* A protocol error closes one channel, a 404 of checkQueue for one.  The  *)
(* handler clears the field, even when another channel is in it.           *)
ChannelDies(c) ==
    /\ chan[c] = "open"
    /\ chan' = [chan EXCEPT ![c] = "free"]
    /\ channel' = Null
    /\ Reject({c})
    /\ UNCHANGED <<link, setup>>

(* A channel dies while its topology is declared, a queue that is there    *)
(* with other arguments for one, before anybody listens to 'close': who    *)
(* awaits the declaration is rejected, the field is left as it is.  (Nor   *)
(* does anybody listen to 'error' yet, so this may also be the end of the  *)
(* process: CrashBackend in BackendLifecycle.tla.)                         *)
DeclarationFails(c) ==
    /\ chan[c] = "opening"
    /\ chan' = [chan EXCEPT ![c] = "free"]
    /\ setup' = IF setup = c THEN Null ELSE setup
    /\ Reject({c})
    /\ UNCHANGED <<link, channel>>

(* Mutant: the setup of the old connection goes on. *)
DisconnectCalls ==
    /\ link = "up"
    /\ link' = "down"
    /\ chan' = [c \in Channels |-> "free"]
    /\ channel' = Null
    /\ Reject(Channels)
    /\ UNCHANGED setup

(* The connection goes, and every channel with it. *)
Disconnect ==
    /\ link = "up"
    /\ link' = "down"
    /\ chan' = [c \in Channels |-> "free"]
    /\ channel' = Null
    /\ setup' = Null
    /\ Reject(Channels)

(* It comes back, and the setup callback opens a channel... *)
Reconnect ==
    /\ link = "down"
    /\ link' = "up"
    /\ \E c \in Free :
          /\ chan' = [chan EXCEPT ![c] = "opening"]
          /\ setup' = c
    /\ UNCHANGED <<channel, call, using>>

(* ... for the field, next to the callers that could not wait for it. *)
SetupDone ==
    /\ setup # Null
    /\ chan' = [chan EXCEPT ![setup] = "open"]
    /\ channel' = setup
    /\ setup' = Null
    /\ UNCHANGED <<link, call, using>>
-----------------------------------------------------------------------------
Next ==
    \/ \E p \in Callers :
          \/ UseChannel(p) \/ OpenChannel(p) \/ ChannelOpened(p)
          \/ Confirmed(p) \/ Failed(p)
    \/ \E c \in Channels : ChannelDies(c) \/ DeclarationFails(c)
    \/ Disconnect \/ Reconnect \/ SetupDone

Spec == Init /\ [][Next]_vars

(* The broker answers what it is asked while the connection lasts, and a   *)
(* rejection arrives.  Nothing makes anybody call.                         *)
Fairness ==
    /\ WF_vars(SetupDone)
    /\ \A p \in Callers : WF_vars(ChannelOpened(p) \/ Confirmed(p) \/ Failed(p))

FairSpec == Spec /\ Fairness
-----------------------------------------------------------------------------
(* "Drop it so nothing publishes through a dead one" (queueService.ts:72): *)
(* the field never names a channel that is closed or still declaring, in   *)
(* whatever order openings finish, channels die and the connection goes.   *)
FieldIsLive == channel # Null => link = "up" /\ chan[channel] = "open"

(* An opening belongs to one caller, or to the recovery... *)
OpeningInv ==
    /\ setup # Null => chan[setup] = "opening"
    /\ \A p \in Callers : call[p] = "opening" =>
          /\ using[p] # Null
          /\ chan[using[p]] = "opening"
          /\ using[p] # setup
          /\ \A q \in Callers : using[q] = using[p] => q = p

(* ... nothing is open on a connection that is not...                      *)
DownInv == link = "down" => chan = [c \in Channels |-> "free"]

(* ... and no confirm is awaited on a channel that is gone. *)
SentInv ==
    \A p \in Callers :
        /\ call[p] = "sent" => using[p] # Null /\ chan[using[p]] = "open"
        /\ call[p] \in {"idle", "failed"} => using[p] = Null

(* What the calls, the recovery and the field know of one another: the     *)
(* inductive form of FieldIsLive.                                          *)
ChannelInv == TypeOK /\ FieldIsLive /\ OpeningInv /\ DownInv /\ SentInv

(* Whoever calls gets an answer (queueService.ts:94-116).  The await of    *)
(* 'drain', which may have none, is in UploadHandler.tla.                  *)
CallsEnd == \A p \in Callers : call[p] # "idle" ~> call[p] = "idle"

(* "Recreating lazily here makes that self-healing"                        *)
(* (queueService.ts:142-145): once connection and channels stay up, calls  *)
(* fail no more.                                                           *)
Trouble ==
    \/ Disconnect \/ Reconnect
    \/ \E c \in Channels : ChannelDies(c) \/ DeclarationFails(c)

Heals ==
    <>[](link = "up") /\ <>[][~Trouble]_vars => <>[](\A p \in Callers : call[p] # "failed")
=============================================================================
