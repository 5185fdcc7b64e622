--------------------------- MODULE ChannelProofs ---------------------------
(* The field of QueueService names a live channel, for any number of calls *)
(* and of channels.                                                        *)
EXTENDS PublishChannel, TLAPS

(* connect() leaves one channel and no opening behind. *)
LEMMA ChannelInit == Init => ChannelInv
BY ChannelsAssumption
   DEF Init, ChannelInv, TypeOK, FieldIsLive, OpeningInv, DownInv, SentInv

(* A step of one call: the numbers of the others stay theirs. *)
LEMMA CallStep ==
    ASSUME ChannelInv, NEW p \in Callers,
           UseChannel(p) \/ OpenChannel(p) \/ ChannelOpened(p) \/ Confirmed(p) \/ Failed(p)
    PROVE  ChannelInv'
<1> USE ChannelsAssumption
<1>1. CASE UseChannel(p)
  BY <1>1 DEF UseChannel, Becomes, ChannelInv, TypeOK, FieldIsLive, OpeningInv, DownInv, SentInv
<1>2. CASE OpenChannel(p)
  <2>1. CASE link = "up" /\ Free # {}
    <3>1. PICK c \in Free : chan' = [chan EXCEPT ![c] = "opening"] /\ Becomes(p, "opening", c)
      BY <1>2, <2>1 DEF OpenChannel
    <3>2. TypeOK /\ OpeningInv /\ SentInv /\ channel = Null
      BY <1>2 DEF OpenChannel, ChannelInv
    <3>3. c \in Channels /\ c # Null /\ chan[c] = "free" /\ c # setup
      BY <3>2 DEF Free, OpeningInv, TypeOK
    <3>4. \A q \in Callers : using[q] # c
      BY <3>2, <3>3 DEF TypeOK, OpeningInv, SentInv
    <3>5. \A q \in Callers : q # p => call'[q] = call[q] /\ using'[q] = using[q]
      BY <3>1, <3>2 DEF Becomes, TypeOK
    <3>6. call'[p] = "opening" /\ using'[p] = c /\ chan'[c] = "opening"
      BY <3>1, <3>2, <3>3 DEF Becomes, TypeOK
    <3>7. TypeOK' /\ FieldIsLive' /\ DownInv' /\ SentInv'
      BY <1>2, <2>1, <3>1, <3>2, <3>3, <3>4, <3>5, <3>6
         DEF OpenChannel, Becomes, TypeOK, FieldIsLive, DownInv, SentInv
    <3>8. OpeningInv'
      BY <1>2, <3>1, <3>2, <3>3, <3>4, <3>5, <3>6
         DEF OpenChannel, TypeOK, OpeningInv
    <3> QED
      BY <3>7, <3>8 DEF ChannelInv
  <2>2. CASE ~(link = "up" /\ Free # {})
    BY <1>2, <2>2
       DEF OpenChannel, Becomes, ChannelInv, TypeOK, FieldIsLive, OpeningInv, DownInv, SentInv
  <2> QED
    BY <2>1, <2>2
<1>3. CASE ChannelOpened(p)
  <2>1. using[p] \in Channels /\ chan[using[p]] = "opening" /\ using[p] # setup
    BY <1>3 DEF ChannelOpened, ChannelInv, TypeOK, OpeningInv
  <2>2. link = "up"
    BY <2>1 DEF ChannelInv, TypeOK, DownInv
  <2> QED
    BY <1>3, <2>1, <2>2
       DEF ChannelOpened, Becomes, ChannelInv, TypeOK, FieldIsLive, OpeningInv, DownInv, SentInv
<1>4. CASE Confirmed(p) \/ Failed(p)
  BY <1>4
     DEF Confirmed, Failed, Becomes, ChannelInv, TypeOK, FieldIsLive, OpeningInv, DownInv, SentInv
<1> QED
  BY <1>1, <1>2, <1>3, <1>4

(* Nobody keeps a channel that is closed. *)
LEMMA ClosingStep ==
    ASSUME ChannelInv,
           Disconnect \/ \E c \in Channels : ChannelDies(c) \/ DeclarationFails(c)
    PROVE  ChannelInv'
<1> USE ChannelsAssumption
<1>1. CASE Disconnect
  BY <1>1
     DEF Disconnect, Reject, ChannelInv, TypeOK, FieldIsLive, OpeningInv, DownInv, SentInv
<1>2. ASSUME NEW c \in Channels, ChannelDies(c)
      PROVE  ChannelInv'
  BY <1>2
     DEF ChannelDies, Reject, ChannelInv, TypeOK, FieldIsLive, OpeningInv, DownInv, SentInv
<1>3. ASSUME NEW c \in Channels, DeclarationFails(c)
      PROVE  ChannelInv'
  BY <1>3
     DEF DeclarationFails, Reject, ChannelInv, TypeOK, FieldIsLive, OpeningInv, DownInv, SentInv
<1> QED
  BY <1>1, <1>2, <1>3

(* The recovery takes a number nobody else has. *)
LEMMA RecoveryStep ==
    ASSUME ChannelInv, Reconnect \/ SetupDone
    PROVE  ChannelInv'
<1> USE ChannelsAssumption
<1>1. CASE Reconnect
  <2>1. PICK c \in Free : chan' = [chan EXCEPT ![c] = "opening"] /\ setup' = c
    BY <1>1 DEF Reconnect
  <2> QED
    BY <1>1, <2>1
       DEF Reconnect, Free, ChannelInv, TypeOK, FieldIsLive, OpeningInv, DownInv, SentInv
<1>2. CASE SetupDone
  <2>1. link = "up"
    BY <1>2 DEF SetupDone, ChannelInv, TypeOK, OpeningInv, DownInv
  <2> QED
    BY <1>2, <2>1
       DEF SetupDone, ChannelInv, TypeOK, FieldIsLive, OpeningInv, DownInv, SentInv
<1> QED
  BY <1>1, <1>2

(* ChannelInv is an invariant: openings are exclusive, a dead connection   *)
(* has no channel, no confirm is awaited on a channel that is gone.        *)
THEOREM ChannelCorrect == Spec => []ChannelInv
<1>1. Init => ChannelInv
  BY ChannelInit
<1>2. ChannelInv /\ [Next]_vars => ChannelInv'
  <2> SUFFICES ASSUME ChannelInv, [Next]_vars
               PROVE  ChannelInv'
    OBVIOUS
  <2>1. CASE UNCHANGED vars
    BY <2>1 DEF vars, ChannelInv, TypeOK, FieldIsLive, OpeningInv, DownInv, SentInv
  <2>2. CASE Next
    BY <2>2, CallStep, ClosingStep, RecoveryStep DEF Next
  <2> QED
    BY <2>1, <2>2
<1> QED
  BY <1>1, <1>2, PTL DEF Spec

(* QueueService never publishes through a channel that is closed or not    *)
(* yet declared (queueService.ts:71-75, 147-186).                          *)
THEOREM FieldAlwaysLive == Spec => []FieldIsLive
<1>1. ChannelInv => FieldIsLive
  BY DEF ChannelInv
<1> QED
  BY <1>1, ChannelCorrect, PTL
=============================================================================
