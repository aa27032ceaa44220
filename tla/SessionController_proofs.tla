------------------------ MODULE SessionController_proofs ------------------------
(****************************************************************************)
(* Delivery for any devices, queue size, reconnect limit and number of      *)
(* events: the queues are bounded and owned, no wakeup is lost, and the     *)
(* frames a Hub sends never trip the integrity checks of a device.  Then the*)
(* controllers on top of it, for any messages: what is pending, what the Hub*)
(* has stored and what the timeline shows agree.                            *)
(****************************************************************************)
EXTENDS SessionController, TLAPS

Connected(d) == client[d] \in {"replaying", "ready"}

(* A client that will reconnect has an attempt left.                        *)
AttemptInv == \A d \in Devices : client[d] = "reconnecting" => attempt[d] < MaxReconnect

(* Awake: what the batch in hand does not reach has its notification in the *)
(* queue or still to come.                                                  *)
AwakeInv ==
    \A d \in Devices :
        serve[d] = "sending" /\ subscription[d] = "registered" /\ queue[d] = 0
          => \A s \in 1..last : s <= upTo[d] \/ s \in unpublished \cup lost

BookInv == TypeOK /\ NoOrphanSubscription /\ AttemptInv /\ AwakeInv

------------------------------------------------------------------------------
(* The frames in flight, in order: where the projection will be when the    *)
(* i-th arrives, and whether the client will be ready by then.              *)
Before(d, i) == IF i = 1 THEN projection[d] ELSE wire[d][i - 1].seq

ReadyBefore(d, i) ==
    client[d] = "ready" \/ \E j \in 1..(i - 1) : wire[d][j].kind = "ready"

Acceptable(d, i) ==
    LET f == wire[d][i] IN
    /\ f.kind = "event" => /\ f.seq = Before(d, i) + 1
                           /\ f.phase = "live" <=> ReadyBefore(d, i)
    /\ f.kind = "ready" => f.seq = Before(d, i) /\ ~ ReadyBefore(d, i)
    /\ f.kind = "close" => i = Len(wire[d]) /\ serve[d] = "none"

(* The coroutine goes on from the last frame it sent.                       *)
InStep(d) ==
    serve[d] # "none" =>
        /\ sent[d] = Before(d, Len(wire[d]) + 1)
        /\ phase[d] = "live" <=> ReadyBefore(d, Len(wire[d]) + 1)

FlightInv ==
    \A d \in Devices : Connected(d) =>
        /\ \A i \in 1..Len(wire[d]) : Acceptable(d, i)
        /\ InStep(d)

DeliveryInv == BookInv /\ FlightInv /\ NoIntegrityFailure

------------------------------------------------------------------------------
LEMMA DeliveryInit == Init => DeliveryInv
<1>. SUFFICES ASSUME Init
              PROVE  DeliveryInv
  OBVIOUS
<1>1. TypeOK
  BY BoundsAssumption DEF Init, TypeOK
<1>2. NoOrphanSubscription /\ AttemptInv /\ AwakeInv /\ FlightInv /\ NoIntegrityFailure
  BY DEF Init, NoOrphanSubscription, AttemptInv, AwakeInv, FlightInv, Connected,
         NoIntegrityFailure
<1>. QED  BY <1>1, <1>2 DEF DeliveryInv, BookInv

(* What a close frame and an event or ready frame are.                      *)
LEMMA FrameFields ==
    /\ \A code \in {1006, 1011, 1013} : Close(code) \in Frame /\ Close(code).kind = "close"
    /\ \A f \in Frame : f.kind \in {"event", "ready"} =>
         f.seq \in Nat /\ f.phase \in {"replay", "live"}
    /\ \A f \in Frame : f.kind \in {"event", "ready", "close"}
BY DEF Frame, Close

(* A wire stays one when a frame is added or the first one is taken.        *)
LEMMA WireFacts ==
    ASSUME NEW s \in Seq(Frame)
    PROVE  /\ \A f \in Frame : Append(s, f) \in Seq(Frame)
           /\ <<>> \in Seq(Frame)
           /\ s # <<>> => Tail(s) \in Seq(Frame) /\ Head(s) \in Frame
OBVIOUS

------------------------------------------------------------------------------
(* The books: types, owners of queues, reconnects left, and wakeups.        *)
LEMMA HandlersKeepBooks ==
    ASSUME BookInv, CommitEvent \/ \E s \in 1..MaxSeq : Publish(s) \/ LosePublish(s)
    PROVE  BookInv'
<1>. USE DEF BookInv
<1>1. CASE CommitEvent
  <2>1. TypeOK'
    BY <1>1 DEF CommitEvent, TypeOK, coroutine, device
  <2>2. AwakeInv'
    BY <1>1 DEF CommitEvent, TypeOK, AwakeInv, coroutine
  <2>. QED  BY <1>1, <2>1, <2>2 DEF CommitEvent, NoOrphanSubscription, AttemptInv, coroutine,
                                     device
<1>2. ASSUME NEW s \in 1..MaxSeq, Publish(s)
      PROVE  BookInv'
  <2>. USE <1>2 DEF Publish, device
  <2>1. queue' \in [Devices -> 0..QueueSize]
    BY BoundsAssumption DEF TypeOK
  <2>2. TypeOK'
    BY <2>1 DEF TypeOK
  <2>3. NoOrphanSubscription' /\ AttemptInv'
    BY DEF NoOrphanSubscription, AttemptInv, TypeOK
  <2>4. ASSUME NEW d \in Devices, serve'[d] = "sending", subscription'[d] = "registered",
               queue'[d] = 0
        PROVE  FALSE
    BY <2>4 DEF TypeOK
  <2>. QED  BY <2>2, <2>3, <2>4 DEF AwakeInv
<1>3. ASSUME NEW s \in 1..MaxSeq, LosePublish(s)
      PROVE  BookInv'
  <2>1. TypeOK'
    BY <1>3 DEF LosePublish, TypeOK, coroutine, device
  <2>2. AwakeInv'
    BY <1>3 DEF LosePublish, TypeOK, AwakeInv, coroutine
  <2>. QED  BY <1>3, <2>1, <2>2 DEF LosePublish, NoOrphanSubscription, AttemptInv, coroutine,
                                     device
<1>. QED  BY <1>1, <1>2, <1>3

LEMMA ServingKeepsBooks ==
    ASSUME BookInv, NEW d \in Devices, ServeStep(d) \/ CloseFailed(d)
    PROVE  BookInv'
<1>. USE DEF BookInv, hub, device
<1>1. CASE Register(d)
  <2>1. TypeOK'
    BY <1>1, BoundsAssumption, SMTT(30) DEF Register, TypeOK
  <2>. QED  BY <1>1, <2>1 DEF Register, TypeOK, NoOrphanSubscription, AttemptInv, AwakeInv
<1>2. CASE ReadLog(d)
  <2>1. TypeOK'
    BY <1>2 DEF ReadLog, TypeOK
  <2>2. NoOrphanSubscription' /\ AttemptInv'
    BY <1>2 DEF ReadLog, TypeOK, NoOrphanSubscription, AttemptInv
  <2>3. AwakeInv'
    BY <1>2 DEF ReadLog, TypeOK, AwakeInv
  <2>. QED  BY <2>1, <2>2, <2>3
<1>3. CASE SendEvent(d)
  <2>1. [kind |-> "event", phase |-> phase[d], seq |-> sent[d] + 1] \in Frame
    <3>1. phase[d] \in {"replay", "live"} /\ sent[d] + 1 \in Nat
      BY DEF TypeOK
    <3>. QED  BY <3>1 DEF Frame
  <2>2. TypeOK'
    BY <1>3, <2>1 DEF SendEvent, Send, TypeOK
  <2>. QED  BY <1>3, <2>2 DEF SendEvent, NoOrphanSubscription, AttemptInv, AwakeInv
<1>4. CASE TakeNotification(d)
  <2>1. queue' \in [Devices -> 0..QueueSize]
    BY <1>4, BoundsAssumption DEF TakeNotification, TypeOK
  <2>2. TypeOK'
    BY <1>4, <2>1 DEF TakeNotification, TypeOK
  <2>3. NoOrphanSubscription' /\ AttemptInv'
    BY <1>4 DEF TakeNotification, TypeOK, NoOrphanSubscription, AttemptInv
  <2>4. AwakeInv'
    BY <1>4 DEF TakeNotification, TypeOK, AwakeInv
  <2>. QED  BY <2>2, <2>3, <2>4
<1>5. CASE SendReady(d)
  <2>1. [kind |-> "ready", phase |-> "live", seq |-> sent[d]] \in Frame
    <3>1. sent[d] \in Nat
      BY DEF TypeOK
    <3>. QED  BY <3>1 DEF Frame
  <2>2. TypeOK'
    BY <1>5, <2>1 DEF SendReady, Send, TypeOK
  <2>. QED  BY <1>5, <2>2 DEF SendReady, NoOrphanSubscription, AttemptInv, AwakeInv
<1>6. CASE CloseOverflowed(d) \/ CloseFailed(d) \/ NoticeDisconnect(d)
  <2>1. /\ Unregister(d)
        /\ \/ UNCHANGED wire
           \/ \E code \in {1011, 1013} : Send(d, Close(code))
    BY <1>6 DEF CloseOverflowed, CloseFailed, NoticeDisconnect
  <2>2. wire' \in [Devices -> Seq(Frame)]
    <3>1. ASSUME NEW code \in {1011, 1013}
          PROVE  Append(wire[d], Close(code)) \in Seq(Frame)
      BY FrameFields, WireFacts DEF TypeOK
    <3>2. wire \in [Devices -> Seq(Frame)]
      BY DEF TypeOK
    <3>3. CASE UNCHANGED wire
      BY <3>2, <3>3
    <3>4. ASSUME NEW code \in {1011, 1013}, Send(d, Close(code))
          PROVE  wire' \in [Devices -> Seq(Frame)]
      <4>. DEFINE s == Append(wire[d], Close(code))
      <4>1. s \in Seq(Frame) /\ wire' = [wire EXCEPT ![d] = s]
        BY <3>1, <3>4 DEF Send
      <4>. HIDE DEF s
      <4>. QED  BY <3>2, <4>1
    <3>. QED  BY <2>1, <3>3, <3>4
  <2>3. queue' \in [Devices -> 0..QueueSize]
    BY <2>1, BoundsAssumption DEF Unregister, TypeOK
  <2>4. TypeOK'
    BY <2>1, <2>2, <2>3, SMTT(20) DEF Unregister, TypeOK
  <2>. QED  BY <2>1, <2>4 DEF Unregister, TypeOK, NoOrphanSubscription, AttemptInv, AwakeInv
<1>. QED  BY <1>1, <1>2, <1>3, <1>4, <1>5, <1>6 DEF ServeStep

LEMMA RestartKeepsBooks ==
    ASSUME BookInv, HubRestart
    PROVE  BookInv'
<1>. USE DEF BookInv, HubRestart, device
<1>1. wire' \in [Devices -> Seq(Frame)]
  BY FrameFields DEF TypeOK
<1>2. TypeOK'
  BY <1>1, BoundsAssumption DEF TypeOK
<1>. QED  BY <1>2 DEF NoOrphanSubscription, AttemptInv, AwakeInv

LEMMA DevicesKeepBooks ==
    ASSUME BookInv, NEW d \in Devices, DeviceNext(d)
    PROVE  BookInv'
<1>. USE DEF BookInv, hub, coroutine
<1>1. CASE Start(d)
  <2>1. TypeOK'
    BY <1>1, BoundsAssumption, SMTT(30) DEF Start, TypeOK
  <2>2. NoOrphanSubscription' /\ AttemptInv'
    BY <1>1 DEF Start, TypeOK, NoOrphanSubscription, AttemptInv
  <2>3. AwakeInv'
    BY <1>1 DEF Start, TypeOK, AwakeInv
  <2>. QED  BY <2>1, <2>2, <2>3
<1>2. CASE Reconnect(d)
  <2>1. attempt' \in [Devices -> 0..MaxReconnect]
    BY <1>2, BoundsAssumption DEF Reconnect, TypeOK, AttemptInv
  <2>2. TypeOK'
    BY <1>2, <2>1 DEF Reconnect, TypeOK
  <2>3. NoOrphanSubscription' /\ AttemptInv'
    BY <1>2 DEF Reconnect, TypeOK, NoOrphanSubscription, AttemptInv
  <2>4. AwakeInv'
    BY <1>2 DEF Reconnect, TypeOK, AwakeInv
  <2>. QED  BY <2>2, <2>3, <2>4
<1>3. CASE ReceiveEvent(d) \/ ReceiveReady(d) \/ ReceiveClose(d) \/ LoseConnection(d)
  <2>1. UNCHANGED <<hub, coroutine>>
    BY <1>3 DEF ReceiveEvent, ReceiveReady, ReceiveClose, LoseConnection
  <2>2. wire' \in [Devices -> Seq(Frame)]
    <3>1. wire \in [Devices -> Seq(Frame)] /\ <<>> \in Seq(Frame)
      BY WireFacts DEF TypeOK
    <3>2. wire[d] # <<>> => Tail(wire[d]) \in Seq(Frame)
      BY <3>1, WireFacts
    <3>3. \/ wire' = [wire EXCEPT ![d] = <<>>]
          \/ wire[d] # <<>> /\ wire' = [wire EXCEPT ![d] = Tail(@)]
      BY <1>3 DEF ReceiveEvent, ReceiveReady, ReceiveClose, LoseConnection, FailProtocol
    <3>. QED  BY <3>1, <3>2, <3>3
  <2>3. projection' \in [Devices -> Nat]
    <3>1. CASE ReceiveEvent(d)
      <4>1. Head(wire[d]) \in Frame
        BY <3>1, WireFacts DEF ReceiveEvent, TypeOK
      <4>2. Head(wire[d]).seq \in Nat
        BY <3>1, <4>1, FrameFields DEF ReceiveEvent
      <4>3. projection' = projection \/ ApplyEvent(d, Head(wire[d]).seq)
        BY <3>1 DEF ReceiveEvent, FailProtocol
      <4>. QED  BY <4>2, <4>3 DEF ApplyEvent, TypeOK
    <3>. QED  BY <1>3, <3>1 DEF ReceiveReady, ReceiveClose, LoseConnection, FailProtocol, TypeOK
  <2>4. fault' \in [Devices -> {"none", "delivery", "gap", "ready"}]
    <3>1. \E why \in {"delivery", "gap", "ready"} :
            fault' = fault \/ fault' = [fault EXCEPT ![d] = why]
      BY <1>3 DEF ReceiveEvent, ReceiveReady, ReceiveClose, LoseConnection, FailProtocol
    <3>. QED  BY <3>1 DEF TypeOK
  <2>5. PICK to \in {"closed", "ready", "reconnecting", "protocolError"} \cup {client[d]} :
          /\ client' = [client EXCEPT ![d] = to]
          /\ to = "reconnecting" => client[d] = to \/ attempt[d] < MaxReconnect
          /\ attempt' = attempt \/ (attempt' = [attempt EXCEPT ![d] = 0] /\ to = "ready")
    <3>1. CASE ReceiveEvent(d)
      BY <3>1 DEF ReceiveEvent, FailProtocol, TypeOK
    <3>2. CASE ReceiveReady(d)
      BY <3>2 DEF ReceiveReady, FailProtocol, TypeOK
    <3>3. CASE ReceiveClose(d) \/ LoseConnection(d)
      BY <3>3 DEF ReceiveClose, LoseConnection, AfterClose, TypeOK
    <3>. QED  BY <1>3, <3>1, <3>2, <3>3
  <2>. attempt' \in [Devices -> 0..MaxReconnect]
    <3>1. attempt \in [Devices -> 0..MaxReconnect] /\ 0 \in 0..MaxReconnect
      BY BoundsAssumption DEF TypeOK
    <3>. QED  BY <2>5, <3>1
  <2>6. client' \in [Devices -> {"closed", "replaying", "ready", "reconnecting",
                                 "protocolError"}]
    BY <2>5 DEF TypeOK
  <2>7. AttemptInv'
    BY <2>5 DEF AttemptInv, TypeOK
  <2>8. TypeOK'
    BY <2>1, <2>2, <2>3, <2>4, <2>6 DEF TypeOK
  <2>. QED  BY <2>1, <2>7, <2>8 DEF NoOrphanSubscription, AwakeInv
<1>. QED  BY <1>1, <1>2, <1>3 DEF DeviceNext, ClientStep

------------------------------------------------------------------------------
(* The frames in flight.  Only a device's own steps touch its flight, but   *)
(* for the Hub's restart.                                                   *)
Flight(d) == <<serve[d], phase[d], sent[d], wire[d], client[d], projection[d], fault[d]>>

FlightOf(d) ==
    /\ fault[d] = "none"
    /\ Connected(d) => /\ \A i \in 1..Len(wire[d]) : Acceptable(d, i)
                       /\ InStep(d)

LEMMA FlightStays ==
    ASSUME NEW d \in Devices, FlightOf(d), UNCHANGED Flight(d)
    PROVE  FlightOf(d)'
<1>. USE DEF Flight
<1>1. Before(d, 1) = Before(d, 1)' /\ \A i : Before(d, i)' = Before(d, i)
  BY DEF Before
<1>2. \A i : ReadyBefore(d, i)' <=> ReadyBefore(d, i)
  BY DEF ReadyBefore
<1>. QED  BY <1>1, <1>2 DEF FlightOf, Connected, Acceptable, InStep

(* A frame is added at the end.                                             *)
LEMMA Appended ==
    ASSUME TypeOK, NEW d \in Devices, NEW f \in Frame,
           wire' = [wire EXCEPT ![d] = Append(@, f)],
           UNCHANGED <<client, projection>>
    PROVE  /\ Len(wire'[d]) = Len(wire[d]) + 1
           /\ wire'[d][Len(wire[d]) + 1] = f
           /\ \A i \in 1..Len(wire[d]) : wire'[d][i] = wire[d][i]
           /\ \A i \in 1..(Len(wire[d]) + 1) :
                /\ Before(d, i)' = Before(d, i)
                /\ ReadyBefore(d, i)' <=> ReadyBefore(d, i)
<1>1. wire[d] \in Seq(Frame) /\ wire'[d] = Append(wire[d], f)
  BY DEF TypeOK
<1>2. /\ Len(wire'[d]) = Len(wire[d]) + 1 /\ Len(wire[d]) \in Nat
      /\ wire'[d][Len(wire[d]) + 1] = f
      /\ \A i \in 1..Len(wire[d]) : wire'[d][i] = wire[d][i]
  BY <1>1
<1>3. ASSUME NEW i \in 1..(Len(wire[d]) + 1)
      PROVE  /\ Before(d, i)' = Before(d, i)
             /\ ReadyBefore(d, i)' <=> ReadyBefore(d, i)
  BY <1>2, <1>3 DEF Before, ReadyBefore
<1>. QED  BY <1>2, <1>3

(* The first frame is taken.                                                *)
LEMMA Taken ==
    ASSUME TypeOK, NEW d \in Devices, wire[d] # <<>>,
           wire' = [wire EXCEPT ![d] = Tail(@)]
    PROVE  /\ Len(wire[d]) \in Nat \ {0} /\ Len(wire'[d]) = Len(wire[d]) - 1
           /\ \A i \in 1..Len(wire'[d]) : wire'[d][i] = wire[d][i + 1]
           /\ Head(wire[d]) = wire[d][1] /\ wire[d][1] \in Frame
BY DEF TypeOK

LEMMA SendingKeepsFlight ==
    ASSUME TypeOK, NEW d \in Devices, FlightOf(d), SendEvent(d) \/ SendReady(d)
    PROVE  FlightOf(d)'
<1>1. PICK f \in Frame :
        /\ wire' = [wire EXCEPT ![d] = Append(@, f)]
        /\ \/ /\ f = [kind |-> "event", phase |-> phase[d], seq |-> sent[d] + 1]
              /\ sent'[d] = sent[d] + 1 /\ phase'[d] = phase[d]
           \/ /\ f = [kind |-> "ready", phase |-> "live", seq |-> sent[d]]
              /\ sent'[d] = sent[d] /\ phase[d] = "replay" /\ phase'[d] = "live"
  <2>1. phase[d] \in {"replay", "live"} /\ sent[d] \in Nat /\ sent[d] + 1 \in Nat
    BY DEF TypeOK
  <2>2. CASE SendEvent(d)
    <3>1. [kind |-> "event", phase |-> phase[d], seq |-> sent[d] + 1] \in Frame
      BY <2>1 DEF Frame
    <3>. QED  BY <2>2, <3>1 DEF SendEvent, Send, TypeOK
  <2>3. CASE SendReady(d)
    <3>1. [kind |-> "ready", phase |-> "live", seq |-> sent[d]] \in Frame
      BY <2>1 DEF Frame
    <3>. QED  BY <2>3, <3>1 DEF SendReady, Send, BatchSent, TypeOK
  <2>. QED  BY <2>2, <2>3
<1>2. UNCHANGED <<client, projection, fault, serve>> /\ serve[d] = "sending"
  BY DEF SendEvent, SendReady, BatchSent, device
<1>. wire[d] \in Seq(Frame)
  BY DEF TypeOK
<1>. PICK n \in Nat : n = Len(wire[d])
  OBVIOUS
<1>3. /\ Len(wire'[d]) = n + 1 /\ wire'[d][n + 1] = f
      /\ \A i \in 1..n : wire'[d][i] = wire[d][i]
      /\ \A i \in 1..(n + 1) : /\ Before(d, i)' = Before(d, i)
                               /\ ReadyBefore(d, i)' <=> ReadyBefore(d, i)
  <2>1. UNCHANGED <<client, projection>>
    BY <1>2
  <2>. QED  BY <1>1, <2>1, Appended, ZenonT(20)
<1>. SUFFICES ASSUME Connected(d)
              PROVE  (\A i \in 1..Len(wire[d]) : Acceptable(d, i))' /\ InStep(d)'
  BY <1>2 DEF FlightOf, Connected
<1>4. /\ \A i \in 1..n : Acceptable(d, i) /\ wire[d][i].kind # "close"
      /\ sent[d] = Before(d, n + 1)
      /\ phase[d] = "live" <=> ReadyBefore(d, n + 1)
  BY <1>2 DEF FlightOf, InStep, Acceptable
<1>5. ASSUME NEW i \in 1..n
      PROVE  Acceptable(d, i)'
  BY <1>3, <1>4 DEF Acceptable
<1>6. Acceptable(d, n + 1)'
  BY <1>1, <1>3, <1>4 DEF Acceptable
<1>7. Before(d, n + 2)' = f.seq
  BY <1>3 DEF Before
<1>8. ReadyBefore(d, n + 2)' <=> ReadyBefore(d, n + 1) \/ f.kind = "ready"
  <2>1. ReadyBefore(d, n + 2)' <=>
          \/ client'[d] = "ready" \/ wire'[d][n + 1].kind = "ready"
          \/ \E j \in 1..n : wire'[d][j].kind = "ready"
    BY <1>3 DEF ReadyBefore
  <2>2. ReadyBefore(d, n + 1) <=>
          client[d] = "ready" \/ \E j \in 1..n : wire[d][j].kind = "ready"
    BY <1>3 DEF ReadyBefore
  <2>. QED  BY <1>2, <1>3, <2>1, <2>2
<1>9. InStep(d)'
  BY <1>1, <1>3, <1>4, <1>7, <1>8 DEF InStep
<1>. QED  BY <1>3, <1>5, <1>6, <1>9

(* A close frame is the last one, and nobody serves after it.               *)
LEMMA ClosingKeepsFlight ==
    ASSUME TypeOK, NEW d \in Devices, FlightOf(d), serve[d] # "none", serve'[d] = "none",
           NEW code \in {1006, 1011, 1013},
           wire'[d] = Append(wire[d], Close(code)),
           UNCHANGED <<client[d], projection[d], fault[d]>>
    PROVE  FlightOf(d)'
<1>. wire[d] \in Seq(Frame)
  BY DEF TypeOK
<1>. PICK n \in Nat : n = Len(wire[d])
  OBVIOUS
<1>1. wire[d] \in Seq(Frame) /\ Close(code) \in Frame /\ Close(code).kind = "close"
  BY FrameFields DEF TypeOK
<1>2. /\ Len(wire'[d]) = n + 1 /\ wire'[d][n + 1] = Close(code)
      /\ \A i \in 1..n : wire'[d][i] = wire[d][i]
  BY <1>1
<1>. SUFFICES ASSUME Connected(d)
              PROVE  (\A i \in 1..Len(wire[d]) : Acceptable(d, i))'
  BY DEF FlightOf, Connected, InStep
<1>3. \A i \in 1..n : Acceptable(d, i) /\ wire[d][i].kind # "close"
  BY DEF FlightOf, Acceptable
<1>4. ASSUME NEW i \in 1..n
      PROVE  Before(d, i)' = Before(d, i) /\ (ReadyBefore(d, i)' <=> ReadyBefore(d, i))
  BY <1>2 DEF Before, ReadyBefore
<1>5. ASSUME NEW i \in 1..n
      PROVE  Acceptable(d, i)'
  BY <1>2, <1>3, <1>4 DEF Acceptable
<1>6. Acceptable(d, n + 1)'
  BY <1>1, <1>2 DEF Acceptable
<1>. QED  BY <1>2, <1>5, <1>6

(* The next frame is the one the client waits for: it is applied, and what  *)
(* comes after it goes on from there.                                       *)
LEMMA ReceivingKeepsFlight ==
    ASSUME TypeOK, NEW d \in Devices, FlightOf(d), ReceiveEvent(d) \/ ReceiveReady(d)
    PROVE  FlightOf(d)'
<1>. wire[d] \in Seq(Frame)
  BY DEF TypeOK
<1>. PICK n \in Nat : n = Len(wire[d])
  OBVIOUS
<1>. PICK f : f = wire[d][1]
  OBVIOUS
<1>1. /\ UNCHANGED <<serve, sent, phase>> /\ wire[d] # <<>> /\ Connected(d)
      /\ n # 0 /\ Head(wire[d]) = f /\ f \in Frame
  BY DEF ReceiveEvent, ReceiveReady, coroutine, Connected, TypeOK
<1>2. Acceptable(d, 1) /\ Before(d, 1) = projection[d]
      /\ (ReadyBefore(d, 1) <=> client[d] = "ready")
  BY <1>1 DEF FlightOf, Before, ReadyBefore
<1>3. /\ wire' = [wire EXCEPT ![d] = Tail(@)]
      /\ projection'[d] = f.seq /\ fault'[d] = "none"
      /\ Connected(d)'
      /\ client'[d] = "ready" <=> client[d] = "ready" \/ f.kind = "ready"
  <2>1. CASE ReceiveEvent(d)
    <3>1. f.kind = "event" /\ f.seq = projection[d] + 1 /\ f.seq \in Nat
          /\ f.phase = Expected(d)
      BY <1>1, <1>2, <2>1, FrameFields DEF ReceiveEvent, Acceptable, Expected
    <3>2. ApplyEvent(d, f.seq) /\ wire' = [wire EXCEPT ![d] = Tail(@)]
          /\ UNCHANGED <<client, attempt, fault>>
      BY <1>1, <2>1, <3>1 DEF ReceiveEvent, Applicable, TypeOK
    <3>. QED  BY <1>1, <3>1, <3>2 DEF ApplyEvent, Connected, FlightOf, TypeOK
  <2>2. CASE ReceiveReady(d)
    <3>1. f.kind = "ready" /\ f.seq = projection[d] /\ client[d] = "replaying"
      BY <1>1, <1>2, <2>2 DEF ReceiveReady, Acceptable, Connected
    <3>2. /\ client' = [client EXCEPT ![d] = "ready"]
          /\ wire' = [wire EXCEPT ![d] = Tail(@)]
          /\ UNCHANGED <<projection, fault>>
      BY <1>1, <2>2, <3>1 DEF ReceiveReady
    <3>. QED  BY <1>1, <3>1, <3>2 DEF Connected, FlightOf, TypeOK
  <2>. QED  BY <2>1, <2>2
<1>4. /\ Len(wire'[d]) = n - 1
      /\ \A i \in 1..(n - 1) : wire'[d][i] = wire[d][i + 1]
  BY <1>1, <1>3, Taken
<1>5. ASSUME NEW i \in 1..n
      PROVE  Before(d, i)' = Before(d, i + 1)
  BY <1>1, <1>3, <1>4 DEF Before
<1>6. ASSUME NEW i \in 1..n
      PROVE  ReadyBefore(d, i)' <=> ReadyBefore(d, i + 1)
  <2>1. ReadyBefore(d, i)' <=>
          client'[d] = "ready" \/ \E j \in 1..(i - 1) : wire[d][j + 1].kind = "ready"
    <3>1. \A j \in 1..(i - 1) : j \in 1..(n - 1)
      OBVIOUS
    <3>. QED  BY <1>4, <3>1 DEF ReadyBefore
  <2>2. (\E j \in 1..(i - 1) : wire[d][j + 1].kind = "ready")
          <=> \E j \in 2..i : wire[d][j].kind = "ready"
    <3>1. ASSUME NEW j \in 2..i, wire[d][j].kind = "ready"
          PROVE  \E k \in 1..(i - 1) : wire[d][k + 1].kind = "ready"
      <4>1. j - 1 \in 1..(i - 1) /\ (j - 1) + 1 = j
        OBVIOUS
      <4>. QED  BY <3>1, <4>1
    <3>2. ASSUME NEW k \in 1..(i - 1), wire[d][k + 1].kind = "ready"
          PROVE  \E j \in 2..i : wire[d][j].kind = "ready"
      <4>1. k + 1 \in 2..i
        OBVIOUS
      <4>. QED  BY <3>2, <4>1
    <3>. QED  BY <3>1, <3>2
  <2>3. ReadyBefore(d, i + 1) <=>
          \/ client[d] = "ready" \/ f.kind = "ready"
          \/ \E j \in 2..i : wire[d][j].kind = "ready"
    BY <1>1 DEF ReadyBefore
  <2>. QED  BY <1>3, <2>1, <2>2, <2>3
<1>7. ASSUME NEW i \in 1..(n - 1)
      PROVE  Acceptable(d, i)'
  <2>1. i + 1 \in 1..n /\ i \in 1..n /\ Acceptable(d, i + 1)
    BY <1>1 DEF FlightOf
  <2>2. /\ wire'[d][i] = wire[d][i + 1] /\ serve'[d] = serve[d]
        /\ Before(d, i)' = Before(d, i + 1)
        /\ ReadyBefore(d, i)' <=> ReadyBefore(d, i + 1)
        /\ i + 1 = Len(wire[d]) => i = Len(wire'[d])
    BY <1>1, <1>4, <1>5, <1>6, <2>1
  <2>. QED  BY <2>1, <2>2 DEF Acceptable
<1>8. InStep(d)'
  <2>1. n \in 1..n /\ Len(wire'[d]) + 1 = n
    BY <1>1, <1>4
  <2>. QED  BY <1>1, <1>5, <1>6, <2>1 DEF InStep, FlightOf
<1>. QED  BY <1>3, <1>4, <1>7, <1>8 DEF FlightOf

(* A new connection has nothing in flight and begins at the projection.     *)
LEMMA OpeningKeepsFlight ==
    ASSUME TypeOK, NEW d \in Devices, FlightOf(d), Start(d) \/ Reconnect(d)
    PROVE  FlightOf(d)'
<1>1. /\ wire'[d] = <<>> /\ client'[d] = "replaying" /\ fault'[d] = "none"
      /\ phase'[d] = "replay" /\ sent'[d] = projection'[d]
  BY DEF Start, Reconnect, FlightOf, TypeOK
<1>. QED  BY <1>1 DEF FlightOf, Acceptable, InStep, Before, ReadyBefore

LEMMA FlightIsAll == FlightInv /\ NoIntegrityFailure <=> \A d \in Devices : FlightOf(d)
BY DEF FlightInv, FlightOf, NoIntegrityFailure

(* A step of the Hub for one device.                                        *)
LEMMA ServingKeepsFlight ==
    ASSUME TypeOK, NEW d \in Devices, \A e \in Devices : FlightOf(e),
           ServeStep(d) \/ CloseFailed(d)
    PROVE  \A e \in Devices : FlightOf(e)'
<1>1. ASSUME NEW e \in Devices \ {d}
      PROVE  FlightOf(e)'
  <2>1. UNCHANGED Flight(e)
    BY DEF ServeStep, CloseFailed, Register, ReadLog, SendEvent, TakeNotification, SendReady,
           CloseOverflowed, NoticeDisconnect, Unregister, Send, device, Flight, TypeOK
  <2>. QED  BY <2>1, FlightStays
<1>2. CASE SendEvent(d) \/ SendReady(d)
  BY <1>1, <1>2, SendingKeepsFlight
<1>3. CASE CloseOverflowed(d) \/ CloseFailed(d)
  <2>1. PICK code \in {1011, 1013} : Send(d, Close(code))
    BY <1>3 DEF CloseOverflowed, CloseFailed
  <2>2. /\ serve[d] # "none" /\ serve'[d] = "none"
        /\ wire'[d] = Append(wire[d], Close(code))
        /\ UNCHANGED <<client[d], projection[d], fault[d]>>
    BY <1>3, <2>1 DEF CloseOverflowed, CloseFailed, BatchSent, Unregister, Send, device, TypeOK
  <2>. QED  BY <1>1, <2>2, ClosingKeepsFlight
<1>4. CASE NoticeDisconnect(d)
  BY <1>1, <1>4 DEF NoticeDisconnect, Unregister, device, FlightOf, Connected
<1>5. CASE Register(d) \/ ReadLog(d) \/ TakeNotification(d)
  <2>1. /\ UNCHANGED <<phase, sent, wire, client, projection, fault>>
        /\ serve[d] # "none" /\ serve'[d] # "none"
    BY <1>5 DEF Register, ReadLog, TakeNotification, BatchSent, device, TypeOK
  <2>2. /\ \A i : Before(d, i)' = Before(d, i)
        /\ \A i : ReadyBefore(d, i)' <=> ReadyBefore(d, i)
    BY <2>1 DEF Before, ReadyBefore
  <2>3. FlightOf(d)'
    BY <2>1, <2>2 DEF FlightOf, Connected, Acceptable, InStep
  <2>. QED  BY <1>1, <2>3
<1>. QED  BY <1>2, <1>3, <1>4, <1>5 DEF ServeStep

LEMMA DevicesKeepFlight ==
    ASSUME TypeOK, NEW d \in Devices, \A e \in Devices : FlightOf(e), DeviceNext(d)
    PROVE  \A e \in Devices : FlightOf(e)'
<1>1. ASSUME NEW e \in Devices \ {d}
      PROVE  FlightOf(e)'
  <2>1. UNCHANGED Flight(e)
    BY DEF DeviceNext, ClientStep, ReceiveEvent, ReceiveReady, ReceiveClose, Reconnect, Start,
           LoseConnection, FailProtocol, ApplyEvent, coroutine, Flight, TypeOK
  <2>. QED  BY <2>1, FlightStays
<1>2. CASE ReceiveClose(d) \/ LoseConnection(d)
  <2>1. fault' = fault /\ ~ Connected(d)'
    BY <1>2 DEF ReceiveClose, LoseConnection, AfterClose, Connected, TypeOK
  <2>. QED  BY <1>1, <2>1 DEF FlightOf
<1>. QED  BY <1>1, <1>2, OpeningKeepsFlight, ReceivingKeepsFlight DEF DeviceNext, ClientStep

LEMMA HubKeepsFlight ==
    ASSUME TypeOK, \A e \in Devices : FlightOf(e),
           \/ CommitEvent \/ HubRestart
           \/ \E s \in 1..MaxSeq : Publish(s) \/ LosePublish(s)
    PROVE  \A e \in Devices : FlightOf(e)'
<1>1. CASE HubRestart
  <2>. SUFFICES ASSUME NEW d \in Devices
                PROVE  FlightOf(d)'
    OBVIOUS
  <2>1. CASE serve[d] = "none"
    BY <1>1, <2>1, FlightStays DEF HubRestart, Flight, device, TypeOK
  <2>2. CASE serve[d] # "none"
    <3>1. /\ serve'[d] = "none" /\ wire'[d] = Append(wire[d], Close(1006))
          /\ UNCHANGED <<client[d], projection[d], fault[d]>>
      BY <1>1, <2>2 DEF HubRestart, device
    <3>. QED  BY <2>2, <3>1, ClosingKeepsFlight
  <2>. QED  BY <2>1, <2>2
<1>2. CASE CommitEvent \/ \E s \in 1..MaxSeq : Publish(s) \/ LosePublish(s)
  <2>1. ASSUME NEW e \in Devices
        PROVE  UNCHANGED Flight(e)
    BY <1>2 DEF CommitEvent, Publish, LosePublish, coroutine, device, Flight
  <2>. QED  BY <2>1, FlightStays
<1>. QED  BY <1>1, <1>2

------------------------------------------------------------------------------
LEMMA DeliveryNext == DeliveryInv /\ [Next]_vars => DeliveryInv'
<1>. SUFFICES ASSUME DeliveryInv, [Next]_vars
              PROVE  DeliveryInv'
  OBVIOUS
<1>. USE DEF DeliveryInv
<1>1. BookInv /\ TypeOK /\ \A d \in Devices : FlightOf(d)
  BY FlightIsAll DEF BookInv
<1>2. SUFFICES BookInv' /\ \A d \in Devices : FlightOf(d)'
  <2>1. FlightInv' /\ NoIntegrityFailure' <=> \A d \in Devices : FlightOf(d)'
    BY DEF FlightInv, FlightOf, NoIntegrityFailure
  <2>. QED  BY <1>2, <2>1
<1>3. CASE \/ CommitEvent
           \/ \E s \in 1..MaxSeq : Publish(s) \/ LosePublish(s)
  BY <1>1, <1>3, HandlersKeepBooks, HubKeepsFlight
<1>4. CASE HubRestart
  BY <1>1, <1>4, RestartKeepsBooks, HubKeepsFlight
<1>5. CASE \E d \in Devices : ServeStep(d) \/ CloseFailed(d)
  BY <1>1, <1>5, ServingKeepsBooks, ServingKeepsFlight
<1>6. CASE \E d \in Devices : DeviceNext(d)
  BY <1>1, <1>6, DevicesKeepBooks, DevicesKeepFlight
<1>7. CASE UNCHANGED vars
  <2>1. UNCHANGED <<hub, coroutine, wire, device>>
    BY <1>7 DEF vars
  <2>2. TypeOK'
    BY <1>1, <2>1 DEF TypeOK, hub, coroutine, device
  <2>3. NoOrphanSubscription' /\ AttemptInv' /\ AwakeInv'
    BY <2>1 DEF BookInv, NoOrphanSubscription, AttemptInv, AwakeInv, hub, coroutine, device
  <2>4. \A d \in Devices : FlightOf(d)'
    BY <1>1, <2>1, FlightStays DEF Flight, coroutine, device
  <2>. QED  BY <2>2, <2>3, <2>4 DEF BookInv
<1>. QED  BY <1>3, <1>4, <1>5, <1>6, <1>7 DEF Next, HubNext

(* The inductive invariant: books, wakeups, and the frames in flight.       *)
THEOREM DeliveryInvariant == Spec => []DeliveryInv
<1>. QED  BY DeliveryInit, DeliveryNext, PTL DEF Spec

(* SubscriptionManager: queues stay within QueueSize and none outlives the  *)
(* coroutine of its connection, for any number of devices and restarts.     *)
THEOREM QueuesHaveOwners == Spec => []SubscriptionsAgree
<1>1. DeliveryInv => SubscriptionsAgree
  BY DEF DeliveryInv, BookInv, SubscriptionsAgree
<1>. QED  BY <1>1, DeliveryInvariant, PTL

(* _serve_conversation_events sleeps only when every committed event has    *)
(* been sent, or its publication is still to come or was lost.              *)
THEOREM NoWakeupLost == Spec => []NoMissedEvent
<1>1. DeliveryInv => NoMissedEvent
  BY DEF DeliveryInv, BookInv, AwakeInv, NoMissedEvent, Idle, BatchSent, TypeOK
<1>. QED  BY <1>1, DeliveryInvariant, PTL

(* The checks of HubWebSocketClient and SessionProjection never fail on     *)
(* what the Hub sends, in any interleaving, for any sizes.                  *)
THEOREM FramesAreAccepted == Spec => []NoIntegrityFailure
<1>1. DeliveryInv => NoIntegrityFailure
  BY DEF DeliveryInv
<1>. QED  BY <1>1, DeliveryInvariant, PTL

------------------------------------------------------------------------------
(* The controller on top: its replies and results move the projection past  *)
(* the WebSocket, so gaps are possible (FlightInv is not kept) but the books*)
(* are.                                                                     *)

(* What a step of the controller is for the session below it.               *)
Overtake(d) == /\ \E s \in 0..last : ApplyEvent(d, s)
               /\ UNCHANGED <<hub, coroutine, wire, client, attempt, fault>>

GiveUp(d) == /\ \E why \in {"none", "gap"} : FailProtocol(d, why)
             /\ UNCHANGED <<hub, coroutine>>

LEMMA SessionSteps ==
    ASSUME ControllerTypeOK, [ControllerNext]_allVars
    PROVE  \/ [Next]_vars
           \/ \E d \in Devices : Overtake(d) \/ GiveUp(d)
<1>1. CASE UNCHANGED allVars
  BY <1>1 DEF allVars
<1>2. CASE HubNext /\ UNCHANGED controller
  BY <1>2 DEF Next
<1>3. ASSUME Accept(Result) \/ \E m \in Messages : Accept(m)
      PROVE  [Next]_vars
  BY <1>3 DEF Accept, Next, HubNext, vars
<1>4. CASE \E m \in Messages \cup {Result} : AcceptOrphan(m)
  BY <1>3, <1>4 DEF AcceptOrphan
<1>5. ASSUME NEW d \in Devices,
             \/ ControllerStep(d)
             \/ \E m \in Messages : SendMessage(d, m)
             \/ RetryPending(d) \/ AcceptRequest(d) \/ TransportError(d)
             \/ RequestRefused(d) \/ ReceiveReply(d) \/ RecordFails(d)
             \/ ExecuteAction(d) \/ AcceptAction(d) \/ ActionFails(d) \/ ReceiveResult(d)
             \/ StartAfresh(d)
             \/ LoseConnection(d) /\ UNCHANGED controller
      PROVE  [Next]_vars \/ Overtake(d) \/ GiveUp(d)
  <2>1. CASE ControllerStep(d)
    <3>1. CASE ReceiveEventAndRecord(d)
      BY <3>1 DEF ReceiveEventAndRecord, Next, DeviceNext, ClientStep
    <3>2. CASE EndReconciliation(d) \/ \E m \in Messages : RecordEvent(d, m)
      BY <3>2 DEF EndReconciliation, RecordEvent
    <3>3. CASE ReceiveReady(d) \/ ReceiveClose(d) \/ Reconnect(d)
      BY <3>3 DEF Next, DeviceNext, ClientStep
    <3>. QED  BY <2>1, <3>1, <3>2, <3>3 DEF ControllerStep
  <2>2. CASE \/ \E m \in Messages : SendMessage(d, m)
             \/ RetryPending(d) \/ TransportError(d) \/ ExecuteAction(d) \/ ActionFails(d)
    BY <2>2 DEF SendMessage, RetryPending, TransportError, ExecuteAction, ActionFails
  <2>3. CASE AcceptRequest(d) \/ AcceptAction(d)
    <3>1. AcceptRequest(d) => op[d].msg \in Messages
      BY DEF AcceptRequest, ControllerTypeOK
    <3>. QED  BY <1>3, <2>3, <3>1 DEF AcceptRequest, AcceptAction
  <2>4. CASE RequestRefused(d) \/ RecordFails(d)
    BY <2>4 DEF RequestRefused, RecordFails, EnterFailure, GiveUp
  <2>5. CASE ReceiveReply(d)
    <3>1. stored[op[d].msg] \in 0..last
      BY <2>5 DEF ReceiveReply, ControllerTypeOK
    <3>. QED  BY <2>5, <3>1 DEF ReceiveReply, EnterFailure, Overtake, GiveUp
  <2>6. CASE ReceiveResult(d)
    <3>1. stored[Result] \in 0..last
      BY DEF ControllerTypeOK
    <3>. QED  BY <2>6, <3>1 DEF ReceiveResult, EnterFailure, Overtake, GiveUp
  <2>7. CASE StartAfresh(d)
    BY <2>7 DEF StartAfresh, Next, DeviceNext
  <2>8. CASE LoseConnection(d) /\ UNCHANGED controller
    BY <2>8 DEF Next, DeviceNext
  <2>. QED  BY <1>5, <2>1, <2>2, <2>3, <2>4, <2>5, <2>6, <2>7, <2>8
<1>. QED  BY <1>1, <1>2, <1>4, <1>5 DEF ControllerNext

(* The subscription manager's books survive whatever the controllers do.    *)
LEMMA ControllersKeepBooks ==
    ASSUME BookInv, ControllerTypeOK, [ControllerNext]_allVars
    PROVE  BookInv'
<1>. USE DEF BookInv
<1>1. CASE [Next]_vars
  <2>1. CASE UNCHANGED vars
    BY <2>1 DEF vars, hub, coroutine, device, TypeOK, NoOrphanSubscription, AttemptInv,
                AwakeInv
  <2>2. CASE HubNext
    BY <2>2, HandlersKeepBooks, ServingKeepsBooks, RestartKeepsBooks DEF HubNext
  <2>. QED  BY <1>1, <2>1, <2>2, DevicesKeepBooks DEF Next
<1>2. ASSUME NEW d \in Devices, Overtake(d)
      PROVE  BookInv'
  <2>1. projection' \in [Devices -> Nat]
    BY <1>2 DEF Overtake, ApplyEvent, TypeOK
  <2>. QED  BY <1>2, <2>1 DEF Overtake, hub, coroutine, TypeOK, NoOrphanSubscription,
                              AttemptInv, AwakeInv
<1>3. ASSUME NEW d \in Devices, GiveUp(d)
      PROVE  BookInv'
  <2>1. wire' \in [Devices -> Seq(Frame)]
    BY <1>3, WireFacts DEF GiveUp, FailProtocol, TypeOK
  <2>2. TypeOK'
    BY <1>3, <2>1 DEF GiveUp, FailProtocol, hub, coroutine, TypeOK
  <2>3. UNCHANGED <<hub, coroutine, attempt>>
    BY <1>3 DEF GiveUp, FailProtocol
  <2>4. \A e \in Devices : client'[e] \in {client[e], "protocolError"}
    BY <1>3 DEF GiveUp, FailProtocol, TypeOK
  <2>5. NoOrphanSubscription' /\ AttemptInv'
    BY <2>3, <2>4 DEF hub, coroutine, NoOrphanSubscription, AttemptInv
  <2>6. AwakeInv'
    BY <2>3 DEF hub, coroutine, AwakeInv
  <2>. QED  BY <2>2, <2>5, <2>6
<1>. QED  BY <1>1, <1>2, <1>3, SessionSteps

(* Nothing that is on its way to a device, or has arrived there, is ahead of*)
(* the log.                                                                 *)
CommittedAt(d) ==
    /\ projection[d] <= last
    /\ upTo[d] <= last
    /\ \A i \in 1..Len(wire[d]) : wire[d][i].kind = "event" => wire[d][i].seq <= last

CommittedInv == \A d \in Devices : CommittedAt(d)

(* Frames are taken from the front or dropped, and what is appended is of   *)
(* the log.                                                                 *)
FramesOf(d) ==
    \/ wire'[d] \in {wire[d], <<>>}
    \/ wire[d] # <<>> /\ wire'[d] = Tail(wire[d])
    \/ \E f \in Frame : /\ f.kind = "event" => f.seq <= last
                        /\ wire'[d] = Append(wire[d], f)

LEMMA CommittedKept ==
    ASSUME TypeOK, NEW d \in Devices, CommittedAt(d),
           last' \in {last, last + 1}, projection'[d] <= last', upTo'[d] \in {upTo[d], last},
           FramesOf(d)
    PROVE  CommittedAt(d)'
<1>1. last \in Nat /\ upTo[d] \in Nat /\ wire[d] \in Seq(Frame)
  BY DEF TypeOK
<1>. PICK n \in Nat : n = Len(wire[d])
  BY <1>1
<1>2. \A i \in 1..n : wire[d][i] \in Frame
  BY <1>1
<1>3. \A i \in 1..n : wire[d][i].kind = "event" => wire[d][i].seq \in Nat
  BY <1>2, FrameFields
<1>4. \A i \in 1..n : wire[d][i].kind = "event" => wire[d][i].seq <= last'
  BY <1>1, <1>3 DEF CommittedAt
<1>5. \A i \in 1..Len(wire'[d]) : wire'[d][i].kind = "event" => wire'[d][i].seq <= last'
  <2>1. CASE wire'[d] \in {wire[d], <<>>}
    BY <1>4, <2>1
  <2>2. CASE wire[d] # <<>> /\ wire'[d] = Tail(wire[d])
    <3>1. Len(Tail(wire[d])) = n - 1 /\ \A i \in 1..(n - 1) : Tail(wire[d])[i] = wire[d][i + 1]
      BY <1>1, <2>2
    <3>. QED  BY <1>4, <2>2, <3>1
  <2>3. ASSUME NEW f \in Frame, f.kind = "event" => f.seq <= last,
               wire'[d] = Append(wire[d], f)
        PROVE  \A i \in 1..Len(wire'[d]) : wire'[d][i].kind = "event" => wire'[d][i].seq <= last'
    <3>1. /\ Len(wire'[d]) = n + 1 /\ wire'[d][n + 1] = f
          /\ \A i \in 1..n : wire'[d][i] = wire[d][i]
      BY <1>1, <2>3
    <3>2. f.kind = "event" => f.seq <= last'
      BY <1>1, <2>3, FrameFields
    <3>. QED  BY <1>4, <3>1, <3>2
  <2>. QED  BY <2>1, <2>2, <2>3 DEF FramesOf
<1>6. upTo'[d] <= last'
  BY <1>1 DEF CommittedAt
<1>. QED  BY <1>5, <1>6 DEF CommittedAt

LEMMA CommittedServing ==
    ASSUME TypeOK, CommittedInv, NEW d \in Devices, NEW e \in Devices,
           ServeStep(d) \/ CloseFailed(d)
    PROVE  last' = last /\ projection' = projection /\ upTo'[e] \in {upTo[e], last} /\ FramesOf(e)
<1>. USE DEF hub, device
<1>1. CASE Register(d) \/ TakeNotification(d) \/ ReadLog(d)
  BY <1>1 DEF Register, TakeNotification, ReadLog, TypeOK, FramesOf
<1>2. CASE SendEvent(d)
  <2>. DEFINE f == [kind |-> "event", phase |-> phase[d], seq |-> sent[d] + 1]
  <2>1. sent[d] \in Nat /\ upTo[d] \in Nat /\ last \in Nat /\ phase[d] \in {"replay", "live"}
    BY DEF TypeOK
  <2>2. f \in Frame
    BY <2>1 DEF Frame
  <2>3. f.seq <= last
    BY <1>2, <2>1 DEF SendEvent, CommittedInv, CommittedAt
  <2>4. wire' = [wire EXCEPT ![d] = Append(@, f)]
    BY <1>2 DEF SendEvent, Send
  <2>. HIDE DEF f
  <2>5. FramesOf(e)
    BY <2>2, <2>3, <2>4 DEF FramesOf, TypeOK
  <2>. QED  BY <1>2, <2>5 DEF SendEvent
<1>3. CASE SendReady(d)
  <2>. DEFINE f == [kind |-> "ready", phase |-> "live", seq |-> sent[d]]
  <2>1. f \in Frame /\ f.kind # "event"
    BY DEF TypeOK, Frame
  <2>2. wire' = [wire EXCEPT ![d] = Append(@, f)]
    BY <1>3 DEF SendReady, Send
  <2>. HIDE DEF f
  <2>3. FramesOf(e)
    BY <2>1, <2>2 DEF FramesOf, TypeOK
  <2>. QED  BY <1>3, <2>3 DEF SendReady
<1>4. CASE CloseOverflowed(d) \/ CloseFailed(d) \/ NoticeDisconnect(d)
  <2>1. /\ Unregister(d)
        /\ \/ UNCHANGED wire
           \/ \E code \in {1011, 1013} : Send(d, Close(code))
    BY <1>4 DEF CloseOverflowed, CloseFailed, NoticeDisconnect
  <2>2. ASSUME NEW code \in {1011, 1013}, Send(d, Close(code))
        PROVE  FramesOf(e)
    <3>. DEFINE f == Close(code)
    <3>1. f \in Frame /\ f.kind # "event"
      BY FrameFields
    <3>2. wire' = [wire EXCEPT ![d] = Append(@, f)]
      BY <2>2 DEF Send
    <3>. HIDE DEF f
    <3>. QED  BY <3>1, <3>2 DEF FramesOf, TypeOK
  <2>. QED  BY <2>1, <2>2 DEF Unregister, FramesOf
<1>. QED  BY <1>1, <1>2, <1>3, <1>4 DEF ServeStep

LEMMA CommittedDevices ==
    ASSUME TypeOK, CommittedInv, NEW d \in Devices, NEW e \in Devices,
           DeviceNext(d)
    PROVE  last' = last /\ projection'[e] <= last /\ upTo' = upTo /\ FramesOf(e)
<1>. USE DEF hub, coroutine
<1>1. \A x \in Devices : projection[x] <= last /\ last \in Nat /\ projection[x] \in Nat
  BY DEF CommittedInv, CommittedAt, TypeOK
<1>2. CASE Start(d) \/ Reconnect(d)
  BY <1>1, <1>2 DEF Start, Reconnect, TypeOK, FramesOf
<1>3. CASE ReceiveReady(d) \/ ReceiveClose(d) \/ LoseConnection(d)
  BY <1>1, <1>3 DEF ReceiveReady, ReceiveClose, LoseConnection, FailProtocol, TypeOK, FramesOf
<1>4. CASE ReceiveEvent(d)
  <2>. DEFINE f == Head(wire[d])
  <2>1. last' = last /\ upTo' = upTo
    BY <1>4 DEF ReceiveEvent
  <2>2. FramesOf(e)
    BY <1>4 DEF ReceiveEvent, FailProtocol, TypeOK, FramesOf
  <2>3. f = wire[d][1] /\ 1 \in 1..Len(wire[d])
    BY <1>4 DEF ReceiveEvent, TypeOK
  <2>4. f.seq <= last
    BY <1>4, <2>3 DEF ReceiveEvent, CommittedInv, CommittedAt
  <2>5. projection' = projection \/ projection' = [projection EXCEPT ![d] = IF f.seq = @ + 1
                                                                            THEN f.seq ELSE @]
    BY <1>4 DEF ReceiveEvent, FailProtocol, ApplyEvent
  <2>. HIDE DEF f
  <2>6. projection'[e] <= last
    BY <1>1, <2>4, <2>5 DEF TypeOK
  <2>. QED  BY <2>1, <2>2, <2>6
<1>. QED  BY <1>2, <1>3, <1>4 DEF DeviceNext, ClientStep

LEMMA CommittedStep ==
    ASSUME ControllerTypeOK, CommittedInv, [ControllerNext]_allVars
    PROVE  CommittedInv'
<1>1. TypeOK
  BY DEF ControllerTypeOK
<1>. SUFFICES ASSUME NEW e \in Devices
              PROVE  CommittedAt(e)'
  BY DEF CommittedInv
<1>2. CommittedAt(e) /\ last \in Nat /\ projection[e] \in Nat /\ projection[e] <= last
  BY <1>1 DEF CommittedInv, CommittedAt, TypeOK
<1>3. /\ last' \in {last, last + 1} /\ projection'[e] <= last'
      /\ upTo'[e] \in {upTo[e], last} /\ FramesOf(e)
  <2>1. CASE UNCHANGED vars
    BY <1>2, <2>1 DEF vars, hub, coroutine, device, FramesOf
  <2>2. CASE CommitEvent \/ \E s \in 1..MaxSeq : Publish(s) \/ LosePublish(s)
    BY <1>2, <2>2 DEF CommitEvent, Publish, LosePublish, coroutine, device, FramesOf
  <2>3. CASE HubRestart
    <3>1. Close(1006) \in Frame /\ Close(1006).kind # "event"
      BY FrameFields
    <3>2. wire'[e] \in {wire[e], Append(wire[e], Close(1006))}
      BY <2>3 DEF HubRestart
    <3>. QED  BY <1>2, <2>3, <3>1, <3>2 DEF HubRestart, device, FramesOf
  <2>4. CASE \E d \in Devices : ServeStep(d) \/ CloseFailed(d)
    BY <1>1, <1>2, <2>4, CommittedServing
  <2>5. CASE \E d \in Devices : DeviceNext(d)
    BY <1>1, <1>2, <2>5, CommittedDevices
  <2>6. ASSUME NEW d \in Devices, Overtake(d)
        PROVE  /\ last' \in {last, last + 1} /\ projection'[e] <= last'
               /\ upTo'[e] \in {upTo[e], last} /\ FramesOf(e)
    <3>1. projection'[e] <= last
      BY <1>1, <1>2, <2>6 DEF Overtake, ApplyEvent, TypeOK
    <3>. QED  BY <2>6, <3>1 DEF Overtake, hub, coroutine, FramesOf
  <2>7. ASSUME NEW d \in Devices, GiveUp(d)
        PROVE  /\ last' \in {last, last + 1} /\ projection'[e] <= last'
               /\ upTo'[e] \in {upTo[e], last} /\ FramesOf(e)
    BY <1>1, <1>2, <2>7 DEF GiveUp, FailProtocol, hub, coroutine, FramesOf, TypeOK
  <2>. QED  BY <2>1, <2>2, <2>3, <2>4, <2>5, <2>6, <2>7, SessionSteps DEF Next, HubNext
<1>. QED  BY <1>1, <1>2, <1>3, CommittedKept

(* The ledger: the Hub stores a message once; the pending message is the one*)
(* under way, a reply is about a stored message, and so is an event whose   *)
(* cursor is being written.                                                 *)
LedgerInv ==
    /\ \A m, n \in Messages \cup {Result} : stored[m] = stored[n] /\ stored[m] # 0 => m = n
    /\ \A d \in Devices :
         /\ op[d].at # "idle" => pending[d] \in {op[d].msg, NoMessage}
         /\ op[d].at = "toDevice" => stored[op[d].msg] # 0
         /\ \A m \in recording[d] : stored[m] # 0

ControllerInv == ControllerTypeOK /\ BookInv /\ CommittedInv /\ LedgerInv /\ NoGhostPending

(* What the Hub's acceptance of a message does to its log.                  *)
LEMMA Accepting ==
    ASSUME ControllerInv, NEW m \in Messages \cup {Result}, Accept(m)
    PROVE  /\ last' \in Nat
           /\ last <= last'
           /\ stored' \in [Messages \cup {Result} -> 0..last']
           /\ stored'[m] # 0
           /\ \A n \in Messages \cup {Result} : stored[n] # 0 => stored'[n] = stored[n]
           /\ \A n \in Messages \cup {Result} :
                  stored[n] = 0 /\ stored'[n] # 0 => stored'[n] = last + 1
           /\ \A x, y \in Messages \cup {Result} :
                  stored'[x] = stored'[y] /\ stored'[x] # 0 => x = y
           /\ UNCHANGED <<client, projection>>
<1>1. last \in Nat /\ stored \in [Messages \cup {Result} -> 0..last]
  BY DEF ControllerInv, ControllerTypeOK, TypeOK
<1>2. \A x, y \in Messages \cup {Result} : stored[x] = stored[y] /\ stored[x] # 0 => x = y
  BY DEF ControllerInv, LedgerInv
<1>3. CASE stored[m] # 0
  BY <1>1, <1>2, <1>3 DEF Accept, vars, hub, device
<1>4. CASE stored[m] = 0
  <2>1. /\ last' = last + 1 /\ stored' = [stored EXCEPT ![m] = last + 1]
        /\ UNCHANGED <<client, projection>>
    BY <1>4 DEF Accept, CommitEvent, device
  <2>2. stored' \in [Messages \cup {Result} -> 0..last']
    BY <1>1, <2>1
  <2>. QED  BY <1>1, <1>2, <1>4, <2>1, <2>2
<1>. QED  BY <1>3, <1>4

(* The controllers' own variables.                                          *)
Shapes ==
    /\ pending \in [Devices -> Messages \cup {NoMessage}]
    /\ op \in [Devices -> [at : {"idle", "toHub", "toDevice", "reconciling"},
                           msg : Messages \cup {NoMessage}]]
    /\ \A d \in Devices : op[d].at # "idle" => op[d].msg \in Messages
    /\ transport \in [Devices -> BOOLEAN]
    /\ recording \in [Devices -> SUBSET Messages]
    /\ action \in [Devices -> {"idle", "toHub", "toDevice"}]
    /\ orphans \subseteq Messages \cup {Result}
    /\ stored \in [Messages \cup {Result} -> 0..last]

(* No message is forgotten by this step that the Hub has not stored.        *)
Forgets(d) == /\ pending[d] # NoMessage /\ pending'[d] = NoMessage
              /\ client'[d] # "protocolError" /\ ~Start(d)

KeepsLedger ==
    /\ Shapes' /\ LedgerInv' /\ NoGhostPending'
    /\ \A d \in Devices : Forgets(d) => stored[pending[d]] # 0

LEMMA ShapesAre == ControllerTypeOK <=> TypeOK /\ Shapes
BY DEF ControllerTypeOK, Shapes

LEMMA LogGrows ==
    ASSUME ControllerTypeOK, [ControllerNext]_allVars
    PROVE  last \in Nat /\ last' \in {last, last + 1} /\ 0..last \subseteq 0..last'
<1>1. last \in Nat
  BY DEF ControllerTypeOK, TypeOK
<1>2. last' \in {last, last + 1}
  <2>1. CASE [Next]_vars
    <3>1. ASSUME NEW d \in Devices, DeviceNext(d)
          PROVE  last' = last
      BY <3>1 DEF DeviceNext, ClientStep, ReceiveEvent, ReceiveReady, ReceiveClose, Reconnect,
                  Start, LoseConnection, hub
    <3>2. ASSUME NEW d \in Devices, ServeStep(d) \/ CloseFailed(d)
          PROVE  last' = last
      BY <3>2 DEF ServeStep, Register, ReadLog, SendEvent, TakeNotification, SendReady,
                  CloseOverflowed, NoticeDisconnect, CloseFailed, Unregister, hub
    <3>3. CASE \/ CommitEvent \/ HubRestart \/ UNCHANGED vars
               \/ \E s \in 1..MaxSeq : Publish(s) \/ LosePublish(s)
      BY <3>3 DEF CommitEvent, HubRestart, Publish, LosePublish, vars, hub
    <3>. QED  BY <2>1, <3>1, <3>2, <3>3 DEF Next, HubNext
  <2>2. CASE \E d \in Devices : Overtake(d) \/ GiveUp(d)
    BY <2>2 DEF Overtake, GiveUp, hub
  <2>. QED  BY <2>1, <2>2, SessionSteps
<1>. QED  BY <1>1, <1>2

(* Nothing of the controllers changes.                                      *)
LEMMA QuietKeepsLedger ==
    ASSUME ControllerInv, UNCHANGED <<controller, projection>>,
           last \in Nat, last' \in {last, last + 1}
    PROVE  KeepsLedger
<1>1. stored \in [Messages \cup {Result} -> 0..last']
  BY DEF ControllerInv, ControllerTypeOK
<1>. QED  BY <1>1 DEF ControllerInv, ControllerTypeOK, KeepsLedger, Shapes, LedgerInv,
                      NoGhostPending, Forgets, controller

(* The user's calls, and calls that fail with the message still pending.    *)
LEMMA CallsKeepLedger ==
    ASSUME ControllerInv, NEW d \in Devices,
           \/ \E m \in Messages : SendMessage(d, m)
           \/ RetryPending(d) \/ TransportError(d) \/ EndReconciliation(d)
           \/ ExecuteAction(d) \/ ActionFails(d)
    PROVE  KeepsLedger
<1>. USE MessagesAssumption DEF ControllerInv, KeepsLedger, Forgets
<1>1. ASSUME NEW m \in Messages, SendMessage(d, m)
      PROVE  KeepsLedger
  <2>1. UNCHANGED <<last, projection, client, action, transport, recording, orphans, stored>>
        /\ stored[m] = 0 /\ op[d].at = "idle"
        /\ pending' = [pending EXCEPT ![d] = m]
    BY <1>1 DEF SendMessage, vars, hub, device, Unused, CanSend
  <2>2. PICK o \in {Request(m), Reconcile(m)} : op' = [op EXCEPT ![d] = o]
    BY <1>1 DEF SendMessage
  <2>3. o.at # "toDevice" /\ o.msg = m
        /\ o \in [at : {"idle", "toHub", "toDevice", "reconciling"},
                  msg : Messages \cup {NoMessage}]
    BY DEF Request, Reconcile
  <2>4. Shapes'
    BY <2>1, <2>2, <2>3 DEF ControllerTypeOK, Shapes
  <2>5. LedgerInv'
    BY <2>1, <2>2, <2>3 DEF ControllerTypeOK, LedgerInv
  <2>6. NoGhostPending'
    BY <2>1 DEF ControllerTypeOK, NoGhostPending
  <2>7. \A e \in Devices : pending'[e] = NoMessage => pending[e] = NoMessage
    BY <2>1 DEF ControllerTypeOK
  <2>. QED  BY <2>4, <2>5, <2>6, <2>7
<1>2. CASE RetryPending(d) \/ TransportError(d) \/ EndReconciliation(d)
  <2>1. /\ UNCHANGED <<last, projection, client, action, pending, recording, stored>>
        /\ transport' \in [Devices -> BOOLEAN]
        /\ orphans' \subseteq Messages \cup {Result}
    <3>1. UNCHANGED <<last, projection, client, action, pending, recording, stored>>
      BY <1>2 DEF RetryPending, TransportError, EndReconciliation, vars, hub, device
    <3>2. transport' \in [Devices -> BOOLEAN]
      BY <1>2 DEF RetryPending, TransportError, EndReconciliation, ControllerTypeOK
    <3>3. orphans' \subseteq Messages \cup {Result}
      BY <1>2 DEF RetryPending, TransportError, EndReconciliation, ControllerTypeOK, Stray
    <3>. QED  BY <3>1, <3>2, <3>3
  <2>2. PICK o : /\ op' = [op EXCEPT ![d] = o]
                 /\ \/ o = NoOperation
                    \/ /\ o \in {Request(pending[d]), Reconcile(pending[d])}
                       /\ pending[d] \in Messages
                    \/ o = Reconcile(op[d].msg) /\ op[d].at # "idle"
    BY <1>2 DEF RetryPending, TransportError, EndReconciliation, ControllerTypeOK
  <2>3. /\ o.at # "toDevice"
        /\ o.at # "idle" => pending[d] \in {o.msg, NoMessage} /\ o.msg \in Messages
        /\ o \in [at : {"idle", "toHub", "toDevice", "reconciling"},
                  msg : Messages \cup {NoMessage}]
    BY <2>2 DEF Request, Reconcile, NoOperation, ControllerTypeOK, LedgerInv
  <2>4. Shapes'
    BY <2>1, <2>2, <2>3 DEF ControllerTypeOK, Shapes
  <2>5. LedgerInv'
    BY <2>1, <2>2, <2>3 DEF ControllerTypeOK, LedgerInv
  <2>6. NoGhostPending'
    BY <2>1 DEF NoGhostPending
  <2>. QED  BY <2>1, <2>4, <2>5, <2>6
<1>3. CASE ExecuteAction(d) \/ ActionFails(d)
  <2>1. /\ UNCHANGED <<last, projection, client, pending, op, transport, recording, stored>>
        /\ action' \in [Devices -> {"idle", "toHub", "toDevice"}]
        /\ orphans' \subseteq Messages \cup {Result}
    BY <1>3 DEF ExecuteAction, ActionFails, ControllerTypeOK, vars, hub, device, StrayAction
  <2>. QED  BY <2>1 DEF ControllerTypeOK, Shapes, LedgerInv, NoGhostPending
<1>. QED  BY <1>1, <1>2, <1>3

LEMMA ProjectionsCommitted ==
    ASSUME ControllerInv
    PROVE  \A e \in Devices : projection[e] <= last /\ projection[e] \in Nat /\ last \in Nat
<1>1. \A e \in Devices : projection[e] \in Nat /\ last \in Nat
  BY DEF ControllerInv, ControllerTypeOK, TypeOK
<1>2. \A e \in Devices : projection[e] <= last
  BY DEF ControllerInv, CommittedInv, CommittedAt
<1>. QED  BY <1>1, <1>2

(* The Hub accepts a message: its number is ahead of every projection.      *)
LEMMA AcceptingKeepsLedger ==
    ASSUME ControllerInv, NEW d \in Devices, AcceptRequest(d) \/ AcceptAction(d)
    PROVE  KeepsLedger
<1>. USE DEF ControllerInv
<1>1. PICK m \in Messages \cup {Result} :
        /\ Accept(m)
        /\ m = op[d].msg \/ op' = op
  BY DEF AcceptRequest, AcceptAction, ControllerTypeOK
<1>2. /\ UNCHANGED <<pending, transport, recording, orphans>>
      /\ action' \in [Devices -> {"idle", "toHub", "toDevice"}]
      /\ \/ op' = op
         \/ op' = [op EXCEPT ![d].at = "toDevice"] /\ op[d].at = "toHub"
  BY DEF AcceptRequest, AcceptAction, ControllerTypeOK
<1>3. \A e \in Devices : projection[e] <= last /\ projection[e] \in Nat /\ last \in Nat
  BY ProjectionsCommitted
<1>4. Shapes'
  <2>1. stored' \in [Messages \cup {Result} -> 0..last']
    BY <1>1, Accepting
  <2>2. /\ op' \in [Devices -> [at : {"idle", "toHub", "toDevice", "reconciling"},
                                msg : Messages \cup {NoMessage}]]
        /\ \A e \in Devices : op'[e].at # "idle" => op'[e].msg \in Messages
    <3>1. CASE op' = op
      BY <3>1 DEF ControllerTypeOK
    <3>2. CASE op' = [op EXCEPT ![d].at = "toDevice"] /\ op[d].at = "toHub"
      <4>. DEFINE r == [op[d] EXCEPT !.at = "toDevice"]
      <4>1. op[d].msg \in Messages
        BY <3>2 DEF ControllerTypeOK
      <4>2. /\ r \in [at : {"idle", "toHub", "toDevice", "reconciling"},
                     msg : Messages \cup {NoMessage}]
            /\ r.msg \in Messages
        BY <4>1 DEF ControllerTypeOK
      <4>3. op' = [op EXCEPT ![d] = r]
        BY <3>2
      <4>. HIDE DEF r
      <4>. QED  BY <4>2, <4>3 DEF ControllerTypeOK
    <3>. QED  BY <1>2, <3>1, <3>2
  <2>. QED  BY <1>2, <2>1, <2>2 DEF Shapes, ControllerTypeOK
<1>5. LedgerInv'
  BY <1>1, <1>2, Accepting DEF LedgerInv, ControllerTypeOK
<1>6. NoGhostPending'
  <2>. SUFFICES ASSUME NEW e \in Devices, pending[e] # NoMessage, stored'[pending[e]] # 0,
                       stored'[pending[e]] <= projection[e]
                PROVE  pending[e] \in recording[e]
    BY <1>1, <1>2, Accepting DEF NoGhostPending
  <2>1. pending[e] \in Messages
    BY DEF ControllerTypeOK
  <2>2. stored[pending[e]] # 0
    BY <1>1, <1>3, <2>1, Accepting
  <2>. QED  BY <1>1, <2>1, <2>2, Accepting DEF NoGhostPending
<1>. QED  BY <1>2, <1>4, <1>5, <1>6 DEF KeepsLedger, Forgets

LEMMA OrphansKeepLedger ==
    ASSUME ControllerInv, NEW m \in Messages \cup {Result}, AcceptOrphan(m)
    PROVE  KeepsLedger
<1>. USE DEF ControllerInv
<1>1. /\ Accept(m)
      /\ UNCHANGED <<pending, op, action, transport, recording>>
      /\ orphans' \subseteq orphans
  BY DEF AcceptOrphan
<1>3. \A e \in Devices : projection[e] <= last /\ projection[e] \in Nat /\ last \in Nat
  BY ProjectionsCommitted
<1>4. Shapes'
  BY <1>1, Accepting DEF Shapes, ControllerTypeOK
<1>5. LedgerInv'
  BY <1>1, Accepting DEF LedgerInv, ControllerTypeOK
<1>6. NoGhostPending'
  <2>. SUFFICES ASSUME NEW e \in Devices, pending[e] # NoMessage, stored'[pending[e]] # 0,
                       stored'[pending[e]] <= projection[e]
                PROVE  pending[e] \in recording[e]
    BY <1>1, Accepting DEF NoGhostPending
  <2>1. pending[e] \in Messages
    BY DEF ControllerTypeOK
  <2>2. stored[pending[e]] # 0
    BY <1>1, <1>3, <2>1, Accepting
  <2>. QED  BY <1>1, <2>1, <2>2, Accepting DEF NoGhostPending
<1>. QED  BY <1>1, <1>4, <1>5, <1>6 DEF KeepsLedger, Forgets

(* _pending after a step that moves the projection of d, or confirms its    *)
(* message, or ends its session.                                            *)
LEMMA EndingKeepsLedger ==
    ASSUME ControllerInv, NEW d \in Devices,
           \/ \E why \in {"none", "gap"} : EnterFailure(d, why)
           \/ StartAfresh(d),
           action' \in [Devices -> {"idle", "toHub", "toDevice"}]
    PROVE  KeepsLedger
<1>. USE DEF ControllerInv
<1>1. /\ UNCHANGED <<last, stored>>
      /\ pending' = [pending EXCEPT ![d] = NoMessage]
      /\ op' = [op EXCEPT ![d] = NoOperation]
      /\ recording' = [recording EXCEPT ![d] = {}]
      /\ \A e \in Devices \ {d} : projection'[e] = projection[e]
  BY DEF EnterFailure, StartAfresh, FailProtocol, Start, hub, ControllerTypeOK, TypeOK
<1>2. client'[d] = "protocolError" \/ Start(d)
  BY DEF EnterFailure, StartAfresh, FailProtocol, ControllerTypeOK, TypeOK
<1>3. transport' \in [Devices -> BOOLEAN]
  BY DEF EnterFailure, StartAfresh, ControllerTypeOK
<1>4. orphans' \subseteq Messages \cup {Result}
  BY DEF EnterFailure, StartAfresh, ControllerTypeOK, Stray, StrayAction
<1>5. Shapes'
  BY <1>1, <1>3, <1>4 DEF Shapes, ControllerTypeOK, NoOperation
<1>6. LedgerInv'
  BY <1>1 DEF LedgerInv, ControllerTypeOK, NoOperation
<1>7. NoGhostPending'
  BY <1>1 DEF NoGhostPending, ControllerTypeOK
<1>8. \A e \in Devices \ {d} : ~ Forgets(e)
  BY <1>1 DEF Forgets, ControllerTypeOK
<1>9. ~ Forgets(d)
  BY <1>2 DEF Forgets
<1>. QED  BY <1>5, <1>6, <1>7, <1>8, <1>9 DEF KeepsLedger

(* The reply of the operation, or the result of the action, is applied.     *)
LEMMA RepliesKeepLedger ==
    ASSUME ControllerInv, NEW d \in Devices, ReceiveReply(d) \/ ReceiveResult(d)
    PROVE  KeepsLedger
<1>. USE DEF ControllerInv
<1>1. CASE \E why \in {"none", "gap"} : EnterFailure(d, why)
  <2>1. action' \in [Devices -> {"idle", "toHub", "toDevice"}]
    BY DEF ReceiveReply, ReceiveResult, ControllerTypeOK
  <2>. QED  BY <1>1, <2>1, EndingKeepsLedger
<1>2. ASSUME ReceiveReply(d), ~ \E why \in {"none", "gap"} : EnterFailure(d, why)
      PROVE  KeepsLedger
  <2>1. /\ UNCHANGED <<last, action, transport, recording, orphans, stored>>
        /\ op[d].at = "toDevice"
        /\ pending' = [pending EXCEPT ![d] = NoMessage]
        /\ op' = [op EXCEPT ![d] = NoOperation]
        /\ ApplyEvent(d, stored[op[d].msg])
    BY <1>2 DEF ReceiveReply, hub
  <2>2. Shapes'
    BY <2>1 DEF Shapes, ControllerTypeOK, NoOperation
  <2>3. LedgerInv'
    BY <2>1 DEF LedgerInv, ControllerTypeOK, NoOperation
  <2>4. NoGhostPending'
    BY <2>1 DEF NoGhostPending, ControllerTypeOK, TypeOK, ApplyEvent
  <2>5. \A e \in Devices : Forgets(e) => stored[pending[e]] # 0
    BY <2>1 DEF Forgets, LedgerInv, ControllerTypeOK
  <2>. QED  BY <2>2, <2>3, <2>4, <2>5 DEF KeepsLedger
<1>3. ASSUME ReceiveResult(d), ~ \E why \in {"none", "gap"} : EnterFailure(d, why)
      PROVE  KeepsLedger
  <2>1. /\ UNCHANGED <<last, pending, op, transport, recording, orphans, stored>>
        /\ action' = [action EXCEPT ![d] = "idle"]
        /\ ApplyEvent(d, stored[Result])
    BY <1>3 DEF ReceiveResult, hub
  <2>2. Shapes'
    BY <2>1 DEF Shapes, ControllerTypeOK
  <2>3. LedgerInv'
    BY <2>1 DEF LedgerInv
  <2>4. NoGhostPending'
    <3>. SUFFICES ASSUME pending[d] # NoMessage, stored[pending[d]] # 0,
                         stored[pending[d]] <= projection'[d]
                  PROVE  stored[pending[d]] <= projection[d]
      BY <2>1 DEF NoGhostPending, ApplyEvent, ControllerTypeOK, TypeOK
    <3>1. pending[d] \in Messages /\ pending[d] # Result
      BY MessagesAssumption DEF ControllerTypeOK
    <3>2. stored[pending[d]] # stored[Result]
      BY <3>1 DEF LedgerInv
    <3>3. /\ stored[pending[d]] \in Nat /\ stored[Result] \in Nat /\ projection[d] \in Nat
      BY <3>1 DEF ControllerTypeOK, TypeOK
    <3>4. projection'[d] = IF stored[Result] = projection[d] + 1 THEN stored[Result]
                                                                  ELSE projection[d]
      BY <2>1 DEF ApplyEvent, ControllerTypeOK, TypeOK
    <3>. QED  BY <3>2, <3>3, <3>4
  <2>. QED  BY <2>1, <2>2, <2>3, <2>4 DEF KeepsLedger, Forgets
<1>. QED  BY <1>1, <1>2, <1>3

(* An event frame: what it moves the projection past waits for its cursor.  *)
LEMMA FramesKeepLedger ==
    ASSUME ControllerInv, NEW d \in Devices, ReceiveEventAndRecord(d)
    PROVE  KeepsLedger
<1>. USE DEF ControllerInv
<1>1. /\ UNCHANGED <<last, pending, op, action, transport, orphans, stored>>
      /\ recording' = [recording EXCEPT ![d] = @ \cup
                          {m \in Messages : projection[d] < stored[m]
                                            /\ stored[m] = projection'[d]}]
  BY DEF ReceiveEventAndRecord, ReceiveEvent, hub
<1>2. \E s : \/ projection' = projection
             \/ s = projection[d] + 1 /\ projection' = [projection EXCEPT ![d] = s]
  BY DEF ReceiveEventAndRecord, ReceiveEvent, FailProtocol, ApplyEvent, ControllerTypeOK, TypeOK
<1>3. \A m \in Messages : stored[m] \in Nat /\ projection[d] \in Nat
  BY DEF ControllerTypeOK, TypeOK
<1>4. Shapes'
  BY <1>1 DEF Shapes, ControllerTypeOK
<1>5. LedgerInv'
  BY <1>1, <1>3 DEF LedgerInv, ControllerTypeOK
<1>6. NoGhostPending'
  <2>. SUFFICES ASSUME NEW e \in Devices, pending[e] # NoMessage, stored[pending[e]] # 0,
                       stored[pending[e]] <= projection'[e]
                PROVE  pending[e] \in recording'[e]
    BY <1>1 DEF NoGhostPending
  <2>1. pending[e] \in Messages
    BY DEF ControllerTypeOK
  <2>2. recording[e] \subseteq recording'[e]
    BY <1>1 DEF ControllerTypeOK
  <2>3. CASE stored[pending[e]] <= projection[e]
    BY <2>2, <2>3 DEF NoGhostPending
  <2>4. CASE ~(stored[pending[e]] <= projection[e])
    <3>1. e = d /\ projection'[d] = projection[d] + 1
      BY <1>2, <2>4 DEF ControllerTypeOK, TypeOK
    <3>2. projection[d] < stored[pending[d]] /\ stored[pending[d]] = projection'[d]
      BY <1>3, <2>1, <2>4, <3>1
    <3>. QED  BY <1>1, <2>1, <3>1, <3>2 DEF ControllerTypeOK
  <2>. QED  BY <2>3, <2>4
<1>. QED  BY <1>1, <1>4, <1>5, <1>6 DEF KeepsLedger, Forgets

(* The cursor is written: the event confirms its own message.               *)
LEMMA RecordingKeepsLedger ==
    ASSUME ControllerInv, NEW d \in Devices, NEW m \in Messages, RecordEvent(d, m)
    PROVE  KeepsLedger
<1>. USE DEF ControllerInv
<1>1. /\ UNCHANGED <<last, projection, op, action, transport, orphans, stored>>
      /\ m \in recording[d]
      /\ recording' = [recording EXCEPT ![d] = @ \ {m}]
      /\ pending' = [pending EXCEPT ![d] = IF @ = m THEN NoMessage ELSE @]
  BY DEF RecordEvent, vars, hub, device
<1>2. Shapes'
  BY <1>1 DEF Shapes, ControllerTypeOK
<1>3. LedgerInv'
  BY <1>1 DEF LedgerInv, ControllerTypeOK
<1>4. NoGhostPending'
  BY <1>1 DEF NoGhostPending, ControllerTypeOK
<1>5. \A e \in Devices : Forgets(e) => stored[pending[e]] # 0
  BY <1>1 DEF Forgets, LedgerInv, ControllerTypeOK
<1>. QED  BY <1>2, <1>3, <1>4, <1>5 DEF KeepsLedger

LEMMA LedgerStep ==
    ASSUME ControllerInv, [ControllerNext]_allVars
    PROVE  KeepsLedger
<1>. last \in Nat /\ last' \in {last, last + 1}
  BY LogGrows DEF ControllerInv
<1>1. CASE UNCHANGED allVars
  BY <1>1, QuietKeepsLedger DEF allVars, vars, device
<1>2. CASE HubNext /\ UNCHANGED controller
  <2>1. projection' = projection
    BY <1>2 DEF HubNext, CommitEvent, Publish, LosePublish, ServeStep, Register, ReadLog,
                SendEvent, TakeNotification, SendReady, CloseOverflowed, NoticeDisconnect,
                CloseFailed, Unregister, HubRestart, device
  <2>. QED  BY <1>2, <2>1, QuietKeepsLedger
<1>3. CASE \E m \in Messages \cup {Result} : AcceptOrphan(m)
  BY <1>3, OrphansKeepLedger
<1>4. ASSUME NEW d \in Devices,
             \/ ControllerStep(d)
             \/ \E m \in Messages : SendMessage(d, m)
             \/ RetryPending(d) \/ AcceptRequest(d) \/ TransportError(d)
             \/ RequestRefused(d) \/ ReceiveReply(d) \/ RecordFails(d)
             \/ ExecuteAction(d) \/ AcceptAction(d) \/ ActionFails(d) \/ ReceiveResult(d)
             \/ StartAfresh(d)
             \/ LoseConnection(d) /\ UNCHANGED controller
      PROVE  KeepsLedger
  <2>1. CASE /\ ReceiveReady(d) \/ ReceiveClose(d) \/ Reconnect(d) \/ LoseConnection(d)
             /\ UNCHANGED controller
    <3>1. projection' = projection
      BY <2>1 DEF ReceiveReady, ReceiveClose, Reconnect, LoseConnection, FailProtocol
    <3>. QED  BY <2>1, <3>1, QuietKeepsLedger
  <2>2. CASE RequestRefused(d)
    <3>1. CASE EnterFailure(d, "none") /\ UNCHANGED action
      BY <3>1, EndingKeepsLedger DEF ControllerInv, ControllerTypeOK
    <3>2. CASE /\ op' = [op EXCEPT ![d] = NoOperation]
               /\ UNCHANGED <<vars, pending, action, transport, recording, orphans, stored>>
      <4>1. UNCHANGED <<last, projection>>
        BY <3>2 DEF vars, hub, device
      <4>. QED  BY <3>2, <4>1 DEF ControllerInv, KeepsLedger, Forgets, Shapes, ControllerTypeOK,
                                 LedgerInv, NoGhostPending, NoOperation
    <3>. QED  BY <2>2, <3>1, <3>2 DEF RequestRefused
  <2>3. CASE RecordFails(d) \/ StartAfresh(d)
    <3>1. action' \in [Devices -> {"idle", "toHub", "toDevice"}]
      BY <2>3 DEF RecordFails, StartAfresh, ControllerInv, ControllerTypeOK
    <3>. QED  BY <2>3, <3>1, EndingKeepsLedger DEF RecordFails
  <2>4. CASE ReceiveEventAndRecord(d) \/ \E m \in Messages : RecordEvent(d, m)
    BY <2>4, FramesKeepLedger, RecordingKeepsLedger
  <2>. QED  BY <1>4, <2>1, <2>2, <2>3, <2>4, CallsKeepLedger, AcceptingKeepsLedger,
               RepliesKeepLedger DEF ControllerStep
<1>. QED  BY <1>1, <1>2, <1>3, <1>4 DEF ControllerNext

LEMMA ControllerInvInit == ControllerInit => ControllerInv
<1>. SUFFICES ASSUME ControllerInit
              PROVE  ControllerInv
  OBVIOUS
<1>1. BookInv
  BY DeliveryInit DEF ControllerInit, DeliveryInv
<1>2. CommittedInv
  <2>1. \A d \in Devices : /\ projection[d] = 0 /\ last = 0 /\ upTo[d] = 0
                          /\ wire[d] = <<>>
    BY DEF ControllerInit, Init
  <2>. SUFFICES ASSUME NEW d \in Devices
                PROVE  CommittedAt(d)
    BY DEF CommittedInv
  <2>2. Len(wire[d]) = 0
    BY <2>1
  <2>3. \A i \in 1..Len(wire[d]) : FALSE
    BY <2>2
  <2>4. projection[d] <= last /\ upTo[d] <= last
    BY <2>1
  <2>. QED  BY <2>3, <2>4 DEF CommittedAt
<1>3. Shapes
  BY DEF ControllerInit, Init, Shapes, NoOperation
<1>4. LedgerInv /\ NoGhostPending
  BY DEF ControllerInit, LedgerInv, NoGhostPending, NoOperation
<1>. QED  BY <1>1, <1>2, <1>3, <1>4, ShapesAre DEF ControllerInv, BookInv

LEMMA ControllerInvStep == ControllerInv /\ [ControllerNext]_allVars => ControllerInv'
<1>. SUFFICES ASSUME ControllerInv, [ControllerNext]_allVars
              PROVE  ControllerInv'
  OBVIOUS
<1>1. BookInv'
  BY ControllersKeepBooks DEF ControllerInv
<1>2. CommittedInv'
  BY CommittedStep DEF ControllerInv
<1>3. Shapes' /\ LedgerInv' /\ NoGhostPending'
  BY LedgerStep DEF KeepsLedger
<1>4. ControllerTypeOK'
  BY <1>1, <1>3 DEF ControllerTypeOK, Shapes, BookInv
<1>. QED  BY <1>1, <1>2, <1>3, <1>4 DEF ControllerInv

THEOREM ControllerInvariant == ControllerSpec => []ControllerInv
<1>. QED  BY ControllerInvInit, ControllerInvStep, PTL DEF ControllerSpec

(* Whatever the controllers do, the Hub's queues stay within their size and *)
(* none outlives the coroutine of its connection.                           *)
THEOREM ControlledQueuesHaveOwners == ControllerSpec => []SubscriptionsAgree
<1>1. ControllerInv => SubscriptionsAgree
  BY DEF ControllerInv, BookInv, SubscriptionsAgree
<1>. QED  BY <1>1, ControllerInvariant, PTL

(* SharedSessionController: in every race of the REST reply, the WebSocket  *)
(* event, late requests and retries, a message of the timeline is not       *)
(* offered for a retry, except while its cursor is being written.           *)
THEOREM NoGhosts == ControllerSpec => []NoGhostPending
<1>1. ControllerInv => NoGhostPending
  BY DEF ControllerInv
<1>. QED  BY <1>1, ControllerInvariant, PTL

(* _pending is given up, while the session goes on, only for a message that *)
(* the Hub has stored.                                                      *)
THEOREM NothingForgotten == ControllerSpec => ForgottenOnlyIfStored
<1>1. ControllerInv /\ [ControllerNext]_allVars =>
        [\A d \in Devices :
            /\ pending[d] # NoMessage /\ pending'[d] = NoMessage
            /\ client'[d] # "protocolError" /\ ~Start(d)
            => stored[pending[d]] # 0]_allVars
  BY LedgerStep DEF KeepsLedger, Forgets
<1>. QED  BY <1>1, ControllerInvariant, PTL DEF ControllerSpec, ForgottenOnlyIfStored
==============================================================================
