---------------------------- MODULE SessionDelivery ----------------------------
(****************************************************************************)
(* Delivery of one conversation's committed events to its connected devices:*)
(* the Hub's publish/subscribe queues (subscriptions.py), the coroutine that*)
(* serves one WebSocket (_serve_conversation_events of api.py), the frames  *)
(* in flight, and the device's HubWebSocketClient with its SessionProjection*)
(* (Dart).  The log itself is EventStore's: events are numbered without gaps*)
(* from 1, so an event is its sequence number here and the log its length.  *)
(****************************************************************************)
EXTENDS Naturals, Sequences

CONSTANTS Devices,
          QueueSize,       \* capacity of a subscription queue
          MaxReconnect,    \* HubWebSocketClient.maxReconnectAttempts
          MaxSeq           \* bound: events a model run may commit

ASSUME BoundsAssumption ==
    QueueSize \in Nat \ {0} /\ MaxReconnect \in Nat /\ MaxSeq \in Nat

VARIABLES
    last,          \* sequence number of the last committed event
    unpublished,   \* committed events whose append handler has yet to publish
    lost,          \* committed events whose handler ended without publishing
    serve,         \* where the coroutine serving each device is
    subscription,  \* the coroutine's Subscription: none, registered, overflowed
    queue,         \* number of notifications in its queue
    phase,         \* delivery label of the coroutine's frames
    upTo,          \* last event of the batch read from SQLite
    sent,          \* last_sent
    wire,          \* frames on their way to the device, in order
    client,        \* state of the device's HubWebSocketClient
    projection,    \* lastConversationSeq of its SessionProjection
    attempt,       \* its consecutive reconnect attempts
    fault          \* the integrity check of the client that failed, if one did

hub == <<last, unpublished, lost>>
coroutine == <<serve, subscription, queue, phase, upTo, sent>>
device == <<client, projection, attempt, fault>>
vars == <<hub, coroutine, wire, device>>

Frame == [kind : {"event", "ready"}, phase : {"replay", "live"}, seq : Nat]
         \cup [kind : {"close"}, code : {1006, 1011, 1013}]

Close(code) == [kind |-> "close", code |-> code]

Init == /\ last = 0 /\ unpublished = {} /\ lost = {}
        /\ serve = [d \in Devices |-> "none"]
        /\ subscription = [d \in Devices |-> "none"]
        /\ queue = [d \in Devices |-> 0]
        /\ phase = [d \in Devices |-> "replay"]
        /\ upTo = [d \in Devices |-> 0]
        /\ sent = [d \in Devices |-> 0]
        /\ wire = [d \in Devices |-> <<>>]
        /\ client = [d \in Devices |-> "closed"]
        /\ projection = [d \in Devices |-> 0]
        /\ attempt = [d \in Devices |-> 0]
        /\ fault = [d \in Devices |-> "none"]

------------------------------------------------------------------------------
(* Append handlers. *)

(* store.append_message commits a new event in its worker thread. *)
CommitEvent ==
    /\ last < MaxSeq
    /\ last' = last + 1
    /\ unpublished' = unpublished \cup {last + 1}
    /\ UNCHANGED <<lost, coroutine, wire, device>>

(* Slip: only live connections are notified. *)
PublishToLive(s) ==
    /\ s \in unpublished
    /\ unpublished' = unpublished \ {s}
    /\ queue' = [d \in Devices |->
                    IF subscription[d] = "registered" /\ phase[d] = "live"
                    THEN QueueSize ELSE queue[d]]
    /\ UNCHANGED <<last, lost, serve, subscription, phase, upTo, sent, wire, device>>

(* Slip: a queue without a limit. *)
PublishUnbounded(s) ==
    /\ s \in unpublished
    /\ unpublished' = unpublished \ {s}
    /\ queue' = [d \in Devices |-> IF subscription[d] = "registered" THEN queue[d] + 1
                                   ELSE queue[d]]
    /\ UNCHANGED <<last, lost, serve, subscription, phase, upTo, sent, wire, device>>

(* SubscriptionManager.publish: one notification to every registered queue;  *)
(* a full queue drops its subscription and flags the overflow.  Handlers run *)
(* concurrently, so events are published in any order.                       *)
Publish(s) ==
    LET registered == {d \in Devices : subscription[d] = "registered"}
        full == {d \in registered : queue[d] = QueueSize}
    IN
    /\ s \in unpublished
    /\ unpublished' = unpublished \ {s}
    /\ queue' = [d \in Devices |-> IF d \in registered \ full THEN queue[d] + 1
                                   ELSE queue[d]]
    /\ subscription' = [d \in Devices |-> IF d \in full THEN "overflowed"
                                          ELSE subscription[d]]
    /\ UNCHANGED <<last, lost, serve, phase, upTo, sent, wire, device>>

(* The handler fails between its commit and its publish (a product action    *)
(* whose completion record cannot be written); the retry is a duplicate,     *)
(* which is never published.                                                 *)
LosePublish(s) ==
    /\ s \in unpublished
    /\ unpublished' = unpublished \ {s}
    /\ lost' = lost \cup {s}
    /\ UNCHANGED <<last, coroutine, wire, device>>

------------------------------------------------------------------------------
(* The coroutine that serves a WebSocket. *)

Send(d, frame) == wire' = [wire EXCEPT ![d] = Append(@, frame)]

(* The conversation exists and the cursor is not ahead of next_seq - 1; the  *)
(* subscription is registered before anything is read.                       *)
Register(d) ==
    /\ serve[d] = "opening"
    /\ sent[d] <= last
    /\ subscription' = [subscription EXCEPT ![d] = "registered"]
    /\ queue' = [queue EXCEPT ![d] = 0]
    /\ serve' = [serve EXCEPT ![d] = "reading"]
    /\ UNCHANGED <<hub, phase, upTo, sent, wire, device>>

(* _replay_all: every event committed by now, after last_sent. *)
ReadLog(d) ==
    /\ serve[d] = "reading"
    /\ upTo' = [upTo EXCEPT ![d] = last]
    /\ serve' = [serve EXCEPT ![d] = "sending"]
    /\ UNCHANGED <<hub, subscription, queue, phase, sent, wire, device>>

(* _send_events: one frame per event, last_sent follows. *)
SendEvent(d) ==
    /\ serve[d] = "sending"
    /\ sent[d] < upTo[d]
    /\ sent' = [sent EXCEPT ![d] = @ + 1]
    /\ Send(d, [kind |-> "event", phase |-> phase[d], seq |-> sent[d] + 1])
    /\ UNCHANGED <<hub, serve, subscription, queue, phase, upTo, device>>

(* Slip: the coroutine ends and leaves its subscription registered. *)
EndServing(d) ==
    /\ serve' = [serve EXCEPT ![d] = "none"]
    /\ UNCHANGED <<hub, subscription, queue, phase, upTo, sent, device>>

Unregister(d) ==
    /\ serve' = [serve EXCEPT ![d] = "none"]
    /\ subscription' = [subscription EXCEPT ![d] = "none"]
    /\ queue' = [queue EXCEPT ![d] = 0]
    /\ UNCHANGED <<hub, phase, upTo, sent, device>>

BatchSent(d) == serve[d] = "sending" /\ sent[d] >= upTo[d]

(* Slip: the notification is consumed and the log not read. *)
TakeWithoutReading(d) ==
    /\ BatchSent(d)
    /\ queue[d] > 0
    /\ queue' = [queue EXCEPT ![d] = @ - 1]
    /\ UNCHANGED <<hub, serve, subscription, phase, upTo, sent, wire, device>>

(* A notification is taken from the queue and the log is read again: while   *)
(* draining before ready, or when next_event wakes a live connection, where  *)
(* an overflow takes precedence.                                             *)
TakeNotification(d) ==
    /\ BatchSent(d)
    /\ queue[d] > 0
    /\ phase[d] = "live" => subscription[d] # "overflowed"
    /\ queue' = [queue EXCEPT ![d] = @ - 1]
    /\ serve' = [serve EXCEPT ![d] = "reading"]
    /\ UNCHANGED <<hub, subscription, phase, upTo, sent, wire, device>>

(* Slip: the ready frame carries the last sequence number in the store. *)
SendReadyOfStore(d) ==
    /\ BatchSent(d)
    /\ phase[d] = "replay"
    /\ queue[d] = 0
    /\ subscription[d] # "overflowed"
    /\ Send(d, [kind |-> "ready", phase |-> "live", seq |-> last])
    /\ phase' = [phase EXCEPT ![d] = "live"]
    /\ UNCHANGED <<hub, serve, subscription, queue, upTo, sent, device>>

(* Slip: ready waits for the connection to have caught up with the store. *)
SendReadyIfCaughtUp(d) == sent[d] = last /\ SendReadyOfStore(d)

SendReady(d) ==
    /\ BatchSent(d)
    /\ phase[d] = "replay"
    /\ queue[d] = 0
    /\ subscription[d] # "overflowed"
    /\ Send(d, [kind |-> "ready", phase |-> "live", seq |-> sent[d]])
    /\ phase' = [phase EXCEPT ![d] = "live"]
    /\ UNCHANGED <<hub, serve, subscription, queue, upTo, sent, device>>

(* SubscriptionOverflowError: close 1013, the device must replay. *)
CloseOverflowed(d) ==
    /\ BatchSent(d)
    /\ subscription[d] = "overflowed"
    /\ phase[d] = "live" \/ queue[d] = 0
    /\ Send(d, Close(1013))
    /\ Unregister(d)

(* PersistenceError out of the store or a stored payload that fails its hash *)
(* closes with 1011, a send deadline with 1013.                              *)
CloseFailed(d) ==
    /\ \/ /\ \/ serve[d] \in {"opening", "reading"}
             \/ serve[d] = "sending" /\ ~BatchSent(d)
          /\ Send(d, Close(1011))
       \/ /\ serve[d] = "sending"
          /\ ~BatchSent(d) \/ phase[d] = "replay"
          /\ Send(d, Close(1013))
    /\ Unregister(d)

(* The WebSocket is gone (the device closed it or the network dropped it):   *)
(* the next send or receive of the coroutine raises and it unregisters.      *)
NoticeDisconnect(d) ==
    /\ serve[d] # "none"
    /\ client[d] \notin {"replaying", "ready"}
    /\ Unregister(d)
    /\ UNCHANGED wire

------------------------------------------------------------------------------
(* The device. *)

(* SharedSessionController.start after the client is gone: a new projection  *)
(* is rebuilt from page after page of REST replay until a page is empty, then*)
(* a WebSocket of its own opens at its cursor.                               *)
Start(d) ==
    /\ client[d] \in {"closed", "protocolError"}
    /\ serve[d] = "none"
    /\ wire' = [wire EXCEPT ![d] = <<>>]
    /\ projection' = [projection EXCEPT ![d] = last]
    /\ attempt' = [attempt EXCEPT ![d] = 0]
    /\ fault' = [fault EXCEPT ![d] = "none"]
    /\ client' = [client EXCEPT ![d] = "replaying"]
    /\ serve' = [serve EXCEPT ![d] = "opening"]
    /\ phase' = [phase EXCEPT ![d] = "replay"]
    /\ sent' = [sent EXCEPT ![d] = last]
    /\ UNCHANGED <<hub, subscription, queue, upTo>>

(* _openConnection(isReconnect) with the projection's own cursor. *)
Reconnect(d) ==
    /\ client[d] = "reconnecting"
    /\ serve[d] = "none"
    /\ attempt' = [attempt EXCEPT ![d] = @ + 1]
    /\ client' = [client EXCEPT ![d] = "replaying"]
    /\ serve' = [serve EXCEPT ![d] = "opening"]
    /\ phase' = [phase EXCEPT ![d] = "replay"]
    /\ sent' = [sent EXCEPT ![d] = projection[d]]
    /\ wire' = [wire EXCEPT ![d] = <<>>]
    /\ UNCHANGED <<hub, subscription, queue, upTo, projection, fault>>

(* _failProtocol: the connection is released, what was in flight is dropped. *)
FailProtocol(d, why) ==
    /\ client' = [client EXCEPT ![d] = "protocolError"]
    /\ fault' = [fault EXCEPT ![d] = why]
    /\ wire' = [wire EXCEPT ![d] = <<>>]
    /\ UNCHANGED <<projection, attempt>>

(* SessionProjection.apply: a known event is ignored, the next one applied,  *)
(* any other raises.                                                         *)
Applicable(d, s) == s <= projection[d] + 1

ApplyEvent(d, s) ==
    projection' = [projection EXCEPT ![d] = IF s = @ + 1 THEN s ELSE @]

Expected(d) == IF client[d] = "ready" THEN "live" ELSE "replay"

(* processFrame on an event frame. *)
ReceiveEvent(d) ==
    LET f == Head(wire[d]) IN
    /\ wire[d] # <<>> /\ f.kind = "event"
    /\ client[d] \in {"replaying", "ready"}
    /\ IF f.phase # Expected(d) THEN FailProtocol(d, "delivery")
       ELSE IF ~Applicable(d, f.seq) THEN FailProtocol(d, "gap")
       ELSE /\ ApplyEvent(d, f.seq)
            /\ wire' = [wire EXCEPT ![d] = Tail(@)]
            /\ UNCHANGED <<client, attempt, fault>>
    /\ UNCHANGED <<hub, coroutine>>

(* processFrame on a ready frame: its cursor must be the projection's. *)
ReceiveReady(d) ==
    LET f == Head(wire[d]) IN
    /\ wire[d] # <<>> /\ f.kind = "ready"
    /\ client[d] \in {"replaying", "ready"}
    /\ IF client[d] # "replaying" \/ f.seq # projection[d]
       THEN FailProtocol(d, "ready")
       ELSE /\ client' = [client EXCEPT ![d] = "ready"]
            /\ attempt' = [attempt EXCEPT ![d] = 0]
            /\ wire' = [wire EXCEPT ![d] = Tail(@)]
            /\ UNCHANGED <<projection, fault>>
    /\ UNCHANGED <<hub, coroutine>>

(* handleCloseCode: 1011 stops, 1013 reconnects a bounded number of times,   *)
(* anything else ends the client.                                            *)
AfterClose(d, code) ==
    IF code = 1011 THEN "protocolError"
    ELSE IF code = 1013 /\ attempt[d] < MaxReconnect THEN "reconnecting"
    ELSE "closed"

ReceiveClose(d) ==
    LET f == Head(wire[d]) IN
    /\ wire[d] # <<>> /\ f.kind = "close"
    /\ client[d] \in {"replaying", "ready"}
    /\ client' = [client EXCEPT ![d] = AfterClose(d, f.code)]
    /\ wire' = [wire EXCEPT ![d] = <<>>]
    /\ UNCHANGED <<hub, coroutine, projection, attempt, fault>>

(* The network drops the connection, or the user closes the app: frames in   *)
(* flight are gone.                                                          *)
LoseConnection(d) ==
    /\ client[d] \in {"replaying", "ready", "reconnecting"}
    /\ client' = [client EXCEPT ![d] = "closed"]
    /\ wire' = [wire EXCEPT ![d] = <<>>]
    /\ UNCHANGED <<hub, coroutine, projection, attempt, fault>>

(* The Hub process dies and restarts on the same database: every coroutine,  *)
(* queue and handler is gone, each device sees its socket end.               *)
HubRestart ==
    /\ lost' = lost \cup unpublished
    /\ unpublished' = {}
    /\ serve' = [d \in Devices |-> "none"]
    /\ subscription' = [d \in Devices |-> "none"]
    /\ queue' = [d \in Devices |-> 0]
    /\ wire' = [d \in Devices |-> IF serve[d] = "none" THEN wire[d]
                                  ELSE Append(wire[d], Close(1006))]
    /\ UNCHANGED <<last, phase, upTo, sent, device>>

------------------------------------------------------------------------------
ServeStep(d) == \/ Register(d) \/ ReadLog(d) \/ SendEvent(d) \/ TakeNotification(d)
                \/ SendReady(d) \/ CloseOverflowed(d) \/ NoticeDisconnect(d)

ClientStep(d) == ReceiveEvent(d) \/ ReceiveReady(d) \/ ReceiveClose(d) \/ Reconnect(d)

HubNext == \/ CommitEvent
           \/ \E s \in 1..MaxSeq : Publish(s) \/ LosePublish(s)
           \/ \E d \in Devices : ServeStep(d) \/ CloseFailed(d)
           \/ HubRestart

DeviceNext(d) == ClientStep(d) \/ Start(d) \/ LoseConnection(d)

Next == HubNext \/ \E d \in Devices : DeviceNext(d)

Spec == Init /\ [][Next]_vars

(* The event loop runs every ready coroutine and every started append        *)
(* handler; the device processes the frames it receives.  Nothing forces a   *)
(* failure, a drop, a restart or a new start.                                *)
FairSpec == /\ Spec
            /\ \A d \in Devices : WF_vars(ServeStep(d)) /\ WF_vars(ClientStep(d))
            /\ \A s \in 1..MaxSeq : WF_vars(Publish(s))

------------------------------------------------------------------------------
(* Properties. *)

TypeOK == /\ last \in Nat
          /\ unpublished \subseteq 1..last
          /\ lost \subseteq 1..last
          /\ serve \in [Devices -> {"none", "opening", "reading", "sending"}]
          /\ subscription \in [Devices -> {"none", "registered", "overflowed"}]
          /\ queue \in [Devices -> 0..QueueSize]
          /\ phase \in [Devices -> {"replay", "live"}]
          /\ upTo \in [Devices -> Nat]
          /\ sent \in [Devices -> Nat]
          /\ wire \in [Devices -> Seq(Frame)]
          /\ client \in [Devices -> {"closed", "replaying", "ready", "reconnecting",
                                     "protocolError"}]
          /\ projection \in [Devices -> Nat]
          /\ attempt \in [Devices -> 0..MaxReconnect]
          /\ fault \in [Devices -> {"none", "delivery", "gap", "ready"}]

(* The frames a correct Hub sends never trip the device's integrity checks:  *)
(* no gap, replay frames only before ready and live frames only after it, and*)
(* a ready cursor that is the projection's, however appends, publications,   *)
(* overflows, reconnects and Hub restarts interleave with the replay.        *)
NoIntegrityFailure == \A d \in Devices : fault[d] = "none"

(* No lost wakeup: while a connection is live, has sent its batch and has no *)
(* notification left, every committed event has been sent or its publication *)
(* is still to come (or its handler failed before publishing).               *)
Idle(d) == /\ BatchSent(d)
           /\ queue[d] = 0
           /\ subscription[d] = "registered"

NoMissedEvent ==
    \A d \in Devices : Idle(d) =>
        \A s \in 1..last : s <= sent[d] \/ s \in unpublished \cup lost

(* A subscription never outlives the coroutine that owns it, so a Hub whose  *)
(* devices come and go keeps no queue behind.                                *)
NoOrphanSubscription ==
    \A d \in Devices : serve[d] \in {"none", "opening"} =>
        subscription[d] = "none" /\ queue[d] = 0

(* The manager's books: bounded queues, each with an owner. *)
SubscriptionsAgree == TypeOK /\ NoOrphanSubscription

(* A ready device gets every committed event that was or will be published,  *)
(* or its connection ends, after which replay is its way to the event.       *)
Delivered ==
    \A d \in Devices : \A s \in 1..MaxSeq :
        (client[d] = "ready" /\ s <= last /\ s \notin lost)
            ~> (projection[d] >= s \/ client[d] # "ready" \/ s \in lost)

(* A device that starts gets to ready, or its connection ends: registration, *)
(* drain and overflow never leave it replaying for ever.                     *)
StartsOrEnds ==
    \A d \in Devices : client[d] = "replaying" ~> client[d] # "replaying"

(* A connected device catches up or is disconnected, and is never left behind*)
(* in silence.                                                               *)
CatchesUp == Delivered /\ StartsOrEnds
==============================================================================
