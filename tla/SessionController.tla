--------------------------- MODULE SessionController ---------------------------
(****************************************************************************)
(* The device's SharedSessionController on top of SessionDelivery: it sends *)
(* messages and executes actions over REST while its WebSocket delivers     *)
(* events, and feeds the replies and the frames to one projection.  A reply *)
(* may be lost or late; a pending message is then confirmed by its own      *)
(* WebSocket event or sent again with the same client message identifier.   *)
(*                                                                          *)
(* There is one action, under an answer older than the first event here; its*)
(* result is one message of the Hub's, however often it is executed.        *)
(****************************************************************************)
EXTENDS SessionDelivery

CONSTANTS Messages,    \* client_message_id values the devices may draw
          Result,      \* the message the Hub appends for the action
          NoMessage    \* _pending is null

ASSUME MessagesAssumption == NoMessage \notin Messages /\ Result \notin Messages \cup {NoMessage}

VARIABLES
    pending,     \* _pending
    op,          \* _activeOperation: where it is and the message it sends
    action,      \* executeAction (_actionBusy): where it is
    transport,   \* there is a REST transport, ~_transportNeedsRecovery
    recording,   \* applied messages whose event waits for the cursor write
    orphans,     \* requests given up on that may still reach the Hub
    stored       \* sequence number of each message in the Hub's log, or 0

controller == <<pending, op, action, transport, recording, orphans, stored>>
allVars == <<vars, controller>>

NoOperation == [at |-> "idle", msg |-> NoMessage]
Request(m) == [at |-> "toHub", msg |-> m]
Reconcile(m) == [at |-> "reconciling", msg |-> m]

ControllerInit == /\ Init
                  /\ pending = [d \in Devices |-> NoMessage]
                  /\ op = [d \in Devices |-> NoOperation]
                  /\ action = [d \in Devices |-> "idle"]
                  /\ transport = [d \in Devices |-> TRUE]
                  /\ recording = [d \in Devices |-> {}]
                  /\ orphans = {}
                  /\ stored = [m \in Messages \cup {Result} |-> 0]

CanSend(d) == client[d] = "ready" /\ op[d].at = "idle"

Unused(m) == /\ stored[m] = 0 /\ m \notin orphans
             /\ \A d \in Devices : m \notin {pending[d], op[d].msg}

Stray(d) == IF op[d].at = "toHub" THEN {op[d].msg} ELSE {}

StrayAction(d) == IF action[d] = "toHub" THEN {Result} ELSE {}

(* send: a message that is still pending does not stand in the way, it is    *)
(* replaced.  A transport that needs recovery fails the call at once.        *)
SendMessage(d, m) ==
    /\ CanSend(d)
    /\ Unused(m)
    /\ pending' = [pending EXCEPT ![d] = m]
    /\ op' = [op EXCEPT ![d] = IF transport[d] THEN Request(m) ELSE Reconcile(m)]
    /\ UNCHANGED <<vars, action, transport, recording, orphans, stored>>

(* retryPending: the same message again, over a new transport if the old one *)
(* was discarded; its health check or conversation may fail.                 *)
RetryPending(d) ==
    /\ CanSend(d)
    /\ pending[d] # NoMessage
    /\ \/ /\ op' = [op EXCEPT ![d] = Request(pending[d])]
          /\ transport' = [transport EXCEPT ![d] = TRUE]
       \/ /\ ~transport[d]
          /\ op' = [op EXCEPT ![d] = Reconcile(pending[d])]
          /\ UNCHANGED transport
    /\ UNCHANGED <<vars, pending, action, recording, orphans, stored>>

(* The Hub appends a message, or finds it stored under its identifier.       *)
Accept(m) ==
    IF stored[m] # 0 THEN UNCHANGED <<vars, stored>>
    ELSE /\ CommitEvent
         /\ stored' = [stored EXCEPT ![m] = last + 1]

AcceptRequest(d) ==
    /\ op[d].at = "toHub"
    /\ Accept(op[d].msg)
    /\ op' = [op EXCEPT ![d].at = "toDevice"]
    /\ UNCHANGED <<pending, action, transport, recording, orphans>>

AcceptOrphan(m) ==
    /\ m \in orphans
    /\ Accept(m)
    /\ orphans' = orphans \ {m}
    /\ UNCHANGED <<pending, op, action, transport, recording>>

(* Slip: a failed call means the message was not sent. *)
ForgetUnsent(d) ==
    /\ op[d].at \in {"toHub", "toDevice"}
    /\ orphans' = orphans \cup Stray(d)
    /\ op' = [op EXCEPT ![d] = Reconcile(op[d].msg)]
    /\ pending' = [pending EXCEPT ![d] = NoMessage]
    /\ transport' = [transport EXCEPT ![d] = FALSE]
    /\ UNCHANGED <<vars, action, recording, stored>>

(* TransportException: the outcome is uncertain, the message may still be on *)
(* its way to the Hub.  The transport is discarded and the operation waits   *)
(* two seconds for the message's own event.                                  *)
TransportError(d) ==
    /\ op[d].at \in {"toHub", "toDevice"}
    /\ orphans' = orphans \cup Stray(d)
    /\ op' = [op EXCEPT ![d] = Reconcile(op[d].msg)]
    /\ transport' = [transport EXCEPT ![d] = FALSE]
    /\ UNCHANGED <<vars, pending, action, recording, stored>>

EndReconciliation(d) ==
    /\ op[d].at = "reconciling"
    /\ op' = [op EXCEPT ![d] = NoOperation]
    /\ UNCHANGED <<vars, pending, action, transport, recording, orphans, stored>>

(* _enterFailure: the session is over, a late reply finds no operation.      *)
(* Only executeAction has no token and goes on.                              *)
EnterFailure(d, why) ==
    /\ FailProtocol(d, why)
    /\ pending' = [pending EXCEPT ![d] = NoMessage]
    /\ op' = [op EXCEPT ![d] = NoOperation]
    /\ recording' = [recording EXCEPT ![d] = {}]
    /\ orphans' = orphans \cup Stray(d)
    /\ UNCHANGED <<hub, coroutine, transport, stored>>

(* The Hub answers with an error.  persistence_unavailable, which it also    *)
(* gives when it fails after the commit, leaves the message pending; any     *)
(* other code ends the session.                                              *)
RequestRefused(d) ==
    /\ op[d].at \in {"toHub", "toDevice"}
    /\ \/ /\ op' = [op EXCEPT ![d] = NoOperation]
          /\ UNCHANGED <<vars, pending, action, transport, recording, orphans, stored>>
       \/ EnterFailure(d, "none") /\ UNCHANGED action

(* The reply arrives: the pending message is confirmed and its event goes    *)
(* through the same projection as the WebSocket frames; an event that is     *)
(* neither known nor the next one fails the session.  The cursor is written in*)
(* the same step; should that fail, so does the session.                     *)
ReceiveReply(d) ==
    LET s == stored[op[d].msg] IN
    /\ op[d].at = "toDevice"
    /\ \/ /\ Applicable(d, s)
          /\ ApplyEvent(d, s)
          /\ pending' = [pending EXCEPT ![d] = NoMessage]
          /\ op' = [op EXCEPT ![d] = NoOperation]
          /\ UNCHANGED <<hub, coroutine, wire, client, attempt, fault, action, transport,
                         recording, orphans, stored>>
       \/ /\ EnterFailure(d, IF Applicable(d, s) THEN "none" ELSE "gap")
          /\ UNCHANGED action

(* executeAction: it takes no part in _activeOperation, so a message may be  *)
(* sent while it runs.                                                       *)
ExecuteAction(d) ==
    /\ client[d] = "ready" /\ action[d] = "idle" /\ transport[d]
    /\ action' = [action EXCEPT ![d] = "toHub"]
    /\ UNCHANGED <<vars, pending, op, transport, recording, orphans, stored>>

AcceptAction(d) ==
    /\ action[d] = "toHub"
    /\ Accept(Result)
    /\ action' = [action EXCEPT ![d] = "toDevice"]
    /\ UNCHANGED <<pending, op, transport, recording, orphans>>

(* Whatever goes wrong with the call, it is reported as unconfirmed and the  *)
(* session goes on.                                                          *)
ActionFails(d) ==
    /\ action[d] \in {"toHub", "toDevice"}
    /\ action' = [action EXCEPT ![d] = "idle"]
    /\ orphans' = orphans \cup StrayAction(d)
    /\ UNCHANGED <<vars, pending, op, transport, recording, stored>>

(* The result's event goes through the projection, be the session over or    *)
(* not, and the cursor is written; if either fails, so does the session.     *)
ReceiveResult(d) ==
    LET s == stored[Result] IN
    /\ action[d] = "toDevice"
    /\ \/ /\ Applicable(d, s)
          /\ ApplyEvent(d, s)
          /\ action' = [action EXCEPT ![d] = "idle"]
          /\ UNCHANGED <<hub, coroutine, wire, client, attempt, fault, pending, op, transport,
                         recording, orphans, stored>>
       \/ /\ EnterFailure(d, IF Applicable(d, s) THEN "none" ELSE "gap")
          /\ action' = [action EXCEPT ![d] = "idle"]

(* Slip: an event that is applied is not looked at by the controller. *)
ReceiveEventOnly(d) == ReceiveEvent(d) /\ UNCHANGED controller

(* An event the projection did not know goes to _onSocketEvent, which first  *)
(* waits for the cursor to be written.                                       *)
ReceiveEventAndRecord(d) ==
    /\ ReceiveEvent(d)
    /\ recording' = [recording EXCEPT ![d] = @ \cup
                        {m \in Messages : projection[d] < stored[m]
                                          /\ stored[m] = projection'[d]}]
    /\ UNCHANGED <<pending, op, action, transport, orphans, stored>>

(* Slip: the event confirms its message only while the call is running. *)
RecordWhileSending(d, m) ==
    /\ m \in recording[d]
    /\ recording' = [recording EXCEPT ![d] = @ \ {m}]
    /\ pending' = [pending EXCEPT ![d] = IF m = op[d].msg THEN NoMessage ELSE @]
    /\ UNCHANGED <<vars, op, action, transport, orphans, stored>>

(* The cursor is written: the event confirms the message that is pending     *)
(* now, if it is its own.                                                    *)
RecordEvent(d, m) ==
    /\ m \in recording[d]
    /\ recording' = [recording EXCEPT ![d] = @ \ {m}]
    /\ pending' = [pending EXCEPT ![d] = IF @ = m THEN NoMessage ELSE @]
    /\ UNCHANGED <<vars, op, action, transport, orphans, stored>>

(* The cursor cannot be written. *)
RecordFails(d) == recording[d] # {} /\ EnterFailure(d, "none") /\ UNCHANGED action

(* A new controller has no pending message; what an action of the old one    *)
(* still does is no longer seen.                                             *)
StartAfresh(d) ==
    /\ Start(d)
    /\ pending' = [pending EXCEPT ![d] = NoMessage]
    /\ op' = [op EXCEPT ![d] = NoOperation]
    /\ transport' = [transport EXCEPT ![d] = TRUE]
    /\ recording' = [recording EXCEPT ![d] = {}]
    /\ action' = [action EXCEPT ![d] = "idle"]
    /\ orphans' = orphans \cup Stray(d) \cup StrayAction(d)
    /\ UNCHANGED stored

ControllerStep(d) ==
    \/ ReceiveEventAndRecord(d) \/ EndReconciliation(d)
    \/ \E m \in Messages : RecordEvent(d, m)
    \/ (ReceiveReady(d) \/ ReceiveClose(d) \/ Reconnect(d)) /\ UNCHANGED controller

ControllerNext ==
    \/ \E d \in Devices :
          \/ ControllerStep(d)
          \/ \E m \in Messages : SendMessage(d, m)
          \/ RetryPending(d) \/ AcceptRequest(d) \/ TransportError(d)
          \/ RequestRefused(d) \/ ReceiveReply(d) \/ RecordFails(d)
          \/ ExecuteAction(d) \/ AcceptAction(d) \/ ActionFails(d) \/ ReceiveResult(d)
          \/ StartAfresh(d)
          \/ LoseConnection(d) /\ UNCHANGED controller
    \/ \E m \in Messages \cup {Result} : AcceptOrphan(m)
    \/ HubNext /\ UNCHANGED controller

ControllerSpec == ControllerInit /\ [][ControllerNext]_allVars

(* SessionDelivery's fairness, and the device goes on with what it received; *)
(* no user and no REST call is forced to move.                               *)
ControllerFairness ==
    \A d \in Devices :
        /\ WF_allVars(ServeStep(d) /\ UNCHANGED controller)
        /\ WF_allVars(ReceiveEventAndRecord(d))
        /\ WF_allVars((ReceiveReady(d) \/ ReceiveClose(d) \/ Reconnect(d))
                      /\ UNCHANGED controller)
        /\ \A m \in Messages : WF_allVars(RecordEvent(d, m))
        /\ \A s \in 1..MaxSeq : WF_allVars(Publish(s) /\ UNCHANGED controller)

FairControllerSpec == ControllerSpec /\ ControllerFairness

------------------------------------------------------------------------------
(* Properties. *)

ControllerTypeOK ==
    /\ TypeOK
    /\ pending \in [Devices -> Messages \cup {NoMessage}]
    /\ op \in [Devices -> [at : {"idle", "toHub", "toDevice", "reconciling"},
                           msg : Messages \cup {NoMessage}]]
    /\ \A d \in Devices : op[d].at # "idle" => op[d].msg \in Messages
    /\ transport \in [Devices -> BOOLEAN]
    /\ recording \in [Devices -> SUBSET Messages]
    /\ action \in [Devices -> {"idle", "toHub", "toDevice"}]
    /\ orphans \subseteq Messages \cup {Result}
    /\ stored \in [Messages \cup {Result} -> 0..last]

(* While the session goes on, a message leaves the pending state without     *)
(* another one taking its place only once the Hub has stored it, whichever of*)
(* the reply, the WebSocket event, a timeout and a retry comes first.        *)
ForgottenOnlyIfStored ==
    [][\A d \in Devices :
          /\ pending[d] # NoMessage /\ pending'[d] = NoMessage
          /\ client'[d] # "protocolError" /\ ~Start(d)
          => stored[pending[d]] # 0]_allVars

(* A message that is in the timeline is not offered for a retry, except for  *)
(* as long as its cursor is being written: the REST reply and the WebSocket  *)
(* event of a message race each other, and retries race both.                *)
NoGhostPending ==
    \A d \in Devices :
        LET m == pending[d] IN
        m # NoMessage /\ stored[m] # 0 /\ stored[m] <= projection[d]
            => m \in recording[d]

(* A message whose reply was lost although the Hub stored it is confirmed by *)
(* its own event while the device stays connected, with no retry.            *)
ConfirmedByEvent ==
    \A d \in Devices, m \in Messages :
        (pending[d] = m /\ stored[m] # 0 /\ client[d] = "ready")
            ~> (pending[d] # m \/ client[d] # "ready" \/ stored[m] \in lost)

(* The protocol says clients replay gaps: an event that another device sent  *)
(* just before must not fail the session of a device whose own reply came    *)
(* first.                                                                    *)
GapsAreReplayed == \A d \in Devices : fault[d] # "gap"

(* The client protocol: after every await the token is checked, and a late   *)
(* result changes neither the view nor the projection nor the cursor.        *)
LateResultsIgnored ==
    [][\A d \in Devices :
          client[d] = "protocolError" /\ client'[d] = "protocolError"
              => projection'[d] = projection[d] /\ fault'[d] = fault[d]]_allVars

(* The client protocol: after a TransportException the pending message and   *)
(* its identifier are kept, and only a retry of it is allowed.               *)
PendingIsKept ==
    [][\A d \in Devices :
          pending[d] # NoMessage /\ pending'[d] # NoMessage
              => pending'[d] = pending[d]]_allVars
==============================================================================
