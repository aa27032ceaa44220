----------------------- MODULE DeviceConnectionRegistry -----------------------
(****************************************************************************)
(* How the Hub keeps live sockets and running requests in step with the     *)
(* credential a device authenticated with: device_connection_registry.py,   *)
(* with the callers that drive it (authenticate_websocket, the REST auth    *)
(* gate, DeviceAuthorizationService).  Everything runs on one event loop; a *)
(* step is what happens between two awaits.                                 *)
(*                                                                          *)
(* A stripe lock orders authentication against credential transitions of the*)
(* devices that hash to it; each connection's send gate orders its sends    *)
(* against them.                                                            *)
(****************************************************************************)
EXTENDS Naturals, FiniteSets

CONSTANTS Devices,
          Stripes, StripeOf,   \* the stripe lock of each device
          Conns,               \* WebSocket tasks
          Requests,            \* REST request tasks
          Transitions,         \* transition_and_close tasks
          Free,                \* holder of a lock nobody holds
          MaxHandshakes, MaxConnections, MaxPerDevice,
          MaxOperations, MaxOperationsPerDevice,
          MaxEpoch             \* bound: epochs of a model run

ASSUME RegistryAssumption ==
    /\ StripeOf \in [Devices -> Stripes]
    /\ Free \notin Conns \cup Requests \cup Transitions
    /\ Conns \cap Requests = {} /\ Conns \cap Transitions = {}
    /\ Requests \cap Transitions = {}
    /\ Devices # {}

ASSUME LimitsAssumption ==
    {MaxHandshakes, MaxConnections, MaxPerDevice, MaxOperations,
     MaxOperationsPerDevice} \subseteq Nat

VARIABLES epoch,       \* durable capability epoch of each device, 0 once revoked
          accepting,   \* _accepting
          stripe,      \* holder of each stripe lock
          conn,        \* [at, dev, epoch] of each WebSocket task and its lease
          handshakes,  \* _handshakes
          connections, \* _connections: registered leases
          closing,     \* _closing_connections
          gate,        \* holder of each lease's send gate
          request,     \* [at, dev, epoch] of each REST request and its lease
          trans        \* [at, dev, leases] of each transition

vars == <<epoch, accepting, stripe, conn, handshakes, connections, closing, gate,
          request, trans>>

AnyDevice == CHOOSE d \in Devices : TRUE
NoLease == [at |-> "idle", dev |-> AnyDevice, epoch |-> 0]

Init == /\ epoch = [d \in Devices |-> 1]
        /\ accepting = TRUE
        /\ stripe = [s \in Stripes |-> Free]
        /\ conn = [c \in Conns |-> NoLease]
        /\ handshakes = {} /\ connections = {} /\ closing = {}
        /\ gate = [c \in Conns |-> Free]
        /\ request = [r \in Requests |-> NoLease]
        /\ trans = [t \in Transitions |->
                       [at |-> "idle", dev |-> AnyDevice, leases |-> {}]]

Of(leases, d) == {c \in leases : conn[c].dev = d}
OperationsOf(d) == {r \in Requests : request[r].at = "running" /\ request[r].dev = d}
Operations == {r \in Requests : request[r].at = "running"}

Acquire(d, x) == /\ stripe[StripeOf[d]] = Free
                 /\ stripe' = [stripe EXCEPT ![StripeOf[d]] = x]
Release(d) == stripe' = [stripe EXCEPT ![StripeOf[d]] = Free]

------------------------------------------------------------------------------
(* A WebSocket: handshake permit, authentication, sends, cleanup. *)

AcquireHandshake(c) ==
    /\ conn[c].at = "idle"
    /\ accepting
    /\ Cardinality(handshakes) < MaxHandshakes
    /\ handshakes' = handshakes \cup {c}
    /\ conn' = [conn EXCEPT ![c].at = "handshake"]
    /\ UNCHANGED <<epoch, accepting, stripe, connections, closing, gate, request, trans>>

(* No valid auth frame in time, or the socket closed: the permit is released.*)
HandshakeFails(c) ==
    /\ conn[c].at = "handshake"
    /\ handshakes' = handshakes \ {c}
    /\ conn' = [conn EXCEPT ![c] = NoLease]
    /\ UNCHANGED <<epoch, accepting, stripe, connections, closing, gate, request, trans>>

(* authenticate_and_register takes the stripe before it verifies. *)
BeginVerify(c, d) ==
    /\ conn[c].at = "handshake"
    /\ Acquire(d, c)
    /\ conn' = [conn EXCEPT ![c].at = "verifying", ![c].dev = d]
    /\ UNCHANGED <<epoch, accepting, handshakes, connections, closing, gate, request,
                   trans>>

(* The store finds the credential active at the epoch the device presents.   *)
Verify(c) ==
    /\ conn[c].at = "verifying"
    /\ epoch[conn[c].dev] # 0
    /\ conn' = [conn EXCEPT ![c].at = "verified", ![c].epoch = epoch[conn[c].dev]]
    /\ UNCHANGED <<epoch, accepting, stripe, handshakes, connections, closing, gate,
                   request, trans>>

(* Slip: closing leases are not counted. *)
HasRoomForOpen(d) == /\ Cardinality(connections) < MaxConnections
                     /\ Cardinality(Of(connections, d)) < MaxPerDevice

HasRoom(d) == /\ Cardinality(connections \cup closing) < MaxConnections
              /\ Cardinality(Of(connections \cup closing, d)) < MaxPerDevice

Register(c) ==
    /\ conn[c].at = "verified"
    /\ accepting /\ HasRoom(conn[c].dev)
    /\ connections' = connections \cup {c}
    /\ conn' = [conn EXCEPT ![c].at = "registered"]
    /\ Release(conn[c].dev)
    /\ UNCHANGED <<epoch, accepting, handshakes, closing, gate, request, trans>>

(* Slip: the stripe stays locked when authentication does not succeed. *)
RejectHoldingStripe(c) ==
    /\ conn[c].at \in {"verifying", "verified"}
    /\ handshakes' = handshakes \ {c}
    /\ conn' = [conn EXCEPT ![c] = NoLease]
    /\ UNCHANGED <<epoch, accepting, stripe, connections, closing, gate, request, trans>>

(* Authentication fails, the registry is closed or full, or the task is      *)
(* cancelled while it holds the stripe.                                      *)
Reject(c) ==
    /\ conn[c].at \in {"verifying", "verified"}
    /\ Release(conn[c].dev)
    /\ handshakes' = handshakes \ {c}
    /\ conn' = [conn EXCEPT ![c] = NoLease]
    /\ UNCHANGED <<epoch, accepting, connections, closing, gate, request, trans>>

ReleasePermit(c) ==
    /\ conn[c].at = "registered" /\ c \in handshakes
    /\ handshakes' = handshakes \ {c}
    /\ UNCHANGED <<epoch, accepting, stripe, conn, connections, closing, gate, request,
                   trans>>

(* send_if_authorized: once the gate is held the lease must still be         *)
(* registered; a closing lease is refused and its task unwinds.              *)
BeginSend(c) ==
    /\ conn[c].at = "registered" /\ c \notin handshakes
    /\ gate[c] = Free
    /\ IF c \in connections
       THEN /\ gate' = [gate EXCEPT ![c] = c]
            /\ conn' = [conn EXCEPT ![c].at = "sending"]
       ELSE /\ conn' = [conn EXCEPT ![c].at = "leaving"]
            /\ UNCHANGED gate
    /\ UNCHANGED <<epoch, accepting, stripe, handshakes, connections, closing, request,
                   trans>>

(* The frame is out, or the send timed out or raised and the task unwinds.   *)
EndSend(c, at) ==
    /\ conn[c].at = "sending"
    /\ at \in {"registered", "leaving"}
    /\ gate' = [gate EXCEPT ![c] = Free]
    /\ conn' = [conn EXCEPT ![c].at = at]
    /\ UNCHANGED <<epoch, accepting, stripe, handshakes, connections, closing, request,
                   trans>>

(* The device disconnects, or the task notices authorization_changed.        *)
Leave(c) ==
    /\ conn[c].at = "registered"
    /\ conn' = [conn EXCEPT ![c].at = "leaving"]
    /\ UNCHANGED <<epoch, accepting, stripe, handshakes, connections, closing, gate,
                   request, trans>>

(* Slip: only registered leases are given back. *)
UnregisterOpen(c) ==
    /\ conn[c].at = "leaving"
    /\ handshakes' = handshakes \ {c}
    /\ connections' = connections \ {c}
    /\ conn' = [conn EXCEPT ![c].at = "gone"]
    /\ UNCHANGED <<epoch, accepting, stripe, closing, gate, request, trans>>

(* Cleanup, shielded from cancellation: permit and lease are given back.     *)
Unregister(c) ==
    /\ conn[c].at = "leaving"
    /\ handshakes' = handshakes \ {c}
    /\ connections' = connections \ {c}
    /\ closing' = closing \ {c}
    /\ conn' = [conn EXCEPT ![c].at = "gone"]
    /\ UNCHANGED <<epoch, accepting, stripe, gate, request, trans>>

(* The task is over; its name stands for the next one once no transition     *)
(* holds or waits for the old lease's gate.                                  *)
Forget(c) ==
    /\ conn[c].at = "gone"
    /\ \A t \in Transitions : c \notin trans[t].leases
    /\ conn' = [conn EXCEPT ![c] = NoLease]
    /\ UNCHANGED <<epoch, accepting, stripe, handshakes, connections, closing, gate,
                   request, trans>>

------------------------------------------------------------------------------
(* A REST request: authentication, the handler under its operation lease.    *)

BeginVerifyRequest(r, d) ==
    /\ request[r].at = "idle"
    /\ Acquire(d, r)
    /\ request' = [request EXCEPT ![r].at = "verifying", ![r].dev = d]
    /\ UNCHANGED <<epoch, accepting, conn, handshakes, connections, closing, gate, trans>>

VerifyRequest(r) ==
    /\ request[r].at = "verifying"
    /\ epoch[request[r].dev] # 0
    /\ request' = [request EXCEPT ![r].at = "verified", ![r].epoch = epoch[request[r].dev]]
    /\ UNCHANGED <<epoch, accepting, stripe, conn, handshakes, connections, closing, gate,
                   trans>>

AcquireOperation(r) ==
    /\ request[r].at = "verified"
    /\ accepting
    /\ Cardinality(Operations) < MaxOperations
    /\ Cardinality(OperationsOf(request[r].dev)) < MaxOperationsPerDevice
    /\ request' = [request EXCEPT ![r].at = "running"]
    /\ Release(request[r].dev)
    /\ UNCHANGED <<epoch, accepting, conn, handshakes, connections, closing, gate, trans>>

RejectRequest(r) ==
    /\ request[r].at \in {"verifying", "verified"}
    /\ Release(request[r].dev)
    /\ request' = [request EXCEPT ![r] = NoLease]
    /\ UNCHANGED <<epoch, accepting, conn, handshakes, connections, closing, gate, trans>>

(* Slip: the lease is not released when the handler ends. *)
LeakOperation(r) == FALSE

(* The handler is done (its task is shielded from cancellation) and the lease*)
(* is released in the gate's finally.                                        *)
ReleaseOperation(r) ==
    /\ request[r].at = "running"
    /\ request' = [request EXCEPT ![r] = NoLease]
    /\ UNCHANGED <<epoch, accepting, stripe, conn, handshakes, connections, closing, gate,
                   trans>>

------------------------------------------------------------------------------
(* A credential transition: revoke or update_capabilities. *)

BeginTransition(t, d) ==
    /\ trans[t].at = "idle"
    /\ Acquire(d, t)
    /\ trans' = [trans EXCEPT ![t].at = "draining", ![t].dev = d]
    /\ UNCHANGED <<epoch, accepting, conn, handshakes, connections, closing, gate, request>>

(* Slip: running operations are not waited for. *)
CollectAtOnce(t) ==
    /\ trans[t].at = "draining"
    /\ trans' = [trans EXCEPT ![t].at = "gating",
                              ![t].leases = Of(connections, trans[t].dev)]
    /\ UNCHANGED <<epoch, accepting, stripe, conn, handshakes, connections, closing, gate,
                   request>>

(* The device's operations have been released; its leases are listed.        *)
CollectLeases(t) ==
    /\ trans[t].at = "draining"
    /\ OperationsOf(trans[t].dev) = {}
    /\ trans' = [trans EXCEPT ![t].at = "gating",
                              ![t].leases = Of(connections, trans[t].dev)]
    /\ UNCHANGED <<epoch, accepting, stripe, conn, handshakes, connections, closing, gate,
                   request>>

AcquireGate(t, c) ==
    /\ trans[t].at = "gating"
    /\ c \in trans[t].leases
    /\ gate[c] = Free
    /\ gate' = [gate EXCEPT ![c] = t]
    /\ UNCHANGED <<epoch, accepting, stripe, conn, handshakes, connections, closing,
                   request, trans>>

(* Slip: the store commits without the send gates. *)
GatesIgnored(t) == TRUE

GatesHeld(t) == \A c \in trans[t].leases : gate[c] = t

ReleaseGates(t) == gate' = [c \in Conns |-> IF gate[c] = t THEN Free ELSE gate[c]]

(* The store commits: the credential is revoked or its epoch goes up.        *)
CommitTransition(t) ==
    LET d == trans[t].dev IN
    /\ trans[t].at = "gating" /\ GatesHeld(t)
    /\ epoch[d] # 0
    /\ \E e \in {0, epoch[d] + 1} : e <= MaxEpoch /\ epoch' = [epoch EXCEPT ![d] = e]
    /\ trans' = [trans EXCEPT ![t].at = "committed"]
    /\ UNCHANGED <<accepting, stripe, conn, handshakes, connections, closing, gate, request>>

(* The store raises or finds nothing to change: gates and stripe are given   *)
(* back, no lease is touched.                                                *)
NothingToChange(t) ==
    /\ trans[t].at = "gating" /\ GatesHeld(t)
    /\ ReleaseGates(t)
    /\ Release(trans[t].dev)
    /\ trans' = [trans EXCEPT ![t].at = "idle", ![t].leases = {}]
    /\ UNCHANGED <<epoch, accepting, conn, handshakes, connections, closing, request>>

(* Slip: the transition ends and the leases stay registered. *)
DetachNothing(t) ==
    /\ trans[t].at = "committed"
    /\ trans' = [trans EXCEPT ![t].at = "closing"]
    /\ ReleaseGates(t)
    /\ Release(trans[t].dev)
    /\ UNCHANGED <<epoch, accepting, conn, handshakes, connections, closing, request>>

(* The device's leases leave _connections and are told to close; then the    *)
(* gates and the stripe are released.                                        *)
DetachLeases(t) ==
    LET d == trans[t].dev IN
    /\ trans[t].at = "committed"
    /\ connections' = connections \ Of(connections, d)
    /\ closing' = closing \cup Of(connections, d)
    /\ trans' = [trans EXCEPT ![t].at = "closing",
                              ![t].leases = Of(connections \cup closing, d)]
    /\ ReleaseGates(t)
    /\ Release(d)
    /\ UNCHANGED <<epoch, accepting, conn, handshakes, request>>

(* All of them are closed, or the close deadline passes.                     *)
EndTransition(t) ==
    /\ trans[t].at = "closing"
    /\ trans' = [trans EXCEPT ![t].at = "idle", ![t].leases = {}]
    /\ UNCHANGED <<epoch, accepting, stripe, conn, handshakes, connections, closing, gate,
                   request>>

(* stop_accepting_and_close_all: every lease is told to close; neither       *)
(* stripes nor gates are taken.                                              *)
StopAccepting ==
    /\ accepting
    /\ accepting' = FALSE
    /\ connections' = {}
    /\ closing' = closing \cup connections
    /\ UNCHANGED <<epoch, stripe, conn, handshakes, gate, request, trans>>

------------------------------------------------------------------------------
ConnStep(c) == \/ HandshakeFails(c) \/ Verify(c) \/ Register(c) \/ Reject(c)
               \/ ReleasePermit(c) \/ EndSend(c, "registered") \/ EndSend(c, "leaving")
               \/ Unregister(c) \/ Forget(c)

RequestStep(r) == \/ VerifyRequest(r) \/ AcquireOperation(r) \/ RejectRequest(r)
                  \/ ReleaseOperation(r)

TransitionStep(t) == \/ CollectLeases(t) \/ CommitTransition(t) \/ NothingToChange(t)
                     \/ DetachLeases(t) \/ EndTransition(t)

Next == \/ \E c \in Conns : \/ AcquireHandshake(c) \/ ConnStep(c) \/ BeginSend(c) \/ Leave(c)
                            \/ \E d \in Devices : BeginVerify(c, d)
        \/ \E r \in Requests : \/ RequestStep(r)
                               \/ \E d \in Devices : BeginVerifyRequest(r, d)
        \/ \E t \in Transitions : \/ TransitionStep(t)
                                  \/ \E d \in Devices : BeginTransition(t, d)
                                  \/ \E c \in Conns : AcquireGate(t, c)
        \/ StopAccepting

Spec == Init /\ [][Next]_vars

(* Tasks that hold a lock or lease get on with it: verification, handlers and*)
(* sends end (they have deadlines), a task told to close unwinds, and        *)
(* asyncio.Lock is first come, first served, so a waiting transition gets    *)
(* each send gate.                                                           *)
FairSpec ==
    /\ Spec
    /\ \A c \in Conns : /\ WF_vars(ConnStep(c))
                        /\ WF_vars(c \in closing /\ Leave(c))
    /\ \A r \in Requests : WF_vars(RequestStep(r))
    /\ \A t \in Transitions : /\ WF_vars(TransitionStep(t))
                              /\ \A c \in Conns : SF_vars(AcquireGate(t, c))

------------------------------------------------------------------------------
(* Properties. *)

ConnAt == {"idle", "handshake", "verifying", "verified", "registered", "sending",
           "leaving", "gone"}
TransAt == {"idle", "draining", "gating", "committed", "closing"}

TypeOK == /\ epoch \in [Devices -> Nat]
          /\ accepting \in BOOLEAN
          /\ stripe \in [Stripes -> Conns \cup Requests \cup Transitions \cup {Free}]
          /\ conn \in [Conns -> [at : ConnAt, dev : Devices, epoch : Nat]]
          /\ handshakes \subseteq Conns /\ connections \subseteq Conns
          /\ closing \subseteq Conns
          /\ gate \in [Conns -> Conns \cup Transitions \cup {Free}]
          /\ request \in [Requests -> [at : {"idle", "verifying", "verified", "running"},
                                       dev : Devices, epoch : Nat]]
          /\ trans \in [Transitions -> [at : TransAt, dev : Devices,
                                        leases : SUBSET Conns]]
          /\ \A c \in Conns : conn[c].at \in {"idle", "handshake"} => conn[c].epoch = 0
          /\ \A t \in Transitions :
                trans[t].at \in {"idle", "draining"} => trans[t].leases = {}

(* Every lock is held by a task that is still going to release it: no failed *)
(* authentication, cancelled task, refused send or transition that found     *)
(* nothing to do leaves a stripe or a send gate locked for good.             *)
StripeOwner(x, s) ==
    \/ x \in Conns /\ conn[x].at \in {"verifying", "verified"} /\ StripeOf[conn[x].dev] = s
    \/ x \in Requests /\ request[x].at \in {"verifying", "verified"}
                     /\ StripeOf[request[x].dev] = s
    \/ x \in Transitions /\ trans[x].at \in {"draining", "gating", "committed"}
                        /\ StripeOf[trans[x].dev] = s

GateOwner(x, c) ==
    \/ x = c /\ conn[c].at = "sending"
    \/ x \in Transitions /\ trans[x].at \in {"gating", "committed"} /\ c \in trans[x].leases

NoLeakedLock ==
    /\ \A s \in Stripes : stripe[s] = Free \/ StripeOwner(stripe[s], s)
    /\ \A c \in Conns : gate[c] = Free \/ GateOwner(gate[c], c)

Current(l) == l.epoch = epoch[l.dev] /\ l.epoch # 0

(* No frame goes out under an authority that has been superseded: while a    *)
(* send is running, the lease's epoch is the durable one, from the moment the*)
(* store commits a revoke or a new epoch.  (Once the Hub is shutting down the*)
(* leases leave _connections without their gates, and a transition no longer *)
(* waits for a send still running.)                                          *)
NoStaleSend ==
    accepting => \A c \in Conns : conn[c].at = "sending" => Current(conn[c])

(* A request's handler never runs past a change of its device's authority,   *)
(* shutdown or not.                                                          *)
NoStaleOperation ==
    \A r \in Requests : request[r].at = "running" => Current(request[r])

(* A registered lease is current except while the transition that superseded *)
(* it is between its commit and the detaching of its leases.                 *)
RegisteredIsCurrent ==
    \A c \in connections :
        \/ Current(conn[c])
        \/ \E t \in Transitions : trans[t].at = "committed" /\ trans[t].dev = conn[c].dev

(* Nothing is done or kept in a device's name under an authority it has lost.*)
NothingStale == NoStaleSend /\ NoStaleOperation /\ RegisteredIsCurrent

(* Closing leases keep their place until they are gone: reconnecting in a    *)
(* loop while old sockets hang never exceeds the limits.                     *)
WithinLimits ==
    /\ connections \cap closing = {}
    /\ Cardinality(handshakes) <= MaxHandshakes
    /\ Cardinality(connections \cup closing) <= MaxConnections
    /\ \A d \in Devices : Cardinality(Of(connections \cup closing, d)) <= MaxPerDevice
    /\ Cardinality(Operations) <= MaxOperations
    /\ \A d \in Devices : Cardinality(OperationsOf(d)) <= MaxOperationsPerDevice

(* The registry's books: what it counts, and who holds each lock. *)
PlacesAndLocks == TypeOK /\ WithinLimits /\ NoLeakedLock

(* A transition that has its stripe ends, whatever sends and handlers were   *)
(* running: gates, stripes and leases are never waited for in a circle.      *)
TransitionsEnd ==
    \A t \in Transitions : trans[t].at # "idle" ~> trans[t].at = "idle"

(* Every lease told to close is given back. *)
ClosingDrains == \A c \in Conns : c \in closing ~> c \notin closing

(* Nobody waits for ever: not a revocation, and not the place a lease holds. *)
WaitsEnd == TransitionsEnd /\ ClosingDrains
==============================================================================
