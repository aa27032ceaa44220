------------------- MODULE DeviceConnectionRegistry_proofs -------------------
(* Theorems about DeviceConnectionRegistry, for any devices, stripes, tasks *)
(* and limits: nothing is sent, executed or kept registered in a device's   *)
(* name under an authority it has lost, the limits hold, no lock leaks.     *)
EXTENDS DeviceConnectionRegistry, FiniteSetTheorems, TLAPS

(* Whoever is between taking and releasing a stripe holds it. *)
StripesHeld ==
    /\ \A c \in Conns : conn[c].at \in {"verifying", "verified"}
         => stripe[StripeOf[conn[c].dev]] = c
    /\ \A r \in Requests : request[r].at \in {"verifying", "verified"}
         => stripe[StripeOf[request[r].dev]] = r
    /\ \A t \in Transitions : trans[t].at \in {"draining", "gating", "committed"}
         => stripe[StripeOf[trans[t].dev]] = t

(* So does whoever sends, and a transition that has committed. *)
GatesAreHeld ==
    /\ \A c \in Conns : conn[c].at = "sending" => gate[c] = c
    /\ \A t \in Transitions : trans[t].at = "committed" => GatesHeld(t)

(* What was verified stays true until it is used. *)
VerifiedIsCurrent ==
    /\ \A c \in Conns : conn[c].at = "verified" => Current(conn[c])
    /\ \A r \in Requests : request[r].at \in {"verified", "running"} => Current(request[r])

(* A transition that is past draining sees every lease of its device and no *)
(* running operation of it.                                                 *)
Drained ==
    \A t \in Transitions : trans[t].at \in {"gating", "committed"} =>
        /\ \A r \in Requests : request[r].at = "running" => request[r].dev # trans[t].dev
        /\ \A c \in connections : conn[c].dev = trans[t].dev => c \in trans[t].leases

(* Registered leases are those of tasks that live; until the shutdown only  *)
(* they send.                                                               *)
Books ==
    /\ \A c \in connections : conn[c].at \in {"registered", "sending", "leaving"}
    /\ accepting => \A c \in Conns : conn[c].at = "sending" => c \in connections

RegInv == /\ TypeOK /\ StripesHeld /\ GatesAreHeld /\ VerifiedIsCurrent /\ Drained /\ Books
          /\ RegisteredIsCurrent

------------------------------------------------------------------------------
LEMMA NoLeaseType == NoLease \in [at : {"idle"}, dev : Devices, epoch : {0}]
  BY RegistryAssumption DEF AnyDevice, NoLease

Trans == [at : TransAt, dev : Devices, leases : SUBSET Conns]

LEMMA TransMoves ==
    ASSUME NEW f \in [Transitions -> Trans], NEW t \in Transitions, NEW at \in TransAt
    PROVE  [f EXCEPT ![t].at = at] \in [Transitions -> Trans]
  BY DEF Trans

TakesDevice(f, t, at, d) == [f EXCEPT ![t].at = at, ![t].dev = d]
TakesLeases(f, t, at, l) == [f EXCEPT ![t].at = at, ![t].leases = l]

LEMMA TransTakesDevice ==
    ASSUME NEW f \in [Transitions -> Trans], NEW t \in Transitions, NEW at \in TransAt,
           NEW d \in Devices
    PROVE  TakesDevice(f, t, at, d) \in [Transitions -> Trans]
  BY DEF Trans, TakesDevice

LEMMA TransTakesLeases ==
    ASSUME NEW f \in [Transitions -> Trans], NEW t \in Transitions, NEW at \in TransAt,
           NEW l \in SUBSET Conns
    PROVE  TakesLeases(f, t, at, l) \in [Transitions -> Trans]
  BY DEF Trans, TakesLeases

LEMMA AcquireHandshakeKeeps ==
    ASSUME RegInv, NEW c \in Conns, AcquireHandshake(c)
    PROVE  RegInv'
<1>. USE RegistryAssumption DEF AcquireHandshake
<1>1. TypeOK'
  BY NoLeaseType DEF RegInv, TypeOK, ConnAt, TransAt
<1>2. StripesHeld'
  BY DEF RegInv, TypeOK, StripesHeld
<1>3. GatesAreHeld'
  BY DEF RegInv, TypeOK, GatesAreHeld, GatesHeld
<1>4. VerifiedIsCurrent'
  BY DEF RegInv, TypeOK, VerifiedIsCurrent, Current
<1>5. Drained'
  BY DEF RegInv, TypeOK, Drained
<1>6. Books'
  BY DEF RegInv, TypeOK, Books
<1>7. RegisteredIsCurrent'
  BY DEF RegInv, TypeOK, RegisteredIsCurrent, Current
<1>. QED  BY <1>1, <1>2, <1>3, <1>4, <1>5, <1>6, <1>7 DEF RegInv

LEMMA HandshakeFailsKeeps ==
    ASSUME RegInv, NEW c \in Conns, HandshakeFails(c)
    PROVE  RegInv'
<1>. USE RegistryAssumption DEF HandshakeFails
<1>1. TypeOK'
  BY NoLeaseType DEF RegInv, TypeOK, ConnAt, TransAt
<1>2. StripesHeld'
  BY DEF RegInv, TypeOK, StripesHeld, NoLease
<1>3. GatesAreHeld'
  BY DEF RegInv, TypeOK, GatesAreHeld, GatesHeld, NoLease
<1>4. VerifiedIsCurrent'
  BY DEF RegInv, TypeOK, VerifiedIsCurrent, Current, NoLease
<1>5. Drained'
  BY DEF RegInv, TypeOK, Drained, Books, NoLease
<1>6. Books'
  BY DEF RegInv, TypeOK, Books, NoLease
<1>7. RegisteredIsCurrent'
  BY DEF RegInv, TypeOK, RegisteredIsCurrent, Current, Books, NoLease
<1>. QED  BY <1>1, <1>2, <1>3, <1>4, <1>5, <1>6, <1>7 DEF RegInv

LEMMA BeginVerifyKeeps ==
    ASSUME RegInv, NEW c \in Conns, NEW d \in Devices, BeginVerify(c, d)
    PROVE  RegInv'
<1>. USE RegistryAssumption DEF BeginVerify, Acquire
<1>1. TypeOK'
  BY NoLeaseType, ZenonT(30) DEF RegInv, TypeOK, ConnAt, TransAt
<1>2. StripesHeld'
  BY DEF RegInv, TypeOK, StripesHeld
<1>3. GatesAreHeld'
  BY DEF RegInv, TypeOK, GatesAreHeld, GatesHeld
<1>4. VerifiedIsCurrent'
  BY DEF RegInv, TypeOK, VerifiedIsCurrent, Current
<1>5. Drained'
  BY DEF RegInv, TypeOK, Drained, Books
<1>6. Books'
  BY DEF RegInv, TypeOK, Books
<1>7. RegisteredIsCurrent'
  BY DEF RegInv, TypeOK, RegisteredIsCurrent, Current, Books
<1>. QED  BY <1>1, <1>2, <1>3, <1>4, <1>5, <1>6, <1>7 DEF RegInv

LEMMA VerifyKeeps ==
    ASSUME RegInv, NEW c \in Conns, Verify(c)
    PROVE  RegInv'
<1>. USE RegistryAssumption DEF Verify
<1>1. TypeOK'
  BY NoLeaseType DEF RegInv, TypeOK, ConnAt, TransAt
<1>2. StripesHeld'
  BY DEF RegInv, TypeOK, StripesHeld
<1>3. GatesAreHeld'
  BY DEF RegInv, TypeOK, GatesAreHeld, GatesHeld
<1>4. VerifiedIsCurrent'
  BY DEF RegInv, TypeOK, VerifiedIsCurrent, Current
<1>5. Drained'
  BY DEF RegInv, TypeOK, Drained
<1>6. Books'
  BY DEF RegInv, TypeOK, Books
<1>7. RegisteredIsCurrent'
  BY DEF RegInv, TypeOK, RegisteredIsCurrent, Current, Books
<1>. QED  BY <1>1, <1>2, <1>3, <1>4, <1>5, <1>6, <1>7 DEF RegInv

LEMMA RegisterKeeps ==
    ASSUME RegInv, NEW c \in Conns, Register(c)
    PROVE  RegInv'
<1>. USE RegistryAssumption DEF Register, Release
<1>1. TypeOK'
  BY NoLeaseType DEF RegInv, TypeOK, ConnAt, TransAt
<1>2. StripesHeld'
  BY DEF RegInv, TypeOK, StripesHeld
<1>3. GatesAreHeld'
  BY DEF RegInv, TypeOK, GatesAreHeld, GatesHeld
<1>4. VerifiedIsCurrent'
  BY DEF RegInv, TypeOK, VerifiedIsCurrent, Current
<1>5. Drained'
  BY DEF RegInv, TypeOK, Drained, StripesHeld
<1>6. Books'
  BY DEF RegInv, TypeOK, Books
<1>7. RegisteredIsCurrent'
  BY DEF RegInv, TypeOK, StripesHeld, GatesAreHeld, VerifiedIsCurrent, Drained,
     Books, RegisteredIsCurrent, Current, GatesHeld, Of, OperationsOf, NoLease
<1>. QED  BY <1>1, <1>2, <1>3, <1>4, <1>5, <1>6, <1>7 DEF RegInv

LEMMA RejectKeeps ==
    ASSUME RegInv, NEW c \in Conns, Reject(c)
    PROVE  RegInv'
<1>. USE RegistryAssumption DEF Reject, Release
<1>1. TypeOK'
  BY NoLeaseType DEF RegInv, TypeOK, ConnAt, TransAt
<1>2. StripesHeld'
  BY DEF RegInv, TypeOK, StripesHeld, NoLease
<1>3. GatesAreHeld'
  BY DEF RegInv, TypeOK, GatesAreHeld, GatesHeld, NoLease
<1>4. VerifiedIsCurrent'
  BY DEF RegInv, TypeOK, VerifiedIsCurrent, Current, NoLease
<1>5. Drained'
  BY DEF RegInv, TypeOK, Drained, Books, NoLease
<1>6. Books'
  BY DEF RegInv, TypeOK, Books, NoLease
<1>7. RegisteredIsCurrent'
  BY DEF RegInv, TypeOK, RegisteredIsCurrent, Current, Books, NoLease
<1>. QED  BY <1>1, <1>2, <1>3, <1>4, <1>5, <1>6, <1>7 DEF RegInv

LEMMA ReleasePermitKeeps ==
    ASSUME RegInv, NEW c \in Conns, ReleasePermit(c)
    PROVE  RegInv'
<1>. USE RegistryAssumption DEF ReleasePermit
<1>1. TypeOK'
  BY NoLeaseType DEF RegInv, TypeOK, ConnAt, TransAt
<1>2. StripesHeld'
  BY DEF RegInv, TypeOK, StripesHeld
<1>3. GatesAreHeld'
  BY DEF RegInv, TypeOK, GatesAreHeld, GatesHeld
<1>4. VerifiedIsCurrent'
  BY DEF RegInv, TypeOK, VerifiedIsCurrent, Current
<1>5. Drained'
  BY DEF RegInv, TypeOK, Drained
<1>6. Books'
  BY DEF RegInv, TypeOK, Books
<1>7. RegisteredIsCurrent'
  BY DEF RegInv, TypeOK, RegisteredIsCurrent, Current
<1>. QED  BY <1>1, <1>2, <1>3, <1>4, <1>5, <1>6, <1>7 DEF RegInv

LEMMA BeginSendKeeps ==
    ASSUME RegInv, NEW c \in Conns, BeginSend(c)
    PROVE  RegInv'
<1>. DEFINE Sends == /\ c \in connections /\ gate' = [gate EXCEPT ![c] = c]
                     /\ conn' = [conn EXCEPT ![c].at = "sending"]
            Refused == /\ c \notin connections /\ UNCHANGED gate
                       /\ conn' = [conn EXCEPT ![c].at = "leaving"]
<1>. USE RegistryAssumption DEF BeginSend
<1>1. TypeOK'
  <2>1. CASE Sends
    BY <2>1 DEF RegInv, TypeOK, ConnAt, TransAt
  <2>2. CASE Refused
    BY <2>2 DEF RegInv, TypeOK, ConnAt, TransAt
  <2>. QED  BY <2>1, <2>2
<1>2. StripesHeld'
  BY DEF RegInv, TypeOK, StripesHeld
<1>3. GatesAreHeld'
  <2>1. CASE Sends
    BY <2>1 DEF RegInv, TypeOK, GatesAreHeld, GatesHeld
  <2>2. CASE Refused
    BY <2>2 DEF RegInv, TypeOK, GatesAreHeld, GatesHeld
  <2>. QED  BY <2>1, <2>2
<1>4. VerifiedIsCurrent'
  BY DEF RegInv, TypeOK, VerifiedIsCurrent, Current
<1>5. Drained'
  <2>1. CASE Sends
    BY <2>1 DEF RegInv, TypeOK, Drained
  <2>2. CASE Refused
    BY <2>2 DEF RegInv, TypeOK, Drained
  <2>. QED  BY <2>1, <2>2
<1>6. Books'
  <2>1. CASE Sends
    BY <2>1 DEF RegInv, TypeOK, Books
  <2>2. CASE Refused
    BY <2>2 DEF RegInv, TypeOK, Books
  <2>. QED  BY <2>1, <2>2
<1>7. RegisteredIsCurrent'
  <2>1. CASE Sends
    BY <2>1 DEF RegInv, TypeOK, RegisteredIsCurrent, Current
  <2>2. CASE Refused
    BY <2>2 DEF RegInv, TypeOK, RegisteredIsCurrent, Current
  <2>. QED  BY <2>1, <2>2
<1>. QED  BY <1>1, <1>2, <1>3, <1>4, <1>5, <1>6, <1>7 DEF RegInv

LEMMA EndSendKeeps ==
    ASSUME RegInv, NEW c \in Conns, NEW at \in {"registered", "leaving"}, EndSend(c, at)
    PROVE  RegInv'
<1>. USE RegistryAssumption DEF EndSend
<1>1. TypeOK'
  BY NoLeaseType DEF RegInv, TypeOK, ConnAt, TransAt
<1>2. StripesHeld'
  BY DEF RegInv, TypeOK, StripesHeld
<1>3. GatesAreHeld'
  BY DEF RegInv, TypeOK, GatesAreHeld, GatesHeld
<1>4. VerifiedIsCurrent'
  BY DEF RegInv, TypeOK, VerifiedIsCurrent, Current
<1>5. Drained'
  BY DEF RegInv, TypeOK, Drained
<1>6. Books'
  BY DEF RegInv, TypeOK, Books
<1>7. RegisteredIsCurrent'
  BY DEF RegInv, TypeOK, RegisteredIsCurrent, Current
<1>. QED  BY <1>1, <1>2, <1>3, <1>4, <1>5, <1>6, <1>7 DEF RegInv

LEMMA LeaveKeeps ==
    ASSUME RegInv, NEW c \in Conns, Leave(c)
    PROVE  RegInv'
<1>. USE RegistryAssumption DEF Leave
<1>1. TypeOK'
  BY NoLeaseType DEF RegInv, TypeOK, ConnAt, TransAt
<1>2. StripesHeld'
  BY DEF RegInv, TypeOK, StripesHeld
<1>3. GatesAreHeld'
  BY DEF RegInv, TypeOK, GatesAreHeld, GatesHeld
<1>4. VerifiedIsCurrent'
  BY DEF RegInv, TypeOK, VerifiedIsCurrent, Current
<1>5. Drained'
  BY DEF RegInv, TypeOK, Drained
<1>6. Books'
  BY DEF RegInv, TypeOK, Books
<1>7. RegisteredIsCurrent'
  BY DEF RegInv, TypeOK, RegisteredIsCurrent, Current
<1>. QED  BY <1>1, <1>2, <1>3, <1>4, <1>5, <1>6, <1>7 DEF RegInv

LEMMA UnregisterKeeps ==
    ASSUME RegInv, NEW c \in Conns, Unregister(c)
    PROVE  RegInv'
<1>. USE RegistryAssumption DEF Unregister
<1>1. TypeOK'
  BY NoLeaseType DEF RegInv, TypeOK, ConnAt, TransAt
<1>2. StripesHeld'
  BY DEF RegInv, TypeOK, StripesHeld
<1>3. GatesAreHeld'
  BY DEF RegInv, TypeOK, GatesAreHeld, GatesHeld
<1>4. VerifiedIsCurrent'
  BY DEF RegInv, TypeOK, VerifiedIsCurrent, Current
<1>5. Drained'
  BY DEF RegInv, TypeOK, Drained
<1>6. Books'
  BY DEF RegInv, TypeOK, Books
<1>7. RegisteredIsCurrent'
  BY DEF RegInv, TypeOK, RegisteredIsCurrent, Current
<1>. QED  BY <1>1, <1>2, <1>3, <1>4, <1>5, <1>6, <1>7 DEF RegInv

LEMMA ForgetKeeps ==
    ASSUME RegInv, NEW c \in Conns, Forget(c)
    PROVE  RegInv'
<1>. USE RegistryAssumption DEF Forget
<1>1. TypeOK'
  BY NoLeaseType DEF RegInv, TypeOK, ConnAt, TransAt
<1>2. StripesHeld'
  BY DEF RegInv, TypeOK, StripesHeld, NoLease
<1>3. GatesAreHeld'
  BY DEF RegInv, TypeOK, GatesAreHeld, GatesHeld, NoLease
<1>4. VerifiedIsCurrent'
  BY DEF RegInv, TypeOK, VerifiedIsCurrent, Current, NoLease
<1>5. Drained'
  BY DEF RegInv, TypeOK, Drained, Books, NoLease
<1>6. Books'
  BY DEF RegInv, TypeOK, Books, NoLease
<1>7. RegisteredIsCurrent'
  BY DEF RegInv, TypeOK, RegisteredIsCurrent, Current, Books, NoLease
<1>. QED  BY <1>1, <1>2, <1>3, <1>4, <1>5, <1>6, <1>7 DEF RegInv

LEMMA BeginVerifyRequestKeeps ==
    ASSUME RegInv, NEW r \in Requests, NEW d \in Devices, BeginVerifyRequest(r, d)
    PROVE  RegInv'
<1>. USE RegistryAssumption DEF BeginVerifyRequest, Acquire
<1>1. TypeOK'
  BY NoLeaseType, ZenonT(30) DEF RegInv, TypeOK, ConnAt, TransAt
<1>2. StripesHeld'
  BY DEF RegInv, TypeOK, StripesHeld
<1>3. GatesAreHeld'
  BY DEF RegInv, TypeOK, GatesAreHeld, GatesHeld
<1>4. VerifiedIsCurrent'
  BY DEF RegInv, TypeOK, VerifiedIsCurrent, Current
<1>5. Drained'
  BY DEF RegInv, TypeOK, Drained
<1>6. Books'
  BY DEF RegInv, TypeOK, Books
<1>7. RegisteredIsCurrent'
  BY DEF RegInv, TypeOK, RegisteredIsCurrent, Current
<1>. QED  BY <1>1, <1>2, <1>3, <1>4, <1>5, <1>6, <1>7 DEF RegInv

LEMMA VerifyRequestKeeps ==
    ASSUME RegInv, NEW r \in Requests, VerifyRequest(r)
    PROVE  RegInv'
<1>. USE RegistryAssumption DEF VerifyRequest
<1>1. TypeOK'
  BY NoLeaseType DEF RegInv, TypeOK, ConnAt, TransAt
<1>2. StripesHeld'
  BY DEF RegInv, TypeOK, StripesHeld
<1>3. GatesAreHeld'
  BY DEF RegInv, TypeOK, GatesAreHeld, GatesHeld
<1>4. VerifiedIsCurrent'
  BY DEF RegInv, TypeOK, VerifiedIsCurrent, Current
<1>5. Drained'
  BY DEF RegInv, TypeOK, Drained
<1>6. Books'
  BY DEF RegInv, TypeOK, Books
<1>7. RegisteredIsCurrent'
  BY DEF RegInv, TypeOK, RegisteredIsCurrent, Current
<1>. QED  BY <1>1, <1>2, <1>3, <1>4, <1>5, <1>6, <1>7 DEF RegInv

LEMMA AcquireOperationKeeps ==
    ASSUME RegInv, NEW r \in Requests, AcquireOperation(r)
    PROVE  RegInv'
<1>. USE RegistryAssumption DEF AcquireOperation, Release
<1>1. TypeOK'
  BY NoLeaseType DEF RegInv, TypeOK, ConnAt, TransAt
<1>2. StripesHeld'
  BY DEF RegInv, TypeOK, StripesHeld
<1>3. GatesAreHeld'
  BY DEF RegInv, TypeOK, GatesAreHeld, GatesHeld
<1>4. VerifiedIsCurrent'
  BY DEF RegInv, TypeOK, VerifiedIsCurrent, Current
<1>5. Drained'
  BY DEF RegInv, TypeOK, Drained, StripesHeld
<1>6. Books'
  BY DEF RegInv, TypeOK, Books
<1>7. RegisteredIsCurrent'
  BY DEF RegInv, TypeOK, RegisteredIsCurrent, Current
<1>. QED  BY <1>1, <1>2, <1>3, <1>4, <1>5, <1>6, <1>7 DEF RegInv

LEMMA RejectRequestKeeps ==
    ASSUME RegInv, NEW r \in Requests, RejectRequest(r)
    PROVE  RegInv'
<1>. USE RegistryAssumption DEF RejectRequest, Release
<1>1. TypeOK'
  BY NoLeaseType DEF RegInv, TypeOK, ConnAt, TransAt
<1>2. StripesHeld'
  BY DEF RegInv, TypeOK, StripesHeld, NoLease
<1>3. GatesAreHeld'
  BY DEF RegInv, TypeOK, GatesAreHeld, GatesHeld, NoLease
<1>4. VerifiedIsCurrent'
  BY DEF RegInv, TypeOK, VerifiedIsCurrent, Current, NoLease
<1>5. Drained'
  BY DEF RegInv, TypeOK, Drained, NoLease
<1>6. Books'
  BY DEF RegInv, TypeOK, Books, NoLease
<1>7. RegisteredIsCurrent'
  BY DEF RegInv, TypeOK, RegisteredIsCurrent, Current, NoLease
<1>. QED  BY <1>1, <1>2, <1>3, <1>4, <1>5, <1>6, <1>7 DEF RegInv

LEMMA ReleaseOperationKeeps ==
    ASSUME RegInv, NEW r \in Requests, ReleaseOperation(r)
    PROVE  RegInv'
<1>. USE RegistryAssumption DEF ReleaseOperation
<1>1. TypeOK'
  BY NoLeaseType DEF RegInv, TypeOK, ConnAt, TransAt
<1>2. StripesHeld'
  BY DEF RegInv, TypeOK, StripesHeld, NoLease
<1>3. GatesAreHeld'
  BY DEF RegInv, TypeOK, GatesAreHeld, GatesHeld, NoLease
<1>4. VerifiedIsCurrent'
  BY DEF RegInv, TypeOK, VerifiedIsCurrent, Current, NoLease
<1>5. Drained'
  BY DEF RegInv, TypeOK, Drained, NoLease
<1>6. Books'
  BY DEF RegInv, TypeOK, Books, NoLease
<1>7. RegisteredIsCurrent'
  BY DEF RegInv, TypeOK, RegisteredIsCurrent, Current, NoLease
<1>. QED  BY <1>1, <1>2, <1>3, <1>4, <1>5, <1>6, <1>7 DEF RegInv

LEMMA BeginTransitionKeeps ==
    ASSUME RegInv, NEW t \in Transitions, NEW d \in Devices, BeginTransition(t, d)
    PROVE  RegInv'
<1>. USE RegistryAssumption DEF BeginTransition, Acquire
<1>1. TypeOK'
  <2>1. trans' \in [Transitions -> Trans]
    <3>1. trans' = TakesDevice(trans, t, "draining", d)
      BY DEF TakesDevice
    <3>2. trans \in [Transitions -> Trans] /\ "draining" \in TransAt
      BY DEF RegInv, TypeOK, Trans, TransAt
    <3>3. d \in Devices
      OBVIOUS
    <3>. HIDE DEF BeginTransition
    <3>. QED  BY <3>1, <3>2, <3>3, TransTakesDevice
  <2>2. \A x \in Transitions :
          trans'[x].at \in {"idle", "draining"} => trans'[x].leases = {}
    BY DEF RegInv, TypeOK
  <2>. QED  BY <2>1, <2>2 DEF RegInv, TypeOK, Trans
<1>2. StripesHeld'
  BY DEF RegInv, TypeOK, StripesHeld
<1>3. GatesAreHeld'
  BY DEF RegInv, TypeOK, GatesAreHeld, GatesHeld
<1>4. VerifiedIsCurrent'
  BY DEF RegInv, TypeOK, VerifiedIsCurrent, Current
<1>5. Drained'
  BY DEF RegInv, TypeOK, Drained
<1>6. Books'
  BY DEF RegInv, TypeOK, Books
<1>7. RegisteredIsCurrent'
  BY DEF RegInv, TypeOK, RegisteredIsCurrent, Current
<1>. QED  BY <1>1, <1>2, <1>3, <1>4, <1>5, <1>6, <1>7 DEF RegInv

LEMMA CollectLeasesKeeps ==
    ASSUME RegInv, NEW t \in Transitions, CollectLeases(t)
    PROVE  RegInv'
<1>. USE RegistryAssumption DEF CollectLeases
<1>1. TypeOK'
  <2>1. trans' \in [Transitions -> Trans]
    <3>1. trans' = TakesLeases(trans, t, "gating", Of(connections, trans[t].dev))
      BY DEF TakesLeases
    <3>2. trans \in [Transitions -> Trans] /\ "gating" \in TransAt
      BY DEF RegInv, TypeOK, Trans, TransAt
    <3>3. Of(connections, trans[t].dev) \in SUBSET Conns
      BY DEF RegInv, TypeOK, Of
    <3>. HIDE DEF CollectLeases
    <3>. QED  BY <3>1, <3>2, <3>3, TransTakesLeases
  <2>2. \A x \in Transitions :
          trans'[x].at \in {"idle", "draining"} => trans'[x].leases = {}
    BY DEF RegInv, TypeOK
  <2>. QED  BY <2>1, <2>2 DEF RegInv, TypeOK, Trans
<1>2. StripesHeld'
  BY DEF RegInv, TypeOK, StripesHeld
<1>3. GatesAreHeld'
  BY DEF RegInv, TypeOK, GatesAreHeld, GatesHeld
<1>4. VerifiedIsCurrent'
  BY DEF RegInv, TypeOK, VerifiedIsCurrent, Current
<1>5. Drained'
  BY DEF RegInv, TypeOK, Drained, OperationsOf, Of
<1>6. Books'
  BY DEF RegInv, TypeOK, Books
<1>7. RegisteredIsCurrent'
  BY DEF RegInv, TypeOK, RegisteredIsCurrent, Current
<1>. QED  BY <1>1, <1>2, <1>3, <1>4, <1>5, <1>6, <1>7 DEF RegInv

LEMMA AcquireGateKeeps ==
    ASSUME RegInv, NEW t \in Transitions, NEW c \in Conns, AcquireGate(t, c)
    PROVE  RegInv'
<1>. USE RegistryAssumption DEF AcquireGate
<1>1. TypeOK'
  BY NoLeaseType DEF RegInv, TypeOK, ConnAt, TransAt
<1>2. StripesHeld'
  BY DEF RegInv, TypeOK, StripesHeld
<1>3. GatesAreHeld'
  BY DEF RegInv, TypeOK, GatesAreHeld, GatesHeld
<1>4. VerifiedIsCurrent'
  BY DEF RegInv, TypeOK, VerifiedIsCurrent, Current
<1>5. Drained'
  BY DEF RegInv, TypeOK, Drained
<1>6. Books'
  BY DEF RegInv, TypeOK, Books
<1>7. RegisteredIsCurrent'
  BY DEF RegInv, TypeOK, RegisteredIsCurrent, Current
<1>. QED  BY <1>1, <1>2, <1>3, <1>4, <1>5, <1>6, <1>7 DEF RegInv

LEMMA CommitTransitionKeeps ==
    ASSUME RegInv, NEW t \in Transitions, CommitTransition(t)
    PROVE  RegInv'
<1>. USE RegistryAssumption DEF CommitTransition
<1>1. TypeOK'
  <2>1. trans' \in [Transitions -> Trans]
    BY TransMoves DEF RegInv, TypeOK, TransAt, Trans
  <2>2. \A x \in Transitions :
          trans'[x].at \in {"idle", "draining"} => trans'[x].leases = {}
    BY DEF RegInv, TypeOK
  <2>. QED  BY <2>1, <2>2 DEF RegInv, TypeOK, Trans
<1>2. StripesHeld'
  BY DEF RegInv, TypeOK, StripesHeld
<1>3. GatesAreHeld'
  BY DEF RegInv, TypeOK, GatesAreHeld, GatesHeld
<1>4. VerifiedIsCurrent'
  <2>1. \A d \in Devices : d # trans[t].dev => epoch'[d] = epoch[d]
    BY DEF RegInv, TypeOK
  <2>2. \A c \in Conns : conn[c].at = "verified" => conn[c].dev # trans[t].dev
    BY DEF RegInv, TypeOK, StripesHeld
  <2>3. \A r \in Requests :
          request[r].at \in {"verified", "running"} => request[r].dev # trans[t].dev
    BY DEF RegInv, TypeOK, StripesHeld, Drained
  <2>4. /\ \A c \in Conns : conn[c].dev \in Devices
        /\ \A r \in Requests : request[r].dev \in Devices
    BY DEF RegInv, TypeOK
  <2>. QED  BY <2>1, <2>2, <2>3, <2>4 DEF RegInv, VerifiedIsCurrent, Current
<1>5. Drained'
  BY DEF RegInv, TypeOK, Drained
<1>6. Books'
  BY DEF RegInv, TypeOK, Books
<1>7. RegisteredIsCurrent'
  BY DEF RegInv, TypeOK, RegisteredIsCurrent, Current
<1>. QED  BY <1>1, <1>2, <1>3, <1>4, <1>5, <1>6, <1>7 DEF RegInv

LEMMA NothingToChangeKeeps ==
    ASSUME RegInv, NEW t \in Transitions, NothingToChange(t)
    PROVE  RegInv'
<1>. USE RegistryAssumption DEF NothingToChange, Release, ReleaseGates
<1>1. TypeOK'
  <2>1. trans' \in [Transitions -> Trans]
    <3>1. trans' = TakesLeases(trans, t, "idle", {})
      BY DEF TakesLeases
    <3>2. trans \in [Transitions -> Trans] /\ "idle" \in TransAt
      BY DEF RegInv, TypeOK, Trans, TransAt
    <3>3. {} \in SUBSET Conns
      OBVIOUS
    <3>. HIDE DEF NothingToChange
    <3>. QED  BY <3>1, <3>2, <3>3, TransTakesLeases
  <2>2. \A x \in Transitions :
          trans'[x].at \in {"idle", "draining"} => trans'[x].leases = {}
    BY DEF RegInv, TypeOK
  <2>. QED  BY <2>1, <2>2 DEF RegInv, TypeOK, Trans
<1>2. StripesHeld'
  BY DEF RegInv, TypeOK, StripesHeld
<1>3. GatesAreHeld'
  BY DEF RegInv, TypeOK, GatesAreHeld, GatesHeld, StripesHeld
<1>4. VerifiedIsCurrent'
  BY DEF RegInv, TypeOK, VerifiedIsCurrent, Current
<1>5. Drained'
  BY DEF RegInv, TypeOK, Drained
<1>6. Books'
  BY DEF RegInv, TypeOK, Books
<1>7. RegisteredIsCurrent'
  BY DEF RegInv, TypeOK, RegisteredIsCurrent, Current
<1>. QED  BY <1>1, <1>2, <1>3, <1>4, <1>5, <1>6, <1>7 DEF RegInv

LEMMA DetachLeasesKeeps ==
    ASSUME RegInv, NEW t \in Transitions, DetachLeases(t)
    PROVE  RegInv'
<1>. USE RegistryAssumption DEF DetachLeases, Release, ReleaseGates
<1>1. TypeOK'
  <2>1. trans' \in [Transitions -> Trans]
    <3>1. trans' = TakesLeases(trans, t, "closing", Of(connections \cup closing, trans[t].dev))
      BY DEF TakesLeases
    <3>2. trans \in [Transitions -> Trans] /\ "closing" \in TransAt
      BY DEF RegInv, TypeOK, Trans, TransAt
    <3>3. Of(connections \cup closing, trans[t].dev) \in SUBSET Conns
      BY DEF RegInv, TypeOK, Of
    <3>. HIDE DEF DetachLeases
    <3>. QED  BY <3>1, <3>2, <3>3, TransTakesLeases
  <2>2. \A x \in Transitions :
          trans'[x].at \in {"idle", "draining"} => trans'[x].leases = {}
    BY DEF RegInv, TypeOK
  <2>3. connections' \subseteq Conns /\ closing' \subseteq Conns
    BY DEF RegInv, TypeOK, Of
  <2>4. /\ gate' \in [Conns -> Conns \cup Transitions \cup {Free}]
        /\ stripe' \in [Stripes -> Conns \cup Requests \cup Transitions \cup {Free}]
    BY DEF RegInv, TypeOK
  <2>. QED  BY <2>1, <2>2, <2>3, <2>4 DEF RegInv, TypeOK, Trans
<1>2. StripesHeld'
  BY DEF RegInv, TypeOK, StripesHeld
<1>3. GatesAreHeld'
  BY DEF RegInv, TypeOK, GatesAreHeld, GatesHeld, Of, StripesHeld, Drained
<1>4. VerifiedIsCurrent'
  BY DEF RegInv, TypeOK, VerifiedIsCurrent, Current
<1>5. Drained'
  BY DEF RegInv, TypeOK, Drained, Of
<1>6. Books'
  BY DEF RegInv, TypeOK, Books, Of, Drained, GatesAreHeld, GatesHeld
<1>7. RegisteredIsCurrent'
  BY DEF RegInv, TypeOK, RegisteredIsCurrent, Current, Of, StripesHeld
<1>. QED  BY <1>1, <1>2, <1>3, <1>4, <1>5, <1>6, <1>7 DEF RegInv

LEMMA EndTransitionKeeps ==
    ASSUME RegInv, NEW t \in Transitions, EndTransition(t)
    PROVE  RegInv'
<1>. USE RegistryAssumption DEF EndTransition
<1>1. TypeOK'
  <2>1. trans' \in [Transitions -> Trans]
    <3>1. trans' = TakesLeases(trans, t, "idle", {})
      BY DEF TakesLeases
    <3>2. trans \in [Transitions -> Trans] /\ "idle" \in TransAt
      BY DEF RegInv, TypeOK, Trans, TransAt
    <3>3. {} \in SUBSET Conns
      OBVIOUS
    <3>. HIDE DEF EndTransition
    <3>. QED  BY <3>1, <3>2, <3>3, TransTakesLeases
  <2>2. \A x \in Transitions :
          trans'[x].at \in {"idle", "draining"} => trans'[x].leases = {}
    BY DEF RegInv, TypeOK
  <2>. QED  BY <2>1, <2>2 DEF RegInv, TypeOK, Trans
<1>2. StripesHeld'
  BY DEF RegInv, TypeOK, StripesHeld
<1>3. GatesAreHeld'
  BY DEF RegInv, TypeOK, GatesAreHeld, GatesHeld
<1>4. VerifiedIsCurrent'
  BY DEF RegInv, TypeOK, VerifiedIsCurrent, Current
<1>5. Drained'
  BY DEF RegInv, TypeOK, Drained
<1>6. Books'
  BY DEF RegInv, TypeOK, Books
<1>7. RegisteredIsCurrent'
  BY DEF RegInv, TypeOK, RegisteredIsCurrent, Current
<1>. QED  BY <1>1, <1>2, <1>3, <1>4, <1>5, <1>6, <1>7 DEF RegInv

LEMMA StopAcceptingKeeps ==
    ASSUME RegInv, StopAccepting
    PROVE  RegInv'
<1>. USE DEF StopAccepting
<1>1. TypeOK' /\ Books'
  BY DEF RegInv, TypeOK, Books
<1>2. StripesHeld' /\ GatesAreHeld' /\ VerifiedIsCurrent'
  BY DEF RegInv, StripesHeld, GatesAreHeld, GatesHeld, VerifiedIsCurrent, Current
<1>3. Drained' /\ RegisteredIsCurrent'
  BY DEF RegInv, Drained, RegisteredIsCurrent
<1>. QED  BY <1>1, <1>2, <1>3 DEF RegInv

LEMMA RegistryInitial == Init => RegInv
<1>. SUFFICES ASSUME Init PROVE RegInv
  OBVIOUS
<1>. USE RegistryAssumption DEF Init, NoLease
<1>1. AnyDevice \in Devices
  BY DEF AnyDevice
<1>2. TypeOK
  BY <1>1 DEF TypeOK, ConnAt, TransAt
<1>3. StripesHeld /\ GatesAreHeld /\ VerifiedIsCurrent
  BY DEF StripesHeld, GatesAreHeld, VerifiedIsCurrent
<1>4. Drained /\ Books /\ RegisteredIsCurrent
  BY DEF Drained, Books, RegisteredIsCurrent
<1>. QED  BY <1>2, <1>3, <1>4 DEF RegInv

LEMMA RegistryStutters == RegInv /\ UNCHANGED vars => RegInv'
  BY DEF RegInv, vars, TypeOK, StripesHeld, GatesAreHeld, GatesHeld, VerifiedIsCurrent, Current,
     Drained, Books, RegisteredIsCurrent

LEMMA RegistryStep == RegInv /\ [Next]_vars => RegInv'
<1>. SUFFICES ASSUME RegInv, [Next]_vars PROVE RegInv'
  OBVIOUS
<1>1. ASSUME NEW c \in Conns,
             \/ AcquireHandshake(c) \/ ConnStep(c) \/ BeginSend(c) \/ Leave(c)
             \/ \E d \in Devices : BeginVerify(c, d)
      PROVE  RegInv'
  BY <1>1, AcquireHandshakeKeeps, HandshakeFailsKeeps, BeginVerifyKeeps, VerifyKeeps,
     RegisterKeeps, RejectKeeps, ReleasePermitKeeps, BeginSendKeeps, EndSendKeeps,
     LeaveKeeps, UnregisterKeeps, ForgetKeeps
  DEF ConnStep
<1>2. ASSUME NEW r \in Requests,
             RequestStep(r) \/ \E d \in Devices : BeginVerifyRequest(r, d)
      PROVE  RegInv'
  BY <1>2, BeginVerifyRequestKeeps, VerifyRequestKeeps, AcquireOperationKeeps,
     RejectRequestKeeps, ReleaseOperationKeeps
  DEF RequestStep
<1>3. ASSUME NEW t \in Transitions,
             \/ TransitionStep(t)
             \/ \E d \in Devices : BeginTransition(t, d)
             \/ \E c \in Conns : AcquireGate(t, c)
      PROVE  RegInv'
  BY <1>3, BeginTransitionKeeps, CollectLeasesKeeps, AcquireGateKeeps,
     CommitTransitionKeeps, NothingToChangeKeeps, DetachLeasesKeeps, EndTransitionKeeps
  DEF TransitionStep
<1>. QED  BY <1>1, <1>2, <1>3, StopAcceptingKeeps, RegistryStutters DEF Next

------------------------------------------------------------------------------
(* The theorems. *)

(* The strengthened invariant of the registry: who holds which lock, and    *)
(* what that lets nobody else do.                                           *)
THEOREM RegistryInvariant == Spec => []RegInv
  BY RegistryStep, RegistryInitial, PTL DEF Spec

(* Whatever connects, sends, is requested, revoked and shut down at the     *)
(* same time: nothing is sent, executed or kept registered under an         *)
(* authority that was superseded (transition_and_close,                     *)
(* send_if_authorized, authenticate_and_register).                          *)
THEOREM NothingIsStale == Spec => []NothingStale
<1>1. RegInv => NothingStale
  <2>. SUFFICES ASSUME RegInv PROVE NothingStale
    OBVIOUS
  <2>1. NoStaleOperation
    BY DEF RegInv, VerifiedIsCurrent, NoStaleOperation
  <2>2. NoStaleSend
    <3>. SUFFICES ASSUME accepting, NEW c \in Conns, conn[c].at = "sending"
                  PROVE  Current(conn[c])
      BY DEF NoStaleSend
    <3>1. c \in connections /\ gate[c] = c
      BY DEF RegInv, Books, GatesAreHeld
    <3>2. ASSUME NEW t \in Transitions, trans[t].at = "committed", trans[t].dev = conn[c].dev
          PROVE  FALSE
      <4>1. c \in trans[t].leases
        BY <3>1, <3>2 DEF RegInv, Drained
      <4>2. gate[c] = t
        BY <3>2, <4>1 DEF RegInv, GatesAreHeld, GatesHeld
      <4>. QED  BY <3>1, <4>2, RegistryAssumption
    <3>. QED  BY <3>1, <3>2 DEF RegInv, RegisteredIsCurrent
  <2>. QED  BY <2>1, <2>2 DEF RegInv, NothingStale
<1>. QED  BY <1>1, RegistryInvariant, PTL

------------------------------------------------------------------------------
(* Locks and places. *)

LEMMA LocksStayOwned ==
    ASSUME RegInv, NoLeakedLock, Next
    PROVE  NoLeakedLock'
<1>. USE RegistryAssumption DEF RegInv, TypeOK, StripesHeld, GatesAreHeld, NoLeakedLock,
           StripeOwner, GateOwner
<1>1. ASSUME NEW c \in Conns,
            \/ AcquireHandshake(c) \/ ConnStep(c) \/ BeginSend(c) \/ Leave(c)
            \/ \E d \in Devices : BeginVerify(c, d)
     PROVE  NoLeakedLock'
  <2>1. CASE AcquireHandshake(c)
    BY <2>1 DEF AcquireHandshake
  <2>2. CASE HandshakeFails(c)
    BY <2>2 DEF HandshakeFails, NoLease
  <2>3. CASE \E d \in Devices : BeginVerify(c, d)
    BY <2>3 DEF BeginVerify, Acquire
  <2>4. CASE Verify(c)
    BY <2>4 DEF Verify
  <2>5. CASE Register(c)
    BY <2>5 DEF Register, Release
  <2>6. CASE Reject(c)
    BY <2>6 DEF Reject, Release, NoLease
  <2>7. CASE ReleasePermit(c)
    BY <2>7 DEF ReleasePermit
  <2>8. CASE BeginSend(c)
    <3>1. CASE /\ c \in connections /\ gate' = [gate EXCEPT ![c] = c]
               /\ conn' = [conn EXCEPT ![c].at = "sending"]
      BY <3>1, <2>8 DEF BeginSend
    <3>2. CASE c \notin connections /\ conn' = [conn EXCEPT ![c].at = "leaving"] /\ UNCHANGED gate
      BY <3>2, <2>8 DEF BeginSend
    <3>. QED  BY <2>8, <3>1, <3>2 DEF BeginSend
  <2>9. CASE EndSend(c, "registered")
    BY <2>9 DEF EndSend
  <2>10. CASE EndSend(c, "leaving")
    BY <2>10 DEF EndSend
  <2>11. CASE Leave(c)
    BY <2>11 DEF Leave
  <2>12. CASE Unregister(c)
    BY <2>12 DEF Unregister
  <2>13. CASE Forget(c)
    BY <2>13 DEF Forget, NoLease
  <2>. QED  BY ONLY <1>1, <2>1, <2>2, <2>3, <2>4, <2>5, <2>6, <2>7, <2>8, <2>9, <2>10,
     <2>11, <2>12, <2>13 DEF ConnStep
<1>2. ASSUME NEW r \in Requests,
            RequestStep(r) \/ \E d \in Devices : BeginVerifyRequest(r, d)
     PROVE  NoLeakedLock'
  <2>1. CASE \E d \in Devices : BeginVerifyRequest(r, d)
    BY <2>1 DEF BeginVerifyRequest, Acquire
  <2>2. CASE VerifyRequest(r)
    BY <2>2 DEF VerifyRequest
  <2>3. CASE AcquireOperation(r)
    BY <2>3 DEF AcquireOperation, Release
  <2>4. CASE RejectRequest(r)
    BY <2>4 DEF RejectRequest, Release, NoLease
  <2>5. CASE ReleaseOperation(r)
    BY <2>5 DEF ReleaseOperation, NoLease
  <2>. QED  BY ONLY <1>2, <2>1, <2>2, <2>3, <2>4, <2>5 DEF RequestStep
<1>3. ASSUME NEW t \in Transitions,
            \/ TransitionStep(t)
            \/ \E d \in Devices : BeginTransition(t, d)
            \/ \E c \in Conns : AcquireGate(t, c)
     PROVE  NoLeakedLock'
  <2>1. CASE \E d \in Devices : BeginTransition(t, d)
    BY <2>1 DEF BeginTransition, Acquire
  <2>2. CASE CollectLeases(t)
    BY <2>2 DEF CollectLeases, Of
  <2>3. CASE \E c \in Conns : AcquireGate(t, c)
    BY <2>3 DEF AcquireGate
  <2>4. CASE CommitTransition(t)
    BY <2>4 DEF CommitTransition, GatesHeld
  <2>5. CASE NothingToChange(t)
    BY <2>5 DEF NothingToChange, Release, ReleaseGates, GatesHeld
  <2>6. CASE DetachLeases(t)
    BY <2>6 DEF DetachLeases, Release, ReleaseGates, Of
  <2>7. CASE EndTransition(t)
    BY <2>7 DEF EndTransition
  <2>. QED  BY ONLY <1>3, <2>1, <2>2, <2>3, <2>4, <2>5, <2>6, <2>7 DEF TransitionStep
<1>4. StopAccepting => NoLeakedLock'
  BY DEF StopAccepting
<1>. QED  BY ONLY Next, <1>1, <1>2, <1>3, <1>4 DEF Next

LEMMA OneMore ==
    ASSUME NEW S, IsFiniteSet(S), NEW x, NEW n \in Nat, Cardinality(S) < n
    PROVE  IsFiniteSet(S \cup {x}) /\ Cardinality(S \cup {x}) <= n
<1>1. Cardinality(S) \in Nat
  BY FS_CardinalityType
<1>2. /\ IsFiniteSet(S \cup {x})
      /\ Cardinality(S \cup {x}) \in {Cardinality(S), Cardinality(S) + 1}
  BY FS_AddElement
<1>. QED  BY <1>1, <1>2

LEMMA NoMore ==
    ASSUME NEW S, IsFiniteSet(S), NEW T, T \subseteq S, NEW n \in Nat, Cardinality(S) <= n
    PROVE  IsFiniteSet(T) /\ Cardinality(T) <= n
  BY FS_Subset, FS_CardinalityType

(* What is counted, and the places in use are those of tasks that live.     *)
Leases == connections \cup closing

Counted ==
    /\ IsFiniteSet(handshakes) /\ IsFiniteSet(Leases) /\ IsFiniteSet(Operations)
    /\ \A c \in Leases : conn[c].at \in {"registered", "sending", "leaving"}

(* A step that takes no place. *)
TakesNoPlace ==
    /\ handshakes' \subseteq handshakes
    /\ Leases' \subseteq Leases
    /\ \A d \in Devices : Of(Leases, d)' \subseteq Of(Leases, d)
    /\ Operations' \subseteq Operations
    /\ \A d \in Devices : OperationsOf(d)' \subseteq OperationsOf(d)
    /\ connections' \cap closing' = {}
    /\ \A c \in Leases' : conn'[c].at \in {"registered", "sending", "leaving"}

LEMMA PartsAreFinite ==
    ASSUME Counted
    PROVE  /\ \A d \in Devices : IsFiniteSet(Of(Leases, d))
           /\ \A d \in Devices : IsFiniteSet(OperationsOf(d))
<1>1. /\ \A d \in Devices : Of(Leases, d) \subseteq Leases
      /\ \A d \in Devices : OperationsOf(d) \subseteq Operations
  BY DEF Of, OperationsOf, Operations
<1>. QED  BY <1>1, FS_Subset DEF Counted

LEMMA TakingNoneKeeps ==
    ASSUME WithinLimits, Counted, TakesNoPlace
    PROVE  WithinLimits' /\ Counted'
<1>. USE LimitsAssumption
<1>1. IsFiniteSet(handshakes') /\ Cardinality(handshakes') <= MaxHandshakes
  BY NoMore DEF WithinLimits, Counted, TakesNoPlace
<1>2. IsFiniteSet(Leases') /\ Cardinality(Leases') <= MaxConnections
  BY NoMore DEF WithinLimits, Counted, TakesNoPlace, Leases
<1>3. IsFiniteSet(Operations') /\ Cardinality(Operations') <= MaxOperations
  BY NoMore DEF WithinLimits, Counted, TakesNoPlace
<1>4. ASSUME NEW d \in Devices
      PROVE  /\ Cardinality(Of(Leases, d)') <= MaxPerDevice
             /\ Cardinality(OperationsOf(d)') <= MaxOperationsPerDevice
  <2>1. Cardinality(Of(Leases, d)) <= MaxPerDevice
    BY DEF WithinLimits, Leases
  <2>2. Cardinality(OperationsOf(d)) <= MaxOperationsPerDevice
    BY DEF WithinLimits
  <2>3. Of(Leases, d)' \subseteq Of(Leases, d) /\ OperationsOf(d)' \subseteq OperationsOf(d)
    BY DEF TakesNoPlace
  <2>4. IsFiniteSet(Of(Leases, d)) /\ IsFiniteSet(OperationsOf(d))
    BY PartsAreFinite
  <2>. QED  BY <2>1, <2>2, <2>3, <2>4, NoMore
<1>. QED  BY <1>1, <1>2, <1>3, <1>4 DEF WithinLimits, Counted, TakesNoPlace, Leases

LEMMA HandshakeWithinLimits ==
    ASSUME RegInv, WithinLimits, Counted, NEW c \in Conns, AcquireHandshake(c)
    PROVE  WithinLimits' /\ Counted'
<1>. USE LimitsAssumption DEF AcquireHandshake
<1>1. IsFiniteSet(handshakes') /\ Cardinality(handshakes') <= MaxHandshakes
  BY OneMore DEF WithinLimits, Counted
<1>2. /\ Leases' = Leases /\ Operations' = Operations
      /\ \A d \in Devices : Of(Leases, d)' = Of(Leases, d)
      /\ \A d \in Devices : OperationsOf(d)' = OperationsOf(d)
  BY DEF Leases, Of, Operations, OperationsOf, RegInv, TypeOK
<1>3. c \notin Leases
  BY DEF Counted
<1>4. \A x \in Leases' : conn'[x].at \in {"registered", "sending", "leaving"}
  BY <1>2, <1>3 DEF Counted, RegInv, TypeOK, Leases
<1>. QED  BY <1>1, <1>2, <1>4 DEF WithinLimits, Counted, Leases

LEMMA RegisterWithinLimits ==
    ASSUME RegInv, WithinLimits, Counted, NEW c \in Conns, Register(c)
    PROVE  WithinLimits' /\ Counted'
<1>. USE LimitsAssumption DEF Register, HasRoom
<1>1. Leases' = Leases \cup {c} /\ c \notin Leases
  BY DEF Leases, Counted
<1>2. IsFiniteSet(Leases') /\ Cardinality(Leases') <= MaxConnections
  BY <1>1, OneMore DEF Counted, Leases
<1>3. /\ handshakes' = handshakes /\ Operations' = Operations
      /\ \A d \in Devices : OperationsOf(d)' = OperationsOf(d)
  BY DEF Operations, OperationsOf
<1>4. ASSUME NEW d \in Devices PROVE Cardinality(Of(Leases, d)') <= MaxPerDevice
  <2>1. CASE d = conn[c].dev
    <3>1. Of(Leases, d)' = Of(Leases, d) \cup {c}
      BY <1>1, <2>1 DEF Of, RegInv, TypeOK, Leases
    <3>2. Cardinality(Of(Leases, d)) < MaxPerDevice
      BY <2>1 DEF Leases
    <3>. QED  BY <3>1, <3>2, PartsAreFinite, OneMore
  <2>2. CASE d # conn[c].dev
    <3>1. Of(Leases, d)' = Of(Leases, d)
      BY <1>1, <2>2 DEF Of, RegInv, TypeOK, Leases
    <3>. QED  BY <3>1 DEF WithinLimits, Leases
  <2>. QED  BY <2>1, <2>2
<1>5. \A x \in Leases' : conn'[x].at \in {"registered", "sending", "leaving"}
  BY <1>1 DEF Counted, RegInv, TypeOK, Leases
<1>6. connections' \cap closing' = {}
  BY <1>1 DEF WithinLimits, Leases
<1>. QED  BY <1>2, <1>3, <1>4, <1>5, <1>6 DEF WithinLimits, Counted, Leases

LEMMA OperationWithinLimits ==
    ASSUME RegInv, WithinLimits, Counted, NEW r \in Requests, AcquireOperation(r)
    PROVE  WithinLimits' /\ Counted'
<1>. USE LimitsAssumption DEF AcquireOperation
<1>1. Operations' = Operations \cup {r}
  BY DEF Operations, RegInv, TypeOK
<1>2. IsFiniteSet(Operations') /\ Cardinality(Operations') <= MaxOperations
  BY <1>1, OneMore DEF Counted
<1>3. /\ handshakes' = handshakes /\ Leases' = Leases
      /\ \A d \in Devices : Of(Leases, d)' = Of(Leases, d)
  BY DEF Leases, Of
<1>4. ASSUME NEW d \in Devices
      PROVE  Cardinality(OperationsOf(d)') <= MaxOperationsPerDevice
  <2>1. CASE d = request[r].dev
    <3>1. OperationsOf(d)' = OperationsOf(d) \cup {r}
      BY <2>1 DEF OperationsOf, RegInv, TypeOK
    <3>. QED  BY <2>1, <3>1, PartsAreFinite, OneMore
  <2>2. CASE d # request[r].dev
    <3>1. OperationsOf(d)' = OperationsOf(d)
      BY <2>2 DEF OperationsOf, RegInv, TypeOK
    <3>. QED  BY <3>1 DEF WithinLimits
  <2>. QED  BY <2>1, <2>2
<1>. QED  BY <1>2, <1>3, <1>4 DEF WithinLimits, Counted, Leases

LEMMA OthersTakeNoPlace ==
    ASSUME RegInv, WithinLimits, Counted, Next,
           ~ \E c \in Conns : AcquireHandshake(c) \/ Register(c),
           ~ \E r \in Requests : AcquireOperation(r)
    PROVE  TakesNoPlace
<1>. USE DEF TakesNoPlace, Leases, Of, Operations, OperationsOf, RegInv, TypeOK, WithinLimits,
             Counted
<1>1. ASSUME NEW c \in Conns,
            \/ (ConnStep(c) /\ ~ Register(c)) \/ BeginSend(c) \/ Leave(c)
            \/ \E d \in Devices : BeginVerify(c, d)
     PROVE  TakesNoPlace
  <2>1. CASE HandshakeFails(c)
    BY <2>1 DEF HandshakeFails, NoLease
  <2>2. CASE \E d \in Devices : BeginVerify(c, d)
    BY <2>2 DEF BeginVerify
  <2>3. CASE Verify(c)
    BY <2>3 DEF Verify
  <2>4. CASE Reject(c)
    BY <2>4 DEF Reject, NoLease
  <2>5. CASE ReleasePermit(c)
    BY <2>5 DEF ReleasePermit
  <2>6. CASE BeginSend(c)
    <3>1. ASSUME NEW at \in ConnAt, conn' = [conn EXCEPT ![c].at = at],
                 at \in {"sending", "leaving"}
          PROVE  TakesNoPlace
      BY <2>6, <3>1 DEF BeginSend
    <3>. QED  BY <2>6, <3>1 DEF BeginSend, ConnAt
  <2>7. CASE EndSend(c, "registered")
    BY <2>7 DEF EndSend
  <2>8. CASE EndSend(c, "leaving")
    BY <2>8 DEF EndSend
  <2>9. CASE Leave(c)
    BY <2>9 DEF Leave
  <2>10. CASE Unregister(c)
    BY <2>10 DEF Unregister
  <2>11. CASE Forget(c)
    BY <2>11 DEF Forget, NoLease
  <2>. QED  BY ONLY <1>1, <2>1, <2>2, <2>3, <2>4, <2>5, <2>6, <2>7, <2>8, <2>9, <2>10,
     <2>11 DEF ConnStep
<1>2. ASSUME NEW r \in Requests,
            \/ RequestStep(r) /\ ~ AcquireOperation(r)
            \/ \E d \in Devices : BeginVerifyRequest(r, d)
     PROVE  TakesNoPlace
  <2>1. CASE \E d \in Devices : BeginVerifyRequest(r, d)
    BY <2>1 DEF BeginVerifyRequest
  <2>2. CASE VerifyRequest(r)
    BY <2>2 DEF VerifyRequest
  <2>3. CASE RejectRequest(r)
    BY <2>3 DEF RejectRequest, NoLease
  <2>4. CASE ReleaseOperation(r)
    BY <2>4 DEF ReleaseOperation, NoLease
  <2>. QED  BY ONLY <1>2, <2>1, <2>2, <2>3, <2>4 DEF RequestStep
<1>3. ASSUME NEW t \in Transitions,
            \/ TransitionStep(t)
            \/ \E d \in Devices : BeginTransition(t, d)
            \/ \E c \in Conns : AcquireGate(t, c)
     PROVE  TakesNoPlace
  <2>1. CASE \E d \in Devices : BeginTransition(t, d)
    BY <2>1 DEF BeginTransition
  <2>2. CASE CollectLeases(t)
    BY <2>2 DEF CollectLeases
  <2>3. CASE \E c \in Conns : AcquireGate(t, c)
    BY <2>3 DEF AcquireGate
  <2>4. CASE CommitTransition(t)
    BY <2>4 DEF CommitTransition
  <2>5. CASE NothingToChange(t)
    BY <2>5 DEF NothingToChange
  <2>6. CASE DetachLeases(t)
    BY <2>6 DEF DetachLeases
  <2>7. CASE EndTransition(t)
    BY <2>7 DEF EndTransition
  <2>. QED  BY ONLY <1>3, <2>1, <2>2, <2>3, <2>4, <2>5, <2>6, <2>7 DEF TransitionStep
<1>4. StopAccepting => TakesNoPlace
  BY DEF StopAccepting
<1>5. /\ \A c \in Conns : ~ AcquireHandshake(c) /\ ~ Register(c)
      /\ \A r \in Requests : ~ AcquireOperation(r)
  OBVIOUS
<1>. QED  BY ONLY Next, <1>1, <1>2, <1>3, <1>4, <1>5 DEF Next

(* However many devices connect, hang, reconnect and are closed at the same *)
(* time: the counted places stay within their limits, and every stripe and  *)
(* send gate is held by a task that is going to release it                  *)
(* (acquire_handshake, authenticate_and_register, acquire_operation,        *)
(* unregister, transition_and_close).                                       *)
THEOREM PlacesAndLocksHold == Spec => []PlacesAndLocks
<1>. DEFINE PlacesInv == RegInv /\ NoLeakedLock /\ WithinLimits /\ Counted
<1>1. Init => PlacesInv
  <2>. SUFFICES ASSUME Init PROVE PlacesInv
    OBVIOUS
  <2>1. /\ handshakes = {} /\ Leases = {} /\ Operations = {}
        /\ \A d \in Devices : Of(Leases, d) = {} /\ OperationsOf(d) = {}
    BY DEF Init, Leases, Of, Operations, OperationsOf, NoLease
  <2>2. NoLeakedLock
    BY DEF Init, NoLeakedLock
  <2>3. WithinLimits /\ Counted
    BY <2>1, FS_EmptySet, LimitsAssumption DEF WithinLimits, Counted, Leases
  <2>. QED  BY <2>2, <2>3, RegistryInitial
<1>2. PlacesInv /\ [Next]_vars => PlacesInv'
  <2>1. ASSUME PlacesInv, Next PROVE PlacesInv'
    <3>1. RegInv'
      BY <2>1, RegistryStep
    <3>2. NoLeakedLock'
      BY <2>1, LocksStayOwned
    <3>3. WithinLimits' /\ Counted'
      BY <2>1, HandshakeWithinLimits, RegisterWithinLimits, OperationWithinLimits,
         OthersTakeNoPlace, TakingNoneKeeps
    <3>. QED  BY <3>1, <3>2, <3>3
  <2>2. ASSUME PlacesInv, UNCHANGED vars PROVE PlacesInv'
    <3>1. RegInv'
      BY <2>2, RegistryStutters
    <3>2. NoLeakedLock'
      BY <2>2 DEF vars, NoLeakedLock, StripeOwner, GateOwner
    <3>3. WithinLimits' /\ Counted'
      BY <2>2 DEF vars, WithinLimits, Counted, Leases, Of, Operations, OperationsOf
    <3>. QED  BY <3>1, <3>2, <3>3
  <2>. QED  BY <2>1, <2>2
<1>3. PlacesInv => PlacesAndLocks
  BY DEF RegInv, PlacesAndLocks
<1>. QED  BY <1>1, <1>2, <1>3, PTL DEF Spec
==============================================================================
