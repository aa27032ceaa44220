----------------------------- MODULE PairingStore -----------------------------
(****************************************************************************)
(* The Hub's pairing store (pairing_store.py): pairing sessions opened by   *)
(* the operator, the one attempt a device may register in each, the two     *)
(* confirmations that turn its pending credential active, and the credential*)
(* transitions afterwards.  Every operation is one BEGIN IMMEDIATE          *)
(* transaction and so one step; an operation that raises and rolls back     *)
(* leaves the tables alone and is no step at all.                           *)
(*                                                                          *)
(* An operation reads the clock before it waits for the write lock, so the  *)
(* time it works with may lag behind the time it commits at.                *)
(****************************************************************************)
EXTENDS Integers, FiniteSets

CONSTANTS Sessions,        \* pairing_session_id values
          Clients,         \* devices that may say hello, each with its own secrets
          NoClient,        \* the session has no attempt
          Capabilities,
          SessionTTL,      \* ttl_seconds of create_pairing_session
          PendingTTL,      \* DEFAULT_PENDING_TTL_SECONDS
          MismatchLimit,   \* SHORT_CODE_MISMATCH_LIMIT
          MaxLag,          \* longest wait for the write lock (busy_timeout)
          MaxClock, MaxBoot, MaxEpoch   \* bounds of a model run

ASSUME PairingAssumption ==
    /\ NoClient \notin Clients
    /\ SessionTTL \in Nat \ {0} /\ PendingTTL \in Nat \ {0}
    /\ MismatchLimit \in Nat \ {0}
    /\ MaxLag \in Nat /\ MaxClock \in Nat /\ MaxBoot \in Nat /\ MaxEpoch \in Nat

VARIABLES clock,     \* server time, in units of one tick
          boot,      \* the running process's boot
          session,   \* pairing_session rows
          attempt,   \* pairing_attempt rows, one per session at most
          cred,      \* device_credential rows, one per attempt
          limitAudit \* sessions with a short_code_limit_reached audit row

vars == <<clock, boot, session, attempt, cred, limitAudit>>

Open == {"PAIRING_ACTIVE", "AWAITING_CONFIRM"}
Aborted == {"ABORTED_TIMEOUT", "ABORTED_CANCEL", "ABORTED_MISMATCH",
            "ABORTED_HUB_RESTART", "ABORTED_PROTOCOL"}
Terminal == Aborted \cup {"ACTIVE_PAIR"}

Session == [state : {"none"} \cup Open \cup Terminal, boot : Nat, expires : Nat]
Attempt == [client : Clients \cup {NoClient}, requested : SUBSET Capabilities,
            clientAt : Nat, hubAt : Nat,   \* confirmation times, 0 for NULL
            pendingExpires : Nat, mismatches : 0..MismatchLimit]
Credential == [status : {"none", "PENDING", "ACTIVE", "REVOKED", "EXPIRED"},
               epoch : Nat, granted : SUBSET Capabilities]

Init == /\ clock = 1 /\ boot = 1
        /\ session = [s \in Sessions |-> [state |-> "none", boot |-> 0, expires |-> 0]]
        /\ attempt = [s \in Sessions |->
                         [client |-> NoClient, requested |-> {}, clientAt |-> 0,
                          hubAt |-> 0, pendingExpires |-> 0, mismatches |-> 0]]
        /\ cred = [s \in Sessions |-> [status |-> "none", epoch |-> 0, granted |-> {}]]
        /\ limitAudit = {}

(* Times an operation that commits now may have read. *)
ReadTimes == {t \in 1..clock : clock - t <= MaxLag}

------------------------------------------------------------------------------
(* Helpers of the transactions. *)

(* Slip: only the session's own time limit counts. *)
DueBySession(s, now) == session[s].state \in Open /\ session[s].expires <= now

(* _expire_due_locked finds the session due at time now. *)
Due(s, now) ==
    \/ session[s].state \in Open /\ session[s].expires <= now
    \/ session[s].state = "AWAITING_CONFIRM" /\ attempt[s].pendingExpires <= now

(* Slip: the credential of a dead pairing stays as it is. *)
KeepPending(c) == c

ExpirePending(c) == IF c.status = "PENDING" THEN [c EXCEPT !.status = "EXPIRED"] ELSE c

(* Tables after _expire_due_locked(now): each due session is aborted and its *)
(* pending credential expires with it.                                       *)
LiveSession(now) ==
    [s \in Sessions |-> IF Due(s, now) THEN [session[s] EXCEPT !.state = "ABORTED_TIMEOUT"]
                        ELSE session[s]]
LiveCred(now) ==
    [s \in Sessions |-> IF Due(s, now) THEN ExpirePending(cred[s]) ELSE cred[s]]

(* The session belongs to this boot and is open or paired. *)
Usable(s, now) == /\ session[s].state \in Open \cup {"ACTIVE_PAIR"}
                  /\ session[s].boot = boot
                  /\ ~Due(s, now)

------------------------------------------------------------------------------
(* Operations. *)

Tick == /\ clock < MaxClock
        /\ clock' = clock + 1
        /\ UNCHANGED <<boot, session, attempt, cred, limitAudit>>

(* The process ends and a new one calls start_runtime: sessions left open by *)
(* earlier boots are aborted, their pending credentials expire.              *)
StartRuntime ==
    /\ boot < MaxBoot
    /\ boot' = boot + 1
    /\ session' = [s \in Sessions |->
                      IF session[s].state \in Open
                      THEN [session[s] EXCEPT !.state = "ABORTED_HUB_RESTART"]
                      ELSE session[s]]
    /\ cred' = [s \in Sessions |-> IF session[s].state \in Open
                                   THEN ExpirePending(cred[s]) ELSE cred[s]]
    /\ UNCHANGED <<clock, attempt, limitAudit>>

(* Slip: no unique index on open sessions. *)
AnyNumberOpen(now) == TRUE

(* ux_pairing_session_one_open: no session is open once the due ones expired.*)
NoneOpen(now) == \A s \in Sessions : LiveSession(now)[s].state \notin Open

(* create_pairing_session: the unique index admits one open session; with    *)
(* another one open the insert fails and even the expiry is rolled back.     *)
CreatePairingSession(s) ==
    \E now \in ReadTimes :
        /\ session[s].state = "none"
        /\ NoneOpen(now)
        /\ session' = [LiveSession(now) EXCEPT ![s] =
                          [state |-> "PAIRING_ACTIVE", boot |-> boot,
                           expires |-> now + SessionTTL]]
        /\ cred' = LiveCred(now)
        /\ UNCHANGED <<clock, boot, attempt, limitAudit>>

(* register_client_hello_digest with the session's token: the first hello    *)
(* makes the attempt and its pending credential, a repeated one changes      *)
(* nothing, another one is refused.                                          *)
RegisterClientHello(s, k, requested) ==
    \E now \in ReadTimes :
        /\ Usable(s, now)
        /\ session[s].state \in Open
        /\ attempt[s].client = NoClient
        /\ session' = [LiveSession(now) EXCEPT ![s].state = "AWAITING_CONFIRM"]
        /\ attempt' = [attempt EXCEPT ![s] =
                          [client |-> k, requested |-> requested, clientAt |-> 0,
                           hubAt |-> 0, pendingExpires |-> now + PendingTTL,
                           mismatches |-> 0]]
        /\ cred' = [LiveCred(now) EXCEPT ![s] =
                       [status |-> "PENDING", epoch |-> 0, granted |-> {}]]
        /\ UNCHANGED <<clock, boot, limitAudit>>

(* The end of _record_confirmation: with both confirmations in, a pending    *)
(* credential becomes active at epoch 1 and the session is consumed.         *)
ActivateIfConfirmed(s, now, granted) ==
    IF attempt'[s].clientAt # 0 /\ attempt'[s].hubAt # 0 /\ cred[s].status = "PENDING"
    THEN /\ cred' = [LiveCred(now) EXCEPT ![s] =
                        [status |-> "ACTIVE", epoch |-> 1, granted |-> granted]]
         /\ session' = [LiveSession(now) EXCEPT ![s].state = "ACTIVE_PAIR"]
    ELSE /\ cred' = [LiveCred(now) EXCEPT ![s].granted = granted]
         /\ session' = LiveSession(now)

(* The device confirms with the right code. *)
ConfirmByClient(s) ==
    \E now \in ReadTimes :
        /\ Usable(s, now)
        /\ attempt[s].client # NoClient
        /\ attempt' = [attempt EXCEPT ![s].clientAt = IF @ = 0 THEN now ELSE @]
        /\ ActivateIfConfirmed(s, now, cred[s].granted)
        /\ UNCHANGED <<clock, boot, limitAudit>>

(* The CHECK of the column short_code_mismatch_count. *)
CountWithinCheck(s) == attempt[s].mismatches < MismatchLimit

(* The device confirms with a wrong code: the count goes up and the call     *)
(* commits before it raises; at the limit _abort_session_locked ends the     *)
(* session unless it is terminal already, and the audit row is written.  One *)
(* more would break the column's CHECK and is rolled back.                   *)
MismatchByClient(s) ==
    \E now \in ReadTimes :
        LET count == attempt[s].mismatches + 1
            abort == count >= MismatchLimit /\ session[s].state \in Open
        IN
        /\ Usable(s, now)
        /\ attempt[s].client # NoClient
        /\ CountWithinCheck(s)
        /\ attempt' = [attempt EXCEPT ![s].mismatches = count]
        /\ session' = [LiveSession(now) EXCEPT ![s].state =
                          IF abort THEN "ABORTED_MISMATCH" ELSE @]
        /\ cred' = [LiveCred(now) EXCEPT ![s] = IF abort THEN ExpirePending(@) ELSE @]
        /\ limitAudit' = IF count >= MismatchLimit THEN limitAudit \cup {s} ELSE limitAudit
        /\ UNCHANGED <<clock, boot>>

(* The operator confirms and grants some of what was requested; a second     *)
(* confirmation never changes the grant.                                     *)
ConfirmByHub(s, granted) ==
    \E now \in ReadTimes :
        /\ Usable(s, now)
        /\ attempt[s].client # NoClient
        /\ granted \subseteq attempt[s].requested
        /\ attempt[s].hubAt # 0 => cred[s].granted \in {{}, granted}
        /\ attempt' = [attempt EXCEPT ![s].hubAt = IF @ = 0 THEN now ELSE @]
        /\ ActivateIfConfirmed(s, now, IF attempt[s].hubAt = 0 THEN granted
                                       ELSE cred[s].granted)
        /\ UNCHANGED <<clock, boot, limitAudit>>

(* Slip: a session is aborted whatever its state. *)
AbortAnySession(s, to) ==
    /\ session[s].state # "none"
    /\ to \in Aborted \ {"ABORTED_HUB_RESTART"}
    /\ session' = [session EXCEPT ![s].state = to]
    /\ cred' = [cred EXCEPT ![s] = ExpirePending(@)]
    /\ UNCHANGED <<clock, boot, attempt, limitAudit>>

(* abort_pairing_session; it does not expire other sessions. *)
AbortPairingSession(s, to) ==
    /\ session[s].state \in Open
    /\ to \in Aborted \ {"ABORTED_HUB_RESTART"}
    /\ session' = [session EXCEPT ![s].state = to]
    /\ cred' = [cred EXCEPT ![s] = ExpirePending(@)]
    /\ UNCHANGED <<clock, boot, attempt, limitAudit>>

(* expire_due_sessions; the status views do the same on their way. *)
ExpireDueSessions ==
    \E now \in ReadTimes :
        /\ session' = LiveSession(now)
        /\ cred' = LiveCred(now)
        /\ UNCHANGED <<clock, boot, attempt, limitAudit>>

(* revoke_device_credential with the current epoch. *)
RevokeDeviceCredential(s) ==
    /\ cred[s].status = "ACTIVE"
    /\ cred' = [cred EXCEPT ![s].status = "REVOKED"]
    /\ UNCHANGED <<clock, boot, session, attempt, limitAudit>>

(* Slip: other grants under the same epoch. *)
UpdateInPlace(s, granted) ==
    /\ cred[s].status = "ACTIVE"
    /\ granted \subseteq attempt[s].requested
    /\ cred' = [cred EXCEPT ![s].granted = granted]
    /\ UNCHANGED <<clock, boot, session, attempt, limitAudit>>

(* update_device_capabilities with the current epoch: equal grants change    *)
(* nothing, other grants within the request take a new epoch.                *)
UpdateDeviceCapabilities(s, granted) ==
    /\ cred[s].status = "ACTIVE"
    /\ granted \subseteq attempt[s].requested
    /\ granted # cred[s].granted
    /\ cred[s].epoch < MaxEpoch
    /\ cred' = [cred EXCEPT ![s].granted = granted, ![s].epoch = @ + 1]
    /\ UNCHANGED <<clock, boot, session, attempt, limitAudit>>

Grants == (SUBSET Capabilities) \ {{}}

Next == \/ Tick \/ StartRuntime \/ ExpireDueSessions
        \/ \E s \in Sessions :
              \/ CreatePairingSession(s)
              \/ \E k \in Clients, r \in Grants : RegisterClientHello(s, k, r)
              \/ ConfirmByClient(s) \/ MismatchByClient(s)
              \/ \E g \in Grants : ConfirmByHub(s, g) \/ UpdateDeviceCapabilities(s, g)
              \/ \E to \in Aborted : AbortPairingSession(s, to)
              \/ RevokeDeviceCredential(s)

Spec == Init /\ [][Next]_vars

------------------------------------------------------------------------------
(* Properties. *)

TypeOK == /\ clock \in Nat \ {0} /\ boot \in Nat \ {0}
          /\ session \in [Sessions -> Session]
          /\ attempt \in [Sessions -> Attempt]
          /\ cred \in [Sessions -> Credential]
          /\ limitAudit \subseteq Sessions

(* The Hub offers one pairing at a time, and what it offers is of this boot: *)
(* no session survives the process whose operator opened it.                 *)
OneOpenSession ==
    /\ \A s, t \in Sessions :
          session[s].state \in Open /\ session[t].state \in Open => s = t
    /\ \A s \in Sessions : session[s].state \in Open => session[s].boot = boot

(* The rows of a pairing agree: an attempt exists from hello on, a pending   *)
(* credential only while its session awaits confirmation, an active or       *)
(* revoked one only in a consumed session; a credential never outlives an    *)
(* aborted pairing.                                                          *)
RowsAgree ==
    \A s \in Sessions :
        /\ (attempt[s].client = NoClient) <=> (cred[s].status = "none")
        /\ (cred[s].status = "PENDING") <=> (session[s].state = "AWAITING_CONFIRM")
        /\ (cred[s].status \in {"ACTIVE", "REVOKED"}) <=> (session[s].state = "ACTIVE_PAIR")
        /\ session[s].state \in {"none", "PAIRING_ACTIVE"} => cred[s].status = "none"

(* What holds of the tables between transactions. *)
TablesAgree == TypeOK /\ OneOpenSession /\ RowsAgree

(* A credential is active only if the device and the operator both confirmed,*)
(* each before the session and the pending credential had run out, and what  *)
(* it grants is part of what the device asked for.                           *)
ActiveOnlyIfConfirmedInTime ==
    \A s \in Sessions :
        cred[s].status \in {"ACTIVE", "REVOKED"} =>
            /\ attempt[s].clientAt # 0 /\ attempt[s].hubAt # 0
            /\ \A t \in {attempt[s].clientAt, attempt[s].hubAt} :
                  t < session[s].expires /\ t < attempt[s].pendingExpires
            /\ cred[s].epoch >= 1
            /\ cred[s].granted # {}
            /\ cred[s].granted \subseteq attempt[s].requested

(* What is settled stays settled: a terminal session, a revoked or expired   *)
(* credential and the device of an attempt never change again.               *)
Settled ==
    [][\A s \in Sessions :
          /\ session[s].state \in Terminal => session'[s] = session[s]
          /\ cred[s].status \in {"REVOKED", "EXPIRED"} => cred'[s] = cred[s]
          /\ attempt[s].client # NoClient => attempt'[s].client = attempt[s].client]_vars

(* Authority only changes with its epoch: once active, a credential's grant  *)
(* is replaced only by a step that raises the epoch by one, so a device that *)
(* authenticates with the current epoch holds the current grant.             *)
GrantChangesWithEpoch ==
    [][\A s \in Sessions :
          cred[s].status = "ACTIVE" =>
              \/ cred'[s].granted = cred[s].granted /\ cred'[s].epoch = cred[s].epoch
              \/ cred'[s].epoch = cred[s].epoch + 1]_vars

(* Rows only move forward: to a settled end, and to a later epoch. *)
RowsMoveForward == Settled /\ GrantChangesWithEpoch

(* The protocol's limits table: five short-code mismatches per attempt, then *)
(* the session is aborted, and the audit trail says so.                      *)
MismatchLimitAborts ==
    \A s \in limitAudit : session[s].state \in Aborted
==============================================================================
