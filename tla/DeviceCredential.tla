-------------------------- MODULE DeviceCredential --------------------------
(***************************************************************************)
(* The phone's one long-lived credential: the vault that keeps it          *)
(* (SecurePairingExecutor.kt), the pairing page that obtains and deletes   *)
(* it (pairing_controller.dart under mobile_pairing_page.dart) and the     *)
(* coordinator that asks the Hub what it is still worth                    *)
(* (steward_app_coordinator.dart).                                         *)
(*                                                                         *)
(* The page and the coordinator are two objects over one vault, whose      *)
(* executor serves one call at a time.  Every request to the Hub is        *)
(* awaited, and the other one goes on: the credential a refresh asked about*)
(* may have been deleted, or another one paired, when the answer comes.    *)
(* An update of the vault and the loading that follows it are two calls.   *)
(* The Hub's side is PairingStore; what is kept of it here is how far each *)
(* attempt came and the grants it was given, one for each epoch.           *)
(***************************************************************************)
EXTENDS Integers, Sequences, SequencesExt

CONSTANTS
    Attempts,       \* pairing attempts; the Hub makes one device of each
    Grants,         \* sets of capabilities the operator may grant
    CanSync,        \* those that contain session.sync
    Addresses,      \* where the Hub may listen
    NoAttempt, NoAddress,
    MaxEpoch, MaxLosses, MaxMoves

ASSUME CredentialAssumption ==
    /\ NoAttempt \notin Attempts /\ NoAddress \notin Addresses /\ CanSync \subseteq Grants
    /\ MaxEpoch \in Nat \ {0} /\ MaxLosses \in Nat /\ MaxMoves \in Nat

VARIABLES
    hub,        \* at the Hub: how far each attempt came, its grants by epoch
    address,    \* where the Hub listens now
    vault,      \* the record in the vault
    page,       \* the pairing page's controller and its operation under way
    app,        \* the coordinator and its operation under way
    losses, moves   \* answers lost and addresses changed so far (bounds)

credVars == <<hub, address, vault, page, app, losses, moves>>

Empty == [at |-> "empty", attempt |-> NoAttempt, hello |-> FALSE, epoch |-> 0,
          grants |-> {}, url |-> NoAddress]

(* Answers: what a request came to.  "none" while it is under way. *)
Said(what) == [what |-> what, epoch |-> 0, grants |-> {}]
Granted(a) == [what |-> "active", epoch |-> Len(hub[a].log), grants |-> Last(hub[a].log)]
NoAnswer == Said("none")

CredInit ==
    /\ hub = [a \in Attempts |-> [at |-> "offered", log |-> <<>>]]
    /\ address \in Addresses
    /\ vault = Empty
    /\ page = [state |-> "idle", attempt |-> NoAttempt, op |-> "none", answer |-> NoAnswer]
    /\ app = [state |-> "loading", credential |-> Empty, op |-> "none", answer |-> NoAnswer,
              before |-> "loading", queued |-> FALSE, tried |-> FALSE, url |-> NoAddress]
    /\ losses = 0 /\ moves = 0

----------------------------------------------------------------------------
(* The Hub and its operator.  The handlers are PairingStore's. *)

HubMoves ==
    /\ moves < MaxMoves /\ moves' = moves + 1
    /\ \E x \in Addresses \ {address} : address' = x
    /\ UNCHANGED <<hub, vault, page, app, losses>>

OperatorConfirms(a) ==
    /\ \E g \in Grants :
         hub' = [hub EXCEPT ![a] =
                    IF @.at = "client" THEN [at |-> "active", log |-> <<g>>]
                                       ELSE [at |-> "operator", log |-> <<g>>]]
    /\ hub[a].at \in {"hello", "client"}
    /\ UNCHANGED <<address, vault, page, app, losses, moves>>

OperatorCancels(a) ==
    /\ hub[a].at \in {"offered", "hello", "client", "operator"}
    /\ hub' = [hub EXCEPT ![a] = [at |-> "closed", log |-> <<>>]]
    /\ UNCHANGED <<address, vault, page, app, losses, moves>>

OperatorGrants(a) ==
    /\ hub[a].at = "active" /\ Len(hub[a].log) < MaxEpoch
    /\ \E g \in Grants \ {Last(hub[a].log)} : hub' = [hub EXCEPT ![a].log = Append(@, g)]
    /\ UNCHANGED <<address, vault, page, app, losses, moves>>

OperatorRevokes(a) ==
    /\ hub[a].at = "active"
    /\ hub' = [hub EXCEPT ![a].at = "revoked"]
    /\ UNCHANGED <<address, vault, page, app, losses, moves>>

(* What an authenticated or a status request of a's credential is told. *)
Standing(a) == CASE hub[a].at = "active"  -> Granted(a)
                 [] hub[a].at = "revoked" -> Said("revoked")
                 [] hub[a].at = "client"  -> Said("pending")
                 [] OTHER                 -> Said("invalid")

Lose == losses < MaxLosses /\ losses' = losses + 1

----------------------------------------------------------------------------
(* The vault. *)

Save(new) == vault' = new
Delete == vault' = Empty

(* Slip: the record of whichever device is there is updated. *)
MayUpdateAny(a, answer) == vault.at = "active" /\ answer.epoch >= vault.epoch

(* updateActiveAuthorization and updateActiveEndpointAndAuthorization:     *)
(* the same device, no older epoch, the same grants for the same epoch.    *)
MayUpdate(a, answer) ==
    /\ vault.at = "active" /\ vault.attempt = a
    /\ answer.epoch >= vault.epoch
    /\ answer.epoch = vault.epoch => answer.grants = vault.grants

(* activate: the attempt the hello was answered for. *)
MayActivate(a) == vault.at = "pending" /\ vault.attempt = a /\ vault.hello

Activated(answer) ==
    [vault EXCEPT !.at = "active", !.epoch = answer.epoch, !.grants = answer.grants]

----------------------------------------------------------------------------
(* The coordinator.  A refresh goes look, load, ask, stored, and find,     *)
(* verify and verified when it has to look for the Hub; updateEndpoint goes*)
(* scanned and moved.                                                      *)

Busy == app.op # "none"

Refreshing(c, op) ==
    [c EXCEPT !.op = op, !.before = c.state, !.answer = NoAnswer,
              !.state = IF c.credential = Empty THEN "loading" ELSE @]

(* The end of a refresh: another follows at once if one was asked for. *)
Ended(c) ==
    IF c.queued THEN Refreshing([c EXCEPT !.queued = FALSE], "look")
                ELSE [c EXCEPT !.op = "none", !.answer = NoAnswer]

StateFor(grants) == IF grants \in CanSync THEN "ready" ELSE "capabilityDenied"

(* Which state a failed request leads to; only a ready coordinator defers. *)
AfterFailure(c, what) ==
    IF what = "lost" THEN IF c.before = "ready" THEN "ready" ELSE "offline"
    ELSE IF what = "revoked" THEN "revoked" ELSE "invalid"

(* refreshAuthorization (on resume, or from the session page) and          *)
(* findPairedHub.                                                          *)
Refresh ==
    /\ ~Busy
    /\ app' = Refreshing(app, "look")
    /\ UNCHANGED <<hub, address, vault, page, losses, moves>>

FindPairedHub ==
    /\ ~Busy /\ app.credential # Empty /\ app.state \in {"ready", "offline"}
    /\ app' = Refreshing(app, "lookAndFind")
    /\ UNCHANGED <<hub, address, vault, page, losses, moves>>

(* _refreshAuthorization, vault.status. *)
Look ==
    /\ app.op \in {"look", "lookAndFind"}
    /\ app' = IF vault.at = "active"
                THEN [app EXCEPT !.op = IF @ = "look" THEN "load" ELSE "loadAndFind"]
                ELSE Ended([app EXCEPT !.credential = Empty, !.state = "unpaired"])
    /\ UNCHANGED <<hub, address, vault, page, losses, moves>>

(* _refreshAuthorization, vault.loadActive. *)
Load ==
    /\ app.op \in {"load", "loadAndFind"}
    /\ app' = IF vault.at # "active"
                THEN Ended([app EXCEPT !.state = "invalid"])
                ELSE IF app.op = "load"
                  THEN [app EXCEPT !.credential = vault, !.op = "ask", !.url = vault.url]
                  ELSE [app EXCEPT !.credential = vault, !.op = "find", !.tried = TRUE]
    /\ UNCHANGED <<hub, address, vault, page, losses, moves>>

(* The request to /v1/device/self: answered at the Hub, or lost. *)
Ask ==
    /\ app.op \in {"ask", "verify", "scanned"} /\ app.answer = NoAnswer
    /\ \/ app.url = address /\ app' = [app EXCEPT !.answer = Standing(app.credential.attempt)]
          /\ UNCHANGED losses
       \/ app.url # address /\ app' = [app EXCEPT !.answer = Said("lost")] /\ UNCHANGED losses
       \/ Lose /\ app' = [app EXCEPT !.answer = Said("lost")]
    /\ UNCHANGED <<hub, address, vault, page, moves>>

(* _loadWithOneDiscovery: the stored address did not answer. *)
LookForHub ==
    /\ app.op = "ask" /\ app.answer.what = "lost" /\ ~app.tried
    /\ app' = [app EXCEPT !.op = "find", !.tried = TRUE, !.answer = NoAnswer]
    /\ UNCHANGED <<hub, address, vault, page, losses, moves>>

(* _discoverAndVerify: the advertised address, or none. *)
Find ==
    /\ app.op = "find"
    /\ \/ app' = [app EXCEPT !.op = "verify", !.url = address] /\ UNCHANGED losses
       \/ Lose /\ app' = Ended([app EXCEPT !.state = AfterFailure(app, "lost")])
    /\ UNCHANGED <<hub, address, vault, page, moves>>

(* _refreshAuthorization, the exception handlers. *)
RefreshFails ==
    /\ app.op \in {"ask", "verify"} /\ app.answer # NoAnswer /\ app.answer.what # "active"
    /\ app.op = "ask" /\ app.answer.what = "lost" => app.tried
    /\ app' = Ended([app EXCEPT !.state = AfterFailure(app, app.answer.what)])
    /\ UNCHANGED <<hub, address, vault, page, losses, moves>>

(* _verifyAndPersistEndpoint: address and authorization in one write. *)
Persist ==
    /\ app.op \in {"verify", "scanned"} /\ app.answer.what = "active"
    /\ LET a == app.credential.attempt
           new == [vault EXCEPT !.url = app.url, !.epoch = app.answer.epoch,
                                !.grants = app.answer.grants]
       IN  IF MayUpdate(a, app.answer)
             THEN /\ Save(new)
                  /\ app' = [app EXCEPT !.op = IF @ = "verify" THEN "verified" ELSE "moved"]
             ELSE /\ UNCHANGED vault
                  /\ app' = IF app.op = "verify"
                              THEN Ended([app EXCEPT !.state = "invalid"])
                              ELSE [app EXCEPT !.op = "none", !.answer = NoAnswer, !.state = app.before]
    /\ UNCHANGED <<hub, address, page, losses, moves>>

(* _refreshAuthorization, vault.updateActiveAuthorization. *)
Store ==
    /\ app.op = "ask" /\ app.answer.what = "active"
    /\ LET a == app.credential.attempt
           new == [vault EXCEPT !.epoch = app.answer.epoch, !.grants = app.answer.grants]
       IN  IF MayUpdate(a, app.answer)
             THEN Save(new) /\ app' = [app EXCEPT !.op = "stored"]
             ELSE /\ UNCHANGED vault
                  /\ app' = Ended([app EXCEPT !.state = "invalid"])
    /\ UNCHANGED <<hub, address, page, losses, moves>>

(* loadActive, with which each update ends: the page may have deleted the  *)
(* record meanwhile, or paired another device, whose record is taken over. *)
(* What a refresh verified is then stored, which another device's refuses. *)
Reload ==
    /\ vault.at = "active"
    /\ LET found == [app EXCEPT !.credential = vault]
           same == vault.attempt = app.credential.attempt
       IN  \/ /\ app.op = "stored"
              /\ app' = Ended([found EXCEPT !.tried = FALSE, !.state = StateFor(vault.grants)])
           \/ app.op = "verified" /\ same /\ app' = [found EXCEPT !.op = "ask"]
           \/ app.op = "verified" /\ ~same /\ app' = Ended([found EXCEPT !.state = "invalid"])
           \/ /\ app.op = "moved"
              /\ app' = [found EXCEPT !.op = "none", !.answer = NoAnswer, !.tried = FALSE,
                                      !.state = StateFor(app.answer.grants)]
    /\ UNCHANGED <<hub, address, vault, page, losses, moves>>

ReloadFails ==
    /\ vault.at # "active"
    /\ \/ /\ app.op \in {"stored", "verified"}
          /\ app' = Ended([app EXCEPT !.state = "invalid"])
       \/ /\ app.op = "moved"
          /\ app' = [app EXCEPT !.op = "none", !.answer = NoAnswer, !.state = app.before]
    /\ UNCHANGED <<hub, address, vault, page, losses, moves>>

(* updateEndpoint, from a scanned service code of the paired Hub; its end  *)
(* does not look at _refreshQueued.                                        *)
Scan ==
    /\ ~Busy /\ app.credential # Empty
    /\ \E x \in Addresses :
         app' = [app EXCEPT !.op = "scanned", !.before = app.state, !.url = x,
                            !.answer = NoAnswer]
    /\ UNCHANGED <<hub, address, vault, page, losses, moves>>

ScanFails ==
    /\ app.op = "scanned" /\ app.answer # NoAnswer /\ app.answer.what # "active"
    /\ app' = [app EXCEPT !.op = "none", !.answer = NoAnswer, !.state = app.before]
    /\ UNCHANGED <<hub, address, vault, page, losses, moves>>

(* refreshAfterPairingChange, which the page calls. *)
PairingChanged == app' = IF Busy THEN [app EXCEPT !.queued = TRUE] ELSE Refreshing(app, "look")

----------------------------------------------------------------------------
(* The pairing page.  Its busy flag admits one operation at a time.        *)

PageIs(state) == page' = [page EXCEPT !.state = state, !.op = "none", !.answer = NoAnswer]
Does(op) == page' = [page EXCEPT !.op = op, !.answer = NoAnswer]

(* begin, after a QR code was scanned: the vault must be empty. *)
BeginPairing(a) ==
    /\ page.op = "none" /\ page.state = "idle" /\ hub[a].at = "offered"
    /\ vault.at = "empty"
    /\ page' = [page EXCEPT !.state = "connecting", !.op = "hello", !.attempt = a]
    /\ Save([Empty EXCEPT !.at = "pending", !.attempt = a, !.url = address])
    /\ UNCHANGED <<hub, address, app, losses, moves>>

(* A request of the page.  The Hub may have acted on one that is lost. *)
Asked(becomes, answer) ==
    \/ vault.url = address /\ hub' = becomes /\ page' = [page EXCEPT !.answer = answer]
       /\ UNCHANGED losses
    \/ Lose /\ page' = [page EXCEPT !.answer = Said("lost")]
       /\ hub' \in {hub, IF vault.url = address THEN becomes ELSE hub}
    \/ vault.url # address /\ page' = [page EXCEPT !.answer = Said("lost")]
       /\ UNCHANGED <<hub, losses>>

(* _sendHello: a repeated hello of the same attempt is answered alike. *)
SendHello ==
    /\ page.op = "hello" /\ page.answer = NoAnswer
    /\ LET a == page.attempt
           open == hub[a].at \in {"offered", "hello", "operator"}
       IN  Asked([hub EXCEPT ![a].at = IF @ = "offered" THEN "hello" ELSE @],
                 IF open THEN Said("pending") ELSE Said("invalid"))
    /\ UNCHANGED <<address, vault, app, moves>>

(* The answer of the hello: kept, given up, or kept for a stable network. *)
HelloAnswered ==
    /\ page.op = "hello" /\ page.answer # NoAnswer
    /\ \/ page.answer.what = "pending" /\ Save([vault EXCEPT !.hello = TRUE]) /\ PageIs("human")
       \/ page.answer.what = "invalid" /\ Delete /\ PageIs("failed")
       \/ page.answer.what = "lost" /\ UNCHANGED vault /\ PageIs("waitStable")
    /\ UNCHANGED <<hub, address, app, losses, moves>>

RetryAfterStable ==
    /\ page.op = "none" /\ page.state = "waitStable" /\ vault.at = "pending"
    /\ page' = [page EXCEPT !.state = "connecting", !.op = "hello"]
    /\ UNCHANGED <<hub, address, vault, app, losses, moves>>

PressConfirm ==
    /\ page.op = "none" /\ page.state = "human" /\ vault.at = "pending" /\ vault.hello
    /\ Does("confirm")
    /\ UNCHANGED <<hub, address, vault, app, losses, moves>>

PressRecover ==
    /\ page.op = "none" /\ page.state = "hub" /\ vault.at = "pending"
    /\ Does("status")
    /\ UNCHANGED <<hub, address, vault, app, losses, moves>>

AfterConfirm(a) ==
    [hub EXCEPT ![a].at = CASE @ = "hello" -> "client" [] @ = "operator" -> "active" [] OTHER -> @]

SendConfirm ==
    /\ page.op \in {"confirm", "confirmAgain"} /\ page.answer.what # "lost"
    /\ page.op = "confirm" => page.answer = NoAnswer
    /\ page.op = "confirmAgain" => page.answer.what = "active"
    /\ LET a == page.attempt
           answer == CASE hub[a].at \in {"hello", "client"} -> Said("pending")
                       [] hub[a].at \in {"operator", "active"} -> Granted(a)
                       [] OTHER -> Said("invalid")
       IN  \/ page.op = "confirm" /\ Asked(AfterConfirm(a), answer)
           \/ page.op = "confirmAgain"
              /\ Asked(AfterConfirm(a),
                       IF answer.what = "active" /\ answer.epoch = page.answer.epoch
                         THEN [answer EXCEPT !.what = "confirmed"] ELSE Said("invalid"))
    /\ UNCHANGED <<address, vault, app, moves>>

SendStatus ==
    /\ page.op = "status" /\ page.answer = NoAnswer
    /\ Asked(hub, Standing(page.attempt))
    /\ UNCHANGED <<address, vault, app, moves>>

(* _activate, then the coordinator is told. *)
Activate ==
    /\ \/ page.op = "confirm" /\ page.answer.what = "active"
       \/ page.op = "confirmAgain" /\ page.answer.what = "confirmed"
    /\ MayActivate(page.attempt)
    /\ Save(Activated(page.answer))
    /\ PageIs("active") /\ PairingChanged
    /\ UNCHANGED <<hub, address, losses, moves>>

(* The operator has not confirmed yet.  The page tells the coordinator of  *)
(* a confirmation, though nothing has changed, and not of a status.        *)
StillPending ==
    /\ page.op \in {"confirm", "status"} /\ page.answer.what = "pending"
    /\ PageIs("hub")
    /\ IF page.op = "confirm" THEN PairingChanged ELSE UNCHANGED app
    /\ UNCHANGED <<hub, address, vault, losses, moves>>

(* recoverAfterConfirmLoss: active at the Hub, confirmed once more. *)
ConfirmAgain ==
    /\ page.op = "status" /\ page.answer.what = "active"
    /\ page' = [page EXCEPT !.op = "confirmAgain"]
    /\ UNCHANGED <<hub, address, vault, app, losses, moves>>

(* An exception of confirm or recover leaves the page where it is. *)
PageFails ==
    /\ page.op \in {"confirm", "status", "confirmAgain"}
    /\ page.answer.what \in {"invalid", "revoked", "lost"}
    /\ PageIs(page.state)
    /\ UNCHANGED <<hub, address, vault, app, losses, moves>>

(* reset: the pairing cancelled or the credential forgotten. *)
Reset ==
    /\ page.op = "none" /\ page.state \in {"human", "hub", "active", "waitStable", "failed"}
    /\ Delete
    /\ page' = [page EXCEPT !.state = "idle", !.attempt = NoAttempt]
    /\ PairingChanged
    /\ UNCHANGED <<hub, address, losses, moves>>

(* The app is killed and started: initialize of the page, which goes on    *)
(* with a pending attempt whose hello was answered and drops any other,    *)
(* and of the coordinator.                                                 *)
RestartApp ==
    /\ page' = [state |-> CASE vault.at = "active" -> "active"
                            [] vault.at = "pending" /\ vault.hello -> "human"
                            [] OTHER -> "idle",
                attempt |-> IF vault.at = "pending" /\ vault.hello THEN vault.attempt ELSE NoAttempt,
                op |-> "none", answer |-> NoAnswer]
    /\ IF vault.at = "pending" /\ ~vault.hello THEN Delete ELSE UNCHANGED vault
    /\ app' = [state |-> "loading", credential |-> Empty, op |-> "look", answer |-> NoAnswer,
               before |-> "loading", queued |-> FALSE, tried |-> FALSE, url |-> NoAddress]
    /\ UNCHANGED <<hub, address, losses, moves>>

----------------------------------------------------------------------------
CredNext ==
    \/ HubMoves
    \/ \E a \in Attempts :
         \/ OperatorConfirms(a) \/ OperatorCancels(a) \/ OperatorGrants(a) \/ OperatorRevokes(a)
         \/ BeginPairing(a)
    \/ Refresh \/ FindPairedHub \/ Look \/ Load \/ Ask \/ LookForHub \/ Find \/ RefreshFails
    \/ Persist \/ Store \/ Reload \/ ReloadFails \/ Scan \/ ScanFails
    \/ SendHello \/ HelloAnswered \/ RetryAfterStable \/ PressConfirm \/ PressRecover
    \/ SendConfirm \/ SendStatus \/ Activate \/ StillPending \/ ConfirmAgain \/ PageFails
    \/ Reset \/ RestartApp

CredSpec == CredInit /\ [][CredNext]_credVars

----------------------------------------------------------------------------
CredTypeOK ==
    /\ \A a \in Attempts : hub[a].log \in Seq(Grants) /\ Len(hub[a].log) <= MaxEpoch
    /\ address \in Addresses
    /\ vault.at \in {"empty", "pending", "active"} /\ vault.attempt \in Attempts \cup {NoAttempt}
    /\ page.attempt \in Attempts \cup {NoAttempt}
    /\ app.state \in {"loading", "unpaired", "ready", "offline", "capabilityDenied",
                      "revoked", "invalid"}

GivenByHub(record) ==
    LET a == record.attempt IN
    /\ hub[a].at \in {"active", "revoked"}
    /\ record.epoch \in 1..Len(hub[a].log)
    /\ record.grants = hub[a].log[record.epoch]

(* The vault, and the coordinator that works with what it read there, hold *)
(* the grants and the epoch the Hub gave to that very device, whatever was *)
(* deleted, paired again, lost or answered late in between.                *)
HoldsOwnGrants ==
    /\ vault.at = "active" => GivenByHub(vault)
    /\ app.credential.at = "active" => GivenByHub(app.credential)

(* "revocation is terminal and never erased by a failed refresh" (the name *)
(* of a test of the coordinator): a refresh that does not reach the Hub    *)
(* leaves the revoked state as it was.                                     *)
RevocationIsTerminal ==
    [][app.state = "revoked" => app'.state # "offline"]_credVars
============================================================================
