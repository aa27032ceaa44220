--------------------------- MODULE Device_proofs ---------------------------
(****************************************************************************)
(* Theorems of what is kept on a disk: the device's two stores,             *)
(* FileCursorStore and DeviceCredential, and the Hub's TlsIdentity.         *)
(*                                                                          *)
(* The cursor: as long as no write overlaps a reset, no acknowledged cursor *)
(* is lost and the stored one never goes back, wherever a write fails or the*)
(* app is killed.                                                           *)
(*                                                                          *)
(* The credential: what the vault and the coordinator hold is what the Hub  *)
(* gave to that very device.  Its invariant says of every place a grant can *)
(* wait in (an answer under way, the vault, the coordinator's copy) that it *)
(* is an entry of that attempt's log at the Hub, and of the Hub that a log  *)
(* of a paired device only grows.                                           *)
(*                                                                          *)
(* The identity: what a run holds and knows at each of its places, and that *)
(* a run which nothing has disturbed finds there what it needs next, so the *)
(* only thing it raises for is a Hub's database beside a finished identity. *)
(* Seen from outside the runs implement IdentityRegister.                   *)
(****************************************************************************)
EXTENDS FileCursorStore, DeviceCredential, TlsIdentity, TLAPS

(* The step of a write says which files hold what.  Until the old cursor is  *)
(* renamed it is in the only file; then it is the backup; the new one waits  *)
(* in next, and then stands in final beside that backup.                     *)
WriteProgress ==
    /\ step \in {"writing", "flushed", "unbacked"} => backup = Absent
    /\ step \in {"writing", "flushed", "unbacked", "moved"} => Stored < target
    /\ step \in {"flushed", "unbacked", "moved"} => next = target
    /\ step = "moved" => final = Absent
    /\ step = "installed" => final = target /\ acknowledged <= target

(* A reset that has deleted the final file has forgotten the cursor.         *)
ResetProgress ==
    /\ resetting # "no" => step = "idle"
    /\ resetting = "backup" => final = Absent /\ acknowledged = 0

(* The inductive invariant.  Of two files the final one is the newer, which  *)
(* excludes equal ones as well: a write that finds two files never goes on.  *)
Ordered == final # Absent /\ backup # Absent => backup < final

Sound == WriteProgress /\ ResetProgress /\ Ordered /\ Stored >= acknowledged

CursorInv == TypeOK /\ (~raced => Sound)

----------------------------------------------------------------------------
(* A write that overlaps a reset is never forgotten.                         *)
LEMMA RacedStays == [Next]_vars /\ raced => raced'
  BY DEF Next, vars, files, BeginWrite, Read, WriteNext, DropOldBackup, KeepFinal,
         InstallNext, DropBackup, WriteFails, BeginReset, DeleteNext, DeleteFinal,
         DeleteBackup, Kill

(* Every step keeps the types.                                               *)
LEMMA TypeStep == TypeOK /\ [Next]_vars => TypeOK'
<1> SUFFICES ASSUME TypeOK, [Next]_vars
             PROVE  TypeOK'
  OBVIOUS
<1> USE CursorAssumption DEF TypeOK, Content
<1>1. ASSUME NEW s \in 1..MaxSeq, BeginWrite(s)
      PROVE  TypeOK'
  BY <1>1 DEF BeginWrite, Recovered, RecoveredBackup
<1>2. CASE Read
  BY <1>2 DEF Read, Recovered, RecoveredBackup
<1>3. CASE WriteNext \/ DropOldBackup \/ KeepFinal
  BY <1>3 DEF WriteNext, DropOldBackup, KeepFinal
<1>4. CASE InstallNext \/ DropBackup \/ WriteFails
  BY <1>4 DEF InstallNext, DropBackup, WriteFails, files
<1>5. CASE BeginReset \/ DeleteNext \/ DeleteFinal \/ DeleteBackup \/ Kill
  BY <1>5 DEF BeginReset, DeleteNext, DeleteFinal, DeleteBackup, Kill, files
<1>6. CASE UNCHANGED vars
  BY <1>6 DEF vars, files
<1>7. QED
  BY <1>1, <1>2, <1>3, <1>4, <1>5, <1>6 DEF Next

(* Reading finds a lone backup and renames it, and changes nothing else: what*)
(* is stored is the same, and of two files in order none is left over.       *)
LEMMA RecoveryKeepsStored ==
    ASSUME TypeOK, Ordered, ~Conflicting,
           final' = Recovered, backup' = RecoveredBackup
    PROVE  backup' = Absent /\ Stored' = Stored /\ Stored \in Nat
<1>1. final = Absent \/ backup = Absent
  <2>1. ~(backup < backup)
    BY CursorAssumption DEF TypeOK, Content, Ordered, Conflicting
  <2>2. QED
    BY <2>1 DEF Ordered, Conflicting
<1>2. backup' = Absent
  BY <1>1 DEF RecoveredBackup
<1>3. Stored' = Stored
  BY <1>1, <1>2 DEF Recovered, Stored
<1>4. Stored \in Nat
  BY CursorAssumption DEF TypeOK, Content, Stored
<1>5. QED
  BY <1>2, <1>3, <1>4

(* Every step of a history without an overlap keeps the invariant.           *)
LEMMA SoundStep ==
    TypeOK /\ Sound /\ [Next]_vars /\ ~raced' => Sound'
<1> SUFFICES ASSUME TypeOK, Sound, [Next]_vars, ~raced'
             PROVE  Sound'
  OBVIOUS
<1> USE CursorAssumption DEF TypeOK, Content, Sound, WriteProgress, ResetProgress,
        Ordered
<1>1. ASSUME NEW s \in 1..MaxSeq, BeginWrite(s)
      PROVE  Sound'
  <2>1. backup' = Absent /\ Stored' = Stored /\ Stored \in Nat
    BY <1>1, RecoveryKeepsStored DEF BeginWrite
  <2>2. resetting' = "no" /\ step = "idle"
    BY <1>1 DEF BeginWrite
  <2>3. acknowledged' <= Stored
    BY <1>1 DEF BeginWrite
  <2>4. CASE s > Stored
    <3>1. step' = "writing" /\ target' = s
      BY <1>1, <2>4 DEF BeginWrite
    <3>2. QED
      BY <2>1, <2>2, <2>3, <2>4, <3>1
  <2>5. CASE ~(s > Stored)
    <3>1. step' = "idle"
      BY <1>1, <2>2, <2>5 DEF BeginWrite
    <3>2. QED
      BY <2>1, <2>2, <2>3, <3>1
  <2>6. QED
    BY <2>4, <2>5
<1>2. CASE Read
  BY <1>2, RecoveryKeepsStored DEF Read
<1>3. CASE WriteNext
  BY <1>3 DEF WriteNext, Stored
<1>4. CASE DropOldBackup
  BY <1>4 DEF DropOldBackup, Stored
<1>5. CASE KeepFinal
  BY <1>5 DEF KeepFinal, Stored
<1>6. CASE InstallNext
  BY <1>6 DEF InstallNext, files, Stored
<1>7. CASE DropBackup
  BY <1>7 DEF DropBackup, Stored
<1>8. CASE WriteFails
  BY <1>8 DEF WriteFails, files, Stored
<1>9. CASE BeginReset \/ DeleteNext
  BY <1>9 DEF BeginReset, DeleteNext, files, Stored
<1>10. CASE DeleteFinal
  BY <1>10 DEF DeleteFinal, Stored
<1>11. CASE DeleteBackup
  BY <1>11 DEF DeleteBackup, Stored
<1>12. CASE Kill
  BY <1>12 DEF Kill, files, Stored
<1>13. CASE UNCHANGED vars
  BY <1>13 DEF vars, files, Stored
<1>14. QED
  BY <1>1, <1>2, <1>3, <1>4, <1>5, <1>6, <1>7, <1>8, <1>9, <1>10, <1>11, <1>12, <1>13
     DEF Next

(* The invariant holds in every reachable state.                             *)
THEOREM CursorInvariant == Spec => []CursorInv
<1>1. Init => CursorInv
  <2> SUFFICES ASSUME Init
               PROVE  CursorInv
    OBVIOUS
  <2> USE DEF Init
  <2>1. TypeOK
    BY DEF TypeOK, Content
  <2>2. WriteProgress /\ ResetProgress /\ Ordered
    BY DEF WriteProgress, ResetProgress, Ordered
  <2>3. Stored >= acknowledged
    BY DEF Stored
  <2>4. QED
    BY <2>1, <2>2, <2>3 DEF CursorInv, Sound
<1>2. CursorInv /\ [Next]_vars => CursorInv'
  BY TypeStep, SoundStep, RacedStays DEF CursorInv
<1>3. QED
  BY <1>1, <1>2, PTL DEF Spec

----------------------------------------------------------------------------
(* No acknowledged cursor is lost, whatever file operation of _write the app *)
(* was killed or failed in, unless the user resets it.                       *)
THEOREM NoCursorLost == Spec => []AcknowledgedSurvives
<1>1. CursorInv => AcknowledgedSurvives
  BY DEF CursorInv, Sound, AcknowledgedSurvives
<1>2. QED
  BY <1>1, CursorInvariant, PTL

(* Two conflicting files, which read refuses, are a new final file beside the*)
(* backup of an older cursor: the refusal never hides a newer backup.        *)
THEOREM ConflictsAreInstalls == Spec => []ConflictIsUnfinishedInstall
<1>1. CursorInv => ConflictIsUnfinishedInstall
  BY DEF CursorInv, Sound, Ordered, Conflicting, ConflictIsUnfinishedInstall
<1>2. QED
  BY <1>1, CursorInvariant, PTL

(* The durable cursor goes back in no step but those of a reset.             *)
THEOREM CursorOnlyAdvances == Spec => NeverBackwards
<1>1. CursorInv /\ [Next]_vars => [Stored' >= Stored \/ resetting # "no" \/ raced]_vars
  <2> SUFFICES ASSUME CursorInv, Next, ~raced, resetting = "no"
               PROVE  Stored' >= Stored
    BY DEF vars, files
  <2> USE CursorAssumption DEF CursorInv, TypeOK, Content, Sound, WriteProgress, Ordered
  <2>1. ASSUME NEW s \in 1..MaxSeq, BeginWrite(s)
        PROVE  Stored' >= Stored
    BY <2>1, RecoveryKeepsStored DEF BeginWrite
  <2>2. CASE Read
    BY <2>2, RecoveryKeepsStored DEF Read
  <2>3. CASE WriteNext \/ DropOldBackup \/ KeepFinal
    BY <2>3 DEF WriteNext, DropOldBackup, KeepFinal, Stored
  <2>4. CASE InstallNext \/ DropBackup \/ WriteFails
    BY <2>4 DEF InstallNext, DropBackup, WriteFails, files, Stored
  <2>5. CASE BeginReset \/ DeleteNext \/ DeleteFinal \/ DeleteBackup \/ Kill
    BY <2>5 DEF BeginReset, DeleteNext, DeleteFinal, DeleteBackup, Kill, files, Stored
  <2>6. QED
    BY <2>1, <2>2, <2>3, <2>4, <2>5 DEF Next
<1>2. QED
  BY <1>1, CursorInvariant, PTL DEF Spec, NeverBackwards

----------------------------------------------------------------------------
(* DeviceCredential.                                                        *)

(* The shapes of the variables.                                             *)
HubRecord == [at : {"offered", "hello", "client", "operator", "active", "revoked", "closed"},
              log : Seq(Grants)]

VaultRecord == [at : {"empty", "pending", "active"}, attempt : Attempts \cup {NoAttempt},
                hello : BOOLEAN, epoch : Nat, grants : Grants \cup {{}},
                url : Addresses \cup {NoAddress}]

Answer == [what : {"none", "pending", "active", "confirmed", "revoked", "invalid", "lost"},
           epoch : Nat, grants : Grants \cup {{}}]

PageRecord == [state : {"idle", "connecting", "human", "hub", "active", "waitStable", "failed"},
               attempt : Attempts \cup {NoAttempt},
               op : {"none", "hello", "confirm", "confirmAgain", "status"},
               answer : Answer]

AppState == {"loading", "unpaired", "ready", "offline", "capabilityDenied", "revoked", "invalid"}

AppRecord == [state : AppState, credential : VaultRecord,
              op : {"none", "look", "lookAndFind", "load", "loadAndFind", "ask", "find",
                    "verify", "scanned", "stored", "verified", "moved"},
              answer : Answer, before : AppState, queued : BOOLEAN, tried : BOOLEAN,
              url : Addresses \cup {NoAddress}]

CredShapes ==
    /\ hub \in [Attempts -> HubRecord]
    /\ address \in Addresses
    /\ vault \in VaultRecord /\ page \in PageRecord /\ app \in AppRecord

Given(a, epoch, grants) ==
    /\ a \in Attempts
    /\ hub[a].at \in {"active", "revoked"}
    /\ epoch \in 1..Len(hub[a].log)
    /\ grants = hub[a].log[epoch]

LogsInv ==
    \A a \in Attempts :
        /\ hub[a].at \in {"operator", "active", "revoked"} => hub[a].log # <<>>
        /\ Len(hub[a].log) <= MaxEpoch

VaultInv ==
    /\ vault.at # "empty" => vault.attempt \in Attempts
    /\ vault.at = "active" => Given(vault.attempt, vault.epoch, vault.grants)

AppInv ==
    /\ app.credential = Empty \/ app.credential.at = "active"
    /\ app.credential.at = "active" =>
         Given(app.credential.attempt, app.credential.epoch, app.credential.grants)
    /\ app.op \in {"ask", "find", "verify", "scanned", "stored", "verified", "moved"}
         => app.credential.at = "active"
    /\ app.answer.what = "active" =>
         Given(app.credential.attempt, app.answer.epoch, app.answer.grants)
    /\ app.answer.what = "active" => app.credential.at = "active"
    /\ app.op \in {"look", "lookAndFind", "load", "loadAndFind"} => app.answer = NoAnswer

PageInv ==
    /\ page.op # "none" => page.state \in {"connecting", "human", "hub"}
    /\ page.op = "none" => page.answer = NoAnswer
    /\ page.state \in {"connecting", "human", "hub", "waitStable"} => page.attempt \in Attempts
    /\ page.answer.what \in {"active", "confirmed"} =>
         Given(page.attempt, page.answer.epoch, page.answer.grants)

CredInv == CredShapes /\ LogsInv /\ VaultInv /\ AppInv /\ PageInv

(* What a step may do to the Hub's books: a device, once paired, keeps the  *)
(* grants it was given, and new ones come after them.                       *)
HubGoesOn ==
    /\ hub' \in [Attempts -> HubRecord] /\ LogsInv'
    /\ \A a \in Attempts :
          hub[a].at \in {"active", "revoked"} =>
            /\ hub'[a].at \in {"active", "revoked"}
            /\ \/ hub'[a].log = hub[a].log
               \/ \E g \in Grants : hub'[a].log = Append(hub[a].log, g)

LEMMA GivenStays ==
    ASSUME CredShapes, HubGoesOn, NEW a, NEW e, NEW g, Given(a, e, g)
    PROVE  Given(a, e, g)'
<1>1. a \in Attempts /\ hub[a].log \in Seq(Grants)
  BY DEF Given, CredShapes, HubRecord
<1>2. CASE hub'[a].log = hub[a].log
  BY <1>1, <1>2 DEF Given, HubGoesOn
<1>3. ASSUME NEW h \in Grants, hub'[a].log = Append(hub[a].log, h)
      PROVE  Given(a, e, g)'
  <2>. PICK n \in Nat : n = Len(hub[a].log)
    BY <1>1
  <2>1. Len(hub'[a].log) = n + 1 /\ \A i \in 1..n : hub'[a].log[i] = hub[a].log[i]
    BY <1>1, <1>3
  <2>. QED  BY <1>1, <2>1 DEF Given, HubGoesOn
<1>. QED  BY <1>1, <1>2, <1>3 DEF Given, HubGoesOn

LEMMA HubUnchanged ==
    ASSUME CredInv, hub' = hub
    PROVE  HubGoesOn
BY DEF CredInv, CredShapes, LogsInv, HubGoesOn

(* The operator's side.                                                     *)
LEMMA OperatorGoesOn ==
    ASSUME CredInv, NEW a \in Attempts,
           \/ OperatorConfirms(a) \/ OperatorCancels(a) \/ OperatorGrants(a)
           \/ OperatorRevokes(a)
    PROVE  HubGoesOn
<1>. USE DEF CredInv, HubGoesOn
<1>0. hub \in [Attempts -> HubRecord] /\ hub[a] \in HubRecord
  BY DEF CredShapes
<1>1. CASE OperatorConfirms(a)
  <2>1. PICK g \in Grants, at \in {"active", "operator"} :
            hub' = [hub EXCEPT ![a] = [at |-> at, log |-> <<g>>]]
    BY <1>0, <1>1 DEF OperatorConfirms
  <2>2. <<g>> \in Seq(Grants) /\ <<g>> # <<>> /\ Len(<<g>>) <= MaxEpoch
    BY CredentialAssumption
  <2>. DEFINE r == [at |-> at, log |-> <<g>>]
  <2>3. r \in HubRecord /\ r.log # <<>> /\ Len(r.log) <= MaxEpoch
    BY <2>2 DEF HubRecord
  <2>4. hub' = [hub EXCEPT ![a] = r] /\ hub[a].at \in {"hello", "client"}
    BY <1>1, <2>1 DEF OperatorConfirms
  <2>. HIDE DEF r
  <2>. QED  BY <1>0, <2>3, <2>4 DEF LogsInv
<1>2. CASE OperatorCancels(a)
  <2>. DEFINE r == [at |-> "closed", log |-> <<>>]
  <2>1. r \in HubRecord /\ r.at = "closed" /\ Len(r.log) <= MaxEpoch
    BY CredentialAssumption DEF HubRecord
  <2>2. hub' = [hub EXCEPT ![a] = r] /\ hub[a].at \notin {"active", "revoked"}
    BY <1>2 DEF OperatorCancels
  <2>. HIDE DEF r
  <2>. QED  BY <1>0, <2>1, <2>2 DEF LogsInv
<1>3. CASE OperatorGrants(a)
  <2>1. PICK g \in Grants : hub' = [hub EXCEPT ![a].log = Append(@, g)]
    BY <1>3 DEF OperatorGrants
  <2>. DEFINE r == [hub[a] EXCEPT !.log = Append(hub[a].log, g)]
  <2>2. /\ Append(hub[a].log, g) \in Seq(Grants) /\ Append(hub[a].log, g) # <<>>
        /\ Len(Append(hub[a].log, g)) <= MaxEpoch
    BY <1>0, <1>3, CredentialAssumption DEF HubRecord, OperatorGrants
  <2>3. /\ r \in HubRecord /\ r.at = hub[a].at /\ r.log = Append(hub[a].log, g)
        /\ r.log # <<>> /\ Len(r.log) <= MaxEpoch
    BY <1>0, <2>2 DEF HubRecord
  <2>4. hub' = [hub EXCEPT ![a] = r]
    BY <1>0, <2>1
  <2>. HIDE DEF r
  <2>. QED  BY <1>0, <2>3, <2>4 DEF LogsInv
<1>4. CASE OperatorRevokes(a)
  <2>. DEFINE r == [hub[a] EXCEPT !.at = "revoked"]
  <2>1. r \in HubRecord /\ r.at = "revoked" /\ r.log = hub[a].log
    BY <1>0 DEF HubRecord
  <2>2. hub' = [hub EXCEPT ![a] = r] /\ hub[a].at = "active"
    BY <1>4 DEF OperatorRevokes
  <2>. HIDE DEF r
  <2>. QED  BY <1>0, <2>1, <2>2 DEF LogsInv
<1>. QED  BY <1>1, <1>2, <1>3, <1>4

(* The page's requests: an answer "active" tells the grants of the attempt. *)
LEMMA LastGrant ==
    ASSUME CredInv, NEW a \in Attempts, hub[a].at \in {"active", "operator", "revoked"}
    PROVE  /\ Granted(a) \in Answer /\ Granted(a).what = "active"
           /\ Granted(a).epoch \in 1..Len(hub[a].log)
           /\ Granted(a).grants = hub[a].log[Granted(a).epoch]
<1>1. hub[a].log \in Seq(Grants) /\ hub[a].log # <<>>
  BY DEF CredInv, CredShapes, HubRecord, LogsInv
<1>. PICK n \in Nat : n = Len(hub[a].log)
  BY <1>1
<1>2. n \in 1..n /\ hub[a].log[n] \in Grants
  BY <1>1
<1>3. Granted(a) = [what |-> "active", epoch |-> n, grants |-> hub[a].log[n]]
  BY DEF Granted, Last
<1>. QED  BY <1>2, <1>3 DEF Answer

LEMMA Sayings ==
    \A w \in {"none", "pending", "active", "confirmed", "revoked", "invalid", "lost"} :
        Said(w) \in Answer /\ Said(w).what = w
BY DEF Said, Answer

(* The three frames: what is not touched stays right as the Hub goes on.    *)
LEMMA VaultStays ==
    ASSUME CredInv, HubGoesOn, vault' = vault
    PROVE  vault' \in VaultRecord /\ VaultInv'
BY GivenStays DEF CredInv, CredShapes, VaultInv

LEMMA PageStays ==
    ASSUME CredInv, HubGoesOn, page' = page
    PROVE  page' \in PageRecord /\ PageInv'
BY GivenStays DEF CredInv, CredShapes, PageInv

LEMMA AppStays ==
    ASSUME CredInv, HubGoesOn, app' = app
    PROVE  app' \in AppRecord /\ AppInv'
BY GivenStays DEF CredInv, CredShapes, AppInv

(* The coordinator keeps its credential, and drops or keeps its answer.     *)
LEMMA AppRests ==
    ASSUME CredInv, HubGoesOn, app' \in AppRecord,
           app'.credential = app.credential \/ app'.credential = Empty,
           app'.op \in {"none", "look", "lookAndFind", "load", "loadAndFind"},
           app'.answer = NoAnswer
    PROVE  AppInv'
<1>1. NoAnswer.what = "none"
  BY DEF NoAnswer, Said
<1>2. Empty.at = "empty"
  BY DEF Empty
<1>. QED  BY <1>1, <1>2, GivenStays DEF CredInv, CredShapes, AppInv

LEMMA NoAnswerIs == NoAnswer \in Answer /\ NoAnswer.what = "none"
BY DEF NoAnswer, Said, Answer

LEMMA EmptyIs == Empty \in VaultRecord /\ Empty.at = "empty"
BY DEF Empty, VaultRecord

LEMMA RefreshingIs ==
    ASSUME NEW c \in AppRecord, NEW op \in {"look", "lookAndFind"}
    PROVE  /\ Refreshing(c, op) \in AppRecord
           /\ Refreshing(c, op).credential = c.credential
           /\ Refreshing(c, op).op = op /\ Refreshing(c, op).answer = NoAnswer
BY NoAnswerIs DEF Refreshing, AppRecord, AppState

LEMMA EndedIs ==
    ASSUME NEW c \in AppRecord
    PROVE  /\ Ended(c) \in AppRecord
           /\ Ended(c).credential = c.credential
           /\ Ended(c).op \in {"none", "look"} /\ Ended(c).answer = NoAnswer
<1>1. CASE c.queued
  <2>1. [c EXCEPT !.queued = FALSE] \in AppRecord
        /\ [c EXCEPT !.queued = FALSE].credential = c.credential
    BY DEF AppRecord
  <2>. QED  BY <1>1, <2>1, RefreshingIs DEF Ended
<1>2. CASE ~c.queued
  BY <1>2, NoAnswerIs DEF Ended, AppRecord
<1>. QED  BY <1>1, <1>2

LEMMA FailuresAre == \A c \in AppRecord : \A w : AfterFailure(c, w) \in AppState
BY DEF AfterFailure, AppState

LEMMA PairingChangedKeepsApp ==
    ASSUME CredInv, HubGoesOn, PairingChanged
    PROVE  app' \in AppRecord /\ AppInv'
<1>1. app \in AppRecord
  BY DEF CredInv, CredShapes
<1>2. CASE Busy
  <2>1. app' = [app EXCEPT !.queued = TRUE]
    BY <1>2 DEF PairingChanged
  <2>2. /\ app' \in AppRecord /\ app'.credential = app.credential
        /\ app'.op = app.op /\ app'.answer = app.answer
    BY <1>1, <2>1 DEF AppRecord
  <2>. QED  BY <2>2, GivenStays DEF CredInv, AppInv
<1>3. CASE ~Busy
  <2>1. app' = Refreshing(app, "look")
    BY <1>3 DEF PairingChanged
  <2>. QED  BY <1>1, <2>1, RefreshingIs, AppRests
<1>. QED  BY <1>2, <1>3

(* The coordinator's own steps.                                             *)
LEMMA AppAsks ==
    ASSUME CredInv, Refresh \/ FindPairedHub \/ Look \/ Load \/ Ask
    PROVE  app' \in AppRecord /\ AppInv'
<1>1. app \in AppRecord /\ vault \in VaultRecord
  BY DEF CredInv, CredShapes
<1>0. HubGoesOn
  BY HubUnchanged DEF Refresh, FindPairedHub, Look, Load, Ask
<1>2. CASE Refresh \/ FindPairedHub
  <2>1. app' = Refreshing(app, "look") \/ app' = Refreshing(app, "lookAndFind")
    BY <1>2 DEF Refresh, FindPairedHub
  <2>. QED  BY <1>0, <1>1, <2>1, RefreshingIs, AppRests
<1>3. CASE Look
  <2>1. CASE vault.at = "active"
    <3>1. PICK op \in {"load", "loadAndFind"} : app' = [app EXCEPT !.op = op]
      BY <1>3, <2>1 DEF Look
    <3>2. app' \in AppRecord /\ app'.credential = app.credential /\ app'.op = op
          /\ app'.answer = app.answer
      BY <1>1, <3>1 DEF AppRecord
    <3>3. app.answer = NoAnswer
      BY <1>3 DEF Look, CredInv, AppInv
    <3>. QED  BY <1>0, <3>2, <3>3, AppRests
  <2>2. CASE vault.at # "active"
    <3>. DEFINE c == [app EXCEPT !.credential = Empty, !.state = "unpaired"]
    <3>1. c \in AppRecord /\ c.credential = Empty
      BY <1>1, EmptyIs DEF AppRecord, AppState
    <3>2. app' = Ended(c)
      BY <1>3, <2>2 DEF Look
    <3>. HIDE DEF c
    <3>. QED  BY <1>0, <3>1, <3>2, EndedIs, AppRests
  <2>. QED  BY <2>1, <2>2
<1>4. CASE Load
  <2>1. CASE vault.at # "active"
    <3>. DEFINE c == [app EXCEPT !.state = "invalid"]
    <3>1. c \in AppRecord /\ c.credential = app.credential
      BY <1>1 DEF AppRecord, AppState
    <3>2. app' = Ended(c)
      BY <1>4, <2>1 DEF Load
    <3>. HIDE DEF c
    <3>. QED  BY <1>0, <3>1, <3>2, EndedIs, AppRests
  <2>2. CASE vault.at = "active"
    <3>1. \/ app' = [app EXCEPT !.credential = vault, !.op = "ask", !.url = vault.url]
          \/ app' = [app EXCEPT !.credential = vault, !.op = "find", !.tried = TRUE]
      BY <1>4, <2>2 DEF Load
    <3>2. vault.url \in Addresses \cup {NoAddress}
      BY <1>1 DEF VaultRecord
    <3>3. app' \in AppRecord /\ app'.credential = vault /\ app'.op \in {"ask", "find"}
          /\ app'.answer = app.answer
      BY <1>1, <3>1, <3>2 DEF AppRecord
    <3>4. app.answer.what # "active"
      BY <1>4, NoAnswerIs DEF Load, CredInv, AppInv
    <3>5. vault' = vault
      BY <1>4 DEF Load
    <3>6. Given(vault.attempt, vault.epoch, vault.grants)'
      BY <1>0, <2>2, <3>5, GivenStays DEF CredInv, VaultInv
    <3>. QED  BY <2>2, <3>3, <3>4, <3>5, <3>6 DEF AppInv
  <2>. QED  BY <2>1, <2>2
<1>5. CASE Ask
  <2>1. app.op \in {"ask", "verify", "scanned"} /\ app.credential.at = "active"
    BY <1>5 DEF Ask, CredInv, AppInv
  <2>2. Given(app.credential.attempt, app.credential.epoch, app.credential.grants)
    BY <2>1 DEF CredInv, AppInv
  <2>. DEFINE a == app.credential.attempt
  <2>3. a \in Attempts /\ hub[a].at \in {"active", "revoked"}
    BY <2>2 DEF Given
  <2>4. \E ans \in Answer :
           /\ app' = [app EXCEPT !.answer = ans]
           /\ ans.what = "active" => Given(a, ans.epoch, ans.grants)
    <3>1. app' = [app EXCEPT !.answer = Standing(a)] \/ app' = [app EXCEPT !.answer = Said("lost")]
      BY <1>5 DEF Ask
    <3>2. Said("lost") \in Answer /\ Said("lost").what = "lost"
      BY Sayings
    <3>3. Standing(a) = IF hub[a].at = "active" THEN Granted(a) ELSE Said("revoked")
      BY <2>3 DEF Standing
    <3>4. Said("revoked") \in Answer /\ Said("revoked").what = "revoked"
      BY Sayings
    <3>5. /\ Granted(a) \in Answer
          /\ Given(a, Granted(a).epoch, Granted(a).grants)
      BY <2>3, LastGrant DEF Given
    <3>. QED  BY <3>1, <3>2, <3>3, <3>4, <3>5
  <2>. HIDE DEF a
  <2>5. PICK ans \in Answer : /\ app' = [app EXCEPT !.answer = ans]
                              /\ ans.what = "active" => Given(a, ans.epoch, ans.grants)
    BY <2>4
  <2>6. app' \in AppRecord /\ app'.credential = app.credential /\ app'.op = app.op
        /\ app'.answer = ans
    BY <1>1, <2>5 DEF AppRecord
  <2>7. ans.what = "active" => Given(app.credential.attempt, ans.epoch, ans.grants)'
    BY <1>0, <2>5, <2>6, GivenStays DEF CredInv, a
  <2>8. Given(app.credential.attempt, app.credential.epoch, app.credential.grants)'
    BY <1>0, <2>2, <2>6, GivenStays DEF CredInv
  <2>. QED  BY <2>1, <2>6, <2>7, <2>8 DEF AppInv
<1>. QED  BY <1>2, <1>3, <1>4, <1>5

(* Steps that keep the credential the coordinator works with.               *)
LEMMA AppGoesOn ==
    ASSUME CredInv, HubGoesOn, app' \in AppRecord, app'.credential = app.credential,
           app.credential.at = "active",
           app'.op \notin {"look", "lookAndFind", "load", "loadAndFind"},
           app'.answer \in {app.answer, NoAnswer, Said("lost")}
    PROVE  AppInv'
<1>1. Said("lost").what = "lost" /\ NoAnswer.what = "none"
  BY Sayings, NoAnswerIs
<1>2. Given(app.credential.attempt, app.credential.epoch, app.credential.grants)'
  BY GivenStays DEF CredInv, AppInv
<1>3. ASSUME app.answer.what = "active", app'.answer = app.answer
      PROVE  Given(app.credential.attempt, app.answer.epoch, app.answer.grants)'
  BY <1>3, GivenStays DEF CredInv, AppInv
<1>. QED  BY <1>1, <1>2, <1>3 DEF AppInv

LEMMA AppSearches ==
    ASSUME CredInv, LookForHub \/ Find \/ RefreshFails \/ Scan \/ ScanFails
    PROVE  app' \in AppRecord /\ AppInv'
<1>1. app \in AppRecord
  BY DEF CredInv, CredShapes
<1>0. HubGoesOn
  BY HubUnchanged DEF LookForHub, Find, RefreshFails, Scan, ScanFails
<1>2. app.credential.at = "active"
  BY DEF LookForHub, Find, RefreshFails, Scan, ScanFails, CredInv, AppInv
<1>3. CASE LookForHub
  <2>1. app' = [app EXCEPT !.op = "find", !.tried = TRUE, !.answer = NoAnswer]
    BY <1>3 DEF LookForHub
  <2>2. app' \in AppRecord /\ app'.credential = app.credential /\ app'.op = "find"
        /\ app'.answer = NoAnswer
    BY <1>1, <2>1, NoAnswerIs DEF AppRecord
  <2>. QED  BY <1>0, <1>2, <2>2, AppGoesOn
<1>4. CASE Find
  <2>1. CASE app' = [app EXCEPT !.op = "verify", !.url = address]
    <3>1. app' \in AppRecord /\ app'.credential = app.credential /\ app'.op = "verify"
          /\ app'.answer = app.answer
      BY <1>1, <2>1 DEF AppRecord, CredInv, CredShapes
    <3>. QED  BY <1>0, <1>2, <3>1, AppGoesOn
  <2>2. CASE app' = Ended([app EXCEPT !.state = AfterFailure(app, "lost")])
    <3>. DEFINE c == [app EXCEPT !.state = AfterFailure(app, "lost")]
    <3>1. c \in AppRecord /\ c.credential = app.credential
      BY <1>1, FailuresAre DEF AppRecord
    <3>. HIDE DEF c
    <3>2. app' = Ended(c)
      BY <2>2 DEF c
    <3>. QED  BY <1>0, <3>1, <3>2, EndedIs, AppRests
  <2>. QED  BY <1>4, <2>1, <2>2 DEF Find
<1>5. CASE RefreshFails
  <2>. DEFINE c == [app EXCEPT !.state = AfterFailure(app, app.answer.what)]
  <2>1. c \in AppRecord /\ c.credential = app.credential
    BY <1>1, FailuresAre DEF AppRecord
  <2>. HIDE DEF c
  <2>2. app' = Ended(c)
    BY <1>5 DEF RefreshFails, c
  <2>. QED  BY <1>0, <2>1, <2>2, EndedIs, AppRests
<1>6. CASE Scan
  <2>1. PICK x \in Addresses :
          app' = [app EXCEPT !.op = "scanned", !.before = app.state, !.url = x,
                             !.answer = NoAnswer]
    BY <1>6 DEF Scan
  <2>2. app' \in AppRecord /\ app'.credential = app.credential /\ app'.op = "scanned"
        /\ app'.answer = NoAnswer
    BY <1>1, <2>1, NoAnswerIs DEF AppRecord, AppState
  <2>. QED  BY <1>0, <1>2, <2>2, AppGoesOn
<1>7. CASE ScanFails
  <2>1. app' = [app EXCEPT !.op = "none", !.answer = NoAnswer, !.state = app.before]
    BY <1>7 DEF ScanFails
  <2>2. app' \in AppRecord /\ app'.credential = app.credential /\ app'.op = "none"
        /\ app'.answer = NoAnswer
    BY <1>1, <2>1, NoAnswerIs DEF AppRecord, AppState
  <2>. QED  BY <1>0, <1>2, <2>2, AppGoesOn
<1>. QED  BY <1>3, <1>4, <1>5, <1>6, <1>7

(* The answer of the Hub is written: only over the record of the device that*)
(* asked, so the vault takes over what the Hub gave to it.                  *)
LEMMA AnswerWritten ==
    ASSUME CredInv, hub' = hub, app.answer.what = "active",
           MayUpdate(app.credential.attempt, app.answer),
           NEW new \in VaultRecord, vault' = new,
           new.at = "active", new.attempt = vault.attempt,
           new.epoch = app.answer.epoch, new.grants = app.answer.grants
    PROVE  VaultInv'
<1>1. HubGoesOn
  BY HubUnchanged
<1>2. new.attempt = app.credential.attempt
  BY DEF MayUpdate
<1>3. Given(app.credential.attempt, app.answer.epoch, app.answer.grants)
  BY DEF CredInv, AppInv
<1>4. Given(new.attempt, new.epoch, new.grants)
  BY <1>2, <1>3
<1>5. Given(new.attempt, new.epoch, new.grants)'
  BY <1>1, <1>4, GivenStays DEF CredInv
<1>. QED  BY <1>4, <1>5 DEF VaultInv, Given

LEMMA StoringKeepsVault ==
    ASSUME CredInv, Persist \/ Store
    PROVE  /\ app' \in AppRecord /\ AppInv'
           /\ vault' \in VaultRecord /\ VaultInv'
<1>1. app \in AppRecord /\ vault \in VaultRecord
  BY DEF CredInv, CredShapes
<1>2. app.answer \in Answer /\ app.credential \in VaultRecord
  BY <1>1 DEF AppRecord
<1>3. app.answer.what = "active" /\ hub' = hub /\ app.credential.at = "active"
  BY DEF Persist, Store, CredInv, AppInv
<1>0. HubGoesOn
  BY <1>3, HubUnchanged
<1>4. CASE MayUpdate(app.credential.attempt, app.answer)
  <2>1. \/ vault' = [vault EXCEPT !.url = app.url, !.epoch = app.answer.epoch,
                                  !.grants = app.answer.grants]
        \/ vault' = [vault EXCEPT !.epoch = app.answer.epoch, !.grants = app.answer.grants]
    BY <1>4 DEF Persist, Store, Save
  <2>2. /\ vault' \in VaultRecord /\ vault'.at = "active" /\ vault'.attempt = vault.attempt
        /\ vault'.epoch = app.answer.epoch /\ vault'.grants = app.answer.grants
    BY <1>1, <1>2, <1>4, <2>1 DEF VaultRecord, Answer, MayUpdate, AppRecord
  <2>3. VaultInv'
    BY <1>3, <1>4, <2>2, AnswerWritten
  <2>4. PICK op \in {"verified", "moved", "stored"} : app' = [app EXCEPT !.op = op]
    BY <1>4 DEF Persist, Store
  <2>5. /\ app' \in AppRecord /\ app'.credential = app.credential
        /\ app'.op = op /\ app'.answer = app.answer
    BY <1>1, <2>4 DEF AppRecord
  <2>. QED  BY <1>0, <1>3, <2>2, <2>3, <2>5, AppGoesOn
<1>6. CASE ~MayUpdate(app.credential.attempt, app.answer)
  <2>1. vault' = vault
    BY <1>6 DEF Persist, Store
  <2>. DEFINE c == [app EXCEPT !.state = "invalid"]
              b == [app EXCEPT !.op = "none", !.answer = NoAnswer, !.state = app.before]
  <2>2. app' = Ended(c) \/ app' = b
    BY <1>6 DEF Persist, Store
  <2>3. c \in AppRecord /\ c.credential = app.credential
    BY <1>1 DEF AppRecord, AppState
  <2>4. b \in AppRecord /\ b.credential = app.credential /\ b.op = "none" /\ b.answer = NoAnswer
    BY <1>1, NoAnswerIs DEF AppRecord, AppState
  <2>. HIDE DEF b, c
  <2>5. /\ app' \in AppRecord /\ app'.credential = app.credential
        /\ app'.op \in {"none", "look"} /\ app'.answer = NoAnswer
    BY <2>2, <2>3, <2>4, EndedIs
  <2>. QED  BY <1>0, <2>1, <2>5, AppRests, VaultStays
<1>. QED  BY <1>4, <1>6

(* The coordinator takes over whatever record the vault holds by now: that  *)
(* is given by the Hub too, and the answer it keeps is of the same device.  *)
LEMMA ReloadingKeepsApp ==
    ASSUME CredInv, Reload \/ ReloadFails
    PROVE  app' \in AppRecord /\ AppInv'
<1>1. app \in AppRecord /\ vault \in VaultRecord
  BY DEF CredInv, CredShapes
<1>0. HubGoesOn
  BY HubUnchanged DEF Reload, ReloadFails
<1>2. vault' = vault
  BY DEF Reload, ReloadFails
<1>3. CASE ReloadFails
  <2>. DEFINE c == [app EXCEPT !.state = "invalid"]
              b == [app EXCEPT !.op = "none", !.answer = NoAnswer, !.state = app.before]
  <2>2. app' = Ended(c) \/ app' = b
    BY <1>3 DEF ReloadFails
  <2>3. c \in AppRecord /\ c.credential = app.credential
    BY <1>1 DEF AppRecord, AppState
  <2>4. b \in AppRecord /\ b.credential = app.credential /\ b.op = "none" /\ b.answer = NoAnswer
    BY <1>1, NoAnswerIs DEF AppRecord, AppState
  <2>. HIDE DEF b, c
  <2>5. /\ app' \in AppRecord /\ app'.credential = app.credential
        /\ app'.op \in {"none", "look"} /\ app'.answer = NoAnswer
    BY <2>2, <2>3, <2>4, EndedIs
  <2>. QED  BY <1>0, <2>5, AppRests
<1>4. CASE Reload
  <2>. DEFINE found == [app EXCEPT !.credential = vault]
  <2>0. found \in AppRecord /\ found.credential = vault /\ found.answer = app.answer
    BY <1>1 DEF AppRecord
  <2>1. Given(vault.attempt, vault.epoch, vault.grants)' /\ vault.at = "active"
    BY <1>0, <1>2, <1>4, GivenStays DEF CredInv, VaultInv, Reload
  <2>2. \A st \in AppState :
          /\ [found EXCEPT !.state = st] \in AppRecord
          /\ [found EXCEPT !.state = st].credential = vault
          /\ [found EXCEPT !.tried = FALSE, !.state = st] \in AppRecord
          /\ [found EXCEPT !.tried = FALSE, !.state = st].credential = vault
    BY <2>0 DEF AppRecord
  <2>3. StateFor(vault.grants) \in AppState /\ StateFor(app.answer.grants) \in AppState
        /\ "invalid" \in AppState
    BY DEF StateFor, AppState
  <2>4. CASE vault.attempt = app.credential.attempt /\ app' = [found EXCEPT !.op = "ask"]
    <3>1. /\ app' \in AppRecord /\ app'.credential = vault
          /\ app'.op = "ask" /\ app'.answer = app.answer
      BY <2>0, <2>4 DEF AppRecord
    <3>2. app.answer.what = "active"
            => Given(vault.attempt, app.answer.epoch, app.answer.grants)'
      BY <1>0, <1>2, <2>4, <3>1, GivenStays DEF CredInv, AppInv
    <3>. QED  BY <1>2, <2>1, <3>1, <3>2 DEF AppInv
  <2>5. CASE app' = [found EXCEPT !.op = "none", !.answer = NoAnswer, !.tried = FALSE,
                                  !.state = StateFor(app.answer.grants)]
    <3>1. /\ app' \in AppRecord /\ app'.credential = vault
          /\ app'.op = "none" /\ app'.answer = NoAnswer
      BY <2>0, <2>3, <2>5, NoAnswerIs DEF AppRecord
    <3>. QED  BY <1>2, <2>1, <3>1, NoAnswerIs DEF AppInv
  <2>6. ASSUME NEW c \in AppRecord, c.credential = vault, app' = Ended(c)
        PROVE  app' \in AppRecord /\ AppInv'
    <3>1. /\ app' \in AppRecord /\ app'.credential = vault
          /\ app'.op \in {"none", "look"} /\ app'.answer = NoAnswer
      BY <2>6, EndedIs
    <3>. QED  BY <1>2, <2>1, <3>1, NoAnswerIs DEF AppInv
  <2>7. \/ app' = Ended([found EXCEPT !.tried = FALSE, !.state = StateFor(vault.grants)])
        \/ app' = Ended([found EXCEPT !.state = "invalid"])
        \/ vault.attempt = app.credential.attempt /\ app' = [found EXCEPT !.op = "ask"]
        \/ app' = [found EXCEPT !.op = "none", !.answer = NoAnswer, !.tried = FALSE,
                                !.state = StateFor(app.answer.grants)]
    BY <1>4 DEF Reload
  <2>. HIDE DEF found
  <2>. QED  BY <2>2, <2>3, <2>4, <2>5, <2>6, <2>7
<1>. QED  BY <1>3, <1>4

(* A request of the page moves its attempt along at the Hub.                *)
LEMMA AtMoves ==
    ASSUME CredInv, NEW a \in Attempts, NEW to,
           to = hub[a].at \/ <<hub[a].at, to>> \in {<<"offered", "hello">>, <<"hello", "client">>,
                                                   <<"operator", "active">>},
           hub' = [hub EXCEPT ![a].at = to]
    PROVE  HubGoesOn /\ hub'[a].at = to /\ hub'[a].log = hub[a].log
<1>1. hub \in [Attempts -> HubRecord] /\ hub[a] \in HubRecord
  BY DEF CredInv, CredShapes
<1>. DEFINE r == [hub[a] EXCEPT !.at = to]
<1>2. r \in HubRecord /\ r.at = to /\ r.log = hub[a].log
  BY <1>1 DEF HubRecord
<1>3. hub' = [hub EXCEPT ![a] = r]
  BY <1>1
<1>. HIDE DEF r
<1>. QED  BY <1>1, <1>2, <1>3 DEF CredInv, LogsInv, HubGoesOn

(* The page asks, and what it is told of grants is what the Hub gave.       *)
PageTold ==
    \E ans \in Answer :
        /\ page' = [page EXCEPT !.answer = ans]
        /\ ans.what \in {"active", "confirmed"} => Given(page.attempt, ans.epoch, ans.grants)'

LEMMA PageToldKeepsPage ==
    ASSUME CredInv, PageTold, page.op # "none", page.state \in {"connecting", "human", "hub"}
    PROVE  page' \in PageRecord /\ PageInv'
<1>1. PICK ans \in Answer :
        /\ page' = [page EXCEPT !.answer = ans]
        /\ ans.what \in {"active", "confirmed"} => Given(page.attempt, ans.epoch, ans.grants)'
  BY DEF PageTold
<1>2. /\ page' \in PageRecord /\ page'.state = page.state /\ page'.attempt = page.attempt
      /\ page'.op = page.op /\ page'.answer = ans
  BY <1>1 DEF CredInv, CredShapes, PageRecord
<1>. QED  BY <1>1, <1>2 DEF CredInv, PageInv

LEMMA PageAsks ==
    ASSUME CredInv, SendHello \/ SendConfirm \/ SendStatus
    PROVE  HubGoesOn /\ page' \in PageRecord /\ PageInv'
<1>. DEFINE a == page.attempt
<1>1. page.state \in {"connecting", "human", "hub"} /\ a \in Attempts /\ page.op # "none"
  BY DEF SendHello, SendConfirm, SendStatus, CredInv, PageInv
<1>2. \A w \in {"pending", "invalid", "lost", "revoked"} : Said(w) \in Answer /\ Said(w).what = w
  BY Sayings
<1>3. CASE SendHello
  <2>. DEFINE to == IF hub[a].at = "offered" THEN "hello" ELSE hub[a].at
              becomes == [hub EXCEPT ![a].at = IF @ = "offered" THEN "hello" ELSE @]
  <2>1. becomes = [hub EXCEPT ![a].at = to]
    BY <1>1
  <2>2. /\ hub' \in {hub, becomes}
        /\ \E w \in {"pending", "invalid", "lost"} : page' = [page EXCEPT !.answer = Said(w)]
    BY <1>3 DEF SendHello, Asked
  <2>3. HubGoesOn
    <3>1. CASE hub' = hub
      BY <3>1, HubUnchanged
    <3>2. CASE hub' = [hub EXCEPT ![a].at = to]
      BY <1>1, <3>2, AtMoves
    <3>. QED  BY <2>1, <2>2, <3>1, <3>2
  <2>4. PageTold
    BY <1>2, <2>2 DEF PageTold
  <2>. QED  BY <1>1, <2>3, <2>4, PageToldKeepsPage
<1>4. CASE SendConfirm
  <2>. DEFINE to == CASE hub[a].at = "hello" -> "client" [] hub[a].at = "operator" -> "active"
                      [] OTHER -> hub[a].at
              told == CASE hub[a].at \in {"hello", "client"} -> Said("pending")
                        [] hub[a].at \in {"operator", "active"} -> Granted(a)
                        [] OTHER -> Said("invalid")
              again == IF told.what = "active" /\ told.epoch = page.answer.epoch
                       THEN [told EXCEPT !.what = "confirmed"] ELSE Said("invalid")
  <2>1. AfterConfirm(a) = [hub EXCEPT ![a].at = to]
    BY <1>1 DEF AfterConfirm
  <2>2. /\ hub' \in {hub, AfterConfirm(a)}
        /\ \/ page' = [page EXCEPT !.answer = Said("lost")]
           \/ /\ hub' = AfterConfirm(a)
              /\ \/ page' = [page EXCEPT !.answer = told]
                 \/ page' = [page EXCEPT !.answer = again]
    BY <1>4 DEF SendConfirm, Asked
  <2>3. HubGoesOn
    <3>1. CASE hub' = hub
      BY <3>1, HubUnchanged
    <3>2. CASE hub' = [hub EXCEPT ![a].at = to]
      BY <1>1, <3>2, AtMoves
    <3>. QED  BY <2>1, <2>2, <3>1, <3>2
  <2>4. CASE page' = [page EXCEPT !.answer = Said("lost")]
    BY <1>1, <1>2, <2>3, <2>4, PageToldKeepsPage DEF PageTold
  <2>5. ASSUME hub' = AfterConfirm(a), hub[a].at \in {"operator", "active"},
               NEW ans \in Answer, page' = [page EXCEPT !.answer = ans],
               ans.epoch = Granted(a).epoch, ans.grants = Granted(a).grants
        PROVE  PageTold
    <3>1. hub'[a].at = "active" /\ hub'[a].log = hub[a].log
      BY <1>1, <2>1, <2>5, AtMoves
    <3>2. Granted(a).epoch \in 1..Len(hub[a].log)
          /\ Granted(a).grants = hub[a].log[Granted(a).epoch]
      BY <1>1, <2>5, LastGrant
    <3>3. page'.attempt = page.attempt
      BY <2>5 DEF CredInv, CredShapes, PageRecord
    <3>4. Given(page.attempt, ans.epoch, ans.grants)'
      BY <1>1, <2>5, <3>1, <3>2, <3>3 DEF Given
    <3>. QED  BY <2>5, <3>4 DEF PageTold
  <2>6. ASSUME hub' = AfterConfirm(a), page' = [page EXCEPT !.answer = told]
        PROVE  PageTold
    <3>1. CASE hub[a].at \in {"operator", "active"}
      <4>1. told = Granted(a) /\ told \in Answer
        BY <1>1, <3>1, LastGrant
      <4>. QED  BY <2>5, <2>6, <3>1, <4>1
    <3>2. CASE hub[a].at \notin {"operator", "active"}
      <4>1. told \in {Said("pending"), Said("invalid")}
        BY <3>2
      <4>. QED  BY <1>2, <2>6, <4>1 DEF PageTold
    <3>. QED  BY <3>1, <3>2
  <2>7. ASSUME hub' = AfterConfirm(a), page' = [page EXCEPT !.answer = again]
        PROVE  PageTold
    <3>1. CASE again = Said("invalid")
      BY <1>2, <2>7, <3>1 DEF PageTold
    <3>2. CASE again # Said("invalid")
      <4>1. told.what = "active" /\ again = [told EXCEPT !.what = "confirmed"]
        BY <3>2
      <4>2. hub[a].at \in {"operator", "active"}
        BY <1>2, <4>1
      <4>3. told = Granted(a) /\ told \in Answer
        BY <1>1, <4>2, LastGrant
      <4>4. /\ [Granted(a) EXCEPT !.what = "confirmed"] \in Answer
            /\ [Granted(a) EXCEPT !.what = "confirmed"].epoch = Granted(a).epoch
            /\ [Granted(a) EXCEPT !.what = "confirmed"].grants = Granted(a).grants
        BY <4>3 DEF Answer
      <4>5. again = [Granted(a) EXCEPT !.what = "confirmed"]
        BY <4>1, <4>3
      <4>. HIDE DEF again, told, to
      <4>6. again \in Answer /\ again.epoch = Granted(a).epoch /\ again.grants = Granted(a).grants
        BY <4>4, <4>5
      <4>. QED  BY <2>5, <2>7, <4>2, <4>6
    <3>. QED  BY <3>1, <3>2
  <2>. HIDE DEF told, again, to
  <2>. QED  BY <1>1, <2>2, <2>3, <2>4, <2>6, <2>7, PageToldKeepsPage
<1>5. CASE SendStatus
  <2>1. /\ hub' = hub
        /\ page' = [page EXCEPT !.answer = Said("lost")]
           \/ page' = [page EXCEPT !.answer = Standing(a)]
    BY <1>5 DEF SendStatus, Asked
  <2>2. HubGoesOn
    BY <2>1, HubUnchanged
  <2>3. CASE hub[a].at = "active" /\ page' = [page EXCEPT !.answer = Granted(a)]
    <3>1. Granted(a) \in Answer /\ Granted(a).epoch \in 1..Len(hub[a].log)
          /\ Granted(a).grants = hub[a].log[Granted(a).epoch]
      BY <1>1, <2>3, LastGrant
    <3>2. page'.attempt = page.attempt
      BY <2>3 DEF CredInv, CredShapes, PageRecord
    <3>. PICK ans \in Answer : ans = Granted(a)
      BY <3>1
    <3>3. Given(page.attempt, ans.epoch, ans.grants)'
      BY <1>1, <2>1, <2>3, <3>1, <3>2 DEF Given
    <3>4. PageTold
      BY <2>3, <3>3 DEF PageTold
    <3>. QED  BY <1>1, <2>2, <3>4, PageToldKeepsPage
  <2>4. CASE \E w \in {"pending", "invalid", "lost", "revoked"} : page' = [page EXCEPT !.answer = Said(w)]
    <3>1. PageTold
      BY <1>2, <2>4 DEF PageTold
    <3>. QED  BY <1>1, <2>2, <3>1, PageToldKeepsPage
  <2>. QED  BY <2>1, <2>3, <2>4 DEF Standing
<1>. QED  BY <1>3, <1>4, <1>5

(* The page's steps that ask nobody.                                        *)
LEMMA PageMoves ==
    ASSUME CredInv, HubGoesOn, page' \in PageRecord,
           page'.attempt = page.attempt,
           page'.op # "none" => page'.state \in {"connecting", "human", "hub"},
           page'.state \in {"connecting", "human", "hub", "waitStable"} =>
             page'.attempt \in Attempts,
           page'.answer = NoAnswer \/ page'.answer = page.answer,
           page'.op = "none" => page'.answer = NoAnswer
    PROVE  PageInv'
<1>1. page.answer.what \in {"active", "confirmed"} /\ page'.answer = page.answer =>
        Given(page.attempt, page.answer.epoch, page.answer.grants)'
  BY GivenStays DEF CredInv, PageInv
<1>. QED  BY <1>1, NoAnswerIs DEF PageInv

LEMMA PressingKeepsPage ==
    ASSUME CredInv,
           \/ RetryAfterStable \/ PressConfirm \/ PressRecover \/ ConfirmAgain \/ PageFails
           \/ StillPending
    PROVE  page' \in PageRecord /\ PageInv'
<1>0. HubGoesOn
  BY HubUnchanged DEF RetryAfterStable, PressConfirm, PressRecover, ConfirmAgain, PageFails,
                      StillPending
<1>1. page \in PageRecord
  BY DEF CredInv, CredShapes
<1>2. page.op = "none" \/ page.state \in {"connecting", "human", "hub"}
  BY DEF CredInv, PageInv
<1>3. page.state \in {"connecting", "human", "hub", "waitStable"} => page.attempt \in Attempts
  BY DEF CredInv, PageInv
<1>4. PICK st, op, ans :
        /\ page' = [page EXCEPT !.state = st, !.op = op, !.answer = ans]
        /\ ans \in {NoAnswer, page.answer}
        /\ st \in {"connecting", "human", "hub"}
        /\ op = "none" => ans = NoAnswer
        /\ op \in {"none", "hello", "confirm", "confirmAgain", "status"}
        /\ page.state \in {"connecting", "human", "hub", "waitStable"}
  <2>1. CASE RetryAfterStable
    <3>1. page' = [page EXCEPT !.state = "connecting", !.op = "hello", !.answer = page.answer]
      BY <1>1, <2>1 DEF RetryAfterStable, PageRecord
    <3>. QED  BY <2>1, <3>1 DEF RetryAfterStable
  <2>2. CASE PressConfirm \/ PressRecover
    <3>1. PICK op \in {"confirm", "status"} :
            page' = [page EXCEPT !.state = page.state, !.op = op, !.answer = NoAnswer]
      BY <1>1, <2>2 DEF PressConfirm, PressRecover, Does, PageRecord
    <3>. QED  BY <2>2, <3>1 DEF PressConfirm, PressRecover
  <2>3. CASE ConfirmAgain
    <3>1. page' = [page EXCEPT !.state = page.state, !.op = "confirmAgain", !.answer = page.answer]
      BY <1>1, <2>3 DEF ConfirmAgain, PageRecord
    <3>2. page.state \in {"connecting", "human", "hub"}
      BY <1>2, <2>3 DEF ConfirmAgain
    <3>. QED  BY <3>1, <3>2
  <2>4. CASE PageFails \/ StillPending
    <3>1. PICK st \in {page.state, "hub"} :
            page' = [page EXCEPT !.state = st, !.op = "none", !.answer = NoAnswer]
      BY <1>1, <2>4 DEF PageFails, StillPending, PageIs
    <3>. QED  BY <1>2, <2>4, <3>1 DEF PageFails, StillPending
  <2>. QED  BY <2>1, <2>2, <2>3, <2>4
<1>5. ans \in Answer
  BY <1>1, <1>4, NoAnswerIs DEF PageRecord
<1>6. /\ page' \in PageRecord /\ page'.state = st /\ page'.attempt = page.attempt
      /\ page'.op = op /\ page'.answer = ans
  BY <1>1, <1>4, <1>5 DEF PageRecord
<1>. QED  BY <1>0, <1>3, <1>4, <1>6, PageMoves

(* The steps that begin or end a pairing.                                   *)
LEMMA PairingBegins ==
    ASSUME CredInv, NEW a \in Attempts, BeginPairing(a)
    PROVE  /\ vault' \in VaultRecord /\ VaultInv'
           /\ page' \in PageRecord /\ PageInv'
<1>1. page \in PageRecord /\ address \in Addresses
  BY DEF CredInv, CredShapes
<1>0. HubGoesOn
  BY HubUnchanged DEF BeginPairing
<1>. DEFINE new == [Empty EXCEPT !.at = "pending", !.attempt = a, !.url = address]
<1>2. new \in VaultRecord /\ new.at = "pending" /\ new.attempt = a
  BY <1>1 DEF Empty, VaultRecord
<1>3. vault' = new
  BY DEF BeginPairing, Save
<1>. HIDE DEF new
<1>4. /\ page' \in PageRecord /\ page'.state = "connecting" /\ page'.op = "hello"
      /\ page'.attempt = a /\ page'.answer = page.answer
  BY <1>1 DEF BeginPairing, PageRecord
<1>5. page.answer.what \notin {"active", "confirmed"}
  BY NoAnswerIs DEF BeginPairing, CredInv, PageInv
<1>. QED  BY <1>2, <1>3, <1>4, <1>5 DEF VaultInv, PageInv

LEMMA HelloKeepsPage ==
    ASSUME CredInv, HelloAnswered
    PROVE  /\ vault' \in VaultRecord /\ VaultInv'
           /\ page' \in PageRecord /\ PageInv'
<1>1. page \in PageRecord /\ vault \in VaultRecord
  BY DEF CredInv, CredShapes
<1>0. HubGoesOn
  BY HubUnchanged DEF HelloAnswered
<1>2. PICK st \in {"human", "failed", "waitStable"} :
        page' = [page EXCEPT !.state = st, !.op = "none", !.answer = NoAnswer]
  BY DEF HelloAnswered, PageIs
<1>3. /\ page' \in PageRecord /\ page'.state = st /\ page'.op = "none"
      /\ page'.attempt = page.attempt /\ page'.answer = NoAnswer
  BY <1>1, <1>2, NoAnswerIs DEF PageRecord
<1>4. page.attempt \in Attempts
  BY DEF HelloAnswered, CredInv, PageInv
<1>5. PageInv'
  BY <1>3, <1>4, NoAnswerIs DEF PageInv
<1>6. ASSUME vault' = vault \/ vault' = Empty
      PROVE  vault' \in VaultRecord /\ VaultInv'
  <2>1. CASE vault' = vault
    BY <1>0, <2>1, VaultStays
  <2>2. CASE vault' = Empty
    BY <2>2, EmptyIs DEF VaultInv
  <2>. QED  BY <1>6, <2>1, <2>2
<1>7. ASSUME vault' = [vault EXCEPT !.hello = TRUE]
      PROVE  vault' \in VaultRecord /\ VaultInv'
  <2>1. /\ vault' \in VaultRecord /\ vault'.at = vault.at /\ vault'.attempt = vault.attempt
        /\ vault'.epoch = vault.epoch /\ vault'.grants = vault.grants
    BY <1>1, <1>7 DEF VaultRecord
  <2>2. vault.at = "active" => Given(vault.attempt, vault.epoch, vault.grants)'
    BY <1>0, <2>1, GivenStays DEF CredInv, VaultInv
  <2>. QED  BY <2>1, <2>2 DEF CredInv, VaultInv
<1>. QED  BY <1>3, <1>5, <1>6, <1>7 DEF HelloAnswered, Save, Delete

(* The pending credential becomes active with what the Hub gave to its own  *)
(* attempt.                                                                 *)
LEMMA ActivatingKeepsVault ==
    ASSUME CredInv, Activate
    PROVE  /\ vault' \in VaultRecord /\ VaultInv'
           /\ page' \in PageRecord /\ PageInv'
           /\ app' \in AppRecord /\ AppInv'
<1>1. page \in PageRecord /\ vault \in VaultRecord
  BY DEF CredInv, CredShapes
<1>2. page.answer \in Answer /\ page.answer.what \in {"active", "confirmed"}
  BY <1>1 DEF PageRecord, Activate
<1>0. HubGoesOn
  BY HubUnchanged DEF Activate
<1>3. app' \in AppRecord /\ AppInv'
  BY <1>0, PairingChangedKeepsApp DEF Activate
<1>4. page' = [page EXCEPT !.state = "active", !.op = "none", !.answer = NoAnswer]
  BY DEF Activate, PageIs
<1>5. /\ page' \in PageRecord /\ page'.state = "active" /\ page'.op = "none"
      /\ page'.attempt = page.attempt /\ page'.answer = NoAnswer
  BY <1>1, <1>4, NoAnswerIs DEF PageRecord
<1>6. PageInv'
  BY <1>0, <1>5, PageMoves
<1>. DEFINE new == [vault EXCEPT !.at = "active", !.epoch = page.answer.epoch,
                                 !.grants = page.answer.grants]
<1>7. /\ new \in VaultRecord /\ new.at = "active" /\ new.attempt = vault.attempt
      /\ new.epoch = page.answer.epoch /\ new.grants = page.answer.grants
  BY <1>1, <1>2 DEF VaultRecord, Answer
<1>8. vault' = new /\ vault.attempt = page.attempt
  BY DEF Activate, Save, Activated, MayActivate
<1>. HIDE DEF new
<1>9. Given(page.attempt, page.answer.epoch, page.answer.grants)
  BY <1>2 DEF CredInv, PageInv
<1>10. Given(vault'.attempt, vault'.epoch, vault'.grants)
  BY <1>7, <1>8, <1>9
<1>11. hub' = hub
  BY DEF Activate
<1>12. VaultInv'
  BY <1>10, <1>11 DEF VaultInv, Given
<1>. QED  BY <1>3, <1>5, <1>6, <1>7, <1>8, <1>12

LEMMA ResettingKeepsVault ==
    ASSUME CredInv, Reset
    PROVE  /\ vault' \in VaultRecord /\ VaultInv'
           /\ page' \in PageRecord /\ PageInv'
           /\ app' \in AppRecord /\ AppInv'
<1>1. page \in PageRecord
  BY DEF CredInv, CredShapes
<1>0. HubGoesOn
  BY HubUnchanged DEF Reset
<1>2. app' \in AppRecord /\ AppInv'
  BY <1>0, PairingChangedKeepsApp DEF Reset
<1>3. /\ page' \in PageRecord /\ page'.state = "idle" /\ page'.op = "none"
      /\ page'.answer = page.answer
  BY <1>1 DEF Reset, PageRecord
<1>4. page.answer = NoAnswer
  BY DEF Reset, CredInv, PageInv
<1>5. vault' = Empty
  BY DEF Reset, Delete
<1>. QED  BY <1>2, <1>3, <1>4, <1>5, NoAnswerIs, EmptyIs DEF VaultInv, PageInv

LEMMA RestartKeepsRecords ==
    ASSUME CredInv, RestartApp
    PROVE  /\ vault' \in VaultRecord /\ VaultInv'
           /\ page' \in PageRecord /\ PageInv'
           /\ app' \in AppRecord /\ AppInv'
<1>1. vault \in VaultRecord
  BY DEF CredInv, CredShapes
<1>0. HubGoesOn
  BY HubUnchanged DEF RestartApp
<1>2. vault' \in VaultRecord /\ VaultInv'
  <2>1. vault' = vault \/ vault' = Empty
    BY DEF RestartApp, Delete
  <2>. QED  BY <1>0, <2>1, VaultStays, EmptyIs DEF VaultInv
<1>3. /\ app' \in AppRecord /\ app'.credential = Empty
      /\ app'.op = "look" /\ app'.answer = NoAnswer
  BY NoAnswerIs, EmptyIs DEF RestartApp, AppRecord, AppState
<1>4. AppInv'
  BY <1>0, <1>3, AppRests
<1>5. PICK st \in {"idle", "human", "active"}, x \in Attempts \cup {NoAttempt} :
        /\ page' = [state |-> st, attempt |-> x, op |-> "none", answer |-> NoAnswer]
        /\ st = "human" => x \in Attempts
  <2>. DEFINE st == CASE vault.at = "active" -> "active"
                      [] vault.at = "pending" /\ vault.hello -> "human"
                      [] OTHER -> "idle"
              x == IF vault.at = "pending" /\ vault.hello THEN vault.attempt ELSE NoAttempt
  <2>1. st \in {"idle", "human", "active"} /\ x \in Attempts \cup {NoAttempt}
    BY <1>1 DEF VaultRecord
  <2>2. st = "human" => x \in Attempts
    BY DEF CredInv, VaultInv
  <2>3. page' = [state |-> st, attempt |-> x, op |-> "none", answer |-> NoAnswer]
    BY DEF RestartApp
  <2>. HIDE DEF st, x
  <2>. QED  BY <2>1, <2>2, <2>3
<1>6. /\ page' \in PageRecord /\ page'.state = st /\ page'.op = "none"
      /\ page'.attempt = x /\ page'.answer = NoAnswer
  BY <1>5, NoAnswerIs DEF PageRecord
<1>7. PageInv'
  BY <1>5, <1>6, NoAnswerIs DEF PageInv
<1>. QED  BY <1>2, <1>3, <1>4, <1>6, <1>7

(* What every step keeps.                                                   *)
Kept == /\ HubGoesOn
        /\ vault' \in VaultRecord /\ VaultInv'
        /\ page' \in PageRecord /\ PageInv'
        /\ app' \in AppRecord /\ AppInv'

LEMMA CredInvInit == CredInit => CredInv
<1>. SUFFICES ASSUME CredInit
              PROVE  CredInv
  OBVIOUS
<1>1. \A a \in Attempts : hub[a] = [at |-> "offered", log |-> <<>>]
  BY DEF CredInit
<1>2. hub \in [Attempts -> HubRecord] /\ LogsInv
  <2>1. [at |-> "offered", log |-> <<>>] \in HubRecord
    BY DEF HubRecord
  <2>. QED  BY <1>1, <2>1, CredentialAssumption DEF CredInit, LogsInv
<1>3. page \in PageRecord /\ PageInv
  BY NoAnswerIs DEF CredInit, PageRecord, PageInv
<1>4. app \in AppRecord /\ AppInv
  BY NoAnswerIs, EmptyIs DEF CredInit, AppRecord, AppState, AppInv
<1>5. vault \in VaultRecord /\ VaultInv
  BY EmptyIs DEF CredInit, VaultInv
<1>. QED  BY <1>2, <1>3, <1>4, <1>5 DEF CredInit, CredInv, CredShapes

LEMMA CredInvStep == CredInv /\ [CredNext]_credVars => CredInv'
<1>. SUFFICES ASSUME CredInv, [CredNext]_credVars
              PROVE  CredInv'
  OBVIOUS
<1>0. address' \in Addresses
  BY DEF CredInv, CredShapes, CredNext, credVars, HubMoves, OperatorConfirms, OperatorCancels,
         OperatorGrants, OperatorRevokes, BeginPairing, Refresh, FindPairedHub, Look, Load, Ask,
         LookForHub, Find, RefreshFails, Persist, Store, Reload, ReloadFails, Scan,
         ScanFails, SendHello, HelloAnswered, RetryAfterStable, PressConfirm, PressRecover, SendConfirm, SendStatus,
         Activate, StillPending, ConfirmAgain, PageFails, Reset, RestartApp
<1>1. ASSUME UNCHANGED credVars \/ HubMoves PROVE Kept
  <2>1. UNCHANGED <<hub, vault, page, app>>
    BY <1>1 DEF credVars, HubMoves
  <2>9. HubGoesOn
    BY <2>1, HubUnchanged
  <2>. QED  BY <2>1, <2>9, VaultStays, PageStays, AppStays DEF Kept
<1>2. ASSUME NEW a \in Attempts,
             \/ OperatorConfirms(a) \/ OperatorCancels(a) \/ OperatorGrants(a)
             \/ OperatorRevokes(a)
      PROVE  Kept
  <2>1. UNCHANGED <<vault, page, app>>
    BY <1>2 DEF OperatorConfirms, OperatorCancels, OperatorGrants, OperatorRevokes
  <2>9. HubGoesOn
    BY <1>2, OperatorGoesOn
  <2>. QED  BY <2>1, <2>9, VaultStays, PageStays, AppStays DEF Kept
<1>3. ASSUME NEW a \in Attempts, BeginPairing(a)
      PROVE  Kept
  <2>1. UNCHANGED <<hub, app>>
    BY <1>3 DEF BeginPairing
  <2>9. HubGoesOn
    BY <2>1, HubUnchanged
  <2>. QED  BY <1>3, <2>1, <2>9, PairingBegins, AppStays DEF Kept
<1>4. ASSUME Refresh \/ FindPairedHub \/ Look \/ Load \/ Ask PROVE Kept
  <2>1. UNCHANGED <<hub, vault, page>>
    BY <1>4 DEF Refresh, FindPairedHub, Look, Load, Ask
  <2>9. HubGoesOn
    BY <2>1, HubUnchanged
  <2>. QED  BY <1>4, <2>1, <2>9, AppAsks, VaultStays, PageStays DEF Kept
<1>5. ASSUME LookForHub \/ Find \/ RefreshFails \/ Scan \/ ScanFails PROVE Kept
  <2>1. UNCHANGED <<hub, vault, page>>
    BY <1>5 DEF LookForHub, Find, RefreshFails, Scan, ScanFails
  <2>9. HubGoesOn
    BY <2>1, HubUnchanged
  <2>. QED  BY <1>5, <2>1, <2>9, AppSearches, VaultStays, PageStays DEF Kept
<1>6. ASSUME Persist \/ Store PROVE Kept
  <2>1. UNCHANGED <<hub, page>>
    BY <1>6 DEF Persist, Store
  <2>9. HubGoesOn
    BY <2>1, HubUnchanged
  <2>. QED  BY <1>6, <2>1, <2>9, StoringKeepsVault, PageStays DEF Kept
<1>7. ASSUME SendHello \/ SendConfirm \/ SendStatus PROVE Kept
  <2>1. UNCHANGED <<vault, app>>
    BY <1>7 DEF SendHello, SendConfirm, SendStatus
  <2>2. HubGoesOn /\ page' \in PageRecord /\ PageInv'
    BY <1>7, PageAsks
  <2>. QED  BY <2>1, <2>2, VaultStays, AppStays DEF Kept
<1>8. ASSUME RetryAfterStable \/ PressConfirm \/ PressRecover \/ ConfirmAgain \/ PageFails PROVE Kept
  <2>1. UNCHANGED <<hub, vault, app>>
    BY <1>8 DEF RetryAfterStable, PressConfirm, PressRecover, ConfirmAgain, PageFails
  <2>9. HubGoesOn
    BY <2>1, HubUnchanged
  <2>. QED  BY <1>8, <2>1, <2>9, PressingKeepsPage, VaultStays, AppStays DEF Kept
<1>9. ASSUME StillPending PROVE Kept
  <2>1. UNCHANGED <<hub, vault>> /\ (PairingChanged \/ UNCHANGED app)
    BY <1>9 DEF StillPending
  <2>2. HubGoesOn
    BY <2>1, HubUnchanged
  <2>3. app' \in AppRecord /\ AppInv'
    BY <2>1, <2>2, PairingChangedKeepsApp, AppStays
  <2>. QED  BY <1>9, <2>1, <2>2, <2>3, PressingKeepsPage, VaultStays DEF Kept
<1>10. ASSUME HelloAnswered PROVE Kept
  <2>1. UNCHANGED <<hub, app>>
    BY <1>10 DEF HelloAnswered
  <2>9. HubGoesOn
    BY <2>1, HubUnchanged
  <2>. QED  BY <1>10, <2>1, <2>9, HelloKeepsPage, AppStays DEF Kept
<1>11. ASSUME Activate \/ Reset \/ RestartApp PROVE Kept
  <2>1. HubGoesOn
    BY <1>11, HubUnchanged DEF Activate, Reset, RestartApp
  <2>. QED  BY <1>11, <2>1, ActivatingKeepsVault, ResettingKeepsVault, RestartKeepsRecords DEF Kept
<1>12. ASSUME Reload \/ ReloadFails PROVE Kept
  <2>1. UNCHANGED <<hub, vault, page>>
    BY <1>12 DEF Reload, ReloadFails
  <2>9. HubGoesOn
    BY <2>1, HubUnchanged
  <2>. QED  BY <1>12, <2>1, <2>9, ReloadingKeepsApp, VaultStays, PageStays DEF Kept
<1>13. Kept
  BY <1>1, <1>2, <1>3, <1>4, <1>5, <1>6, <1>7, <1>8, <1>9, <1>10, <1>11, <1>12 DEF CredNext
<1>. QED  BY <1>0, <1>13 DEF Kept, CredInv, CredShapes, HubGoesOn

THEOREM CredentialInvariant == CredSpec => []CredInv
<1>. QED  BY CredInvInit, CredInvStep, PTL DEF CredSpec

(* DeviceCredential's types, and the Hub's records of what it granted.      *)
THEOREM CredentialTypes == CredSpec => []CredTypeOK
<1>1. CredInv => CredTypeOK
  BY DEF CredInv, CredShapes, LogsInv, HubRecord, VaultRecord, PageRecord, AppRecord, AppState,
         CredTypeOK
<1>. QED  BY <1>1, CredentialInvariant, PTL

(* SecurePairingExecutor and StewardAppCoordinator: the vault and the       *)
(* coordinator hold the epoch and the grants that the Hub gave to that very *)
(* device, however the two objects' requests, resets, new pairings, lost and*)
(* late answers interleave.                                                 *)
THEOREM CredentialsAreOwn == CredSpec => []HoldsOwnGrants
<1>1. CredInv => HoldsOwnGrants
  BY DEF CredInv, VaultInv, AppInv, Given, HoldsOwnGrants, GivenByHub
<1>. QED  BY <1>1, CredentialInvariant, PTL

-----------------------------------------------------------------------------
(* TlsIdentity.                                                             *)

(* What is published or staged stands in the hub directory.                 *)
HubInv == Published \/ Transients # {} => folder["hub"] # "absent"

UsedInv == used => Published /\ ~identity.marker

(* A run that was not hit holds its staging directory between making and    *)
(* publishing it, and afterwards only if it was killed there.               *)
StagingInv ==
    \A r \in Runs :
        /\ run[r].at = "idle" => ~run[r].hit
        /\ run[r].at \in {"own", "fill"} => dir[r] # "none"
        /\ run[r].at = "publish" => dir[r] = "complete"
        /\ dir[r] # "none" /\ ~run[r].hit =>
             \/ run[r].at \in {"own", "fill", "publish", "dead"}
             \/ run[r].kind = "rotate" /\ run[r].at = "done"

(* What a run knows of the identity at the places behind the rename.        *)
OutcomeInv ==
    \A r \in Runs :
        /\ run[r].won => Published /\ identity.id = r
        /\ run[r].at \in {"wait", "verify", "unmark", "unlink", "load"} => Published
        /\ run[r].kind # "rotate" /\ run[r].at \in {"audit", "done"} =>
             /\ Published /\ run[r].result = identity.id /\ ~identity.marker
             /\ run[r].created => identity.id = r

BareInv ==
    \A l \in Levels : folder[l] = "bare" =>
        \E r \in Runs : \/ run[r].at = "guard" /\ run[r].level = l
                        \/ run[r].at = "dead" \/ run[r].hit

(* A run that is alone on an intact disk finds at each place what it needs  *)
(* there; the only thing it raises for is the database of a Hub, and then   *)
(* there is an identity to load.                                            *)
AllIsWell(r) ==
    /\ ~run[r].hit /\ ~run[r].waiting
    /\ identity.sound
    /\ \A q \in Runs \ {r} : run[q].at \in RunEnded /\ dir[q] = "none"
    /\ \A l \in Levels : folder[l] = "bare" => run[r].at = "guard" /\ run[r].level = l
    /\ run[r].level = "hub" => folder["product"] = "protected"
    /\ run[r].at \notin {"see", "make", "guard"} =>
         run[r].level = "hub" /\ folder["hub"] = "protected"
    /\ run[r].at = "make" => folder[run[r].level] = "absent"
    /\ run[r].at \in {"stage", "own", "fill", "publish"} => ~Published
    /\ run[r].at \in {"verify", "unmark", "unlink"} => identity.marker
    /\ run[r].at \in {"load", "audit"} => ~identity.marker
    /\ run[r].at \in {"raised", "handle"} => Published
    /\ run[r].at \in {"see", "make", "guard", "raised", "handle"} => ~run[r].retried
    /\ run[r].at \notin {"wait", "failed", "rollHub", "rollProduct"}

LoneInv ==
    \A r \in Runs : run[r].kind = "permanent" /\ run[r].alone /\ run[r].at # "dead" => AllIsWell(r)

TlsInv == /\ TlsTypeOK /\ HubInv /\ UsedInv /\ StagingInv /\ OutcomeInv /\ BareInv
          /\ LoneInv
------------------------------------------------------------------------------
(* A step of one run leaves the others alone.                               *)
OfRun(r) == Directories(r) \/ Preparing(r) \/ Finishing(r) \/ Fault(r) \/ Die(r)

LEMMA RecordsHold ==
    ASSUME NEW x \in RunRecord, NEW p \in Places
    PROVE  /\ [x EXCEPT !.at = p] \in RunRecord
           /\ \A w \in BOOLEAN : [x EXCEPT !.at = p, !.waiting = w] \in RunRecord
  BY DEF RunRecord

(* A run that only changes where it is, and where it goes.                  *)
KeepsRest(r) ==
    /\ run' \in [Runs -> RunRecord]
    /\ \A q \in Runs \ {r} : run'[q] = run[q]
    /\ run'[r].kind = run[r].kind /\ run'[r].hit = run[r].hit
    /\ run'[r].alone = run[r].alone /\ run'[r].retried = run[r].retried
    /\ run'[r].won = run[r].won /\ run'[r].result = run[r].result
    /\ run'[r].created = run[r].created /\ run'[r].level = run[r].level
    /\ run'[r].made = run[r].made

StepsTo(r, p) == KeepsRest(r) /\ run'[r].at = p

LEMMA GoesOnSteps ==
    ASSUME TlsTypeOK, NEW r \in Runs, NEW p \in Places, GoesOn(r, p)
    PROVE  StepsTo(r, p) /\ run'[r].waiting = run[r].waiting
<1>1. run[r] \in RunRecord
  BY DEF TlsTypeOK
<1>2. run' = [run EXCEPT ![r] = [run[r] EXCEPT !.at = p]]
  BY DEF GoesOn
<1>3. run' \in [Runs -> RunRecord]
  BY <1>1, <1>2, RecordsHold DEF TlsTypeOK
<1>4. run'[r] = [run[r] EXCEPT !.at = p] /\ \A q \in Runs \ {r} : run'[q] = run[q]
  BY <1>2 DEF TlsTypeOK
<1>. QED  BY <1>1, <1>3, <1>4 DEF StepsTo, KeepsRest, RunRecord

LEMMA RaisesSteps ==
    ASSUME TlsTypeOK, NEW r \in Runs, Raises(r)
    PROVE  StepsTo(r, "raised") /\ ~run'[r].waiting
<1>1. "raised" \in Places
  BY DEF Places
<1>2. run[r] \in RunRecord
  BY DEF TlsTypeOK
<1>3. run' = [run EXCEPT ![r] = [run[r] EXCEPT !.at = "raised", !.waiting = FALSE]]
  BY DEF Raises
<1>4. run' \in [Runs -> RunRecord]
  BY <1>1, <1>2, <1>3, RecordsHold DEF TlsTypeOK
<1>5. /\ run'[r] = [run[r] EXCEPT !.at = "raised", !.waiting = FALSE]
      /\ \A q \in Runs \ {r} : run'[q] = run[q]
  BY <1>3 DEF TlsTypeOK
<1>. QED  BY <1>2, <1>4, <1>5 DEF StepsTo, KeepsRest, RunRecord

LEMMA RaisesSoftlySteps ==
    ASSUME TlsTypeOK, NEW r \in Runs, RaisesSoftly(r)
    PROVE  \/ StepsTo(r, "wait") /\ run[r].waiting
           \/ StepsTo(r, "raised") /\ ~run'[r].waiting
<1>1. "wait" \in Places
  BY DEF Places
<1>. QED  BY <1>1, GoesOnSteps, RaisesSteps DEF RaisesSoftly

(* What every step of a run has in common.                                  *)
Lands(r) ==
    /\ run' \in [Runs -> RunRecord]
    /\ \A q \in Runs \ {r} : run'[q] = run[q]
    /\ run'[r].at # "idle" /\ run'[r].kind = run[r].kind
    /\ run[r].hit => run'[r].hit
    /\ run'[r].alone => run[r].alone

LEMMA EntersLands ==
    ASSUME TlsTypeOK, NEW r \in Runs, NEW m \in BOOLEAN, Enters(r, m)
    PROVE  /\ Lands(r) /\ run'[r].retried = run[r].retried /\ run'[r].hit = run[r].hit
           /\ run'[r].waiting => run[r].waiting
           /\ \/ run[r].level = "product" /\ run'[r].level = "hub" /\ run'[r].at = "see"
              \/ /\ run[r].level = "hub" /\ run'[r].level = "hub"
                 /\ \/ run'[r].at = "look" /\ (m \/ ~(used \/ Transients # {}))
                    \/ run'[r].at = "raised" /\ ~m /\ (used \/ Transients # {})
           /\ run'[r].won = run[r].won
<1>1. run[r] \in RunRecord /\ run \in [Runs -> RunRecord]
  BY DEF TlsTypeOK
<1>2. CASE run[r].level = "product"
  <2>1. PICK s : s = [run[r] EXCEPT !.level = "hub", !.at = "see",
                                    !.made = IF m THEN {"product"} ELSE {}]
    OBVIOUS
  <2>2. s \in RunRecord /\ s.at = "see" /\ s.level = "hub" /\ s.kind = run[r].kind
        /\ s.hit = run[r].hit /\ s.alone = run[r].alone /\ s.retried = run[r].retried
        /\ s.waiting = run[r].waiting /\ s.won = run[r].won
    BY <1>1, <2>1 DEF RunRecord, Places, Levels
  <2>3. run' = [run EXCEPT ![r] = s]
    BY <1>1, <1>2, <2>1 DEF Enters
  <2>. QED  BY <1>1, <1>2, <2>2, <2>3 DEF Lands
<1>3. CASE run[r].level = "hub" /\ m
  <2>1. PICK s : s = [run[r] EXCEPT !.at = "look", !.made = @ \cup {"hub"}]
    OBVIOUS
  <2>2. s \in RunRecord /\ s.at = "look" /\ s.level = "hub" /\ s.kind = run[r].kind
        /\ s.hit = run[r].hit /\ s.alone = run[r].alone /\ s.retried = run[r].retried
        /\ s.waiting = run[r].waiting /\ s.won = run[r].won
    BY <1>1, <1>3, <2>1 DEF RunRecord, Places, Levels
  <2>3. run' = [run EXCEPT ![r] = s]
    BY <1>1, <1>3, <2>1 DEF Enters
  <2>. QED  BY <1>1, <1>3, <2>2, <2>3 DEF Lands
<1>4. CASE run[r].level = "hub" /\ ~m
  <2>1. CASE used \/ Transients # {}
    <3>1. Raises(r)
      BY <1>4, <2>1 DEF Enters
    <3>. QED  BY <1>4, <2>1, <3>1, RaisesSteps DEF StepsTo, KeepsRest, Lands
  <2>2. CASE ~(used \/ Transients # {})
    <3>1. GoesOn(r, "look") /\ "look" \in Places
      BY <1>4, <2>2 DEF Enters, Places
    <3>. QED  BY <1>4, <2>2, <3>1, GoesOnSteps DEF StepsTo, KeepsRest, Lands
  <2>. QED  BY <2>1, <2>2
<1>5. run[r].level \in {"product", "hub"}
  BY <1>1 DEF RunRecord, Levels
<1>. QED  BY <1>2, <1>3, <1>4, <1>5

(* The steps that change more of the run than where it is.                  *)
LEMMA PublishLands ==
    ASSUME TlsTypeOK, NEW r \in Runs, Publish(r)
    PROVE  /\ Lands(r) /\ run'[r].hit = run[r].hit /\ run'[r].retried = run[r].retried
           /\ run'[r].level = run[r].level
           /\ Published => run'[r].at = "wait" /\ run'[r].won = run[r].won /\ identity' = identity
           /\ ~Published => /\ run'[r].at = "verify" /\ run'[r].won
                            /\ run'[r].waiting = run[r].waiting
                            /\ identity' = [id |-> r, marker |-> TRUE, sound |-> dir[r] = "complete"]
<1>1. run[r] \in RunRecord /\ run \in [Runs -> RunRecord]
  BY DEF TlsTypeOK
<1>2. CASE Published
  <2>1. PICK s : s = [run[r] EXCEPT !.at = "wait", !.waiting = TRUE]
    OBVIOUS
  <2>2. s \in RunRecord /\ s.at = "wait" /\ s.level = run[r].level /\ s.kind = run[r].kind
        /\ s.hit = run[r].hit /\ s.alone = run[r].alone /\ s.retried = run[r].retried
        /\ s.won = run[r].won
    BY <1>1, <2>1 DEF RunRecord, Places
  <2>3. run' = [run EXCEPT ![r] = s] /\ identity' = identity
    BY <1>1, <1>2, <2>1 DEF Publish
  <2>. QED  BY <1>1, <1>2, <2>2, <2>3 DEF Lands
<1>3. CASE ~Published
  <2>1. PICK s : s = [run[r] EXCEPT !.at = "verify", !.won = TRUE]
    OBVIOUS
  <2>2. s \in RunRecord /\ s.at = "verify" /\ s.level = run[r].level /\ s.kind = run[r].kind
        /\ s.hit = run[r].hit /\ s.alone = run[r].alone /\ s.retried = run[r].retried
        /\ s.waiting = run[r].waiting /\ s.won
    BY <1>1, <2>1 DEF RunRecord, Places
  <2>3. /\ run' = [run EXCEPT ![r] = s]
        /\ identity' = [id |-> r, marker |-> TRUE, sound |-> dir[r] = "complete"]
    BY <1>1, <1>3, <2>1 DEF Publish
  <2>. QED  BY <1>1, <1>3, <2>2, <2>3 DEF Lands
<1>. QED  BY <1>2, <1>3

LEMMA VerifyLands ==
    ASSUME TlsTypeOK, NEW r \in Runs, Verify(r)
    PROVE  /\ Lands(r) /\ run'[r].hit = run[r].hit /\ run'[r].retried = run[r].retried
           /\ run'[r].level = run[r].level /\ run'[r].won = run[r].won
           /\ run'[r].waiting => run[r].waiting
           /\ run'[r].at \in {"wait", "raised", "unmark"}
           /\ identity.marker /\ identity.sound => run'[r].at = "unmark"
           /\ run'[r].at = "wait" => run[r].waiting
           /\ run'[r].at = "unmark" => identity.marker
<1>1. run[r] \in RunRecord /\ run \in [Runs -> RunRecord]
  BY DEF TlsTypeOK
<1>2. CASE ~identity.marker
  BY <1>2, RaisesSoftlySteps DEF Verify, StepsTo, KeepsRest, Lands, RaisesSoftly, GoesOn
<1>3. CASE identity.marker /\ ~identity.sound
  BY <1>3, RaisesSteps DEF Verify, StepsTo, KeepsRest, Lands
<1>4. CASE identity.marker /\ identity.sound
  <2>1. PICK s : s = [run[r] EXCEPT !.at = "unmark", !.waiting = FALSE]
    OBVIOUS
  <2>2. s \in RunRecord /\ s.at = "unmark" /\ s.level = run[r].level /\ s.kind = run[r].kind
        /\ s.hit = run[r].hit /\ s.alone = run[r].alone /\ s.retried = run[r].retried
        /\ ~s.waiting /\ s.won = run[r].won
    BY <1>1, <2>1 DEF RunRecord, Places
  <2>3. run' = [run EXCEPT ![r] = s]
    BY <1>1, <1>4, <2>1 DEF Verify
  <2>. QED  BY <1>1, <1>4, <2>2, <2>3 DEF Lands
<1>. QED  BY <1>2, <1>3, <1>4

LEMMA LoadLands ==
    ASSUME TlsTypeOK, NEW r \in Runs, LoadStrictly(r)
    PROVE  /\ Lands(r) /\ run'[r].hit = run[r].hit /\ run'[r].retried = run[r].retried
           /\ run'[r].level = run[r].level /\ run'[r].won = run[r].won
           /\ run'[r].waiting => run[r].waiting
           /\ run'[r].at \in {"wait", "raised", "audit", "done"}
           /\ ~identity.marker /\ identity.sound => run'[r].at \in {"audit", "done"}
           /\ run'[r].at = "wait" => run[r].waiting
           /\ run'[r].at \in {"audit", "done"} =>
                /\ ~identity.marker /\ identity.sound
                /\ run'[r].at = "audit" <=> run[r].kind = "permanent"
                /\ run'[r].result = identity.id /\ run'[r].created = run[r].won
<1>1. run[r] \in RunRecord /\ run \in [Runs -> RunRecord] /\ identity.id \in Runs \cup {NoId}
  BY DEF TlsTypeOK
<1>2. CASE identity.marker \/ ~identity.sound
  BY <1>2, RaisesSoftlySteps DEF LoadStrictly, StepsTo, KeepsRest, Lands, RaisesSoftly, GoesOn
<1>3. CASE ~identity.marker /\ identity.sound
  <2>0. PICK p : p = IF run[r].kind = "permanent" THEN "audit" ELSE "done"
    OBVIOUS
  <2>4. p \in Places /\ run[r].won \in BOOLEAN
    BY <1>1, <2>0 DEF Places, RunEnded, RunRecord
  <2>1. PICK s : s = [run[r] EXCEPT !.at = p, !.result = identity.id,
                                    !.created = run[r].won, !.waiting = FALSE]
    OBVIOUS
  <2>2. s \in RunRecord /\ s.at = p /\ s.level = run[r].level /\ s.kind = run[r].kind
        /\ s.hit = run[r].hit /\ s.alone = run[r].alone /\ s.retried = run[r].retried
        /\ ~s.waiting /\ s.won = run[r].won /\ s.result = identity.id /\ s.created = run[r].won
    BY <1>1, <2>1, <2>4 DEF RunRecord
  <2>3. run' = [run EXCEPT ![r] = s]
    BY <1>1, <1>3, <2>0, <2>1 DEF LoadStrictly
  <2>. QED  BY <1>1, <1>3, <2>0, <2>2, <2>3 DEF Lands
<1>. QED  BY <1>2, <1>3

LEMMA HandleLands ==
    ASSUME TlsTypeOK, NEW r \in Runs, Handle(r)
    PROVE  /\ Lands(r) /\ run'[r].hit = run[r].hit /\ run'[r].level = run[r].level
           /\ run'[r].waiting = run[r].waiting
           /\ run'[r].won => run[r].won
           /\ \/ run'[r].at = "rollHub" /\ ~Published
              \/ run'[r].at = "failed" /\ Published /\ run[r].retried
              \/ run'[r].at = "look" /\ Published /\ ~run[r].retried
<1>1. run[r] \in RunRecord /\ run \in [Runs -> RunRecord]
  BY DEF TlsTypeOK
<1>2. CASE ~Published
  <2>1. GoesOn(r, "rollHub") /\ "rollHub" \in Places
    BY <1>2 DEF Handle, Places
  <2>. QED  BY <1>2, <2>1, GoesOnSteps DEF StepsTo, KeepsRest, Lands
<1>3. CASE Published /\ run[r].retried
  <2>1. GoesOn(r, "failed") /\ "failed" \in Places
    BY <1>3 DEF Handle, Places, RunEnded
  <2>. QED  BY <1>3, <2>1, GoesOnSteps DEF StepsTo, KeepsRest, Lands
<1>4. CASE Published /\ ~run[r].retried
  <2>1. PICK s : s = [run[r] EXCEPT !.at = "look", !.retried = TRUE, !.won = FALSE]
    OBVIOUS
  <2>2. s \in RunRecord /\ s.at = "look" /\ s.level = run[r].level /\ s.kind = run[r].kind
        /\ s.hit = run[r].hit /\ s.alone = run[r].alone /\ s.waiting = run[r].waiting /\ ~s.won
    BY <1>1, <2>1 DEF RunRecord, Places
  <2>3. run' = [run EXCEPT ![r] = s]
    BY <1>1, <1>4, <2>1 DEF Handle
  <2>. QED  BY <1>1, <1>4, <2>2, <2>3 DEF Lands
<1>. QED  BY <1>2, <1>3, <1>4

LEMMA FaultLands ==
    ASSUME TlsTypeOK, NEW r \in Runs, Fault(r)
    PROVE  /\ Lands(r) /\ run'[r].hit /\ ~run'[r].alone /\ run'[r].won = run[r].won
           /\ run'[r].at \in {"raised", "handle", "failed", "rollProduct"}
<1>1. run[r] \in RunRecord /\ run \in [Runs -> RunRecord]
  BY DEF TlsTypeOK
<1>2. AfterFault(r) \in {"raised", "handle", "failed", "rollProduct"}
  BY DEF AfterFault, Cleaned
<1>3. PICK s : s = [run[r] EXCEPT !.at = AfterFault(r), !.waiting = FALSE, !.hit = TRUE,
                                  !.alone = FALSE]
  OBVIOUS
<1>4. s \in RunRecord /\ s.at = AfterFault(r) /\ s.kind = run[r].kind /\ s.hit /\ ~s.alone
      /\ s.won = run[r].won
  BY <1>1, <1>2, <1>3 DEF RunRecord, Places, RunEnded
<1>5. run' = [run EXCEPT ![r] = s]
  BY <1>1, <1>3 DEF Fault
<1>. QED  BY <1>1, <1>2, <1>4, <1>5 DEF Lands

(* The steps that only change where the run is.                             *)
Moves(r) == Make(r) \/ LookForFinal(r) \/ Stage(r) \/ Own(r) \/ Fill(r) \/ Wait(r) \/ TimeOut(r)
            \/ Unmark(r) \/ Unlink(r) \/ Audit(r) \/ CleanUp(r) \/ RollHub(r) \/ RollProduct(r)
            \/ Die(r)

MovesOn(r) ==
    /\ KeepsRest(r)
    /\ run'[r].waiting => run[r].waiting
    /\ run'[r].at \in Places \ {"idle", "see", "wait", "audit"}
    /\ run'[r].at = "publish" => Fill(r)
    /\ run'[r].at = "own" => Stage(r) /\ dir' = [dir EXCEPT ![r] = "bare"]
    /\ run'[r].at = "fill" => Own(r)
    /\ run'[r].at = "done" =>
         (Audit(r) /\ TreeIsRight) \/ (Fill(r) /\ run[r].kind = "rotate")
    /\ run'[r].at = "guard" => Make(r) /\ folder' = [folder EXCEPT ![run[r].level] = "bare"]
    /\ run'[r].at \in {"verify", "unmark", "unlink", "load"} =>
         (LookForFinal(r) /\ Published) \/ Wait(r) \/ Unmark(r) \/ Unlink(r)

LEMMA MovesStep == ASSUME TlsTypeOK, NEW r \in Runs, Moves(r) PROVE MovesOn(r)
<1>1. {"guard", "raised", "stage", "verify", "load", "own", "fill", "done", "publish", "unlink",
       "handle", "failed", "rollProduct", "dead"} \subseteq Places
  BY DEF Places, RunEnded
<1>2. CASE Make(r)
  <2>1. \/ GoesOn(r, "guard") /\ folder' = [folder EXCEPT ![run[r].level] = "bare"]
        \/ Raises(r)
    BY <1>2 DEF Make
  <2>. QED  BY <1>1, <1>2, <2>1, GoesOnSteps, RaisesSteps DEF MovesOn, StepsTo
<1>3. CASE LookForFinal(r)
  <2>1. \/ Raises(r) \/ GoesOn(r, "stage")
        \/ Published /\ (GoesOn(r, "verify") \/ GoesOn(r, "load"))
    BY <1>3 DEF LookForFinal
  <2>. QED  BY <1>1, <1>3, <2>1, GoesOnSteps, RaisesSteps DEF MovesOn, StepsTo
<1>4. CASE Stage(r)
  <2>1. \/ Raises(r)
        \/ GoesOn(r, "own") /\ dir' = [dir EXCEPT ![r] = "bare"]
    BY <1>4 DEF Stage
  <2>. QED  BY <1>1, <1>4, <2>1, GoesOnSteps, RaisesSteps DEF MovesOn, StepsTo
<1>5. CASE Own(r)
  BY <1>1, <1>5, GoesOnSteps DEF Own, MovesOn, StepsTo
<1>6. CASE Fill(r)
  <2>1. \/ GoesOn(r, "publish")
        \/ GoesOn(r, "done") /\ run[r].kind = "rotate"
    BY <1>6 DEF Fill
  <2>. QED  BY <1>1, <1>6, <2>1, GoesOnSteps DEF MovesOn, StepsTo
<1>7. CASE Wait(r) \/ Unmark(r)
  <2>1. \/ GoesOn(r, "verify") /\ Wait(r)
        \/ GoesOn(r, "load")
        \/ GoesOn(r, "unlink") /\ Unmark(r)
    BY <1>7 DEF Wait, Unmark
  <2>. QED  BY <1>1, <1>7, <2>1, GoesOnSteps DEF MovesOn, StepsTo
<1>8. CASE TimeOut(r)
  BY <1>1, <1>8, RaisesSteps DEF TimeOut, MovesOn, StepsTo
<1>9. CASE Unlink(r)
  <2>1. GoesOn(r, "load") \/ Raises(r)
    BY <1>9 DEF Unlink
  <2>. QED  BY <1>1, <1>9, <2>1, GoesOnSteps, RaisesSteps DEF MovesOn, StepsTo
<1>10. CASE Audit(r)
  <2>1. Raises(r) \/ (GoesOn(r, "done") /\ TreeIsRight)
    BY <1>10 DEF Audit
  <2>. QED  BY <1>1, <1>10, <2>1, GoesOnSteps, RaisesSteps DEF MovesOn, StepsTo
<1>11. CASE CleanUp(r)
  <2>1. GoesOn(r, "handle") \/ GoesOn(r, "failed")
    BY <1>11 DEF CleanUp, Cleaned
  <2>. QED  BY <1>1, <1>11, <2>1, GoesOnSteps DEF MovesOn, StepsTo
<1>12. CASE RollHub(r)
  BY <1>1, <1>12, GoesOnSteps DEF RollHub, MovesOn, StepsTo
<1>13. CASE RollProduct(r)
  BY <1>1, <1>13, GoesOnSteps DEF RollProduct, MovesOn, StepsTo
<1>14. CASE Die(r)
  BY <1>1, <1>14, GoesOnSteps DEF Die, MovesOn, StepsTo
<1>. QED
  BY <1>2, <1>3, <1>4, <1>5, <1>6, <1>7, <1>8, <1>9, <1>10, <1>11, <1>12, <1>13, <1>14 DEF Moves

LEMMA SeeLands ==
    ASSUME TlsTypeOK, NEW r \in Runs, See(r)
    PROVE  /\ Lands(r) /\ run'[r].retried = run[r].retried /\ run'[r].hit = run[r].hit
           /\ run'[r].waiting => run[r].waiting
           /\ run'[r].won = run[r].won
           /\ \/ StepsTo(r, "make") /\ folder[run[r].level] = "absent"
              \/ StepsTo(r, "raised") /\ folder[run[r].level] = "bare"
              \/ Enters(r, FALSE) /\ folder[run[r].level] = "protected"
<1>1. CASE folder[run[r].level] = "absent" /\ GoesOn(r, "make")
  <2>1. "make" \in Places
    BY DEF Places
  <2>. QED  BY <1>1, <2>1, GoesOnSteps DEF StepsTo, KeepsRest, Lands
<1>2. CASE folder[run[r].level] = "bare" /\ Raises(r)
  BY <1>2, RaisesSteps DEF StepsTo, KeepsRest, Lands
<1>3. CASE folder[run[r].level] = "protected" /\ Enters(r, FALSE)
  BY <1>3, EntersLands
<1>. QED  BY <1>1, <1>2, <1>3 DEF See

LEMMA OfRunSplits ==
    ASSUME NEW r, OfRun(r)
    PROVE  \/ See(r) \/ Guard(r) \/ Moves(r) \/ Publish(r) \/ Verify(r) \/ LoadStrictly(r)
           \/ Handle(r) \/ Fault(r) \/ Discard(r)
  BY DEF OfRun, Directories, Preparing, Finishing, Moves

LEMMA RunsLand ==
    ASSUME TlsTypeOK, NEW r \in Runs, OfRun(r)
    PROVE  /\ run' \in [Runs -> RunRecord]
           /\ \A q \in Runs \ {r} : run'[q] = run[q] /\ dir'[q] = dir[q]
           /\ run[r].at \notin {"idle", "failed", "dead"} /\ run'[r].at # "idle"
           /\ run'[r].kind = run[r].kind
           /\ run[r].hit => run'[r].hit
           /\ run'[r].alone => run[r].alone
           /\ dir' \in [Runs -> {"none", "bare", "owned", "complete"}]
           /\ used' = used
<1>1. /\ run[r].at \notin {"idle", "failed", "dead"} /\ used' = used
  BY OfRunSplits
  DEF See, Guard, Moves, Publish, Verify, LoadStrictly, Handle, Fault, Discard, Make, LookForFinal,
      Stage, Own, Fill, Wait, TimeOut, Unmark, Unlink, Audit, CleanUp, RollHub, RollProduct, Die,
      InProgress, RunEnded
<1>2. \/ dir' = dir
      \/ \E d \in {"none", "bare", "owned", "complete"} : dir' = [dir EXCEPT ![r] = d]
  BY OfRunSplits
  DEF See, Guard, Moves, Publish, Verify, LoadStrictly, Handle, Fault, Discard, Make, LookForFinal,
      Stage, Own, Fill, Wait, TimeOut, Unmark, Unlink, Audit, CleanUp, RollHub, RollProduct, Die,
      TlsTypeOK
<1>3. /\ dir' \in [Runs -> {"none", "bare", "owned", "complete"}]
      /\ \A q \in Runs \ {r} : dir'[q] = dir[q]
  BY <1>2 DEF TlsTypeOK
<1>4. CASE ~Discard(r)
  <2>1. Lands(r)
    <3>1. Guard(r) => Lands(r)
      BY EntersLands DEF Guard
    <3>2. Moves(r) => Lands(r)
      BY MovesStep DEF MovesOn, KeepsRest, Lands
    <3>3. See(r) \/ Publish(r) \/ Verify(r) \/ LoadStrictly(r) \/ Handle(r) \/ Fault(r) => Lands(r)
      BY SeeLands, PublishLands, VerifyLands, LoadLands, HandleLands, FaultLands
    <3>. QED  BY <1>4, <3>1, <3>2, <3>3, OfRunSplits
  <2>. QED  BY <1>1, <1>3, <2>1 DEF Lands
<1>5. CASE Discard(r)
  BY <1>1, <1>3, <1>5 DEF Discard, TlsTypeOK
<1>. QED  BY <1>4, <1>5

LEMMA BeginLands ==
    ASSUME TlsTypeOK, NEW r \in Runs, NEW k \in Kinds, Begin(r, k)
    PROVE  /\ run' \in [Runs -> RunRecord]
           /\ \A q \in Runs \ {r} :
                /\ ~run'[q].alone /\ run'[q].at = run[q].at /\ run'[q].kind = run[q].kind
                /\ run'[q].level = run[q].level /\ run'[q].won = run[q].won
                /\ run'[q].result = run[q].result /\ run'[q].created = run[q].created
                /\ run'[q].hit = run[q].hit
           /\ run[r].at = "idle"
           /\ run'[r].kind = k /\ run'[r].at \in {"see", "look"}
           /\ run'[r].at = "see" <=> k = "permanent"
           /\ run'[r].level = "product" /\ ~run'[r].won /\ ~run'[r].hit
           /\ ~run'[r].waiting /\ ~run'[r].retried
           /\ run'[r].alone <=> CleanDisk
<1>1. run \in [Runs -> RunRecord]
  BY DEF TlsTypeOK
<1>2. PICK s : s = [NotBegun EXCEPT !.kind = k, !.alone = CleanDisk,
                                    !.at = IF k = "permanent" THEN "see" ELSE "look"]
  OBVIOUS
<1>3. CleanDisk \in BOOLEAN
  BY DEF CleanDisk
<1>4. /\ s.kind = k /\ s.at = (IF k = "permanent" THEN "see" ELSE "look")
      /\ s.level = "product" /\ ~s.won /\ ~s.hit /\ ~s.waiting /\ ~s.retried
      /\ s.alone = CleanDisk
  BY <1>2 DEF NotBegun
<1>5. s \in RunRecord
  <2>1. s = [kind |-> k, at |-> IF k = "permanent" THEN "see" ELSE "look", level |-> "product",
             made |-> {}, won |-> FALSE, waiting |-> FALSE, retried |-> FALSE,
             result |-> NoId, created |-> FALSE, hit |-> FALSE, alone |-> CleanDisk]
    BY <1>2 DEF NotBegun
  <2>2. (IF k = "permanent" THEN "see" ELSE "look") \in Places
    BY DEF Places
  <2>. QED  BY <1>3, <2>1, <2>2 DEF RunRecord, Levels
<1>6. /\ run[r].at = "idle"
      /\ run' = [q \in Runs |-> IF q = r THEN s ELSE [run[q] EXCEPT !.alone = FALSE]]
  BY <1>2 DEF Begin
<1>7. ASSUME NEW x \in RunRecord, NEW y, y = [x EXCEPT !.alone = FALSE]
      PROVE  /\ y \in RunRecord /\ ~y.alone /\ y.at = x.at /\ y.kind = x.kind
             /\ y.level = x.level /\ y.won = x.won /\ y.result = x.result
             /\ y.created = x.created /\ y.hit = x.hit
  BY <1>7 DEF RunRecord
<1>8. run' \in [Runs -> RunRecord]
  BY <1>1, <1>5, <1>6, <1>7
<1>9. \A q \in Runs \ {r} : run'[q] = [run[q] EXCEPT !.alone = FALSE]
  BY <1>6
<1>10. \A q \in Runs \ {r} :
          /\ ~run'[q].alone /\ run'[q].at = run[q].at /\ run'[q].kind = run[q].kind
          /\ run'[q].level = run[q].level /\ run'[q].won = run[q].won
          /\ run'[q].result = run[q].result /\ run'[q].created = run[q].created
          /\ run'[q].hit = run[q].hit
  BY <1>1, <1>7, <1>9
<1>11. run'[r] = s
  BY <1>6
<1>. QED  BY <1>3, <1>4, <1>6, <1>8, <1>10, <1>11

LEMMA DamageLands ==
    ASSUME TlsTypeOK, Damage
    PROVE  /\ run' \in [Runs -> RunRecord]
           /\ \A q \in Runs :
                /\ ~run'[q].alone /\ run'[q].at = run[q].at /\ run'[q].kind = run[q].kind
                /\ run'[q].level = run[q].level /\ run'[q].won = run[q].won
                /\ run'[q].result = run[q].result /\ run'[q].created = run[q].created
                /\ run'[q].hit = run[q].hit
<1>1. run \in [Runs -> RunRecord] /\ run' = [q \in Runs |-> [run[q] EXCEPT !.alone = FALSE]]
  BY DEF TlsTypeOK, Damage
<1>2. \A x \in RunRecord : [x EXCEPT !.alone = FALSE] \in RunRecord
  BY DEF RunRecord
<1>3. run' \in [Runs -> RunRecord] /\ \A q \in Runs : run'[q] = [run[q] EXCEPT !.alone = FALSE]
  BY <1>1, <1>2
<1>. QED  BY <1>1, <1>3 DEF RunRecord

LEMMA TlsSplits ==
    ASSUME [TlsNext]_tlsVars
    PROVE  \/ \E r \in Runs, k \in Kinds : Begin(r, k)
           \/ \E r \in Runs : OfRun(r)
           \/ Damage \/ Serve \/ UNCHANGED tlsVars
  BY DEF TlsNext, OfRun, AllOver

(* What becomes of the identity.                                            *)
LEMMA IdentitySteps ==
    ASSUME TlsTypeOK, OutcomeInv, [TlsNext]_tlsVars
    PROVE  /\ identity' \in [id : Runs \cup {NoId}, marker : BOOLEAN, sound : BOOLEAN]
           /\ Published => identity'.id = identity.id /\ (identity'.marker => identity.marker)
           /\ ~Published => identity' = identity \/ \E r \in Runs : Publish(r)
           /\ ~(\E r \in Runs : Publish(r) \/ Unlink(r)) /\ ~Damage => identity' = identity
<1>1. identity \in [id : Runs \cup {NoId}, marker : BOOLEAN, sound : BOOLEAN]
  BY DEF TlsTypeOK
<1>2. ASSUME NEW r \in Runs, Publish(r)
      PROVE  /\ identity' \in [id : Runs \cup {NoId}, marker : BOOLEAN, sound : BOOLEAN]
             /\ Published => identity' = identity
  <2>1. CASE Published
    BY <1>1, <1>2, <2>1, PublishLands
  <2>2. CASE ~Published
    <3>1. identity' = [id |-> r, marker |-> TRUE, sound |-> dir[r] = "complete"]
      BY <1>2, <2>2, PublishLands
    <3>2. (dir[r] = "complete") \in BOOLEAN
      OBVIOUS
    <3>. QED  BY <2>2, <3>1, <3>2
  <2>. QED  BY <2>1, <2>2
<1>3. ASSUME NEW r \in Runs, Unlink(r)
      PROVE  /\ identity' \in [id : Runs \cup {NoId}, marker : BOOLEAN, sound : BOOLEAN]
             /\ identity'.id = identity.id /\ (identity'.marker => identity.marker)
             /\ Published
  BY <1>1, <1>3 DEF Unlink, OutcomeInv, GoesOn
<1>4. ASSUME Damage
      PROVE  /\ identity' \in [id : Runs \cup {NoId}, marker : BOOLEAN, sound : BOOLEAN]
             /\ identity'.id = identity.id /\ identity'.marker = identity.marker /\ Published
  BY <1>1, <1>4 DEF Damage
<1>5. ASSUME ~(\E r \in Runs : Publish(r) \/ Unlink(r)), ~Damage
      PROVE  identity' = identity
  <2>1. ASSUME NEW r \in Runs, OfRun(r)
        PROVE  identity' = identity
    BY <1>5, <2>1, OfRunSplits
    DEF See, Guard, Moves, Verify, LoadStrictly, Handle, Fault, Discard, Make, LookForFinal,
        Stage, Own, Fill, Wait, TimeOut, Unmark, Audit, CleanUp, RollHub, RollProduct, Die
  <2>2. ASSUME NEW r \in Runs, NEW k \in Kinds, Begin(r, k)
        PROVE  identity' = identity
    BY <2>2 DEF Begin
  <2>. QED  BY <1>5, <2>1, <2>2, TlsSplits DEF Serve, tlsVars
<1>6. CASE \E r \in Runs : Publish(r)
  BY <1>2, <1>6
<1>7. CASE \E r \in Runs : Unlink(r)
  BY <1>3, <1>7
<1>8. CASE Damage
  BY <1>4, <1>8
<1>9. CASE ~(\E r \in Runs : Publish(r) \/ Unlink(r)) /\ ~Damage
  BY <1>1, <1>5, <1>9
<1>. QED  BY <1>6, <1>7, <1>8, <1>9

(* The directories.                                                         *)
LEMMA FolderSteps ==
    ASSUME TlsTypeOK, [TlsNext]_tlsVars
    PROVE  /\ folder' \in [Levels -> {"absent", "bare", "protected"}]
           /\ \/ folder' = folder
              \/ \E r \in Runs : Make(r) /\ folder' = [folder EXCEPT ![run[r].level] = "bare"]
              \/ \E r \in Runs : Guard(r) /\ folder' = [folder EXCEPT ![run[r].level] = "protected"]
              \/ /\ folder' = [folder EXCEPT !["hub"] = "absent"]
                 /\ ~Published /\ Transients = {} /\ UNCHANGED <<identity, dir>>
                 /\ \E r \in Runs : RollHub(r)
              \/ /\ folder' = [folder EXCEPT !["product"] = "absent"] /\ folder["hub"] = "absent"
                 /\ \E r \in Runs : RollProduct(r)
<1>1. folder \in [Levels -> {"absent", "bare", "protected"}] /\ {"product", "hub"} = Levels
  BY DEF TlsTypeOK, Levels
<1>2. ASSUME NEW r \in Runs, OfRun(r)
      PROVE  \/ folder' = folder
             \/ Make(r) /\ folder' = [folder EXCEPT ![run[r].level] = "bare"]
             \/ Guard(r) /\ folder' = [folder EXCEPT ![run[r].level] = "protected"]
             \/ /\ folder' = [folder EXCEPT !["hub"] = "absent"]
                /\ ~Published /\ Transients = {} /\ UNCHANGED <<identity, dir>> /\ RollHub(r)
             \/ /\ folder' = [folder EXCEPT !["product"] = "absent"] /\ folder["hub"] = "absent"
                /\ RollProduct(r)
  <2>1. CASE RollHub(r)
    <3>1. \/ folder' = [folder EXCEPT !["hub"] = "absent"] /\ ~Published /\ Transients = {}
          \/ folder' = [folder EXCEPT !["hub"] = folder["hub"]]
      BY <2>1 DEF RollHub
    <3>2. [folder EXCEPT !["hub"] = folder["hub"]] = folder
      BY <1>1
    <3>. QED  BY <2>1, <3>1, <3>2 DEF RollHub
  <2>2. CASE RollProduct(r)
    <3>1. \/ folder' = [folder EXCEPT !["product"] = "absent"] /\ folder["hub"] = "absent"
          \/ folder' = [folder EXCEPT !["product"] = folder["product"]]
      BY <2>2 DEF RollProduct
    <3>2. [folder EXCEPT !["product"] = folder["product"]] = folder
      BY <1>1
    <3>. QED  BY <2>2, <3>1, <3>2
  <2>3. CASE ~RollHub(r) /\ ~RollProduct(r)
    BY <1>2, <2>3, OfRunSplits
    DEF See, Guard, Moves, Publish, Verify, LoadStrictly, Handle, Fault, Discard, Make, LookForFinal,
        Stage, Own, Fill, Wait, TimeOut, Unmark, Unlink, Audit, CleanUp, Die
  <2>. QED  BY <2>1, <2>2, <2>3
<1>3. ASSUME NEW r \in Runs, NEW k \in Kinds, Begin(r, k)
      PROVE  folder' = folder
  BY <1>3 DEF Begin
<1>4. \A r \in Runs : run[r].level \in Levels
  BY DEF TlsTypeOK, RunRecord
<1>5. \/ folder' = folder
      \/ \E r \in Runs : Make(r) /\ folder' = [folder EXCEPT ![run[r].level] = "bare"]
      \/ \E r \in Runs : Guard(r) /\ folder' = [folder EXCEPT ![run[r].level] = "protected"]
      \/ /\ folder' = [folder EXCEPT !["hub"] = "absent"]
         /\ ~Published /\ Transients = {} /\ UNCHANGED <<identity, dir>>
         /\ \E r \in Runs : RollHub(r)
      \/ /\ folder' = [folder EXCEPT !["product"] = "absent"] /\ folder["hub"] = "absent"
         /\ \E r \in Runs : RollProduct(r)
  BY <1>2, <1>3, TlsSplits DEF Damage, Serve, tlsVars
<1>6. folder' \in [Levels -> {"absent", "bare", "protected"}]
  BY <1>1, <1>4, <1>5
<1>. QED  BY <1>5, <1>6

LEMMA TlsTypesKept == ASSUME TlsInv, [TlsNext]_tlsVars PROVE TlsTypeOK'
<1>. USE DEF TlsInv
<1>1. identity' \in [id : Runs \cup {NoId}, marker : BOOLEAN, sound : BOOLEAN]
  BY IdentitySteps
<1>2. folder' \in [Levels -> {"absent", "bare", "protected"}]
  BY FolderSteps
<1>3. ASSUME NEW r \in Runs, OfRun(r)
      PROVE  TlsTypeOK'
  <2>1. /\ run' \in [Runs -> RunRecord] /\ used' = used
        /\ dir' \in [Runs -> {"none", "bare", "owned", "complete"}]
    BY <1>3, RunsLand
  <2>2. /\ faults' = faults \/ (faults < MaxFaults /\ faults' = faults + 1)
        /\ deaths' = deaths \/ (deaths < MaxDeaths /\ deaths' = deaths + 1)
    BY <1>3, OfRunSplits
    DEF See, Guard, Moves, Publish, Verify, LoadStrictly, Handle, Fault, Discard, Make, LookForFinal,
        Stage, Own, Fill, Wait, TimeOut, Unmark, Unlink, Audit, CleanUp, RollHub, RollProduct, Die
  <2>3. faults' \in 0..MaxFaults /\ deaths' \in 0..MaxDeaths
    BY <2>2, IdentityAssumption DEF TlsTypeOK
  <2>. QED  BY <1>1, <1>2, <2>1, <2>3 DEF TlsTypeOK
<1>4. ASSUME NEW r \in Runs, NEW k \in Kinds, Begin(r, k)
      PROVE  TlsTypeOK'
  <2>1. run' \in [Runs -> RunRecord]
    BY <1>4, BeginLands
  <2>. QED  BY <1>4, <2>1 DEF Begin, TlsTypeOK
<1>5. CASE Damage
  <2>1. run' \in [Runs -> RunRecord]
    BY <1>5, DamageLands
  <2>2. faults' \in 0..MaxFaults
    BY <1>5, IdentityAssumption DEF Damage, TlsTypeOK
  <2>. QED  BY <1>1, <1>5, <2>1, <2>2 DEF Damage, TlsTypeOK
<1>6. CASE Serve \/ UNCHANGED tlsVars
  BY <1>6 DEF Serve, tlsVars, TlsTypeOK
<1>. QED  BY <1>3, <1>4, <1>5, <1>6, TlsSplits

LEMMA HubKept == ASSUME TlsInv, [TlsNext]_tlsVars PROVE HubInv'
<1>. USE DEF TlsInv
<1>1. SUFFICES ASSUME Published' \/ Transients' # {}
               PROVE  folder'["hub"] # "absent"
  BY DEF HubInv
<1>2. folder["hub"] # "absent"
  <2>1. CASE Published \/ Transients # {}
    BY <2>1 DEF HubInv
  <2>2. CASE ~Published /\ Transients = {}
    <3>1. \A q \in Runs : dir[q] = "none"
      BY <2>2 DEF Transients
    <3>2. CASE Published'
      <4>1. PICK r \in Runs : Publish(r)
        BY <2>2, <3>2, IdentitySteps DEF Published
      <4>2. dir[r] = "complete"
        BY <4>1 DEF Publish, StagingInv
      <4>. QED  BY <3>1, <4>2
    <3>3. CASE Transients' # {}
      <4>1. PICK q \in Runs : dir'[q] # "none"
        BY <3>3 DEF Transients
      <4>2. dir'[q] # dir[q]
        BY <3>1, <4>1
      <4>3. OfRun(q)
        <5>1. ASSUME NEW r \in Runs, OfRun(r)
              PROVE  r = q
          BY <4>2, <5>1, RunsLand
        <5>2. ASSUME NEW r \in Runs, NEW k \in Kinds, Begin(r, k)
              PROVE  FALSE
          BY <4>2, <5>2 DEF Begin
        <5>. QED  BY <4>2, <5>1, <5>2, TlsSplits DEF Damage, Serve, tlsVars
      <4>4. \/ Stage(q) \/ Own(q) \/ Fill(q) \/ Publish(q) \/ CleanUp(q) \/ Discard(q)
        BY <4>2, <4>3, OfRunSplits
        DEF See, Guard, Moves, Verify, LoadStrictly, Handle, Fault, Make, LookForFinal,
            Wait, TimeOut, Unmark, Unlink, Audit, RollHub, RollProduct, Die
      <4>5. CASE Stage(q)
        BY <4>2, <4>5 DEF Stage
      <4>6. CASE Own(q) \/ Fill(q) \/ Publish(q)
        <5>1. dir[q] # "none"
          BY <4>6 DEF Own, Fill, Publish, StagingInv
        <5>. QED  BY <3>1, <5>1
      <4>7. CASE CleanUp(q) \/ Discard(q)
        BY <3>1, <4>1, <4>7 DEF CleanUp, Discard, TlsTypeOK
      <4>. QED  BY <4>4, <4>5, <4>6, <4>7
    <3>. QED  BY <1>1, <3>2, <3>3
  <2>. QED  BY <2>1, <2>2
<1>3. CASE folder' = [folder EXCEPT !["hub"] = "absent"] /\ ~Published /\ Transients = {}
           /\ UNCHANGED <<identity, dir>>
  BY <1>1, <1>3 DEF Published, Transients
<1>4. \/ folder' = folder
      \/ \E l \in Levels, x \in {"bare", "protected"} : folder' = [folder EXCEPT ![l] = x]
      \/ /\ folder' = [folder EXCEPT !["hub"] = "absent"] /\ ~Published /\ Transients = {}
         /\ UNCHANGED <<identity, dir>>
  <2>1. \A r \in Runs : run[r].level \in Levels
    BY DEF TlsTypeOK, RunRecord
  <2>. QED  BY <1>2, <2>1, FolderSteps
<1>5. ASSUME NEW l \in Levels, NEW x \in {"bare", "protected"}, folder' = [folder EXCEPT ![l] = x]
      PROVE  folder'["hub"] # "absent"
  BY <1>2, <1>5 DEF TlsTypeOK, Levels
<1>. QED  BY <1>2, <1>3, <1>4, <1>5

LEMMA UsedKept == ASSUME TlsInv, [TlsNext]_tlsVars PROVE UsedInv'
<1>. USE DEF TlsInv
<1>1. SUFFICES ASSUME used'
               PROVE  Published' /\ ~identity'.marker
  BY DEF UsedInv
<1>2. used \/ Serve
  <2>1. ASSUME NEW r \in Runs, OfRun(r)
        PROVE  used' = used
    BY <2>1, RunsLand
  <2>2. ASSUME NEW r \in Runs, NEW k \in Kinds, Begin(r, k)
        PROVE  used' = used
    BY <2>2 DEF Begin
  <2>. QED  BY <1>1, <2>1, <2>2, TlsSplits DEF Damage, tlsVars
<1>3. Published /\ ~identity.marker
  BY <1>2 DEF UsedInv, Serve
<1>. QED  BY <1>3, IdentitySteps DEF Published

LEMMA TlsStarts == TlsInit => TlsInv
<1>. SUFFICES ASSUME TlsInit
              PROVE  TlsInv
  OBVIOUS
<1>1. TlsTypeOK
  <2>1. NotBegun \in RunRecord
    <3>1. "idle" \in Places
      BY DEF Places, RunEnded
    <3>. QED  BY <3>1 DEF NotBegun, RunRecord, Levels
  <2>2. run \in [Runs -> RunRecord]
    BY <2>1 DEF TlsInit
  <2>3. folder \in [Levels -> {"absent", "bare", "protected"}] /\ used \in BOOLEAN
    BY DEF TlsInit
  <2>4. identity \in [id : Runs \cup {NoId}, marker : BOOLEAN, sound : BOOLEAN]
    BY DEF TlsInit
  <2>5. /\ dir \in [Runs -> {"none", "bare", "owned", "complete"}]
        /\ faults \in 0..MaxFaults /\ deaths \in 0..MaxDeaths
    BY IdentityAssumption DEF TlsInit
  <2>. QED  BY <2>2, <2>3, <2>4, <2>5 DEF TlsTypeOK
<1>2. HubInv /\ UsedInv
  BY DEF TlsInit, HubInv, UsedInv, Published, Transients
<1>3. StagingInv /\ OutcomeInv /\ LoneInv
  BY DEF TlsInit, NotBegun, StagingInv, OutcomeInv, LoneInv
<1>4. BareInv
  BY DEF TlsInit, BareInv
<1>. QED  BY <1>1, <1>2, <1>3, <1>4 DEF TlsInv

(* StagingInv, for one run.                                                 *)
HoldsItsOwn(r) ==
    /\ run[r].at = "idle" => ~run[r].hit
    /\ run[r].at \in {"own", "fill"} => dir[r] # "none"
    /\ run[r].at = "publish" => dir[r] = "complete"
    /\ dir[r] # "none" /\ ~run[r].hit =>
         \/ run[r].at \in {"own", "fill", "publish", "dead"}
         \/ run[r].kind = "rotate" /\ run[r].at = "done"

LEMMA OwnStaging ==
    ASSUME TlsTypeOK, NEW r \in Runs, HoldsItsOwn(r), OfRun(r)
    PROVE  HoldsItsOwn(r)'
<1>1. CASE See(r)
  BY <1>1, SeeLands, EntersLands DEF See, HoldsItsOwn, StepsTo, Lands
<1>2. CASE Guard(r)
  <2>1. /\ run'[r].at \in {"see", "look", "raised"} /\ run'[r].hit = run[r].hit
        /\ run'[r].kind = run[r].kind
    BY <1>2, EntersLands DEF Guard, Lands
  <2>. QED  BY <1>2, <2>1 DEF Guard, HoldsItsOwn
<1>3. CASE Moves(r)
  <2>1. MovesOn(r)
    BY <1>3, MovesStep
  <2>2. CASE Stage(r)
    <3>1. CASE dir' = [dir EXCEPT ![r] = "bare"] /\ GoesOn(r, "own")
      <4>1. run'[r].at = "own"
        BY <3>1, GoesOnSteps DEF StepsTo, Places
      <4>2. dir'[r] = "bare"
        BY <3>1 DEF TlsTypeOK
      <4>. QED  BY <4>1, <4>2 DEF HoldsItsOwn
    <3>2. CASE dir' = dir /\ Raises(r)
      BY <2>1, <2>2, <3>2, RaisesSteps DEF Stage, StepsTo, HoldsItsOwn, MovesOn, KeepsRest
    <3>. QED  BY <2>2, <3>1, <3>2 DEF Stage
  <2>3. CASE Own(r)
    <3>1. run'[r].at = "fill" /\ dir'[r] = "owned"
      BY <2>3, GoesOnSteps DEF Own, StepsTo, Places, TlsTypeOK
    <3>. QED  BY <3>1 DEF HoldsItsOwn
  <2>4. CASE Fill(r)
    <3>1. \/ GoesOn(r, "publish")
          \/ GoesOn(r, "done") /\ run[r].kind = "rotate"
      BY <2>4 DEF Fill
    <3>2. \/ run'[r].at = "publish"
          \/ run'[r].at = "done" /\ run'[r].kind = "rotate"
      BY <2>1, <3>1, GoesOnSteps DEF StepsTo, Places, RunEnded, MovesOn, KeepsRest
    <3>3. dir'[r] = "complete"
      BY <2>4 DEF Fill, TlsTypeOK
    <3>. QED  BY <3>2, <3>3 DEF HoldsItsOwn
  <2>5. CASE CleanUp(r)
    <3>1. dir'[r] = dir[r] \/ dir'[r] = "none"
      BY <2>5 DEF CleanUp, TlsTypeOK
    <3>. QED  BY <2>1, <2>5, <3>1 DEF CleanUp, HoldsItsOwn, MovesOn, KeepsRest, Fill, Stage, Own
  <2>6. CASE Die(r)
    <3>1. run'[r].at = "dead"
      BY <2>6, GoesOnSteps DEF Die, StepsTo, Places, RunEnded
    <3>. QED  BY <3>1 DEF HoldsItsOwn
  <2>7. CASE ~Stage(r) /\ ~Own(r) /\ ~Fill(r) /\ ~CleanUp(r) /\ ~Die(r)
    <3>1. /\ dir' = dir
          /\ run[r].at \notin {"idle", "own", "fill", "publish", "dead", "done"}
      BY <1>3, <2>7 DEF Moves, Make, LookForFinal, Wait, TimeOut, Unmark, Unlink, Audit,
                        RollHub, RollProduct
    <3>. QED  BY <2>1, <2>7, <3>1 DEF HoldsItsOwn, MovesOn, KeepsRest
  <2>. QED  BY <2>2, <2>3, <2>4, <2>5, <2>6, <2>7
<1>4. CASE Publish(r)
  <2>1. dir'[r] = "none" /\ run'[r].at \in {"wait", "verify"}
    BY <1>4, PublishLands DEF Publish, TlsTypeOK
  <2>. QED  BY <2>1 DEF HoldsItsOwn
<1>5. CASE Verify(r)
  BY <1>5, VerifyLands DEF Verify, HoldsItsOwn, Lands
<1>6. CASE LoadStrictly(r)
  BY <1>6, LoadLands DEF LoadStrictly, HoldsItsOwn, Lands
<1>7. CASE Handle(r)
  BY <1>7, HandleLands DEF Handle, HoldsItsOwn, Lands
<1>8. CASE Fault(r)
  BY <1>8, FaultLands DEF HoldsItsOwn
<1>9. CASE Discard(r)
  BY <1>9 DEF Discard, HoldsItsOwn, TlsTypeOK
<1>. QED
  BY <1>1, <1>2, <1>3, <1>4, <1>5, <1>6, <1>7, <1>8, <1>9, OfRunSplits

LEMMA StagingKept == ASSUME TlsInv, [TlsNext]_tlsVars PROVE StagingInv'
<1>. USE DEF TlsInv
<1>1. \A r \in Runs : HoldsItsOwn(r)
  BY DEF StagingInv, HoldsItsOwn
<1>2. SUFFICES ASSUME NEW q \in Runs
               PROVE  HoldsItsOwn(q)'
  BY DEF StagingInv, HoldsItsOwn
<1>3. ASSUME NEW r \in Runs, OfRun(r)
      PROVE  HoldsItsOwn(q)'
  <2>1. CASE r = q
    BY <1>1, <1>3, <2>1, OwnStaging
  <2>2. CASE r # q
    BY <1>1, <1>3, <2>2, RunsLand DEF HoldsItsOwn
  <2>. QED  BY <2>1, <2>2
<1>4. ASSUME NEW r \in Runs, NEW k \in Kinds, Begin(r, k)
      PROVE  HoldsItsOwn(q)'
  <2>1. dir' = dir
    BY <1>4 DEF Begin
  <2>2. CASE r = q
    BY <1>1, <1>4, <2>1, <2>2, BeginLands DEF HoldsItsOwn
  <2>3. CASE r # q
    BY <1>1, <1>4, <2>1, <2>3, BeginLands DEF HoldsItsOwn
  <2>. QED  BY <2>2, <2>3
<1>5. CASE Damage
  BY <1>1, <1>5, DamageLands DEF Damage, HoldsItsOwn
<1>6. CASE Serve \/ UNCHANGED tlsVars
  BY <1>1, <1>6 DEF Serve, tlsVars, HoldsItsOwn
<1>. QED  BY <1>3, <1>4, <1>5, <1>6, TlsSplits

(* OutcomeInv, for one run.                                                 *)
KnowsTheOutcome(r) ==
    /\ run[r].won => Published /\ identity.id = r
    /\ run[r].at \in {"wait", "verify", "unmark", "unlink", "load"} => Published
    /\ run[r].kind # "rotate" /\ run[r].at \in {"audit", "done"} =>
         /\ Published /\ run[r].result = identity.id /\ ~identity.marker
         /\ run[r].created => identity.id = r

(* What is known of the identity stays known.                               *)
LEMMA OutcomeStays ==
    ASSUME TlsInv, [TlsNext]_tlsVars, NEW q \in Runs,
           run'[q].at = run[q].at, run'[q].kind = run[q].kind, run'[q].won = run[q].won,
           run'[q].result = run[q].result, run'[q].created = run[q].created
    PROVE  KnowsTheOutcome(q)'
<1>1. KnowsTheOutcome(q)
  BY DEF TlsInv, OutcomeInv, KnowsTheOutcome
<1>2. Published => Published' /\ identity'.id = identity.id /\ (identity'.marker => identity.marker)
  BY IdentitySteps DEF TlsInv, Published
<1>3. run'[q].won => Published' /\ identity'.id = q
  BY <1>1, <1>2 DEF KnowsTheOutcome
<1>4. run'[q].at \in {"wait", "verify", "unmark", "unlink", "load"} => Published'
  BY <1>1, <1>2 DEF KnowsTheOutcome
<1>5. run'[q].kind # "rotate" /\ run'[q].at \in {"audit", "done"} =>
         /\ Published' /\ run'[q].result = identity'.id /\ ~identity'.marker
         /\ run'[q].created => identity'.id = q
  BY <1>1, <1>2 DEF KnowsTheOutcome
<1>. QED  BY <1>3, <1>4, <1>5 DEF KnowsTheOutcome

LEMMA OwnOutcome ==
    ASSUME TlsInv, NEW r \in Runs, OfRun(r)
    PROVE  KnowsTheOutcome(r)'
<1>. USE DEF TlsInv
<1>1. KnowsTheOutcome(r) /\ [TlsNext]_tlsVars
  BY DEF OutcomeInv, KnowsTheOutcome, TlsNext, OfRun
<1>2. Published => Published' /\ identity'.id = identity.id
  BY <1>1, IdentitySteps DEF Published
<1>3. CASE See(r) \/ Guard(r)
  <2>1. run'[r].at \in {"make", "raised", "see", "look"} /\ run'[r].won = run[r].won
    BY <1>3, SeeLands, EntersLands DEF Guard, StepsTo
  <2>. QED  BY <1>1, <1>2, <2>1 DEF KnowsTheOutcome
<1>4. CASE Moves(r)
  <2>1. MovesOn(r)
    BY <1>4, MovesStep
  <2>2. run'[r].won => Published' /\ identity'.id = r
    BY <1>1, <1>2, <2>1 DEF MovesOn, KeepsRest, KnowsTheOutcome
  <2>3. run'[r].at \in {"wait", "verify", "unmark", "unlink", "load"} => Published'
    BY <1>1, <1>2, <2>1 DEF MovesOn, KnowsTheOutcome, Wait, Unmark, Unlink
  <2>4. ASSUME run'[r].kind # "rotate", run'[r].at \in {"audit", "done"}
        PROVE  KnowsTheOutcome(r)'
    <3>1. Audit(r) /\ run[r].at = "audit" /\ identity' = identity
      BY <2>1, <2>4 DEF MovesOn, KeepsRest, Audit
    <3>. QED  BY <1>1, <2>1, <2>4, <3>1 DEF MovesOn, KeepsRest, KnowsTheOutcome, Published
  <2>. QED  BY <2>2, <2>3, <2>4 DEF KnowsTheOutcome
<1>5. CASE Publish(r)
  <2>1. CASE Published
    BY <1>1, <1>2, <1>5, <2>1, PublishLands DEF KnowsTheOutcome
  <2>2. CASE ~Published
    <3>1. identity'.id = r /\ r # NoId /\ run'[r].at = "verify"
      BY <1>5, <2>2, PublishLands, IdentityAssumption
    <3>. QED  BY <3>1 DEF KnowsTheOutcome, Published
  <2>. QED  BY <2>1, <2>2
<1>6. CASE Verify(r)
  BY <1>1, <1>2, <1>6, VerifyLands DEF Verify, KnowsTheOutcome
<1>7. CASE LoadStrictly(r)
  <2>1. identity' = identity /\ run[r].at = "load" /\ Published
    BY <1>1, <1>7 DEF LoadStrictly, KnowsTheOutcome
  <2>. QED  BY <1>1, <1>2, <1>7, <2>1, LoadLands DEF KnowsTheOutcome
<1>8. CASE Handle(r)
  BY <1>1, <1>2, <1>8, HandleLands DEF KnowsTheOutcome
<1>9. CASE Fault(r)
  BY <1>1, <1>2, <1>9, FaultLands DEF KnowsTheOutcome
<1>10. CASE Discard(r)
  BY <1>1, <1>10, OutcomeStays DEF Discard
<1>. QED
  BY <1>3, <1>4, <1>5, <1>6, <1>7, <1>8, <1>9, <1>10, OfRunSplits

LEMMA OutcomeKept == ASSUME TlsInv, [TlsNext]_tlsVars PROVE OutcomeInv'
<1>. SUFFICES ASSUME NEW q \in Runs
              PROVE  KnowsTheOutcome(q)'
  BY DEF OutcomeInv, KnowsTheOutcome
<1>. USE DEF TlsInv
<1>1. ASSUME NEW r \in Runs, OfRun(r)
      PROVE  KnowsTheOutcome(q)'
  <2>1. CASE r = q
    BY <1>1, <2>1, OwnOutcome
  <2>2. CASE r # q
    BY <1>1, <2>2, RunsLand, OutcomeStays
  <2>. QED  BY <2>1, <2>2
<1>2. ASSUME NEW r \in Runs, NEW k \in Kinds, Begin(r, k)
      PROVE  KnowsTheOutcome(q)'
  <2>1. CASE r = q
    BY <1>2, <2>1, BeginLands DEF KnowsTheOutcome
  <2>2. CASE r # q
    BY <1>2, <2>2, BeginLands, OutcomeStays
  <2>. QED  BY <2>1, <2>2
<1>3. CASE Damage
  BY <1>3, DamageLands, OutcomeStays
<1>4. CASE Serve \/ UNCHANGED tlsVars
  BY <1>4, OutcomeStays DEF Serve, tlsVars
<1>. QED  BY <1>1, <1>2, <1>3, <1>4, TlsSplits

LEMMA BareKept == ASSUME TlsInv, [TlsNext]_tlsVars PROVE BareInv'
<1>. SUFFICES ASSUME NEW l \in Levels, folder'[l] = "bare"
              PROVE  \E r \in Runs : \/ run'[r].at = "guard" /\ run'[r].level = l
                                     \/ run'[r].at = "dead" \/ run'[r].hit
  BY DEF BareInv
<1>. USE DEF TlsInv
<1>1. CASE folder[l] # "bare"
  <2>1. PICK r \in Runs : Make(r) /\ folder' = [folder EXCEPT ![run[r].level] = "bare"]
                          /\ run[r].level = l
    BY <1>1, FolderSteps DEF TlsTypeOK, RunRecord, Levels
  <2>2. GoesOn(r, "guard")
    BY <1>1, <2>1 DEF Make
  <2>3. run'[r].at = "guard" /\ run'[r].level = run[r].level
    BY <2>2, GoesOnSteps DEF StepsTo, KeepsRest, Places
  <2>. QED  BY <2>1, <2>3
<1>2. CASE folder[l] = "bare"
  <2>1. PICK w \in Runs : \/ run[w].at = "guard" /\ run[w].level = l
                          \/ run[w].at = "dead" \/ run[w].hit
    BY <1>2 DEF BareInv
  <2>2. CASE run'[w].at = run[w].at /\ run'[w].level = run[w].level /\ run'[w].hit = run[w].hit
    BY <2>1, <2>2
  <2>3. ASSUME NEW r \in Runs, OfRun(r)
        PROVE  run'[w].hit \/ run'[w].at = "dead" \/ run'[w] = run[w]
    <3>1. CASE r # w
      BY <2>3, <3>1, RunsLand
    <3>2. CASE r = w /\ run[w].hit
      BY <2>3, <3>2, RunsLand
    <3>3. CASE r = w /\ run[w].at = "guard" /\ run[w].level = l
      <4>1. Guard(r) \/ Fault(r) \/ Die(r)
        BY <2>3, <3>3, OfRunSplits
        DEF See, Moves, Publish, Verify, LoadStrictly, Handle, Discard, Make, LookForFinal,
            Stage, Own, Fill, Wait, TimeOut, Unmark, Unlink, Audit, CleanUp, RollHub, RollProduct
      <4>2. CASE Guard(r)
        BY <3>3, <4>2 DEF Guard, TlsTypeOK
      <4>3. CASE Fault(r)
        BY <3>3, <4>3, FaultLands
      <4>4. CASE Die(r)
        BY <3>3, <4>4, GoesOnSteps DEF Die, StepsTo, Places, RunEnded
      <4>. QED  BY <4>1, <4>2, <4>3, <4>4
    <3>4. CASE r = w /\ run[w].at = "dead"
      BY <2>3, <3>4, RunsLand
    <3>. QED  BY <2>1, <3>1, <3>2, <3>3, <3>4
  <2>4. ASSUME NEW r \in Runs, NEW k \in Kinds, Begin(r, k)
        PROVE  run'[w].at = run[w].at /\ run'[w].level = run[w].level /\ run'[w].hit = run[w].hit
    <3>1. r # w
      BY <2>1, <2>4, BeginLands DEF StagingInv
    <3>. QED  BY <2>4, <3>1, BeginLands
  <2>5. CASE Damage
    BY <2>1, <2>5, DamageLands
  <2>6. CASE Serve \/ UNCHANGED tlsVars
    BY <2>1, <2>6 DEF Serve, tlsVars
  <2>. QED  BY <2>1, <2>2, <2>3, <2>4, <2>5, <2>6, TlsSplits
<1>. QED  BY <1>1, <1>2

(* A step of another run is not possible while a run is alone.              *)
LEMMA NobodyElse ==
    ASSUME NEW r \in Runs, AllIsWell(r), NEW q \in Runs \ {r}, OfRun(q)
    PROVE  FALSE
<1>1. run[q].at \in RunEnded /\ dir[q] = "none"
  BY DEF AllIsWell
<1>. QED
  BY <1>1, OfRunSplits
  DEF See, Guard, Moves, Publish, Verify, LoadStrictly, Handle, Fault, Discard, Make, LookForFinal,
      Stage, Own, Fill, Wait, TimeOut, Unmark, Unlink, Audit, CleanUp, RollHub, RollProduct, Die,
      InProgress, RunEnded

(* The parts of AllIsWell that only speak of the disk and of other runs.    *)
Quiet(r) ==
    /\ identity.sound
    /\ \A q \in Runs \ {r} : run[q].at \in RunEnded /\ dir[q] = "none"

LEMMA StaysQuiet ==
    ASSUME TlsInv, NEW r \in Runs, AllIsWell(r), OfRun(r)
    PROVE  /\ identity' = identity \/ Publish(r) \/ Unlink(r)
           /\ identity'.sound /\ Quiet(r)'
<1>. USE DEF TlsInv
<1>1. identity' = identity \/ Publish(r) \/ Unlink(r)
  BY OfRunSplits
  DEF See, Guard, Moves, Verify, LoadStrictly, Handle, Fault, Discard, Make, LookForFinal,
      Stage, Own, Fill, Wait, TimeOut, Unmark, Audit, CleanUp, RollHub, RollProduct, Die
<1>2. identity.sound /\ ~run[r].hit
  BY DEF AllIsWell
<1>3. ASSUME Publish(r)
      PROVE  identity'.sound
  <2>1. ~Published /\ dir[r] = "complete"
    BY <1>3 DEF AllIsWell, Publish, StagingInv
  <2>2. identity' = [id |-> r, marker |-> TRUE, sound |-> dir[r] = "complete"]
    BY <1>3, <2>1, PublishLands
  <2>3. identity'.sound = (dir[r] = "complete")
    BY <2>2
  <2>. QED  BY <2>1, <2>3
<1>4. ASSUME Unlink(r)
      PROVE  identity'.sound
  BY <1>2, <1>4 DEF Unlink, TlsTypeOK
<1>5. identity'.sound
  BY <1>1, <1>2, <1>3, <1>4
<1>6. \A q \in Runs \ {r} : run'[q].at \in RunEnded /\ dir'[q] = "none"
  BY RunsLand DEF AllIsWell
<1>. QED  BY <1>1, <1>5, <1>6 DEF Quiet

(* Its directories, when a step of it leaves them and its level as they     *)
(* are.                                                                     *)
LEMMA SameTree ==
    ASSUME NEW r \in Runs, AllIsWell(r), folder' = folder, run'[r].level = run[r].level,
           run[r].at \notin {"see", "make", "guard"}
    PROVE  /\ \A l \in Levels : folder'[l] # "bare"
           /\ folder'["product"] = "protected"
           /\ run'[r].level = "hub" /\ folder'["hub"] = "protected"
  BY DEF AllIsWell

LEMMA LoneSees ==
    ASSUME TlsInv, NEW r \in Runs, AllIsWell(r), See(r)
    PROVE  AllIsWell(r)'
<1>. USE DEF TlsInv
<1>1. Quiet(r)' /\ UNCHANGED <<folder, identity, dir, used>>
  BY StaysQuiet DEF See, OfRun, Directories
<1>2. /\ ~run'[r].hit /\ ~run'[r].waiting /\ ~run'[r].retried /\ run[r].at = "see"
  BY SeeLands DEF AllIsWell, See
<1>3. run[r].level \in Levels /\ \A l \in Levels : folder[l] # "bare"
  BY <1>2 DEF TlsTypeOK, RunRecord, AllIsWell
<1>4. CASE StepsTo(r, "make") /\ folder[run[r].level] = "absent"
  <2>1. run'[r].at = "make" /\ run'[r].level = run[r].level
    BY <1>4 DEF StepsTo, KeepsRest
  <2>. QED  BY <1>1, <1>2, <1>3, <1>4, <2>1 DEF AllIsWell, Quiet
<1>5. CASE Enters(r, FALSE) /\ folder[run[r].level] = "protected"
  <2>1. CASE run[r].level = "product" /\ run'[r].level = "hub" /\ run'[r].at = "see"
    BY <1>1, <1>2, <1>3, <1>5, <2>1 DEF AllIsWell, Quiet
  <2>2. CASE run[r].level = "hub" /\ run'[r].level = "hub" /\ run'[r].at = "look"
    BY <1>1, <1>2, <1>3, <1>5, <2>2 DEF AllIsWell, Quiet
  <2>3. CASE /\ run[r].level = "hub" /\ run'[r].level = "hub" /\ run'[r].at = "raised"
             /\ used \/ Transients # {}
    <3>1. Transients = {}
      <4>1. dir[r] = "none"
        BY <1>2 DEF StagingInv, AllIsWell
      <4>. QED  BY <4>1 DEF Transients, AllIsWell
    <3>2. Published /\ Published'
      BY <1>1, <2>3, <3>1 DEF UsedInv, Published
    <3>. QED  BY <1>1, <1>2, <1>3, <1>5, <2>3, <3>2 DEF AllIsWell, Quiet
  <2>. QED  BY <1>5, <2>1, <2>2, <2>3, EntersLands
<1>. QED  BY <1>3, <1>4, <1>5, SeeLands

LEMMA LoneMakes ==
    ASSUME TlsInv, NEW r \in Runs, AllIsWell(r), Make(r) \/ Guard(r)
    PROVE  AllIsWell(r)'
<1>. USE DEF TlsInv
<1>1. Quiet(r)'
  BY StaysQuiet DEF OfRun, Directories
<1>2. run[r].level \in Levels /\ "product" \in Levels /\ "hub" \in Levels
  BY DEF TlsTypeOK, RunRecord, Levels
<1>3. CASE Make(r)
  <2>1. /\ folder[run[r].level] = "absent" /\ run[r].at = "make"
        /\ run[r].level = "hub" => folder["product"] = "protected"
        /\ \A l \in Levels : folder[l] # "bare"
    BY <1>3 DEF AllIsWell, Make
  <2>2. CanMake(run[r].level)
    BY <2>1 DEF CanMake
  <2>3. GoesOn(r, "guard") /\ folder' = [folder EXCEPT ![run[r].level] = "bare"]
    BY <1>3, <2>2 DEF Make
  <2>4. /\ run'[r].at = "guard" /\ run'[r].level = run[r].level /\ ~run'[r].hit
        /\ ~run'[r].waiting /\ ~run'[r].retried
    BY <2>1, <2>3, GoesOnSteps DEF StepsTo, KeepsRest, Places, AllIsWell
  <2>5. /\ \A l \in Levels : folder'[l] = "bare" => l = run[r].level
        /\ run[r].level = "hub" => folder'["product"] = "protected"
    BY <1>2, <2>1, <2>3 DEF TlsTypeOK
  <2>. QED  BY <1>1, <2>4, <2>5 DEF AllIsWell, Quiet
<1>4. CASE Guard(r)
  <2>1. /\ folder' = [folder EXCEPT ![run[r].level] = "protected"] /\ run[r].at = "guard"
        /\ Enters(r, TRUE)
    BY <1>4 DEF Guard
  <2>2. /\ ~run'[r].hit /\ ~run'[r].waiting /\ ~run'[r].retried /\ run'[r].level = "hub"
        /\ \/ run[r].level = "product" /\ run'[r].at = "see"
           \/ run[r].level = "hub" /\ run'[r].at = "look"
    BY <2>1, EntersLands DEF AllIsWell
  <2>3. /\ \A l \in Levels : folder'[l] # "bare"
        /\ folder'[run[r].level] = "protected"
        /\ run[r].level = "hub" => folder'["product"] = "protected"
    BY <1>2, <2>1 DEF TlsTypeOK, AllIsWell
  <2>. QED  BY <1>1, <2>2, <2>3 DEF AllIsWell, Quiet
<1>. QED  BY <1>3, <1>4

(* What AllIsWell says of the places behind the directories.                *)
FindsItsNeeds(r) ==
    /\ run[r].at \notin {"see", "make", "guard", "wait", "failed", "rollHub", "rollProduct"}
    /\ run[r].at \in {"stage", "own", "fill", "publish"} => ~Published
    /\ run[r].at \in {"verify", "unmark", "unlink"} => identity.marker
    /\ run[r].at \in {"load", "audit"} => ~identity.marker
    /\ run[r].at \in {"raised", "handle"} => Published /\ ~run[r].retried

LEMMA BehindTheTree ==
    ASSUME TlsInv, NEW r \in Runs, AllIsWell(r), OfRun(r), folder' = folder,
           run[r].at \notin {"see", "make", "guard"},
           run'[r].level = run[r].level, ~run'[r].hit, ~run'[r].waiting, FindsItsNeeds(r)'
    PROVE  AllIsWell(r)'
<1>1. Quiet(r)'
  BY StaysQuiet
<1>. QED  BY <1>1, SameTree DEF AllIsWell, Quiet, FindsItsNeeds

LEMMA LoneMoves ==
    ASSUME TlsInv, NEW r \in Runs, AllIsWell(r), run[r].kind = "permanent",
           Moves(r), ~Make(r), ~Die(r)
    PROVE  AllIsWell(r)'
<1>. USE DEF TlsInv
<1>1. OfRun(r) /\ MovesOn(r)
  BY MovesStep DEF OfRun, Moves, Directories, Preparing, Finishing
<1>2. run[r].at \notin {"see", "make", "guard", "rollHub", "rollProduct", "wait", "publish"}
  BY DEF AllIsWell, Moves, LookForFinal, Stage, Own, Fill, Wait, TimeOut, Unmark, Unlink, Audit,
         CleanUp, RollHub, RollProduct
<1>3. folder' = folder
  BY <1>2 DEF Moves, LookForFinal, Stage, Own, Fill, Wait, TimeOut, Unmark, Unlink, Audit,
              CleanUp, RollHub, RollProduct
<1>4. /\ ~run'[r].hit /\ ~run'[r].waiting /\ run'[r].level = run[r].level
      /\ run'[r].retried = run[r].retried
  BY <1>1 DEF AllIsWell, MovesOn, KeepsRest
<1>5. folder["hub"] = "protected" /\ folder["product"] = "protected"
  BY <1>2 DEF AllIsWell
<1>6. CASE LookForFinal(r)
  <2>1. identity' = identity /\ identity.sound
    BY <1>6 DEF LookForFinal, AllIsWell
  <2>2. \/ ~Published /\ GoesOn(r, "stage")
        \/ identity.marker /\ GoesOn(r, "verify")
        \/ ~identity.marker /\ GoesOn(r, "load")
    BY <1>5, <1>6 DEF LookForFinal
  <2>3. \/ ~Published' /\ run'[r].at = "stage"
        \/ identity'.marker /\ run'[r].at = "verify"
        \/ ~identity'.marker /\ run'[r].at = "load"
    BY <2>1, <2>2, GoesOnSteps DEF StepsTo, Places, Published
  <2>. QED  BY <1>1, <1>2, <1>3, <1>4, <2>3, BehindTheTree DEF FindsItsNeeds
<1>7. CASE Stage(r) \/ Own(r) \/ Fill(r)
  <2>1. identity' = identity /\ ~Published
    BY <1>7 DEF Stage, Own, Fill, AllIsWell
  <2>2. GoesOn(r, "own") \/ GoesOn(r, "fill") \/ GoesOn(r, "publish")
    BY <1>5, <1>7 DEF Stage, Own, Fill
  <2>3. run'[r].at \in {"own", "fill", "publish"} /\ ~Published'
    BY <2>1, <2>2, GoesOnSteps DEF StepsTo, Places, Published
  <2>. QED  BY <1>1, <1>2, <1>3, <1>4, <2>3, BehindTheTree DEF FindsItsNeeds
<1>8. CASE Unmark(r)
  <2>1. identity' = identity /\ identity.marker /\ GoesOn(r, "unlink")
    BY <1>8 DEF Unmark, AllIsWell
  <2>2. run'[r].at = "unlink" /\ identity'.marker
    BY <2>1, GoesOnSteps DEF StepsTo, Places
  <2>. QED  BY <1>1, <1>2, <1>3, <1>4, <2>2, BehindTheTree DEF FindsItsNeeds
<1>9. CASE Unlink(r)
  <2>1. identity' = [identity EXCEPT !.marker = FALSE] /\ GoesOn(r, "load")
    BY <1>9 DEF Unlink, AllIsWell
  <2>2. run'[r].at = "load" /\ ~identity'.marker
    BY <2>1, GoesOnSteps DEF StepsTo, Places, TlsTypeOK
  <2>. QED  BY <1>1, <1>2, <1>3, <1>4, <2>2, BehindTheTree DEF FindsItsNeeds
<1>10. CASE Audit(r)
  <2>1. TreeIsRight
    <3>1. dir[r] = "none"
      BY <1>10 DEF Audit, StagingInv, AllIsWell
    <3>2. Transients = {}
      BY <3>1 DEF Transients, AllIsWell
    <3>3. Published /\ ~identity.marker /\ identity.sound
      BY <1>10 DEF Audit, OutcomeInv, AllIsWell
    <3>. QED  BY <1>5, <3>2, <3>3 DEF TreeIsRight, Levels
  <2>2. GoesOn(r, "done")
    BY <1>10, <2>1 DEF Audit
  <2>3. run'[r].at = "done"
    BY <2>2, GoesOnSteps DEF StepsTo, Places, RunEnded
  <2>. QED  BY <1>1, <1>2, <1>3, <1>4, <2>3, BehindTheTree DEF FindsItsNeeds
<1>11. CASE CleanUp(r)
  <2>1. GoesOn(r, "handle") /\ identity' = identity /\ Published /\ ~run[r].retried
    BY <1>11 DEF CleanUp, Cleaned, AllIsWell
  <2>2. run'[r].at = "handle" /\ Published'
    BY <2>1, GoesOnSteps DEF StepsTo, Places, Published
  <2>. QED  BY <1>1, <1>2, <1>3, <1>4, <2>1, <2>2, BehindTheTree DEF FindsItsNeeds
<1>. QED
  BY <1>2, <1>6, <1>7, <1>8, <1>9, <1>10, <1>11 DEF Moves, Wait, TimeOut, RollHub, RollProduct

LEMMA LoneFinishes ==
    ASSUME TlsInv, NEW r \in Runs, AllIsWell(r), run[r].kind = "permanent",
           Publish(r) \/ Verify(r) \/ LoadStrictly(r) \/ Handle(r)
    PROVE  AllIsWell(r)'
<1>. USE DEF TlsInv
<1>1. OfRun(r) /\ folder' = folder /\ run[r].at \notin {"see", "make", "guard"}
  BY DEF OfRun, Preparing, Finishing, Publish, Verify, LoadStrictly, Handle
<1>2. /\ ~run[r].hit /\ ~run[r].waiting /\ identity.sound
  BY DEF AllIsWell
<1>3. CASE Publish(r)
  <2>1. ~Published
    BY <1>3 DEF Publish, AllIsWell
  <2>2. /\ run'[r].at = "verify" /\ run'[r].level = run[r].level /\ ~run'[r].hit
        /\ run'[r].waiting = run[r].waiting
        /\ identity' = [id |-> r, marker |-> TRUE, sound |-> dir[r] = "complete"]
    BY <1>2, <1>3, <2>1, PublishLands
  <2>3. identity'.marker /\ ~run'[r].waiting
    BY <1>2, <2>2
  <2>. QED  BY <1>1, <2>2, <2>3, BehindTheTree DEF FindsItsNeeds
<1>4. CASE Verify(r)
  <2>1. identity' = identity /\ identity.marker
    BY <1>4 DEF Verify, AllIsWell
  <2>2. run'[r].at = "unmark" /\ run'[r].level = run[r].level /\ ~run'[r].hit /\ ~run'[r].waiting
    BY <1>2, <1>4, <2>1, VerifyLands
  <2>. QED  BY <1>1, <2>1, <2>2, BehindTheTree DEF FindsItsNeeds
<1>5. CASE LoadStrictly(r)
  <2>1. identity' = identity /\ ~identity.marker
    BY <1>5 DEF LoadStrictly, AllIsWell
  <2>2. /\ run'[r].at \in {"audit", "done"} /\ run'[r].level = run[r].level
        /\ ~run'[r].hit /\ ~run'[r].waiting
    BY <1>2, <1>5, <2>1, LoadLands
  <2>. QED  BY <1>1, <2>1, <2>2, BehindTheTree DEF FindsItsNeeds
<1>6. CASE Handle(r)
  <2>1. Published /\ ~run[r].retried
    BY <1>6 DEF Handle, AllIsWell
  <2>2. /\ run'[r].at = "look" /\ run'[r].level = run[r].level
        /\ ~run'[r].hit /\ run'[r].waiting = run[r].waiting
    BY <1>2, <1>6, <2>1, HandleLands
  <2>. QED  BY <1>1, <1>2, <2>2, BehindTheTree DEF FindsItsNeeds
<1>. QED  BY <1>3, <1>4, <1>5, <1>6

LEMMA LoneKept == ASSUME TlsInv, [TlsNext]_tlsVars PROVE LoneInv'
<1>. SUFFICES ASSUME NEW r \in Runs, run'[r].kind = "permanent", run'[r].alone,
                     run'[r].at # "dead"
              PROVE  AllIsWell(r)'
  BY DEF LoneInv
<1>. USE DEF TlsInv
<1>1. ASSUME NEW q \in Runs, OfRun(q)
      PROVE  AllIsWell(r)'
  <2>1. run[r].kind = "permanent" /\ run[r].alone /\ run[r].at # "dead"
    BY <1>1, RunsLand
  <2>2. AllIsWell(r)
    BY <2>1 DEF LoneInv
  <2>3. q = r
    BY <1>1, <2>2, NobodyElse
  <2>4. ~Fault(r) /\ ~Discard(r) /\ ~Die(r)
    <3>1. ~Fault(r)
      BY FaultLands
    <3>2. ~Die(r)
      BY GoesOnSteps DEF Die, StepsTo, Places, RunEnded
    <3>. QED  BY <2>1, <3>1, <3>2 DEF Discard
  <2>. QED
    BY <1>1, <2>1, <2>2, <2>3, <2>4, OfRunSplits, LoneSees, LoneMakes, LoneMoves, LoneFinishes
<1>2. ASSUME NEW b \in Runs, NEW k \in Kinds, Begin(b, k)
      PROVE  AllIsWell(r)'
  <2>1. b = r
    BY <1>2, BeginLands
  <2>2. CleanDisk /\ UNCHANGED <<folder, identity, dir>>
    BY <1>2, <2>1, BeginLands DEF Begin
  <2>3. /\ ~run'[r].hit /\ ~run'[r].waiting /\ ~run'[r].retried /\ run'[r].at = "see"
        /\ run'[r].level = "product"
    BY <1>2, <2>1, BeginLands
  <2>4. \A q \in Runs \ {r} : run'[q].at \in RunEnded /\ dir'[q] = "none"
    BY <1>2, <2>1, <2>2, BeginLands DEF CleanDisk, Transients, InProgress
  <2>. QED  BY <2>2, <2>3, <2>4 DEF CleanDisk, AllIsWell
<1>3. CASE Damage
  BY <1>3, DamageLands
<1>4. CASE Serve \/ UNCHANGED tlsVars
  BY <1>4 DEF Serve, tlsVars, LoneInv, AllIsWell, Published
<1>. QED  BY <1>1, <1>2, <1>3, <1>4, TlsSplits

(* The invariant of the Hub's identity.                                     *)
THEOREM IdentityInvariant == TlsSpec => []TlsInv
<1>1. TlsInv /\ [TlsNext]_tlsVars => TlsInv'
  BY TlsTypesKept, HubKept, UsedKept, StagingKept, OutcomeKept, BareKept, LoneKept DEF TlsInv
<1>. QED  BY <1>1, TlsStarts, PTL DEF TlsSpec

(* Type correctness.                                                        *)
THEOREM IdentityTypes == TlsSpec => []TlsTypeOK
  BY IdentityInvariant, PTL DEF TlsInv

(* Every run of the bootstrap that succeeds, whatever raised or died and    *)
(* however the runs overlapped, answers with the one identity that was      *)
(* published, finished; only the run that published it calls it created.    *)
THEOREM OneIdentity == TlsSpec => []ResultsAgree
<1>1. TlsInv => ResultsAgree
  BY DEF TlsInv, OutcomeInv, ResultsAgree
<1>. QED  BY <1>1, IdentityInvariant, PTL

(* A bootstrap that starts on a disk without leftovers, with nobody else at *)
(* work and no error of the system, succeeds: after any history.            *)
THEOREM AloneItSucceeds == TlsSpec => []LoneRunSucceeds
<1>1. TlsInv => LoneRunSucceeds
  BY DEF TlsInv, LoneInv, AllIsWell, LoneRunSucceeds
<1>. QED  BY <1>1, IdentityInvariant, PTL

(* A run that has ended leaves no staging directory and no unprotected one  *)
(* behind, unless it was killed or an operation of it raised.               *)
THEOREM RunsCleanUp == TlsSpec => []LeavesNothing
<1>1. TlsInv => LeavesNothing
  BY DEF TlsInv, StagingInv, BareInv, LeavesNothing
<1>. QED  BY <1>1, IdentityInvariant, PTL

(* A published identity is never replaced or removed, its marker does not   *)
(* come back, and the directories above it stay.                            *)
THEOREM IdentityIsForEver == TlsSpec => PublishedStays
<1>1. ASSUME TlsInv, [TlsNext]_tlsVars, Published
      PROVE  /\ identity'.id = identity.id
             /\ identity'.marker => identity.marker
             /\ \A l \in Levels : folder[l] # "absent" => folder'[l] # "absent"
  <2>1. identity'.id = identity.id /\ (identity'.marker => identity.marker)
    BY <1>1, IdentitySteps DEF TlsInv
  <2>2. folder["hub"] # "absent" /\ TlsTypeOK
    BY <1>1 DEF TlsInv, HubInv
  <2>3. \A r \in Runs : run[r].level \in Levels
    BY <2>2 DEF TlsTypeOK, RunRecord
  <2>4. folder' = folder \/ \E k \in Levels, x \in {"bare", "protected"} :
                              folder' = [folder EXCEPT ![k] = x]
    BY <1>1, <2>2, <2>3, FolderSteps
  <2>5. \A l \in Levels : folder[l] # "absent" => folder'[l] # "absent"
    BY <2>2, <2>4 DEF TlsTypeOK
  <2>. QED  BY <2>1, <2>5
<1>2. TlsInv /\ [TlsNext]_tlsVars =>
        [Published => /\ identity'.id = identity.id
                      /\ identity'.marker => identity.marker
                      /\ \A l \in Levels : folder[l] # "absent" => folder'[l] # "absent"]_tlsVars
  BY <1>1
<1>. QED  BY <1>2, IdentityInvariant, PTL DEF TlsSpec, PublishedStays
------------------------------------------------------------------------------
(* The refinement: the register that the bootstrap implements.              *)

ToldTo(r) == IF run[r].kind # "rotate" /\ run[r].at = "done"
               THEN [id |-> run[r].result, created |-> run[r].created]
               ELSE [id |-> NoId, created |-> FALSE]

(* A run that is over stays as it is.                                       *)
LEMMA OverIsOver ==
    ASSUME NEW r \in Runs, OfRun(r), run[r].at = "done"
    PROVE  run' = run /\ identity' = identity
<1>1. Discard(r)
  BY OfRunSplits
  DEF See, Guard, Moves, Publish, Verify, LoadStrictly, Handle, Fault, Make, LookForFinal, Stage,
      Own, Fill, Wait, TimeOut, Unmark, Unlink, Audit, CleanUp, RollHub, RollProduct, Die,
      InProgress, RunEnded
<1>. QED  BY <1>1 DEF Discard

(* Only a strict load or an audit makes a run answer, and neither touches   *)
(* the identity.                                                            *)
LEMMA AnswersLeaveIdentity ==
    ASSUME TlsTypeOK, NEW r \in Runs, OfRun(r),
           run'[r].at = "done", run'[r].kind # "rotate"
    PROVE  identity' = identity
<1>1. CASE run[r].at = "done"
  BY <1>1, OverIsOver
<1>2. CASE run[r].at # "done"
  <2>1. ~See(r) /\ ~Guard(r)
    BY SeeLands, EntersLands DEF Guard, StepsTo
  <2>2. ~Publish(r) /\ ~Verify(r) /\ ~Handle(r) /\ ~Fault(r) /\ ~Discard(r)
    BY <1>2, PublishLands, VerifyLands, HandleLands, FaultLands DEF Discard
  <2>3. CASE Moves(r)
    <3>1. Audit(r) \/ Fill(r)
      BY <2>3, MovesStep DEF MovesOn
    <3>. QED  BY <3>1 DEF Audit, Fill
  <2>4. CASE LoadStrictly(r)
    BY <2>4 DEF LoadStrictly
  <2>. QED  BY <2>1, <2>2, <2>3, <2>4, OfRunSplits
<1>. QED  BY <1>1, <1>2

(* The first answer of a run is one the register gives.                     *)
LEMMA AnswerIsTold ==
    ASSUME TlsInv, NEW r \in Runs, OfRun(r), run[r].at # "done",
           run'[r].at = "done", run'[r].kind # "rotate"
    PROVE  /\ identity' = identity /\ Published /\ ~identity.marker
           /\ ToldTo(r) = Register!NotTold
           /\ \E created \in BOOLEAN :
                /\ created => identity.id = r
                /\ ToldTo(r)' = [id |-> identity.id, created |-> created]
<1>. USE DEF TlsInv
<1>1. identity' = identity
  BY AnswersLeaveIdentity
<1>2. /\ Published' /\ run'[r].result = identity'.id /\ ~identity'.marker
      /\ run'[r].created => identity'.id = r
  BY OwnOutcome DEF KnowsTheOutcome
<1>3. Published /\ run'[r].result = identity.id /\ ~identity.marker
      /\ (run'[r].created => identity.id = r)
  BY <1>1, <1>2 DEF Published
<1>4. run'[r].created \in BOOLEAN
  BY RunsLand DEF RunRecord
<1>5. ToldTo(r)' = [id |-> identity.id, created |-> run'[r].created]
  BY <1>3 DEF ToldTo
<1>6. ToldTo(r) = Register!NotTold
  BY DEF ToldTo, Register!NotTold
<1>. QED  BY <1>1, <1>3, <1>4, <1>5, <1>6

(* What a step makes of the three values of the register.                   *)
LEMMA ToldSteps ==
    ASSUME TlsInv, [TlsNext]_tlsVars
    PROVE  \/ Told' = Told
           \/ identity' = identity /\ \E r \in Runs : Register!Tell(r)
<1>. USE DEF TlsInv
<1>0. Told = [q \in Runs |-> ToldTo(q)] /\ Told' = [q \in Runs |-> ToldTo(q)']
  BY DEF Told, ToldTo
<1>1. ASSUME NEW r \in Runs, OfRun(r)
      PROVE  \/ Told' = Told
             \/ identity' = identity /\ Register!Tell(r)
  <2>1. \A q \in Runs \ {r} : ToldTo(q)' = ToldTo(q)
    BY <1>1, RunsLand DEF ToldTo
  <2>2. CASE ToldTo(r)' = ToldTo(r)
    BY <1>0, <2>1, <2>2
  <2>3. CASE run[r].at # "done" /\ run'[r].at = "done" /\ run'[r].kind # "rotate"
    <3>1. /\ identity' = identity /\ Published /\ ~identity.marker
          /\ ToldTo(r) = Register!NotTold
      BY <1>1, <2>3, AnswerIsTold
    <3>2. PICK created \in BOOLEAN : /\ created => identity.id = r
                                     /\ ToldTo(r)' = [id |-> identity.id, created |-> created]
      BY <1>1, <2>3, AnswerIsTold
    <3>3. Told[r] = Register!NotTold
      BY <1>0, <3>1
    <3>4. Told' = [Told EXCEPT ![r] = [id |-> identity.id, created |-> created]]
      BY <1>0, <2>1, <3>2
    <3>5. (Published /\ ~identity.marker)' = (Published /\ ~identity.marker)
      BY <3>1 DEF Published
    <3>. QED  BY <3>1, <3>2, <3>3, <3>4, <3>5 DEF Register!Tell
  <2>4. CASE run[r].at = "done"
    <3>1. run' = run
      BY <1>1, <2>4, OverIsOver
    <3>. QED  BY <2>2, <3>1 DEF ToldTo
  <2>5. CASE run[r].at # "done" /\ ~(run'[r].at = "done" /\ run'[r].kind # "rotate")
    <3>1. ToldTo(r)' = ToldTo(r)
      BY <2>5 DEF ToldTo
    <3>. QED  BY <2>2, <3>1
  <2>. QED  BY <2>3, <2>4, <2>5
<1>2. ASSUME NEW r \in Runs, NEW k \in Kinds, Begin(r, k)
      PROVE  Told' = Told
  <2>1. \A q \in Runs \ {r} : ToldTo(q)' = ToldTo(q)
    BY <1>2, BeginLands DEF ToldTo
  <2>2. run[r].at # "done" /\ run'[r].at # "done"
    BY <1>2, BeginLands
  <2>3. ToldTo(r)' = ToldTo(r)
    BY <2>2 DEF ToldTo
  <2>. QED  BY <1>0, <2>1, <2>3
<1>3. CASE Damage
  <2>1. \A q \in Runs : ToldTo(q)' = ToldTo(q)
    BY <1>3, DamageLands DEF ToldTo
  <2>. QED  BY <1>0, <2>1
<1>4. CASE Serve \/ UNCHANGED tlsVars
  <2>1. run' = run
    BY <1>4 DEF Serve, tlsVars
  <2>. QED  BY <2>1 DEF Told
<1>. QED  BY <1>1, <1>2, <1>3, <1>4, TlsSplits

(* provision_or_load_identity and its callers implement a register that is  *)
(* written once: whatever overlaps, raises or dies, one identity is chosen  *)
(* by a rename, finished once, and then told to all alike.                  *)
THEOREM BootstrapIsRegister == TlsSpec => ImplementsRegister
<1>1. TlsInit => Register!RegisterInit
  <2>. SUFFICES ASSUME TlsInit PROVE Register!RegisterInit
    OBVIOUS
  <2>1. \A r \in Runs : run[r].at = "idle"
    BY DEF TlsInit, NotBegun
  <2>2. identity.id = NoId /\ ~Published
    BY DEF TlsInit, Published
  <2>. QED  BY <2>1, <2>2 DEF Register!RegisterInit, Register!NotTold, Told
<1>2. ASSUME TlsInv, [TlsNext]_tlsVars
      PROVE  [Register!RegisterNext]_(Register!registerVars)
  <2>. DEFINE Finished == Published /\ ~identity.marker
  <2>. USE DEF TlsInv
  <2>1. CASE identity' = identity
    <3>1. Finished' = Finished
      BY <2>1 DEF Published
    <3>. QED  BY <1>2, <2>1, <3>1, ToldSteps DEF Register!RegisterNext, Register!registerVars
  <2>2. CASE identity' # identity
    <3>1. Told' = Told
      BY <1>2, <2>2, ToldSteps
    <3>2. CASE ~Published
      <4>1. PICK r \in Runs : Publish(r)
        BY <1>2, <2>2, <3>2, IdentitySteps
      <4>2. identity' = [id |-> r, marker |-> TRUE, sound |-> dir[r] = "complete"]
        BY <1>2, <3>2, <4>1, PublishLands
      <4>3. identity.id = NoId /\ identity'.id = r /\ ~Finished /\ ~Finished'
        BY <3>2, <4>2 DEF Published
      <4>. QED  BY <3>1, <4>3 DEF Register!RegisterNext, Register!Choose
    <3>3. CASE Published
      <4>1. identity'.id = identity.id /\ (identity'.marker => identity.marker) /\ identity.id # NoId
        BY <1>2, <3>3, IdentitySteps DEF Published
      <4>2. CASE Finished' = Finished
        BY <3>1, <4>1, <4>2 DEF Register!registerVars
      <4>3. CASE ~Finished /\ Finished'
        BY <3>1, <4>1, <4>3 DEF Register!RegisterNext, Register!Finish
      <4>4. Finished => Finished'
        BY <4>1 DEF Published
      <4>5. Finished \in BOOLEAN /\ Finished' \in BOOLEAN
        BY DEF Published
      <4>. QED  BY <4>2, <4>3, <4>4, <4>5
    <3>. QED  BY <3>2, <3>3
  <2>. QED  BY <2>1, <2>2
<1>. QED  BY <1>1, <1>2, IdentityInvariant, PTL DEF TlsSpec, ImplementsRegister, Register!RegisterSpec
============================================================================
