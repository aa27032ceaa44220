--------------------------- MODULE Services_proofs ---------------------------
(****************************************************************************)
(* Theorems about the Hub's services, for any files, messages, calls,       *)
(* workers and bounds.                                                      *)
(*                                                                          *)
(* FileOrganizer: the journal on disk always names what has been moved      *)
(* away, and no step of the service loses or rewrites a file.               *)
(*                                                                          *)
(* ConversationGateway: an operation that has done something is not begun   *)
(* again.                                                                   *)
(*                                                                          *)
(* HubLifetime: an answered call of the completion-certain kind is over, a  *)
(* pool that was shut holds nothing, and the Hub stops in order.            *)
(*                                                                          *)
(* HubProcess: whatever raises, a Hub that has ended tried every close, one *)
(* without its planner holds nothing of it, and the tool bridge's calls     *)
(* find their stores open.                                                  *)
(****************************************************************************)
EXTENDS FileOrganizer, ConversationGateway, HubLifetime, HubProcess, FiniteSetTheorems, TLAPS

(* FileOrganizer.                                                           *)

(* The user only previews files that are there.                             *)
Previewed(p) == \A f \in p.files : p.evidence[f] # 0

PreviewInv == preview # NoPreview => Previewed(preview)

(* A file the service has moved away is in the archive, until the user      *)
(* deletes it there.                                                        *)
PlacedInv == \A f \in placed : archive[f] # 0

(* What the running operation knows of the journal at each of its places.   *)
JobInv ==
    /\ pc \in {"plan", "save", "move", "recover", "recoverBack"} => Previewed(job)
    /\ pc \in {"plan", "save"} => journal = NoJournal
    /\ pc = "move" => journal # NoJournal
    /\ pc # "idle" /\ journal # NoJournal => journal.files = job.files
    /\ pc \in GoingBack \ {"innerBack"} => placed \subseteq todo

OrganizerInv == TypeOK /\ Reversible /\ PreviewInv /\ PlacedInv /\ JobInv

------------------------------------------------------------------------------
LEMMA OrganizerInit == Init => OrganizerInv
<1>. SUFFICES ASSUME Init
              PROVE  OrganizerInv
  OBVIOUS
<1>1. NoFiles \in [Files -> Nat]
  BY DEF NoFiles
<1>2. NoJob \in Plans
  BY <1>1 DEF NoJob, Plans
<1>3. TypeOK
  BY <1>1, <1>2 DEF Init, TypeOK, NoGrant
<1>4. Reversible /\ PreviewInv /\ PlacedInv /\ JobInv
  BY DEF Init, Reversible, PreviewInv, PlacedInv, JobInv, GoingBack
<1>. QED  BY <1>3, <1>4 DEF OrganizerInv

(* The user changes the folders and can only take files off the list of what*)
(* has been moved away.                                                     *)
LEMMA UserKeeps ==
    ASSUME OrganizerInv, NEW g \in Files, WriteFile(g) \/ DeleteFile(g)
    PROVE  OrganizerInv'
<1>. USE DEF OrganizerInv
<1>1. /\ root' \in [Files -> Nat] /\ archive' \in [Files -> Nat] /\ version' \in Nat
      /\ placed' \subseteq placed
      /\ \A f \in placed' : archive'[f] # 0
      /\ UNCHANGED <<scopes, journal, preview, operation>>
  <2>1. CASE WriteFile(g)
    BY <2>1 DEF WriteFile, TypeOK, PlacedInv
  <2>2. CASE DeleteFile(g)
    BY <2>2 DEF DeleteFile, TypeOK, PlacedInv
  <2>. QED  BY <2>1, <2>2
<1>2. TypeOK'
  BY <1>1 DEF TypeOK, scopes, operation, Plans
<1>3. Reversible' /\ PreviewInv' /\ PlacedInv'
  BY <1>1 DEF Reversible, PreviewInv, PlacedInv, Previewed
<1>4. JobInv'
  BY <1>1 DEF JobInv, operation, Previewed
<1>. QED  BY <1>2, <1>3, <1>4

(* Authorizing, revoking, previewing and a restart leave the journal and the*)
(* folders alone.                                                           *)
LEMMA ScopesKeep ==
    ASSUME OrganizerInv,
           \/ AuthorizeRead \/ AuthorizeSave \/ AuthorizeInstall
           \/ RevokeClear \/ RevokeInstall \/ Restart
           \/ \E s \in SUBSET Files : Preview(s)
    PROVE  OrganizerInv'
<1>. USE DEF OrganizerInv
<1>1. /\ UNCHANGED <<folders, journal, placed>>
      /\ \/ UNCHANGED operation
         \/ pc' = "idle" /\ job' = NoJob /\ todo' = {}
  BY DEF AuthorizeRead, AuthorizeSave, AuthorizeInstall, RevokeClear, RevokeInstall, Restart,
         Preview, operation, scopes
<1>2. scope' \in Nat /\ saved' \in Nat /\ lastRoot' \in Nat
  BY DEF AuthorizeRead, AuthorizeSave, AuthorizeInstall, RevokeClear, RevokeInstall, Restart,
         Preview, scopes, TypeOK
<1>3. granting' \in [at : {"none", "save", "install"}, root : Nat] /\ revoking' \in BOOLEAN
  <2>1. CASE AuthorizeRead
    BY <2>1 DEF AuthorizeRead, TypeOK, NoGrant
  <2>2. CASE AuthorizeSave
    BY <2>2 DEF AuthorizeSave, TypeOK, NoGrant
  <2>3. CASE AuthorizeInstall
    BY <2>3 DEF AuthorizeInstall, TypeOK, NoGrant
  <2>4. CASE RevokeClear
    BY <2>4 DEF RevokeClear, TypeOK
  <2>5. CASE RevokeInstall
    BY <2>5 DEF RevokeInstall, TypeOK
  <2>6. CASE Restart
    BY <2>6 DEF Restart, TypeOK, NoGrant
  <2>7. CASE \E s \in SUBSET Files : Preview(s)
    BY <2>7 DEF Preview, scopes, TypeOK
  <2>. QED  BY <2>1, <2>2, <2>3, <2>4, <2>5, <2>6, <2>7
<1>4. preview' = preview \/ (preview' \in Plans /\ Previewed(preview'))
  BY DEF AuthorizeRead, AuthorizeSave, AuthorizeInstall, RevokeClear, RevokeInstall, Restart,
         Preview, Plans, Previewed, TypeOK
<1>5. job' \in Plans /\ todo' \subseteq job'.files
  <2>1. NoFiles \in [Files -> Nat]
    BY DEF NoFiles
  <2>2. NoJob \in Plans
    BY <2>1 DEF NoJob, Plans
  <2>. QED  BY <1>1, <2>2 DEF TypeOK, operation
<1>6. TypeOK'
  BY <1>1, <1>2, <1>3, <1>4, <1>5 DEF TypeOK, folders, operation
<1>7. Reversible' /\ PreviewInv' /\ PlacedInv'
  BY <1>1, <1>4 DEF Reversible, PreviewInv, PlacedInv, Previewed, folders
<1>8. JobInv'
  BY <1>1 DEF JobInv, operation, Previewed, GoingBack
<1>. QED  BY <1>6, <1>7, <1>8

(* The steps up to the first move: a plan is only made without a journal.   *)
LEMMA BeginningKeeps ==
    ASSUME OrganizerInv, Organize \/ Undo \/ Plan \/ MoveFails
    PROVE  OrganizerInv'
<1>. USE DEF OrganizerInv
<1>1. UNCHANGED <<folders, scopes, journal, preview, placed>>
  BY DEF Organize, Undo, Plan, MoveFails
<1>2. pc' \in {"idle", "plan", "save", "inner", "recover", "undo"} /\ todo' \subseteq job'.files
  BY DEF Organize, Undo, Plan, MoveFails, TypeOK
<1>3. job' \in Plans
  BY DEF Organize, Undo, Plan, MoveFails, TypeOK, Plans
<1>4. TypeOK'
  BY <1>1, <1>2, <1>3 DEF TypeOK, folders, scopes, Plans
<1>5. Reversible' /\ PreviewInv' /\ PlacedInv'
  BY <1>1 DEF Reversible, PreviewInv, PlacedInv, Previewed, folders
<1>6. JobInv'
  BY <1>1 DEF Organize, Undo, Plan, MoveFails, JobInv, Matches, PreviewInv, Previewed, GoingBack
<1>. QED  BY <1>4, <1>5, <1>6

(* The journal is on disk before the first move, and after the last one it  *)
(* still names the same files.                                              *)
LEMMA SavesKeep ==
    ASSUME OrganizerInv, SavePrepared \/ SaveCompleted
    PROVE  OrganizerInv'
<1>. USE DEF OrganizerInv
<1>1. /\ UNCHANGED <<folders, scopes, preview, job, todo, placed>>
      /\ pc \in {"save", "move"} /\ pc' \in {"idle", "move", "outer"}
  BY DEF SavePrepared, SaveCompleted, Save
<1>2. \/ journal' = journal /\ pc' = "outer"
      \/ \E s \in {"prepared", "completed"} : journal' = Entry(s)
  BY DEF SavePrepared, SaveCompleted, Save
<1>3. \A s \in {"prepared", "completed"} :
        /\ Entry(s) # NoJournal /\ Entry(s).files = job.files
        /\ Entry(s) \in [state : {"prepared", "completed"}, root : Nat,
                         files : SUBSET Files, evidence : [Files -> Nat]]
  BY OrganizerAssumption DEF Entry, TypeOK, Plans
<1>4. TypeOK'
  BY <1>1, <1>2, <1>3 DEF TypeOK, folders, scopes, Plans
<1>5. placed \subseteq job.files
  BY <1>1 DEF JobInv, Reversible
<1>6. Reversible' /\ PreviewInv' /\ PlacedInv'
  BY <1>1, <1>2, <1>3, <1>5 DEF Reversible, PreviewInv, PlacedInv, Previewed, folders
<1>7. JobInv'
  BY <1>1, <1>2, <1>3 DEF JobInv, Previewed, GoingBack
<1>. QED  BY <1>4, <1>6, <1>7

LEMMA MoveFileKeeps ==
    ASSUME OrganizerInv, NEW g \in Files, MoveFile(g)
    PROVE  OrganizerInv'
<1>. USE DEF OrganizerInv, MoveFile
<1>1. root[g] # 0 /\ g \in job.files
  BY DEF JobInv, Previewed, TypeOK
<1>2. TypeOK'
  BY DEF TypeOK, scopes, Plans
<1>3. Reversible' /\ PreviewInv' /\ PlacedInv'
  BY <1>1 DEF JobInv, Reversible, PreviewInv, PlacedInv, Previewed, TypeOK
<1>4. JobInv'
  BY DEF JobInv, Previewed, GoingBack
<1>. QED  BY <1>2, <1>3, <1>4

(* A rollback starts from where the files are, so what it has to bring back *)
(* holds all that has been moved away.                                      *)
LEMMA CheckRollbackKeeps ==
    ASSUME OrganizerInv, CheckRollback
    PROVE  OrganizerInv'
<1>. USE DEF OrganizerInv
<1>1. UNCHANGED <<folders, scopes, journal, preview, job, placed>>
  BY DEF CheckRollback
<1>2. /\ pc' \in {"idle", "outer"} \cup GoingBack
      /\ pc' = "recoverBack" => pc = "recover"
      /\ pc # "idle"
  BY DEF CheckRollback, After, Back, GoingBack
<1>3. /\ todo' \subseteq job.files
      /\ pc' \in GoingBack /\ pc' # "innerBack"
           => todo' = {f \in job.files : archive[f] # 0}
  BY DEF CheckRollback, After, Back, GoingBack, RollbackSet, TypeOK
<1>4. TypeOK'
  BY <1>1, <1>2, <1>3 DEF TypeOK, folders, scopes, Plans, GoingBack
<1>5. Reversible' /\ PreviewInv' /\ PlacedInv'
  BY <1>1 DEF Reversible, PreviewInv, PlacedInv, Previewed, folders
<1>6. placed \subseteq {f \in job.files : archive[f] # 0}
  BY <1>2 DEF JobInv, Reversible, PlacedInv
<1>7. JobInv'
  BY <1>1, <1>2, <1>3, <1>6 DEF JobInv, Previewed, GoingBack
<1>. QED  BY <1>4, <1>5, <1>7

LEMMA MoveBackKeeps ==
    ASSUME OrganizerInv, NEW g \in Files, MoveBack(g)
    PROVE  OrganizerInv'
<1>. USE DEF OrganizerInv, MoveBack
<1>1. TypeOK'
  BY DEF TypeOK, scopes, Plans
<1>2. Reversible' /\ PreviewInv' /\ PlacedInv'
  BY DEF Reversible, PreviewInv, PlacedInv, Previewed, TypeOK
<1>3. JobInv'
  BY DEF JobInv, Previewed, GoingBack
<1>. QED  BY <1>1, <1>2, <1>3

(* The journal goes only once nothing is left to bring back.                *)
LEMMA RollbackEndsKeep ==
    ASSUME OrganizerInv, MoveBackFails \/ RolledBack
    PROVE  OrganizerInv'
<1>. USE DEF OrganizerInv
<1>1. /\ UNCHANGED <<folders, scopes, preview, job, placed>>
      /\ todo' = {} /\ pc \in GoingBack /\ pc' \in {"idle", "outer", "plan"}
  BY DEF MoveBackFails, RolledBack, After
<1>2. \/ journal' = journal /\ pc' # "plan"
      \/ journal' = NoJournal /\ placed = {}
  BY DEF MoveBackFails, RolledBack, After, JobInv, GoingBack
<1>3. /\ pc' = "plan" => journal' = NoJournal /\ pc = "recoverBack"
      /\ pc' # "plan" => pc' \in {"idle", "outer"}
  BY DEF MoveBackFails, RolledBack, After, GoingBack
<1>4. TypeOK'
  BY <1>1, <1>2 DEF TypeOK, folders, scopes, Plans
<1>5. Reversible' /\ PreviewInv' /\ PlacedInv'
  BY <1>1, <1>2 DEF Reversible, PreviewInv, PlacedInv, Previewed, folders
<1>6. JobInv'
  BY <1>1, <1>2, <1>3 DEF JobInv, Previewed, GoingBack
<1>. QED  BY <1>4, <1>5, <1>6

LEMMA OrganizerNext == OrganizerInv /\ [Next]_vars => OrganizerInv'
<1>. SUFFICES ASSUME OrganizerInv, [Next]_vars
              PROVE  OrganizerInv'
  OBVIOUS
<1>1. CASE User
  BY <1>1, UserKeeps DEF User
<1>2. CASE \/ AuthorizeRead \/ AuthorizeSave \/ AuthorizeInstall
           \/ RevokeClear \/ RevokeInstall \/ Restart
           \/ \E s \in SUBSET Files : Preview(s)
  BY <1>2, ScopesKeep
<1>3. CASE Organize \/ Undo \/ Plan \/ MoveFails
  BY <1>3, BeginningKeeps
<1>4. CASE SavePrepared \/ SaveCompleted
  BY <1>4, SavesKeep
<1>5. CASE \E f \in Files : MoveFile(f) \/ MoveBack(f)
  BY <1>5, MoveFileKeeps, MoveBackKeeps
<1>6. CASE CheckRollback
  BY <1>6, CheckRollbackKeeps
<1>7. CASE MoveBackFails \/ RolledBack
  BY <1>7, RollbackEndsKeep
<1>8. CASE UNCHANGED vars
  <2>1. UNCHANGED <<folders, scopes, journal, preview, operation, placed>>
    BY <1>8 DEF vars
  <2>2. TypeOK'
    BY <2>1 DEF OrganizerInv, TypeOK, folders, scopes, operation, Plans
  <2>3. Reversible' /\ PreviewInv' /\ PlacedInv' /\ JobInv'
    BY <2>1 DEF OrganizerInv, Reversible, PreviewInv, PlacedInv, JobInv, Previewed, folders,
                operation
  <2>. QED  BY <2>2, <2>3 DEF OrganizerInv
<1>. QED  BY <1>1, <1>2, <1>3, <1>4, <1>5, <1>6, <1>7, <1>8 DEF Next, Step

(* The inductive invariant: types, Reversible, and what the running         *)
(* operation knows of its journal (_apply_organization, _rollback_moves).   *)
THEOREM OrganizerInvariant == Spec => []OrganizerInv
<1>. QED  BY OrganizerInit, OrganizerNext, PTL DEF Spec

(* Every file organize has moved away and not brought back is named by the  *)
(* journal on disk, wherever the process dies and whatever the user does.   *)
THEOREM AlwaysReversible == Spec => []Reversible
<1>1. OrganizerInv => Reversible
  BY DEF OrganizerInv
<1>. QED  BY <1>1, OrganizerInvariant, PTL

------------------------------------------------------------------------------
(* What a step that only moves one file leaves.                             *)
LEMMA PresentMembers ==
    ASSUME NEW p
    PROVE  p \in Present <=> \E f \in Files : \/ root[f] # 0 /\ p = <<f, root[f]>>
                                              \/ archive[f] # 0 /\ p = <<f, archive[f]>>
BY DEF Present

LEMMA MovesLoseNothing ==
    ASSUME TypeOK, NEW g \in Files, MoveFile(g) \/ MoveBack(g)
    PROVE  Present' = Present
<1>1. /\ root \in [Files -> Nat] /\ archive \in [Files -> Nat]
      /\ \A f \in Files \ {g} : root'[f] = root[f] /\ archive'[f] = archive[f]
      /\ \/ archive[g] = 0 /\ root'[g] = 0 /\ archive'[g] = root[g]
         \/ root[g] = 0 /\ archive'[g] = 0 /\ root'[g] = archive[g]
  BY DEF TypeOK, MoveFile, MoveBack
<1>2. ASSUME NEW p
      PROVE  p \in Present' <=> p \in Present
  <2>1. p \in Present <=> \E f \in Files : \/ root[f] # 0 /\ p = <<f, root[f]>>
                                           \/ archive[f] # 0 /\ p = <<f, archive[f]>>
    BY PresentMembers
  <2>2. p \in Present' <=> \E f \in Files : \/ root'[f] # 0 /\ p = <<f, root'[f]>>
                                            \/ archive'[f] # 0 /\ p = <<f, archive'[f]>>
    BY DEF Present
  <2>. QED  BY <1>1, <2>1, <2>2
<1>. QED  BY <1>2

(* No step of the service, a crash included, destroys, renames or rewrites a*)
(* file: what is in the two folders changes only by the user's hand.        *)
THEOREM ServiceLosesNothing == Spec => NothingLost
<1>1. TypeOK /\ [Next]_vars => [User \/ Present' = Present]_vars
  <2>. SUFFICES ASSUME TypeOK, Next
                PROVE  User \/ Present' = Present
    OBVIOUS
  <2>1. CASE \E f \in Files : MoveFile(f) \/ MoveBack(f)
    BY <2>1, MovesLoseNothing
  <2>2. CASE User
    BY <2>2
  <2>3. CASE UNCHANGED folders
    BY <2>3 DEF Present, folders
  <2>4. Next => \/ User \/ UNCHANGED folders
                \/ \E f \in Files : MoveFile(f) \/ MoveBack(f)
    BY DEF Next, Step, AuthorizeRead, AuthorizeSave, AuthorizeInstall, RevokeClear,
           RevokeInstall, Organize, Undo, Restart, Preview, Plan, SavePrepared, SaveCompleted,
           Save, MoveFails, CheckRollback, MoveBackFails, RolledBack
  <2>. QED  BY <2>1, <2>2, <2>3, <2>4
<1>2. OrganizerInv => TypeOK
  BY DEF OrganizerInv
<1>. QED  BY <1>1, <1>2, OrganizerInvariant, PTL DEF Spec, NothingLost
------------------------------------------------------------------------------
(* ConversationGateway.                                                     *)

FlightRecord == [at : {"none", "lookup", "run", "append"}, post : Posts \cup {NoPost}]
TaskRecord == [at : {"none", "lookup", "schedule", "turnAway"}, post : Posts \cup {NoPost}]

(* Whoever is on its way has a message.                                     *)
PostInv == /\ flight.at # "none" => flight.post \in Posts
           /\ \A r \in Requests : task[r].at # "none" => task[r].post \in Posts

(* An operation that has done something has its answer, or lost it, or is   *)
(* about to write it.                                                       *)
RanInv == \A m \in Posts : m \in ran => \/ m \in lost \/ reply[m] # "none"
                                        \/ flight.at = "append" /\ flight.post = m

GatewayInv == GatewayTypeOK /\ PostInv /\ RanInv

LEMMA NoTaskIsTask == NoTask \in FlightRecord /\ NoTask \in TaskRecord
  BY DEF NoTask, FlightRecord, TaskRecord

LEMMA GatewayStarts == GatewayInit => GatewayInv
<1>. SUFFICES ASSUME GatewayInit
              PROVE  GatewayInv
  OBVIOUS
<1>1. NoTask \in FlightRecord /\ NoTask \in TaskRecord
  BY NoTaskIsTask
<1>2. GatewayTypeOK
  BY <1>1, GatewayAssumption DEF GatewayInit, GatewayTypeOK, FlightRecord, TaskRecord
<1>3. PostInv /\ RanInv
  BY DEF GatewayInit, PostInv, RanInv, NoTask
<1>. QED  BY <1>2, <1>3 DEF GatewayInv

LEMMA Proceeds ==
    ASSUME GatewayTypeOK, PostInv, NEW r \in Requests, task[r].at # "none",
           NEW at \in {"none", "schedule", "turnAway"}, Proceed(r, at)
    PROVE  /\ task' \in [Requests -> TaskRecord]
           /\ \A q \in Requests : task'[q].at # "none" => task'[q].post \in Posts
<1>1. task \in [Requests -> TaskRecord] /\ task[r] \in TaskRecord
  BY DEF GatewayTypeOK, TaskRecord
<1>2. PICK t : t = IF at = "none" THEN NoTask ELSE [task[r] EXCEPT !.at = at]
  OBVIOUS
<1>3. t \in TaskRecord /\ (t.at # "none" => t.post = task[r].post)
  BY <1>1, <1>2, NoTaskIsTask DEF TaskRecord, NoTask
<1>4. task' = [task EXCEPT ![r] = t]
  BY <1>2 DEF Proceed
<1>5. task' \in [Requests -> TaskRecord] /\ task'[r] = t
      /\ \A q \in Requests \ {r} : task'[q] = task[q]
  BY <1>1, <1>3, <1>4
<1>. QED  BY <1>3, <1>5 DEF PostInv

(* An answer is written once.                                               *)
LEMMA AnswerStands ==
    ASSUME GatewayTypeOK, NEW m \in Posts, NEW what \in {"notExecuted", "stopped", "result"},
           AnswerPost(m, what)
    PROVE  /\ reply' \in [Posts -> {"none", "notExecuted", "stopped", "result"}]
           /\ reply'[m] # "none" /\ \A p \in Posts : reply[p] # "none" => reply'[p] # "none"
  BY DEF GatewayTypeOK, AnswerPost

(* What requests do before and beside the operation.                        *)
LEMMA RequestsKeep ==
    ASSUME GatewayInv, NEW r \in Requests,
           \/ LookUp(r) \/ Schedule(r) \/ TurnAway(r) \/ TaskFails(r)
           \/ \E m \in Posts : Post(r, m)
    PROVE  GatewayInv'
<1>1. GatewayTypeOK /\ PostInv /\ RanInv
  BY DEF GatewayInv
<1>2. CASE \E m \in Posts : Post(r, m)
  <2>1. PICK m \in Posts : Post(r, m)
    BY <1>2
  <2>2. [at |-> "lookup", post |-> m] \in TaskRecord
    BY DEF TaskRecord
  <2>3. posted' \in [Posts -> 0..MaxPosts]
    <3>1. posted[m] + 1 \in 0..MaxPosts
      BY <1>1, <2>1, GatewayAssumption DEF GatewayTypeOK, Post
    <3>. QED  BY <1>1, <2>1, <3>1 DEF GatewayTypeOK, Post
  <2>4. GatewayTypeOK' /\ PostInv' /\ RanInv'
    BY <1>1, <2>1, <2>2, <2>3 DEF GatewayTypeOK, PostInv, RanInv, Post, TaskRecord
  <2>. QED  BY <2>4 DEF GatewayInv
<1>3. CASE LookUp(r)
  <2>1. PICK at \in {"none", "schedule"} : Proceed(r, at)
    BY <1>3 DEF LookUp
  <2>2. /\ task' \in [Requests -> TaskRecord]
        /\ \A q \in Requests : task'[q].at # "none" => task'[q].post \in Posts
    BY <1>1, <1>3, <2>1, Proceeds DEF LookUp
  <2>. QED
    BY <1>1, <1>3, <2>2 DEF GatewayInv, GatewayTypeOK, PostInv, RanInv, LookUp, TaskRecord
<1>4. CASE Schedule(r)
  <2>1. PICK at \in {"none", "turnAway"} : Proceed(r, at)
    BY <1>4 DEF Schedule
  <2>2. /\ task' \in [Requests -> TaskRecord]
        /\ \A q \in Requests : task'[q].at # "none" => task'[q].post \in Posts
    BY <1>1, <1>4, <2>1, Proceeds DEF Schedule
  <2>3. task[r] \in TaskRecord /\ task[r].at = "schedule" /\ task[r].post \in Posts
    BY <1>1, <1>4 DEF GatewayTypeOK, PostInv, Schedule, TaskRecord
  <2>4. [task[r] EXCEPT !.at = "lookup"] = [at |-> "lookup", post |-> task[r].post]
    BY <2>3 DEF TaskRecord
  <2>5. \/ flight' = flight
        \/ flight = NoTask /\ flight' = [at |-> "lookup", post |-> task[r].post]
    BY <1>4, <2>4 DEF Schedule
  <2>6. flight' \in FlightRecord /\ (flight'.at # "none" => flight'.post \in Posts)
        /\ (flight' = flight \/ flight.at = "none")
    BY <1>1, <2>3, <2>5 DEF GatewayTypeOK, PostInv, FlightRecord, NoTask
  <2>7. UNCHANGED <<posted, reply, ran, lost, accepts>>
    BY <1>4 DEF Schedule
  <2>8. GatewayTypeOK' /\ PostInv'
    BY <1>1, <2>2, <2>6, <2>7 DEF GatewayTypeOK, PostInv, TaskRecord, FlightRecord
  <2>9. RanInv'
    BY <1>1, <2>6, <2>7 DEF RanInv
  <2>. QED  BY <2>8, <2>9 DEF GatewayInv
<1>5. CASE TurnAway(r)
  <2>1. /\ task' \in [Requests -> TaskRecord] /\ task[r].post \in Posts
        /\ \A q \in Requests : task'[q].at # "none" => task'[q].post \in Posts
    BY <1>1, <1>5, Proceeds DEF TurnAway, PostInv
  <2>2. PICK m \in Posts : m = task[r].post
    BY <2>1
  <2>3. /\ reply' \in [Posts -> {"none", "notExecuted", "stopped", "result"}]
        /\ \A p \in Posts : reply[p] # "none" => reply'[p] # "none"
    BY <1>1, <1>5, <2>2, AnswerStands DEF TurnAway
  <2>. QED
    BY <1>1, <1>5, <2>1, <2>3 DEF GatewayInv, GatewayTypeOK, PostInv, RanInv, TurnAway, TaskRecord
<1>6. CASE TaskFails(r)
  <2>1. task[r].at # "none" \/ task[r].post # NoPost
    BY <1>1, <1>6 DEF TaskFails, GatewayTypeOK, NoTask
  <2>2. task' = [task EXCEPT ![r] = NoTask]
    BY <1>6 DEF TaskFails, Proceed
  <2>. QED
    BY <1>1, <1>6, <2>2, NoTaskIsTask
    DEF GatewayInv, GatewayTypeOK, PostInv, RanInv, TaskFails, TaskRecord, NoTask
<1>. QED  BY <1>2, <1>3, <1>4, <1>5, <1>6

(* What the single flight does.                                             *)
LEMMA FlightKeeps ==
    ASSUME GatewayInv, FlightLooks \/ FlightRuns \/ FlightAppends \/ FlightFails
    PROVE  GatewayInv'
<1>1. GatewayTypeOK /\ PostInv /\ RanInv
  BY DEF GatewayInv
<1>2. PICK m \in Posts : m = flight.post
  BY <1>1 DEF PostInv, FlightLooks, FlightRuns, FlightAppends, FlightFails
<1>3. flight \in FlightRecord /\ UNCHANGED <<posted, accepts, task>>
  BY <1>1 DEF GatewayTypeOK, FlightRecord, FlightLooks, FlightRuns, FlightAppends, FlightFails
<1>4. \A at \in {"run", "append"} : [flight EXCEPT !.at = at] = [at |-> at, post |-> m]
  BY <1>2, <1>3 DEF FlightRecord
<1>5. /\ flight' \in FlightRecord /\ (flight'.at # "none" => flight'.post \in Posts)
      /\ flight' = NoTask \/ flight'.post = m
  <2>1. \/ flight' = NoTask \/ flight' = [at |-> "run", post |-> m]
        \/ flight' = [at |-> "append", post |-> m]
    BY <1>4 DEF FlightLooks, FlightRuns, FlightAppends, FlightFails
  <2>. QED  BY <2>1, NoTaskIsTask DEF FlightRecord, NoTask
<1>6. /\ reply' \in [Posts -> {"none", "notExecuted", "stopped", "result"}]
      /\ ran' \subseteq Posts /\ lost' \subseteq Posts
  BY <1>1, <1>2, AnswerStands
  DEF GatewayTypeOK, FlightLooks, FlightRuns, FlightAppends, FlightFails
<1>7. GatewayTypeOK' /\ PostInv'
  BY <1>1, <1>3, <1>5, <1>6 DEF GatewayTypeOK, PostInv, FlightRecord, TaskRecord
<1>8. RanInv'
  <2>1. CASE FlightLooks
    BY <1>1, <2>1 DEF RanInv, FlightLooks
  <2>2. CASE FlightRuns
    <3>1. flight'.at = "append" /\ flight'.post = m
      BY <1>4, <2>2 DEF FlightRuns
    <3>. QED  BY <1>1, <1>2, <2>2, <3>1 DEF RanInv, FlightRuns
  <2>3. CASE FlightAppends
    <3>1. reply'[m] # "none" /\ \A p \in Posts : reply[p] # "none" => reply'[p] # "none"
      BY <1>1, <1>2, <2>3, AnswerStands DEF FlightAppends
    <3>. QED  BY <1>1, <1>2, <2>3, <3>1 DEF RanInv, FlightAppends
  <2>4. CASE FlightFails
    <3>1. CASE AnswerPost(flight.post, "stopped") /\ UNCHANGED lost
      <4>1. reply'[m] # "none" /\ \A p \in Posts : reply[p] # "none" => reply'[p] # "none"
        BY <1>1, <1>2, <3>1, AnswerStands
      <4>. QED  BY <1>1, <1>2, <2>4, <3>1, <4>1 DEF RanInv, FlightFails
    <3>2. CASE lost' = lost \cup {flight.post} /\ UNCHANGED reply
      BY <1>1, <2>4, <3>2 DEF RanInv, FlightFails
    <3>. QED  BY <2>4, <3>1, <3>2 DEF FlightFails
  <2>. QED  BY <2>1, <2>2, <2>3, <2>4
<1>. QED  BY <1>7, <1>8 DEF GatewayInv

LEMMA RestartKeeps == GatewayInv /\ (GatewayRestart \/ StopAccepting) => GatewayInv'
<1>. SUFFICES ASSUME GatewayInv, GatewayRestart \/ StopAccepting
              PROVE  GatewayInv'
  OBVIOUS
<1>1. GatewayTypeOK /\ PostInv /\ RanInv
  BY DEF GatewayInv
<1>2. CASE StopAccepting
  BY <1>1, <1>2 DEF GatewayInv, GatewayTypeOK, PostInv, RanInv, StopAccepting
<1>3. CASE GatewayRestart
  <2>1. Underway \subseteq Posts /\ (flight.at = "append" => flight.post \in Underway)
    BY <1>1, GatewayAssumption DEF Underway, GatewayTypeOK, PostInv
  <2>2. /\ flight' = NoTask /\ task' = [r \in Requests |-> NoTask] /\ accepts' = TRUE
        /\ lost' = lost \cup Underway /\ UNCHANGED <<posted, reply, ran>>
    BY <1>3 DEF GatewayRestart
  <2>3. GatewayTypeOK'
    BY <1>1, <2>1, <2>2, NoTaskIsTask DEF GatewayTypeOK, FlightRecord, TaskRecord
  <2>4. PostInv' /\ RanInv'
    BY <1>1, <2>1, <2>2 DEF PostInv, RanInv, NoTask
  <2>. QED  BY <2>3, <2>4 DEF GatewayInv
<1>. QED  BY <1>2, <1>3

(* The inductive invariant of ConversationGateway.                          *)
THEOREM GatewayInvariant == GatewaySpec => []GatewayInv
<1>1. GatewayInv /\ [GatewayNext]_gatewayVars => GatewayInv'
  <2>. SUFFICES ASSUME GatewayInv, [GatewayNext]_gatewayVars
                PROVE  GatewayInv'
    OBVIOUS
  <2>1. CASE UNCHANGED gatewayVars
    BY <2>1 DEF gatewayVars, GatewayInv, GatewayTypeOK, PostInv, RanInv
  <2>2. CASE GatewayNext
    BY <2>2, RequestsKeep, FlightKeeps, RestartKeeps DEF GatewayNext, GatewayStep
  <2>. QED  BY <2>1, <2>2
<1>. QED  BY GatewayStarts, <1>1, PTL DEF GatewaySpec

(* append_message, the task manager and the background task give every      *)
(* message, reply and task the values GatewayTypeOK lists.                  *)
THEOREM GatewayTypes == GatewaySpec => []GatewayTypeOK
<1>1. GatewayInv => GatewayTypeOK
  BY DEF GatewayInv
<1>. QED  BY <1>1, GatewayInvariant, PTL

(* process_derived_result and the single flight: an operation that has done *)
(* something is not begun again, however often its message is posted,       *)
(* unless its answer was lost.                                              *)
THEOREM NothingRunsTwice == GatewaySpec => NotRunTwice
<1>1. ASSUME GatewayInv, [GatewayNext]_gatewayVars, NEW m \in Posts,
             flight' = [at |-> "run", post |-> m], flight' # flight, m \in ran
      PROVE  m \in lost
  <2>1. flight \in FlightRecord /\ flight'.at = "run" /\ flight'.post = m
    BY <1>1 DEF GatewayInv, GatewayTypeOK, FlightRecord
  <2>2. \A r \in Requests : ~ Schedule(r) \/ UNCHANGED flight
    <3>1. ASSUME NEW r \in Requests, Schedule(r), flight' # flight
          PROVE  FALSE
      <4>1. task[r] \in TaskRecord /\ flight' = [task[r] EXCEPT !.at = "lookup"]
        BY <1>1, <3>1 DEF GatewayInv, GatewayTypeOK, TaskRecord, Schedule
      <4>. QED  BY <2>1, <4>1 DEF TaskRecord
    <3>. QED  BY <3>1
  <2>3. FlightLooks
    BY <1>1, <2>1, <2>2
    DEF GatewayNext, GatewayStep, gatewayVars, LookUp, TurnAway, FlightRuns, FlightAppends,
        FlightFails, TaskFails, Post, StopAccepting, GatewayRestart, NoTask, FlightRecord
  <2>4. flight.at = "lookup" /\ reply[flight.post] = "none" /\ flight.post = m
    BY <2>1, <2>3 DEF FlightLooks, FlightRecord, NoTask
  <2>. QED  BY <1>1, <2>4 DEF GatewayInv, RanInv
<1>2. GatewayInv /\ [GatewayNext]_gatewayVars
      => [\A m \in Posts : flight' = [at |-> "run", post |-> m] /\ flight' # flight /\ m \in ran
                           => m \in lost]_gatewayVars
  BY <1>1
<1>. QED  BY <1>2, GatewayInvariant, PTL DEF GatewaySpec, NotRunTwice
------------------------------------------------------------------------------
(* HubLifetime.                                                              *)

InTasks(c) == \E i \in 1..Len(tasks) : tasks[i] = c
Held(c) == \E w \in Workers : worker[w].call = c

WorkerState == [at : {"waiting", "holding", "working", "finishing", "gone"},
                call : Calls \cup {NoCall}]

PoolTypes ==
    /\ outcome \in [Calls -> {"none", "pending", "running"} \cup Final]
    /\ tasks \in Seq(Calls \cup {Stop})
    /\ worker \in [Workers -> WorkerState]
    /\ caller \in [Calls -> {"idle", "admitted", "registered", "awaiting", "leaving",
                             "refused", "answered"}]
    /\ futures \subseteq Calls

(* A call is in one place of the pool, and its Future tells which.          *)
PlacesInv ==
    /\ \A i, j \in 1..Len(tasks) : tasks[i] = tasks[j] /\ tasks[i] \in Calls => i = j
    /\ \A v, w \in Workers : worker[v].call = worker[w].call /\ worker[v].call \in Calls => v = w
    /\ \A c \in Calls :
         /\ InTasks(c) => ~ Held(c)
         /\ InTasks(c) \/ caller[c] = "registered" => outcome[c] \in {"pending", "cancelled"}
         /\ InTasks(c) \/ Held(c) \/ caller[c] = "registered" => c \in futures
         /\ caller[c] = "registered" => ~ InTasks(c) /\ ~ Held(c)
         /\ caller[c] \in {"idle", "admitted", "refused"} =>
              c \notin futures /\ outcome[c] = "none"

WorkersInv ==
    \A w \in Workers :
        /\ worker[w].at \in {"waiting", "gone"} <=> worker[w].call = NoCall
        /\ worker[w].at = "holding" => outcome[worker[w].call] \in {"pending", "cancelled"}
        /\ worker[w].at = "working" => outcome[worker[w].call] = "running"
        /\ worker[w].at = "finishing" => outcome[worker[w].call] = "result"

AnsweredInv == \A c \in Certain : caller[c] = "answered" => outcome[c] \in Final

CallsInv == PoolTypes /\ PlacesInv /\ WorkersInv /\ AnsweredInv

(* The counts of the pool.                                                  *)
Busy == {w \in Workers : worker[w].at \in {"working", "finishing"}}
Slotted == futures \cup {c \in Calls : caller[c] = "admitted"}
BoundsInv == /\ active = Cardinality(Busy)
             /\ slots \in Nat /\ slots + Cardinality(Slotted) = Capacity

(* The stops among what is queued, and the workers that wait for one.       *)
Stops(s) == {i \in 1..Len(s) : s[i] = Stop}
Alive == {w \in Workers : worker[w].at # "gone"}

ShuttingInv ==
    /\ accepting \in BOOLEAN /\ stopSent \in BOOLEAN /\ shut \in BOOLEAN
    /\ shutter \in [Shutters -> {"out", "wanted", "cancelling", "idling", "joining",
                                 "done", "failed"}]
    /\ \A s \in Shutters : shutter[s] \in {"cancelling", "idling", "joining"} => ~ accepting
    /\ \A s \in Shutters : shutter[s] = "joining" => stopSent
    /\ \A s \in Shutters : shutter[s] = "done" => shut
    /\ stopSent => ~ accepting /\ Cardinality(Stops(tasks)) = Cardinality(Alive)
    /\ ~ stopSent => Stops(tasks) = {} /\ Alive = Workers
    /\ shut => WorkersGone /\ stopSent

(* A call put after the stops is still in the count of what is queued.      *)
QueuedCalls == {c \in Calls : caller[c] = "registered" \/ InTasks(c)}
Orderly == /\ \A i, j \in 1..Len(tasks) : i < j /\ tasks[i] = Stop => tasks[j] = Stop
           /\ Alive # Workers => \A i \in 1..Len(tasks) : tasks[i] = Stop

QueueInv ==
    /\ queued \in 0..Cardinality(Calls)
    /\ \A c, d \in Calls : InSubmit(c) /\ InSubmit(d) => c = d
    /\ \/ /\ queued = Cardinality(QueuedCalls)
          /\ Orderly \/ ~ \E c \in Calls : caller[c] = "admitted"
       \/ ~ accepting /\ LoopIsFree /\ Orderly

(* The listeners around the pool.                                           *)
ListenersInv ==
    /\ server \in [Servers -> {"serving", "lifespan", "down"}]
    /\ closedBy \subseteq Shutters
    /\ closedBy \cap Servers # {} => shut
    /\ runtime = "pairing" =>
         \/ server["local"] = "serving" /\ accepting /\ \A s \in Shutters : shutter[s] = "out"
         \/ server["local"] = "down" /\ \A c \in Local : Over(c)

LifetimeInv == CallsInv /\ BoundsInv /\ ShuttingInv /\ QueueInv /\ ListenersInv /\ ShutIsQuiet

LEMMA TailOf ==
    ASSUME NEW S, NEW s \in Seq(S), s # <<>>
    PROVE  /\ Tail(s) \in Seq(S) /\ Len(s) \in Nat \ {0} /\ Len(Tail(s)) = Len(s) - 1
           /\ Head(s) = s[1] /\ Head(s) \in S
           /\ \A i \in 1..Len(Tail(s)) : i + 1 \in 1..Len(s) /\ Tail(s)[i] = s[i + 1]
           /\ \A i \in 2..Len(s) : i - 1 \in 1..Len(Tail(s)) /\ Tail(s)[i - 1] = s[i]
  OBVIOUS

LEMMA AppendedTo ==
    ASSUME NEW S, NEW s \in Seq(S), NEW x \in S
    PROVE  /\ Append(s, x) \in Seq(S) /\ Len(s) \in Nat /\ Len(Append(s, x)) = Len(s) + 1
           /\ \A i \in 1..Len(s) : i \in 1..Len(s) + 1 /\ Append(s, x)[i] = s[i]
           /\ Append(s, x)[Len(s) + 1] = x
  OBVIOUS

(* What put(None), once for each worker, does to the queue.                 *)
StopsFor == [i \in 1..Cardinality(Workers) |-> Stop]

LEMMA StopsAppended ==
    ASSUME NEW S, NEW s \in Seq(S), Stop \in S
    PROVE  /\ s \o StopsFor \in Seq(S) /\ Len(s) \in Nat /\ Cardinality(Workers) \in Nat
           /\ Len(s \o StopsFor) = Len(s) + Cardinality(Workers)
           /\ \A i \in 1..Len(s) : i \in 1..Len(s \o StopsFor) /\ (s \o StopsFor)[i] = s[i]
           /\ \A i \in 1..Len(s \o StopsFor) : i \notin 1..Len(s) => (s \o StopsFor)[i] = Stop
<1>1. Cardinality(Workers) \in Nat
  BY FS_CardinalityType, LifetimeAssumption
<1>2. PICK n \in Nat : n = Cardinality(Workers)
  BY <1>1
<1>3. PICK t \in Seq(S) : t = StopsFor /\ Len(t) = n /\ \A i \in 1..n : t[i] = Stop
  <2>1. PICK t : t = [i \in 1..n |-> Stop]
    OBVIOUS
  <2>2. t \in [1..n -> S]
    BY <2>1
  <2>3. t \in Seq(S) /\ Len(t) = n /\ \A i \in 1..n : t[i] = Stop
    BY <2>1, <2>2
  <2>. QED  BY <1>2, <2>1, <2>3 DEF StopsFor
<1>4. /\ s \o t \in Seq(S) /\ Len(s) \in Nat /\ Len(s \o t) = Len(s) + n
      /\ \A i \in 1..Len(s) : i \in 1..Len(s \o t) /\ (s \o t)[i] = s[i]
  BY <1>3
<1>5. ASSUME NEW i \in 1..Len(s \o t), i \notin 1..Len(s)
      PROVE  (s \o t)[i] = Stop
  <2>1. i - Len(s) \in 1..n /\ (s \o t)[i] = t[i - Len(s)]
    BY <1>3, <1>4, <1>5
  <2>. QED  BY <1>3, <2>1
<1>. QED  BY <1>2, <1>3, <1>4, <1>5

LEMMA ConstantsApart == /\ NoCall \notin Calls /\ Stop \notin Calls
                        /\ Certain \subseteq Calls /\ Local \subseteq Calls
                        /\ Capacity \in Nat \ {0}
  BY LifetimeAssumption DEF Stop

------------------------------------------------------------------------------
(* Where the calls are.                                                     *)

LEMMA LifeStarts == LifeInit => CallsInv
<1>. SUFFICES ASSUME LifeInit
              PROVE  CallsInv
  OBVIOUS
<1>1. PoolTypes
  BY ConstantsApart DEF LifeInit, PoolTypes, WorkerState
<1>2. \A c : ~ InTasks(c)
  BY DEF LifeInit, InTasks
<1>3. \A c \in Calls : ~ Held(c)
  BY ConstantsApart DEF LifeInit, Held
<1>4. PlacesInv
  BY <1>2, <1>3, ConstantsApart DEF LifeInit, PlacesInv
<1>5. WorkersInv /\ AnsweredInv
  BY ConstantsApart DEF LifeInit, WorkersInv, AnsweredInv
<1>. QED  BY <1>1, <1>4, <1>5 DEF CallsInv

LEMMA CallsRest ==
    ASSUME CallsInv, UNCHANGED <<outcome, tasks, worker, caller, futures>>
    PROVE  CallsInv'
  BY DEF CallsInv, PoolTypes, PlacesInv, WorkersInv, AnsweredInv, InTasks, Held

(* What is left in the queue when its head is taken.                        *)
LEMMA TakenFromTasks ==
    ASSUME CallsInv, tasks # <<>>, tasks' = Tail(tasks)
    PROVE  \A d \in Calls : InTasks(d)' <=> InTasks(d) /\ d # Head(tasks)
<1>1. /\ Len(tasks) \in Nat \ {0} /\ Head(tasks) = tasks[1]
      /\ \A i \in 1..Len(tasks') : i + 1 \in 1..Len(tasks) /\ tasks'[i] = tasks[i + 1]
      /\ \A i \in 2..Len(tasks) : i - 1 \in 1..Len(tasks') /\ tasks'[i - 1] = tasks[i]
  BY TailOf DEF CallsInv, PoolTypes
<1>2. ASSUME NEW d \in Calls, InTasks(d)'
      PROVE  InTasks(d) /\ d # Head(tasks)
  <2>1. PICK i \in 1..Len(tasks') : tasks'[i] = d
    BY <1>2 DEF InTasks
  <2>2. i + 1 \in 1..Len(tasks) /\ tasks[i + 1] = d /\ 1 \in 1..Len(tasks) /\ i + 1 # 1
    BY <1>1, <2>1
  <2>. QED  BY <1>1, <1>2, <2>2 DEF InTasks, CallsInv, PlacesInv
<1>3. ASSUME NEW d \in Calls, InTasks(d), d # Head(tasks)
      PROVE  InTasks(d)'
  <2>1. PICK i \in 1..Len(tasks) : tasks[i] = d
    BY <1>3 DEF InTasks
  <2>2. i \in 2..Len(tasks)
    BY <1>1, <1>3, <2>1
  <2>. QED  BY <1>1, <2>1, <2>2 DEF InTasks
<1>. QED  BY <1>2, <1>3

(* A handler, alone.                                                        *)
LEMMA HandlersKeepCalls ==
    ASSUME CallsInv, NEW c \in Calls,
           Admit(c) \/ Register(c) \/ Enqueue(c) \/ Expire(c) \/ Leave(c) \/ Return(c)
    PROVE  CallsInv'
<1>1. PoolTypes /\ PlacesInv /\ WorkersInv /\ AnsweredInv
  BY DEF CallsInv
<1>2. UNCHANGED worker
  BY DEF Admit, Register, Enqueue, Expire, Leave, Return, poolVars
<1>3. \A d : Held(d)' <=> Held(d)
  BY <1>2 DEF Held
<1>4. CASE Admit(c)
  <2>1. UNCHANGED <<outcome, tasks, futures>> /\ caller[c] = "idle"
        /\ \E at \in {"admitted", "refused"} : caller' = [caller EXCEPT ![c] = at]
    BY <1>4 DEF Admit
  <2>2. \A d : InTasks(d)' <=> InTasks(d)
    BY <2>1 DEF InTasks
  <2>. QED
    BY <1>1, <1>2, <1>3, <2>1, <2>2, ConstantsApart
    DEF CallsInv, PoolTypes, PlacesInv, WorkersInv, AnsweredInv
<1>5. CASE Register(c)
  <2>1. UNCHANGED tasks /\ caller[c] = "admitted" /\ outcome[c] = "none"
        /\ c \notin futures /\ ~ InTasks(c) /\ ~ Held(c)
    BY <1>1, <1>5 DEF Register, PlacesInv
  <2>2. \A d : InTasks(d)' <=> InTasks(d)
    BY <2>1 DEF InTasks
  <2>3. CASE accepting
    <3>1. /\ outcome' = [outcome EXCEPT ![c] = "pending"]
          /\ caller' = [caller EXCEPT ![c] = "registered"] /\ futures' = futures \cup {c}
      BY <1>5, <2>3 DEF Register
    <3>2. PoolTypes'
      BY <1>1, <1>2, <2>1, <3>1 DEF PoolTypes
    <3>3. PlacesInv'
      BY <1>1, <1>2, <1>3, <2>1, <2>2, <3>1 DEF PoolTypes, PlacesInv
    <3>4. WorkersInv'
      BY <1>1, <1>2, <2>1, <3>1 DEF PoolTypes, WorkersInv, Held
    <3>5. AnsweredInv'
      BY <1>1, <3>1, ConstantsApart DEF PoolTypes, AnsweredInv, Final
    <3>. QED  BY <3>2, <3>3, <3>4, <3>5 DEF CallsInv
  <2>4. CASE ~ accepting
    <3>1. caller' = [caller EXCEPT ![c] = "refused"] /\ UNCHANGED <<outcome, futures>>
      BY <1>5, <2>4 DEF Register
    <3>. QED
      BY <1>1, <1>2, <1>3, <2>1, <2>2, <3>1, ConstantsApart
      DEF CallsInv, PoolTypes, PlacesInv, WorkersInv, AnsweredInv
  <2>. QED  BY <2>3, <2>4
<1>6. CASE Enqueue(c)
  <2>1. /\ caller[c] = "registered" /\ tasks' = Append(tasks, c)
        /\ caller' = [caller EXCEPT ![c] = "awaiting"] /\ UNCHANGED <<outcome, futures>>
    BY <1>6 DEF Enqueue
  <2>2. /\ tasks' \in Seq(Calls \cup {Stop}) /\ Len(tasks) \in Nat /\ Len(tasks') = Len(tasks) + 1
        /\ \A i \in 1..Len(tasks) : i \in 1..Len(tasks') /\ tasks'[i] = tasks[i]
        /\ tasks'[Len(tasks) + 1] = c
    BY <1>1, <2>1, AppendedTo DEF PoolTypes
  <2>3. \A i \in 1..Len(tasks') : i \in 1..Len(tasks) \/ i = Len(tasks) + 1
    BY <2>2
  <2>4. \A d \in Calls : InTasks(d)' <=> InTasks(d) \/ d = c
    BY <2>2, <2>3 DEF InTasks
  <2>5. ~ InTasks(c) /\ ~ Held(c)
    BY <1>1, <2>1 DEF PlacesInv
  <2>6. PoolTypes'
    BY <1>1, <1>2, <2>1, <2>2 DEF PoolTypes
  <2>7. \A i, j \in 1..Len(tasks') : tasks'[i] = tasks'[j] /\ tasks'[i] \in Calls => i = j
    BY <1>1, <2>2, <2>3, <2>5 DEF PlacesInv, InTasks
  <2>8. PlacesInv'
    BY <1>1, <1>2, <1>3, <2>1, <2>4, <2>5, <2>7 DEF PoolTypes, PlacesInv
  <2>9. WorkersInv' /\ AnsweredInv'
    BY <1>1, <1>2, <2>1, ConstantsApart DEF PoolTypes, WorkersInv, AnsweredInv
  <2>. QED  BY <2>6, <2>8, <2>9 DEF CallsInv
<1>7. CASE Expire(c)
  <2>1. /\ caller[c] = "awaiting" /\ c \notin Certain /\ UNCHANGED <<tasks, futures>>
        /\ caller' = [caller EXCEPT ![c] = "answered"]
        /\ outcome' = [outcome EXCEPT ![c] = IF @ = "pending" THEN "cancelled" ELSE @]
    BY <1>7 DEF Expire
  <2>2. \A d : InTasks(d)' <=> InTasks(d)
    BY <2>1 DEF InTasks
  <2>3. /\ \A d \in Calls \ {c} : outcome'[d] = outcome[d]
        /\ outcome'[c] = outcome[c] \/ (outcome[c] = "pending" /\ outcome'[c] = "cancelled")
    BY <1>1, <2>1 DEF PoolTypes
  <2>4. PoolTypes'
    BY <1>1, <1>2, <2>1 DEF PoolTypes, Final
  <2>5. PlacesInv' /\ AnsweredInv'
    BY <1>1, <1>2, <1>3, <2>1, <2>2, <2>3, ConstantsApart
    DEF PoolTypes, PlacesInv, AnsweredInv
  <2>6. WorkersInv'
    BY <1>1, <1>2, <2>3, ConstantsApart DEF PoolTypes, WorkersInv, WorkerState
  <2>. QED  BY <2>4, <2>5, <2>6 DEF CallsInv
<1>8. CASE Leave(c) \/ Return(c)
  <2>1. /\ caller[c] \in {"awaiting", "leaving"} /\ UNCHANGED <<tasks, futures, outcome>>
        /\ \E at \in {"leaving", "answered"} :
              caller' = [caller EXCEPT ![c] = at] /\ (at = "answered" => outcome[c] \in Final)
    BY <1>8 DEF Leave, Return, poolVars
  <2>2. \A d : InTasks(d)' <=> InTasks(d)
    BY <2>1 DEF InTasks
  <2>. QED
    BY <1>1, <1>2, <1>3, <2>1, <2>2, ConstantsApart
    DEF CallsInv, PoolTypes, PlacesInv, WorkersInv, AnsweredInv
<1>. QED  BY <1>4, <1>5, <1>6, <1>7, <1>8

LEMMA Holders ==
    ASSUME CallsInv, NEW w \in Workers, worker[w].at \in {"holding", "working", "finishing"}
    PROVE  /\ worker[w].call \in Calls /\ Held(worker[w].call) /\ ~ InTasks(worker[w].call)
           /\ worker[w].call \in futures
           /\ caller[worker[w].call] \notin {"idle", "admitted", "registered", "refused"}
           /\ \A v \in Workers : worker[v].call = worker[w].call => v = w
<1>1. worker[w].call \in Calls /\ Held(worker[w].call)
  BY DEF CallsInv, PoolTypes, WorkersInv, WorkerState, Held
<1>. QED  BY <1>1 DEF CallsInv, PoolTypes, PlacesInv

(* A worker takes what is next.                                             *)
LEMMA TakeKeepsCalls == ASSUME CallsInv, NEW w \in Workers, Take(w) PROVE CallsInv'
<1>1. PoolTypes /\ PlacesInv /\ WorkersInv /\ AnsweredInv
  BY DEF CallsInv
<1>2. worker[w].at = "waiting" /\ tasks # <<>> /\ tasks' = Tail(tasks)
      /\ UNCHANGED <<outcome, futures, caller>>
  BY DEF Take
<1>3. /\ tasks' \in Seq(Calls \cup {Stop}) /\ Len(tasks) \in Nat \ {0}
      /\ Len(tasks') = Len(tasks) - 1 /\ Head(tasks) = tasks[1] /\ Head(tasks) \in Calls \cup {Stop}
      /\ \A i \in 1..Len(tasks') : i + 1 \in 1..Len(tasks) /\ tasks'[i] = tasks[i + 1]
      /\ \A i \in 2..Len(tasks) : i - 1 \in 1..Len(tasks') /\ tasks'[i - 1] = tasks[i]
  BY <1>1, <1>2, TailOf DEF PoolTypes
<1>4. \A i, j \in 1..Len(tasks') : tasks'[i] = tasks'[j] /\ tasks'[i] \in Calls => i = j
  BY <1>1, <1>3 DEF PlacesInv
<1>5. \A d \in Calls : InTasks(d)' <=> InTasks(d) /\ d # Head(tasks)
  BY <1>2, TakenFromTasks
<1>6. worker[w] \in WorkerState /\ worker[w].call = NoCall
  BY <1>1, <1>2 DEF PoolTypes, WorkersInv
<1>7. CASE Head(tasks) = Stop
  <2>1. PICK r : r = [worker[w] EXCEPT !.at = "gone"]
    OBVIOUS
  <2>2. r \in WorkerState /\ r.at = "gone" /\ r.call = NoCall
    BY <1>6, <2>1 DEF WorkerState
  <2>3. worker' = [worker EXCEPT ![w] = r]
    BY <1>7, <2>1 DEF Take
  <2>4. worker' \in [Workers -> WorkerState] /\ worker'[w] = r
        /\ \A v \in Workers : worker'[v].call = worker[v].call /\ (v # w => worker'[v] = worker[v])
    BY <1>1, <1>6, <2>2, <2>3 DEF PoolTypes
  <2>5. \A d : Held(d)' <=> Held(d)
    BY <2>4 DEF Held
  <2>6. \A d \in Calls : InTasks(d)' <=> InTasks(d)
    BY <1>5, <1>7, ConstantsApart
  <2>7. PoolTypes' /\ PlacesInv' /\ AnsweredInv'
    BY <1>1, <1>2, <1>3, <1>4, <2>4, <2>5, <2>6 DEF PoolTypes, PlacesInv, AnsweredInv
  <2>8. WorkersInv'
    BY <1>1, <1>2, <2>2, <2>4 DEF WorkersInv
  <2>. QED  BY <2>7, <2>8 DEF CallsInv
<1>8. CASE Head(tasks) # Stop
  <2>1. PICK h \in Calls : h = Head(tasks)
    BY <1>3, <1>8
  <2>2. InTasks(h)
    BY <1>3, <2>1 DEF InTasks
  <2>3. h \in futures /\ ~ Held(h) /\ caller[h] # "registered" /\ outcome[h] \in {"pending", "cancelled"}
    BY <1>1, <2>2 DEF PlacesInv
  <2>4. PICK r \in WorkerState : r = [at |-> "holding", call |-> h]
    BY DEF WorkerState
  <2>5. worker' = [worker EXCEPT ![w] = r]
    BY <1>8, <2>1, <2>4 DEF Take
  <2>6. worker' \in [Workers -> WorkerState] /\ worker'[w] = r
        /\ \A v \in Workers \ {w} : worker'[v] = worker[v]
    BY <1>1, <2>5 DEF PoolTypes
  <2>7. \A d \in Calls : Held(d)' <=> Held(d) \/ d = h
    BY <1>6, <2>4, <2>6, ConstantsApart DEF Held
  <2>8. \A u, v \in Workers : worker'[u].call = worker'[v].call /\ worker'[u].call \in Calls => u = v
    BY <1>1, <2>3, <2>4, <2>6 DEF PlacesInv, Held
  <2>9. PoolTypes' /\ AnsweredInv'
    BY <1>1, <1>2, <1>3, <2>6 DEF PoolTypes, AnsweredInv
  <2>10. PlacesInv'
    BY <1>1, <1>2, <1>4, <1>5, <2>1, <2>2, <2>3, <2>7, <2>8 DEF PlacesInv
  <2>11. WorkersInv'
    BY <1>1, <1>2, <2>3, <2>4, <2>6, ConstantsApart DEF WorkersInv
  <2>. QED  BY <2>9, <2>10, <2>11 DEF CallsInv
<1>. QED  BY <1>7, <1>8

(* A worker works: what it holds stays its own.                             *)
LEMMA WorkKeepsCalls ==
    ASSUME CallsInv, NEW w \in Workers, Start(w) \/ Work(w)
    PROVE  CallsInv'
<1>1. PoolTypes /\ PlacesInv /\ WorkersInv /\ AnsweredInv
  BY DEF CallsInv
<1>2. PICK c \in Calls : c = worker[w].call /\ c \in futures /\ ~ InTasks(c)
        /\ caller[c] \notin {"idle", "admitted", "registered", "refused"}
        /\ \A v \in Workers \ {w} : worker[v].call # c
  BY Holders DEF Start, Work
<1>3. UNCHANGED <<tasks, futures, caller>>
  BY DEF Start, Work
<1>4. PICK x, at : /\ \/ x = "running" /\ at = "working" /\ outcome[c] = "pending"
                      \/ x = "result" /\ at = "finishing" /\ outcome[c] = "running"
                   /\ outcome' = [outcome EXCEPT ![c] = x]
                   /\ worker' = [worker EXCEPT ![w].at = at]
  BY <1>1, <1>2 DEF Start, Work, WorkersInv
<1>5. PICK r : r = [worker[w] EXCEPT !.at = at]
  OBVIOUS
<1>6. worker[w] \in WorkerState /\ r \in WorkerState /\ r = [at |-> at, call |-> c]
  BY <1>1, <1>2, <1>4, <1>5 DEF PoolTypes, WorkerState
<1>7. worker' \in [Workers -> WorkerState] /\ worker'[w] = r
      /\ \A v \in Workers : worker'[v].call = worker[v].call /\ (v # w => worker'[v] = worker[v])
  BY <1>1, <1>2, <1>4, <1>5, <1>6 DEF PoolTypes
<1>8. outcome'[c] = x /\ \A d \in Calls \ {c} : outcome'[d] = outcome[d]
  BY <1>1, <1>4 DEF PoolTypes
<1>9. (\A d : Held(d)' <=> Held(d)) /\ (\A d : InTasks(d)' <=> InTasks(d))
  BY <1>3, <1>7 DEF Held, InTasks
<1>10. PoolTypes'
  BY <1>1, <1>3, <1>4, <1>7 DEF PoolTypes, Final
<1>11. PlacesInv'
  BY <1>1, <1>2, <1>3, <1>7, <1>8, <1>9 DEF PlacesInv
<1>12. WorkersInv'
  BY <1>1, <1>2, <1>4, <1>6, <1>7, <1>8, ConstantsApart DEF WorkersInv, PoolTypes, WorkerState
<1>13. AnsweredInv'
  BY <1>1, <1>3, <1>4, <1>8, ConstantsApart DEF AnsweredInv, Final
<1>. QED  BY <1>10, <1>11, <1>12, <1>13 DEF CallsInv

(* A worker lets go of its call.                                            *)
LEMMA GivingBackKeepsCalls ==
    ASSUME CallsInv, NEW w \in Workers, Skip(w) \/ Finish(w)
    PROVE  CallsInv'
<1>1. PoolTypes /\ PlacesInv /\ WorkersInv /\ AnsweredInv
  BY DEF CallsInv
<1>2. PICK c \in Calls : c = worker[w].call /\ ~ InTasks(c)
        /\ caller[c] \notin {"idle", "admitted", "registered", "refused"}
        /\ \A v \in Workers \ {w} : worker[v].call # c
  BY Holders DEF Skip, Finish
<1>3. UNCHANGED <<tasks, outcome, caller>> /\ futures' = futures \ {c}
  BY <1>2 DEF Skip, Finish, GiveBack
<1>4. PICK r \in WorkerState : r = [at |-> "waiting", call |-> NoCall]
  BY DEF WorkerState
<1>5. worker' = [worker EXCEPT ![w] = r]
  BY <1>4 DEF Skip, Finish, GiveBack
<1>6. worker' \in [Workers -> WorkerState] /\ worker'[w] = r
      /\ \A v \in Workers \ {w} : worker'[v] = worker[v]
  BY <1>1, <1>5 DEF PoolTypes
<1>7. (\A d \in Calls : Held(d)' <=> Held(d) /\ d # c) /\ (\A d : InTasks(d)' <=> InTasks(d))
  BY <1>2, <1>3, <1>4, <1>6, ConstantsApart DEF Held, InTasks
<1>8. PoolTypes'
  BY <1>1, <1>3, <1>6 DEF PoolTypes
<1>9. PlacesInv'
  BY <1>1, <1>2, <1>3, <1>4, <1>6, <1>7, ConstantsApart DEF PlacesInv
<1>10. WorkersInv' /\ AnsweredInv'
  BY <1>1, <1>3, <1>4, <1>6 DEF WorkersInv, AnsweredInv
<1>. QED  BY <1>8, <1>9, <1>10 DEF CallsInv

(* Whoever shuts the pool down.                                             *)
LEMMA ShuttersKeepCalls ==
    ASSUME CallsInv, NEW s \in Shutters, CancelQueued(s) \/ SendStops(s)
    PROVE  CallsInv'
<1>1. PoolTypes /\ PlacesInv /\ WorkersInv /\ AnsweredInv
  BY DEF CallsInv
<1>2. UNCHANGED <<futures, worker, caller>>
  BY DEF CancelQueued, SendStops
<1>3. \A d : Held(d)' <=> Held(d)
  BY <1>2 DEF Held
<1>4. CASE CancelQueued(s)
  <2>1. UNCHANGED tasks
        /\ outcome' = [c \in Calls |-> IF c \in futures /\ outcome[c] = "pending"
                                         THEN "cancelled" ELSE outcome[c]]
    BY <1>4 DEF CancelQueued
  <2>2. \A d : InTasks(d)' <=> InTasks(d)
    BY <2>1 DEF InTasks
  <2>3. \A c \in Calls : outcome'[c] = outcome[c]
                         \/ (outcome[c] = "pending" /\ outcome'[c] = "cancelled" /\ c \in futures)
    BY <2>1
  <2>4. PoolTypes'
    BY <1>1, <1>2, <2>1 DEF PoolTypes, Final
  <2>5. PlacesInv' /\ AnsweredInv'
    BY <1>1, <1>2, <1>3, <2>1, <2>2, <2>3, ConstantsApart DEF PlacesInv, AnsweredInv, Final
  <2>6. WorkersInv'
    BY <1>1, <1>2, <2>3, ConstantsApart DEF PoolTypes, WorkersInv, WorkerState
  <2>. QED  BY <2>4, <2>5, <2>6 DEF CallsInv
<1>5. CASE SendStops(s)
  <2>1. UNCHANGED outcome /\ (tasks' = tasks \/ tasks' = tasks \o StopsFor)
    BY <1>5 DEF SendStops, StopsFor
  <2>2. CASE tasks' = tasks
    BY <1>2, <2>1, <2>2, CallsRest
  <2>3. CASE tasks' = tasks \o StopsFor
    <3>1. /\ tasks' \in Seq(Calls \cup {Stop})
          /\ \A i \in 1..Len(tasks) : i \in 1..Len(tasks') /\ tasks'[i] = tasks[i]
          /\ \A i \in 1..Len(tasks') : i \notin 1..Len(tasks) => tasks'[i] = Stop
      <4>1. tasks \in Seq(Calls \cup {Stop}) /\ Stop \in Calls \cup {Stop}
        BY <1>1 DEF PoolTypes
      <4>. QED  BY <2>3, <4>1, StopsAppended
    <3>2. \A i, j \in 1..Len(tasks') : tasks'[i] = tasks'[j] /\ tasks'[i] \in Calls => i = j
      BY <1>1, <3>1, ConstantsApart DEF PlacesInv
    <3>3. \A d \in Calls : InTasks(d)' <=> InTasks(d)
      BY <3>1, ConstantsApart DEF InTasks
    <3>4. PoolTypes' /\ PlacesInv' /\ AnsweredInv' /\ WorkersInv'
      BY <1>1, <1>2, <1>3, <2>1, <3>1, <3>2, <3>3 DEF PoolTypes, PlacesInv, AnsweredInv, WorkersInv
    <3>. QED  BY <3>4 DEF CallsInv
  <2>. QED  BY <2>1, <2>2, <2>3
<1>. QED  BY <1>4, <1>5

LEMMA CallsKept == CallsInv /\ [LifeNext]_lifeVars => CallsInv'
<1>. SUFFICES ASSUME CallsInv, [LifeNext]_lifeVars
              PROVE  CallsInv'
  OBVIOUS
<1>1. CASE UNCHANGED lifeVars
  BY <1>1, CallsRest DEF lifeVars, poolVars
<1>2. ASSUME NEW s \in Shutters, Close(s) \/ NotIdle(s) \/ Joined(s) \/ NotJoined(s)
      PROVE  CallsInv'
  BY <1>2, CallsRest DEF Close, NotIdle, Joined, NotJoined, poolVars
<1>3. ASSUME NEW s \in Servers, StopServer(s) \/ EndLifespan(s)
      PROVE  CallsInv'
  BY <1>3, CallsRest DEF StopServer, EndLifespan, poolVars
<1>4. CASE OwnerShuts \/ OwnerCloses
  BY <1>4, CallsRest DEF OwnerShuts, OwnerCloses, poolVars
<1>. QED
  BY <1>1, <1>2, <1>3, <1>4, HandlersKeepCalls, TakeKeepsCalls, WorkKeepsCalls,
     GivingBackKeepsCalls, ShuttersKeepCalls DEF LifeNext

------------------------------------------------------------------------------
(* The counts of the pool.                                                  *)

Admitted == {c \in Calls : caller[c] = "admitted"}

LEMMA Finites ==
    /\ IsFiniteSet(Calls) /\ Cardinality(Calls) \in Nat
    /\ IsFiniteSet(Workers) /\ Cardinality(Workers) \in Nat
    /\ \A S : S \subseteq Calls \/ S \subseteq Workers
              => IsFiniteSet(S) /\ Cardinality(S) \in Nat
  BY FS_CardinalityType, FS_Subset, LifetimeAssumption

LEMMA OneMore ==
    ASSUME NEW S, IsFiniteSet(S), NEW x, x \notin S
    PROVE  Cardinality(S \cup {x}) = Cardinality(S) + 1
  BY FS_AddElement

LEMMA OneLess ==
    ASSUME NEW S, IsFiniteSet(S), NEW x, x \in S
    PROVE  /\ Cardinality(S \ {x}) = Cardinality(S) - 1 /\ Cardinality(S \ {x}) \in Nat
           /\ Cardinality(S) \in Nat
  BY FS_RemoveElement, FS_CardinalityType

LEMMA BoundsStart == LifeInit => BoundsInv
<1>. SUFFICES ASSUME LifeInit
              PROVE  BoundsInv
  OBVIOUS
<1>1. Busy = {} /\ Slotted = {}
  BY DEF LifeInit, Busy, Slotted
<1>2. Cardinality({}) = 0
  BY FS_EmptySet
<1>. QED  BY <1>1, <1>2, ConstantsApart DEF LifeInit, BoundsInv

LEMMA BoundsRest ==
    ASSUME BoundsInv, UNCHANGED <<active, slots, futures>>, Busy' = Busy, Admitted' = Admitted
    PROVE  BoundsInv'
<1>1. Slotted' = Slotted
  BY DEF Slotted, Admitted
<1>. QED  BY <1>1 DEF BoundsInv

LEMMA HandlersKeepBounds ==
    ASSUME CallsInv, BoundsInv, NEW c \in Calls,
           Admit(c) \/ Register(c) \/ Enqueue(c) \/ Expire(c) \/ Leave(c) \/ Return(c)
    PROVE  BoundsInv'
<1>1. UNCHANGED <<worker, active>>
  BY DEF Admit, Register, Enqueue, Expire, Leave, Return, poolVars
<1>2. Busy' = Busy
  BY <1>1 DEF Busy
<1>3. /\ caller \in [Calls -> {"idle", "admitted", "registered", "awaiting", "leaving",
                               "refused", "answered"}]
      /\ IsFiniteSet(Slotted) /\ Cardinality(Slotted) \in Nat
  BY Finites DEF CallsInv, PoolTypes, Slotted
<1>4. CASE Admit(c)
  <2>1. c \notin Slotted /\ caller[c] = "idle" /\ UNCHANGED futures
    BY <1>4 DEF Admit, CallsInv, PlacesInv, Slotted
  <2>2. CASE accepting /\ slots > 0
    <3>1. slots' = slots - 1 /\ caller' = [caller EXCEPT ![c] = "admitted"]
      BY <1>4, <2>2 DEF Admit
    <3>2. Slotted' = Slotted \cup {c}
      BY <1>3, <2>1, <3>1 DEF Slotted
    <3>3. Cardinality(Slotted') = Cardinality(Slotted) + 1
      BY <1>3, <2>1, <3>2, OneMore
    <3>. QED  BY <1>1, <1>2, <1>3, <2>2, <3>1, <3>3, ConstantsApart DEF BoundsInv
  <2>3. CASE ~ (accepting /\ slots > 0)
    <3>1. caller' = [caller EXCEPT ![c] = "refused"] /\ UNCHANGED slots
      BY <1>4, <2>3 DEF Admit
    <3>2. Admitted' = Admitted
      BY <1>3, <2>1, <3>1 DEF Admitted
    <3>. QED  BY <1>1, <1>2, <2>1, <3>1, <3>2, BoundsRest
  <2>. QED  BY <2>2, <2>3
<1>5. CASE Register(c)
  <2>1. caller[c] = "admitted" /\ c \notin futures /\ c \in Slotted
    BY <1>5 DEF Register, CallsInv, PlacesInv, Slotted
  <2>2. CASE accepting
    <3>1. /\ caller' = [caller EXCEPT ![c] = "registered"]
          /\ futures' = futures \cup {c} /\ UNCHANGED slots
      BY <1>5, <2>2 DEF Register
    <3>2. Slotted' = Slotted
      BY <1>3, <2>1, <3>1 DEF Slotted
    <3>. QED  BY <1>1, <1>2, <3>1, <3>2 DEF BoundsInv
  <2>3. CASE ~ accepting
    <3>1. /\ caller' = [caller EXCEPT ![c] = "refused"]
          /\ slots' = slots + 1 /\ UNCHANGED futures
      BY <1>5, <2>3 DEF Register
    <3>2. Slotted' = Slotted \ {c}
      BY <1>3, <2>1, <3>1 DEF Slotted
    <3>3. Cardinality(Slotted') = Cardinality(Slotted) - 1 /\ Cardinality(Slotted') \in Nat
      BY <1>3, <2>1, <3>2, OneLess
    <3>. QED  BY <1>1, <1>2, <1>3, <3>1, <3>3, ConstantsApart DEF BoundsInv
  <2>. QED  BY <2>2, <2>3
<1>6. CASE Enqueue(c) \/ Expire(c) \/ Leave(c) \/ Return(c)
  <2>1. /\ UNCHANGED <<slots, futures>> /\ caller[c] # "admitted"
        /\ \E at \in {"awaiting", "leaving", "answered"} : caller' = [caller EXCEPT ![c] = at]
    BY <1>6 DEF Enqueue, Expire, Leave, Return, poolVars
  <2>2. Admitted' = Admitted
    BY <1>3, <2>1 DEF Admitted
  <2>. QED  BY <1>1, <1>2, <2>1, <2>2, BoundsRest
<1>. QED  BY <1>4, <1>5, <1>6

LEMMA WorkersKeepBounds ==
    ASSUME CallsInv, BoundsInv, NEW w \in Workers,
           Take(w) \/ Skip(w) \/ Start(w) \/ Work(w) \/ Finish(w)
    PROVE  BoundsInv'
<1>1. worker \in [Workers -> WorkerState] /\ worker[w] \in WorkerState
  BY DEF CallsInv, PoolTypes
<1>2. IsFiniteSet(Busy) /\ Cardinality(Busy) \in Nat
      /\ IsFiniteSet(Slotted) /\ Cardinality(Slotted) \in Nat
  BY Finites DEF CallsInv, PoolTypes, Busy, Slotted
<1>3. UNCHANGED caller
  BY DEF Take, Skip, Start, Work, Finish
<1>4. Admitted' = Admitted
  BY <1>3 DEF Admitted
<1>5. /\ \A at \in {"gone", "working", "finishing"} : [worker[w] EXCEPT !.at = at].at = at
      /\ \A at, d : [at |-> at, call |-> d].at = at
  BY <1>1 DEF WorkerState
<1>6. CASE Take(w)
  <2>1. \E r : worker' = [worker EXCEPT ![w] = r] /\ r.at \in {"gone", "holding"}
    <3>1. CASE Head(tasks) = Stop
      BY <1>5, <1>6, <3>1 DEF Take
    <3>2. CASE Head(tasks) # Stop
      <4>1. worker' = [worker EXCEPT ![w] = [at |-> "holding", call |-> Head(tasks)]]
        BY <1>6, <3>2 DEF Take
      <4>. QED  BY <1>5, <4>1
    <3>. QED  BY <3>1, <3>2
  <2>2. Busy' = Busy
    BY <1>1, <1>6, <2>1 DEF Busy, Take
  <2>. QED  BY <1>4, <1>6, <2>2, BoundsRest DEF Take
<1>7. CASE Work(w)
  <2>1. \E r : worker' = [worker EXCEPT ![w] = r] /\ r.at = "finishing"
    BY <1>5, <1>7 DEF Work
  <2>2. Busy' = Busy
    BY <1>1, <1>7, <2>1 DEF Busy, Work
  <2>. QED  BY <1>4, <1>7, <2>2, BoundsRest DEF Work
<1>8. CASE Start(w)
  <2>1. \E r : worker' = [worker EXCEPT ![w] = r] /\ r.at = "working"
    BY <1>5, <1>8 DEF Start
  <2>2. Busy' = Busy \cup {w} /\ w \notin Busy
    BY <1>1, <1>8, <2>1 DEF Busy, Start
  <2>3. Cardinality(Busy') = Cardinality(Busy) + 1
    BY <1>2, <2>2, OneMore
  <2>4. Slotted' = Slotted
    BY <1>4, <1>8 DEF Slotted, Admitted, Start
  <2>. QED  BY <1>2, <1>8, <2>3, <2>4 DEF BoundsInv, Start
<1>9. CASE Skip(w) \/ Finish(w)
  <2>1. PICK c \in Calls : c = worker[w].call /\ c \in futures /\ caller[c] # "admitted"
    BY <1>9, Holders DEF Skip, Finish
  <2>2. futures' = futures \ {c} /\ slots' = slots + 1
        /\ \E r : worker' = [worker EXCEPT ![w] = r] /\ r.at = "waiting"
    <3>1. /\ futures' = futures \ {c} /\ slots' = slots + 1
          /\ worker' = [worker EXCEPT ![w] = [at |-> "waiting", call |-> NoCall]]
      BY <1>9, <2>1 DEF Skip, Finish, GiveBack
    <3>. QED  BY <1>5, <3>1
  <2>3. Slotted' = Slotted \ {c} /\ c \in Slotted
    BY <1>3, <2>1, <2>2 DEF Slotted
  <2>4. Cardinality(Slotted') = Cardinality(Slotted) - 1 /\ Cardinality(Slotted') \in Nat
    BY <1>2, <2>3, OneLess
  <2>5. slots' \in Nat /\ slots' + Cardinality(Slotted') = Capacity
    BY <1>2, <2>2, <2>4, ConstantsApart DEF BoundsInv
  <2>6. active' = Cardinality(Busy')
    <3>1. CASE Skip(w)
      <4>1. Busy' = Busy
        BY <1>1, <2>2, <3>1 DEF Busy, Skip
      <4>. QED  BY <3>1, <4>1 DEF BoundsInv, Skip
    <3>2. CASE Finish(w)
      <4>1. Busy' = Busy \ {w} /\ w \in Busy
        BY <1>1, <2>2, <3>2 DEF Busy, Finish
      <4>2. Cardinality(Busy') = Cardinality(Busy) - 1
        BY <1>2, <4>1, OneLess
      <4>. QED  BY <3>2, <4>2 DEF BoundsInv, Finish
    <3>. QED  BY <1>9, <3>1, <3>2
  <2>. QED  BY <2>5, <2>6 DEF BoundsInv
<1>. QED  BY <1>6, <1>7, <1>8, <1>9

LEMMA BoundsKept == CallsInv /\ BoundsInv /\ [LifeNext]_lifeVars => BoundsInv'
<1>. SUFFICES ASSUME CallsInv, BoundsInv, [LifeNext]_lifeVars
              PROVE  BoundsInv'
  OBVIOUS
<1>1. ASSUME UNCHANGED <<active, slots, futures, worker, caller>>
      PROVE  BoundsInv'
  <2>1. Busy' = Busy /\ Admitted' = Admitted
    BY <1>1 DEF Busy, Admitted
  <2>. QED  BY <1>1, <2>1, BoundsRest
<1>2. CASE UNCHANGED lifeVars
  BY <1>1, <1>2 DEF lifeVars, poolVars
<1>3. ASSUME NEW s \in Shutters,
             \/ Close(s) \/ CancelQueued(s) \/ SendStops(s)
             \/ NotIdle(s) \/ Joined(s) \/ NotJoined(s)
      PROVE  BoundsInv'
  BY <1>1, <1>3 DEF Close, CancelQueued, SendStops, NotIdle, Joined, NotJoined, poolVars
<1>4. ASSUME NEW s \in Servers, StopServer(s) \/ EndLifespan(s)
      PROVE  BoundsInv'
  BY <1>1, <1>4 DEF StopServer, EndLifespan, poolVars
<1>5. CASE OwnerShuts \/ OwnerCloses
  BY <1>1, <1>5 DEF OwnerShuts, OwnerCloses, poolVars
<1>. QED
  BY <1>2, <1>3, <1>4, <1>5, HandlersKeepBounds, WorkersKeepBounds DEF LifeNext

------------------------------------------------------------------------------
(* Stopping the workers.                                                    *)

LEMMA TailStops ==
    ASSUME NEW S, NEW s \in Seq(S), s # <<>>
    PROVE  /\ Stops(s) = {} => Stops(Tail(s)) = {}
           /\ Cardinality(Stops(s)) \in Nat
           /\ Cardinality(Stops(Tail(s))) = IF Head(s) = Stop THEN Cardinality(Stops(s)) - 1
                                            ELSE Cardinality(Stops(s))
<1>1. /\ Tail(s) \in Seq(S) /\ Len(s) \in Nat \ {0} /\ Len(Tail(s)) = Len(s) - 1
      /\ Head(s) = s[1]
      /\ \A i \in 1..Len(Tail(s)) : i + 1 \in 1..Len(s) /\ Tail(s)[i] = s[i + 1]
      /\ \A i \in 2..Len(s) : i - 1 \in 1..Len(Tail(s)) /\ Tail(s)[i - 1] = s[i]
  BY TailOf
<1>2. IsFiniteSet(1..Len(s)) /\ IsFiniteSet(1..Len(Tail(s)))
  BY <1>1, FS_Interval
<1>3. IsFiniteSet(Stops(s)) /\ IsFiniteSet(Stops(Tail(s)))
  BY <1>2, FS_Subset DEF Stops
<1>4. Stops(Tail(s)) \subseteq Int /\ Stops(s) \subseteq Int
  BY DEF Stops
<1>5. \A i \in Stops(Tail(s)) : i + 1 \in Stops(s) \ {1}
  BY <1>1 DEF Stops
<1>6. \A i \in Stops(s) \ {1} : i - 1 \in Stops(Tail(s))
  <2>1. \A i \in Stops(s) \ {1} : i \in 2..Len(s) /\ s[i] = Stop
    BY <1>1 DEF Stops
  <2>. QED  BY <1>1, <2>1 DEF Stops
<1>7. ExistsBijection(Stops(Tail(s)), Stops(s) \ {1})
  <2>. DEFINE f == [i \in Stops(Tail(s)) |-> i + 1]
  <2>1. f \in [Stops(Tail(s)) -> Stops(s) \ {1}]
    BY <1>5
  <2>2. \A i, j \in Stops(Tail(s)) : f[i] = f[j] => i = j
    BY <1>4
  <2>3. \A j \in Stops(s) \ {1} : \E i \in Stops(Tail(s)) : f[i] = j
    BY <1>4, <1>6
  <2>. HIDE DEF f
  <2>4. f \in Bijection(Stops(Tail(s)), Stops(s) \ {1})
    BY <2>1, <2>2, <2>3 DEF Bijection, Injection, Surjection, IsInjective
  <2>. QED  BY <2>4 DEF ExistsBijection
<1>8. Cardinality(Stops(Tail(s))) = Cardinality(Stops(s) \ {1})
  BY <1>3, <1>7, FS_Bijection
<1>9. 1 \in Stops(s) <=> Head(s) = Stop
  BY <1>1 DEF Stops
<1>10. Cardinality(Stops(s)) \in Nat /\ (1 \notin Stops(s) => Stops(s) \ {1} = Stops(s))
  BY <1>3, FS_CardinalityType
<1>11. 1 \in Stops(s) => Cardinality(Stops(s) \ {1}) = Cardinality(Stops(s)) - 1
  BY <1>3, OneLess
<1>12. Stops(s) = {} => Stops(Tail(s)) = {}
  BY <1>5
<1>. QED  BY <1>8, <1>9, <1>10, <1>11, <1>12

LEMMA ShuttingStarts == LifeInit => ShuttingInv
<1>. SUFFICES ASSUME LifeInit
              PROVE  ShuttingInv
  OBVIOUS
<1>1. Stops(tasks) = {} /\ Alive = Workers
  BY DEF LifeInit, Stops, Alive
<1>. QED  BY <1>1 DEF LifeInit, ShuttingInv

(* What may happen without shutting: the stops and who waits for them.      *)
LEMMA ShuttingRests ==
    ASSUME ShuttingInv, UNCHANGED <<accepting, stopSent, shut, shutter>>,
           Stops(tasks') = Stops(tasks), Alive' = Alive
    PROVE  ShuttingInv'
<1>1. WorkersGone <=> Alive = {}
  BY DEF WorkersGone, Alive
<1>2. WorkersGone' <=> Alive' = {}
  BY DEF WorkersGone, Alive
<1>3. Stops(tasks)' = Stops(tasks)
  BY DEF Stops
<1>. QED  BY <1>1, <1>2, <1>3 DEF ShuttingInv

LEMMA HandlersKeepShutting ==
    ASSUME CallsInv, ShuttingInv, NEW c \in Calls,
           Admit(c) \/ Register(c) \/ Enqueue(c) \/ Expire(c) \/ Leave(c) \/ Return(c)
    PROVE  ShuttingInv'
<1>1. UNCHANGED <<accepting, stopSent, shut, shutter, worker>>
  BY DEF Admit, Register, Enqueue, Expire, Leave, Return, poolVars
<1>2. Alive' = Alive
  BY <1>1 DEF Alive
<1>3. Stops(tasks') = Stops(tasks)
  <2>1. CASE Enqueue(c)
    <3>1. tasks \in Seq(Calls \cup {Stop}) /\ tasks' = Append(tasks, c) /\ c \in Calls \cup {Stop}
      BY <2>1 DEF Enqueue, CallsInv, PoolTypes
    <3>2. /\ Len(tasks) \in Nat /\ Len(tasks') = Len(tasks) + 1
          /\ \A i \in 1..Len(tasks) : i \in 1..Len(tasks') /\ tasks'[i] = tasks[i]
          /\ tasks'[Len(tasks) + 1] = c
      BY <3>1, AppendedTo
    <3>3. \A i \in 1..Len(tasks') : i \in 1..Len(tasks) \/ i = Len(tasks) + 1
      BY <3>2
    <3>. QED  BY <3>2, <3>3, ConstantsApart DEF Stops
  <2>2. CASE ~ Enqueue(c)
    BY <2>2 DEF Admit, Register, Expire, Leave, Return, poolVars
  <2>. QED  BY <2>1, <2>2
<1>. QED  BY <1>1, <1>2, <1>3, ShuttingRests

LEMMA WorkersKeepShutting ==
    ASSUME CallsInv, ShuttingInv, NEW w \in Workers,
           Take(w) \/ Skip(w) \/ Start(w) \/ Work(w) \/ Finish(w)
    PROVE  ShuttingInv'
<1>1. worker \in [Workers -> WorkerState] /\ worker[w] \in WorkerState
      /\ tasks \in Seq(Calls \cup {Stop})
  BY DEF CallsInv, PoolTypes
<1>2. UNCHANGED <<accepting, stopSent, shut, shutter>>
  BY DEF Take, Skip, Start, Work, Finish
<1>3. /\ \A at \in {"gone", "working", "finishing"} : [worker[w] EXCEPT !.at = at].at = at
      /\ \A at, d : [at |-> at, call |-> d].at = at
  BY <1>1 DEF WorkerState
<1>4. CASE Take(w)
  <2>1. worker[w].at = "waiting" /\ tasks # <<>> /\ tasks' = Tail(tasks) /\ w \in Alive
    BY <1>4 DEF Take, Alive
  <2>2. /\ Stops(tasks) = {} => Stops(tasks') = {}
        /\ Cardinality(Stops(tasks)) \in Nat
        /\ Cardinality(Stops(tasks')) = IF Head(tasks) = Stop THEN Cardinality(Stops(tasks)) - 1
                                        ELSE Cardinality(Stops(tasks))
    BY <1>1, <2>1, TailStops
  <2>3. IsFiniteSet(Alive) /\ Cardinality(Alive) \in Nat
    BY Finites DEF Alive
  <2>4. ~ shut
    BY <2>1 DEF ShuttingInv, WorkersGone
  <2>5. CASE Head(tasks) = Stop
    <3>1. \E r : worker' = [worker EXCEPT ![w] = r] /\ r.at = "gone"
      BY <1>3, <1>4, <2>5 DEF Take
    <3>2. Alive' = Alive \ {w}
      BY <1>1, <3>1 DEF Alive
    <3>3. Cardinality(Alive') = Cardinality(Alive) - 1
      BY <2>1, <2>3, <3>2, OneLess
    <3>4. Stops(tasks) # {}
      <4>1. Len(tasks) \in Nat \ {0} /\ tasks[1] = Stop
        BY <1>1, <2>1, <2>5, TailOf
      <4>. QED  BY <4>1 DEF Stops
    <3>5. stopSent /\ Cardinality(Stops(tasks')) = Cardinality(Stops(tasks)) - 1
      BY <2>2, <2>5, <3>4 DEF ShuttingInv
    <3>6. Cardinality(Stops(tasks')) = Cardinality(Alive')
      BY <3>3, <3>5 DEF ShuttingInv
    <3>7. Cardinality(Stops(tasks)') = Cardinality(Alive')
      BY <3>6 DEF Stops
    <3>. QED  BY <1>2, <2>4, <3>5, <3>7 DEF ShuttingInv
  <2>6. CASE Head(tasks) # Stop
    <3>1. \E r : worker' = [worker EXCEPT ![w] = r] /\ r.at = "holding"
      <4>1. worker' = [worker EXCEPT ![w] = [at |-> "holding", call |-> Head(tasks)]]
        BY <1>4, <2>6 DEF Take
      <4>. QED  BY <1>3, <4>1
    <3>2. Alive' = Alive
      BY <1>1, <2>1, <3>1 DEF Alive
    <3>3. Stops(tasks)' = Stops(tasks')
      BY DEF Stops
    <3>. QED  BY <1>2, <2>2, <2>4, <2>6, <3>2, <3>3 DEF ShuttingInv
  <2>. QED  BY <2>5, <2>6
<1>5. CASE ~ Take(w)
  <2>1. UNCHANGED tasks /\ worker[w].at # "gone"
        /\ \E r : worker' = [worker EXCEPT ![w] = r] /\ r.at # "gone"
    <3>1. CASE Skip(w) \/ Finish(w)
      <4>1. worker' = [worker EXCEPT ![w] = [at |-> "waiting", call |-> NoCall]]
            /\ UNCHANGED tasks /\ worker[w].at # "gone"
        BY <3>1 DEF Skip, Finish, GiveBack
      <4>2. PICK r : r = [at |-> "waiting", call |-> NoCall]
        OBVIOUS
      <4>3. r.at # "gone"
        BY <4>2
      <4>. QED  BY <4>1, <4>2, <4>3
    <3>2. CASE Start(w) \/ Work(w)
      BY <1>3, <3>2 DEF Start, Work
    <3>. QED  BY <1>5, <3>1, <3>2
  <2>2. Alive' = Alive
    BY <1>1, <2>1 DEF Alive
  <2>. QED  BY <1>2, <2>1, <2>2, ShuttingRests
<1>. QED  BY <1>4, <1>5

LEMMA ShuttersKeepShutting ==
    ASSUME CallsInv, ShuttingInv, NEW s \in Shutters,
           \/ Close(s) \/ CancelQueued(s) \/ SendStops(s)
           \/ NotIdle(s) \/ Joined(s) \/ NotJoined(s)
    PROVE  ShuttingInv'
<1>1. UNCHANGED worker
  BY DEF Close, CancelQueued, SendStops, NotIdle, Joined, NotJoined
<1>2. Alive' = Alive /\ (WorkersGone' <=> WorkersGone)
  BY <1>1 DEF Alive, WorkersGone
<1>3. CASE SendStops(s)
  <2>1. /\ shutter[s] = "idling" /\ stopSent' = TRUE /\ UNCHANGED <<accepting, shut>>
        /\ shutter' = [shutter EXCEPT ![s] = "joining"] /\ ~ accepting
        /\ tasks' = IF stopSent THEN tasks ELSE tasks \o StopsFor
    BY <1>3 DEF SendStops, Goes, ShuttingInv, StopsFor
  <2>2. Cardinality(Stops(tasks')) = Cardinality(Alive')
    <3>1. CASE stopSent
      BY <1>2, <2>1, <3>1 DEF ShuttingInv
    <3>2. CASE ~ stopSent
      <4>1. Stops(tasks) = {} /\ Alive' = Workers /\ tasks' = tasks \o StopsFor
        BY <1>2, <2>1, <3>2 DEF ShuttingInv
      <4>2. tasks \in Seq(Calls \cup {Stop}) /\ Stop \in Calls \cup {Stop}
        BY DEF CallsInv, PoolTypes
      <4>3. /\ Len(tasks) \in Nat /\ Cardinality(Workers) \in Nat
            /\ Len(tasks') = Len(tasks) + Cardinality(Workers)
            /\ \A i \in 1..Len(tasks) : i \in 1..Len(tasks') /\ tasks'[i] = tasks[i]
            /\ \A i \in 1..Len(tasks') : i \notin 1..Len(tasks) => tasks'[i] = Stop
        BY <4>1, <4>2, StopsAppended
      <4>4. PICK n, m \in Nat : n = Len(tasks) /\ m = Cardinality(Workers)
        BY <4>3
      <4>5. Stops(tasks') = n + 1 .. n + m
        BY <4>1, <4>3, <4>4 DEF Stops
      <4>6. Cardinality(n + 1 .. n + m) = IF n + 1 > n + m THEN 0 ELSE n + m - (n + 1) + 1
        <5>1. n + 1 \in Int /\ n + m \in Int
          BY <4>4
        <5>. QED  BY <5>1, FS_Interval
      <4>7. Cardinality(n + 1 .. n + m) = m
        BY <4>4, <4>6
      <4>. QED  BY <4>1, <4>4, <4>5, <4>7
    <3>. QED  BY <3>1, <3>2
  <2>3. Stops(tasks)' = Stops(tasks')
    BY DEF Stops
  <2>. QED  BY <1>2, <2>1, <2>2, <2>3 DEF ShuttingInv
<1>4. CASE ~ SendStops(s)
  <2>1. UNCHANGED <<tasks, stopSent>>
    BY <1>4 DEF Close, CancelQueued, NotIdle, Joined, NotJoined, poolVars
  <2>2. Stops(tasks)' = Stops(tasks)
    BY <2>1 DEF Stops
  <2>3. \E at \in {"cancelling", "idling", "done", "failed"} :
          /\ shutter' = [shutter EXCEPT ![s] = at]
          /\ at \in {"cancelling", "idling"} => ~ accepting'
          /\ at = "done" => shut'
    BY <1>4 DEF Close, CancelQueued, NotIdle, Joined, NotJoined, Goes, poolVars, ShuttingInv
  <2>4. /\ accepting' = accepting \/ accepting' = FALSE
        /\ shut' = shut \/ (shut' = TRUE /\ WorkersGone /\ stopSent)
    BY <1>4 DEF Close, CancelQueued, NotIdle, Joined, NotJoined, poolVars, Quiet, ShuttingInv
  <2>5. /\ accepting' \in BOOLEAN /\ shut' \in BOOLEAN /\ (~ accepting => ~ accepting')
        /\ shut => shut'
    <3>1. accepting \in BOOLEAN /\ shut \in BOOLEAN
      BY DEF ShuttingInv
    <3>2. accepting' \in BOOLEAN /\ (~ accepting => ~ accepting')
      <4>1. CASE accepting' = accepting
        BY <3>1, <4>1
      <4>2. CASE accepting' = FALSE
        BY <4>2
      <4>. QED  BY <2>4, <4>1, <4>2
    <3>3. shut' \in BOOLEAN /\ (shut => shut')
      BY <2>4, <3>1
    <3>. QED  BY <3>2, <3>3
  <2>6. PICK at \in {"cancelling", "idling", "done", "failed"} :
          /\ shutter' = [shutter EXCEPT ![s] = at]
          /\ at \in {"cancelling", "idling"} => ~ accepting'
          /\ at = "done" => shut'
    BY <2>3
  <2>7. /\ shutter' \in [Shutters -> {"out", "wanted", "cancelling", "idling", "joining",
                                      "done", "failed"}]
        /\ shutter'[s] = at /\ \A t \in Shutters \ {s} : shutter'[t] = shutter[t]
    BY <2>6 DEF ShuttingInv
  <2>8. \A t \in Shutters :
          /\ shutter'[t] \in {"cancelling", "idling", "joining"} => ~ accepting'
          /\ shutter'[t] = "joining" => stopSent
          /\ shutter'[t] = "done" => shut'
    BY <2>5, <2>6, <2>7 DEF ShuttingInv
  <2>9. shut' => WorkersGone /\ stopSent
    BY <2>4 DEF ShuttingInv
  <2>10. stopSent => ~ accepting'
    BY <2>5 DEF ShuttingInv
  <2>. QED  BY <1>2, <2>1, <2>2, <2>5, <2>7, <2>8, <2>9, <2>10 DEF ShuttingInv
<1>. QED  BY <1>3, <1>4

LEMMA ShuttingKept == CallsInv /\ ShuttingInv /\ [LifeNext]_lifeVars => ShuttingInv'
<1>. SUFFICES ASSUME CallsInv, ShuttingInv, [LifeNext]_lifeVars
              PROVE  ShuttingInv'
  OBVIOUS
<1>1. ASSUME UNCHANGED <<accepting, stopSent, shut, tasks, worker>>,
             \/ UNCHANGED shutter
             \/ \E s \in Shutters : shutter' = [shutter EXCEPT ![s] = "wanted"]
      PROVE  ShuttingInv'
  <2>1. Alive' = Alive /\ (WorkersGone' <=> WorkersGone) /\ Stops(tasks)' = Stops(tasks)
    BY <1>1 DEF Alive, WorkersGone, Stops
  <2>. QED  BY <1>1, <2>1 DEF ShuttingInv
<1>2. CASE UNCHANGED lifeVars
  BY <1>1, <1>2 DEF lifeVars, poolVars
<1>3. ASSUME NEW s \in Servers, StopServer(s) \/ EndLifespan(s)
      PROVE  ShuttingInv'
  BY <1>1, <1>3 DEF StopServer, EndLifespan, poolVars, Goes, Shutters
<1>4. CASE OwnerShuts \/ OwnerCloses
  BY <1>1, <1>4 DEF OwnerShuts, OwnerCloses, poolVars, Goes, Shutters
<1>. QED
  BY <1>2, <1>3, <1>4, HandlersKeepShutting, WorkersKeepShutting, ShuttersKeepShutting DEF LifeNext

------------------------------------------------------------------------------
(* What is queued.                                                          *)

CallerStates == {"idle", "admitted", "registered", "awaiting", "leaving", "refused", "answered"}

(* While the workers have not been told to stop, the queue is in order.     *)
LEMMA OrderedUntilStop == ASSUME ShuttingInv, ~ stopSent PROVE Orderly
  BY DEF ShuttingInv, Orderly, Stops

LEMMA CountsAreNumbers ==
    ASSUME QueueInv
    PROVE  /\ queued \in Nat /\ IsFiniteSet(QueuedCalls)
           /\ Cardinality(QueuedCalls) \in 0..Cardinality(Calls)
<1>1. QueuedCalls \subseteq Calls
  BY DEF QueuedCalls
<1>2. Cardinality(Calls) \in Nat /\ IsFiniteSet(QueuedCalls) /\ Cardinality(QueuedCalls) \in Nat
  BY <1>1, Finites
<1>3. Cardinality(QueuedCalls) <= Cardinality(Calls)
  BY <1>1, FS_Subset, Finites
<1>. QED  BY <1>2, <1>3 DEF QueueInv

LEMMA QueueStarts == LifeInit => QueueInv
<1>. SUFFICES ASSUME LifeInit
              PROVE  QueueInv
  OBVIOUS
<1>1. QueuedCalls = {} /\ Alive = Workers /\ Orderly
  BY DEF LifeInit, QueuedCalls, InTasks, Alive, Orderly
<1>2. Cardinality({}) = 0 /\ Cardinality(Calls) \in Nat
  BY FS_EmptySet, Finites
<1>. QED  BY <1>1, <1>2 DEF LifeInit, QueueInv, InSubmit

(* What leaves the queue and the submissions alone.                         *)
LEMMA QueueRests ==
    ASSUME QueueInv, UNCHANGED <<queued, tasks>>, Alive' = Alive, accepting' => accepting,
           \A c \in Calls : /\ caller'[c] = "registered" <=> caller[c] = "registered"
                            /\ caller'[c] = "admitted" <=> caller[c] = "admitted"
    PROVE  QueueInv'
<1>1. QueuedCalls' = QueuedCalls
  BY DEF QueuedCalls, InTasks
<1>2. Orderly' <=> Orderly
  BY DEF Orderly
<1>3. \A c \in Calls : InSubmit(c)' <=> InSubmit(c)
  BY DEF InSubmit
<1>4. LoopIsFree' <=> LoopIsFree
  BY <1>3 DEF LoopIsFree
<1>. QED  BY <1>1, <1>2, <1>3, <1>4 DEF QueueInv

LEMMA HandlersKeepQueue ==
    ASSUME CallsInv, ShuttingInv, QueueInv, NEW c \in Calls,
           Admit(c) \/ Register(c) \/ Enqueue(c) \/ Expire(c) \/ Leave(c) \/ Return(c)
    PROVE  QueueInv'
<1>1. UNCHANGED <<accepting, worker>>
  BY DEF Admit, Register, Enqueue, Expire, Leave, Return, poolVars
<1>2. Alive' = Alive
  BY <1>1 DEF Alive
<1>3. caller \in [Calls -> CallerStates] /\ tasks \in Seq(Calls \cup {Stop})
  BY DEF CallsInv, PoolTypes, CallerStates
<1>4. CASE Admit(c)
  <2>1. /\ LoopIsFree /\ UNCHANGED <<queued, tasks>>
        /\ \E at \in {"admitted", "refused"} :
              caller' = [caller EXCEPT ![c] = at] /\ (at = "admitted" => accepting)
    BY <1>4 DEF Admit
  <2>2. \A d \in Calls : /\ caller[d] \notin {"admitted", "registered"} /\ caller'[d] # "registered"
                         /\ caller'[d] = "admitted" => d = c
    BY <1>3, <2>1 DEF LoopIsFree, InSubmit
  <2>3. CASE caller'[c] = "admitted"
    <3>1. accepting /\ ~ stopSent
      <4>1. accepting
        BY <1>3, <2>1, <2>3
      <4>. QED  BY <4>1 DEF ShuttingInv
    <3>2. Orderly
      BY <3>1, OrderedUntilStop
    <3>3. Orderly'
      BY <1>2, <2>1, <3>2 DEF Orderly
    <3>4. QueuedCalls' = QueuedCalls
      BY <2>1, <2>2 DEF QueuedCalls, InTasks
    <3>5. \A d, e \in Calls : InSubmit(d)' /\ InSubmit(e)' => d = e
      BY <2>2 DEF InSubmit
    <3>. QED  BY <2>1, <3>1, <3>3, <3>4, <3>5 DEF QueueInv
  <2>4. CASE caller'[c] # "admitted"
    BY <1>1, <1>2, <2>1, <2>2, <2>4, QueueRests
  <2>. QED  BY <2>3, <2>4
<1>5. CASE Register(c)
  <2>1. caller[c] = "admitted" /\ UNCHANGED tasks /\ ~ InTasks(c)
        /\ \A d \in Calls : InSubmit(d) => d = c
    BY <1>5 DEF Register, InSubmit, QueueInv, CallsInv, PlacesInv
  <2>2. Orderly
    BY <2>1 DEF QueueInv
  <2>3. Orderly'
    BY <1>2, <2>1, <2>2 DEF Orderly
  <2>4. CASE accepting
    <3>1. queued = Cardinality(QueuedCalls)
      BY <2>4 DEF QueueInv
    <3>2. queued' = queued + 1 /\ caller' = [caller EXCEPT ![c] = "registered"]
      BY <1>5, <2>4 DEF Register
    <3>3. QueuedCalls' = QueuedCalls \cup {c} /\ c \notin QueuedCalls
      BY <1>3, <2>1, <3>2 DEF QueuedCalls, InTasks
    <3>4. queued' = Cardinality(QueuedCalls')
      BY <3>1, <3>2, <3>3, OneMore, CountsAreNumbers
    <3>5. queued' \in 0..Cardinality(Calls)
      <4>1. QueuedCalls' \subseteq Calls
        BY DEF QueuedCalls
      <4>2. Cardinality(QueuedCalls') <= Cardinality(Calls) /\ Cardinality(QueuedCalls') \in Nat
        BY <4>1, FS_Subset, Finites
      <4>. QED  BY <3>4, <4>2, Finites
    <3>6. \A d, e \in Calls : InSubmit(d)' /\ InSubmit(e)' => d = e
      BY <1>3, <2>1, <3>2 DEF InSubmit
    <3>. QED  BY <2>3, <3>4, <3>5, <3>6 DEF QueueInv
  <2>5. CASE ~ accepting
    <3>1. queued' = AtMostZero(queued - 1) /\ caller' = [caller EXCEPT ![c] = "refused"]
      BY <1>5, <2>5 DEF Register
    <3>2. queued' \in 0..Cardinality(Calls)
      BY <3>1, Finites DEF QueueInv, AtMostZero
    <3>3. \A d \in Calls : ~ InSubmit(d)'
      BY <1>3, <2>1, <3>1 DEF InSubmit
    <3>4. LoopIsFree'
      BY <3>3 DEF LoopIsFree
    <3>. QED  BY <1>1, <2>3, <2>5, <3>2, <3>3, <3>4 DEF QueueInv
  <2>. QED  BY <2>4, <2>5
<1>6. CASE Enqueue(c)
  <2>1. caller[c] = "registered" /\ tasks' = Append(tasks, c) /\ UNCHANGED queued
        /\ caller' = [caller EXCEPT ![c] = "awaiting"]
    BY <1>6 DEF Enqueue
  <2>2. \A d \in Calls : InSubmit(d) => d = c
    BY <2>1 DEF QueueInv, InSubmit
  <2>3. queued = Cardinality(QueuedCalls)
    BY <2>1 DEF QueueInv, LoopIsFree, InSubmit
  <2>4. /\ Len(tasks) \in Nat /\ Len(tasks') = Len(tasks) + 1
        /\ \A i \in 1..Len(tasks) : i \in 1..Len(tasks') /\ tasks'[i] = tasks[i]
        /\ tasks'[Len(tasks) + 1] = c
    BY <1>3, <2>1, AppendedTo
  <2>5. \A i \in 1..Len(tasks') : i \in 1..Len(tasks) \/ i = Len(tasks) + 1
    BY <2>4
  <2>6. \A d \in Calls : InTasks(d)' <=> InTasks(d) \/ d = c
    BY <2>4, <2>5 DEF InTasks
  <2>7. QueuedCalls' = QueuedCalls
    BY <1>3, <2>1, <2>6 DEF QueuedCalls
  <2>8. \A d \in Calls : ~ InSubmit(d)'
    BY <1>3, <2>1, <2>2 DEF InSubmit
  <2>. QED  BY <2>1, <2>3, <2>7, <2>8 DEF QueueInv, InSubmit
<1>7. CASE Expire(c) \/ Leave(c) \/ Return(c)
  <2>1. /\ caller[c] \in {"awaiting", "leaving"} /\ UNCHANGED <<queued, tasks>>
        /\ \E at \in {"leaving", "answered"} : caller' = [caller EXCEPT ![c] = at]
    BY <1>7 DEF Expire, Leave, Return, poolVars
  <2>2. \A d \in Calls : /\ caller'[d] = "registered" <=> caller[d] = "registered"
                         /\ caller'[d] = "admitted" <=> caller[d] = "admitted"
    BY <1>3, <2>1
  <2>. QED  BY <1>1, <1>2, <2>1, <2>2, QueueRests
<1>. QED  BY <1>4, <1>5, <1>6, <1>7

LEMMA WorkersKeepQueue ==
    ASSUME CallsInv, QueueInv, NEW w \in Workers,
           Take(w) \/ Skip(w) \/ Start(w) \/ Work(w) \/ Finish(w)
    PROVE  QueueInv'
<1>1. worker \in [Workers -> WorkerState] /\ worker[w] \in WorkerState
      /\ tasks \in Seq(Calls \cup {Stop})
  BY DEF CallsInv, PoolTypes
<1>2. UNCHANGED <<accepting, caller>>
  BY DEF Take, Skip, Start, Work, Finish
<1>3. /\ \A at \in {"gone", "working", "finishing"} : [worker[w] EXCEPT !.at = at].at = at
      /\ \A at, d : [at |-> at, call |-> d].at = at
  BY <1>1 DEF WorkerState
<1>4. \A c \in Calls : InSubmit(c)' <=> InSubmit(c)
  BY <1>2 DEF InSubmit
<1>5. LoopIsFree' <=> LoopIsFree
  BY <1>4 DEF LoopIsFree
<1>6. CASE Take(w)
  <2>1. worker[w].at = "waiting" /\ tasks # <<>> /\ tasks' = Tail(tasks)
    BY <1>6 DEF Take
  <2>2. /\ Len(tasks) \in Nat \ {0} /\ Len(tasks') = Len(tasks) - 1
        /\ Head(tasks) = tasks[1] /\ Head(tasks) \in Calls \cup {Stop}
        /\ \A i \in 1..Len(tasks') : i + 1 \in 1..Len(tasks) /\ tasks'[i] = tasks[i + 1]
        /\ \A i \in 2..Len(tasks) : i - 1 \in 1..Len(tasks') /\ tasks'[i - 1] = tasks[i]
    BY <1>1, <2>1, TailOf
  <2>3. \A d \in Calls : InTasks(d)' <=> InTasks(d) /\ d # Head(tasks)
    BY <2>1, TakenFromTasks
  <2>4. \A i, j \in 1..Len(tasks') : i < j => i + 1 < j + 1
    OBVIOUS
  <2>5. CASE Head(tasks) = Stop
    <3>1. UNCHANGED queued
      BY <1>6, <2>5 DEF Take
    <3>2. \A d \in Calls : InTasks(d)' <=> InTasks(d)
      BY <2>3, <2>5, ConstantsApart
    <3>3. QueuedCalls' = QueuedCalls
      BY <1>2, <3>2 DEF QueuedCalls
    <3>4. Orderly => \A i \in 1..Len(tasks) : tasks[i] = Stop
      <4>1. \A i \in 1..Len(tasks) : i = 1 \/ (1 < i /\ 1 \in 1..Len(tasks))
        BY <2>2
      <4>. QED  BY <2>2, <2>5, <4>1 DEF Orderly
    <3>5. Orderly => Orderly'
      BY <2>2, <3>4 DEF Orderly
    <3>. QED  BY <1>2, <1>4, <1>5, <3>1, <3>3, <3>5 DEF QueueInv
  <2>6. CASE Head(tasks) # Stop
    <3>1. PICK h \in Calls : h = Head(tasks)
      BY <2>2, <2>6
    <3>2. queued' = AtMostZero(queued - 1)
          /\ worker' = [worker EXCEPT ![w] = [at |-> "holding", call |-> h]]
      BY <1>6, <2>6, <3>1 DEF Take
    <3>3. InTasks(h) /\ caller[h] # "registered"
      <4>1. InTasks(h)
        BY <2>2, <3>1 DEF InTasks
      <4>. QED  BY <4>1 DEF CallsInv, PlacesInv
    <3>4. Alive' = Alive
      <4>1. \E r : worker' = [worker EXCEPT ![w] = r] /\ r.at = "holding"
        BY <1>3, <3>2
      <4>. QED  BY <1>1, <2>1, <4>1 DEF Alive
    <3>5. QueuedCalls' = QueuedCalls \ {h} /\ h \in QueuedCalls
      BY <1>2, <2>3, <3>1, <3>3 DEF QueuedCalls
    <3>6. queued = Cardinality(QueuedCalls) => queued' = Cardinality(QueuedCalls')
      <4>1. Cardinality(QueuedCalls') = Cardinality(QueuedCalls) - 1
            /\ Cardinality(QueuedCalls') \in Nat /\ Cardinality(QueuedCalls) \in Nat
        BY <3>5, OneLess, CountsAreNumbers
      <4>. QED  BY <3>2, <4>1 DEF AtMostZero
    <3>7. queued' \in 0..Cardinality(Calls)
      BY <3>2, Finites DEF QueueInv, AtMostZero
    <3>8. Orderly => Orderly'
      <4>1. Orderly => Alive = Workers
        BY <2>2, <2>6 DEF Orderly
      <4>2. Orderly => \A i, j \in 1..Len(tasks') : i < j /\ tasks'[i] = Stop => tasks'[j] = Stop
        BY <2>2, <2>4 DEF Orderly
      <4>. QED  BY <3>4, <4>1, <4>2 DEF Orderly
    <3>. QED  BY <1>2, <1>4, <1>5, <3>6, <3>7, <3>8 DEF QueueInv
  <2>. QED  BY <2>5, <2>6
<1>7. CASE ~ Take(w)
  <2>1. UNCHANGED <<tasks, queued>> /\ worker[w].at # "gone"
        /\ \E r : worker' = [worker EXCEPT ![w] = r] /\ r.at # "gone"
    <3>1. CASE Skip(w) \/ Finish(w)
      <4>1. worker' = [worker EXCEPT ![w] = [at |-> "waiting", call |-> NoCall]]
            /\ UNCHANGED <<tasks, queued>> /\ worker[w].at # "gone"
        BY <3>1 DEF Skip, Finish, GiveBack
      <4>2. PICK r : r = [at |-> "waiting", call |-> NoCall]
        OBVIOUS
      <4>3. r.at # "gone"
        BY <4>2
      <4>. QED  BY <4>1, <4>2, <4>3
    <3>2. CASE Start(w) \/ Work(w)
      BY <1>3, <3>2 DEF Start, Work
    <3>. QED  BY <1>7, <3>1, <3>2
  <2>2. Alive' = Alive
    BY <1>1, <2>1 DEF Alive
  <2>. QED  BY <1>2, <2>1, <2>2, QueueRests
<1>. QED  BY <1>6, <1>7

LEMMA ShuttersKeepQueue ==
    ASSUME CallsInv, ShuttingInv, QueueInv, NEW s \in Shutters,
           \/ Close(s) \/ CancelQueued(s) \/ SendStops(s)
           \/ NotIdle(s) \/ Joined(s) \/ NotJoined(s)
    PROVE  QueueInv'
<1>1. UNCHANGED <<worker, caller, queued>>
  BY DEF Close, CancelQueued, SendStops, NotIdle, Joined, NotJoined, poolVars
<1>2. Alive' = Alive
  BY <1>1 DEF Alive
<1>3. CASE SendStops(s) /\ ~ stopSent
  <2>1. tasks' = tasks \o StopsFor /\ UNCHANGED accepting
    BY <1>3 DEF SendStops, StopsFor
  <2>2. tasks \in Seq(Calls \cup {Stop}) /\ Stop \in Calls \cup {Stop}
    BY DEF CallsInv, PoolTypes
  <2>3. /\ Len(tasks) \in Nat /\ Len(tasks') \in Nat
        /\ \A i \in 1..Len(tasks) : i \in 1..Len(tasks') /\ tasks'[i] = tasks[i]
        /\ \A i \in 1..Len(tasks') : i \notin 1..Len(tasks) => tasks'[i] = Stop
    BY <2>1, <2>2, StopsAppended
  <2>4. \A d \in Calls : InTasks(d)' <=> InTasks(d)
    BY <2>3, ConstantsApart DEF InTasks
  <2>5. QueuedCalls' = QueuedCalls
    BY <1>1, <2>4 DEF QueuedCalls
  <2>6. Stops(tasks) = {} /\ Alive = Workers
    BY <1>3 DEF ShuttingInv
  <2>7. \A i, j \in 1..Len(tasks') : i < j /\ i \notin 1..Len(tasks) => j \notin 1..Len(tasks)
    BY <2>3
  <2>8. Orderly'
    BY <1>2, <2>3, <2>6, <2>7 DEF Orderly, Stops
  <2>9. \A c \in Calls : InSubmit(c)' <=> InSubmit(c)
    BY <1>1 DEF InSubmit
  <2>10. LoopIsFree' <=> LoopIsFree
    BY <2>9 DEF LoopIsFree
  <2>. QED  BY <1>1, <2>1, <2>5, <2>8, <2>9, <2>10 DEF QueueInv
<1>4. CASE ~ (SendStops(s) /\ ~ stopSent)
  <2>1. UNCHANGED tasks /\ (accepting' => accepting)
    <3>1. CASE Close(s)
      <4>1. UNCHANGED tasks /\ (accepting' = accepting \/ accepting' = FALSE)
        BY <3>1 DEF Close
      <4>. QED  BY <4>1
    <3>2. CASE ~ Close(s)
      <4>1. UNCHANGED <<tasks, accepting>>
        BY <1>4, <3>2 DEF CancelQueued, SendStops, NotIdle, Joined, NotJoined, poolVars
      <4>. QED  BY <4>1
    <3>. QED  BY <3>1, <3>2
  <2>. QED  BY <1>1, <1>2, <2>1, QueueRests
<1>. QED  BY <1>3, <1>4

LEMMA QueueKept == CallsInv /\ ShuttingInv /\ QueueInv /\ [LifeNext]_lifeVars => QueueInv'
<1>. SUFFICES ASSUME CallsInv, ShuttingInv, QueueInv, [LifeNext]_lifeVars
              PROVE  QueueInv'
  OBVIOUS
<1>1. ASSUME UNCHANGED <<queued, tasks, worker, caller, accepting>>
      PROVE  QueueInv'
  <2>1. Alive' = Alive
    BY <1>1 DEF Alive
  <2>. QED  BY <1>1, <2>1, QueueRests
<1>2. CASE UNCHANGED lifeVars
  BY <1>1, <1>2 DEF lifeVars, poolVars
<1>3. ASSUME NEW s \in Servers, StopServer(s) \/ EndLifespan(s)
      PROVE  QueueInv'
  BY <1>1, <1>3 DEF StopServer, EndLifespan, poolVars
<1>4. CASE OwnerShuts \/ OwnerCloses
  BY <1>1, <1>4 DEF OwnerShuts, OwnerCloses, poolVars
<1>. QED
  BY <1>2, <1>3, <1>4, HandlersKeepQueue, WorkersKeepQueue, ShuttersKeepQueue DEF LifeNext

------------------------------------------------------------------------------
(* The listeners, and what is left once the pool is shut.                   *)

LEMMA ListenersStart == LifeInit => ListenersInv /\ ShutIsQuiet
  BY DEF LifeInit, ListenersInv, ShutIsQuiet, Servers

LEMMA ShutForGood ==
    ASSUME ShuttingInv, [LifeNext]_lifeVars
    PROVE  shut => shut'
<1>. SUFFICES ASSUME shut
              PROVE  shut'
  OBVIOUS
<1>1. ASSUME NEW c \in Calls,
             Admit(c) \/ Register(c) \/ Enqueue(c) \/ Expire(c) \/ Leave(c) \/ Return(c)
      PROVE  UNCHANGED shut
  BY <1>1 DEF Admit, Register, Enqueue, Expire, Leave, Return, poolVars
<1>2. ASSUME NEW w \in Workers, Take(w) \/ Skip(w) \/ Start(w) \/ Work(w) \/ Finish(w)
      PROVE  UNCHANGED shut
  BY <1>2 DEF Take, Skip, Start, Work, Finish
<1>3. ASSUME NEW s \in Shutters,
             \/ Close(s) \/ CancelQueued(s) \/ SendStops(s)
             \/ NotIdle(s) \/ Joined(s) \/ NotJoined(s)
      PROVE  shut' = shut \/ shut' = TRUE
  BY <1>3 DEF Close, CancelQueued, SendStops, NotIdle, Joined, NotJoined, poolVars
<1>4. ASSUME NEW s \in Servers, StopServer(s) \/ EndLifespan(s)
      PROVE  UNCHANGED shut
  BY <1>4 DEF StopServer, EndLifespan, poolVars
<1>5. CASE OwnerShuts \/ OwnerCloses \/ UNCHANGED lifeVars
  BY <1>5 DEF OwnerShuts, OwnerCloses, poolVars, lifeVars
<1>6. shut' = shut \/ shut' = TRUE
  BY <1>1, <1>2, <1>3, <1>4, <1>5 DEF LifeNext
<1>. QED  BY <1>6

LEMMA ListenersKept ==
    ASSUME CallsInv, ShuttingInv, ListenersInv, [LifeNext]_lifeVars
    PROVE  ListenersInv'
<1>1. shut => shut'
  BY ShutForGood
<1>2. caller \in [Calls -> CallerStates] /\ Local \subseteq Calls
  BY ConstantsApart DEF CallsInv, PoolTypes, CallerStates
<1>3. ASSUME UNCHANGED <<server, closedBy, runtime, accepting, shutter>>,
             server["local"] = "down" => \A c \in Local : Over(c) => Over(c)'
      PROVE  ListenersInv'
  BY <1>1, <1>3 DEF ListenersInv
<1>4. ASSUME NEW c \in Calls, Admit(c)
      PROVE  ListenersInv'
  <2>1. /\ server[ServerOf(c)] = "serving"
        /\ \E at \in {"admitted", "refused"} : caller' = [caller EXCEPT ![c] = at]
        /\ UNCHANGED <<server, closedBy, runtime, accepting, shutter>>
    BY <1>4 DEF Admit
  <2>2. server["local"] = "down" => c \notin Local
    BY <2>1 DEF ServerOf
  <2>3. server["local"] = "down" => \A d \in Local : caller'[d] = caller[d]
    BY <1>2, <2>1, <2>2
  <2>. QED  BY <1>3, <2>1, <2>3 DEF Over
<1>5. ASSUME NEW c \in Calls, Register(c) \/ Enqueue(c) \/ Expire(c) \/ Leave(c) \/ Return(c)
      PROVE  ListenersInv'
  <2>1. /\ ~ Over(c) /\ UNCHANGED <<server, closedBy, runtime, accepting, shutter>>
        /\ \E at \in CallerStates : caller' = [caller EXCEPT ![c] = at]
    BY <1>5 DEF Register, Enqueue, Expire, Leave, Return, poolVars, Over, CallerStates
  <2>2. \A d \in Calls : Over(d) => caller'[d] = caller[d]
    BY <1>2, <2>1
  <2>. QED  BY <1>2, <1>3, <2>1, <2>2 DEF Over
<1>6. ASSUME NEW w \in Workers, Take(w) \/ Skip(w) \/ Start(w) \/ Work(w) \/ Finish(w)
      PROVE  ListenersInv'
  <2>1. UNCHANGED <<server, closedBy, runtime, accepting, shutter, caller>>
    BY <1>6 DEF Take, Skip, Start, Work, Finish
  <2>. QED  BY <1>3, <2>1 DEF Over
<1>7. ASSUME NEW s \in Shutters,
             \/ Close(s) \/ CancelQueued(s) \/ SendStops(s)
             \/ NotIdle(s) \/ Joined(s) \/ NotJoined(s)
      PROVE  ListenersInv'
  <2>1. UNCHANGED <<server, closedBy, runtime, caller>> /\ shutter[s] # "out"
    BY <1>7 DEF Close, CancelQueued, SendStops, NotIdle, Joined, NotJoined, poolVars
  <2>2. \A c : Over(c)' <=> Over(c)
    BY <2>1 DEF Over
  <2>. QED  BY <1>1, <2>1, <2>2 DEF ListenersInv
<1>8. ASSUME NEW s \in Servers, StopServer(s)
      PROVE  ListenersInv'
  <2>1. /\ server[s] = "serving" /\ MayStop(s)
        /\ \A c \in Calls : ServerOf(c) = s => Over(c)
        /\ UNCHANGED <<runtime, accepting, shut, caller, closedBy>>
    BY <1>8 DEF StopServer, poolVars
  <2>2. \E at \in {"lifespan", "down"} : server' = [server EXCEPT ![s] = at]
    BY <1>8 DEF StopServer
  <2>3. server' \in [Servers -> {"serving", "lifespan", "down"}]
    BY <2>2 DEF ListenersInv
  <2>4. ASSUME runtime = "pairing"
        PROVE  server'["local"] = "down" /\ \A c \in Local : Over(c)'
    <3>1. CASE s = "local"
      <4>1. server' = [server EXCEPT !["local"] = "down"]
        BY <1>8, <2>4, <3>1 DEF StopServer, OwnsPool
      <4>2. \A c \in Local : Over(c)
        BY <1>2, <2>1, <3>1 DEF ServerOf
      <4>. QED  BY <2>1, <4>1, <4>2 DEF ListenersInv, Servers, Over
    <3>2. CASE s # "local"
      <4>1. s = "lan" /\ server["local"] = "down"
        BY <2>1, <2>4, <3>2 DEF MayStop, Servers
      <4>2. \A c \in Local : Over(c)
        BY <2>4, <4>1 DEF ListenersInv
      <4>. QED  BY <2>1, <2>2, <4>1, <4>2 DEF ListenersInv, Servers, Over
    <3>. QED  BY <3>1, <3>2
  <2>. QED  BY <2>1, <2>3, <2>4 DEF ListenersInv
<1>9. ASSUME NEW s \in Servers, EndLifespan(s)
      PROVE  ListenersInv'
  <2>1. /\ server[s] = "lifespan" /\ server' = [server EXCEPT ![s] = "down"]
        /\ closedBy' = closedBy \/ (closedBy' = closedBy \cup {s} /\ shutter[s] = "done")
        /\ UNCHANGED <<runtime, accepting, shut, caller, shutter>>
    BY <1>9 DEF EndLifespan, poolVars
  <2>2. server' \in [Servers -> {"serving", "lifespan", "down"}]
    BY <2>1 DEF ListenersInv
  <2>3. closedBy' \subseteq Shutters /\ (closedBy' \cap Servers # {} => shut')
    BY <2>1 DEF ListenersInv, ShuttingInv, Shutters
  <2>4. runtime = "pairing" => server'["local"] = server["local"]
    BY <2>1 DEF ListenersInv, Servers
  <2>. QED  BY <2>1, <2>2, <2>3, <2>4 DEF ListenersInv, Over
<1>10. CASE OwnerShuts
  <2>1. server["local"] = "down"
    BY <1>10 DEF OwnerShuts, Servers
  <2>2. UNCHANGED <<server, closedBy, runtime, shut, caller>>
    BY <1>10 DEF OwnerShuts, poolVars
  <2>. QED  BY <2>1, <2>2 DEF ListenersInv, Over
<1>11. CASE OwnerCloses
  <2>1. UNCHANGED <<server, runtime, shut, accepting, shutter, caller>>
        /\ closedBy' = closedBy \cup {"owner"}
    BY <1>11 DEF OwnerCloses, poolVars
  <2>. QED  BY <2>1 DEF ListenersInv, Over, Servers, Shutters
<1>12. CASE UNCHANGED lifeVars
  BY <1>3, <1>12 DEF lifeVars, poolVars, Over
<1>. QED
  BY <1>4, <1>5, <1>6, <1>7, <1>8, <1>9, <1>10, <1>11, <1>12 DEF LifeNext

(* The shutdown succeeds: what its invariants leave open, the order of the  *)
(* queue and the count of the stops decide.                                 *)
LEMMA JoinedIsQuiet ==
    ASSUME CallsInv, ShuttingInv, QueueInv, Quiet, stopSent
    PROVE  tasks = <<>> /\ \A c \in Calls : caller[c] # "registered"
<1>1. tasks \in Seq(Calls \cup {Stop}) /\ queued = 0
  BY DEF CallsInv, PoolTypes, Quiet
<1>2. Alive = {} /\ Alive # Workers
  BY LifetimeAssumption DEF Quiet, WorkersGone, Alive
<1>3. Stops(tasks) = {}
  <2>1. Len(tasks) \in Nat
    BY <1>1
  <2>2. IsFiniteSet(1..Len(tasks))
    BY <2>1, FS_Interval
  <2>3. IsFiniteSet(Stops(tasks))
    BY <2>2, FS_Subset DEF Stops
  <2>4. Cardinality(Stops(tasks)) = 0
    BY <1>2, FS_EmptySet DEF ShuttingInv
  <2>. QED  BY <2>3, <2>4, FS_EmptySet
<1>4. ~ LoopIsFree \/ ~ Orderly => QueuedCalls = {}
  BY <1>1, CountsAreNumbers, FS_EmptySet DEF QueueInv
<1>5. \A c \in Calls : caller[c] # "registered"
  BY <1>4 DEF LoopIsFree, InSubmit, QueuedCalls
<1>6. \A i \in 1..Len(tasks) : tasks[i] \notin Calls
  <2>1. CASE Orderly
    BY <1>2, <2>1, ConstantsApart DEF Orderly
  <2>2. CASE ~ Orderly
    BY <1>4, <2>2 DEF QueuedCalls, InTasks
  <2>. QED  BY <2>1, <2>2
<1>7. \A i \in 1..Len(tasks) : tasks[i] = Stop
  BY <1>1, <1>6
<1>8. 1..Len(tasks) = {}
  BY <1>3, <1>7 DEF Stops
<1>. QED  BY <1>1, <1>5, <1>8

LEMMA QuietKept ==
    ASSUME CallsInv, ShuttingInv, QueueInv, ShutIsQuiet, [LifeNext]_lifeVars
    PROVE  ShutIsQuiet'
<1>1. CASE shut
  <2>1. /\ active = 0 /\ queued = 0 /\ tasks = <<>> /\ ~ accepting /\ stopSent
        /\ \A c \in futures : outcome[c] \in Final
        /\ \A w \in Workers : worker[w].at = "gone"
        /\ \A c \in Calls : caller[c] # "registered"
    BY <1>1 DEF ShutIsQuiet, Quiet, Idle, WorkersGone, ShuttingInv
  <2>2. outcome \in [Calls -> {"none", "pending", "running"} \cup Final] /\ futures \subseteq Calls
        /\ caller \in [Calls -> CallerStates]
    BY DEF CallsInv, PoolTypes, CallerStates
  <2>3. ASSUME UNCHANGED <<active, queued, tasks, futures, worker>>,
               \A c \in futures : outcome'[c] = outcome[c],
               \A c \in Calls : caller'[c] # "registered"
        PROVE  ShutIsQuiet'
    BY <2>1, <2>3 DEF ShutIsQuiet, Quiet, Idle, WorkersGone
  <2>4. ASSUME NEW c \in Calls, Admit(c) \/ Enqueue(c) \/ Expire(c) \/ Leave(c) \/ Return(c)
        PROVE  ShutIsQuiet'
    <3>1. /\ UNCHANGED <<active, queued, futures, worker>> /\ ~ Enqueue(c) /\ UNCHANGED tasks
          /\ \E at \in {"admitted", "refused", "answered", "leaving"} :
                caller' = [caller EXCEPT ![c] = at]
          /\ \/ UNCHANGED outcome
             \/ outcome' = [outcome EXCEPT ![c] = IF @ = "pending" THEN "cancelled" ELSE @]
      BY <2>1, <2>4 DEF Admit, Enqueue, Expire, Leave, Return, poolVars
    <3>2. \A d \in futures : outcome'[d] = outcome[d]
      BY <2>1, <2>2, <3>1 DEF Final
    <3>3. \A d \in Calls : caller'[d] # "registered"
      BY <2>1, <2>2, <3>1
    <3>. QED  BY <2>3, <3>1, <3>2, <3>3
  <2>5. ASSUME NEW c \in Calls, Register(c)
        PROVE  ShutIsQuiet'
    <3>1. /\ UNCHANGED <<active, tasks, futures, worker, outcome>>
          /\ queued' = AtMostZero(queued - 1) /\ caller' = [caller EXCEPT ![c] = "refused"]
      BY <2>1, <2>5 DEF Register
    <3>2. queued' = queued
      BY <2>1, <3>1 DEF AtMostZero
    <3>. QED  BY <2>1, <2>2, <2>3, <3>1, <3>2
  <2>6. ASSUME NEW w \in Workers, Take(w) \/ Skip(w) \/ Start(w) \/ Work(w) \/ Finish(w)
        PROVE  FALSE
    BY <2>1, <2>6 DEF Take, Skip, Start, Work, Finish
  <2>7. ASSUME NEW s \in Shutters,
               \/ Close(s) \/ CancelQueued(s) \/ SendStops(s)
               \/ NotIdle(s) \/ Joined(s) \/ NotJoined(s)
        PROVE  ShutIsQuiet'
    <3>1. /\ UNCHANGED <<active, queued, tasks, futures, worker, caller>>
          /\ \/ UNCHANGED outcome
             \/ outcome' = [c \in Calls |-> IF c \in futures /\ outcome[c] = "pending"
                                              THEN "cancelled" ELSE outcome[c]]
      BY <2>1, <2>7 DEF Close, CancelQueued, SendStops, NotIdle, Joined, NotJoined, poolVars
    <3>2. \A c \in futures : outcome'[c] = outcome[c]
      BY <2>1, <2>2, <3>1 DEF Final
    <3>. QED  BY <2>1, <2>3, <3>1, <3>2
  <2>8. ASSUME NEW s \in Servers, StopServer(s) \/ EndLifespan(s)
        PROVE  ShutIsQuiet'
    BY <2>1, <2>3, <2>8 DEF StopServer, EndLifespan, poolVars
  <2>9. CASE OwnerShuts \/ OwnerCloses \/ UNCHANGED lifeVars
    BY <2>1, <2>3, <2>9 DEF OwnerShuts, OwnerCloses, poolVars, lifeVars
  <2>. QED  BY <2>4, <2>5, <2>6, <2>7, <2>8, <2>9 DEF LifeNext
<1>2. CASE ~ shut
  <2>1. SUFFICES ASSUME shut'
                 PROVE  ShutIsQuiet'
    BY DEF ShutIsQuiet
  <2>2. PICK s \in Shutters : Joined(s)
    BY <1>2, <2>1
    DEF LifeNext, lifeVars, poolVars, Admit, Register, Enqueue, Expire, Leave, Return, Take, Skip,
        Start, Work, Finish, Close, CancelQueued, SendStops, NotIdle, NotJoined, StopServer,
        EndLifespan, OwnerShuts, OwnerCloses
  <2>3. Quiet /\ stopSent /\ UNCHANGED <<active, queued, tasks, futures, outcome, worker, caller>>
    BY <1>2, <2>1, <2>2 DEF Joined, ShuttingInv
  <2>4. tasks = <<>> /\ \A c \in Calls : caller[c] # "registered"
    BY <2>3, JoinedIsQuiet
  <2>. QED  BY <2>3, <2>4 DEF ShutIsQuiet, Quiet, Idle, WorkersGone
<1>. QED  BY <1>1, <1>2

(* The inductive invariant of HubLifetime.                                  *)
THEOREM LifetimeInvariant == LifeSpec => []LifetimeInv
<1>1. LifeInit => LifetimeInv
  BY LifeStarts, BoundsStart, ShuttingStarts, QueueStarts, ListenersStart DEF LifetimeInv
<1>2. LifetimeInv /\ [LifeNext]_lifeVars => LifetimeInv'
  BY CallsKept, BoundsKept, ShuttingKept, QueueKept, ListenersKept, QuietKept DEF LifetimeInv
<1>. QED  BY <1>1, <1>2, PTL DEF LifeSpec

(* submit, _worker_main and shutdown: the pool never runs more calls than   *)
(* it has workers nor holds more than its capacity, and its counts, Futures *)
(* and queue have the values LifeTypeOK lists.                              *)
THEOREM PoolBounds == LifeSpec => []LifeTypeOK
<1>1. LifetimeInv => LifeTypeOK
  <2>. SUFFICES ASSUME LifetimeInv
                PROVE  LifeTypeOK
    OBVIOUS
  <2>1. PoolTypes /\ BoundsInv /\ QueueInv /\ ListenersInv
    BY DEF LifetimeInv, CallsInv
  <2>2. Busy \subseteq Workers /\ Slotted \subseteq Calls
    BY <2>1 DEF Busy, Slotted, PoolTypes
  <2>3. Cardinality(Busy) \in Nat /\ Cardinality(Slotted) \in Nat /\ Cardinality(Workers) \in Nat
    BY <2>2, Finites
  <2>4. Cardinality(Busy) <= Cardinality(Workers)
    BY <2>2, FS_Subset, Finites
  <2>5. active \in 0..Cardinality(Workers) /\ slots \in 0..Capacity
    BY <2>1, <2>3, <2>4, ConstantsApart DEF BoundsInv
  <2>6. \A w \in Workers : worker[w].call \in Calls \cup {NoCall}
    BY <2>1 DEF PoolTypes, WorkerState
  <2>. QED  BY <2>1, <2>5, <2>6 DEF LifeTypeOK, PoolTypes, QueueInv, ListenersInv
<1>. QED  BY <1>1, LifetimeInvariant, PTL

(* run_completion_certain and shutdown: an answered call of the certain     *)
(* kind is over in the pool too, and a pool that was shut down holds        *)
(* nothing, whatever handlers, workers and shutdowns overtake.              *)
THEOREM NothingIsLeftBehind == LifeSpec => []NothingLeftBehind
<1>1. LifetimeInv => NothingLeftBehind
  <2>. SUFFICES ASSUME LifetimeInv
                PROVE  CertainIsFinal
    BY DEF LifetimeInv, NothingLeftBehind
  <2>1. AnsweredInv /\ WorkersInv /\ Certain \subseteq Calls
    BY ConstantsApart DEF LifetimeInv, CallsInv
  <2>. QED  BY <2>1 DEF CertainIsFinal, AnsweredInv, WorkersInv, Final
<1>. QED  BY <1>1, LifetimeInvariant, PTL

(* lifespan and _stop_servers: a store closed by a lifespan has no worker   *)
(* left to use it, and the pairing runtime's control listener is down, with *)
(* all its calls over, before the pool stops accepting.                     *)
THEOREM HubStopsInOrder == LifeSpec => []StopsInOrder
<1>1. LifetimeInv => StopsInOrder
  <2>. SUFFICES ASSUME LifetimeInv
                PROVE  LifespanClosesAfterWork /\ ControlIsNotDrained
    BY DEF StopsInOrder
  <2>1. ListenersInv /\ ShuttingInv
    BY DEF LifetimeInv
  <2>. QED
    BY <2>1
    DEF LifespanClosesAfterWork, ControlIsNotDrained, ListenersInv, ShuttingInv, WorkersGone
<1>. QED  BY <1>1, LifetimeInvariant, PTL

------------------------------------------------------------------------------
(* HubProcess.                                                              *)

Remaining(p) == {Closes[i] : i \in {j \in DOMAIN Closes : j >= p}}

(* The planner's start and stop run at one place of either list.            *)
PlaceInv ==
    /\ phase \in {"opening", "serving"} \cup StartStages => starting
    /\ phase \in {"closing", "returned"} => ~starting
    /\ phase \in StartStages \cup StopSteps =>
         mode = "session" /\ "agent" \in opened /\ position = IF starting THEN 11 ELSE 2

(* What is open is still to be closed, or did not let itself be closed.     *)
OpenedInv ==
    /\ opened \subseteq Remaining(1)
    /\ ~starting /\ phase # "returned" => opened \subseteq failed \cup Remaining(position)
    /\ phase = "returned" => opened \subseteq failed

(* The stores of the tool calls are opened before the bridge and closed     *)
(* after it.                                                                *)
BridgeInv ==
    /\ mode = "session" /\ starting => /\ position > 3 => "catalog" \in opened
                                       /\ position > 7 => "content" \in opened
    /\ "bridge" \in opened /\ starting => position > 10
    /\ "bridge" \in opened \ failed /\ ~starting =>
         position <= 7 /\ {"catalog", "content"} \subseteq opened
    /\ toolCall => "bridge" \in opened \cup failed

NoPlannerLeft == /\ ~agent.planner /\ ~agent.process /\ ~agent.token /\ ~agent.runHome
                 /\ agent.status = "fallback" /\ ~home /\ child # "running"

ChildKnown == child = "running" => agent.process
HomeKnown == home => agent.runHome

(* What a stage of the start has behind it.                                 *)
StartedInv ==
    /\ phase \in {"configure", "root", "home"} => NoPlannerLeft
    /\ phase \in StartStages => ChildKnown /\ HomeKnown
    /\ phase \in {"spawn", "health", "contract", "client"} => agent.token
    /\ phase \in {"health", "contract", "client"} => agent.process

(* What a step of the stop has behind it.                                   *)
Stopping ==
    /\ ChildKnown
    /\ phase # "stopPlanner" => ~agent.planner /\ agent.status = "fallback"
    /\ phase \in {"stopPlanner", "stopChild", "wipe"} => HomeKnown
    /\ phase \in {"wipe", "remove", "lookRoot", "removeRoot"} => ~agent.process
    /\ phase \in {"remove", "lookRoot", "removeRoot"} => ~agent.token /\ ~agent.runHome
    /\ phase \in {"lookRoot", "removeRoot"} => ~home

(* The planner is either all there, gone, or known to the supervisor that   *)
(* has yet to be closed.                                                    *)
PlannerInv ==
    /\ starting => "agent" \notin failed
    /\ StartedInv
    /\ phase \in {"opening", "serving"} =>
         IF agent.status = "hermes"
           THEN /\ agent.planner /\ agent.token /\ agent.process /\ ChildKnown /\ HomeKnown
                /\ "agent" \in opened /\ position > 11
           ELSE NoPlannerLeft
    /\ phase \in StopSteps => "agent" \in failed \/ Stopping
    /\ phase = "closing" => \/ "agent" \in failed \/ NoPlannerLeft
                            \/ "agent" \in opened /\ position <= 2 /\ ChildKnown /\ HomeKnown
    /\ phase = "returned" => "agent" \in failed \/ NoPlannerLeft

ProcessInv == ProcessTypeOK /\ PlaceInv /\ OpenedInv /\ BridgeInv /\ PlannerInv

------------------------------------------------------------------------------
(* The lists: what is opened is on both, and where the planner, the bridge  *)
(* and its stores stand.                                                    *)
LEMMA ListFacts ==
    ASSUME mode \in {"https", "pairing", "session"}
    PROVE  /\ DOMAIN Opens = IF mode = "session" THEN 1..14 ELSE 1..2
           /\ DOMAIN Closes = IF mode = "session" THEN 1..14 ELSE 1..2
           /\ \A i \in DOMAIN Opens :
                /\ Opens[i] \in Resources /\ \E j \in DOMAIN Closes : Opens[i] = Closes[j]
                /\ Opens[i] = "agent" <=> mode = "session" /\ i = 11
                /\ Opens[i] = "bridge" <=> mode = "session" /\ i = 10
                /\ Opens[i] = "catalog" <=> mode = "session" /\ i = 3
                /\ Opens[i] = "content" <=> mode = "session" /\ i = 7
                /\ Opens[i] = "discovery" <=> mode = "session" /\ i = 14
           /\ \A i \in DOMAIN Closes :
                /\ Closes[i] \in Resources
                /\ Closes[i] = "agent" <=> mode = "session" /\ i = 2
                /\ Closes[i] = "bridge" <=> mode = "session" /\ i = 7
                /\ Closes[i] = "catalog" <=> mode = "session" /\ i = 8
                /\ Closes[i] = "content" <=> mode = "session" /\ i = 9
<1>1. CASE mode = "https"
  <2>1. Opens = HttpsOpens /\ Closes = HttpsCloses
    BY <1>1 DEF Opens, Closes
  <2>2. /\ DOMAIN HttpsOpens = 1..2 /\ HttpsOpens[1] = "pairing" /\ HttpsOpens[2] = "app"
        /\ DOMAIN HttpsCloses = 1..2 /\ HttpsCloses[2] = "pairing" /\ HttpsCloses[1] = "app"
    BY DEF HttpsOpens, HttpsCloses
  <2>3. \A i \in 1..2 : i = 1 \/ i = 2
    OBVIOUS
  <2>. QED  BY <1>1, <2>1, <2>2, <2>3 DEF Resources
<1>2. CASE mode = "pairing"
  <2>1. Opens = PairingOpens /\ Closes = PairingCloses
    BY <1>2 DEF Opens, Closes
  <2>2. /\ DOMAIN PairingOpens = 1..2 /\ PairingOpens[1] = "pairing" /\ PairingOpens[2] = "executor"
        /\ DOMAIN PairingCloses = 1..2 /\ PairingCloses[2] = "pairing"
        /\ PairingCloses[1] = "executor"
    BY DEF PairingOpens, PairingCloses
  <2>3. \A i \in 1..2 : i = 1 \/ i = 2
    OBVIOUS
  <2>. QED  BY <1>2, <2>1, <2>2, <2>3 DEF Resources
<1>3. CASE mode = "session"
  <2>1. Opens = SessionOpens /\ Closes = SessionCloses
    BY <1>3 DEF Opens, Closes
  <2>2. /\ DOMAIN SessionOpens = 1..14
        /\ SessionOpens[1] = "pairing" /\ SessionOpens[2] = "events" /\ SessionOpens[3] = "catalog"
        /\ SessionOpens[4] = "executor" /\ SessionOpens[5] = "memory"
        /\ SessionOpens[6] = "projection" /\ SessionOpens[7] = "content"
        /\ SessionOpens[8] = "ocr" /\ SessionOpens[9] = "autonomy" /\ SessionOpens[10] = "bridge"
        /\ SessionOpens[11] = "agent" /\ SessionOpens[12] = "export"
        /\ SessionOpens[13] = "proactive" /\ SessionOpens[14] = "discovery"
    BY DEF SessionOpens
  <2>3. /\ DOMAIN SessionCloses = 1..14
        /\ SessionCloses[1] = "discovery" /\ SessionCloses[2] = "agent"
        /\ SessionCloses[3] = "projection" /\ SessionCloses[4] = "memory"
        /\ SessionCloses[5] = "executor" /\ SessionCloses[6] = "events"
        /\ SessionCloses[7] = "bridge" /\ SessionCloses[8] = "catalog"
        /\ SessionCloses[9] = "content" /\ SessionCloses[10] = "ocr"
        /\ SessionCloses[11] = "autonomy" /\ SessionCloses[12] = "export"
        /\ SessionCloses[13] = "proactive" /\ SessionCloses[14] = "pairing"
    BY DEF SessionCloses
  <2>4. \A i \in 1..14 : i = 1 \/ i = 2 \/ i = 3 \/ i = 4 \/ i = 5 \/ i = 6 \/ i = 7 \/ i = 8
                         \/ i = 9 \/ i = 10 \/ i = 11 \/ i = 12 \/ i = 13 \/ i = 14
    OBVIOUS
  <2>5. ASSUME NEW i \in 1..14
        PROVE  /\ SessionOpens[i] \in Resources
               /\ \E j \in 1..14 : SessionOpens[i] = SessionCloses[j]
               /\ SessionOpens[i] = "agent" <=> i = 11
               /\ SessionOpens[i] = "bridge" <=> i = 10
               /\ SessionOpens[i] = "catalog" <=> i = 3
               /\ SessionOpens[i] = "content" <=> i = 7
               /\ SessionOpens[i] = "discovery" <=> i = 14
    <3>1. SessionOpens[i] \in Resources
      BY <2>2, <2>4 DEF Resources
    <3>2. \E j \in 1..14 : SessionOpens[i] = SessionCloses[j]
      BY <2>2, <2>3, <2>4
    <3>. QED  BY <2>2, <2>4, <3>1, <3>2
  <2>6. ASSUME NEW i \in 1..14
        PROVE  /\ SessionCloses[i] \in Resources
               /\ SessionCloses[i] = "agent" <=> i = 2
               /\ SessionCloses[i] = "bridge" <=> i = 7
               /\ SessionCloses[i] = "catalog" <=> i = 8
               /\ SessionCloses[i] = "content" <=> i = 9
    BY <2>3, <2>4 DEF Resources
  <2>. QED  BY <1>3, <2>1, <2>2, <2>3, <2>5, <2>6
<1>. QED  BY <1>1, <1>2, <1>3

LEMMA RemainingMoves ==
    ASSUME ProcessTypeOK
    PROVE  /\ \A i \in DOMAIN Opens : Opens[i] \in Remaining(1)
           /\ Remaining(position) \ {Closes[position]} \subseteq Remaining(position + 1)
           /\ position \notin DOMAIN Closes => Remaining(position) = {}
           /\ Remaining(1) = {Closes[i] : i \in DOMAIN Closes}
           /\ Remaining(position + 1) \subseteq Remaining(1)
<1>1. mode \in {"https", "pairing", "session"} /\ position \in 1..15
  BY DEF ProcessTypeOK
<1>2. /\ DOMAIN Closes = 1..14 \/ DOMAIN Closes = 1..2
      /\ \A i \in DOMAIN Opens : \E j \in DOMAIN Closes : Opens[i] = Closes[j]
  BY <1>1, ListFacts
<1>3. {j \in DOMAIN Closes : j >= 1} = DOMAIN Closes
  BY <1>2
<1>4. position \notin DOMAIN Closes => {j \in DOMAIN Closes : j >= position} = {}
  BY <1>1, <1>2
<1>5. \A j \in DOMAIN Closes : j >= position /\ j # position => j >= position + 1
  BY <1>1, <1>2
<1>. QED  BY <1>1, <1>2, <1>3, <1>4, <1>5 DEF Remaining

LEMMA ProcessStarts == ProcessInit => ProcessInv
<1>. SUFFICES ASSUME ProcessInit
              PROVE  ProcessInv
  OBVIOUS
<1>1. ProcessTypeOK
  <2>1. NoAgent \in [planner : BOOLEAN, process : BOOLEAN, token : BOOLEAN, runHome : BOOLEAN,
                     status : {"fallback", "hermes"}]
    BY DEF NoAgent
  <2>2. 0 \in 0..MaxMishaps /\ 1 \in 1..15
    BY ProcessAssumption
  <2>. QED  BY <2>1, <2>2 DEF ProcessInit, ProcessTypeOK
<1>2. PlaceInv /\ OpenedInv /\ BridgeInv
  BY DEF ProcessInit, PlaceInv, OpenedInv, BridgeInv, StartStages, StopSteps
<1>3. PlannerInv
  BY DEF ProcessInit, PlannerInv, StartedInv, NoPlannerLeft, NoAgent, StartStages, StopSteps
<1>. QED  BY <1>1, <1>2, <1>3 DEF ProcessInv

(* The try block.                                                           *)
LEMMA OpenKeeps == ASSUME ProcessInv, Open PROVE ProcessInv'
<1>. USE DEF ProcessInv
<1>1. ProcessTypeOK /\ starting /\ position \in DOMAIN Opens /\ phase = "opening"
  BY DEF Open, Opening, PlaceInv
<1>2. /\ position \in 1..14 /\ Opens[position] \in Resources
      /\ Opens[position] = "agent" <=> mode = "session" /\ position = 11
      /\ Opens[position] = "bridge" <=> mode = "session" /\ position = 10
      /\ Opens[position] = "catalog" <=> mode = "session" /\ position = 3
      /\ Opens[position] = "content" <=> mode = "session" /\ position = 7
  BY <1>1, ListFacts DEF ProcessTypeOK
<1>3. /\ opened' = opened \cup {Opens[position]} /\ mode' = mode
      /\ UNCHANGED <<failed, agent, child, home, runsRoot, neighbour, toolCall, mishaps, starting>>
      /\ \/ phase' = "configure" /\ position' = position /\ mode = "session" /\ position = 11
            /\ "agent" \in opened'
         \/ phase' = "opening" /\ position' = position + 1 /\ ~(mode = "session" /\ position = 11)
  BY <1>1, <1>2 DEF Open, Resource, NextInList, agentVars
<1>4. ProcessTypeOK'
  BY <1>1, <1>2, <1>3 DEF ProcessTypeOK, StartStages
<1>5. PlaceInv'
  BY <1>1, <1>3 DEF PlaceInv, StartStages, StopSteps
<1>6. OpenedInv'
  <2>1. Remaining(1)' = Remaining(1)
    BY <1>3 DEF Remaining, Closes
  <2>. QED  BY <1>1, <1>3, <2>1, RemainingMoves DEF OpenedInv
<1>7. BridgeInv'
  BY <1>1, <1>2, <1>3 DEF BridgeInv, ProcessTypeOK
<1>8. PlannerInv'
  <2>1. mode = "session" /\ position = 11 => NoPlannerLeft
    BY <1>1 DEF PlannerInv, ProcessTypeOK
  <2>2. CASE phase' = "configure"
    BY <1>1, <1>3, <2>1, <2>2
    DEF PlannerInv, StartedInv, NoPlannerLeft, ChildKnown, HomeKnown, StartStages, StopSteps
  <2>3. CASE phase' = "opening"
    <3>1. position' > position /\ position \in Nat /\ "agent" \in opened => "agent" \in opened'
      BY <1>2, <1>3, <2>3
    <3>2. position > 11 => position' > 11
      BY <1>2, <1>3, <2>3
    <3>. QED
      BY <1>1, <1>3, <2>3, <3>1, <3>2
      DEF PlannerInv, StartedInv, NoPlannerLeft, ChildKnown, HomeKnown, StartStages, StopSteps
  <2>. QED  BY <1>3, <2>2, <2>3
<1>. QED  BY <1>4, <1>5, <1>6, <1>7, <1>8

LEMMA ListSteps ==
    ASSUME ProcessTypeOK,
           \/ BeginClosing
           \/ position \in 1..14 /\ (NextInList("opening") \/ NextInList("closing"))
    PROVE  position' \in 1..15 /\ starting' \in BOOLEAN /\ phase' \in {"opening", "closing"}
<1>1. CASE BeginClosing
  <2>1. position' = 1 /\ starting' = FALSE /\ phase' = "closing"
    BY <1>1 DEF BeginClosing
  <2>2. position' \in 1..15
    BY <2>1
  <2>3. starting' \in BOOLEAN
    BY <2>1
  <2>. QED  BY <2>1, <2>2, <2>3
<1>2. CASE position \in 1..14 /\ (NextInList("opening") \/ NextInList("closing"))
  <2>1. position' = position + 1 /\ starting' = starting /\ phase' \in {"opening", "closing"}
    BY <1>2 DEF NextInList
  <2>2. position' \in 1..15
    BY <1>2, <2>1
  <2>3. starting' \in BOOLEAN
    BY <2>1 DEF ProcessTypeOK
  <2>. QED  BY <2>1, <2>2, <2>3
<1>. QED  BY <1>1, <1>2

(* The finally block is entered, or goes on to its next resource.           *)
LEMMA BeginClosingKeeps ==
    ASSUME ProcessInv, starting, BeginClosing, UNCHANGED <<mode, opened, toolCall>>,
           failed \subseteq failed'
    PROVE  PlaceInv' /\ OpenedInv' /\ BridgeInv'
<1>. USE DEF ProcessInv
<1>1. PlaceInv'
  BY DEF BeginClosing, PlaceInv, StartStages, StopSteps
<1>2. Remaining(1)' = Remaining(1) /\ Remaining(position)' = Remaining(1)
  BY DEF BeginClosing, Remaining, Closes
<1>3. OpenedInv'
  BY <1>2 DEF BeginClosing, OpenedInv
<1>4. "bridge" \in opened => mode = "session"
  <2>1. \A i \in DOMAIN Closes : Closes[i] = "bridge" => mode = "session"
    BY ListFacts DEF ProcessTypeOK
  <2>. QED  BY <2>1, RemainingMoves DEF OpenedInv
<1>5. BridgeInv'
  BY <1>4 DEF BeginClosing, BridgeInv, ProcessTypeOK
<1>. QED  BY <1>1, <1>3, <1>5

LEMMA NextToCloseKeeps ==
    ASSUME ProcessInv, ~starting, phase # "returned", position \in DOMAIN Closes,
           NextInList("closing"), UNCHANGED <<mode, toolCall>>,
           failed \subseteq failed', failed' \subseteq failed \cup {Closes[position]},
           \/ opened' = opened \ {Closes[position]}
           \/ opened' = opened /\ Closes[position] \in failed',
           Closes[position] = "bridge" /\ toolCall => "bridge" \in failed'
    PROVE  PlaceInv' /\ OpenedInv' /\ BridgeInv'
<1>. USE DEF ProcessInv
<1>1. phase' = "closing" /\ position' = position + 1 /\ ~starting'
  BY DEF NextInList
<1>2. PlaceInv'
  BY <1>1 DEF PlaceInv, StartStages, StopSteps
<1>3. OpenedInv'
  <2>1. Remaining(1)' = Remaining(1) /\ Remaining(position)' = Remaining(position + 1)
    BY <1>1 DEF Remaining, Closes
  <2>2. opened' \subseteq failed' \cup Remaining(position + 1)
    BY RemainingMoves DEF OpenedInv
  <2>. QED  BY <1>1, <2>1, <2>2 DEF OpenedInv
<1>4. /\ position \in Nat
      /\ Closes[position] = "bridge" <=> mode = "session" /\ position = 7
      /\ Closes[position] = "catalog" <=> mode = "session" /\ position = 8
      /\ Closes[position] = "content" <=> mode = "session" /\ position = 9
  BY ListFacts DEF ProcessTypeOK
<1>5. toolCall' => "bridge" \in opened' \cup failed'
  BY DEF BridgeInv
<1>6. ASSUME "bridge" \in opened' \ failed'
      PROVE  position' <= 7 /\ {"catalog", "content"} \subseteq opened'
  <2>1. "bridge" \in opened \ failed /\ Closes[position] # "bridge"
    BY <1>6
  <2>2. position <= 7 /\ {"catalog", "content"} \subseteq opened
    BY <2>1 DEF BridgeInv
  <2>3. mode = "session"
    <3>1. \A i \in DOMAIN Closes : Closes[i] = "bridge" => mode = "session"
      BY ListFacts DEF ProcessTypeOK
    <3>. QED  BY <2>1, <3>1, RemainingMoves DEF OpenedInv
  <2>4. position < 7
    BY <1>4, <2>1, <2>2, <2>3
  <2>. QED  BY <1>1, <1>4, <2>2, <2>4
<1>. QED  BY <1>1, <1>2, <1>3, <1>5, <1>6 DEF BridgeInv

LEMMA OpenFailsKeeps == ASSUME ProcessInv, OpenFails PROVE ProcessInv'
<1>. USE DEF ProcessInv
<1>1. ProcessTypeOK /\ starting /\ position \in DOMAIN Opens /\ phase = "opening"
  BY DEF OpenFails, Opening, PlaceInv
<1>2. /\ position \in 1..14
      /\ Opens[position] = "discovery" <=> mode = "session" /\ position = 14
  BY <1>1, ListFacts DEF ProcessTypeOK
<1>3. /\ mishaps' = mishaps + 1 /\ mishaps < MaxMishaps
      /\ UNCHANGED <<mode, opened, failed, agent, child, home, runsRoot, neighbour, toolCall>>
      /\ \/ position = 14 /\ mode = "session" /\ NextInList("opening")
         \/ BeginClosing
  BY <1>1, <1>2 DEF OpenFails, Mishap, Resource, agentVars
<1>4. ProcessTypeOK'
  <2>1. mishaps' \in 0..MaxMishaps
    BY <1>1, <1>3, ProcessAssumption DEF ProcessTypeOK
  <2>2. position' \in 1..15 /\ starting' \in BOOLEAN /\ phase' \in {"opening", "closing"}
    BY <1>1, <1>2, <1>3, ListSteps
  <2>. QED  BY <1>1, <1>3, <2>1, <2>2 DEF ProcessTypeOK
<1>5. CASE BeginClosing
  <2>1. PlannerInv'
    BY <1>1, <1>3, <1>5
    DEF BeginClosing, PlannerInv, StartedInv, NoPlannerLeft, ChildKnown, HomeKnown, StartStages,
        StopSteps
  <2>. QED  BY <1>1, <1>3, <1>4, <1>5, <2>1, BeginClosingKeeps
<1>6. CASE position = 14 /\ mode = "session" /\ NextInList("opening")
  <2>1. phase' = "opening" /\ position' = 15 /\ starting'
    BY <1>1, <1>6 DEF NextInList
  <2>2. PlaceInv'
    BY <2>1 DEF PlaceInv, StartStages, StopSteps
  <2>3. OpenedInv'
    <3>1. Remaining(1)' = Remaining(1)
      BY <1>3 DEF Remaining, Closes
    <3>. QED  BY <1>3, <2>1, <3>1 DEF OpenedInv
  <2>4. BridgeInv'
    BY <1>1, <1>3, <1>6, <2>1 DEF BridgeInv
  <2>5. PlannerInv'
    BY <1>1, <1>3, <1>6, <2>1
    DEF PlannerInv, StartedInv, NoPlannerLeft, ChildKnown, HomeKnown, StartStages, StopSteps
  <2>. QED  BY <1>4, <2>2, <2>3, <2>4, <2>5
<1>. QED  BY <1>3, <1>5, <1>6

LEMMA ServeKeeps == ASSUME ProcessInv, Serve \/ StopServing PROVE ProcessInv'
<1>. USE DEF ProcessInv
<1>1. UNCHANGED <<mode, opened, failed, agent, child, home, runsRoot, neighbour, toolCall, mishaps>>
  BY DEF Serve, StopServing, agentVars
<1>2. starting /\ phase \in {"opening", "serving"}
  BY DEF Serve, StopServing, PlaceInv
<1>3. CASE Serve
  <2>1. phase' = "serving" /\ UNCHANGED <<position, starting>>
    BY <1>3 DEF Serve
  <2>2. ProcessTypeOK' /\ PlaceInv' /\ BridgeInv'
    BY <1>1, <1>2, <2>1 DEF ProcessTypeOK, PlaceInv, BridgeInv, StartStages, StopSteps
  <2>3. OpenedInv'
    <3>1. Remaining(1)' = Remaining(1)
      BY <1>1 DEF Remaining, Closes
    <3>. QED  BY <1>1, <1>2, <2>1, <3>1 DEF OpenedInv
  <2>4. PlannerInv'
    BY <1>1, <1>2, <2>1
    DEF PlannerInv, StartedInv, NoPlannerLeft, ChildKnown, HomeKnown, StartStages, StopSteps
  <2>. QED  BY <2>2, <2>3, <2>4
<1>4. CASE StopServing
  <2>1. BeginClosing
    BY <1>4 DEF StopServing
  <2>2. ProcessTypeOK'
    BY <1>1, <2>1, ListSteps DEF ProcessTypeOK
  <2>3. PlannerInv'
    BY <1>1, <1>2, <2>1
    DEF BeginClosing, PlannerInv, StartedInv, NoPlannerLeft, ChildKnown, HomeKnown, StartStages,
        StopSteps
  <2>. QED  BY <1>1, <1>2, <2>1, <2>2, <2>3, BeginClosingKeeps
<1>. QED  BY <1>3, <1>4

(* The planner's start and stop.                                            *)
PlannerSteps == StartStages \cup StopSteps

LEMMA StagesRest ==
    ASSUME ProcessInv, phase \in PlannerSteps, phase' \in PlannerSteps,
           phase' \in StartStages => starting,
           UNCHANGED <<mode, position, starting, opened, failed, toolCall>>
    PROVE  PlaceInv' /\ OpenedInv' /\ BridgeInv'
<1>. USE DEF ProcessInv
<1>1. Remaining(1)' = Remaining(1) /\ Remaining(position)' = Remaining(position)
  BY DEF Remaining, Closes
<1>2. phase # "returned" /\ phase' \notin {"opening", "serving", "closing", "returned"}
  BY DEF PlannerSteps, StartStages, StopSteps
<1>3. PlaceInv'
  BY <1>2 DEF PlaceInv, PlannerSteps
<1>4. OpenedInv'
  BY <1>1, <1>2 DEF OpenedInv
<1>. QED  BY <1>3, <1>4 DEF BridgeInv

LEMMA PlannerDoneKeeps ==
    ASSUME ProcessInv, phase \in PlannerSteps, starting, NextInList("opening"),
           UNCHANGED <<mode, opened, failed, toolCall>>
    PROVE  PlaceInv' /\ OpenedInv' /\ BridgeInv' /\ position' = 12
<1>. USE DEF ProcessInv
<1>1. mode = "session" /\ position = 11 /\ phase' = "opening" /\ position' = 12 /\ starting'
  BY DEF PlaceInv, PlannerSteps, NextInList
<1>2. Remaining(1)' = Remaining(1)
  BY DEF Remaining, Closes
<1>3. PlaceInv'
  BY <1>1 DEF PlaceInv, StartStages, StopSteps
<1>4. OpenedInv'
  BY <1>1, <1>2 DEF OpenedInv
<1>. QED  BY <1>1, <1>3, <1>4 DEF BridgeInv

LEMMA StartStageKeeps ==
    ASSUME ProcessInv,
           \/ Configured \/ MakeRoot \/ MakeHome \/ WriteProfile \/ Spawn
           \/ Healthy \/ ContractHolds \/ StageFails
    PROVE  ProcessInv'
<1>. USE DEF ProcessInv
<1>1. /\ phase \in StartStages /\ phase' \in PlannerSteps
      /\ UNCHANGED <<mode, position, starting, opened, failed, toolCall, neighbour, mishaps>>
  BY DEF Configured, MakeRoot, MakeHome, WriteProfile, Spawn, Healthy, ContractHolds, StageFails,
         Stage, StartStages, StopSteps, PlannerSteps
<1>2. starting /\ phase \in PlannerSteps
  BY <1>1 DEF PlaceInv, PlannerSteps
<1>3. PlaceInv' /\ OpenedInv' /\ BridgeInv'
  BY <1>1, <1>2, StagesRest
<1>4. ProcessTypeOK'
  <2>1. /\ agent' \in [planner : BOOLEAN, process : BOOLEAN, token : BOOLEAN, runHome : BOOLEAN,
                       status : {"fallback", "hermes"}]
        /\ child' \in {"none", "running", "exited"} /\ home' \in BOOLEAN /\ runsRoot' \in BOOLEAN
    BY DEF Configured, MakeRoot, MakeHome, WriteProfile, Spawn, Healthy, ContractHolds, StageFails,
           ProcessTypeOK, agentVars
  <2>2. phase' \in StartStages \cup StopSteps
    BY <1>1 DEF PlannerSteps
  <2>. QED  BY <1>1, <2>1, <2>2 DEF ProcessTypeOK
<1>5. PlannerInv'
  <2>1. /\ phase' \notin {"opening", "serving", "closing", "returned"}
        /\ "agent" \notin failed' /\ StartedInv
    BY <1>1, <1>2 DEF PlannerInv, PlannerSteps, StartStages, StopSteps
  <2>2. CASE Configured \/ MakeRoot
    <3>1. phase \in {"configure", "root"} /\ phase' \in {"root", "home"}
          /\ UNCHANGED <<agent, child, home>>
      BY <2>2 DEF Configured, MakeRoot, Stage, agentVars
    <3>. QED
      BY <2>1, <3>1
      DEF PlannerInv, StartedInv, NoPlannerLeft, ChildKnown, HomeKnown, StartStages, StopSteps
  <2>3. CASE MakeHome
    <3>1. phase = "home" /\ phase' = "profile" /\ child' = child /\ agent'.runHome
      BY <2>3 DEF MakeHome, Stage, ProcessTypeOK
    <3>. QED
      BY <2>1, <3>1
      DEF PlannerInv, StartedInv, NoPlannerLeft, ChildKnown, HomeKnown, StartStages, StopSteps
  <2>4. CASE WriteProfile
    <3>1. phase = "profile" /\ phase' = "spawn" /\ UNCHANGED <<child, home>> /\ agent'.token
          /\ agent'.process = agent.process /\ agent'.runHome = agent.runHome
      BY <2>4 DEF WriteProfile, Stage, ProcessTypeOK
    <3>. QED
      BY <2>1, <3>1 DEF PlannerInv, StartedInv, ChildKnown, HomeKnown, StartStages, StopSteps
  <2>5. CASE Spawn
    <3>1. phase = "spawn" /\ phase' = "health" /\ home' = home /\ agent'.process
          /\ agent'.token = agent.token /\ agent'.runHome = agent.runHome
      BY <2>5 DEF Spawn, Stage, ProcessTypeOK
    <3>. QED
      BY <2>1, <3>1 DEF PlannerInv, StartedInv, ChildKnown, HomeKnown, StartStages, StopSteps
  <2>6. CASE Healthy \/ ContractHolds
    <3>1. phase \in {"health", "contract"} /\ phase' \in {"contract", "client"}
          /\ UNCHANGED <<agent, child, home>>
      BY <2>6 DEF Healthy, ContractHolds, Stage, agentVars
    <3>. QED
      BY <2>1, <3>1 DEF PlannerInv, StartedInv, ChildKnown, HomeKnown, StartStages, StopSteps
  <2>7. CASE StageFails
    <3>1. phase' = "stopPlanner" /\ UNCHANGED <<agent, child, home>>
      BY <2>7 DEF StageFails, Stage, agentVars
    <3>2. Stopping'
      BY <1>1, <2>1, <3>1 DEF Stopping, StartedInv, ChildKnown, HomeKnown
    <3>. QED
      BY <2>1, <3>1, <3>2 DEF PlannerInv, StartedInv, StartStages
  <2>. QED  BY <2>2, <2>3, <2>4, <2>5, <2>6, <2>7
<1>. QED  BY <1>3, <1>4, <1>5

LEMMA StartEndsKeeps == ASSUME ProcessInv, NotConfigured \/ MakeClient PROVE ProcessInv'
<1>. USE DEF ProcessInv
<1>1. /\ phase \in {"configure", "client"} /\ NextInList("opening")
      /\ UNCHANGED <<mode, opened, failed, child, home, runsRoot, neighbour, toolCall, mishaps>>
  BY DEF NotConfigured, MakeClient, agentVars
<1>2. phase \in StartStages /\ phase \in PlannerSteps
  BY <1>1 DEF PlannerSteps, StartStages
<1>3. starting /\ position = 11 /\ "agent" \in opened
  BY <1>2 DEF PlaceInv
<1>4. PlaceInv' /\ OpenedInv' /\ BridgeInv' /\ position' = 12
  BY <1>1, <1>2, <1>3, PlannerDoneKeeps
<1>5. phase' = "opening"
  BY <1>1 DEF NextInList
<1>6. position' \in 1..15 /\ starting' \in BOOLEAN
  BY <1>1, <1>3, ListSteps
<1>7. CASE NotConfigured
  <2>1. agent' = agent /\ NoPlannerLeft
    BY <1>7 DEF NotConfigured, agentVars, PlannerInv, StartedInv
  <2>2. ProcessTypeOK'
    BY <1>1, <1>5, <1>6, <2>1 DEF ProcessTypeOK
  <2>3. PlannerInv'
    BY <1>1, <1>3, <1>5, <2>1
    DEF PlannerInv, StartedInv, NoPlannerLeft, ChildKnown, HomeKnown, StartStages, StopSteps
  <2>. QED  BY <1>4, <2>2, <2>3
<1>8. CASE MakeClient
  <2>1. /\ agent' \in [planner : BOOLEAN, process : BOOLEAN, token : BOOLEAN, runHome : BOOLEAN,
                       status : {"fallback", "hermes"}]
        /\ agent'.planner /\ agent'.status = "hermes" /\ agent'.process = agent.process
        /\ agent'.token = agent.token /\ agent'.runHome = agent.runHome /\ phase = "client"
    BY <1>8 DEF MakeClient, ProcessTypeOK
  <2>2. ProcessTypeOK'
    BY <1>1, <1>5, <1>6, <2>1 DEF ProcessTypeOK
  <2>3. agent.token /\ agent.process /\ ChildKnown /\ HomeKnown /\ "agent" \notin failed
    BY <1>2, <1>3, <2>1 DEF PlannerInv, StartedInv
  <2>4. PlannerInv'
    <3>1. position' > 11
      BY <1>4
    <3>. QED
      BY <1>1, <1>3, <1>5, <2>1, <2>3, <3>1
      DEF PlannerInv, StartedInv, ChildKnown, HomeKnown, StartStages, StopSteps
  <2>. QED  BY <1>4, <2>2, <2>4
<1>. QED  BY <1>7, <1>8

(* AgentPlannerSupervisor.close returns to where it was called, or raises.  *)
LEMMA CloseEndsKeeps ==
    ASSUME ProcessInv, phase \in StopSteps, CloseReturns \/ CloseRaises,
           UNCHANGED <<mode, toolCall>>
    PROVE  /\ PlaceInv' /\ OpenedInv' /\ BridgeInv'
           /\ opened' \subseteq opened /\ failed' \subseteq failed \cup {"agent"}
           /\ position' \in 1..15 /\ starting' \in BOOLEAN /\ phase' \in {"opening", "closing"}
           /\ CloseRaises => phase' = "closing" /\ "agent" \in failed' /\ ~starting'
           /\ CloseReturns => /\ failed' = failed /\ starting' = starting
                              /\ phase' = IF starting THEN "opening" ELSE "closing"
<1>. USE DEF ProcessInv
<1>1. /\ mode = "session" /\ "agent" \in opened /\ phase \in PlannerSteps
      /\ position = IF starting THEN 11 ELSE 2
  BY DEF PlaceInv, PlannerSteps
<1>2. ~starting => position \in DOMAIN Closes /\ Closes[position] = "agent" /\ phase # "returned"
  BY <1>1, ListFacts DEF StopSteps
<1>3. position \in 1..14
  BY <1>1
<1>4. CASE CloseReturns
  <2>1. CASE starting
    <3>1. NextInList("opening") /\ UNCHANGED <<opened, failed>>
      BY <1>4, <2>1 DEF CloseReturns
    <3>2. PlaceInv' /\ OpenedInv' /\ BridgeInv'
      BY <1>1, <2>1, <3>1, PlannerDoneKeeps
    <3>3. phase' = "opening" /\ starting' = starting
      BY <3>1 DEF NextInList
    <3>4. ~CloseRaises
      BY <2>1, <3>3 DEF CloseRaises, BeginClosing
    <3>. QED  BY <1>3, <2>1, <3>1, <3>2, <3>3, <3>4, ListSteps
  <2>2. CASE ~starting
    <3>1. NextInList("closing") /\ opened' = opened \ {"agent"} /\ failed' = failed
      BY <1>4, <2>2 DEF CloseReturns
    <3>2. PlaceInv' /\ OpenedInv' /\ BridgeInv'
      BY <1>2, <2>2, <3>1, NextToCloseKeeps
    <3>3. phase' = "closing" /\ starting' = starting
      BY <3>1 DEF NextInList
    <3>. QED  BY <1>1, <1>3, <1>4, <2>2, <3>1, <3>2, <3>3, ListSteps DEF CloseRaises
  <2>. QED  BY <2>1, <2>2
<1>5. CASE CloseRaises
  <2>0. failed' = failed \cup {"agent"} /\ opened' = opened
    BY <1>5 DEF CloseRaises
  <2>1. CASE starting
    <3>1. BeginClosing
      BY <1>5, <2>1 DEF CloseRaises
    <3>2. PlaceInv' /\ OpenedInv' /\ BridgeInv'
      BY <2>0, <2>1, <3>1, BeginClosingKeeps
    <3>3. phase' = "closing" /\ ~starting'
      BY <3>1 DEF BeginClosing
    <3>. QED  BY <2>0, <2>1, <3>1, <3>2, <3>3, ListSteps DEF CloseReturns, NextInList
  <2>2. CASE ~starting
    <3>1. NextInList("closing")
      BY <1>5, <2>2 DEF CloseRaises
    <3>2. PlaceInv' /\ OpenedInv' /\ BridgeInv'
      BY <1>2, <2>0, <2>2, <3>1, NextToCloseKeeps
    <3>3. phase' = "closing" /\ starting' = starting
      BY <3>1 DEF NextInList
    <3>4. ~CloseReturns \/ failed' = failed
      BY DEF CloseReturns
    <3>. QED  BY <1>3, <2>0, <2>2, <3>1, <3>2, <3>3, <3>4, ListSteps
  <2>. QED  BY <2>1, <2>2
<1>. QED  BY <1>4, <1>5

LEMMA StopStageKeeps ==
    ASSUME ProcessInv, phase \in StopSteps, phase' \in StopSteps,
           UNCHANGED <<mode, position, starting, opened, failed, toolCall, neighbour, mishaps>>,
           ClosePlanner \/ StopChild \/ Wipe \/ RemoveHome \/ LookRoot
    PROVE  ProcessInv'
<1>. USE DEF ProcessInv
<1>1. PlaceInv' /\ OpenedInv' /\ BridgeInv'
  BY StagesRest DEF PlannerSteps, StartStages, StopSteps
<1>2. ProcessTypeOK'
  <2>1. /\ agent' \in [planner : BOOLEAN, process : BOOLEAN, token : BOOLEAN, runHome : BOOLEAN,
                       status : {"fallback", "hermes"}]
        /\ child' \in {"none", "running", "exited"} /\ home' \in BOOLEAN /\ runsRoot' \in BOOLEAN
    BY DEF ClosePlanner, StopChild, Wipe, RemoveHome, LookRoot, ProcessTypeOK, agentVars
  <2>. QED  BY <2>1 DEF ProcessTypeOK
<1>3. /\ phase' \notin {"opening", "serving", "closing", "returned"} \cup StartStages
      /\ phase' \notin {"configure", "root", "home", "spawn", "health", "contract", "client"}
      /\ starting => "agent" \notin failed
  BY DEF PlannerInv, StartStages, StopSteps
<1>4. Stopping => Stopping'
  <2>1. CASE ClosePlanner
    <3>1. /\ phase = "stopPlanner" /\ phase' = "stopChild" /\ UNCHANGED <<child, home>>
          /\ ~agent'.planner /\ agent'.status = "fallback" /\ agent'.process = agent.process
          /\ agent'.runHome = agent.runHome
      BY <2>1 DEF ClosePlanner, Stage, ProcessTypeOK
    <3>. QED  BY <3>1 DEF Stopping, ChildKnown, HomeKnown
  <2>2. CASE StopChild
    <3>1. /\ phase = "stopChild" /\ phase' = "wipe" /\ home' = home
          /\ agent'.planner = agent.planner /\ agent'.status = agent.status /\ ~agent'.process
          /\ agent'.runHome = agent.runHome
          /\ child' = IF agent.process /\ child = "running" THEN "exited" ELSE child
      BY <2>2 DEF StopChild, Stage, ProcessTypeOK
    <3>. QED  BY <3>1 DEF Stopping, ChildKnown, HomeKnown
  <2>3. CASE Wipe
    <3>1. /\ phase = "wipe" /\ phase' = "remove" /\ UNCHANGED <<child, home>>
          /\ agent'.planner = agent.planner /\ agent'.status = agent.status
          /\ agent'.process = agent.process /\ ~agent'.token /\ ~agent'.runHome
      BY <2>3 DEF Wipe, ProcessTypeOK, CloseReturns, NextInList, StopSteps
    <3>. QED  BY <3>1 DEF Stopping, ChildKnown
  <2>4. CASE RemoveHome
    <3>1. phase = "remove" /\ phase' = "lookRoot" /\ UNCHANGED <<agent, child>> /\ ~home'
      BY <2>4 DEF RemoveHome, Stage
    <3>. QED  BY <3>1 DEF Stopping, ChildKnown
  <2>5. CASE LookRoot
    <3>1. phase = "lookRoot" /\ phase' = "removeRoot" /\ UNCHANGED <<agent, child, home>>
      BY <2>5 DEF LookRoot, CloseReturns, CloseRaises, NextInList, BeginClosing, StopSteps, agentVars
    <3>. QED  BY <3>1 DEF Stopping, ChildKnown
  <2>. QED  BY <2>1, <2>2, <2>3, <2>4, <2>5
<1>5. PlannerInv'
  BY <1>3, <1>4 DEF PlannerInv, StartedInv
<1>. QED  BY <1>1, <1>2, <1>5

LEMMA StopReturnsKeeps ==
    ASSUME ProcessInv, phase \in StopSteps, UNCHANGED <<mode, toolCall, neighbour, child, home>>,
           CloseReturns \/ CloseRaises, mishaps' \in 0..MaxMishaps, runsRoot' \in BOOLEAN,
           agent' \in [planner : BOOLEAN, process : BOOLEAN, token : BOOLEAN, runHome : BOOLEAN,
                       status : {"fallback", "hermes"}],
           ~CloseRaises /\ Stopping => NoPlannerLeft'
    PROVE  ProcessInv'
<1>. USE DEF ProcessInv
<1>1. /\ PlaceInv' /\ OpenedInv' /\ BridgeInv'
      /\ opened' \subseteq opened /\ failed' \subseteq failed \cup {"agent"}
      /\ position' \in 1..15 /\ starting' \in BOOLEAN /\ phase' \in {"opening", "closing"}
  BY CloseEndsKeeps
<1>2. ProcessTypeOK'
  BY <1>1 DEF ProcessTypeOK, Resources
<1>3. CASE CloseRaises
  <2>1. phase' = "closing" /\ "agent" \in failed' /\ ~starting'
    BY <1>3, CloseEndsKeeps
  <2>. QED  BY <1>1, <1>2, <2>1 DEF PlannerInv, StartedInv, StartStages, StopSteps
<1>4. CASE ~CloseRaises
  <2>1. /\ failed' = failed /\ starting' = starting
        /\ phase' = IF starting THEN "opening" ELSE "closing"
    BY <1>4, CloseEndsKeeps
  <2>2. starting => "agent" \notin failed
    BY DEF PlannerInv
  <2>3. "agent" \in failed \/ NoPlannerLeft'
    BY <1>4 DEF PlannerInv
  <2>. QED
    BY <1>1, <1>2, <2>1, <2>2, <2>3
    DEF PlannerInv, StartedInv, NoPlannerLeft, StartStages, StopSteps
<1>. QED  BY <1>3, <1>4

LEMMA StopsKeep == ASSUME ProcessInv, StopsPlanner PROVE ProcessInv'
<1>. USE DEF ProcessInv
<1>1. phase \in StopSteps
  BY DEF StopsPlanner, ClosePlanner, StopChild, StopRaises, Wipe, RemoveHome, RemoveRaises, LookRoot,
         RemoveRoot, Stage, StopSteps
<1>2. CASE ClosePlanner \/ StopChild \/ RemoveHome
  BY <1>1, <1>2, StopStageKeeps DEF ClosePlanner, StopChild, RemoveHome, Stage, StopSteps
<1>3. CASE Wipe
  <2>1. CASE agent.runHome
    BY <1>1, <1>3, <2>1, StopStageKeeps DEF Wipe, StopSteps
  <2>2. CASE ~agent.runHome
    <3>1. /\ CloseReturns /\ phase = "wipe"
          /\ UNCHANGED <<mode, child, home, runsRoot, neighbour, toolCall, mishaps>>
          /\ agent' \in [planner : BOOLEAN, process : BOOLEAN, token : BOOLEAN, runHome : BOOLEAN,
                         status : {"fallback", "hermes"}]
          /\ agent'.planner = agent.planner /\ agent'.status = agent.status
          /\ agent'.process = agent.process /\ ~agent'.token /\ ~agent'.runHome
      BY <1>3, <2>2 DEF Wipe, ProcessTypeOK
    <3>2. Stopping => NoPlannerLeft'
      BY <2>2, <3>1 DEF Stopping, NoPlannerLeft, ChildKnown, HomeKnown
    <3>3. mishaps' \in 0..MaxMishaps /\ runsRoot' \in BOOLEAN
      BY <3>1 DEF ProcessTypeOK
    <3>. QED  BY <1>1, <3>1, <3>2, <3>3, StopReturnsKeeps
  <2>. QED  BY <2>1, <2>2
<1>4. CASE StopRaises
  <2>1. /\ CloseRaises /\ UNCHANGED <<mode, child, home, runsRoot, neighbour, toolCall>>
        /\ mishaps < MaxMishaps /\ mishaps' = mishaps + 1
        /\ agent' \in [planner : BOOLEAN, process : BOOLEAN, token : BOOLEAN, runHome : BOOLEAN,
                       status : {"fallback", "hermes"}]
    BY <1>4 DEF StopRaises, Mishap, ProcessTypeOK
  <2>2. mishaps' \in 0..MaxMishaps /\ runsRoot' \in BOOLEAN
    BY <2>1, ProcessAssumption DEF ProcessTypeOK
  <2>. QED  BY <1>1, <2>1, <2>2, StopReturnsKeeps
<1>5. CASE RemoveRaises
  <2>1. /\ CloseRaises /\ UNCHANGED <<mode, agent, child, home, runsRoot, neighbour, toolCall>>
        /\ mishaps < MaxMishaps /\ mishaps' = mishaps + 1
    BY <1>5 DEF RemoveRaises, Mishap, agentVars
  <2>2. mishaps' \in 0..MaxMishaps
    BY <2>1, ProcessAssumption DEF ProcessTypeOK
  <2>3. /\ runsRoot' \in BOOLEAN
        /\ agent' \in [planner : BOOLEAN, process : BOOLEAN, token : BOOLEAN, runHome : BOOLEAN,
                       status : {"fallback", "hermes"}]
    BY <2>1 DEF ProcessTypeOK
  <2>. QED  BY <1>1, <2>1, <2>2, <2>3, StopReturnsKeeps
<1>6. CASE LookRoot
  <2>0. /\ phase = "lookRoot" /\ mishaps' \in 0..MaxMishaps /\ runsRoot' \in BOOLEAN
        /\ UNCHANGED <<mode, agent, child, home, runsRoot, neighbour, toolCall, mishaps>>
        /\ agent' \in [planner : BOOLEAN, process : BOOLEAN, token : BOOLEAN, runHome : BOOLEAN,
                       status : {"fallback", "hermes"}]
    BY <1>6 DEF LookRoot, agentVars, ProcessTypeOK
  <2>1. Stopping => NoPlannerLeft'
    BY <2>0 DEF Stopping, NoPlannerLeft, ChildKnown
  <2>2. CASE CloseReturns \/ CloseRaises
    BY <1>1, <2>0, <2>1, <2>2, StopReturnsKeeps
  <2>3. CASE phase' = "removeRoot" /\ UNCHANGED <<position, starting, opened, failed>>
    BY <1>1, <1>6, <2>0, <2>3, StopStageKeeps DEF StopSteps
  <2>. QED  BY <1>6, <2>2, <2>3 DEF LookRoot
<1>7. CASE RemoveRoot
  <2>0. /\ phase = "removeRoot" /\ mishaps' \in 0..MaxMishaps
        /\ UNCHANGED <<mode, agent, child, home, neighbour, toolCall, mishaps>>
        /\ agent' \in [planner : BOOLEAN, process : BOOLEAN, token : BOOLEAN, runHome : BOOLEAN,
                       status : {"fallback", "hermes"}]
    BY <1>7 DEF RemoveRoot, ProcessTypeOK
  <2>1. Stopping => NoPlannerLeft'
    BY <2>0 DEF Stopping, NoPlannerLeft, ChildKnown
  <2>2. runsRoot' \in BOOLEAN /\ (CloseReturns \/ CloseRaises)
    BY <1>7 DEF RemoveRoot, ProcessTypeOK
  <2>. QED  BY <1>1, <2>0, <2>1, <2>2, StopReturnsKeeps
<1>. QED  BY <1>2, <1>3, <1>4, <1>5, <1>6, <1>7 DEF StopsPlanner

(* The finally block, and what goes on around it.                           *)
LEMMA CloseOneKeeps == ASSUME ProcessInv, CloseOne \/ CloseOneFails PROVE ProcessInv'
<1>. USE DEF ProcessInv
<1>1. /\ phase = "closing" /\ ~starting /\ position \in DOMAIN Closes
      /\ UNCHANGED <<mode, agent, child, home, runsRoot, neighbour, toolCall>>
  BY DEF CloseOne, CloseOneFails, Closing, PlaceInv, agentVars
<1>2. /\ position \in 1..14 /\ Resource = Closes[position] /\ Closes[position] \in Resources
      /\ Closes[position] = "agent" <=> mode = "session" /\ position = 2
  BY <1>1, ListFacts DEF ProcessTypeOK, Resource
<1>3. mishaps' \in 0..MaxMishaps
  BY ProcessAssumption DEF CloseOne, CloseOneFails, Mishap, ProcessTypeOK
<1>4. CASE CloseOne /\ Closes[position] = "agent" /\ "agent" \in opened
  <2>1. phase' = "stopPlanner" /\ UNCHANGED <<position, starting, opened, failed>>
    BY <1>2, <1>4 DEF CloseOne
  <2>2. ProcessTypeOK' /\ PlaceInv' /\ BridgeInv'
    BY <1>1, <1>2, <1>3, <1>4, <2>1
    DEF ProcessTypeOK, PlaceInv, BridgeInv, StartStages, StopSteps
  <2>3. OpenedInv'
    <3>1. Remaining(1)' = Remaining(1) /\ Remaining(position)' = Remaining(position)
      BY <1>1, <2>1 DEF Remaining, Closes
    <3>. QED  BY <1>1, <2>1, <3>1 DEF OpenedInv
  <2>4. "agent" \in failed \/ Stopping'
    BY <1>1, <2>1 DEF PlannerInv, Stopping, NoPlannerLeft, ChildKnown, HomeKnown
  <2>5. PlannerInv'
    BY <1>1, <2>1, <2>4 DEF PlannerInv, StartedInv, StartStages, StopSteps
  <2>. QED  BY <2>2, <2>3, <2>5
<1>5. CASE ~(CloseOne /\ Closes[position] = "agent" /\ "agent" \in opened)
  <2>1. NextInList("closing")
    BY <1>2, <1>5 DEF CloseOne, CloseOneFails
  <2>2. /\ failed \subseteq failed' /\ failed' \subseteq failed \cup {Closes[position]}
        /\ \/ opened' = opened \ {Closes[position]}
           \/ opened' = opened /\ Closes[position] \in failed'
        /\ Closes[position] = "bridge" /\ toolCall => "bridge" \in failed'
        /\ Closes[position] # "agent" \/ "agent" \notin opened
    BY <1>2, <1>5 DEF CloseOne, CloseOneFails
  <2>3. PlaceInv' /\ OpenedInv' /\ BridgeInv'
    BY <1>1, <2>1, <2>2, NextToCloseKeeps
  <2>4. position' \in 1..15 /\ starting' \in BOOLEAN /\ phase' = "closing" /\ ~starting'
        /\ position' = position + 1
    BY <1>1, <1>2, <2>1, ListSteps DEF NextInList
  <2>5. ProcessTypeOK'
    BY <1>1, <1>2, <1>3, <2>2, <2>4 DEF ProcessTypeOK
  <2>6. ASSUME "agent" \notin failed', ~NoPlannerLeft
        PROVE  "agent" \in opened' /\ position' <= 2 /\ ChildKnown /\ HomeKnown
    <3>1. "agent" \in opened /\ position <= 2 /\ ChildKnown /\ HomeKnown
      BY <1>1, <2>2, <2>6 DEF PlannerInv
    <3>2. mode = "session"
      <4>1. \A i \in DOMAIN Closes : Closes[i] = "agent" => mode = "session"
        BY ListFacts DEF ProcessTypeOK
      <4>. QED  BY <3>1, <4>1, RemainingMoves DEF OpenedInv
    <3>. QED  BY <1>2, <2>2, <2>4, <3>1, <3>2
  <2>7. PlannerInv'
    BY <1>1, <2>4, <2>6
    DEF PlannerInv, StartedInv, NoPlannerLeft, ChildKnown, HomeKnown, StartStages, StopSteps
  <2>. QED  BY <2>3, <2>5, <2>7
<1>. QED  BY <1>4, <1>5

LEMMA AroundKeeps == ASSUME ProcessInv, Returns \/ Around PROVE ProcessInv'
<1>. USE DEF ProcessInv
<1>1. UNCHANGED <<mode, position, starting, opened, failed, mishaps, agent, home>>
  BY DEF Returns, Around, ChildExits, CallBegins, CallEnds, NeighbourComes, NeighbourLeaves,
         agentVars
<1>2. Remaining(1)' = Remaining(1) /\ Remaining(position)' = Remaining(position)
  BY <1>1 DEF Remaining, Closes
<1>3. ProcessTypeOK'
  <2>1. /\ phase' = phase \/ phase' = "returned"
        /\ child' = child \/ child' = "exited"
        /\ neighbour' = neighbour \/ neighbour' \in {"none", "home", "leaving"}
    BY DEF Returns, Around, ChildExits, CallBegins, CallEnds, NeighbourComes, NeighbourLeaves,
           agentVars
  <2>2. toolCall' \in BOOLEAN
    BY DEF Returns, Around, ChildExits, CallBegins, CallEnds, NeighbourComes, NeighbourLeaves,
           ProcessTypeOK
  <2>3. \/ runsRoot' = runsRoot \/ runsRoot' = TRUE
        \/ runsRoot' = (runsRoot /\ home)
    BY DEF Returns, Around, ChildExits, CallBegins, CallEnds, NeighbourComes, NeighbourLeaves,
           agentVars
  <2>4. runsRoot' \in BOOLEAN
    BY <2>3 DEF ProcessTypeOK
  <2>. QED  BY <1>1, <2>1, <2>2, <2>4 DEF ProcessTypeOK
<1>4. CASE Returns
  <2>1. phase = "closing" /\ position \notin DOMAIN Closes /\ phase' = "returned"
        /\ UNCHANGED <<child, toolCall>>
    BY <1>4 DEF Returns, Closing, agentVars
  <2>2. ~starting /\ opened \subseteq failed
    BY <2>1, RemainingMoves DEF PlaceInv, OpenedInv
  <2>3. "agent" \in failed \/ NoPlannerLeft
    <3>1. position > 2
      BY <2>1, ListFacts DEF ProcessTypeOK
    <3>. QED  BY <2>1, <3>1 DEF PlannerInv, ProcessTypeOK
  <2>4. PlaceInv' /\ OpenedInv' /\ BridgeInv'
    BY <1>1, <1>2, <2>1, <2>2 DEF PlaceInv, OpenedInv, BridgeInv, StartStages, StopSteps
  <2>5. PlannerInv'
    BY <1>1, <2>1, <2>2, <2>3 DEF PlannerInv, StartedInv, NoPlannerLeft, StartStages, StopSteps
  <2>. QED  BY <1>3, <2>4, <2>5
<1>5. CASE Around
  <2>1. /\ phase' = phase /\ (child' = child \/ child' = "exited")
        /\ toolCall' => "bridge" \in opened \/ toolCall
    BY <1>5 DEF Around, ChildExits, CallBegins, CallEnds, NeighbourComes, NeighbourLeaves, agentVars
  <2>2. PlaceInv' /\ OpenedInv' /\ BridgeInv'
    BY <1>1, <1>2, <2>1 DEF PlaceInv, OpenedInv, BridgeInv
  <2>3. /\ NoPlannerLeft => NoPlannerLeft'
        /\ ChildKnown => ChildKnown'
        /\ HomeKnown => HomeKnown'
    BY <1>1, <2>1 DEF NoPlannerLeft, ChildKnown, HomeKnown
  <2>4. Stopping => Stopping'
    BY <1>1, <2>1, <2>3 DEF Stopping
  <2>5. PlannerInv'
    BY <1>1, <2>1, <2>3, <2>4 DEF PlannerInv, StartedInv
  <2>. QED  BY <1>3, <2>2, <2>5
<1>. QED  BY <1>4, <1>5

LEMMA ProcessRests == ASSUME ProcessInv, UNCHANGED processVars PROVE ProcessInv'
  BY DEF processVars, agentVars, ProcessInv, ProcessTypeOK, PlaceInv, OpenedInv, BridgeInv, PlannerInv,
         StartedInv, Stopping, NoPlannerLeft, ChildKnown, HomeKnown, Remaining, Closes

(* The inductive invariant of HubProcess.                                   *)
THEOREM ProcessInvariant == ProcessSpec => []ProcessInv
<1>1. ProcessInv /\ [ProcessNext]_processVars => ProcessInv'
  BY OpenKeeps, OpenFailsKeeps, ServeKeeps, StartStageKeeps, StartEndsKeeps, StopsKeep,
     CloseOneKeeps, AroundKeeps, ProcessRests
  DEF ProcessNext, StartsPlanner
<1>. QED  BY <1>1, ProcessStarts, PTL DEF ProcessSpec

(* HubProcess's types.                                                      *)
THEOREM ProcessTypes == ProcessSpec => []ProcessTypeOK
  BY ProcessInvariant, PTL DEF ProcessInv

(* The finally blocks and start_optional: whatever raised while the Hub was *)
(* built or taken down, every resource had its own chance to close; without *)
(* its planner a Hub has no process, token or directory of it, and one that *)
(* serves with it knows process and token.                                  *)
THEOREM EveryCloseIsTried == ProcessSpec => []GivenUpIsLetGo
<1>1. ProcessInv => GivenUpIsLetGo
  BY DEF ProcessInv, OpenedInv, PlannerInv, NoPlannerLeft, GivenUpIsLetGo
<1>. QED  BY <1>1, ProcessInvariant, PTL

(* ReadOnlyToolBridgeServer.close: it waits for the handlers, and comes     *)
(* before the stores they read.                                             *)
THEOREM CallsKeepTheirStores == ProcessSpec => []StoresOutliveCalls
<1>1. ProcessInv => StoresOutliveCalls
  <2>. SUFFICES ASSUME ProcessInv, toolCall, "bridge" \notin failed
                PROVE  {"catalog", "content"} \subseteq opened
    BY DEF StoresOutliveCalls
  <2>1. "bridge" \in opened
    BY DEF ProcessInv, BridgeInv
  <2>2. CASE starting
    <3>1. mode = "session"
      <4>1. \A i \in DOMAIN Closes : Closes[i] = "bridge" => mode = "session"
        BY ListFacts DEF ProcessInv, ProcessTypeOK
      <4>. QED  BY <2>1, <4>1, RemainingMoves DEF ProcessInv, OpenedInv
    <3>2. position > 10 /\ position \in Nat
      BY <2>1, <2>2 DEF ProcessInv, BridgeInv, ProcessTypeOK
    <3>3. position > 3 /\ position > 7
      BY <3>2
    <3>. QED  BY <2>2, <3>1, <3>3 DEF ProcessInv, BridgeInv
  <2>3. CASE ~starting
    BY <2>1, <2>3 DEF ProcessInv, BridgeInv
  <2>. QED  BY <2>2, <2>3
<1>. QED  BY <1>1, ProcessInvariant, PTL
==============================================================================
