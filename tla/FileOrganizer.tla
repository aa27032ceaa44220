----------------------------- MODULE FileOrganizer -----------------------------
(****************************************************************************)
(* The reversible move of a user's files into archive folders               *)
(* (PcFileScopeService.organize, organize_selected, undo_organization) under*)
(* its sealed recovery journal (OrganizerJournalStore).  One operation runs *)
(* at a time (the service's lock), one file operation per step; any of them *)
(* may raise, the process may die between any two, and the user works in the*)
(* same folders all the while.                                              *)
(*                                                                          *)
(* A file is its name and a version; the version stands for its content and *)
(* for the size and time the evidence digest is computed from.              *)
(****************************************************************************)
EXTENDS Naturals, FiniteSets

CONSTANTS Files,         \* names of direct children of the authorized folder
          NoJournal,     \* there is no journal file
          NoPreview,     \* nothing has been previewed
          MaxVersion,    \* bound: versions the user may write
          MaxRoot        \* bound: root_id values authorize may draw

ASSUME OrganizerAssumption ==
    /\ MaxVersion \in Nat \ {0} /\ MaxRoot \in Nat \ {0}
    /\ NoJournal \notin [state : {"prepared", "completed"}, root : Nat,
                         files : SUBSET Files, evidence : [Files -> Nat]]

VARIABLES
    root,      \* version of each direct child, 0 if there is none
    archive,   \* version of the file of that name in its category folder, or 0
    version,   \* last version written
    scope,     \* root_id of the authorized scope in memory, 0 for none
    saved,     \* root_id in the persisted scope record, 0 for none
    lastRoot,  \* last root_id drawn
    granting,  \* the authorize call that is between its read and its end
    revoking,  \* a revoke call is between its two steps
    journal,   \* the journal file
    preview,   \* what the user last previewed: [root, files, evidence]
    pc,        \* where the running operation is
    job,       \* its plan: [root, files, evidence]
    todo,      \* files still to move, forward or back
    placed     \* history: files the service moved to the archive and not back

folders == <<root, archive, version>>
scopes == <<scope, saved, lastRoot, granting, revoking>>
operation == <<pc, job, todo>>
vars == <<folders, scopes, journal, preview, operation, placed>>

NoFiles == [f \in Files |-> 0]
NoGrant == [at |-> "none", root |-> 0]
NoJob == [root |-> 0, files |-> {}, evidence |-> NoFiles]

Init == /\ root = [f \in Files |-> 1] /\ archive = NoFiles /\ version = 1
        /\ scope = 1 /\ saved = 1 /\ lastRoot = 1
        /\ granting = NoGrant /\ revoking = FALSE
        /\ journal = NoJournal
        /\ preview = NoPreview
        /\ pc = "idle" /\ job = NoJob /\ todo = {}
        /\ placed = {}

------------------------------------------------------------------------------
(* The user, outside the service. *)

WriteFile(f) == /\ version < MaxVersion
                /\ version' = version + 1
                /\ \/ root' = [root EXCEPT ![f] = version'] /\ UNCHANGED archive
                   \/ /\ archive[f] # 0
                      /\ archive' = [archive EXCEPT ![f] = version'] /\ UNCHANGED root
                /\ UNCHANGED <<scopes, journal, preview, operation, placed>>

DeleteFile(f) ==
    /\ \/ root[f] # 0 /\ root' = [root EXCEPT ![f] = 0] /\ UNCHANGED <<archive, placed>>
       \/ /\ archive[f] # 0 /\ archive' = [archive EXCEPT ![f] = 0]
          /\ placed' = placed \ {f} /\ UNCHANGED root
    /\ UNCHANGED <<version, scopes, journal, preview, operation>>

User == \E f \in Files : WriteFile(f) \/ DeleteFile(f)

(* authorize on the organized folder reads the scope under the lock: the     *)
(* root_id is kept only while the folder is the one in memory, otherwise a   *)
(* fresh one is drawn.                                                       *)
AuthorizeRead ==
    /\ pc = "idle" /\ granting = NoGrant
    /\ IF scope # 0
       THEN granting' = [at |-> "save", root |-> scope] /\ UNCHANGED lastRoot
       ELSE /\ lastRoot < MaxRoot
            /\ lastRoot' = lastRoot + 1
            /\ granting' = [at |-> "save", root |-> lastRoot']
    /\ UNCHANGED <<folders, scope, saved, revoking, journal, preview, operation, placed>>

(* The scope record is written without the lock, or cannot be written.       *)
AuthorizeSave ==
    /\ granting.at = "save"
    /\ \/ saved' = granting.root /\ granting' = [granting EXCEPT !.at = "install"]
       \/ granting' = NoGrant /\ UNCHANGED saved
    /\ UNCHANGED <<folders, scope, lastRoot, revoking, journal, preview, operation,
                   placed>>

AuthorizeInstall ==
    /\ pc = "idle" /\ granting.at = "install"
    /\ scope' = granting.root
    /\ granting' = NoGrant
    /\ UNCHANGED <<folders, saved, lastRoot, revoking, journal, preview, operation,
                   placed>>

(* revoke clears the record without the lock, then the scope under it.       *)
RevokeClear ==
    /\ ~revoking
    /\ saved' = 0 /\ revoking' = TRUE
    /\ UNCHANGED <<folders, scope, lastRoot, granting, journal, preview, operation,
                   placed>>

RevokeInstall ==
    /\ pc = "idle" /\ revoking
    /\ scope' = 0 /\ revoking' = FALSE
    /\ UNCHANGED <<folders, saved, lastRoot, granting, journal, preview, operation,
                   placed>>

(* inventory or organization_preview: the evidence of the selected files.    *)
Preview(s) ==
    /\ pc = "idle" /\ scope # 0
    /\ s # {} /\ \A f \in s : root[f] # 0
    /\ preview' = [root |-> scope, files |-> s,
                   evidence |-> [f \in Files |-> IF f \in s THEN root[f] ELSE 0]]
    /\ UNCHANGED <<folders, scopes, journal, operation, placed>>

------------------------------------------------------------------------------
(* organize and organize_selected. *)

Matches(state) == /\ journal # NoJournal
                  /\ journal.state = state
                  /\ journal.root = preview.root
                  /\ journal.files = preview.files
                  /\ journal.evidence = preview.evidence

StateIsComplete(s) == \A f \in s : root[f] = 0 /\ archive[f] # 0

(* The journal is loaded: without one the operation goes on to plan, a       *)
(* prepared one for the same evidence is rolled back first, a completed one  *)
(* for the same evidence gives its receipt again and any other one refuses   *)
(* with organizer_undo_required (neither of them is a step).                 *)
Organize ==
    /\ pc = "idle"
    /\ preview # NoPreview /\ scope # 0 /\ preview.root = scope
    /\ job' = preview
    /\ \/ journal = NoJournal /\ pc' = "plan"
       \/ Matches("prepared") /\ pc' = "recover"
    /\ todo' = {}
    /\ UNCHANGED <<folders, scopes, journal, preview, placed>>

(* The folder is scanned again: a stale preview or an occupied destination   *)
(* refuses.                                                                  *)
Plan ==
    /\ pc = "plan"
    /\ IF \A f \in job.files : root[f] = job.evidence[f] /\ archive[f] = 0
       THEN pc' = "save" /\ todo' = job.files
       ELSE pc' = "idle" /\ todo' = {}
    /\ UNCHANGED <<folders, scopes, journal, preview, job, placed>>

Entry(state) == [state |-> state, root |-> job.root, files |-> job.files,
                 evidence |-> job.evidence]

(* OrganizerJournalStore.save replaces the file in one rename; it may raise  *)
(* before or after that.                                                     *)
Save(state, next) ==
    /\ UNCHANGED <<folders, scopes, preview, job, todo, placed>>
    /\ \/ journal' = Entry(state) /\ pc' \in {next, "outer"}
       \/ UNCHANGED journal /\ pc' = "outer"

(* Slip: the moves start before the journal is on disk. *)
MoveUnsaved == /\ pc = "save" /\ pc' = "move"
               /\ UNCHANGED <<folders, scopes, journal, preview, job, todo, placed>>

SavePrepared == pc = "save" /\ Save("prepared", "move")

(* _apply_organization on one file: nothing is at the destination and the    *)
(* source is the one that was scanned.                                       *)
MoveFile(f) ==
    /\ pc = "move" /\ f \in todo
    /\ archive[f] = 0
    /\ root[f] = job.evidence[f]
    /\ archive' = [archive EXCEPT ![f] = root[f]]
    /\ root' = [root EXCEPT ![f] = 0]
    /\ todo' = todo \ {f}
    /\ placed' = placed \cup {f}
    /\ UNCHANGED <<version, scopes, journal, preview, pc, job>>

(* A check fails or the rename raises. *)
MoveFails ==
    /\ pc = "move" /\ todo # {}
    /\ pc' = "inner"
    /\ UNCHANGED <<folders, scopes, journal, preview, job, todo, placed>>

SaveCompleted == pc = "move" /\ todo = {} /\ Save("completed", "idle")

------------------------------------------------------------------------------
(* _rollback_moves and what its four callers do after it. *)

(* The files it is called for: those moved so far for the handler inside     *)
(* _apply_organization, else every file of the journal.                      *)
RollbackSet == IF pc = "inner" THEN job.files \ todo ELSE job.files

(* Each file must be in exactly one of the two places. *)
Consistent(s) == \A f \in s : (root[f] # 0) # (archive[f] # 0)

(* Slip: a rollback that cannot be done is tried again. *)
TryAgain(at) ==
    IF at \in {"inner", "innerBack", "outer", "outerBack"} THEN "outer" ELSE "idle"

(* The handler inside _apply_organization raises into the one around it; any *)
(* other rollback ends the operation.                                        *)
After(at) == IF at \in {"inner", "innerBack"} THEN "outer" ELSE "idle"

Back(at) == CASE at = "inner" -> "innerBack" [] at = "outer" -> "outerBack"
              [] at = "recover" -> "recoverBack" [] at = "undo" -> "undoBack"

CheckRollback ==
    /\ pc \in {"inner", "outer", "recover", "undo"}
    /\ IF Consistent(RollbackSet)
       THEN pc' = Back(pc) /\ todo' = {f \in RollbackSet : archive[f] # 0}
       ELSE pc' = After(pc) /\ todo' = {}
    /\ UNCHANGED <<folders, scopes, journal, preview, job, placed>>

GoingBack == {"innerBack", "outerBack", "recoverBack", "undoBack"}

(* Slip: a rename that replaces what the user put in the place. *)
MoveBackOver(f) ==
    /\ pc \in GoingBack /\ f \in todo
    /\ archive[f] # 0
    /\ root' = [root EXCEPT ![f] = archive[f]]
    /\ archive' = [archive EXCEPT ![f] = 0]
    /\ todo' = todo \ {f}
    /\ placed' = placed \ {f}
    /\ UNCHANGED <<version, scopes, journal, preview, pc, job>>

(* A rename never replaces a file. *)
MoveBack(f) ==
    /\ pc \in GoingBack /\ f \in todo
    /\ root[f] = 0 /\ archive[f] # 0
    /\ root' = [root EXCEPT ![f] = archive[f]]
    /\ archive' = [archive EXCEPT ![f] = 0]
    /\ todo' = todo \ {f}
    /\ placed' = placed \ {f}
    /\ UNCHANGED <<version, scopes, journal, preview, pc, job>>

MoveBackFails ==
    /\ pc \in GoingBack /\ todo # {}
    /\ pc' = After(pc)
    /\ todo' = {}
    /\ UNCHANGED <<folders, scopes, journal, preview, job, placed>>

(* Everything is back: the inner handler raises into the outer one, the      *)
(* others clear the journal; a retry then plans again.  clear may raise.     *)
RolledBack ==
    /\ pc \in GoingBack /\ todo = {}
    /\ \/ pc = "innerBack" /\ pc' = "outer" /\ UNCHANGED journal
       \/ /\ pc # "innerBack"
          /\ journal' = NoJournal
          /\ pc' = IF pc = "recoverBack" THEN "plan" ELSE "idle"
       \/ pc # "innerBack" /\ pc' = "idle" /\ UNCHANGED journal
    /\ UNCHANGED <<folders, scopes, preview, job, todo, placed>>

(* undo_organization of the journal's own root. *)
Undo ==
    /\ pc = "idle"
    /\ journal # NoJournal /\ scope # 0 /\ journal.root = scope
    /\ pc' = "undo"
    /\ job' = [root |-> journal.root, files |-> journal.files,
               evidence |-> journal.evidence]
    /\ todo' = {}
    /\ UNCHANGED <<folders, scopes, journal, preview, placed>>

(* The process dies and restarts; the persisted scope is restored unless it  *)
(* cannot be validated.                                                      *)
Restart ==
    /\ pc' = "idle" /\ job' = NoJob /\ todo' = {}
    /\ scope' \in {saved, 0}
    /\ granting' = NoGrant /\ revoking' = FALSE
    /\ UNCHANGED <<folders, saved, lastRoot, journal, preview, placed>>

Step == \/ Plan \/ SavePrepared \/ SaveCompleted \/ MoveFails
        \/ CheckRollback \/ MoveBackFails \/ RolledBack
        \/ \E f \in Files : MoveFile(f) \/ MoveBack(f)

Next == \/ User \/ AuthorizeRead \/ AuthorizeSave \/ AuthorizeInstall
        \/ RevokeClear \/ RevokeInstall \/ Organize \/ Undo \/ Restart
        \/ \E s \in SUBSET Files : Preview(s)
        \/ Step

Spec == Init /\ [][Next]_vars

(* The thread that holds the lock runs on. *)
FairSpec == Spec /\ WF_vars(Step)

------------------------------------------------------------------------------
(* Properties. *)

Plans == [root : Nat, files : SUBSET Files, evidence : [Files -> Nat]]

TypeOK == /\ root \in [Files -> Nat] /\ archive \in [Files -> Nat] /\ version \in Nat
          /\ scope \in Nat /\ saved \in Nat /\ lastRoot \in Nat
          /\ granting \in [at : {"none", "save", "install"}, root : Nat]
          /\ revoking \in BOOLEAN
          /\ \/ journal = NoJournal
             \/ journal \in [state : {"prepared", "completed"}, root : Nat,
                             files : SUBSET Files, evidence : [Files -> Nat]]
          /\ preview = NoPreview \/ preview \in Plans
          /\ pc \in {"idle", "plan", "save", "move", "inner", "outer", "recover", "undo"}
                    \cup GoingBack
          /\ job \in Plans
          /\ todo \subseteq job.files
          /\ placed \subseteq Files

(* The service never destroys or overwrites a file: whatever fails and       *)
(* wherever it dies, the name and content of every file survive each of its  *)
(* steps; only the user removes or rewrites one.                             *)
Present == {<<f, root[f]>> : f \in {g \in Files : root[g] # 0}}
           \cup {<<f, archive[f]>> : f \in {g \in Files : archive[g] # 0}}

NothingLost == [][User \/ Present' = Present]_vars

(* Every file the service has moved away and not brought back is named by the*)
(* journal on disk, so a later undo or retry knows about it: the journal is  *)
(* written before the first move and goes only after the last move back.     *)
Reversible ==
    /\ journal = NoJournal => placed = {}
    /\ journal # NoJournal => placed \subseteq journal.files

(* An operation ends: rollbacks inside rollbacks do not go round in circles. *)
OperationsEnd == pc # "idle" ~> pc = "idle"

(* The user guide: the last successful operation can be undone.  Its files   *)
(* are all where it put them and the same folder is authorized.              *)
LastOperationUndoable ==
    journal # NoJournal /\ journal.state = "completed" /\ scope # 0
        /\ StateIsComplete(journal.files)
      => journal.root = scope
==============================================================================
