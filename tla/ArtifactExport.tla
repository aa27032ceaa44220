---------------------------- MODULE ArtifactExport ----------------------------
(****************************************************************************)
(* Export of a knowledge pack as a Markdown file, and its undo              *)
(* (ArtifactExportService over ArtifactExportStore and the export calls of  *)
(* PcFileScopeService), with the clients that ask for it                    *)
(* (knowledge_export_view.dart).  A journal row and a file are written by   *)
(* separate steps; the process may die between any two, requests and replies*)
(* may be lost, the user edits files and the scope may be authorized anew.  *)
(*                                                                          *)
(* A pack determines the name and the content of its file, so a file is     *)
(* missing, partly written, exact or changed.                               *)
(****************************************************************************)
EXTENDS Naturals, Sequences, FiniteSets

CONSTANTS ExportClients, Keys, Packs,
          NoKey,             \* no idempotency key, no undo token
          MaxExportRoot,     \* bound: root ids drawn
          MaxPending         \* bound: requests that wait for the service's lock

ASSUME ExportAssumption == NoKey \notin Keys /\ {MaxExportRoot, MaxPending} \subseteq Nat \ {0}

VARIABLES
    built,       \* the pack that KnowledgeContextBuilder builds now
    exportRoot,  \* root id of the authorized folder, 0 for none
    rootsDrawn,  \* last root id drawn
    file,        \* each pack's file in the output folder
    touched,     \* history: packs whose file the user has touched
    journal,     \* the rows, one per key
    order,       \* the keys in the order of their rows
    client,      \* what each card holds: the preview, its key, an undo token
    pending,     \* requests on their way to the service or waiting for its lock
    op           \* the request that holds the service's lock

catalogAndScope == <<built, exportRoot, rootsDrawn>>
disk == <<file, touched>>
rows == <<journal, order>>
exportVars == <<catalogAndScope, disk, rows, client, pending, op>>

NoRow == [state |-> "NONE", pack |-> NoKey, root |-> 0, preview |-> 0]
NoOp == [kind |-> "none"]
NoPreviewYet == [pack |-> NoKey, root |-> 0, key |-> NoKey, token |-> NoKey]

ExportInit ==
    /\ built \in Packs /\ exportRoot = 1 /\ rootsDrawn = 1
    /\ file = [p \in Packs |-> "missing"] /\ touched = {}
    /\ journal = [k \in Keys |-> NoRow] /\ order = <<>>
    /\ client = [c \in ExportClients |-> NoPreviewYet]
    /\ pending = {} /\ op = NoOp

------------------------------------------------------------------------------
(* The surroundings: the user at the folder, the catalog, the scope.         *)

Doing(at, p) == op # NoOp /\ op.at = at /\ journal[op.key].pack = p

(* A file that is held open for writing cannot be replaced by the user.      *)
EditFile(p) ==
    /\ ~Doing("finish", p) /\ file[p] # "missing"
    /\ \E s \in {"missing", "changed"} : s # file[p] /\ file' = [file EXCEPT ![p] = s]
    /\ touched' = touched \cup {p}
    /\ op' = IF Doing("unlink", p) THEN [op EXCEPT !.edited = TRUE] ELSE op
    /\ UNCHANGED <<catalogAndScope, rows, client, pending>>

StudyAgain == \E p \in Packs : /\ p # built /\ built' = p
                               /\ UNCHANGED <<exportRoot, rootsDrawn, disk, rows, client,
                                              pending, op>>

(* The folder's authorization is revoked, or given again under a new id.     *)
ChangeScope ==
    /\ \/ exportRoot # 0 /\ exportRoot' = 0 /\ UNCHANGED rootsDrawn
       \/ /\ exportRoot = 0 /\ rootsDrawn < MaxExportRoot
          /\ exportRoot' = rootsDrawn + 1 /\ rootsDrawn' = rootsDrawn + 1
    /\ UNCHANGED <<built, disk, rows, client, pending, op>>

------------------------------------------------------------------------------
(* The card: a key is drawn with the preview and kept for retries.           *)

Used == {client[c].key : c \in ExportClients} \cup {order[i] : i \in DOMAIN order}
        \cup {q.key : q \in pending}

PreparePreview(c) ==
    /\ exportRoot # 0
    /\ \E k \in Keys \ Used :
         client' = [client EXCEPT ![c].pack = built, ![c].root = exportRoot, ![c].key = k]
    /\ UNCHANGED <<catalogAndScope, disk, rows, pending, op>>

(* A card sends one request at a time, but one that times out frees it while *)
(* the Hub still serves the request; one that is lost is one not sent.       *)
(* `edited` is history: the user was at the file after the last look at it.  *)
SendRequest(c, kind, key) ==
    /\ Cardinality(pending) < MaxPending
    /\ pending' = pending \cup {[client |-> c, kind |-> kind, key |-> key, at |-> "start",
                                pack |-> client[c].pack, root |-> client[c].root,
                                edited |-> FALSE]}
    /\ UNCHANGED <<catalogAndScope, disk, rows, client, op>>

Confirm(c) ==
    \/ client[c].key # NoKey /\ SendRequest(c, "execute", client[c].key)
    \/ client[c].token # NoKey /\ SendRequest(c, "undo", client[c].token)
    \/ SendRequest(c, "status", NoKey)

------------------------------------------------------------------------------
(* The service, under its lock.                                              *)

Begin(q) == /\ op = NoOp /\ q \in pending
            /\ pending' = pending \ {q} /\ op' = q
            /\ UNCHANGED <<catalogAndScope, disk, rows, client>>

(* The request ends with a receipt or an error.                              *)
Answer == op' = NoOp /\ UNCHANGED <<client, pending>>
Refuse == Answer /\ UNCHANGED <<disk, rows>>
Continue(at) == op' = [op EXCEPT !.at = at] /\ UNCHANGED <<disk, rows, client, pending>>

At(kind, at) == op # NoOp /\ op.kind = kind /\ op.at = at

(* A store or file operation raises: the request fails where it is.          *)
Fail == op # NoOp /\ op.at # "finish" /\ Refuse /\ UNCHANGED catalogAndScope

Row(k) == journal[k]

SetState(k, s) == journal' = [journal EXCEPT ![k].state = s] /\ UNCHANGED order

(* inspect_markdown_export by way of _inspect: under another root id the file*)
(* counts as changed.                                                        *)
Inspection(k) ==
    IF Row(k).root # exportRoot THEN "changed"
    ELSE IF file[Row(k).pack] = "partial" THEN "changed"
    ELSE file[Row(k).pack]

(* execute: the pack is built and previewed again.                           *)
CheckPreview ==
    /\ At("execute", "start")
    /\ IF built = op.pack /\ exportRoot = op.root THEN Continue("prepare") ELSE Refuse
    /\ UNCHANGED catalogAndScope

(* prepare: the scope is read once more, and a row inserted unless the key   *)
(* has one, which must be the same.                                          *)
PrepareRow ==
    /\ At("execute", "prepare")
    /\ LET k == op.key
           candidate == [state |-> "PREPARED", pack |-> op.pack, root |-> exportRoot,
                         preview |-> op.root]
       IN IF exportRoot = 0 THEN Refuse
          ELSE IF Row(k) = NoRow
          THEN /\ journal' = [journal EXCEPT ![k] = candidate]
               /\ order' = Append(order, k)
               /\ op' = [op EXCEPT !.at = "inspect"]
               /\ UNCHANGED <<disk, client, pending>>
          ELSE IF [Row(k) EXCEPT !.state = "PREPARED"] # candidate THEN Refuse
          ELSE Continue("inspect")
    /\ UNCHANGED catalogAndScope

(* Only a prepared row goes on, with a file that is missing or already exact;*)
(* a completed one is answered again, the others ask for recovery.           *)
InspectForExecute ==
    /\ At("execute", "inspect")
    /\ LET k == op.key
       IN IF Row(k).state # "PREPARED" THEN Refuse
          ELSE IF Inspection(k) = "changed" THEN Refuse
          ELSE Continue(IF Inspection(k) = "missing" THEN "open" ELSE "complete")
    /\ UNCHANGED catalogAndScope

(* Slip: the row is completed before the file is written.                    *)
CompleteFirst ==
    /\ At("execute", "open")
    /\ SetState(op.key, "COMPLETED")
    /\ op' = [op EXCEPT !.at = "create"]
    /\ UNCHANGED <<catalogAndScope, disk, client, pending>>

(* write_markdown_export creates the file exclusively ...                    *)
OpenFile ==
    /\ At("execute", "open")
    /\ IF exportRoot = Row(op.key).root /\ file[op.pack] = "missing"
       THEN /\ file' = [file EXCEPT ![op.pack] = "partial"]
            /\ op' = [op EXCEPT !.at = "finish"]
            /\ UNCHANGED <<touched, rows, client, pending>>
       ELSE Refuse
    /\ UNCHANGED catalogAndScope

(* ... and fills it, or removes what it wrote, if it can.                    *)
FinishFile ==
    /\ At("execute", "finish")
    /\ \/ /\ file' = [file EXCEPT ![op.pack] = "exact"]
          /\ op' = [op EXCEPT !.at = "complete"]
          /\ UNCHANGED <<client, pending>>
       \/ /\ file' \in {file, [file EXCEPT ![op.pack] = "missing"]}
          /\ Answer
    /\ UNCHANGED <<catalogAndScope, touched, rows>>

Complete ==
    /\ At("execute", "complete")
    /\ SetState(op.key, "COMPLETED")
    /\ Answer
    /\ UNCHANGED <<catalogAndScope, disk>>

(* status looks at the latest row and carries on what a crash interrupted;   *)
(* the answer with the undo token may be lost.                               *)
Status ==
    /\ At("status", "start")
    /\ IF order = <<>> THEN Refuse
       ELSE LET k == order[Len(order)]
                s == Row(k).state
                now == IF s = "PREPARED" /\ Inspection(k) = "exact" THEN "COMPLETED"
                       ELSE IF s = "UNDOING" /\ Inspection(k) = "missing" THEN "UNDONE"
                       ELSE s
                undoable == now \in {"COMPLETED", "UNDOING"} /\ Inspection(k) = "exact"
                token == IF undoable THEN k ELSE NoKey
            IN /\ SetState(k, now)
               /\ op' = NoOp
               /\ client' \in {client, [client EXCEPT ![op.client].token = token]}
               /\ UNCHANGED <<disk, pending>>
    /\ UNCHANGED catalogAndScope

(* undo of the row the token names: its intent is recorded before the delete.*)
InspectForUndo ==
    /\ At("undo", "start")
    /\ LET k == op.key
           s == Row(k).state
           i == Inspection(k)
       IN \/ s \in {"NONE", "PREPARED"} /\ Refuse
          \/ s = "UNDONE" /\ Refuse
          \/ /\ s = "UNDOING" /\ i = "missing"
             /\ SetState(k, "UNDONE") /\ Answer /\ UNCHANGED disk
          \/ /\ s \in {"COMPLETED", "UNDOING"} /\ i # "exact"
             /\ ~(s = "UNDOING" /\ i = "missing") /\ Refuse
          \/ /\ s \in {"COMPLETED", "UNDOING"} /\ i = "exact"
             /\ SetState(k, "UNDOING")
             /\ op' = [op EXCEPT !.at = "delete"]
             /\ UNCHANGED <<disk, client, pending>>
    /\ UNCHANGED catalogAndScope

(* Slip: the file is deleted without a second look.                          *)
LookNoMore ==
    /\ At("undo", "delete")
    /\ op' = [op EXCEPT !.at = "unlink"]
    /\ UNCHANGED <<catalogAndScope, disk, rows, client, pending>>

(* delete_markdown_export_unchanged inspects once more ...                   *)
LookAgain ==
    /\ At("undo", "delete")
    /\ IF Inspection(op.key) = "exact" THEN Continue("unlink") ELSE Refuse
    /\ UNCHANGED catalogAndScope

(* ... and deletes what is there by now.                                     *)
DeleteFile ==
    /\ At("undo", "unlink")
    /\ IF file[Row(op.key).pack] # "missing"
       THEN /\ file' = [file EXCEPT ![Row(op.key).pack] = "missing"]
            /\ op' = [op EXCEPT !.at = "undone"]
            /\ UNCHANGED <<touched, rows, client, pending>>
       ELSE Refuse
    /\ UNCHANGED catalogAndScope

Undone ==
    /\ At("undo", "undone")
    /\ SetState(op.key, "UNDONE")
    /\ Answer
    /\ UNCHANGED <<catalogAndScope, disk>>

(* The Hub dies and restarts; the scope is restored or not.                  *)
ExportRestart ==
    /\ pending' = {} /\ op' = NoOp
    /\ exportRoot' \in {exportRoot, 0}
    /\ UNCHANGED <<built, rootsDrawn, disk, rows, client>>

ExportStep == \/ CheckPreview \/ PrepareRow \/ InspectForExecute \/ OpenFile \/ FinishFile
              \/ Complete \/ Status \/ InspectForUndo \/ LookAgain \/ DeleteFile \/ Undone

ExportUser == \E p \in Packs : EditFile(p)

ExportNext ==
    \/ ExportUser \/ StudyAgain \/ ChangeScope
    \/ \E c \in ExportClients : PreparePreview(c) \/ Confirm(c)
    \/ \E q \in pending : Begin(q)
    \/ ExportStep \/ Fail \/ ExportRestart

ExportSpec == ExportInit /\ [][ExportNext]_exportVars

------------------------------------------------------------------------------
(* Properties. *)

ExportTypeOK ==
    /\ built \in Packs /\ exportRoot \in Nat /\ rootsDrawn \in Nat
    /\ file \in [Packs -> {"missing", "partial", "exact", "changed"}]
    /\ touched \subseteq Packs
    /\ journal \in [Keys -> [state : {"NONE", "PREPARED", "COMPLETED", "UNDOING", "UNDONE"},
                             pack : Packs \cup {NoKey}, root : Nat, preview : Nat]]
    /\ order \in Seq(Keys)

(* Whatever the service does, it neither overwrites nor deletes a file the   *)
(* user has edited, unless the edit came between the last inspection and the *)
(* deletion, which are one call.                                             *)
EditsSurvive ==
    [][\/ ExportUser
       \/ op # NoOp /\ op.edited
       \/ \A p \in Packs : file[p] = "changed" => file'[p] = "changed"]_exportVars

(* KNOWLEDGE_PACK_EXPORT_V1.md: "Undo deletes only an exact byte-for-byte    *)
(* match."  The inspection and the unlink are two steps.                     *)
UndoDeletesOnlyExact ==
    [][\A p \in Packs : Doing("unlink", p) /\ DeleteFile => file[p] \in {"exact", "missing"}]_exportVars

(* Journal and folder agree across crashes, retries and several clients: a   *)
(* file the service made is named by a row that is not undone, and the file  *)
(* of a completed row stands unless the user touched it or an export of the  *)
(* same pack was undone.                                                     *)
JournalMatchesFolder ==
    \A p \in Packs :
        LET of(states) == {k \in Keys : Row(k).pack = p /\ Row(k).state \in states}
        IN /\ file[p] \in {"partial", "exact"}
                => of({"PREPARED", "COMPLETED", "UNDOING"}) # {}
           /\ of({"COMPLETED"}) # {} /\ p \notin touched
                => file[p] = "exact" \/ of({"UNDOING", "UNDONE"}) # {}
===============================================================================
