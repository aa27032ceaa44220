---------------------------- MODULE FileCursorStore ----------------------------
(****************************************************************************)
(* The device's durable cursor (file_cursor_store.dart): one sequence number*)
(* kept in a final file, replaced by way of a next and a backup file.  Each *)
(* file operation is a step of its own; the app may be killed between any   *)
(* two, and a reset may overlap a write that was queued after it began.     *)
(****************************************************************************)
EXTENDS Naturals

CONSTANTS Absent,     \* a file that does not exist
          MaxSeq      \* bound: sequence numbers written

ASSUME CursorAssumption == MaxSeq \in Nat /\ Absent \notin Nat

VARIABLES next, final, backup,   \* the three files: Absent or the number they hold
          step,                  \* where the write at the head of _writeTail is
          target,                \* the number it stores
          resetting,             \* the file reset deletes next, "no" otherwise
          acknowledged,          \* history: last number whose write returned, since a reset
          raced                  \* history: a write ran while a reset was deleting

files == <<next, final, backup>>
vars == <<files, step, target, resetting, acknowledged, raced>>

Init == /\ next = Absent /\ final = Absent /\ backup = Absent
        /\ step = "idle" /\ target = 0
        /\ resetting = "no"
        /\ acknowledged = 0
        /\ raced = FALSE

Conflicting == final # Absent /\ backup # Absent /\ final # backup

(* What read returns when it does not raise local_state_corrupt. *)
Stored == IF final # Absent THEN final ELSE IF backup # Absent THEN backup ELSE 0

(* read: a lone backup is renamed to the final file. *)
Recovered == IF final = Absent THEN backup ELSE final
RecoveredBackup == IF final = Absent THEN Absent ELSE backup

(* _write(s) starts with read: it raises on conflicting files and on a       *)
(* number that goes back, and has nothing to do for the number stored.       *)
BeginWrite(s) ==
    /\ step = "idle"
    /\ ~Conflicting
    /\ final' = Recovered
    /\ backup' = RecoveredBackup
    /\ IF s > Stored THEN step' = "writing" /\ target' = s
                     ELSE UNCHANGED <<step, target>>
    /\ acknowledged' = IF s = Stored THEN s ELSE acknowledged
    /\ raced' = (raced \/ resetting # "no")
    /\ UNCHANGED <<next, resetting>>

(* start reads the cursor on its own, outside the write queue. *)
Read ==
    /\ step = "idle" /\ resetting = "no"
    /\ ~Conflicting
    /\ final' = Recovered
    /\ backup' = RecoveredBackup
    /\ UNCHANGED <<next, step, target, resetting, acknowledged, raced>>

WriteNext ==
    /\ step = "writing"
    /\ next' = target
    /\ step' = "flushed"
    /\ UNCHANGED <<final, backup, target, resetting, acknowledged, raced>>

DropOldBackup ==
    /\ step = "flushed"
    /\ backup' = Absent
    /\ step' = "unbacked"
    /\ UNCHANGED <<next, final, target, resetting, acknowledged, raced>>

(* Slip: the old file is deleted before the new one is in its place. *)
DropFinal ==
    /\ step = "unbacked"
    /\ final' = Absent
    /\ step' = "moved"
    /\ UNCHANGED <<next, backup, target, resetting, acknowledged, raced>>

KeepFinal ==
    /\ step = "unbacked"
    /\ backup' = IF final = Absent THEN backup ELSE final
    /\ final' = Absent
    /\ step' = "moved"
    /\ UNCHANGED <<next, target, resetting, acknowledged, raced>>

(* The rename of next to final fails when a reset has deleted next.          *)
InstallNext ==
    /\ step = "moved"
    /\ IF next = Absent
       THEN step' = "idle" /\ UNCHANGED files
       ELSE /\ final' = next /\ next' = Absent /\ step' = "installed"
            /\ UNCHANGED backup
    /\ UNCHANGED <<target, resetting, acknowledged, raced>>

DropBackup ==
    /\ step = "installed"
    /\ backup' = Absent
    /\ step' = "idle"
    /\ acknowledged' = target
    /\ UNCHANGED <<next, final, target, resetting, raced>>

(* A file operation raises: the write ends where it is. *)
WriteFails ==
    /\ step \in {"writing", "flushed", "unbacked", "moved", "installed"}
    /\ step' = "idle"
    /\ UNCHANGED <<files, target, resetting, acknowledged, raced>>

(* reset awaits the queued writes, then deletes next, final and backup; it   *)
(* does not join the queue itself.                                           *)
BeginReset ==
    /\ resetting = "no" /\ step = "idle"
    /\ resetting' = "next"
    /\ UNCHANGED <<files, step, target, acknowledged, raced>>

DeleteNext == /\ resetting = "next"
              /\ next' = Absent /\ resetting' = "final"
              /\ UNCHANGED <<final, backup, step, target, acknowledged, raced>>

DeleteFinal == /\ resetting = "final"
               /\ final' = Absent /\ resetting' = "backup"
               /\ acknowledged' = 0
               /\ UNCHANGED <<next, backup, step, target, raced>>

DeleteBackup == /\ resetting = "backup"
                /\ backup' = Absent /\ resetting' = "no"
                /\ UNCHANGED <<next, final, step, target, acknowledged, raced>>

(* The app is killed; the files stay as they are. *)
Kill == /\ step' = "idle" /\ resetting' = "no"
        /\ UNCHANGED <<files, target, acknowledged, raced>>

Next == \/ \E s \in 1..MaxSeq : BeginWrite(s)
        \/ Read \/ WriteNext \/ DropOldBackup \/ KeepFinal \/ InstallNext
        \/ DropBackup \/ WriteFails
        \/ BeginReset \/ DeleteNext \/ DeleteFinal \/ DeleteBackup
        \/ Kill

Spec == Init /\ [][Next]_vars

------------------------------------------------------------------------------
(* Properties. *)

Content == Nat \cup {Absent}

TypeOK == /\ next \in Content /\ final \in Content /\ backup \in Content
          /\ step \in {"idle", "writing", "flushed", "unbacked", "moved", "installed"}
          /\ target \in Nat
          /\ resetting \in {"no", "next", "final", "backup"}
          /\ acknowledged \in Nat
          /\ raced \in BOOLEAN

(* No acknowledged cursor is lost: whatever file operation the app was killed*)
(* or failed in, what the files hold is at least the last number whose write *)
(* returned.                                                                 *)
AcknowledgedSurvives == ~raced => Stored >= acknowledged

(* The durable cursor only moves forward, unless the user resets it.         *)
NeverBackwards ==
    [][Stored' >= Stored \/ resetting # "no" \/ raced]_vars

(* While nothing is being written and no reset overlapped a write, two       *)
(* conflicting files can only be a new final beside the old backup, so the   *)
(* number read refuses to choose is never older than an acknowledged one.    *)
ConflictIsUnfinishedInstall == Conflicting /\ ~raced => backup < final

(* The replacement is documented as atomic: after the app is killed in the   *)
(* middle of a write, the next start reads the old or the new number.        *)
ReplacementIsAtomic == step = "idle" => ~Conflicting
==============================================================================
