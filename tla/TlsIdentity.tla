----------------------------- MODULE TlsIdentity -----------------------------
(***************************************************************************)
(* The Hub's TLS identity on disk: how it is created once, found again,    *)
(* and never replaced (tls_identity/provisioner.py, permanent_identity.py, *)
(* loader.py).                                                             *)
(*                                                                         *)
(* There is no lock.  A run of the bootstrap makes and protects the        *)
(* product directory and the hub directory in it, fills a staging          *)
(* directory of its own there, and publishes it by renaming it to its      *)
(* final name: the rename is the commit point, and a final directory that  *)
(* exists is never overwritten.  A marker in it says that its publication  *)
(* is not finished; whoever finds the marker finishes.  Any step may raise,*)
(* the process may be killed between any two, and runs may overlap.        *)
(***************************************************************************)
EXTENDS Naturals, FiniteSets

CONSTANTS Runs,        \* calls of the three entry points, one each
          NoId,        \* there is no identity
          MaxFaults,   \* bound: operations that raise and files damaged
          MaxDeaths    \* bound: processes killed

ASSUME IdentityAssumption ==
    /\ NoId \notin Runs /\ MaxFaults \in Nat /\ MaxDeaths \in Nat

VARIABLES
    folder,    \* DataSteward and its hub directory
    identity,  \* tls-identity-v1: whose it is, with its marker, intact or not
    dir,       \* the staging or candidate directory of each run
    used,      \* a Hub has put its database beside the identity
    run,       \* where each run is and what it remembers
    faults, deaths

tlsVars == <<folder, identity, dir, used, run, faults, deaths>>

Levels == {"product", "hub"}
Kinds == {"permanent", "direct", "rotate"}

(* made: the directories it made; won: its rename published; waiting: it   *)
(* lost and waits for the winner; retried: the recovery of its handler.    *)
(* hit and alone are history: an operation of it raised by itself, and     *)
(* nothing else has interfered since it began on a clean disk.             *)
NotBegun == [kind |-> "none", at |-> "idle", level |-> "product", made |-> {},
             won |-> FALSE, waiting |-> FALSE, retried |-> FALSE,
             result |-> NoId, created |-> FALSE, hit |-> FALSE, alone |-> FALSE]

TlsInit ==
    /\ folder = [l \in Levels |-> "absent"]
    /\ identity = [id |-> NoId, marker |-> FALSE, sound |-> TRUE]
    /\ dir = [r \in Runs |-> "none"]
    /\ used = FALSE
    /\ run = [r \in Runs |-> NotBegun]
    /\ faults = 0 /\ deaths = 0

Published == identity.id # NoId
Transients == {r \in Runs : dir[r] # "none"}
RunEnded == {"idle", "done", "failed", "dead"}
InProgress(r) == run[r].at \notin RunEnded

GoesOn(r, at) == run' = [run EXCEPT ![r].at = at]
Raises(r) == run' = [run EXCEPT ![r].at = "raised", ![r].waiting = FALSE]

(* What _wait_load_published tries again. *)
RaisesSoftly(r) == IF run[r].waiting THEN GoesOn(r, "wait") ELSE Raises(r)

------------------------------------------------------------------------------
(* provision_or_load_permanent_identity: the directories, outermost first. *)

CleanDisk ==
    /\ Transients = {} /\ \A q \in Runs : ~InProgress(q)
    /\ \A l \in Levels : folder[l] # "bare"
    /\ identity.sound

Begin(r, k) ==
    /\ run[r].at = "idle"
    /\ run' = [q \in Runs |->
                 IF q = r THEN [NotBegun EXCEPT !.kind = k, !.alone = CleanDisk,
                                                !.at = IF k = "permanent" THEN "see" ELSE "look"]
                          ELSE [run[q] EXCEPT !.alone = FALSE]]
    /\ UNCHANGED <<folder, identity, dir, used, faults, deaths>>

(* Past one level: the next, or the identity.  A hub directory that was    *)
(* there may hold nothing but the identity: not even the Hub's database.   *)
Enters(r, madeIt) ==
    IF run[r].level = "product"
      THEN run' = [run EXCEPT ![r].level = "hub", ![r].at = "see",
                              ![r].made = IF madeIt THEN {"product"} ELSE {}]
      ELSE IF madeIt
        THEN run' = [run EXCEPT ![r].at = "look", ![r].made = @ \cup {"hub"}]
        ELSE IF used \/ Transients # {} THEN Raises(r) ELSE GoesOn(r, "look")

See(r) ==
    /\ run[r].at = "see"
    /\ \/ folder[run[r].level] = "absent" /\ GoesOn(r, "make")
       \/ folder[run[r].level] = "bare" /\ Raises(r)
       \/ folder[run[r].level] = "protected" /\ Enters(r, FALSE)
    /\ UNCHANGED <<folder, identity, dir, used, faults, deaths>>

CanMake(l) == folder[l] = "absent" /\ (l = "hub" => folder["product"] # "absent")

Make(r) ==
    /\ run[r].at = "make"
    /\ IF CanMake(run[r].level)
         THEN folder' = [folder EXCEPT ![run[r].level] = "bare"] /\ GoesOn(r, "guard")
         ELSE UNCHANGED folder /\ Raises(r)
    /\ UNCHANGED <<identity, dir, used, faults, deaths>>

(* The access list is in place; from here on the run counts it as its own. *)
Guard(r) ==
    /\ run[r].at = "guard"
    /\ folder' = [folder EXCEPT ![run[r].level] = "protected"]
    /\ Enters(r, TRUE)
    /\ UNCHANGED <<identity, dir, used, faults, deaths>>

------------------------------------------------------------------------------
(* provision_or_load_identity and create_rotation_candidate. *)

(* What there is: an identity to load, one to finish first, or none yet.   *)
(* A candidate is only made beside an identity that loads.                 *)
LookForFinal(r) ==
    /\ run[r].at = "look"
    /\ IF folder["hub"] = "absent" THEN Raises(r)
       ELSE IF run[r].kind = "rotate"
         THEN IF Published /\ ~identity.marker /\ identity.sound THEN GoesOn(r, "stage") ELSE Raises(r)
         ELSE GoesOn(r, IF ~Published THEN "stage" ELSE IF identity.marker THEN "verify" ELSE "load")
    /\ UNCHANGED <<folder, identity, dir, used, faults, deaths>>

Stage(r) ==
    /\ run[r].at = "stage"
    /\ IF folder["hub"] # "absent"
         THEN dir' = [dir EXCEPT ![r] = "bare"] /\ GoesOn(r, "own")
         ELSE UNCHANGED dir /\ Raises(r)
    /\ UNCHANGED <<folder, identity, used, faults, deaths>>

(* The access list and then the owner's token: what cleaning up asks for.  *)
Own(r) ==
    /\ run[r].at = "own"
    /\ dir' = [dir EXCEPT ![r] = "owned"] /\ GoesOn(r, "fill")
    /\ UNCHANGED <<folder, identity, used, faults, deaths>>

(* Key, certificate, password blob and manifest, loaded and compared.      *)
Fill(r) ==
    /\ run[r].at = "fill"
    /\ dir' = [dir EXCEPT ![r] = "complete"]
    /\ GoesOn(r, IF run[r].kind = "rotate" THEN "done" ELSE "publish")
    /\ UNCHANGED <<folder, identity, used, faults, deaths>>

(* Slip: what stands under the name is removed, then renamed over. *)
PublishOver(r) ==
    /\ run[r].at = "publish"
    /\ identity' = [id |-> r, marker |-> TRUE, sound |-> dir[r] = "complete"]
    /\ dir' = [dir EXCEPT ![r] = "none"]
    /\ run' = [run EXCEPT ![r].at = "verify", ![r].won = TRUE]
    /\ UNCHANGED <<folder, used, faults, deaths>>

(* The rename.  Whoever finds the name taken removes its staging directory *)
(* and waits for the identity of the winner.                               *)
Publish(r) ==
    /\ run[r].at = "publish"
    /\ dir' = [dir EXCEPT ![r] = "none"]
    /\ IF Published
         THEN run' = [run EXCEPT ![r].at = "wait", ![r].waiting = TRUE] /\ UNCHANGED identity
         ELSE /\ identity' = [id |-> r, marker |-> TRUE, sound |-> dir[r] = "complete"]
              /\ run' = [run EXCEPT ![r].at = "verify", ![r].won = TRUE]
    /\ UNCHANGED <<folder, used, faults, deaths>>

Wait(r) ==
    /\ run[r].at = "wait"
    /\ GoesOn(r, IF identity.marker THEN "verify" ELSE "load")
    /\ UNCHANGED <<folder, identity, dir, used, faults, deaths>>

TimeOut(r) ==
    /\ run[r].at = "wait"
    /\ Raises(r)
    /\ UNCHANGED <<folder, identity, dir, used, faults, deaths>>

------------------------------------------------------------------------------
(* _complete_publish and finish_publication_if_needed: whoever published   *)
(* and whoever found the marker run them side by side.                     *)

(* The marker has to be there still; one that went meanwhile is an error   *)
(* that is worth another try, a damaged identity is not, nor is any later  *)
(* error on this way.                                                      *)
Verify(r) ==
    /\ run[r].at = "verify"
    /\ IF ~identity.marker THEN RaisesSoftly(r)
       ELSE IF identity.sound THEN run' = [run EXCEPT ![r].at = "unmark", ![r].waiting = FALSE]
                              ELSE Raises(r)
    /\ UNCHANGED <<folder, identity, dir, used, faults, deaths>>

Unmark(r) ==
    /\ run[r].at = "unmark"
    /\ GoesOn(r, IF identity.marker THEN "unlink" ELSE "load")
    /\ UNCHANGED <<folder, identity, dir, used, faults, deaths>>

(* Another run may have removed it since the look. *)
Unlink(r) ==
    /\ run[r].at = "unlink"
    /\ IF identity.marker THEN identity' = [identity EXCEPT !.marker = FALSE] /\ GoesOn(r, "load")
                       ELSE UNCHANGED identity /\ Raises(r)
    /\ UNCHANGED <<folder, dir, used, faults, deaths>>

(* load_tls_identity, strict: a marker is an unknown file.  One that never *)
(* loads ends a wait by its timeout.                                       *)
LoadStrictly(r) ==
    /\ run[r].at = "load"
    /\ IF identity.marker \/ ~identity.sound THEN RaisesSoftly(r)
       ELSE run' = [run EXCEPT ![r].at = IF run[r].kind = "permanent" THEN "audit" ELSE "done",
                               ![r].result = identity.id, ![r].created = run[r].won,
                               ![r].waiting = FALSE]
    /\ UNCHANGED <<folder, identity, dir, used, faults, deaths>>

(* audit_permanent_identity_tree: the database is welcome here. *)
TreeIsRight ==
    /\ \A l \in Levels : folder[l] = "protected"
    /\ Published /\ ~identity.marker /\ identity.sound
    /\ Transients = {}

Audit(r) ==
    /\ run[r].at = "audit"
    /\ IF TreeIsRight THEN GoesOn(r, "done") ELSE Raises(r)
    /\ UNCHANGED <<folder, identity, dir, used, faults, deaths>>

------------------------------------------------------------------------------
(* The handlers. *)

Cleaned(r) == IF run[r].kind = "permanent" THEN "handle" ELSE "failed"

(* _cleanup_owned_dir: only a directory with the run's own token. *)
CleanUp(r) ==
    /\ run[r].at = "raised"
    /\ dir' = [dir EXCEPT ![r] = IF @ = "bare" \/ run[r].retried THEN @ ELSE "none"]
    /\ GoesOn(r, Cleaned(r))
    /\ UNCHANGED <<folder, identity, used, faults, deaths>>

(* Slip: no second look at an identity that is there. *)
HandleOnce(r) ==
    /\ run[r].at = "handle"
    /\ GoesOn(r, IF Published THEN "failed" ELSE "rollHub")
    /\ UNCHANGED <<folder, identity, dir, used, faults, deaths>>

(* An identity that is there is loaded or finished, once, and audited;     *)
(* without one the run takes back the directories it made.                 *)
Handle(r) ==
    /\ run[r].at = "handle"
    /\ IF ~Published THEN GoesOn(r, "rollHub")
       ELSE IF run[r].retried THEN GoesOn(r, "failed")
       ELSE run' = [run EXCEPT ![r].at = "look", ![r].retried = TRUE, ![r].won = FALSE]
    /\ UNCHANGED <<folder, identity, dir, used, faults, deaths>>

(* Slip: the tree removed with whatever is in it. *)
RollHubWhole(r) ==
    /\ run[r].at = "rollHub"
    /\ folder' = [folder EXCEPT !["hub"] = IF "hub" \in run[r].made THEN "absent" ELSE @]
    /\ GoesOn(r, "rollProduct")
    /\ UNCHANGED <<identity, dir, used, faults, deaths>>

(* rmdir of a directory the run made and that is empty, bottom up. *)
RollHub(r) ==
    /\ run[r].at = "rollHub"
    /\ folder' = [folder EXCEPT !["hub"] =
                    IF "hub" \in run[r].made /\ ~Published /\ ~used /\ Transients = {}
                      THEN "absent" ELSE @]
    /\ GoesOn(r, "rollProduct")
    /\ UNCHANGED <<identity, dir, used, faults, deaths>>

RollProduct(r) ==
    /\ run[r].at = "rollProduct"
    /\ folder' = [folder EXCEPT !["product"] =
                    IF "product" \in run[r].made /\ folder["hub"] = "absent"
                      THEN "absent" ELSE @]
    /\ GoesOn(r, "failed")
    /\ UNCHANGED <<identity, dir, used, faults, deaths>>

(* discard_rotation_candidate. *)
Discard(r) ==
    /\ run[r].kind = "rotate" /\ run[r].at = "done" /\ dir[r] # "none"
    /\ dir' = [dir EXCEPT ![r] = "none"]
    /\ UNCHANGED <<folder, identity, used, run, faults, deaths>>

------------------------------------------------------------------------------
(* What goes wrong, and the rest of the Hub. *)

(* Where a run is after the operation it was at has raised: cleaning up    *)
(* and rolling back swallow it.                                            *)
AfterFault(r) ==
    CASE run[r].at = "raised" -> Cleaned(r)
      [] run[r].at = "rollHub" -> "rollProduct"
      [] run[r].at = "rollProduct" -> "failed"
      [] OTHER -> "raised"

Fault(r) ==
    /\ InProgress(r) /\ run[r].at \notin {"wait", "handle"}
    /\ faults < MaxFaults /\ faults' = faults + 1
    /\ run' = [run EXCEPT ![r].at = AfterFault(r), ![r].waiting = FALSE,
                          ![r].hit = TRUE, ![r].alone = FALSE]
    /\ UNCHANGED <<folder, identity, dir, used, deaths>>

Die(r) ==
    /\ InProgress(r)
    /\ deaths < MaxDeaths /\ deaths' = deaths + 1
    /\ GoesOn(r, "dead")
    /\ UNCHANGED <<folder, identity, dir, used, faults>>

(* The content of a file of the identity is damaged from outside. *)
Damage ==
    /\ Published /\ identity.sound
    /\ faults < MaxFaults /\ faults' = faults + 1
    /\ identity' = [identity EXCEPT !.sound = FALSE]
    /\ run' = [r \in Runs |-> [run[r] EXCEPT !.alone = FALSE]]
    /\ UNCHANGED <<folder, dir, used, deaths>>

(* A Hub loads the identity and opens its database in the same directory.  *)
Serve ==
    /\ Published /\ ~identity.marker /\ identity.sound
    /\ used' = TRUE
    /\ UNCHANGED <<folder, identity, dir, run, faults, deaths>>

(* Every call has come to its end. *)
AllOver ==
    /\ \A r \in Runs : run[r].at \in {"done", "failed", "dead"}
    /\ UNCHANGED tlsVars

Directories(r) == See(r) \/ Make(r) \/ Guard(r) \/ RollHub(r) \/ RollProduct(r)
Preparing(r) == Stage(r) \/ Own(r) \/ Fill(r) \/ Publish(r) \/ CleanUp(r) \/ Discard(r)
Finishing(r) == LookForFinal(r) \/ Wait(r) \/ TimeOut(r) \/ Verify(r) \/ Unmark(r) \/ Unlink(r)
                \/ LoadStrictly(r) \/ Audit(r) \/ Handle(r)

TlsNext ==
    \/ \E r \in Runs, k \in Kinds : Begin(r, k)
    \/ \E r \in Runs : Directories(r) \/ Preparing(r) \/ Finishing(r) \/ Fault(r) \/ Die(r)
    \/ Damage \/ Serve \/ AllOver

TlsSpec == TlsInit /\ [][TlsNext]_tlsVars

------------------------------------------------------------------------------
(* Properties. *)

Places == RunEnded \cup {"see", "make", "guard", "look", "stage", "own", "fill", "publish",
                      "wait", "verify", "unmark", "unlink", "load", "audit", "raised",
                      "handle", "rollHub", "rollProduct"}

RunRecord == [kind : Kinds \cup {"none"}, at : Places, level : Levels, made : SUBSET Levels,
              won : BOOLEAN, waiting : BOOLEAN, retried : BOOLEAN,
              result : Runs \cup {NoId}, created : BOOLEAN, hit : BOOLEAN, alone : BOOLEAN]

TlsTypeOK ==
    /\ folder \in [Levels -> {"absent", "bare", "protected"}]
    /\ identity \in [id : Runs \cup {NoId}, marker : BOOLEAN, sound : BOOLEAN]
    /\ dir \in [Runs -> {"none", "bare", "owned", "complete"}]
    /\ used \in BOOLEAN
    /\ run \in [Runs -> RunRecord]
    /\ faults \in 0..MaxFaults /\ deaths \in 0..MaxDeaths

(* "Existing steady-state final -> strict load only (never overwrite)",    *)
(* "recover (never regenerate)": once published an identity is neither     *)
(* replaced nor removed, its directories stay, and its marker only goes.   *)
PublishedStays ==
    [][Published => /\ identity'.id = identity.id
                    /\ identity'.marker => identity.marker
                    /\ \A l \in Levels : folder[l] # "absent" => folder'[l] # "absent"]_tlsVars

(* Whoever is told an identity is told the same one, finished, and only    *)
(* the run that published it is told that it was created.                  *)
ResultsAgree ==
    \A r \in Runs : run[r].kind # "rotate" /\ run[r].at = "done" =>
        /\ Published /\ run[r].result = identity.id /\ ~identity.marker
        /\ run[r].created => identity.id = r

(* What each run that is over has answered its caller.                     *)
Told == [r \in Runs |->
           IF run[r].kind # "rotate" /\ run[r].at = "done"
             THEN [id |-> run[r].result, created |-> run[r].created]
             ELSE [id |-> NoId, created |-> FALSE]]

Register == INSTANCE IdentityRegister
              WITH chosen <- identity.id, finished <- Published /\ ~identity.marker,
                   told <- Told

(* "Missing final -> stage, verify, atomic publish (rename = commit)":     *)
(* through these three values every step of any run, also one that raises, *)
(* recovers or rolls back, is a step of a register written once, or none.  *)
ImplementsRegister == Register!RegisterSpec

(* "Idempotent permanent identity bootstrap": on a disk without leftovers, *)
(* with no other run and no error of the system, it succeeds: first time,  *)
(* after a death behind the rename, and with the Hub's database beside the *)
(* identity, where it does so by way of its own exception handler.         *)
LoneRunSucceeds ==
    \A r \in Runs : run[r].kind = "permanent" /\ run[r].alone => run[r].at # "failed"

(* A run that has ended leaves no staging directory behind it, unless an   *)
(* operation of it raised in a place where cleaning up has to refuse; and  *)
(* no directory that is not protected, unless it was killed or hit.        *)
LeavesNothing ==
    /\ \A r \in Runs : run[r].at \in {"done", "failed"} /\ dir[r] # "none"
                         => run[r].hit \/ (run[r].kind = "rotate" /\ run[r].at = "done")
    /\ \A l \in Levels : folder[l] = "bare"
         => \E r \in Runs : run[r].at \in {"guard", "dead"} \/ run[r].hit

(* The first-run test starts eight of them at once and expects no error: a *)
(* run that finds an intact identity does not fail for what others do.     *)
OverlapIsHarmless ==
    [][\A r \in Runs : /\ run[r].at \in {"verify", "unlink"} /\ identity.sound
                      /\ run'[r].at = "raised"
                    => faults' # faults]_tlsVars
==============================================================================
