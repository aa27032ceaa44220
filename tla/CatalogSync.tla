----------------------------- MODULE CatalogSync -----------------------------
(****************************************************************************)
(* The Hub's unified catalog (CatalogStore) and those who fill it: the phone*)
(* sends complete snapshots of its directory through an outbox of one entry *)
(* (CatalogSyncClient), the PC refreshes its authorized folder              *)
(* (catalog_operator_api.py, cluster_organization.py).  A snapshot of the   *)
(* phone may be lost, arrive late or twice, the app may be killed, and the  *)
(* user asks again.  Refreshes of the PC overlap, and another folder may be *)
(* authorized between any two of their steps.                               *)
(*                                                                          *)
(* A snapshot maps the items of a directory to revisions, 0 for none.       *)
(****************************************************************************)
EXTENDS Naturals, FiniteSets

CONSTANTS Items, Snapshots,
          PhoneRoot, PcRoots,   \* catalog_root_ids
          Refreshers,           \* requests that refresh the PC's folder
          NoRoot, NoPayload,
          MaxTaken,             \* bound: snapshots the phone takes
          MaxTries,             \* bound: idempotency keys drawn for one snapshot
          MaxRefresh            \* bound: sequence of a root of the PC

ASSUME CatalogAssumption ==
    /\ MaxTaken \in Nat \ {0} /\ MaxTries \in Nat \ {0} /\ MaxRefresh \in Nat \ {0}
    /\ NoRoot \notin PcRoots /\ PhoneRoot \notin PcRoots
    /\ Snapshots \subseteq [Items -> Nat] /\ NoPayload \notin Snapshots

VARIABLES
    directory,  \* what the phone's directory holds
    taken,      \* number of the phone's last snapshot
    outbox,     \* the phone's outbox: one payload
    app,        \* where the phone's sync is
    flying,     \* requests on their way to the Hub
    catalogue,  \* catalog_root: seq and snapshot of each root
    asset,      \* catalog_asset: revision of each item of a root, and if it is deleted
    synced,     \* catalog_sync_request by root and key; those of the PC have random keys
    pcFolder,   \* what the PC's folder holds
    pcRoot,     \* its root id while it is authorized
    refresh     \* what each refresh of the PC's folder has read so far

phoneVars == <<directory, taken, outbox, app>>
hubVars == <<catalogue, asset, synced>>
pcVars == <<pcFolder, pcRoot, refresh>>
catalogVars == <<phoneVars, flying, hubVars, pcVars>>

Roots == {PhoneRoot} \cup PcRoots
NoAsset == [revision |-> 0, deleted |-> TRUE]
Unknown == [seq |-> 0, snapshot |-> NoPayload, taken |-> 0]
AppIdle == [at |-> "idle"]
NoRefresh == [at |-> "idle"]

CatalogInit ==
    /\ directory \in Snapshots /\ taken = 0 /\ outbox = NoPayload /\ app = AppIdle
    /\ flying = {}
    /\ catalogue = [r \in Roots |-> Unknown]
    /\ asset = [r \in Roots |-> [i \in Items |-> NoAsset]]
    /\ synced = {}
    /\ pcFolder \in Snapshots /\ pcRoot \in PcRoots \cup {NoRoot}
    /\ refresh = [c \in Refreshers |-> NoRefresh]

------------------------------------------------------------------------------
(* CatalogStore.apply_snapshot, one transaction.                             *)

(* Slip: a sequence that is behind is taken for the current one.             *)
BaseNotAhead(q) == q.base <= catalogue[q.root].seq

BaseIsCurrent(q) == q.base = catalogue[q.root].seq

Changed(q) == catalogue[q.root].snapshot # q.snapshot

(* Every asset is deleted, and those of the snapshot brought back.           *)
AssetsAfter(old, q) ==
    [i \in Items |-> IF q.snapshot[i] # 0 THEN [revision |-> q.snapshot[i], deleted |-> FALSE]
                     ELSE [old[i] EXCEPT !.deleted = TRUE]]

(* _retire_other_roots_locked: the roots go with their assets and requests.  *)
Retired(q, replaceOthers) ==
    IF replaceOthers THEN PcRoots \ {q.root} ELSE {}

Forgetting(retired, f, none) == [r \in Roots |-> IF r \in retired THEN none ELSE f[r]]

Record(q) == [root |-> q.root, key |-> q.key]

(* A request that was recorded is answered again.                            *)
ApplyAgain(q) == Record(q) \in synced /\ UNCHANGED hubVars

ApplyNew(q, replaceOthers) ==
    LET retired == Retired(q, replaceOthers)
        root == [seq |-> catalogue[q.root].seq + (IF Changed(q) THEN 1 ELSE 0),
                 snapshot |-> q.snapshot, taken |-> q.taken]
    IN /\ Record(q) \notin synced /\ BaseIsCurrent(q)
       /\ catalogue' = Forgetting(retired, [catalogue EXCEPT ![q.root] = root], Unknown)
       /\ asset' = Forgetting(retired,
                              [asset EXCEPT ![q.root] =
                                  IF Changed(q) THEN AssetsAfter(@, q) ELSE @],
                              [i \in Items |-> NoAsset])
       /\ synced' = synced \cup (IF replaceOthers THEN {} ELSE {Record(q)})

Conflict(q) == Record(q) \notin synced /\ ~BaseIsCurrent(q)

------------------------------------------------------------------------------
(* The phone.                                                                *)

ChangeDirectory ==
    /\ directory' \in Snapshots \ {directory}
    /\ UNCHANGED <<taken, outbox, app, flying, hubVars, pcVars>>

(* sync: the snapshot is put in the outbox before the Hub is asked for its   *)
(* sequence ...                                                              *)
StartSync ==
    /\ app = AppIdle /\ taken < MaxTaken
    /\ taken' = taken + 1
    /\ outbox' = [root |-> PhoneRoot, snapshot |-> directory, taken |-> taken + 1,
                  base |-> 0, key |-> <<taken + 1, 1>>, seen |-> NoPayload]
    /\ app' = [at |-> "read", fresh |-> TRUE]
    /\ UNCHANGED <<directory, flying, hubVars, pcVars>>

(* retryPending: the outbox is loaded, the sequence asked for.               *)
StartRetry ==
    /\ app = AppIdle /\ outbox # NoPayload
    /\ app' = [at |-> "read", fresh |-> FALSE]
    /\ UNCHANGED <<directory, taken, outbox, flying, hubVars, pcVars>>

Rebased(fresh) ==
    [outbox EXCEPT !.base = catalogue[PhoneRoot].seq,
                   !.seen = catalogue[PhoneRoot].snapshot,
                   !.key = IF fresh \/ outbox.base # catalogue[PhoneRoot].seq
                           THEN <<@[1], @[2] + 1>> ELSE @]

(* ... and put there again with the sequence, under another key unless a     *)
(* retry finds the sequence it had; then it is posted.                       *)
SendSnapshot ==
    /\ app.at = "read"
    /\ LET q == Rebased(app.fresh)
       IN /\ q.key[2] <= MaxTries
          /\ outbox' = q
          /\ flying' = flying \cup {q}
          /\ app' = [at |-> "wait", key |-> q.key]
    /\ UNCHANGED <<directory, taken, hubVars, pcVars>>

(* A request fails or times out, or the app is killed: the outbox stays.     *)
AppStops == /\ app # AppIdle /\ app' = AppIdle
            /\ UNCHANGED <<directory, taken, outbox, flying, hubVars, pcVars>>

(* The receipt reaches the app: the outbox is cleared if it holds what was   *)
(* accepted.                                                                 *)
Acknowledge(q) ==
    IF app.at = "wait" /\ app.key = q.key
    THEN \/ app' = AppIdle /\ outbox' = (IF outbox = q THEN NoPayload ELSE outbox)
         \/ UNCHANGED <<app, outbox>>
    ELSE UNCHANGED <<app, outbox>>

(* The Hub serves a request of the phone; the network may keep another copy. *)
ServeSnapshot(q) ==
    /\ q \in flying /\ flying' \in {flying, flying \ {q}}
    /\ \/ /\ ApplyAgain(q) \/ ApplyNew(q, FALSE)
          /\ Acknowledge(q)
       \/ /\ Conflict(q) /\ UNCHANGED <<hubVars, outbox>>
          /\ app' = IF app.at = "wait" /\ app.key = q.key THEN AppIdle ELSE app
    /\ UNCHANGED <<directory, taken, pcVars>>

LoseSnapshot(q) == /\ q \in flying /\ flying' = flying \ {q}
                   /\ UNCHANGED <<phoneVars, hubVars, pcVars>>

------------------------------------------------------------------------------
(* The PC's folder.  Those who refresh it (refresh_pc, or an organization of  *)
(* a cluster) do so in four steps and hold no lock from one to the next.     *)

(* Authorizing another folder draws a root id, revoking leaves none.  Two    *)
(* authorizations may overlap, so that one that kept the id of its folder    *)
(* brings it back after another.                                             *)
ChangePc ==
    /\ \/ pcFolder' \in Snapshots \ {pcFolder} /\ UNCHANGED pcRoot
       \/ pcRoot' \in PcRoots \ {pcRoot} /\ pcFolder' \in Snapshots
       \/ pcRoot # NoRoot /\ pcRoot' = NoRoot /\ UNCHANGED pcFolder
    /\ UNCHANGED <<phoneVars, flying, hubVars, refresh>>

PcStep(c, next) ==
    /\ refresh' = [refresh EXCEPT ![c] = next]
    /\ UNCHANGED <<phoneVars, flying, hubVars, pcFolder, pcRoot>>

(* The root is looked up ...                                                 *)
AskPc(c) ==
    /\ refresh[c] = NoRefresh /\ pcRoot # NoRoot
    /\ PcStep(c, [at |-> "sequence", root |-> pcRoot, base |-> 0, snapshot |-> NoPayload,
                  taken |-> 0, key |-> NoRoot, seen |-> NoPayload, kept |-> TRUE])

(* ... then its sequence read, ...                                           *)
ReadPc(c) ==
    /\ refresh[c].at = "sequence"
    /\ LET row == catalogue[refresh[c].root]
       IN /\ row.seq < MaxRefresh
          /\ PcStep(c, [refresh[c] EXCEPT !.at = "folder", !.base = row.seq,
                                          !.seen = row.snapshot, !.kept = TRUE])

(* ... then the folder that is authorized by now, whose root need not be the *)
(* one whose sequence was read, ...                                          *)
ScanPc(c) ==
    /\ refresh[c].at = "folder" /\ pcRoot # NoRoot
    /\ PcStep(c, [refresh[c] EXCEPT !.at = "apply", !.root = pcRoot, !.snapshot = pcFolder,
                                    !.kept = @ /\ refresh[c].root = pcRoot])

(* Kept is history: whether a refresh has the root whose sequence it read,   *)
(* and that root has stayed in the catalog since.                            *)
Overtaken(other, q) ==
    IF other = NoRefresh THEN other
    ELSE [other EXCEPT !.kept = @ /\ other.root = q.root]

(* ... then the snapshot applied in place of every other root of the PC.     *)
ApplyPc(c) ==
    LET q == refresh[c]
    IN /\ q.at = "apply"
       /\ \/ /\ ApplyNew(q, TRUE)
             /\ refresh' = [d \in Refreshers |-> IF d = c THEN NoRefresh
                                                 ELSE Overtaken(refresh[d], q)]
          \/ /\ Conflict(q) /\ UNCHANGED hubVars
             /\ refresh' = [refresh EXCEPT ![c] = NoRefresh]
       /\ UNCHANGED <<phoneVars, flying, pcFolder, pcRoot>>

(* A step fails or times out: nothing is authorized, the folder is too large *)
(* or unreadable, the executor is full or closed, the Hub dies.              *)
EndPc(c) == refresh[c] # NoRefresh /\ PcStep(c, NoRefresh)

PhoneNext ==
    \/ ChangeDirectory \/ StartSync \/ StartRetry \/ SendSnapshot \/ AppStops
    \/ \E q \in flying : ServeSnapshot(q) \/ LoseSnapshot(q)

PcNext ==
    \/ ChangePc
    \/ \E c \in Refreshers : AskPc(c) \/ ReadPc(c) \/ ScanPc(c) \/ ApplyPc(c) \/ EndPc(c)

CatalogNext == PhoneNext \/ PcNext

CatalogSpec == CatalogInit /\ [][CatalogNext]_catalogVars

------------------------------------------------------------------------------
(* Properties. *)

CatalogTypeOK ==
    /\ directory \in Snapshots /\ taken \in 0..MaxTaken
    /\ catalogue \in [Roots -> [seq : Nat, snapshot : Snapshots \cup {NoPayload}, taken : Nat]]
    /\ asset \in [Roots -> [Items -> [revision : Nat, deleted : BOOLEAN]]]

(* The assets the Hub shows for a root are exactly the items of the snapshot *)
(* it accepted last, whatever was retried, repeated or retired.              *)
AssetsMatchSnapshot ==
    \A r \in Roots, i \in Items :
        LET known == IF catalogue[r] = Unknown THEN 0 ELSE catalogue[r].snapshot[i]
        IN (IF asset[r][i].deleted THEN 0 ELSE asset[r][i].revision) = known

(* What a request for a root, accepted in this step, replaces.               *)
Replaces(q) == catalogue'[q.root] # catalogue[q.root]

AppliedPc(c) == refresh[c] # NoRefresh /\ refresh[c].at = "apply" /\ refresh'[c] = NoRefresh

(* A snapshot never overwrites one its sender has not seen: late and repeated*)
(* requests, retries from the outbox and refreshes that overlap are refused. *)
(* Not a refresh whose sequence was another root's, or of a row that another *)
(* root has had deleted since: see PcOverwritesOnlySeen.                     *)
OverwritesOnlySeen ==
    [][/\ \A q \in flying :
            Record(q) \in synced' \ synced /\ Replaces(q) => q.seen = catalogue[q.root].snapshot
       /\ \A c \in Refreshers :
            AppliedPc(c) /\ Replaces(refresh[c]) /\ (refresh[c].kept \/ refresh[c].base = 0)
              => refresh[c].seen = catalogue[refresh[c].root].snapshot]_catalogVars

(* The same of every refresh: a base sequence that is behind or ahead is a   *)
(* conflict, other commits are not silently overwritten (CATALOG_SYNC_V1.md).*)
PcOverwritesOnlySeen ==
    [][\A c \in Refreshers :
          AppliedPc(c) /\ Replaces(refresh[c])
            => refresh[c].seen = catalogue[refresh[c].root].snapshot]_catalogVars

(* Once the folder that is authorized is in the catalog, its predecessor is  *)
(* out of it for good (test_catalog_operator_api.py, replacing a PC scope).  *)
ReplacedStaysOut ==
    [][pcRoot # NoRoot /\ catalogue[pcRoot] # Unknown
          => catalogue'[pcRoot] # Unknown]_catalogVars

(* The Hub does not go back to a snapshot the phone took before the one it   *)
(* accepted last.  (It may: see README.md, Observations.)                    *)
NeverOlder ==
    [][\A r \in Roots : catalogue'[r].taken >= catalogue[r].taken]_catalogVars
===============================================================================
