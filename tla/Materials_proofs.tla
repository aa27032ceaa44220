--------------------------- MODULE Materials_proofs ---------------------------
(****************************************************************************)
(* The user's materials on the Hub, for any number of files, snapshots,     *)
(* tool calls, cards and keys: the catalog shows the snapshot it accepted   *)
(* last and replaces none unseen (CatalogSync), the texts of the phone's    *)
(* images are of listed revisions and bear the present consent (AndroidOcr),*)
(* a study pack cites what was read for it (MaterialInsight), and the       *)
(* journal of exports agrees with the folder (ArtifactExport).              *)
(*                                                                          *)
(* The components share no state.  For each an inductive invariant comes    *)
(* first (CatalogInv, OcrInv, InsightInv, ExportInv), then a lemma for each *)
(* action or group of actions, then the theorems.                           *)
(****************************************************************************)
EXTENDS CatalogSync, AndroidOcr, MaterialInsight, ArtifactExport, FiniteSetTheorems, TLAPS

(* CatalogSync. *)

Payload == [root : {PhoneRoot}, snapshot : Snapshots, taken : Nat, base : Nat,
            key : Nat \X Nat, seen : Snapshots \cup {NoPayload}]

(* A refresh of the PC that is still reading, and one that may be applied.   *)
PcReading == [at : {"sequence", "folder"}, root : PcRoots, base : Nat, snapshot : {NoPayload},
              taken : Nat, key : {NoRoot}, seen : Snapshots \cup {NoPayload}, kept : BOOLEAN]

PcRequest == [at : {"apply"}, root : PcRoots, base : Nat, snapshot : Snapshots,
              taken : Nat, key : {NoRoot}, seen : Snapshots \cup {NoPayload}, kept : BOOLEAN]

RootRow == [seq : Nat, snapshot : Snapshots \cup {NoPayload}, taken : Nat]

AssetRow == [revision : Nat, deleted : BOOLEAN]

CatalogShapes ==
    /\ directory \in Snapshots /\ taken \in 0..MaxTaken
    /\ pcFolder \in Snapshots /\ pcRoot \in PcRoots \cup {NoRoot}
    /\ flying \subseteq Payload
    /\ refresh \in [Refreshers -> PcReading \cup PcRequest \cup {NoRefresh}]
    /\ catalogue \in [Roots -> RootRow] /\ asset \in [Roots -> [Items -> AssetRow]]

RowsInv ==
    \A r \in Roots : catalogue[r].snapshot = NoPayload \/ catalogue[r].seq = 0
                       => catalogue[r] = Unknown

(* Who read `seen` with the sequence `base` knows what the row has been since*)
(* then: the sequence has not gone back, and names one snapshot.             *)
Knows(base, seen, row) == base <= row.seq /\ (base = row.seq => seen = row.snapshot)

(* A request that may still be accepted has seen what it replaces: the       *)
(* phone's root is never retired, so its sequence names its snapshots, and   *)
(* that of a root of the PC does as long as the root is kept.  A sequence of *)
(* 0 is that of no row, whatever root it was read of.                        *)
Informed(q, table) ==
    /\ q.base = 0 => q.seen = NoPayload
    /\ q.kept => Knows(q.base, q.seen, table[q.root])

SeenInv ==
    /\ \A q \in flying : Knows(q.base, q.seen, catalogue[PhoneRoot])
    /\ \A c \in Refreshers : refresh[c] # NoRefresh => Informed(refresh[c], catalogue)

(* Requests under one key have one base: the outbox draws another key when   *)
(* it is given another base, and it holds the newest key of its snapshot.    *)
Boxed == app.at = "read" \/ outbox # NoPayload

KeysInv ==
    /\ \A q \in flying : q.key[1] <= taken
    /\ \A p, q \in flying : p.key = q.key => p.base = q.base
    /\ Boxed =>
         /\ outbox \in Payload /\ outbox.key[1] <= taken
         /\ \A q \in flying : q.key[1] = outbox.key[1] =>
              /\ q.key[2] <= outbox.key[2]
              /\ q.key[2] = outbox.key[2] => q.base = outbox.base

CatalogInv == CatalogShapes /\ RowsInv /\ AssetsMatchSnapshot /\ SeenInv /\ KeysInv

LEMMA RequestFields ==
    ASSUME NEW q \in Payload \cup PcRequest
    PROVE  /\ q.root \in Roots /\ q.snapshot \in Snapshots /\ q.taken \in Nat
           /\ q.base \in Nat /\ q.seen \in Snapshots \cup {NoPayload}
           /\ q \in Payload => q.root = PhoneRoot /\ q.key \in Nat \X Nat
           /\ q \in PcRequest => q.root \in PcRoots
  BY DEF Payload, PcRequest, Roots

LEMMA ReadingFields ==
    ASSUME NEW q \in PcReading \cup PcRequest
    PROVE  /\ q.root \in PcRoots /\ q.root \in Roots /\ q.base \in Nat
           /\ q.seen \in Snapshots \cup {NoPayload} /\ q.kept \in BOOLEAN
           /\ q # NoRefresh
           /\ q.at = "apply" => q \in PcRequest
  BY DEF PcReading, PcRequest, Roots, NoRefresh

(* What the Hub's rows are after an accepted snapshot.                       *)
LEMMA NewRows ==
    ASSUME CatalogInv, NEW q \in Payload \cup PcRequest, NEW replace \in BOOLEAN,
           ApplyNew(q, replace)
    PROVE  \E row \in RootRow :
             /\ row.snapshot = q.snapshot
             /\ row.seq = IF Changed(q) THEN catalogue[q.root].seq + 1
                          ELSE catalogue[q.root].seq
             /\ catalogue' = [r \in Roots |-> IF r \in Retired(q, replace) THEN Unknown
                                              ELSE IF r = q.root THEN row ELSE catalogue[r]]
<1>. DEFINE row == [seq |-> catalogue[q.root].seq + (IF Changed(q) THEN 1 ELSE 0),
                    snapshot |-> q.snapshot, taken |-> q.taken]
<1>1. q.root \in Roots /\ q.snapshot \in Snapshots /\ q.taken \in Nat
  BY RequestFields
<1>2. catalogue \in [Roots -> RootRow] /\ catalogue[q.root].seq \in Nat
  BY <1>1 DEF CatalogInv, CatalogShapes, RootRow
<1>3. row \in RootRow /\ row.snapshot = q.snapshot
      /\ row.seq = IF Changed(q) THEN catalogue[q.root].seq + 1 ELSE catalogue[q.root].seq
  BY <1>1, <1>2 DEF RootRow
<1>4. catalogue' = Forgetting(Retired(q, replace), [catalogue EXCEPT ![q.root] = row], Unknown)
  BY DEF ApplyNew
<1>. HIDE DEF row
<1>5. catalogue' = [r \in Roots |-> IF r \in Retired(q, replace) THEN Unknown
                                    ELSE IF r = q.root THEN row ELSE catalogue[r]]
  BY <1>1, <1>2, <1>4 DEF Forgetting
<1>. QED  BY <1>3, <1>5

LEMMA NewAssets ==
    ASSUME CatalogInv, NEW q \in Payload \cup PcRequest, NEW replace \in BOOLEAN,
           ApplyNew(q, replace)
    PROVE  asset' = [r \in Roots |->
                       IF r \in Retired(q, replace) THEN [i \in Items |-> NoAsset]
                       ELSE IF r = q.root /\ Changed(q) THEN AssetsAfter(asset[r], q)
                       ELSE asset[r]]
  BY RequestFields DEF CatalogInv, CatalogShapes, ApplyNew, Forgetting

LEMMA UnknownIsRow == Unknown \in RootRow /\ Unknown.snapshot = NoPayload
  BY DEF Unknown, RootRow

LEMMA NoAssetIsRow == NoAsset \in AssetRow /\ NoAsset.deleted
  BY DEF NoAsset, AssetRow

(* The assets are those of the snapshot: one that is new has its items and   *)
(* no others, one that is known changes nothing.                             *)
LEMMA ApplyingMatches ==
    ASSUME CatalogAssumption, CatalogInv, NEW q \in Payload \cup PcRequest,
           NEW replace \in BOOLEAN, ApplyNew(q, replace)
    PROVE  /\ catalogue' \in [Roots -> RootRow]
           /\ asset' \in [Roots -> [Items -> AssetRow]]
           /\ RowsInv' /\ AssetsMatchSnapshot'
<1>1. PICK row \in RootRow :
        /\ row.snapshot = q.snapshot
        /\ row.seq = IF Changed(q) THEN catalogue[q.root].seq + 1 ELSE catalogue[q.root].seq
        /\ catalogue' = [r \in Roots |-> IF r \in Retired(q, replace) THEN Unknown
                                         ELSE IF r = q.root THEN row ELSE catalogue[r]]
  BY NewRows
<1>2. q.root \in Roots /\ q.snapshot \in [Items -> Nat] /\ q.snapshot # NoPayload
  BY RequestFields, CatalogAssumption
<1>3. catalogue \in [Roots -> RootRow] /\ asset \in [Roots -> [Items -> AssetRow]]
  BY DEF CatalogInv, CatalogShapes
<1>4. catalogue' \in [Roots -> RootRow]
  BY <1>1, <1>3, UnknownIsRow
<1>5. RowsInv'
  <2>1. row.seq # 0
    <3>1. catalogue[q.root] \in RootRow /\ catalogue[q.root].seq \in Nat
      BY <1>2, <1>3 DEF RootRow
    <3>2. CASE Changed(q)
      BY <1>1, <3>1, <3>2
    <3>3. CASE ~ Changed(q)
      BY <1>1, <1>2, <3>1, <3>3, UnknownIsRow DEF Changed, CatalogInv, RowsInv
    <3>. QED  BY <3>2, <3>3
  <2>. QED  BY <1>1, <1>2, <2>1, UnknownIsRow DEF CatalogInv, RowsInv
<1>6. ASSUME NEW r \in Roots
      PROVE  /\ AssetsAfter(asset[r], q) \in [Items -> AssetRow]
             /\ \A i \in Items : (IF AssetsAfter(asset[r], q)[i].deleted THEN 0
                                  ELSE AssetsAfter(asset[r], q)[i].revision) = q.snapshot[i]
  <2>1. ASSUME NEW i \in Items
        PROVE  /\ AssetsAfter(asset[r], q)[i] \in AssetRow
               /\ (IF AssetsAfter(asset[r], q)[i].deleted THEN 0
                   ELSE AssetsAfter(asset[r], q)[i].revision) = q.snapshot[i]
    <3>1. asset[r][i] \in AssetRow /\ q.snapshot[i] \in Nat
      BY <1>2, <1>3
    <3>2. CASE q.snapshot[i] # 0
      <4>1. AssetsAfter(asset[r], q)[i] = [revision |-> q.snapshot[i], deleted |-> FALSE]
        BY <3>2 DEF AssetsAfter
      <4>. QED  BY <3>1, <4>1 DEF AssetRow
    <3>3. CASE q.snapshot[i] = 0
      <4>1. AssetsAfter(asset[r], q)[i] = [asset[r][i] EXCEPT !.deleted = TRUE]
        BY <3>3 DEF AssetsAfter
      <4>. QED  BY <3>1, <3>3, <4>1 DEF AssetRow
    <3>. QED  BY <3>2, <3>3
  <2>. QED  BY <2>1 DEF AssetsAfter
<1>7. \A r \in Roots :
        asset'[r] = IF r \in Retired(q, replace) THEN [i \in Items |-> NoAsset]
                    ELSE IF r = q.root /\ Changed(q) THEN AssetsAfter(asset[r], q)
                    ELSE asset[r]
  BY NewAssets
<1>8. asset' \in [Roots -> [Items -> AssetRow]]
  <2>1. \A r \in Roots : asset'[r] \in [Items -> AssetRow]
    BY <1>3, <1>6, <1>7, NoAssetIsRow
  <2>. QED  BY <2>1, NewAssets
<1>9. ASSUME NEW r \in Roots, NEW i \in Items
      PROVE  (IF asset'[r][i].deleted THEN 0 ELSE asset'[r][i].revision)
               = IF catalogue'[r] = Unknown THEN 0 ELSE catalogue'[r].snapshot[i]
  <2>1. CASE r \in Retired(q, replace)
    BY <1>1, <1>7, <2>1, NoAssetIsRow
  <2>2. CASE r \notin Retired(q, replace) /\ r = q.root /\ Changed(q)
    <3>1. catalogue'[r] = row /\ catalogue'[r] # Unknown
      BY <1>1, <1>2, <2>2, UnknownIsRow
    <3>2. asset'[r] = AssetsAfter(asset[r], q)
      BY <1>7, <2>2
    <3>. QED  BY <1>1, <1>6, <3>1, <3>2
  <2>3. CASE r \notin Retired(q, replace) /\ r = q.root /\ ~ Changed(q)
    <3>1. catalogue[r].snapshot = q.snapshot /\ catalogue[r] # Unknown
      BY <1>2, <2>3, UnknownIsRow DEF Changed
    <3>2. catalogue'[r].snapshot = q.snapshot /\ catalogue'[r] # Unknown
      BY <1>1, <1>2, <2>3, UnknownIsRow
    <3>3. asset'[r] = asset[r]
      BY <1>7, <2>3
    <3>4. (IF asset[r][i].deleted THEN 0 ELSE asset[r][i].revision) = q.snapshot[i]
      BY <3>1 DEF CatalogInv, AssetsMatchSnapshot
    <3>. QED  BY <3>2, <3>3, <3>4
  <2>4. CASE r \notin Retired(q, replace) /\ r # q.root
    <3>1. catalogue'[r] = catalogue[r] /\ asset'[r] = asset[r]
      BY <1>1, <1>7, <2>4
    <3>. QED  BY <3>1 DEF CatalogInv, AssetsMatchSnapshot
  <2>. QED  BY <2>1, <2>2, <2>3, <2>4
<1>10. AssetsMatchSnapshot'
  BY <1>9 DEF AssetsMatchSnapshot
<1>. QED  BY <1>4, <1>5, <1>8, <1>10

(* Where the Hub is not asked.                                               *)
LEMMA HubRests ==
    ASSUME CatalogInv, UNCHANGED hubVars
    PROVE  /\ catalogue' \in [Roots -> RootRow]
           /\ asset' \in [Roots -> [Items -> AssetRow]]
           /\ RowsInv' /\ AssetsMatchSnapshot'
  BY DEF CatalogInv, CatalogShapes, hubVars, RowsInv, AssetsMatchSnapshot

(* The phone's root is not one of the PC's.                                  *)
LEMMA PhoneRootAlone ==
    ASSUME CatalogAssumption
    PROVE  PhoneRoot \in Roots /\ \A r \in PcRoots : r \in Roots /\ r # PhoneRoot
  BY DEF CatalogAssumption, Roots

LEMMA OutboxRests ==
    ASSUME KeysInv, flying' \subseteq flying, taken' = taken,
           Boxed' => Boxed /\ outbox' = outbox
    PROVE  KeysInv'
  BY DEF KeysInv, Boxed

LEMMA AppIdleIs == AppIdle.at = "idle"
  BY DEF AppIdle

(* Of the row of a request that is accepted, and of the others.              *)
LEMMA RowAdvances ==
    ASSUME CatalogInv, NEW q \in Payload \cup PcRequest, NEW replace \in BOOLEAN,
           ApplyNew(q, replace)
    PROVE  /\ \A r \in Roots \ {q.root} : r \notin Retired(q, replace) => catalogue'[r] = catalogue[r]
           /\ \A base \in Nat, seen \in Snapshots \cup {NoPayload} :
                Knows(base, seen, catalogue[q.root]) => Knows(base, seen, catalogue'[q.root])
<1>1. PICK row \in RootRow :
        /\ row.snapshot = q.snapshot
        /\ row.seq = IF Changed(q) THEN catalogue[q.root].seq + 1 ELSE catalogue[q.root].seq
        /\ catalogue' = [r \in Roots |-> IF r \in Retired(q, replace) THEN Unknown
                                         ELSE IF r = q.root THEN row ELSE catalogue[r]]
  BY NewRows
<1>2. q.root \in Roots /\ q.root \notin Retired(q, replace)
  BY RequestFields DEF Retired
<1>3. catalogue'[q.root] = row
  BY <1>1, <1>2
<1>4. catalogue[q.root].seq \in Nat
  BY <1>2 DEF CatalogInv, CatalogShapes, RootRow
<1>5. ASSUME NEW base \in Nat, NEW seen \in Snapshots \cup {NoPayload},
             Knows(base, seen, catalogue[q.root])
      PROVE  Knows(base, seen, row)
  <2>1. CASE Changed(q)
    BY <1>1, <1>4, <1>5, <2>1 DEF Knows
  <2>2. CASE ~ Changed(q)
    BY <1>1, <1>4, <1>5, <2>2 DEF Knows, Changed
  <2>. QED  BY <2>1, <2>2
<1>. QED  BY <1>1, <1>3, <1>5

LEMMA SeenRests ==
    ASSUME SeenInv, UNCHANGED hubVars, flying' \subseteq flying, refresh' = refresh
    PROVE  SeenInv'
  BY DEF SeenInv, Informed, hubVars

LEMMA ServingKeeps ==
    ASSUME CatalogAssumption, CatalogInv, NEW q \in flying, ServeSnapshot(q)
    PROVE  CatalogInv'
<1>1. /\ flying' \subseteq flying /\ UNCHANGED <<directory, taken, pcFolder, pcRoot, refresh>>
      /\ q \in Payload /\ q.root = PhoneRoot
  BY RequestFields DEF ServeSnapshot, pcVars, CatalogInv, CatalogShapes
<1>2. Boxed' => Boxed /\ outbox' = outbox
  BY AppIdleIs DEF ServeSnapshot, Acknowledge, Boxed
<1>3. KeysInv'
  BY <1>1, <1>2, OutboxRests DEF CatalogInv
<1>4. CASE UNCHANGED hubVars
  <2>1. SeenInv'
    BY <1>1, <1>4, SeenRests DEF CatalogInv
  <2>. QED  BY <1>1, <1>3, <1>4, <2>1, HubRests DEF CatalogInv, CatalogShapes
<1>5. CASE ApplyNew(q, FALSE)
  <2>1. q \in Payload \cup PcRequest /\ FALSE \in BOOLEAN
    BY <1>1
  <2>2. /\ \A r \in PcRoots : catalogue'[r] = catalogue[r]
        /\ \A base \in Nat, seen \in Snapshots \cup {NoPayload} :
             Knows(base, seen, catalogue[PhoneRoot]) => Knows(base, seen, catalogue'[PhoneRoot])
    BY <1>1, <1>5, <2>1, RowAdvances, PhoneRootAlone DEF Retired
  <2>3. \A p \in flying : Knows(p.base, p.seen, catalogue'[PhoneRoot])
    <3>1. \A p \in flying : p.base \in Nat /\ p.seen \in Snapshots \cup {NoPayload}
      BY RequestFields DEF CatalogInv, CatalogShapes
    <3>. QED  BY <2>2, <3>1 DEF CatalogInv, SeenInv
  <2>4. \A c \in Refreshers : refresh[c] # NoRefresh => Informed(refresh[c], catalogue')
    <3>1. \A c \in Refreshers : refresh[c] # NoRefresh => refresh[c].root \in PcRoots
      BY ReadingFields DEF CatalogInv, CatalogShapes
    <3>. QED  BY <1>1, <2>2, <3>1 DEF CatalogInv, SeenInv, Informed
  <2>5. SeenInv'
    BY <1>1, <2>3, <2>4 DEF SeenInv
  <2>. QED  BY <1>1, <1>3, <1>5, <2>5, ApplyingMatches DEF CatalogInv, CatalogShapes
<1>. QED  BY <1>4, <1>5 DEF ServeSnapshot, ApplyAgain

(* A refresh that another one has overtaken is still informed: the root is   *)
(* not kept, or the other one's snapshot is of this root.                    *)
LEMMA OvertakenInformed ==
    ASSUME CatalogInv, NEW p \in PcRequest, ApplyNew(p, TRUE),
           NEW q \in PcReading \cup PcRequest, Informed(q, catalogue)
    PROVE  /\ Overtaken(q, p) \in PcReading \cup PcRequest
           /\ Informed(Overtaken(q, p), catalogue')
<1>1. q # NoRefresh /\ q.root \in PcRoots /\ q.root \in Roots /\ q.base \in Nat
      /\ q.seen \in Snapshots \cup {NoPayload} /\ q.kept \in BOOLEAN
  BY ReadingFields
<1>2. PICK kept \in BOOLEAN : kept <=> q.kept /\ q.root = p.root
  OBVIOUS
<1>3. Overtaken(q, p) = [q EXCEPT !.kept = kept]
  <2>1. kept = (q.kept /\ q.root = p.root)
    BY <1>1, <1>2
  <2>. QED  BY <1>1, <2>1 DEF Overtaken
<1>. DEFINE next == [q EXCEPT !.kept = kept]
<1>4. /\ next \in PcReading \cup PcRequest /\ next.kept = kept
      /\ next.base = q.base /\ next.seen = q.seen /\ next.root = q.root
  BY DEF PcReading, PcRequest
<1>. HIDE DEF next
<1>5. ASSUME kept
      PROVE  Knows(q.base, q.seen, catalogue'[q.root])
  <2>1. p \in Payload \cup PcRequest /\ TRUE \in BOOLEAN
    OBVIOUS
  <2>2. q.root = p.root /\ Knows(q.base, q.seen, catalogue[p.root])
    BY <1>2, <1>5 DEF Informed
  <2>. QED  BY <1>1, <2>1, <2>2, RowAdvances
<1>6. Informed(next, catalogue')
  <2>1. next.base = 0 => next.seen = NoPayload
    BY <1>4 DEF Informed
  <2>2. next.kept => Knows(next.base, next.seen, catalogue'[next.root])
    BY <1>4, <1>5
  <2>. QED  BY <2>1, <2>2 DEF Informed
<1>. QED  BY <1>3, <1>4, <1>6 DEF next

LEMMA ApplyingPcKeeps ==
    ASSUME CatalogAssumption, CatalogInv, NEW c \in Refreshers, ApplyPc(c)
    PROVE  CatalogInv'
<1>. DEFINE q == refresh[c]
<1>1. UNCHANGED <<directory, taken, outbox, app, flying, pcFolder, pcRoot>>
  BY DEF ApplyPc, phoneVars
<1>2. KeysInv'
  BY <1>1, OutboxRests DEF CatalogInv, Boxed
<1>3. /\ q \in PcRequest /\ q.root \in PcRoots
      /\ refresh \in [Refreshers -> PcReading \cup PcRequest \cup {NoRefresh}]
  BY ReadingFields DEF ApplyPc, CatalogInv, CatalogShapes, NoRefresh
<1>4. CASE UNCHANGED hubVars /\ refresh' = [refresh EXCEPT ![c] = NoRefresh]
  <2>1. SeenInv'
    BY <1>1, <1>3, <1>4 DEF CatalogInv, SeenInv, Informed, hubVars
  <2>. QED  BY <1>1, <1>2, <1>3, <1>4, <2>1, HubRests DEF CatalogInv, CatalogShapes
<1>5. CASE /\ ApplyNew(q, TRUE)
           /\ refresh' = [d \in Refreshers |-> IF d = c THEN NoRefresh
                                               ELSE Overtaken(refresh[d], q)]
  <2>. HIDE DEF q
  <2>1. q \in Payload \cup PcRequest /\ TRUE \in BOOLEAN
    BY <1>3
  <2>2. ASSUME NEW d \in Refreshers
        PROVE  /\ refresh'[d] \in PcReading \cup PcRequest \cup {NoRefresh}
               /\ refresh'[d] # NoRefresh => Informed(refresh'[d], catalogue')
    <3>1. CASE d = c \/ refresh[d] = NoRefresh
      BY <1>5, <3>1 DEF Overtaken
    <3>2. CASE d # c /\ refresh[d] # NoRefresh
      <4>1. PICK p \in PcReading \cup PcRequest : p = refresh[d] /\ Informed(p, catalogue)
        BY <1>3, <3>2 DEF CatalogInv, SeenInv
      <4>2. Overtaken(p, q) \in PcReading \cup PcRequest /\ Informed(Overtaken(p, q), catalogue')
        BY <1>3, <1>5, <4>1, OvertakenInformed
      <4>3. refresh'[d] = Overtaken(p, q)
        BY <1>5, <3>2, <4>1
      <4>. QED  BY <4>2, <4>3 DEF Informed
    <3>. QED  BY <3>1, <3>2
  <2>3. catalogue'[PhoneRoot] = catalogue[PhoneRoot]
    BY <1>3, <1>5, <2>1, RowAdvances, PhoneRootAlone DEF Retired
  <2>4. SeenInv'
    BY <1>1, <2>2, <2>3 DEF CatalogInv, SeenInv, Informed
  <2>5. /\ catalogue' \in [Roots -> RootRow] /\ asset' \in [Roots -> [Items -> AssetRow]]
        /\ RowsInv' /\ AssetsMatchSnapshot'
    BY <1>5, <2>1, ApplyingMatches
  <2>6. refresh' \in [Refreshers -> PcReading \cup PcRequest \cup {NoRefresh}]
    BY <1>5, <2>2
  <2>. QED  BY <1>1, <1>2, <2>4, <2>5, <2>6 DEF CatalogInv, CatalogShapes
<1>. QED  BY <1>4, <1>5 DEF ApplyPc

LEMMA PcStepKeeps ==
    ASSUME CatalogInv, NEW c \in Refreshers,
           NEW next \in PcReading \cup PcRequest \cup {NoRefresh},
           next # NoRefresh => Informed(next, catalogue), PcStep(c, next)
    PROVE  CatalogInv'
<1>1. /\ UNCHANGED hubVars
      /\ UNCHANGED <<directory, taken, outbox, app, flying, pcFolder, pcRoot>>
      /\ refresh' = [refresh EXCEPT ![c] = next]
  BY DEF PcStep, phoneVars
<1>2. KeysInv'
  BY <1>1, OutboxRests DEF CatalogInv, Boxed
<1>3. refresh' \in [Refreshers -> PcReading \cup PcRequest \cup {NoRefresh}]
  BY <1>1 DEF CatalogInv, CatalogShapes
<1>4. \A d \in Refreshers : refresh'[d] # NoRefresh => Informed(refresh'[d], catalogue)
  BY <1>1 DEF CatalogInv, CatalogShapes, SeenInv
<1>5. SeenInv'
  BY <1>1, <1>4 DEF CatalogInv, SeenInv, Informed, hubVars
<1>. QED  BY <1>1, <1>2, <1>3, <1>5, HubRests DEF CatalogInv, CatalogShapes

(* What each step of reading makes of a refresh.                             *)
LEMMA ReadingPcKeeps ==
    ASSUME CatalogAssumption, CatalogInv, NEW c \in Refreshers,
           AskPc(c) \/ ReadPc(c) \/ ScanPc(c) \/ EndPc(c)
    PROVE  CatalogInv'
<1>1. /\ refresh \in [Refreshers -> PcReading \cup PcRequest \cup {NoRefresh}]
      /\ \A r \in Roots : catalogue[r] \in RootRow
      /\ pcFolder \in Snapshots /\ pcRoot \in PcRoots \cup {NoRoot}
      /\ PcRoots \subseteq Roots
  BY DEF CatalogInv, CatalogShapes, Roots
<1>2. CASE AskPc(c)
  <2>. DEFINE next == [at |-> "sequence", root |-> pcRoot, base |-> 0, snapshot |-> NoPayload,
                       taken |-> 0, key |-> NoRoot, seen |-> NoPayload, kept |-> TRUE]
  <2>1. pcRoot \in PcRoots /\ PcStep(c, next)
    BY <1>1, <1>2 DEF AskPc
  <2>2. next \in PcReading
    BY <2>1 DEF PcReading
  <2>3. Informed(next, catalogue)
    <3>1. catalogue[pcRoot] \in RootRow /\ catalogue[pcRoot].seq \in Nat
      BY <1>1, <2>1 DEF RootRow
    <3>2. catalogue[pcRoot].seq = 0 => catalogue[pcRoot].snapshot = NoPayload
      BY <1>1, <2>1, UnknownIsRow DEF CatalogInv, RowsInv
    <3>. QED  BY <3>1, <3>2 DEF Informed, Knows
  <2>. HIDE DEF next
  <2>. QED  BY <2>1, <2>2, <2>3, PcStepKeeps
<1>3. CASE ReadPc(c)
  <2>1. PICK q \in PcReading : q = refresh[c] /\ q.at = "sequence"
    BY <1>1, <1>3 DEF ReadPc, PcRequest, NoRefresh
  <2>2. PICK row \in RootRow : row = catalogue[q.root]
    BY <1>1, <2>1, ReadingFields
  <2>. DEFINE next == [q EXCEPT !.at = "folder", !.base = row.seq, !.seen = row.snapshot,
                                !.kept = TRUE]
  <2>3. PcStep(c, next)
    BY <1>3, <2>1, <2>2 DEF ReadPc
  <2>4. next \in PcReading /\ next.root = q.root /\ next.base = row.seq
        /\ next.seen = row.snapshot /\ next.kept = TRUE
    BY DEF PcReading, RootRow
  <2>. HIDE DEF next
  <2>5. Informed(next, catalogue)
    <3>1. row.seq \in Nat
      BY DEF RootRow
    <3>2. row.seq = 0 => row.snapshot = NoPayload
      BY <2>2, ReadingFields, UnknownIsRow DEF CatalogInv, RowsInv
    <3>. QED  BY <2>2, <2>4, <3>1, <3>2 DEF Informed, Knows
  <2>. QED  BY <2>3, <2>4, <2>5, PcStepKeeps
<1>4. CASE ScanPc(c)
  <2>1. PICK q \in PcReading : q = refresh[c] /\ q.at = "folder" /\ Informed(q, catalogue)
    BY <1>1, <1>4 DEF ScanPc, PcRequest, NoRefresh, PcReading, CatalogInv, SeenInv
  <2>2. pcRoot \in PcRoots
    BY <1>1, <1>4 DEF ScanPc
  <2>3. PICK kept \in BOOLEAN : kept <=> q.kept /\ q.root = pcRoot
    OBVIOUS
  <2>4. kept = (q.kept /\ q.root = pcRoot)
    BY <2>3, ReadingFields
  <2>. DEFINE next == [q EXCEPT !.at = "apply", !.root = pcRoot, !.snapshot = pcFolder,
                                !.kept = kept]
  <2>5. PcStep(c, next)
    BY <1>4, <2>1, <2>4 DEF ScanPc
  <2>6. next \in PcRequest /\ next.root = pcRoot /\ next.base = q.base
        /\ next.seen = q.seen /\ next.kept = kept
    BY <1>1, <2>2 DEF PcReading, PcRequest
  <2>. HIDE DEF next
  <2>7. Informed(next, catalogue)
    BY <2>1, <2>3, <2>6 DEF Informed
  <2>. QED  BY <2>5, <2>6, <2>7, PcStepKeeps
<1>5. CASE EndPc(c)
  BY <1>5, PcStepKeeps DEF EndPc
<1>. QED  BY <1>2, <1>3, <1>4, <1>5

LEMMA StartingSyncKeeps ==
    ASSUME CatalogAssumption, CatalogInv, StartSync
    PROVE  CatalogInv'
<1>1. /\ UNCHANGED hubVars /\ UNCHANGED <<directory, flying, pcFolder, pcRoot, refresh>>
      /\ taken' = taken + 1 /\ taken' \in 0..MaxTaken /\ taken \in Nat
  BY CatalogAssumption DEF StartSync, pcVars, CatalogInv, CatalogShapes
<1>. DEFINE q == [root |-> PhoneRoot, snapshot |-> directory, taken |-> taken + 1,
                  base |-> 0, key |-> <<taken + 1, 1>>, seen |-> NoPayload]
<1>2. q \in Payload /\ q.key[1] = taken + 1
  BY <1>1 DEF CatalogInv, CatalogShapes, Payload
<1>3. outbox' = q
  BY DEF StartSync
<1>. HIDE DEF q
<1>4. \A p \in flying : p.key[1] \in Nat /\ p.key[1] <= taken
  BY RequestFields DEF CatalogInv, CatalogShapes, KeysInv
<1>5. KeysInv'
  BY <1>1, <1>2, <1>3, <1>4 DEF CatalogInv, KeysInv
<1>6. SeenInv'
  BY <1>1, SeenRests DEF CatalogInv
<1>. QED  BY <1>1, <1>5, <1>6, HubRests DEF CatalogInv, CatalogShapes

(* The payload goes out under a key that is new, or with the base it had     *)
(* under that key before.                                                    *)
LEMMA SendingKeeps ==
    ASSUME CatalogAssumption, CatalogInv, SendSnapshot
    PROVE  CatalogInv'
<1>1. /\ UNCHANGED hubVars /\ UNCHANGED <<directory, taken, pcFolder, pcRoot, refresh>>
      /\ outbox \in Payload /\ outbox.key[1] <= taken /\ taken \in Nat
      /\ flying \subseteq Payload
  BY DEF SendSnapshot, pcVars, CatalogInv, CatalogShapes, KeysInv, Boxed
<1>. PICK q : q = Rebased(app.fresh)
  OBVIOUS
<1>2. catalogue[PhoneRoot] \in RootRow
  BY PhoneRootAlone DEF CatalogInv, CatalogShapes
<1>3. /\ q \in Payload /\ q.base = catalogue[PhoneRoot].seq
      /\ q.seen = catalogue[PhoneRoot].snapshot
      /\ q.key[1] = outbox.key[1]
      /\ \/ q.key[2] = outbox.key[2] + 1
         \/ q.key[2] = outbox.key[2] /\ q.base = outbox.base
  <2>1. outbox.key \in Nat \X Nat
    BY <1>1 DEF Payload
  <2>2. PICK n \in Nat, seen \in Snapshots \cup {NoPayload} :
          n = catalogue[PhoneRoot].seq /\ seen = catalogue[PhoneRoot].snapshot
    BY <1>2 DEF RootRow
  <2>3. PICK key \in Nat \X Nat :
          /\ key = IF app.fresh \/ outbox.base # n THEN <<outbox.key[1], outbox.key[2] + 1>>
                   ELSE outbox.key
          /\ key[1] = outbox.key[1]
          /\ \/ key[2] = outbox.key[2] + 1
             \/ key[2] = outbox.key[2] /\ outbox.base = n
    <3>1. CASE app.fresh \/ outbox.base # n
      <4>1. <<outbox.key[1], outbox.key[2] + 1>> \in Nat \X Nat
        BY <2>1
      <4>. QED  BY <3>1, <4>1
    <3>2. CASE ~ (app.fresh \/ outbox.base # n)
      BY <2>1, <3>2
    <3>. QED  BY <3>1, <3>2
  <2>4. q = [outbox EXCEPT !.base = n, !.seen = seen, !.key = key]
    BY <2>2, <2>3 DEF Rebased
  <2>5. q \in Payload /\ q.base = n /\ q.seen = seen /\ q.key = key
    BY <1>1, <2>4 DEF Payload
  <2>. QED  BY <2>2, <2>3, <2>5
<1>4. outbox' = q /\ flying' = flying \cup {q}
  BY DEF SendSnapshot
<1>5. SeenInv'
  <2>1. catalogue[PhoneRoot].seq \in Nat
    BY <1>2 DEF RootRow
  <2>2. Knows(q.base, q.seen, catalogue[PhoneRoot])
    BY <1>3, <2>1 DEF Knows
  <2>. QED  BY <1>1, <1>4, <2>2 DEF CatalogInv, SeenInv, Informed, hubVars
<1>6. ASSUME NEW p \in flying
      PROVE  /\ p.key[1] \in Nat /\ p.key[2] \in Nat /\ p.key[1] <= taken
             /\ p.key[1] = q.key[1] => /\ p.key[2] <= q.key[2]
                                       /\ p.key[2] = q.key[2] => p.base = q.base
  <2>1. p.key \in Nat \X Nat /\ outbox.key \in Nat \X Nat
    BY <1>1, RequestFields
  <2>2. /\ p.key[1] <= taken
        /\ p.key[1] = outbox.key[1] => /\ p.key[2] <= outbox.key[2]
                                       /\ p.key[2] = outbox.key[2] => p.base = outbox.base
    BY DEF CatalogInv, KeysInv, SendSnapshot, Boxed
  <2>. QED  BY <1>3, <2>1, <2>2
<1>7. KeysInv'
  <2>1. q.key[1] \in Nat /\ q.key[2] \in Nat /\ q.key[1] <= taken
    BY <1>1, <1>3, RequestFields
  <2>2. \A p \in flying : p.key = q.key => p.base = q.base
    BY <1>6
  <2>. QED  BY <1>1, <1>3, <1>4, <1>6, <2>1, <2>2 DEF CatalogInv, KeysInv
<1>. QED  BY <1>1, <1>3, <1>4, <1>5, <1>7, HubRests DEF CatalogInv, CatalogShapes

LEMMA WaitingKeeps ==
    ASSUME CatalogAssumption, CatalogInv,
           \/ ChangeDirectory \/ StartRetry \/ AppStops \/ ChangePc
           \/ \E q \in flying : LoseSnapshot(q)
           \/ UNCHANGED catalogVars
    PROVE  CatalogInv'
<1>1. /\ UNCHANGED hubVars /\ UNCHANGED <<taken, outbox, refresh>> /\ flying' \subseteq flying
      /\ directory' \in Snapshots /\ pcFolder' \in Snapshots /\ pcRoot' \in PcRoots \cup {NoRoot}
  BY DEF ChangeDirectory, StartRetry, AppStops, ChangePc, LoseSnapshot, catalogVars, phoneVars,
         pcVars, CatalogInv, CatalogShapes
<1>2. Boxed' => Boxed
  BY AppIdleIs DEF ChangeDirectory, StartRetry, AppStops, ChangePc, LoseSnapshot, catalogVars,
                   phoneVars, Boxed
<1>3. KeysInv'
  BY <1>1, <1>2, OutboxRests DEF CatalogInv
<1>4. SeenInv'
  BY <1>1, SeenRests DEF CatalogInv
<1>. QED  BY <1>1, <1>3, <1>4, HubRests DEF CatalogInv, CatalogShapes

LEMMA CatalogInitial == CatalogAssumption /\ CatalogInit => CatalogInv
<1>. SUFFICES ASSUME CatalogAssumption, CatalogInit PROVE CatalogInv
  OBVIOUS
<1>1. CatalogShapes
  BY CatalogAssumption, UnknownIsRow, NoAssetIsRow DEF CatalogInit, CatalogShapes
<1>2. RowsInv /\ AssetsMatchSnapshot
  BY NoAssetIsRow DEF CatalogInit, RowsInv, AssetsMatchSnapshot
<1>3. SeenInv /\ KeysInv
  BY AppIdleIs DEF CatalogInit, SeenInv, KeysInv, Boxed
<1>. QED  BY <1>1, <1>2, <1>3 DEF CatalogInv

(* The invariant of the catalog and of those who fill it is inductive.      *)
THEOREM CatalogInvariant == CatalogSpec => []CatalogInv
<1>1. CatalogInv /\ [CatalogNext]_catalogVars => CatalogInv'
  BY CatalogAssumption, ServingKeeps, ApplyingPcKeeps, ReadingPcKeeps, StartingSyncKeeps,
     SendingKeeps, WaitingKeeps DEF CatalogNext, PhoneNext, PcNext
<1>. QED  BY <1>1, CatalogInitial, CatalogAssumption, PTL DEF CatalogSpec

(* CatalogStore.apply_snapshot: what the Hub shows of a root is the snapshot *)
(* it accepted last, for any items, roots and snapshots.                     *)
THEOREM CatalogShowsSnapshot == CatalogSpec => []AssetsMatchSnapshot
  BY CatalogInvariant, PTL DEF CatalogInv

(* A refresh that is applied had seen what it replaces, unless its sequence  *)
(* was another root's or the root has been retired since.                    *)
LEMMA AppliedHasSeen ==
    ASSUME CatalogAssumption, CatalogInv, CatalogNext, NEW c \in Refreshers, AppliedPc(c),
           Replaces(refresh[c]), refresh[c].kept \/ refresh[c].base = 0
    PROVE  refresh[c].seen = catalogue[refresh[c].root].snapshot
<1>1. PICK q \in PcRequest : q = refresh[c] /\ Informed(q, catalogue)
  BY ReadingFields DEF AppliedPc, CatalogInv, CatalogShapes, SeenInv
<1>2. q.root \in Roots /\ q.base \in Nat /\ catalogue[q.root] \in RootRow
  BY <1>1, RequestFields DEF CatalogInv, CatalogShapes
<1>3. BaseIsCurrent(q)
  <2>1. ~ UNCHANGED hubVars /\ refresh' # refresh
    BY <1>1 DEF hubVars, Replaces, AppliedPc
  <2>2. PICK d \in Refreshers : ApplyPc(d)
    BY <2>1 DEF CatalogNext, PhoneNext, PcNext, ChangeDirectory, StartSync, StartRetry,
       SendSnapshot, AppStops, ServeSnapshot, LoseSnapshot, ChangePc, AskPc, ReadPc, ScanPc, EndPc,
       PcStep, pcVars
  <2>3. ApplyNew(refresh[d], TRUE)
        /\ refresh' = [e \in Refreshers |-> IF e = d THEN NoRefresh
                                            ELSE Overtaken(refresh[e], refresh[d])]
    BY <2>1, <2>2 DEF ApplyPc
  <2>4. d = c
    <3>1. ASSUME d # c PROVE FALSE
      <4>1. refresh'[c] = [q EXCEPT !.kept = q.kept /\ q.root = refresh[d].root]
        BY <1>1, <2>3, <3>1 DEF Overtaken, AppliedPc
      <4>2. refresh'[c].root = q.root
        BY <4>1 DEF PcRequest
      <4>3. refresh'[c].at = "apply"
        BY <4>1 DEF PcRequest
      <4>. QED  BY <4>3 DEF AppliedPc, NoRefresh
    <3>. QED  BY <3>1
  <2>. QED  BY <1>1, <2>3, <2>4 DEF ApplyNew
<1>4. q.base = catalogue[q.root].seq
  BY <1>3 DEF BaseIsCurrent
<1>5. CASE q.base = 0
  BY <1>1, <1>2, <1>4, <1>5, UnknownIsRow DEF Informed, CatalogInv, RowsInv
<1>6. CASE q.kept
  BY <1>1, <1>4, <1>6 DEF Informed, Knows
<1>. QED  BY <1>1, <1>5, <1>6

(* A snapshot of the phone that is accepted had seen what it replaces.       *)
LEMMA ServedHasSeen ==
    ASSUME CatalogAssumption, CatalogInv, CatalogNext, NEW q \in flying,
           Record(q) \in synced' \ synced, Replaces(q)
    PROVE  q.seen = catalogue[q.root].snapshot
<1>1. q \in Payload /\ q.root = PhoneRoot /\ q.base \in Nat
  BY RequestFields DEF CatalogInv, CatalogShapes
<1>2. synced' # synced
  OBVIOUS
<1>3. PICK p \in flying : ServeSnapshot(p)
  <2>1. ASSUME NEW d \in Refreshers, ApplyPc(d)
        PROVE  synced' = synced
    BY <2>1 DEF ApplyPc, ApplyNew, hubVars
  <2>. QED  BY <1>2, <2>1 DEF CatalogNext, PhoneNext, PcNext, ChangeDirectory, StartSync,
       StartRetry, SendSnapshot, AppStops, LoseSnapshot, ChangePc, AskPc, ReadPc, ScanPc, EndPc,
       PcStep, hubVars
<1>4. ApplyNew(p, FALSE)
  BY <1>2, <1>3 DEF ServeSnapshot, ApplyAgain, hubVars
<1>5. Record(q) = Record(p) /\ p.base = catalogue[p.root].seq
  BY <1>4 DEF ApplyNew, BaseIsCurrent
<1>6. p.key = q.key /\ p.root = q.root
  BY <1>5 DEF Record
<1>7. q.base = catalogue[PhoneRoot].seq
  BY <1>1, <1>3, <1>5, <1>6 DEF CatalogInv, KeysInv
<1>. QED  BY <1>1, <1>7 DEF CatalogInv, SeenInv, Knows

(* CatalogStore.apply_snapshot against CatalogSyncClient and overlapping     *)
(* refreshes of the PC: no accepted snapshot replaces one its sender has not *)
(* seen, but for a refresh whose root has changed or been retired meanwhile. *)
THEOREM NothingUnseenReplaced == CatalogSpec => OverwritesOnlySeen
<1>1. CatalogInv /\ [CatalogNext]_catalogVars =>
        [/\ \A q \in flying :
              Record(q) \in synced' \ synced /\ Replaces(q)
                => q.seen = catalogue[q.root].snapshot
         /\ \A c \in Refreshers :
              AppliedPc(c) /\ Replaces(refresh[c]) /\ (refresh[c].kept \/ refresh[c].base = 0)
                => refresh[c].seen = catalogue[refresh[c].root].snapshot]_catalogVars
  BY CatalogAssumption, AppliedHasSeen, ServedHasSeen
<1>. QED  BY <1>1, CatalogInvariant, PTL DEF CatalogSpec, OverwritesOnlySeen

------------------------------------------------------------------------------
(* AndroidOcr. *)

Batch == [revisions : [Images -> 1..MaxImageRevision], key : 1..MaxBatches,
          consent : 1..MaxConsent]

Page == [at : {"idle", "forget", "forgotten"}] \cup [at : {"recognized", "wait"}, batch : Batch]

OcrShapes ==
    /\ image \in [Images -> 1..MaxImageRevision]
    /\ consent \in 0..MaxConsent /\ consents \in 0..MaxConsent /\ batches \in 0..MaxBatches
    /\ ocrOutbox \in Batch \cup {NoBatch}
    /\ ocrApp \in Page
    /\ uploads \subseteq Batch /\ checked \subseteq Batch
    /\ listed \in [Images -> 0..MaxImageRevision]
    /\ projection \in [Images -> SUBSET (1..MaxImageRevision)]
    /\ receipts \subseteq 1..MaxBatches

(* What the phone may send next bears the present consent.                   *)
ConsentInv ==
    /\ ocrOutbox # NoBatch => consent # 0 /\ ocrOutbox.consent = consent
    /\ ocrApp.at = "recognized" => consent # 0 /\ ocrApp.batch.consent = consent

(* What a worker has checked, the catalog has listed.                        *)
ListedInv ==
    /\ \A i \in Images : listed[i] # 0 => <<i, listed[i]>> \in everListed
    /\ \A q \in checked, i \in Images : <<i, q.revisions[i]>> \in everListed

OneText == \A i \in Images : \E r \in 1..MaxImageRevision : projection[i] \subseteq {r}

OcrInv == OcrShapes /\ ConsentInv /\ ListedInv /\ OneText /\ TextsFollowCatalog

LEMMA AtMostOne ==
    ASSUME NEW S, NEW r, S \subseteq {r}
    PROVE  Cardinality(S) <= 1
<1>1. S = {} \/ S = {r}
  OBVIOUS
<1>2. Cardinality({}) = 0
  BY FS_EmptySet
<1>3. Cardinality({r}) = 1
  BY FS_Singleton
<1>. QED  BY <1>1, <1>2, <1>3

LEMMA PageIdleIs == PageIdle.at = "idle" /\ PageIdle \in Page
  BY DEF PageIdle, Page

LEMMA PageBatch ==
    ASSUME ocrApp \in Page, ocrApp.at \in {"recognized", "wait"}
    PROVE  ocrApp.batch \in Batch
  BY DEF Page

LEMMA PageWaits ==
    ASSUME NEW b \in Batch
    PROVE  /\ [at |-> "wait", batch |-> b] \in Page
           /\ [at |-> "recognized", batch |-> b] \in Page
           /\ [at |-> "recognized", batch |-> b].at = "recognized"
           /\ [at |-> "recognized", batch |-> b].batch = b
           /\ [at |-> "wait", batch |-> b].at = "wait"
           /\ [at |-> "wait", batch |-> b].batch = b
  BY DEF Page

(* Steps that leave the Hub's texts alone.                                   *)
LEMMA TextsRest ==
    ASSUME OcrInv, UNCHANGED <<projection, receipts>>, everListed \subseteq everListed',
           checked' \subseteq checked,
           \A i \in Images : listed'[i] # 0 => <<i, listed'[i]>> \in everListed'
    PROVE  ListedInv' /\ OneText' /\ TextsFollowCatalog'
  BY DEF OcrInv, ListedInv, OneText, TextsFollowCatalog

LEMMA ListedStays ==
    ASSUME OcrInv, UNCHANGED <<listed, everListed>>
    PROVE  /\ everListed \subseteq everListed'
           /\ \A i \in Images : listed'[i] # 0 => <<i, listed'[i]>> \in everListed'
  BY DEF OcrInv, ListedInv

LEMMA ListedAnew ==
    ASSUME OcrInv, listed' = image, everListed' = everListed \cup {<<i, image[i]>> : i \in Images}
    PROVE  /\ everListed \subseteq everListed'
           /\ \A i \in Images : listed'[i] # 0 => <<i, listed'[i]>> \in everListed'
           /\ listed' \in [Images -> 0..MaxImageRevision]
  BY DEF OcrInv, OcrShapes

LEMMA UploadingKeeps ==
    ASSUME OcrInv, Upload \/ RetryUpload
    PROVE  ConsentInv' /\ ocrOutbox' \in Batch \cup {NoBatch} /\ ocrApp' \in Page
           /\ uploads' \subseteq Batch
<1>1. uploads \subseteq Batch /\ ocrApp \in Page /\ ocrOutbox \in Batch \cup {NoBatch}
  BY DEF OcrInv, OcrShapes
<1>2. CASE Upload
  <2>1. ocrApp.batch \in Batch /\ ocrApp.batch.consent = consent /\ consent # 0
    BY <1>1, <1>2, PageBatch DEF Upload, OcrInv, ConsentInv
  <2>2. [ocrApp EXCEPT !.at = "wait"] \in Page /\ [ocrApp EXCEPT !.at = "wait"].at = "wait"
    BY <1>1, <1>2 DEF Page, Upload
  <2>. QED  BY <1>1, <1>2, <2>1, <2>2, PageIdleIs DEF Upload, OcrInv, ConsentInv
<1>3. CASE RetryUpload
  <2>1. ocrOutbox \in Batch
    BY <1>1, <1>3 DEF RetryUpload
  <2>2. ocrApp' \in Page /\ ocrApp'.at = "wait"
    BY <1>3, <2>1, PageWaits DEF RetryUpload
  <2>. QED  BY <1>1, <1>3, <2>1, <2>2 DEF RetryUpload, OcrInv, ConsentInv
<1>. QED  BY <1>2, <1>3

LEMMA PhoneStepKeeps ==
    ASSUME OcrAssumption, OcrInv,
           \/ \E i \in Images : ChangeImage(i)
           \/ Consent \/ Upload \/ RetryUpload \/ PageStops \/ AskToForget \/ Withdraw
           \/ ForgetDirectory \/ OcrHubRestart \/ \E q \in uploads : LoseUpload(q)
           \/ UNCHANGED ocrVars
    PROVE  OcrInv'
<1>1. UNCHANGED textStore /\ checked' \subseteq checked
  BY DEF ChangeImage, Consent, Upload, RetryUpload, PageStops, AskToForget, Withdraw,
         ForgetDirectory, OcrHubRestart, LoseUpload, ocrVars, network
<1>2. ListedInv' /\ OneText' /\ TextsFollowCatalog'
  BY <1>1, ListedStays, TextsRest DEF textStore
<1>3. [at |-> "forget"] \in Page /\ [at |-> "forget"].at = "forget"
  BY DEF Page
<1>4. /\ ConsentInv'
      /\ ocrOutbox' \in Batch \cup {NoBatch} /\ ocrApp' \in Page /\ uploads' \subseteq Batch
  <2>1. CASE Upload \/ RetryUpload
    BY <2>1, UploadingKeeps
  <2>2. CASE Consent
    <3>1. consent' # 0 /\ ocrOutbox = NoBatch /\ ocrApp.at = "idle"
      BY <2>2, PageIdleIs DEF Consent, OcrInv, OcrShapes, ConsentInv
    <3>. QED  BY <2>2, <3>1 DEF Consent, network, OcrInv, OcrShapes, ConsentInv
  <2>3. CASE \/ \E i \in Images : ChangeImage(i)
             \/ PageStops \/ AskToForget \/ Withdraw
             \/ ForgetDirectory \/ OcrHubRestart \/ \E q \in uploads : LoseUpload(q)
             \/ UNCHANGED ocrVars
    BY <2>3, <1>3, PageIdleIs DEF OcrInv, OcrShapes, ConsentInv, ChangeImage, PageStops,
       AskToForget, Withdraw, ForgetDirectory, OcrHubRestart, LoseUpload, ocrVars, phone, network
  <2>. QED  BY <2>1, <2>2, <2>3
<1>5. /\ image' \in [Images -> 1..MaxImageRevision]
      /\ consent' \in 0..MaxConsent /\ consents' \in 0..MaxConsent /\ batches' = batches
  BY OcrAssumption DEF OcrAssumption, OcrInv, OcrShapes, ChangeImage, Consent, Upload,
     RetryUpload, PageStops, AskToForget, Withdraw, ForgetDirectory, OcrHubRestart, LoseUpload,
     ocrVars, phone
<1>. QED  BY <1>1, <1>2, <1>4, <1>5 DEF OcrInv, OcrShapes, textStore

LEMMA ListingKeeps ==
    ASSUME OcrInv, ListImages
    PROVE  OcrInv'
<1>1. ListedInv' /\ OneText' /\ TextsFollowCatalog' /\ listed' \in [Images -> 0..MaxImageRevision]
  BY ListedAnew, TextsRest DEF ListImages, network
<1>2. ConsentInv'
  BY DEF OcrInv, ConsentInv, ListImages, phone
<1>. QED  BY <1>1, <1>2 DEF OcrInv, OcrShapes, ListImages, phone, network

LEMMA RecognizingKeeps ==
    ASSUME OcrAssumption, OcrInv, Recognize
    PROVE  OcrInv'
<1>1. /\ UNCHANGED <<image, consent, consents, ocrOutbox, uploads, checked, projection, receipts>>
      /\ batches' = batches + 1 /\ batches' \in 1..MaxBatches /\ consent \in 1..MaxConsent
  BY OcrAssumption DEF Recognize, network, OcrInv, OcrShapes
<1>2. /\ listed' \in [Images -> 0..MaxImageRevision]
      /\ ListedInv' /\ OneText' /\ TextsFollowCatalog'
  <2>1. CASE UNCHANGED <<listed, everListed>>
    BY <1>1, <2>1, ListedStays, TextsRest DEF OcrInv, OcrShapes
  <2>2. CASE listed' = image /\ everListed' = everListed \cup {<<i, image[i]>> : i \in Images}
    BY <1>1, <2>2, ListedAnew, TextsRest
  <2>. QED  BY <2>1, <2>2 DEF Recognize
<1>. DEFINE b == [revisions |-> image, key |-> batches + 1, consent |-> consent]
<1>3. b \in Batch /\ b.consent = consent
  BY <1>1 DEF Batch, OcrInv, OcrShapes
<1>4. ocrApp' = [at |-> "recognized", batch |-> b]
  BY DEF Recognize
<1>. HIDE DEF b
<1>5. ocrApp'.at = "recognized" /\ ocrApp'.batch = b /\ ocrApp' \in Page
  BY <1>3, <1>4, PageWaits
<1>6. ConsentInv'
  BY <1>1, <1>3, <1>5 DEF OcrInv, ConsentInv
<1>. QED  BY <1>1, <1>2, <1>3, <1>5, <1>6 DEF OcrInv, OcrShapes

(* The answer to an upload frees the page or leaves it.                      *)
LEMMA AnsweringKeeps ==
    ASSUME OcrInv, NEW q, Answered(q) \/ Refused(q), consent' = consent
    PROVE  /\ ConsentInv'
           /\ ocrOutbox' \in Batch \cup {NoBatch}
           /\ ocrApp' \in Page
  BY PageIdleIs DEF OcrInv, OcrShapes, ConsentInv, Answered, Refused

LEMMA CheckingKeeps ==
    ASSUME OcrInv, NEW q \in uploads, CheckUpload(q)
    PROVE  OcrInv'
<1>1. /\ UNCHANGED <<image, consent, consents, batches, listed, everListed, projection, receipts>>
      /\ uploads' \subseteq uploads /\ q \in Batch
      /\ \/ checked' = checked
         \/ checked' = checked \cup {q} /\ q.revisions = listed
  BY DEF CheckUpload, textStore, MatchesCatalog, OcrInv, OcrShapes
<1>2. /\ ConsentInv'
      /\ ocrOutbox' \in Batch \cup {NoBatch}
      /\ ocrApp' \in Page
  <2>1. CASE UNCHANGED <<ocrApp, ocrOutbox>>
    BY <1>1, <2>1 DEF OcrInv, OcrShapes, ConsentInv
  <2>2. CASE Answered(q) \/ Refused(q)
    BY <1>1, <2>2, AnsweringKeeps
  <2>. QED  BY <2>1, <2>2 DEF CheckUpload
<1>3. q.revisions = listed => \A i \in Images : <<i, q.revisions[i]>> \in everListed
  <2>1. \A i \in Images : q.revisions[i] \in 1..MaxImageRevision
    BY <1>1 DEF Batch
  <2>. QED  BY <2>1 DEF OcrInv, ListedInv
<1>4. ListedInv' /\ OneText' /\ TextsFollowCatalog'
  BY <1>1, <1>3 DEF OcrInv, ListedInv, OneText, TextsFollowCatalog
<1>. QED  BY <1>1, <1>2, <1>4 DEF OcrInv, OcrShapes

LEMMA WritingKeeps ==
    ASSUME OcrInv, NEW q \in checked, WriteUpload(q)
    PROVE  OcrInv'
<1>1. /\ UNCHANGED <<image, consent, consents, batches, uploads, listed, everListed>>
      /\ checked' \subseteq checked /\ q \in Batch /\ q.key \in 1..MaxBatches
  BY DEF WriteUpload, OcrInv, OcrShapes, Batch
<1>2. /\ ConsentInv'
      /\ ocrOutbox' \in Batch \cup {NoBatch}
      /\ ocrApp' \in Page
  BY <1>1, AnsweringKeeps DEF WriteUpload
<1>3. ListedInv'
  BY <1>1 DEF OcrInv, ListedInv
<1>4. CASE UNCHANGED <<projection, receipts>>
  <2>1. OneText' /\ TextsFollowCatalog'
    BY <1>1, <1>4 DEF OcrInv, OneText, TextsFollowCatalog
  <2>. QED  BY <1>1, <1>2, <1>3, <1>4, <2>1 DEF OcrInv, OcrShapes
<1>5. CASE projection' = ReplaceTexts(q) /\ receipts' = receipts \cup {q.key}
  <2>1. \A i \in Images : q.revisions[i] \in 1..MaxImageRevision
    BY <1>1 DEF Batch
  <2>2. \A i \in Images : projection'[i] = {q.revisions[i]}
    BY <1>5 DEF ReplaceTexts
  <2>3. projection' \in [Images -> SUBSET (1..MaxImageRevision)]
    BY <1>5, <2>1 DEF ReplaceTexts
  <2>4. OneText'
    BY <2>1, <2>2 DEF OneText
  <2>5. \A i \in Images : <<i, q.revisions[i]>> \in everListed
    BY DEF OcrInv, ListedInv
  <2>6. TextsFollowCatalog'
    BY <1>1, <2>2, <2>5, AtMostOne DEF TextsFollowCatalog
  <2>. QED  BY <1>1, <1>2, <1>3, <1>5, <2>3, <2>4, <2>6 DEF OcrInv, OcrShapes
<1>. QED  BY <1>4, <1>5 DEF WriteUpload

LEMMA NoTexts ==
    ASSUME OcrAssumption, projection' = [i \in Images |-> {}]
    PROVE  /\ projection' \in [Images -> SUBSET (1..MaxImageRevision)]
           /\ OneText' /\ TextsFollowCatalog'
<1>1. projection' \in [Images -> SUBSET (1..MaxImageRevision)]
  OBVIOUS
<1>2. 1 \in 1..MaxImageRevision
  BY OcrAssumption DEF OcrAssumption
<1>3. OneText'
  BY <1>2 DEF OneText
<1>4. TextsFollowCatalog'
  BY AtMostOne DEF TextsFollowCatalog
<1>. QED  BY <1>1, <1>3, <1>4

LEMMA ForgettingKeeps ==
    ASSUME OcrAssumption, OcrInv, ForgetTexts \/ ExpireTexts
    PROVE  OcrInv'
<1>1. /\ UNCHANGED <<image, consent, consents, batches, ocrOutbox, uploads, checked, listed,
                     everListed>>
      /\ projection' = [i \in Images |-> {}] /\ receipts' \subseteq receipts
      /\ ocrApp' = ocrApp \/ (ocrApp'.at = "forgotten" /\ ocrApp' \in Page)
  BY DEF ForgetTexts, ExpireTexts, phone, network, Page
<1>2. ConsentInv' /\ ListedInv'
  BY <1>1 DEF OcrInv, ConsentInv, ListedInv
<1>. QED  BY <1>1, <1>2, NoTexts DEF OcrInv, OcrShapes

LEMMA OcrInitial == OcrAssumption /\ OcrInit => OcrInv
<1>. SUFFICES ASSUME OcrAssumption, OcrInit PROVE OcrInv
  OBVIOUS
<1>1. OcrShapes
  BY OcrAssumption, PageIdleIs DEF OcrInit, OcrShapes
<1>2. ConsentInv /\ ListedInv
  BY PageIdleIs DEF OcrInit, ConsentInv, ListedInv
<1>3. OneText
  BY OcrAssumption DEF OcrInit, OneText, OcrAssumption
<1>4. TextsFollowCatalog
  BY AtMostOne DEF OcrInit, TextsFollowCatalog
<1>. QED  BY <1>1, <1>2, <1>3, <1>4 DEF OcrInv

(* The invariant of the recognized texts, the consent and the outbox.       *)
THEOREM OcrInvariant == OcrSpec => []OcrInv
<1>1. OcrInv /\ [OcrNext]_ocrVars => OcrInv'
  BY OcrAssumption, PhoneStepKeeps, ListingKeeps, RecognizingKeeps, CheckingKeeps, WritingKeeps,
     ForgettingKeeps DEF OcrNext
<1>. QED  BY <1>1, OcrInitial, OcrAssumption, PTL DEF OcrSpec

(* AndroidOcrStore: whatever is late or repeated, an image has one text at   *)
(* most, of a revision that the catalog has listed.                          *)
THEOREM TextsAreOfListedRevisions == OcrSpec => []TextsFollowCatalog
  BY OcrInvariant, PTL DEF OcrInv

(* Type correctness of AndroidOcrSyncClient and AndroidOcrStore.            *)
THEOREM OcrTypes == OcrSpec => []OcrTypeOK
<1>1. OcrInv => OcrTypeOK
  BY DEF OcrInv, OcrShapes, OcrTypeOK
<1>. QED  BY <1>1, OcrInvariant, PTL

(* AndroidOcrSyncClient: no upload leaves the phone that was recognized under*)
(* a consent that has been taken back since.                                 *)
THEOREM OnlyPresentConsent == OcrSpec => OldConsentNotSent
<1>1. OcrInv /\ [OcrNext]_ocrVars =>
        [\A q \in uploads' \ uploads : q.consent = consent]_ocrVars
  BY DEF OcrInv, ConsentInv, OcrNext, ListImages, Consent, Recognize, Upload, RetryUpload,
     PageStops, AskToForget, Withdraw, ForgetDirectory, ForgetTexts, ExpireTexts, OcrHubRestart,
     ChangeImage, CheckUpload, LoseUpload, WriteUpload, network, ocrVars
<1>. QED  BY <1>1, OcrInvariant, PTL DEF OcrSpec, OldConsentNotSent

------------------------------------------------------------------------------
(* MaterialInsight. *)

Views == [Assets -> Revisions]

Request == [at : {"list", "begin", "agent", "fallback", "read", "check", "save"},
            view : Views, cites : SUBSET Assets, left : SUBSET Assets]

ToolJob == [open : {TRUE}, view : Views, calls : 0..MaxCalls, excerpted : SUBSET Assets,
            tools : SUBSET {"catalog", "content_get_safe_excerpt", "insight_draft_study_pack"},
            last : {"none", "catalog", "content_get_safe_excerpt", "insight_draft_study_pack"},
            draft : SUBSET Assets]

Call == [at : {"bind", "look", "excerpt", "record"},
         name : {"catalog", "content_get_safe_excerpt", "insight_draft_study_pack"},
         assets : SUBSET Assets, job : 0..MaxRequests, view : Views]

Pack == [view : Views, cites : SUBSET Assets]

InsightShapes ==
    /\ {folder, catalog} \subseteq Views /\ optedIn \in BOOLEAN
    /\ texts \in [Assets -> [revision : Revisions, text : Revisions]]
    /\ packs \subseteq Pack /\ results \subseteq Pack
    /\ request \in Request \cup {NoRequest} /\ requests \in 0..MaxRequests
    /\ toolJob \in ToolJob \cup {NoToolJob}
    /\ tool \in [ToolThreads -> Call \cup {NoCall}]

(* Each of these files is listed, and its listed text was given out.         *)
Read(view, assets) ==
    assets \subseteq Files(view) /\ \A a \in assets : <<view, a, view[a]>> \in served

TextsInv == ServedAsListed /\ \A a \in Assets : texts[a].text = texts[a].revision

PacksInv == \A p \in packs \cup results : Read(p.view, p.cites)

RequestInv ==
    request # NoRequest => /\ Read(request.view, request.cites)
                           /\ request.left \subseteq Files(request.view)

(* A job is open only while its request waits for the agent.                 *)
JobInv ==
    toolJob.open => /\ request.at = "agent" /\ toolJob.view = request.view
                    /\ Read(toolJob.view, toolJob.excerpted)

(* A call that has read an excerpt shows it for its own snapshot; a call that*)
(* is as old as the present job is of its snapshot.                          *)
CallInv(t) ==
    t # NoCall =>
      /\ t.job <= requests
      /\ request.at \in {"list", "begin"} => t.job < requests
      /\ toolJob.open /\ t.job = requests => t.view = toolJob.view
      /\ t.at \in {"look", "excerpt"} => t.name = "content_get_safe_excerpt"
      /\ t.name = "content_get_safe_excerpt" =>
           /\ \E a \in Assets : t.assets = {a}
           /\ t.at \in {"look", "excerpt"} => t.assets \subseteq Files(t.view)
           /\ t.at = "record" => Read(t.view, t.assets)

CallsInv == \A c \in ToolThreads : CallInv(tool[c])

InsightInv ==
    InsightShapes /\ TextsInv /\ PacksInv /\ RequestInv /\ JobInv /\ CallsInv


LEMMA IdleShapes ==
    /\ NoRequest.at = "idle" /\ NoRequest \notin Request
    /\ NoToolJob.open = FALSE /\ NoToolJob \notin ToolJob
    /\ NoCall.at = "idle" /\ NoCall \notin Call
<1>1. NoRequest.at = "idle" /\ NoToolJob.open = FALSE /\ NoCall.at = "idle"
  BY DEF NoRequest, NoToolJob, NoCall
<1>2. /\ \A r \in Request : r.at # "idle"
      /\ \A j \in ToolJob : j.open = TRUE
      /\ \A t \in Call : t.at # "idle"
  BY DEF Request, ToolJob, Call
<1>. QED  BY <1>1, <1>2

(* What is known of the shapes, in the form the steps need it.               *)
LEMMA RequestShape ==
    ASSUME InsightInv, request.at # "idle"
    PROVE  /\ request \in Request /\ request.view \in Views
           /\ request.cites \subseteq Assets /\ request.left \subseteq Assets
           /\ Read(request.view, request.cites)
           /\ request.left \subseteq Files(request.view)
<1>1. request \in Request /\ request # NoRequest
  BY IdleShapes DEF InsightInv, InsightShapes
<1>. QED  BY <1>1 DEF InsightInv, RequestInv, Request

LEMMA JobShape ==
    ASSUME InsightInv, toolJob.open
    PROVE  /\ toolJob \in ToolJob /\ toolJob.view \in Views
           /\ toolJob.excerpted \subseteq Assets /\ toolJob.draft \subseteq Assets
           /\ request.at = "agent" /\ toolJob.view = request.view
           /\ Read(toolJob.view, toolJob.excerpted)
<1>1. toolJob \in ToolJob
  BY IdleShapes DEF InsightInv, InsightShapes
<1>. QED  BY <1>1 DEF InsightInv, JobInv, ToolJob

LEMMA CallShape ==
    ASSUME InsightInv, NEW c \in ToolThreads, tool[c].at # "idle"
    PROVE  /\ tool[c] \in Call /\ tool[c] # NoCall /\ tool[c].view \in Views
           /\ tool[c].assets \subseteq Assets /\ tool[c].job \in 0..MaxRequests
           /\ CallInv(tool[c])
<1>1. tool[c] \in Call /\ tool[c] # NoCall
  BY IdleShapes DEF InsightInv, InsightShapes
<1>. QED  BY <1>1 DEF InsightInv, CallsInv, Call

LEMMA ReadStays ==
    ASSUME served \subseteq served'
    PROVE  /\ PacksInv /\ packs' \subseteq packs /\ results' = results => PacksInv'
           /\ RequestInv /\ request' = request => RequestInv'
  BY DEF PacksInv, RequestInv, Read, Files

LEMMA CallStays ==
    ASSUME served \subseteq served', requests' = requests,
           request'.at \in {"list", "begin"} => request.at \in {"list", "begin"},
           toolJob'.open => toolJob.open /\ toolJob'.view = toolJob.view,
           NEW t, CallInv(t)
    PROVE  CallInv(t)'
  BY DEF CallInv, Read, Files

LEMMA CallsStay ==
    ASSUME served \subseteq served', requests' = requests, tool' = tool,
           request'.at \in {"list", "begin"} => request.at \in {"list", "begin"},
           toolJob'.open => toolJob.open /\ toolJob'.view = toolJob.view,
           CallsInv
    PROVE  CallsInv'
<1>1. ASSUME NEW c \in ToolThreads
      PROVE  CallInv(tool[c])'
  <2>1. PICK t : t = tool[c] /\ t = tool'[c]
    OBVIOUS
  <2>2. CallInv(t)
    BY <2>1 DEF CallsInv
  <2>3. CallInv(t)'
    BY <2>2, CallStays
  <2>. QED  BY <2>1, <2>3 DEF CallInv, Read
<1>. QED  BY <1>1 DEF CallsInv

(* A step that neither opens a job nor changes what an open one rests on.    *)
LEMMA AgentRests ==
    ASSUME InsightInv, served \subseteq served', UNCHANGED <<tool, requests>>,
           request'.at \in {"list", "begin"} => request.at \in {"list", "begin"},
           toolJob'.open => toolJob.open /\ toolJob' = toolJob /\ request' = request
    PROVE  JobInv' /\ CallsInv'
<1>1. CallsInv'
  BY CallsStay DEF InsightInv
<1>2. JobInv'
  BY DEF InsightInv, JobInv, Read, Files
<1>. QED  BY <1>1, <1>2

(* The user and the retention take texts away and never change one.          *)
LEMMA WorldStepKeeps ==
    ASSUME InsightAssumption, InsightInv,
           \/ \E a \in Assets : ChangeFile(a) \/ ExpireText(a)
           \/ RefreshCatalog \/ ForgetRoot \/ \E b \in BOOLEAN : SetOptIn(b)
           \/ UNCHANGED insightVars
    PROVE  InsightInv'
<1>1. /\ UNCHANGED <<results, request, requests, toolJob, tool, served>> /\ packs' \subseteq packs
      /\ texts' = texts \/ texts' = [a \in Assets |-> NoText]
         \/ \E a \in Assets : texts' = [texts EXCEPT ![a] = NoText]
  BY DEF ChangeFile, ExpireText, RefreshCatalog, ForgetRoot, SetOptIn, insightVars, user, content,
         agent
<1>2. NoText \in [revision : Revisions, text : Revisions] /\ NoText.text = NoText.revision
  BY InsightAssumption DEF InsightAssumption, NoText, Revisions
<1>3. /\ texts' \in [Assets -> [revision : Revisions, text : Revisions]]
      /\ \A a \in Assets : texts'[a].text = texts'[a].revision
  BY <1>1, <1>2 DEF InsightInv, InsightShapes, TextsInv
<1>4. TextsInv'
  BY <1>1, <1>3 DEF InsightInv, TextsInv, ServedAsListed
<1>5. {folder', catalog'} \subseteq Views /\ optedIn' \in BOOLEAN
  <2>1. folder \in Views /\ catalog \in Views /\ optedIn \in BOOLEAN
    BY DEF InsightInv, InsightShapes
  <2>2. ASSUME NEW a \in Assets, ChangeFile(a)
        PROVE  folder' \in Views
    <3>1. folder[a] + 1 \in Revisions
      BY <2>1, <2>2, InsightAssumption DEF InsightAssumption, ChangeFile, Views, Revisions
    <3>. QED  BY <2>1, <2>2, <3>1 DEF ChangeFile, Views
  <2>3. /\ folder' = folder \/ \E a \in Assets : ChangeFile(a)
        /\ catalog' = catalog \/ catalog' = folder
        /\ optedIn' \in BOOLEAN
    BY <2>1 DEF ChangeFile, ExpireText, RefreshCatalog, ForgetRoot, SetOptIn, insightVars, user
  <2>. QED  BY <2>1, <2>2, <2>3
<1>6. PacksInv' /\ RequestInv' /\ JobInv' /\ CallsInv'
  BY <1>1, ReadStays, AgentRests DEF InsightInv
<1>. QED  BY <1>1, <1>3, <1>4, <1>5, <1>6 DEF InsightInv, InsightShapes

(* A listed text that is given out is the listed one, saved or from the file.*)
LEMMA GivingKeeps ==
    ASSUME InsightInv, NEW v \in Views, NEW a \in Assets, a \in Files(v), Give(v, a),
           IF Cached(a, v[a]) THEN UNCHANGED texts ELSE SaveText(a, v[a], folder[a])
    PROVE  /\ TextsInv' /\ texts' \in [Assets -> [revision : Revisions, text : Revisions]]
           /\ served \subseteq served' /\ <<v, a, v[a]>> \in served'
<1>1. /\ texts \in [Assets -> [revision : Revisions, text : Revisions]]
      /\ folder \in Views /\ v[a] \in Revisions /\ folder[a] \in Revisions
      /\ \A b \in Assets : texts[b].text = texts[b].revision
  BY DEF InsightInv, InsightShapes, TextsInv, Views
<1>2. TextFor(a, v[a]) = v[a]
  BY <1>1 DEF Give, Readable, TextFor, Cached
<1>3. served' = served \cup {<<v, a, v[a]>>}
  BY <1>2 DEF Give
<1>4. ServedAsListed'
  BY <1>3 DEF InsightInv, TextsInv, ServedAsListed
<1>5. CASE Cached(a, v[a])
  BY <1>1, <1>3, <1>4, <1>5 DEF TextsInv
<1>6. CASE ~ Cached(a, v[a])
  <2>1. folder[a] = v[a]
    BY <1>6 DEF Give, Readable
  <2>2. PICK row \in [revision : Revisions, text : Revisions] :
          row = [revision |-> v[a], text |-> folder[a]] /\ row.text = row.revision
    <3>1. [revision |-> v[a], text |-> folder[a]] \in [revision : Revisions, text : Revisions]
      BY <1>1
    <3>. QED  BY <2>1, <3>1
  <2>3. texts' = [texts EXCEPT ![a] = row]
    BY <1>6, <2>2 DEF SaveText
  <2>. QED  BY <1>1, <1>3, <1>4, <2>2, <2>3 DEF TextsInv
<1>. QED  BY <1>5, <1>6

(* Steps of the request that leave texts, packs and the agent alone.         *)
LEMMA RequestRests ==
    ASSUME InsightInv, UNCHANGED <<user, content, agent, served>>, requests' = requests,
           request' \in Request \cup {NoRequest}, RequestInv',
           request.at # "agent",
           request'.at \in {"list", "begin"} => request.at \in {"list", "begin"}
    PROVE  InsightInv'
<1>1. ~ toolJob.open
  BY JobShape
<1>2. JobInv' /\ CallsInv'
  BY <1>1, AgentRests DEF agent
<1>3. PacksInv'
  BY ReadStays DEF InsightInv, content
<1>4. InsightShapes'
  BY DEF InsightInv, InsightShapes, user, content, agent
<1>5. TextsInv'
  BY DEF InsightInv, TextsInv, ServedAsListed, content
<1>. QED  BY <1>2, <1>3, <1>4, <1>5 DEF InsightInv

(* The request goes on to another place.                                     *)
LEMMA RequestMoves ==
    ASSUME InsightInv, request.at # "idle", served' = served,
           NEW at \in {"begin", "agent", "fallback", "read", "check", "save"},
           \/ request' = [request EXCEPT !.at = at]
           \/ request' = [request EXCEPT !.at = at, !.left = Files(request.view)]
           \/ \E cites \in SUBSET Assets :
                /\ Read(request.view, cites)
                /\ request' = [request EXCEPT !.at = at, !.cites = cites]
    PROVE  request' \in Request /\ RequestInv' /\ request'.at = at
<1>1. request \in Request /\ request.view \in Views /\ request.cites \subseteq Assets
      /\ Files(request.view) \subseteq Assets
      /\ Read(request.view, request.cites) /\ request.left \subseteq Files(request.view)
  BY RequestShape DEF Files
<1>2. /\ request' \in Request /\ request'.at = at /\ request'.view = request.view
      /\ Read(request.view, request'.cites) /\ request'.left \subseteq Files(request.view)
  BY <1>1 DEF Request
<1>. QED  BY <1>2 DEF RequestInv, Read, Files

LEMMA RequestEnds ==
    ASSUME request' = NoRequest
    PROVE  request' \in Request \cup {NoRequest} /\ RequestInv' /\ request'.at = "idle"
  BY IdleShapes DEF RequestInv

LEMMA QuietRequestKeeps ==
    ASSUME InsightInv,
           \/ ListAllowed \/ ReuseResult \/ FallbackLooks \/ CheckPack
           \/ \E a \in Assets : FallbackFails(a)
    PROVE  InsightInv'
<1>1. /\ UNCHANGED <<user, content, agent, served>> /\ requests' = requests
      /\ request.at \in {"list", "begin", "fallback", "check", "read"}
  BY DEF ListAllowed, ReuseResult, FallbackLooks, CheckPack, FallbackFails
<1>2. CASE request' = NoRequest
  BY <1>1, <1>2, RequestEnds, RequestRests
<1>3. CASE request' # NoRequest /\ ListAllowed
  <2>1. request' = [request EXCEPT !.at = "begin"] /\ request.at = "list"
    BY <1>3 DEF ListAllowed, ToRequest
  <2>. QED  BY <1>1, <2>1, RequestMoves, RequestRests
<1>4. CASE request' # NoRequest /\ ReuseResult
  <2>1. PICK p \in results :
          /\ p.view = request.view
          /\ request' = [request EXCEPT !.at = "check", !.cites = p.cites]
    BY <1>4 DEF ReuseResult, ToRequest
  <2>2. p.cites \in SUBSET Assets /\ Read(request.view, p.cites)
    BY <2>1 DEF InsightInv, InsightShapes, PacksInv, Pack
  <2>3. request' \in Request /\ RequestInv' /\ request'.at = "check"
    BY <1>1, <2>1, <2>2, RequestMoves
  <2>. QED  BY <1>1, <2>3, RequestRests
<1>5. CASE request' # NoRequest /\ FallbackLooks
  <2>1. request' = [request EXCEPT !.at = "read"] /\ request.at = "fallback"
    BY <1>5 DEF FallbackLooks, ToRequest
  <2>2. request' \in Request /\ RequestInv' /\ request'.at = "read"
    BY <1>1, <2>1, RequestMoves
  <2>. QED  BY <1>1, <2>2, RequestRests
<1>6. CASE request' # NoRequest /\ CheckPack
  <2>1. request' = [request EXCEPT !.at = "save"] /\ request.at = "check"
    BY <1>6 DEF CheckPack, ToRequest
  <2>2. request' \in Request /\ RequestInv' /\ request'.at = "save"
    BY <1>1, <2>1, RequestMoves
  <2>. QED  BY <1>1, <2>2, RequestRests
<1>. QED  BY <1>2, <1>3, <1>4, <1>5, <1>6 DEF FallbackFails, ToRequest

LEMMA StartingRequestKeeps ==
    ASSUME InsightAssumption, InsightInv, StartRequest
    PROVE  InsightInv'
<1>1. /\ UNCHANGED <<user, content, agent, served>>
      /\ request = NoRequest /\ requests' = requests + 1 /\ requests' \in 0..MaxRequests
      /\ requests \in Nat /\ catalog \in Views
  BY InsightAssumption DEF InsightAssumption, StartRequest, InsightInv, InsightShapes
<1>. DEFINE r == [at |-> "list", view |-> catalog, cites |-> {}, left |-> {}]
<1>2. r \in Request /\ r.at = "list" /\ r.cites = {} /\ r.left = {}
  BY <1>1 DEF Request
<1>3. request' = r
  BY DEF StartRequest, ToRequest
<1>. HIDE DEF r
<1>4. RequestInv'
  BY <1>2, <1>3 DEF RequestInv, Read
<1>5. ~ toolJob.open
  BY <1>1, JobShape, IdleShapes
<1>6. JobInv'
  BY <1>1, <1>5 DEF JobInv, agent
<1>7. ASSUME NEW c \in ToolThreads
      PROVE  CallInv(tool[c])'
  <2>1. PICK t : t = tool[c] /\ t = tool'[c]
    BY <1>1 DEF agent
  <2>2. CallInv(t) /\ (t # NoCall => t.job \in 0..MaxRequests)
    BY <2>1, CallShape DEF InsightInv, CallsInv, InsightShapes, Call
  <2>3. CallInv(t)'
    BY <1>1, <1>5, <2>2 DEF CallInv, Read, Files, agent
  <2>. QED  BY <2>1, <2>3 DEF CallInv, Read
<1>8. PacksInv' /\ TextsInv' /\ CallsInv'
  BY <1>1, <1>7, ReadStays DEF InsightInv, TextsInv, ServedAsListed, CallsInv, content
<1>9. InsightShapes'
  BY <1>1, <1>2, <1>3 DEF InsightInv, InsightShapes, user, content, agent
<1>. QED  BY <1>4, <1>6, <1>8, <1>9 DEF InsightInv

LEMMA BeginningJobKeeps ==
    ASSUME InsightAssumption, InsightInv, BeginToolJob
    PROVE  InsightInv'
<1>1. UNCHANGED <<user, content, requests, tool, served>> /\ request.at = "begin"
  BY DEF BeginToolJob
<1>2. CASE UNCHANGED toolJob /\ ToFallback
  <2>1. request' = [request EXCEPT !.at = "fallback", !.left = Files(request.view)]
    BY <1>2 DEF ToFallback, ToRequest
  <2>2. request' \in Request /\ RequestInv' /\ request'.at = "fallback"
    BY <1>1, <2>1, RequestMoves
  <2>. QED  BY <1>1, <1>2, <2>2, RequestRests DEF agent
<1>. DEFINE j == [open |-> TRUE, view |-> request.view, calls |-> 0,
                  excerpted |-> {}, tools |-> {}, last |-> "none", draft |-> {}]
<1>3. CASE request' = [request EXCEPT !.at = "agent"] /\ toolJob' = j
  <2>1. request' \in Request /\ RequestInv' /\ request'.at = "agent"
    BY <1>1, <1>3, RequestMoves
  <2>2. request \in Request /\ request.view \in Views
    BY <1>1, RequestShape
  <2>3. request'.view = request.view
    BY <1>3, <2>2 DEF Request
  <2>4. j \in ToolJob /\ j.view = request.view /\ j.excerpted = {}
    BY <2>2, InsightAssumption DEF InsightAssumption, ToolJob
  <2>5. toolJob' = j
    BY <1>3
  <2>. HIDE DEF j
  <2>6. JobInv'
    BY <2>1, <2>3, <2>4, <2>5 DEF JobInv, Read
  <2>7. ASSUME NEW c \in ToolThreads
        PROVE  CallInv(tool[c])'
    <3>1. PICK t : t = tool[c] /\ t = tool'[c]
      BY <1>1
    <3>2. CallInv(t) /\ t \in Call \cup {NoCall} /\ requests \in Nat
      <4>1. CallsInv /\ InsightShapes
        BY DEF InsightInv
      <4>2. CallInv(t)
        BY <3>1, <4>1 DEF CallsInv
      <4>3. t \in Call \cup {NoCall} /\ requests \in Nat
        <5>1. t \in Call \cup {NoCall}
          BY <3>1, <4>1 DEF InsightShapes
        <5>2. requests \in Nat
          BY <4>1, InsightAssumption DEF InsightAssumption, InsightShapes
        <5>. QED  BY <5>1, <5>2
      <4>. QED  BY <4>2, <4>3
    <3>3. t # NoCall => t.job \in Nat
      BY <3>2, InsightAssumption DEF InsightAssumption, Call
    <3>4. CallInv(t)'
      BY <1>1, <2>1, <3>2, <3>3 DEF CallInv, Read, Files
    <3>. QED  BY <3>1, <3>4 DEF CallInv, Read
  <2>8. PacksInv' /\ TextsInv' /\ CallsInv'
    BY <1>1, <2>7, ReadStays DEF InsightInv, TextsInv, ServedAsListed, CallsInv, content
  <2>9. InsightShapes'
    BY <1>1, <2>1, <2>4, <2>5 DEF InsightInv, InsightShapes, user, content
  <2>. QED  BY <2>1, <2>6, <2>8, <2>9 DEF InsightInv
<1>. QED  BY <1>2, <1>3 DEF BeginToolJob, ToRequest

(* The draft cites excerpts of the job, and the job is of the request.       *)
LEMMA EndingJobKeeps ==
    ASSUME InsightInv, EndToolJob
    PROVE  InsightInv'
<1>1. /\ UNCHANGED <<user, content, requests, tool, served>> /\ request.at = "agent"
      /\ toolJob' = NoToolJob
  BY DEF EndToolJob
<1>2. request' \in Request /\ RequestInv' /\ request'.at \in {"check", "fallback"}
  <2>1. CASE request' = [request EXCEPT !.at = "fallback", !.left = Files(request.view)]
    BY <1>1, <2>1, RequestMoves
  <2>2. CASE /\ toolJob.open /\ ProperJob(toolJob)
             /\ request' = [request EXCEPT !.at = "check", !.cites = toolJob.draft]
    <3>1. toolJob.draft \in SUBSET Assets /\ Read(request.view, toolJob.draft)
      BY <2>2, JobShape DEF ProperJob, Read
    <3>2. \E cites \in SUBSET Assets :
            /\ Read(request.view, cites)
            /\ request' = [request EXCEPT !.at = "check", !.cites = cites]
      BY <2>2, <3>1
    <3>. QED  BY <1>1, <3>2, RequestMoves
  <2>. QED  BY <2>1, <2>2 DEF EndToolJob, ToFallback, ToRequest
<1>3. JobInv' /\ CallsInv'
  BY <1>1, <1>2, IdleShapes, AgentRests
<1>4. PacksInv' /\ TextsInv'
  BY <1>1, ReadStays DEF InsightInv, TextsInv, ServedAsListed, content
<1>5. InsightShapes'
  BY <1>1, <1>2 DEF InsightInv, InsightShapes, user, content
<1>. QED  BY <1>2, <1>3, <1>4, <1>5 DEF InsightInv

LEMMA FallbackReadingKeeps ==
    ASSUME InsightInv, NEW a \in Assets, FallbackReads(a)
    PROVE  InsightInv'
<1>1. /\ UNCHANGED <<user, packs, results, requests, agent>>
      /\ request.at = "read" /\ a \in request.left /\ Give(request.view, a)
      /\ IF Cached(a, request.view[a]) THEN UNCHANGED texts
         ELSE SaveText(a, request.view[a], folder[a])
  BY DEF FallbackReads
<1>2. PICK v \in Views : v = request.view
  BY <1>1, RequestShape
<1>3. /\ request \in Request /\ request.cites \subseteq Assets /\ request.left \subseteq Assets
      /\ Read(v, request.cites) /\ request.left \subseteq Files(v)
  BY <1>1, <1>2, RequestShape
<1>4. /\ TextsInv' /\ texts' \in [Assets -> [revision : Revisions, text : Revisions]]
      /\ served \subseteq served' /\ <<v, a, v[a]>> \in served'
  BY <1>1, <1>2, <1>3, GivingKeeps
<1>5. PICK at \in {"check", "read"} :
        request' = [request EXCEPT !.left = @ \ {a}, !.cites = @ \cup {a}, !.at = at]
  BY DEF FallbackReads, ToRequest
<1>6. /\ request' \in Request /\ request'.at = at /\ request'.view = v
      /\ request'.cites = request.cites \cup {a} /\ request'.left \subseteq request.left
  BY <1>2, <1>3, <1>5 DEF Request
<1>7. RequestInv'
  BY <1>1, <1>3, <1>4, <1>6 DEF RequestInv, Read, Files
<1>8. ~ toolJob.open
  BY <1>1, JobShape
<1>9. JobInv' /\ CallsInv'
  BY <1>1, <1>4, <1>6, <1>8, AgentRests DEF agent
<1>10. PacksInv'
  BY <1>1, <1>4, ReadStays DEF InsightInv
<1>11. InsightShapes'
  BY <1>1, <1>4, <1>6 DEF InsightInv, InsightShapes, user, agent
<1>. QED  BY <1>4, <1>7, <1>9, <1>10, <1>11 DEF InsightInv

LEMMA SavingPackKeeps ==
    ASSUME InsightInv, SavePack
    PROVE  InsightInv'
<1>1. /\ UNCHANGED <<user, texts, requests, agent, served>>
      /\ request.at = "save" /\ request' = NoRequest
  BY DEF SavePack, ToRequest
<1>. DEFINE p == [view |-> request.view, cites |-> request.cites]
<1>2. p \in Pack /\ Read(p.view, p.cites)
  BY <1>1, RequestShape DEF Pack
<1>3. packs' \subseteq packs \cup {p} /\ results' = results \cup {p}
  BY DEF SavePack
<1>. HIDE DEF p
<1>4. PacksInv'
  BY <1>1, <1>2, <1>3 DEF InsightInv, PacksInv, Read
<1>5. ~ toolJob.open
  BY <1>1, JobShape
<1>6. RequestInv' /\ request'.at = "idle" /\ request' \in Request \cup {NoRequest}
  BY <1>1, RequestEnds
<1>7. JobInv' /\ CallsInv'
  BY <1>1, <1>5, <1>6, AgentRests DEF agent
<1>8. TextsInv'
  BY <1>1 DEF InsightInv, TextsInv, ServedAsListed
<1>9. InsightShapes'
  BY <1>1, <1>2, <1>3, <1>6 DEF InsightInv, InsightShapes, user, agent
<1>. QED  BY <1>4, <1>6, <1>7, <1>8, <1>9 DEF InsightInv

(* A tool call that goes on, as long as it keeps its own promises.           *)
LEMMA CallMoves ==
    ASSUME InsightInv, NEW c \in ToolThreads, NEW t, tool' = [tool EXCEPT ![c] = t],
           t \in Call \cup {NoCall}, CallInv(t)',
           UNCHANGED <<user, packs, results, request, requests>>, served \subseteq served',
           TextsInv', texts' \in [Assets -> [revision : Revisions, text : Revisions]],
           toolJob' \in ToolJob \cup {NoToolJob},
           toolJob'.open => /\ toolJob.open /\ toolJob'.view = toolJob.view
                            /\ toolJob'.excerpted \subseteq Files(toolJob.view)
                            /\ \A a \in toolJob'.excerpted :
                                 <<toolJob.view, a, toolJob.view[a]>> \in served'
    PROVE  InsightInv'
<1>1. ASSUME NEW d \in ToolThreads
      PROVE  CallInv(tool[d])'
  <2>1. PICK u : u = tool'[d]
    OBVIOUS
  <2>2. CASE d = c
    <3>1. u = t
      BY <2>1, <2>2 DEF InsightInv, InsightShapes
    <3>. QED  BY <2>1, <3>1 DEF CallInv, Read
  <2>3. CASE d # c
    <3>1. u = tool[d]
      BY <2>1, <2>3 DEF InsightInv, InsightShapes
    <3>2. CallInv(u)
      BY <3>1 DEF InsightInv, CallsInv
    <3>3. CallInv(u)'
      BY <3>2, CallStays
    <3>. QED  BY <2>1, <3>3 DEF CallInv, Read
  <2>. QED  BY <2>2, <2>3
<1>2. CallsInv'
  BY <1>1 DEF CallsInv
<1>3. toolJob'.open => request.at = "agent" /\ toolJob.view = request.view
  BY JobShape
<1>4. JobInv'
  BY <1>3 DEF JobInv, Read, Files
<1>5. PacksInv' /\ RequestInv'
  BY ReadStays DEF InsightInv
<1>6. InsightShapes'
  BY DEF InsightInv, InsightShapes, user
<1>. QED  BY <1>2, <1>4, <1>5, <1>6 DEF InsightInv

LEMMA CallAt ==
    ASSUME NEW t \in Call, NEW at \in {"look", "excerpt", "record"}
    PROVE  /\ [t EXCEPT !.at = at] \in Call
           /\ [t EXCEPT !.at = at].at = at /\ [t EXCEPT !.at = at].name = t.name
           /\ [t EXCEPT !.at = at].assets = t.assets /\ [t EXCEPT !.at = at].job = t.job
           /\ [t EXCEPT !.at = at].view = t.view
  BY DEF Call

LEMMA CallReturns ==
    ASSUME InsightInv, NEW c \in ToolThreads, tool' = [tool EXCEPT ![c] = NoCall],
           UNCHANGED <<user, content, request, requests, served>>,
           toolJob' = toolJob \/ toolJob' = NoToolJob
    PROVE  InsightInv'
<1>1. CallInv(NoCall)'
  BY DEF CallInv
<1>2. TextsInv' /\ UNCHANGED <<packs, results>>
      /\ texts' \in [Assets -> [revision : Revisions, text : Revisions]]
  BY DEF InsightInv, InsightShapes, TextsInv, ServedAsListed, content
<1>3. toolJob' \in ToolJob \cup {NoToolJob}
  BY DEF InsightInv, InsightShapes
<1>4. toolJob'.open => /\ toolJob.open /\ toolJob' = toolJob
                       /\ Read(toolJob.view, toolJob.excerpted)
  BY IdleShapes, JobShape
<1>. HIDE DEF NoCall
<1>. QED  BY <1>1, <1>2, <1>3, <1>4, CallMoves DEF Read

(* A call that goes on with the job as it is.                                *)
LEMMA CallSteps ==
    ASSUME InsightInv, NEW c \in ToolThreads, NEW t \in Call, tool' = [tool EXCEPT ![c] = t],
           CallInv(t)', UNCHANGED <<user, packs, results, request, requests, toolJob>>,
           served \subseteq served', TextsInv',
           texts' \in [Assets -> [revision : Revisions, text : Revisions]]
    PROVE  InsightInv'
<1>1. toolJob' \in ToolJob \cup {NoToolJob}
  BY DEF InsightInv, InsightShapes
<1>2. toolJob'.open => /\ toolJob.open /\ toolJob' = toolJob
                       /\ Read(toolJob.view, toolJob.excerpted)
  BY JobShape
<1>. QED  BY <1>1, <1>2, CallMoves DEF Read

LEMMA CallingKeeps ==
    ASSUME InsightAssumption, InsightInv, NEW c \in ToolThreads, CallTool(c)
    PROVE  InsightInv'
<1>1. /\ UNCHANGED <<user, content, request, requests, served>>
      /\ toolJob.open /\ toolJob.calls < MaxCalls
      /\ toolJob' = [toolJob EXCEPT !.calls = @ + 1]
  BY DEF CallTool
<1>2. /\ toolJob \in ToolJob /\ toolJob.view \in Views /\ request.at = "agent"
      /\ Read(toolJob.view, toolJob.excerpted)
  BY <1>1, JobShape
<1>3. PICK name \in {"catalog", "content_get_safe_excerpt", "insight_draft_study_pack"},
           assets \in SUBSET Assets :
        /\ name = "content_get_safe_excerpt" => Cardinality(assets) = 1
        /\ tool' = [tool EXCEPT ![c] = [at |-> "bind", name |-> name, assets |-> assets,
                                        job |-> requests, view |-> toolJob.view]]
  BY DEF CallTool, ToCall
<1>4. name = "content_get_safe_excerpt" => \E a \in Assets : assets = {a}
  <2>1. IsFiniteSet(assets)
    BY InsightAssumption, FS_Subset DEF InsightAssumption
  <2>2. Cardinality(assets) = 1 => \E a : assets = {a}
    BY <2>1, FS_Singleton
  <2>. QED  BY <1>3, <2>2
<1>5. requests \in 0..MaxRequests
  BY DEF InsightInv, InsightShapes
<1>6. PICK t \in Call :
        /\ t.at = "bind" /\ t.name = name /\ t.assets = assets /\ t.job = requests
        /\ t.view = toolJob.view /\ tool' = [tool EXCEPT ![c] = t]
  <2>1. [at |-> "bind", name |-> name, assets |-> assets,
         job |-> requests, view |-> toolJob.view] \in Call
    BY <1>2, <1>5 DEF Call
  <2>. QED  BY <1>3, <2>1
<1>7. toolJob' \in ToolJob /\ toolJob'.view = toolJob.view
      /\ toolJob'.excerpted = toolJob.excerpted
  <2>1. toolJob.calls \in 0..MaxCalls /\ MaxCalls \in Nat
    BY <1>2, InsightAssumption DEF InsightAssumption, ToolJob
  <2>2. toolJob.calls + 1 \in 0..MaxCalls
    BY <1>1, <2>1
  <2>. QED  BY <1>1, <1>2, <2>2 DEF ToolJob
<1>8. requests \in Nat
  BY <1>5, InsightAssumption DEF InsightAssumption
<1>9. CallInv(t)'
  BY <1>1, <1>2, <1>4, <1>6, <1>7, <1>8 DEF CallInv
<1>10. TextsInv' /\ UNCHANGED <<packs, results>>
       /\ texts' \in [Assets -> [revision : Revisions, text : Revisions]]
  BY <1>1 DEF InsightInv, InsightShapes, TextsInv, ServedAsListed, content
<1>11. CallInv(t)' /\ t \in Call \cup {NoCall} /\ toolJob' \in ToolJob \cup {NoToolJob}
  BY <1>7, <1>9
<1>12. /\ toolJob'.excerpted \subseteq Files(toolJob.view)
       /\ \A a \in toolJob'.excerpted : <<toolJob.view, a, toolJob.view[a]>> \in served'
  BY <1>1, <1>2, <1>7 DEF Read
<1>. QED  BY <1>1, <1>6, <1>7, <1>10, <1>11, <1>12, CallMoves

LEMMA BindingKeeps ==
    ASSUME InsightInv, NEW c \in ToolThreads, BindCall(c) \/ LookForExcerpt(c)
    PROVE  InsightInv'
<1>1. /\ UNCHANGED <<user, content, request, requests, toolJob, served>>
      /\ tool[c].at \in {"bind", "look"}
  BY DEF BindCall, LookForExcerpt
<1>2. PICK t \in Call : t = tool[c] /\ CallInv(t) /\ t # NoCall
  BY <1>1, CallShape
<1>3. CASE tool' = [tool EXCEPT ![c] = NoCall]
  BY <1>1, <1>3, CallReturns
<1>4. ASSUME NEW at \in {"look", "excerpt", "record"},
             tool' = [tool EXCEPT ![c] = [t EXCEPT !.at = at]],
             IF at = "record" THEN t.name # "content_get_safe_excerpt"
             ELSE t.name = "content_get_safe_excerpt" /\ t.assets \subseteq Files(t.view)
      PROVE  InsightInv'
  <2>1. PICK u \in Call :
          /\ u = [t EXCEPT !.at = at]
          /\ u.at = at /\ u.name = t.name /\ u.assets = t.assets /\ u.job = t.job
          /\ u.view = t.view
    BY CallAt
  <2>2. CallInv(u)
    BY <1>2, <1>4, <2>1 DEF CallInv
  <2>3. CallInv(u)'
    BY <1>1, <2>2, CallStays
  <2>4. TextsInv' /\ UNCHANGED <<packs, results>>
        /\ texts' \in [Assets -> [revision : Revisions, text : Revisions]]
    BY <1>1 DEF InsightInv, InsightShapes, TextsInv, ServedAsListed, content
  <2>5. tool' = [tool EXCEPT ![c] = u]
    BY <1>4, <2>1
  <2>. QED  BY <1>1, <2>3, <2>4, <2>5, CallSteps
<1>5. CASE BindCall(c) /\ tool' # [tool EXCEPT ![c] = NoCall]
  <2>1. Permitted(t)
    BY <1>2, <1>5 DEF BindCall, ToCall
  <2>2. CASE t.name = "content_get_safe_excerpt"
    <3>1. tool' = [tool EXCEPT ![c] = [t EXCEPT !.at = "look"]]
      BY <1>2, <1>5, <2>2 DEF BindCall, ToCall
    <3>. QED  BY <1>4, <2>1, <2>2, <3>1 DEF Permitted
  <2>3. CASE t.name # "content_get_safe_excerpt"
    <3>1. tool' = [tool EXCEPT ![c] = [t EXCEPT !.at = "record"]]
      BY <1>2, <1>5, <2>3 DEF BindCall, ToCall
    <3>. QED  BY <1>4, <2>3, <3>1
  <2>. QED  BY <2>2, <2>3
<1>6. CASE LookForExcerpt(c) /\ tool' # [tool EXCEPT ![c] = NoCall]
  <2>1. tool' = [tool EXCEPT ![c] = [t EXCEPT !.at = "excerpt"]] /\ t.at = "look"
    BY <1>2, <1>6 DEF LookForExcerpt, ToCall
  <2>2. t.name = "content_get_safe_excerpt" /\ t.assets \subseteq Files(t.view)
    BY <1>2, <2>1 DEF CallInv
  <2>. QED  BY <1>4, <2>1, <2>2
<1>. QED  BY <1>3, <1>5, <1>6

(* The one asset of an excerpt call is read, at the listed revision, or the  *)
(* call returns with nothing.                                                *)
LEMMA ExcerptingKeeps ==
    ASSUME InsightInv, NEW c \in ToolThreads, ReadExcerpt(c)
    PROVE  InsightInv'
<1>1. /\ UNCHANGED <<user, packs, results, request, requests, toolJob>>
      /\ tool[c].at = "excerpt"
  BY DEF ReadExcerpt
<1>2. PICK t \in Call : t = tool[c] /\ CallInv(t) /\ t # NoCall
  BY <1>1, CallShape
<1>3. PICK v \in Views : v = t.view
  BY <1>2 DEF Call
<1>4. PICK a \in Assets : t.assets = {a}
  BY <1>1, <1>2 DEF CallInv
<1>5. t.name = "content_get_safe_excerpt" /\ a \in Files(v)
  BY <1>1, <1>2, <1>3, <1>4 DEF CallInv
<1>6. CASE UNCHANGED <<texts, served>> /\ ToCall(c, NoCall)
  BY <1>1, <1>6, CallReturns DEF content, ToCall
<1>7. CASE /\ Give(v, a) /\ ToCall(c, [t EXCEPT !.at = "record"])
           /\ IF Cached(a, v[a]) THEN UNCHANGED texts ELSE SaveText(a, v[a], folder[a])
  <2>1. /\ TextsInv' /\ texts' \in [Assets -> [revision : Revisions, text : Revisions]]
        /\ served \subseteq served' /\ <<v, a, v[a]>> \in served'
    BY <1>5, <1>7, GivingKeeps
  <2>2. PICK u \in Call :
          /\ u = [t EXCEPT !.at = "record"]
          /\ u.at = "record" /\ u.name = t.name /\ u.assets = t.assets /\ u.job = t.job
          /\ u.view = t.view
    BY CallAt
  <2>3. CallInv(t)'
    BY <1>1, <1>2, <2>1, CallStays
  <2>4. Read(v, {a})'
    BY <1>5, <2>1 DEF Read, Files
  <2>5. CallInv(u)'
    BY <1>2, <1>3, <1>4, <2>2, <2>3, <2>4 DEF CallInv, Read, Files
  <2>6. tool' = [tool EXCEPT ![c] = u]
    BY <1>7, <2>2 DEF ToCall
  <2>. QED  BY <1>1, <2>1, <2>5, <2>6, CallSteps
<1>8. PICK b \in t.assets :
        IF Readable(b, v[b])
        THEN /\ Give(v, b) /\ ToCall(c, [t EXCEPT !.at = "record"])
             /\ IF Cached(b, v[b]) THEN UNCHANGED texts ELSE SaveText(b, v[b], folder[b])
        ELSE ToCall(c, NoCall) /\ UNCHANGED <<texts, served>>
  BY <1>2, <1>3 DEF ReadExcerpt
<1>9. b = a
  BY <1>4, <1>8
<1>. QED  BY <1>6, <1>7, <1>8, <1>9

(* What a call shows its own job for is of that job's snapshot.              *)
LEMMA RecordingKeeps ==
    ASSUME InsightInv, NEW c \in ToolThreads, RecordSuccess(c)
    PROVE  InsightInv'
<1>1. /\ UNCHANGED <<user, content, request, requests, served>>
      /\ tool[c].at = "record" /\ tool' = [tool EXCEPT ![c] = NoCall]
  BY DEF RecordSuccess, ToCall
<1>2. PICK t \in Call : t = tool[c] /\ CallInv(t) /\ t # NoCall
  BY <1>1, CallShape
<1>3. CASE toolJob' = toolJob
  BY <1>1, <1>3, CallReturns
<1>4. CASE toolJob' # toolJob
  <2>1. /\ toolJob.open /\ t.job = requests
        /\ toolJob' = [toolJob EXCEPT
             !.tools = @ \cup {t.name}, !.last = t.name,
             !.excerpted = IF t.name = "content_get_safe_excerpt" THEN @ \cup t.assets ELSE @,
             !.draft = IF t.name = "insight_draft_study_pack" THEN t.assets ELSE @]
    BY <1>2, <1>4 DEF RecordSuccess
  <2>2. /\ toolJob \in ToolJob /\ Read(toolJob.view, toolJob.excerpted)
        /\ toolJob.excerpted \subseteq Assets /\ toolJob.draft \subseteq Assets
    BY <2>1, JobShape
  <2>3. /\ t.view = toolJob.view
        /\ t.name = "content_get_safe_excerpt" => Read(t.view, t.assets)
    BY <1>1, <1>2, <2>1 DEF CallInv
  <2>4. PICK excerpted \in SUBSET Assets :
          /\ excerpted = IF t.name = "content_get_safe_excerpt"
                         THEN toolJob.excerpted \cup t.assets ELSE toolJob.excerpted
          /\ Read(toolJob.view, excerpted)
    BY <2>2, <2>3 DEF Read, Call
  <2>5. PICK draft \in SUBSET Assets :
          draft = IF t.name = "insight_draft_study_pack" THEN t.assets ELSE toolJob.draft
    BY <2>2 DEF Call
  <2>6. toolJob' = [toolJob EXCEPT !.tools = @ \cup {t.name}, !.last = t.name,
                                   !.excerpted = excerpted, !.draft = draft]
    BY <2>1, <2>4, <2>5
  <2>7. /\ toolJob' \in ToolJob /\ toolJob'.view = toolJob.view
        /\ toolJob'.excerpted = excerpted
    <3>1. t.name \in {"catalog", "content_get_safe_excerpt", "insight_draft_study_pack"}
      BY DEF Call
    <3>. QED  BY <2>2, <2>6, <3>1 DEF ToolJob
  <2>8. /\ toolJob'.excerpted \subseteq Files(toolJob.view)
        /\ \A a \in toolJob'.excerpted : <<toolJob.view, a, toolJob.view[a]>> \in served'
    BY <1>1, <2>4, <2>7 DEF Read
  <2>9. TextsInv' /\ UNCHANGED <<packs, results>>
        /\ texts' \in [Assets -> [revision : Revisions, text : Revisions]]
    BY <1>1 DEF InsightInv, InsightShapes, TextsInv, ServedAsListed, content
  <2>10. CallInv(NoCall)'
    BY DEF CallInv
  <2>. HIDE DEF NoCall
  <2>11. /\ tool' = [tool EXCEPT ![c] = NoCall] /\ NoCall \in Call \cup {NoCall}
         /\ UNCHANGED <<user, packs, results, request, requests>> /\ served \subseteq served'
    BY <1>1, <2>9
  <2>12. /\ toolJob' \in ToolJob \cup {NoToolJob} /\ toolJob.open
         /\ toolJob'.view = toolJob.view /\ toolJob'.excerpted \subseteq Files(toolJob.view)
    BY <2>1, <2>7, <2>8
  <2>. QED  BY <2>8, <2>9, <2>10, <2>11, <2>12, CallMoves
<1>. QED  BY <1>3, <1>4

LEMMA DroppingKeeps ==
    ASSUME InsightInv, NEW c \in ToolThreads, DropExpired(c)
    PROVE  InsightInv'
  BY CallReturns DEF DropExpired, ToCall

LEMMA InsightInitial == InsightAssumption /\ InsightInit => InsightInv
<1>. SUFFICES ASSUME InsightAssumption, InsightInit PROVE InsightInv
  OBVIOUS
<1>1. NoText \in [revision : Revisions, text : Revisions] /\ NoText.text = NoText.revision
  BY InsightAssumption DEF InsightAssumption, NoText, Revisions
<1>2. folder \in Views
  BY InsightAssumption DEF InsightAssumption, InsightInit, Views, Revisions
<1>3. InsightShapes
  BY <1>1, <1>2, InsightAssumption DEF InsightAssumption, InsightInit, InsightShapes
<1>4. TextsInv /\ PacksInv /\ RequestInv
  BY <1>1 DEF InsightInit, TextsInv, ServedAsListed, PacksInv, RequestInv
<1>5. JobInv /\ CallsInv
  BY IdleShapes DEF InsightInit, JobInv, CallsInv, CallInv
<1>. QED  BY <1>3, <1>4, <1>5 DEF InsightInv

(* The invariant of study packs: what was read is known of the request, its *)
(* job, its tool calls and every pack kept.                                 *)
THEOREM InsightInvariant == InsightSpec => []InsightInv
<1>1. InsightInv /\ [InsightNext]_insightVars => InsightInv'
  BY InsightAssumption, WorldStepKeeps, QuietRequestKeeps, StartingRequestKeeps,
     BeginningJobKeeps, EndingJobKeeps, FallbackReadingKeeps, SavingPackKeeps, CallingKeeps,
     BindingKeeps, ExcerptingKeeps, RecordingKeeps, DroppingKeeps DEF InsightNext
<1>. QED  BY <1>1, InsightInitial, InsightAssumption, PTL DEF InsightSpec

(* ContentInsightCoordinator and ReadonlyToolBridge: whatever is edited,     *)
(* refreshed or withdrawn meanwhile, and however late a tool call comes, a   *)
(* pack cites only files whose listed revision was given out for its own     *)
(* snapshot.                                                                 *)
THEOREM PacksCiteWhatWasRead == InsightSpec => []PackIsRead
<1>1. InsightInv => PackIsRead
  BY DEF InsightInv, TextsInv, PacksInv, Read, PackIsRead
<1>. QED  BY <1>1, InsightInvariant, PTL

(* Type correctness, and no pack cites a file its snapshot does not list.   *)
THEOREM InsightTypes == InsightSpec => []InsightTypeOK
<1>1. InsightInv => InsightTypeOK
  BY DEF InsightInv, InsightShapes, PacksInv, Read, Views, InsightTypeOK
<1>. QED  BY <1>1, InsightInvariant, PTL

------------------------------------------------------------------------------
(* ArtifactExport. *)

FileState == {"missing", "partial", "exact", "changed"}

JournalRow == [state : {"NONE", "PREPARED", "COMPLETED", "UNDOING", "UNDONE"},
               pack : Packs \cup {NoKey}, root : Nat, preview : Nat]

ExportRequest ==
    [client : ExportClients, kind : {"execute", "undo", "status"}, key : Keys \cup {NoKey},
     at : {"start", "prepare", "inspect", "open", "finish", "complete", "delete", "unlink",
           "undone"},
     pack : Packs \cup {NoKey}, root : Nat, edited : BOOLEAN]

Card == [pack : Packs \cup {NoKey}, root : Nat, key : Keys \cup {NoKey},
         token : Keys \cup {NoKey}]

ExportShapes ==
    /\ built \in Packs /\ exportRoot \in Nat /\ rootsDrawn \in Nat
    /\ file \in [Packs -> FileState] /\ touched \subseteq Packs
    /\ journal \in [Keys -> JournalRow] /\ order \in Seq(Keys)
    /\ client \in [ExportClients -> Card]
    /\ pending \subseteq ExportRequest /\ op \in ExportRequest \cup {NoOp}

(* Who asks for an export or an undo names a key, and an export its pack.    *)
Named(q) == /\ q.kind \in {"execute", "undo"} => q.key \in Keys
            /\ q.kind = "execute" => q.pack \in Packs

NamesInv ==
    /\ \A c \in ExportClients : client[c].key # NoKey => client[c].pack \in Packs
    /\ \A q \in pending : Named(q) /\ q.at = "start"
    /\ op # NoOp => Named(op)
    /\ \A k \in Keys : Row(k).state # "NONE" => Row(k).pack \in Packs

TakenBack(p) == \E k \in Keys : Row(k).pack = p /\ Row(k).state \in {"UNDOING", "UNDONE"}

Standing(p) == p \in touched \/ file[p] = "exact" \/ TakenBack(p)

(* What the request that holds the lock has made of its row and its file.    *)
OpInv ==
    /\ op # NoOp /\ op.kind = "execute" /\ op.at = "inspect" => Row(op.key).pack = op.pack
    /\ op # NoOp /\ op.kind = "execute" /\ op.at \in {"open", "finish", "complete"} =>
         /\ Row(op.key).pack = op.pack /\ Row(op.key).state = "PREPARED"
         /\ op.at = "finish" => file[op.pack] = "partial"
         /\ op.at = "complete" => Standing(op.pack)
    /\ op # NoOp /\ op.kind = "undo" /\ op.at \in {"delete", "unlink", "undone"} =>
         /\ Row(op.key).state = "UNDOING"
         /\ op.at = "unlink" /\ ~op.edited => file[Row(op.key).pack] = "exact"
         /\ op.at = "undone" => file[Row(op.key).pack] = "missing"

RowsStand ==
    /\ \A p \in Packs : file[p] \in {"partial", "exact"} =>
         \E k \in Keys : Row(k).pack = p /\ Row(k).state \in {"PREPARED", "COMPLETED", "UNDOING"}
    /\ \A k \in Keys : Row(k).state = "COMPLETED" => Standing(Row(k).pack)

ExportInv == ExportShapes /\ NamesInv /\ OpInv /\ RowsStand

LEMMA NoOpIs == NoOp \notin ExportRequest /\ NoRow \in JournalRow /\ NoRow.state = "NONE"
<1>1. \A q \in ExportRequest : q.kind # "none"
  BY DEF ExportRequest
<1>2. NoOp.kind = "none"
  BY DEF NoOp
<1>3. NoRow \in JournalRow /\ NoRow.state = "NONE"
  BY DEF NoRow, JournalRow
<1>. QED  BY <1>1, <1>2, <1>3

LEMMA OpShape ==
    ASSUME ExportInv, op # NoOp
    PROVE  /\ op \in ExportRequest /\ op.client \in ExportClients /\ op.root \in Nat
           /\ op.edited \in BOOLEAN
           /\ op.kind \in {"execute", "undo"} => op.key \in Keys
           /\ op.kind = "execute" => op.pack \in Packs
<1>1. op \in ExportRequest
  BY DEF ExportInv, ExportShapes
<1>. QED  BY <1>1 DEF ExportInv, NamesInv, Named, ExportRequest

LEMMA RowShape ==
    ASSUME ExportInv, NEW k \in Keys
    PROVE  /\ Row(k) \in JournalRow /\ Row(k).root \in Nat
           /\ Row(k).pack \in Packs \cup {NoKey}
           /\ Row(k).state \in {"NONE", "PREPARED", "COMPLETED", "UNDOING", "UNDONE"}
           /\ Row(k).state # "NONE" => Row(k).pack \in Packs
<1>1. Row(k) \in JournalRow
  BY DEF ExportInv, ExportShapes, Row
<1>. QED  BY <1>1 DEF ExportInv, NamesInv, JournalRow

(* The request goes on to another place.                                     *)
LEMMA OpMoves ==
    ASSUME NEW q \in ExportRequest,
           NEW at \in {"prepare", "inspect", "open", "finish", "complete", "delete", "unlink",
                       "undone"}
    PROVE  /\ [q EXCEPT !.at = at] \in ExportRequest /\ [q EXCEPT !.at = at].at = at
           /\ [q EXCEPT !.at = at].kind = q.kind /\ [q EXCEPT !.at = at].key = q.key
           /\ [q EXCEPT !.at = at].pack = q.pack /\ [q EXCEPT !.at = at].edited = q.edited
  BY DEF ExportRequest

(* The request is over, whatever has become of it.                           *)
LEMMA OpEnds ==
    ASSUME op' = NoOp
    PROVE  OpInv' /\ (op # NoOp => Named(op))' /\ op' \in ExportRequest \cup {NoOp}
  BY DEF OpInv

LEMMA DiskAndRowsRest ==
    ASSUME ExportInv, UNCHANGED <<disk, rows>>
    PROVE  /\ RowsStand' /\ journal' \in [Keys -> JournalRow] /\ order' \in Seq(Keys)
           /\ file' \in [Packs -> FileState] /\ touched' \subseteq Packs
           /\ \A k \in Keys : Row(k)' = Row(k)
           /\ (\A k \in Keys : Row(k).state # "NONE" => Row(k).pack \in Packs)'
  BY DEF ExportInv, ExportShapes, NamesInv, RowsStand, Standing, TakenBack, Row, disk, rows

(* A row changes state: a completed one stands, one that is undone has no    *)
(* file, one that is being undone does not go back.                          *)
LEMMA StateChanges ==
    ASSUME ExportInv, UNCHANGED disk, NEW k \in Keys,
           NEW s \in {"NONE", "PREPARED", "COMPLETED", "UNDOING", "UNDONE"}, SetState(k, s),
           s # "NONE" => Row(k).state # "NONE",
           s \in {"COMPLETED", "UNDOING"} \/ s = Row(k).state \/ file[Row(k).pack] = "missing",
           Row(k).state \in {"UNDOING", "UNDONE"} => s \in {"UNDOING", "UNDONE"},
           s = "COMPLETED" => Standing(Row(k).pack)
    PROVE  /\ RowsStand' /\ journal' \in [Keys -> JournalRow] /\ order' \in Seq(Keys)
           /\ file' \in [Packs -> FileState] /\ touched' \subseteq Packs
           /\ journal'[k].state = s /\ journal'[k].pack = journal[k].pack
           /\ (\A j \in Keys : Row(j).state # "NONE" => Row(j).pack \in Packs)'
<1>1. /\ journal \in [Keys -> JournalRow] /\ order' = order
      /\ journal' = [journal EXCEPT ![k].state = s] /\ UNCHANGED <<file, touched>>
  BY DEF ExportInv, ExportShapes, SetState, disk
<1>2. PICK row \in JournalRow :
        /\ row = [journal[k] EXCEPT !.state = s] /\ row.state = s
        /\ row.pack = journal[k].pack
  BY <1>1 DEF JournalRow
<1>3. journal' = [journal EXCEPT ![k] = row]
  BY <1>1, <1>2
<1>4. /\ journal' \in [Keys -> JournalRow]
      /\ \A j \in Keys : journal'[j] = IF j = k THEN row ELSE journal[j]
  BY <1>1, <1>3
<1>5. \A j \in Keys : /\ journal'[j].pack = journal[j].pack
                      /\ journal'[j].state = IF j = k THEN s ELSE journal[j].state
  BY <1>2, <1>4
<1>6. ASSUME NEW p, TakenBack(p)
      PROVE  TakenBack(p)'
  <2>1. PICK j \in Keys : journal[j].pack = p /\ journal[j].state \in {"UNDOING", "UNDONE"}
    BY <1>6 DEF TakenBack, Row
  <2>2. journal'[j].pack = p /\ journal'[j].state \in {"UNDOING", "UNDONE"}
    BY <1>5, <2>1 DEF Row
  <2>. QED  BY <2>2 DEF TakenBack, Row
<1>7. ASSUME NEW p, Standing(p)
      PROVE  Standing(p)'
  BY <1>1, <1>6, <1>7 DEF Standing
<1>8. ASSUME NEW p \in Packs, file'[p] \in {"partial", "exact"}
      PROVE  \E j \in Keys : /\ journal'[j].pack = p
                             /\ journal'[j].state \in {"PREPARED", "COMPLETED", "UNDOING"}
  <2>1. PICK j \in Keys : /\ journal[j].pack = p
                          /\ journal[j].state \in {"PREPARED", "COMPLETED", "UNDOING"}
    BY <1>1, <1>8 DEF ExportInv, RowsStand, Row
  <2>2. journal'[j].pack = p /\ journal'[j].state \in {"PREPARED", "COMPLETED", "UNDOING"}
    BY <1>1, <1>5, <1>8, <2>1 DEF Row
  <2>. QED  BY <2>2
<1>9. ASSUME NEW j \in Keys, journal'[j].state = "COMPLETED"
      PROVE  Standing(Row(j).pack)'
  <2>1. PICK p : p = journal[j].pack /\ p = journal'[j].pack
    BY <1>5
  <2>2. Standing(p)
    BY <1>5, <1>9, <2>1 DEF ExportInv, RowsStand, Row, Standing, TakenBack
  <2>3. Standing(p)'
    BY <1>7, <2>2
  <2>. QED  BY <2>1, <2>3 DEF Standing, TakenBack, Row
<1>10. RowsStand'
  BY <1>8, <1>9 DEF RowsStand, Row
<1>11. \A j \in Keys : journal'[j].state # "NONE" => journal'[j].pack \in Packs
  BY <1>5 DEF ExportInv, NamesInv, Row
<1>. QED  BY <1>1, <1>4, <1>5, <1>10, <1>11 DEF ExportInv, ExportShapes, Row

LEMMA InspectionTells ==
    ASSUME NEW k \in Keys, Inspection(k) \in {"exact", "missing"}
    PROVE  file[Row(k).pack] = Inspection(k)
  BY DEF Inspection

LEMMA StandingStays ==
    ASSUME UNCHANGED <<journal, touched>>, NEW p, file'[p] = file[p], Standing(p)
    PROVE  Standing(p)'
  BY DEF Standing, TakenBack, Row

(* The user is at the files, never at the one that is open for writing.      *)
LEMMA EditingKeeps ==
    ASSUME ExportInv, NEW p \in Packs, EditFile(p)
    PROVE  ExportInv'
<1>1. /\ UNCHANGED <<catalogAndScope, rows, client, pending>> /\ UNCHANGED journal
      /\ ~ Doing("finish", p) /\ file[p] # "missing" /\ touched' = touched \cup {p}
      /\ op' = IF Doing("unlink", p) THEN [op EXCEPT !.edited = TRUE] ELSE op
  BY DEF EditFile, rows
<1>2. PICK s \in {"missing", "changed"} : file' = [file EXCEPT ![p] = s]
  BY DEF EditFile
<1>3. file \in [Packs -> FileState] /\ journal \in [Keys -> JournalRow]
  BY DEF ExportInv, ExportShapes
<1>4. /\ file' \in [Packs -> FileState] /\ file'[p] = s
      /\ \A q : q # p => file'[q] = file[q]
  BY <1>2, <1>3 DEF FileState
<1>5. ASSUME NEW q \in Packs, Standing(q)
      PROVE  Standing(q)'
  BY <1>1, <1>4, <1>5 DEF Standing, TakenBack, Row
<1>6. RowsStand'
  <2>1. \A q \in Packs : file'[q] \in {"partial", "exact"} => file[q] = file'[q]
    BY <1>4
  <2>2. ASSUME NEW k \in Keys, Row(k)'.state = "COMPLETED"
        PROVE  Standing(Row(k).pack)'
    <3>1. PICK q \in Packs : q = Row(k).pack /\ q = Row(k)'.pack /\ Row(k).state = "COMPLETED"
      BY <1>1, <2>2, RowShape DEF Row
    <3>2. Standing(q)
      BY <3>1 DEF ExportInv, RowsStand, Standing, TakenBack
    <3>3. Standing(q)'
      BY <1>5, <3>2
    <3>. QED  BY <3>1, <3>3 DEF Standing, TakenBack
  <2>3. \A q \in Packs : file'[q] \in {"partial", "exact"} =>
          \E k \in Keys : Row(k)'.pack = q /\ Row(k)'.state \in {"PREPARED", "COMPLETED", "UNDOING"}
    BY <1>1, <2>1 DEF ExportInv, RowsStand, Row
  <2>. QED  BY <2>2, <2>3 DEF RowsStand
<1>7. /\ op' # NoOp <=> op # NoOp
      /\ op' \in ExportRequest \cup {NoOp}
      /\ op # NoOp => /\ op'.kind = op.kind /\ op'.at = op.at /\ op'.key = op.key
                      /\ op'.pack = op.pack
                      /\ op'.edited = (op.edited \/ Doing("unlink", p))
  <2>1. CASE Doing("unlink", p)
    <3>1. op \in ExportRequest
      BY <2>1, OpShape DEF Doing
    <3>2. [op EXCEPT !.edited = TRUE] \in ExportRequest
      BY <3>1 DEF ExportRequest
    <3>. QED  BY <1>1, <2>1, <3>1, <3>2, NoOpIs DEF ExportRequest
  <2>2. CASE ~ Doing("unlink", p)
    <3>1. op \in ExportRequest \cup {NoOp}
      BY DEF ExportInv, ExportShapes
    <3>2. op # NoOp => op.edited \in BOOLEAN
      BY OpShape
    <3>. QED  BY <1>1, <2>2, <3>1, <3>2
  <2>. QED  BY <2>1, <2>2
<1>8. OpInv'
  <2>1. SUFFICES ASSUME op # NoOp PROVE OpInv'
    BY <1>7 DEF OpInv
  <2>2. op.kind = "execute" /\ op.at \in {"open", "finish", "complete"} =>
          /\ Row(op.key)'.pack = op.pack /\ Row(op.key)'.state = "PREPARED"
          /\ op.at = "finish" => file'[op.pack] = "partial"
          /\ op.at = "complete" => Standing(op.pack)'
    <3>1. SUFFICES ASSUME op.kind = "execute", op.at \in {"open", "finish", "complete"}
                   PROVE  /\ Row(op.key)'.pack = op.pack /\ Row(op.key)'.state = "PREPARED"
                          /\ op.at = "finish" => file'[op.pack] = "partial"
                          /\ op.at = "complete" => Standing(op.pack)'
      OBVIOUS
    <3>2. PICK q \in Packs, k \in Keys : q = op.pack /\ k = op.key
      BY <2>1, <3>1, OpShape
    <3>3. /\ Row(k).pack = q /\ Row(k).state = "PREPARED" /\ Row(k)' = Row(k)
          /\ op.at = "finish" => file[q] = "partial" /\ q # p
          /\ op.at = "complete" => Standing(q)
      BY <1>1, <2>1, <3>1, <3>2 DEF ExportInv, OpInv, Doing, Row, Standing, TakenBack
    <3>4. op.at = "complete" => Standing(q)'
      BY <1>5, <3>3
    <3>. QED
      BY <1>1, <1>4, <1>7, <2>1, <3>2, <3>3, <3>4 DEF Row, Standing, TakenBack
  <2>3. op.kind = "undo" /\ op.at \in {"delete", "unlink", "undone"} =>
          /\ Row(op.key)'.state = "UNDOING"
          /\ op.at = "unlink" /\ ~ op'.edited => file'[Row(op.key)'.pack] = "exact"
          /\ op.at = "undone" => file'[Row(op.key)'.pack] = "missing"
    BY <1>1, <1>4, <1>7, <2>1, OpShape DEF ExportInv, OpInv, Doing, Row
  <2>4. op.kind = "execute" /\ op.at = "inspect" => Row(op.key)'.pack = op.pack
    BY <1>1, <2>1, <1>7 DEF ExportInv, OpInv, Row
  <2>. QED  BY <1>7, <2>1, <2>2, <2>3, <2>4 DEF OpInv, Row, Standing, TakenBack
<1>9. NamesInv'
  BY <1>1, <1>7 DEF ExportInv, NamesInv, Named, Row
<1>. QED  BY <1>1, <1>4, <1>6, <1>7, <1>8, <1>9
     DEF ExportInv, ExportShapes, catalogAndScope, rows

LEMMA SurroundingsKeep ==
    ASSUME ExportAssumption, ExportInv,
           \/ StudyAgain \/ ChangeScope
           \/ \E c \in ExportClients : PreparePreview(c) \/ Confirm(c)
           \/ UNCHANGED exportVars
    PROVE  ExportInv'
<1>1. UNCHANGED <<disk, rows, op>>
  BY DEF StudyAgain, ChangeScope, PreparePreview, Confirm, SendRequest, exportVars
<1>2. OpInv'
  BY <1>1 DEF ExportInv, OpInv, Standing, TakenBack, Row, disk, rows
<1>3. built' \in Packs /\ exportRoot' \in Nat /\ rootsDrawn' \in Nat
  <2>1. built \in Packs /\ exportRoot \in Nat /\ rootsDrawn \in Nat
    BY DEF ExportInv, ExportShapes
  <2>2. CASE ChangeScope
    BY <2>1, <2>2 DEF ChangeScope
  <2>3. CASE ~ ChangeScope
    <3>1. /\ exportRoot' = exportRoot /\ rootsDrawn' = rootsDrawn
          /\ built' = built \/ built' \in Packs
      BY <2>3 DEF StudyAgain, PreparePreview, Confirm, SendRequest, exportVars, catalogAndScope
    <3>. QED  BY <2>1, <3>1
  <2>. QED  BY <2>2, <2>3
<1>4. /\ client' \in [ExportClients -> Card]
      /\ \A c \in ExportClients : client'[c].key # NoKey => client'[c].pack \in Packs
  <2>1. CASE client' = client
    BY <2>1 DEF ExportInv, ExportShapes, NamesInv
  <2>2. ASSUME NEW c \in ExportClients, PreparePreview(c)
        PROVE  /\ client' \in [ExportClients -> Card]
               /\ \A d \in ExportClients : client'[d].key # NoKey => client'[d].pack \in Packs
    <3>1. PICK k \in Keys :
            client' = [client EXCEPT ![c].pack = built, ![c].root = exportRoot, ![c].key = k]
      BY <2>2 DEF PreparePreview
    <3>2. client \in [ExportClients -> Card] /\ built \in Packs /\ exportRoot \in Nat
      BY DEF ExportInv, ExportShapes
    <3>3. PICK d \in Card :
            d = [client[c] EXCEPT !.pack = built, !.root = exportRoot, !.key = k]
            /\ d.pack \in Packs
      <4>1. client[c] \in Card
        BY <3>2
      <4>2. [client[c] EXCEPT !.pack = built, !.root = exportRoot, !.key = k] \in Card
        BY <3>2, <4>1 DEF Card
      <4>3. [client[c] EXCEPT !.pack = built, !.root = exportRoot, !.key = k].pack = built
        BY <4>1 DEF Card
      <4>. QED  BY <3>2, <4>2, <4>3
    <3>4. client' = [client EXCEPT ![c] = d]
      BY <3>1, <3>2, <3>3
    <3>. QED  BY <3>2, <3>3, <3>4 DEF ExportInv, NamesInv
  <2>. QED
    BY <2>1, <2>2 DEF StudyAgain, ChangeScope, Confirm, SendRequest, exportVars
<1>5. pending' \subseteq ExportRequest /\ \A q \in pending' : Named(q) /\ q.at = "start"
  <2>1. CASE pending' = pending
    BY <2>1 DEF ExportInv, ExportShapes, NamesInv
  <2>2. ASSUME NEW c \in ExportClients, NEW kind \in {"execute", "undo", "status"},
               NEW key \in Keys \cup {NoKey}, SendRequest(c, kind, key),
               kind \in {"execute", "undo"} => key \in Keys,
               kind = "execute" => client[c].pack \in Packs
        PROVE  pending' \subseteq ExportRequest /\ \A q \in pending' : Named(q) /\ q.at = "start"
    <3>1. client[c] \in Card
      BY DEF ExportInv, ExportShapes
    <3>2. PICK q : q = [client |-> c, kind |-> kind, key |-> key, at |-> "start",
                        pack |-> client[c].pack, root |-> client[c].root, edited |-> FALSE]
      OBVIOUS
    <3>3. q \in ExportRequest /\ Named(q) /\ q.at = "start"
      BY <2>2, <3>1, <3>2 DEF ExportRequest, Card, Named
    <3>4. pending' = pending \cup {q}
      BY <2>2, <3>2 DEF SendRequest
    <3>. QED  BY <3>3, <3>4 DEF ExportInv, ExportShapes, NamesInv
  <2>3. ASSUME NEW c \in ExportClients, Confirm(c)
        PROVE  pending' \subseteq ExportRequest /\ \A q \in pending' : Named(q) /\ q.at = "start"
    <3>1. client[c] \in Card /\ (client[c].key # NoKey => client[c].pack \in Packs)
      BY DEF ExportInv, ExportShapes, NamesInv
    <3>2. client[c].key \in Keys \cup {NoKey} /\ client[c].token \in Keys \cup {NoKey}
      BY <3>1 DEF Card
    <3>3. CASE client[c].key # NoKey /\ SendRequest(c, "execute", client[c].key)
      BY <2>2, <3>1, <3>2, <3>3
    <3>4. CASE client[c].token # NoKey /\ SendRequest(c, "undo", client[c].token)
      BY <2>2, <3>2, <3>4
    <3>5. CASE SendRequest(c, "status", NoKey)
      BY <2>2, <3>5
    <3>. QED  BY <2>3, <3>3, <3>4, <3>5 DEF Confirm
  <2>. QED
    BY <2>1, <2>3 DEF StudyAgain, ChangeScope, PreparePreview, exportVars
<1>6. /\ RowsStand' /\ journal' \in [Keys -> JournalRow] /\ order' \in Seq(Keys)
      /\ file' \in [Packs -> FileState] /\ touched' \subseteq Packs
      /\ (\A k \in Keys : Row(k).state # "NONE" => Row(k).pack \in Packs)'
  BY <1>1, DiskAndRowsRest
<1>7. NamesInv'
  BY <1>1, <1>4, <1>5, <1>6 DEF ExportInv, NamesInv, Named
<1>. QED  BY <1>1, <1>2, <1>3, <1>4, <1>5, <1>6, <1>7 DEF ExportInv, ExportShapes

(* A step of the service that leaves the folder and the journal alone.       *)
LEMMA LookingKeeps ==
    ASSUME ExportInv, UNCHANGED <<disk, rows, client, rootsDrawn, built>>,
           pending' \subseteq pending, exportRoot' \in {exportRoot, 0},
           op' \in ExportRequest \cup {NoOp}, (op # NoOp => Named(op))', OpInv'
    PROVE  ExportInv'
<1>1. /\ RowsStand' /\ journal' \in [Keys -> JournalRow] /\ order' \in Seq(Keys)
      /\ file' \in [Packs -> FileState] /\ touched' \subseteq Packs
      /\ (\A k \in Keys : Row(k).state # "NONE" => Row(k).pack \in Packs)'
  BY DiskAndRowsRest
<1>2. NamesInv'
  BY <1>1 DEF ExportInv, NamesInv
<1>3. ExportShapes'
  BY <1>1 DEF ExportInv, ExportShapes
<1>. QED  BY <1>1, <1>2, <1>3 DEF ExportInv

LEMMA RefusingKeeps ==
    ASSUME ExportInv, Refuse, UNCHANGED catalogAndScope
    PROVE  ExportInv'
<1>1. op' = NoOp /\ UNCHANGED <<disk, rows, client, pending, rootsDrawn, built, exportRoot>>
  BY DEF Refuse, Answer, catalogAndScope
<1>. QED  BY <1>1, OpEnds, LookingKeeps

LEMMA BeginningKeeps ==
    ASSUME ExportInv, NEW q \in pending, Begin(q)
    PROVE  ExportInv'
<1>1. /\ op' = q /\ pending' \subseteq pending
      /\ UNCHANGED <<disk, rows, client, rootsDrawn, built, exportRoot>>
      /\ q \in ExportRequest /\ Named(q) /\ q.at = "start"
  BY DEF Begin, catalogAndScope, ExportInv, ExportShapes, NamesInv
<1>2. OpInv'
  BY <1>1 DEF OpInv
<1>. QED  BY <1>1, <1>2, LookingKeeps DEF Named

LEMMA DyingKeeps ==
    ASSUME ExportInv, Fail \/ ExportRestart
    PROVE  ExportInv'
<1>1. /\ op' = NoOp /\ pending' \subseteq pending /\ exportRoot' \in {exportRoot, 0}
      /\ UNCHANGED <<disk, rows, client, rootsDrawn, built>>
  BY DEF Fail, Refuse, Answer, ExportRestart, catalogAndScope
<1>. QED  BY <1>1, OpEnds, LookingKeeps

(* The request goes on, with the folder and the journal as they are.         *)
LEMMA ContinuingKeeps ==
    ASSUME ExportInv, op # NoOp, UNCHANGED catalogAndScope,
           NEW at \in {"prepare", "inspect", "open", "complete", "delete", "unlink"},
           Continue(at),
           op.kind = "execute" /\ at = "inspect" => Row(op.key).pack = op.pack,
           op.kind = "execute" /\ at \in {"open", "complete"} =>
             Row(op.key).pack = op.pack /\ Row(op.key).state = "PREPARED",
           op.kind = "execute" /\ at = "complete" => Standing(op.pack),
           op.kind = "undo" /\ at \in {"delete", "unlink"} => Row(op.key).state = "UNDOING",
           op.kind = "undo" /\ at = "unlink" => file[Row(op.key).pack] = "exact"
    PROVE  ExportInv'
<1>1. /\ UNCHANGED <<disk, rows, client, pending, rootsDrawn, built, exportRoot>>
      /\ op' = [op EXCEPT !.at = at]
  BY DEF Continue, catalogAndScope
<1>2. op \in ExportRequest /\ Named(op)
  BY OpShape DEF ExportInv, NamesInv
<1>3. /\ op' \in ExportRequest /\ op'.at = at /\ op'.kind = op.kind /\ op'.key = op.key
      /\ op'.pack = op.pack /\ op'.edited = op.edited
  <2>1. PICK q \in ExportRequest : q = op
    BY <1>2
  <2>2. op' = [q EXCEPT !.at = at]
    BY <1>1, <2>1
  <2>3. at \in {"prepare", "inspect", "open", "finish", "complete", "delete", "unlink", "undone"}
    OBVIOUS
  <2>. QED  BY <2>1, <2>2, <2>3 DEF ExportRequest
<1>4. OpInv'
  BY <1>1, <1>3 DEF OpInv, Row, Standing, TakenBack, disk, rows
<1>. QED  BY <1>1, <1>2, <1>3, <1>4, LookingKeeps DEF Named

LEMMA CheckingPreviewKeeps ==
    ASSUME ExportInv, CheckPreview
    PROVE  ExportInv'
<1>1. op # NoOp /\ UNCHANGED catalogAndScope /\ (Continue("prepare") \/ Refuse)
  BY DEF CheckPreview, At
<1>. QED  BY <1>1, RefusingKeeps, ContinuingKeeps

LEMMA PreparingRowKeeps ==
    ASSUME ExportInv, PrepareRow
    PROVE  ExportInv'
<1>1. op # NoOp /\ op.kind = "execute" /\ op.at = "prepare" /\ UNCHANGED catalogAndScope
  BY DEF PrepareRow, At
<1>2. op \in ExportRequest /\ op.key \in Keys /\ op.pack \in Packs /\ op.root \in Nat /\ Named(op)
  BY <1>1, OpShape DEF ExportInv, NamesInv
<1>3. PICK candidate \in JournalRow :
        /\ candidate = [state |-> "PREPARED", pack |-> op.pack, root |-> exportRoot,
                        preview |-> op.root]
        /\ candidate.state = "PREPARED" /\ candidate.pack = op.pack
  <2>1. [state |-> "PREPARED", pack |-> op.pack, root |-> exportRoot, preview |-> op.root]
          \in JournalRow
    BY <1>2 DEF JournalRow, ExportInv, ExportShapes
  <2>. QED  BY <2>1
<1>4. CASE Refuse
  BY <1>1, <1>4, RefusingKeeps
<1>5. CASE [Row(op.key) EXCEPT !.state = "PREPARED"] = candidate /\ Continue("inspect")
  <2>1. Row(op.key) \in JournalRow
    BY <1>2, RowShape
  <2>2. Row(op.key).pack = op.pack
    BY <1>3, <1>5, <2>1 DEF JournalRow
  <2>. QED  BY <1>1, <1>5, <2>2, ContinuingKeeps
<1>6. CASE /\ Row(op.key) = NoRow /\ journal' = [journal EXCEPT ![op.key] = candidate]
           /\ order' = Append(order, op.key) /\ op' = [op EXCEPT !.at = "inspect"]
           /\ UNCHANGED <<disk, client, pending>>
  <2>1. PICK k \in Keys : k = op.key
    BY <1>2
  <2>2. /\ journal \in [Keys -> JournalRow] /\ order \in Seq(Keys)
        /\ file \in [Packs -> FileState] /\ UNCHANGED <<file, touched>>
    BY <1>6 DEF ExportInv, ExportShapes, disk
  <2>3. /\ journal' \in [Keys -> JournalRow] /\ order' \in Seq(Keys)
        /\ journal'[k] = candidate /\ \A j \in Keys : j # k => journal'[j] = journal[j]
    BY <1>6, <2>1, <2>2
  <2>4. journal[k].state = "NONE"
    BY <1>6, <2>1, NoOpIs DEF Row
  <2>5. \A j \in Keys : journal[j].state # "NONE" => journal'[j] = journal[j]
    BY <2>3, <2>4
  <2>6. ASSUME NEW p, Standing(p)
        PROVE  Standing(p)'
    <3>1. CASE TakenBack(p)
      <4>1. PICK j \in Keys : journal[j].pack = p /\ journal[j].state \in {"UNDOING", "UNDONE"}
        BY <3>1 DEF TakenBack, Row
      <4>2. journal'[j].pack = p /\ journal'[j].state \in {"UNDOING", "UNDONE"}
        BY <2>5, <4>1
      <4>. QED  BY <4>2 DEF Standing, TakenBack, Row
    <3>2. CASE ~ TakenBack(p)
      BY <2>2, <2>6, <3>2 DEF Standing
    <3>. QED  BY <3>1, <3>2
  <2>7. RowsStand'
    <3>1. ASSUME NEW p \in Packs, file'[p] \in {"partial", "exact"}
          PROVE  \E j \in Keys : /\ journal'[j].pack = p
                                 /\ journal'[j].state \in {"PREPARED", "COMPLETED", "UNDOING"}
      <4>1. PICK j \in Keys : /\ journal[j].pack = p
                              /\ journal[j].state \in {"PREPARED", "COMPLETED", "UNDOING"}
        BY <2>2, <3>1 DEF ExportInv, RowsStand, Row
      <4>. QED  BY <2>5, <4>1
    <3>2. ASSUME NEW j \in Keys, journal'[j].state = "COMPLETED"
          PROVE  Standing(Row(j).pack)'
      <4>1. PICK p : p = journal[j].pack /\ p = journal'[j].pack /\ j # k
                     /\ journal[j].state = "COMPLETED"
        BY <1>3, <2>3, <3>2
      <4>2. Standing(p)
        BY <4>1 DEF ExportInv, RowsStand, Row
      <4>3. Standing(p)'
        BY <2>6, <4>2
      <4>. QED  BY <4>1, <4>3 DEF Standing, TakenBack, Row
    <3>. QED  BY <3>1, <3>2 DEF RowsStand, Row
  <2>8. /\ op' \in ExportRequest /\ op'.at = "inspect" /\ op'.kind = op.kind /\ op'.key = op.key
        /\ op'.pack = op.pack
    BY <1>2, <1>6, OpMoves
  <2>9. OpInv'
    BY <1>3, <2>1, <2>3, <2>8 DEF OpInv, Row
  <2>10. NamesInv'
    BY <1>2, <1>3, <1>6, <2>3, <2>8 DEF ExportInv, NamesInv, Named, Row
  <2>11. ExportShapes'
    BY <1>1, <1>6, <2>2, <2>3, <2>8 DEF ExportInv, ExportShapes, catalogAndScope
  <2>. QED  BY <2>7, <2>9, <2>10, <2>11 DEF ExportInv
<1>. QED  BY <1>3, <1>4, <1>5, <1>6 DEF PrepareRow

LEMMA InspectingKeeps ==
    ASSUME ExportInv, InspectForExecute
    PROVE  ExportInv'
<1>1. op # NoOp /\ op.kind = "execute" /\ op.at = "inspect" /\ UNCHANGED catalogAndScope
  BY DEF InspectForExecute, At
<1>2. PICK k \in Keys : k = op.key /\ Row(k).pack = op.pack
  BY <1>1, OpShape DEF ExportInv, OpInv
<1>3. CASE Refuse
  BY <1>1, <1>3, RefusingKeeps
<1>4. CASE Continue("open") /\ Row(k).state = "PREPARED"
  BY <1>1, <1>2, <1>4, ContinuingKeeps
<1>5. CASE Continue("complete") /\ Row(k).state = "PREPARED" /\ Inspection(k) = "exact"
  <2>1. Standing(op.pack)
    BY <1>2, <1>5, InspectionTells DEF Standing
  <2>. QED  BY <1>1, <1>2, <1>5, <2>1, ContinuingKeeps
<1>6. Inspection(k) \in {"changed", "missing", "exact"} \/ Refuse
  <2>1. Row(k).state = "PREPARED" => file[Row(k).pack] \in FileState
    BY RowShape DEF ExportInv, ExportShapes
  <2>. QED  BY <1>2, <2>1 DEF InspectForExecute, Inspection, FileState
<1>. QED  BY <1>2, <1>3, <1>4, <1>5, <1>6 DEF InspectForExecute

(* The service changes a file: one it makes has a row, and the file of a     *)
(* completed row goes only with a row that is undone.                        *)
LEMMA FileChanges ==
    ASSUME ExportInv, NEW p \in Packs, NEW s \in FileState, file' = [file EXCEPT ![p] = s],
           UNCHANGED <<touched, rows>>,
           s \in {"partial", "exact"} =>
             \E k \in Keys : Row(k).pack = p /\ Row(k).state \in {"PREPARED", "COMPLETED", "UNDOING"},
           s = "exact" \/ TakenBack(p) \/ p \in touched
             \/ \A k \in Keys : ~ (Row(k).pack = p /\ Row(k).state = "COMPLETED")
    PROVE  /\ RowsStand' /\ journal' \in [Keys -> JournalRow] /\ order' \in Seq(Keys)
           /\ file' \in [Packs -> FileState] /\ touched' \subseteq Packs
           /\ (\A j \in Keys : Row(j).state # "NONE" => Row(j).pack \in Packs)'
<1>1. /\ file' \in [Packs -> FileState] /\ file'[p] = s
      /\ \A q : q # p => file'[q] = file[q]
      /\ UNCHANGED <<journal, order>>
  BY DEF ExportInv, ExportShapes, rows
<1>2. \A q \in Packs : file'[q] \in {"partial", "exact"} =>
        \E k \in Keys : Row(k)'.pack = q /\ Row(k)'.state \in {"PREPARED", "COMPLETED", "UNDOING"}
  BY <1>1 DEF ExportInv, RowsStand, Row
<1>3. ASSUME NEW k \in Keys, Row(k)'.state = "COMPLETED"
      PROVE  Standing(Row(k).pack)'
  <2>1. PICK q \in Packs : q = Row(k).pack /\ q = Row(k)'.pack /\ Row(k).state = "COMPLETED"
    BY <1>1, <1>3, RowShape DEF Row
  <2>2. CASE q = p
    <3>1. s = "exact" \/ TakenBack(p) \/ p \in touched
      BY <2>1, <2>2
    <3>2. Standing(q)'
      BY <1>1, <2>2, <3>1 DEF Standing, TakenBack, Row
    <3>. QED  BY <2>1, <3>2 DEF Standing, TakenBack
  <2>3. CASE q # p
    <3>1. Standing(q)
      BY <2>1 DEF ExportInv, RowsStand, Standing, TakenBack
    <3>2. Standing(q)'
      BY <1>1, <2>3, <3>1, StandingStays
    <3>. QED  BY <2>1, <3>2 DEF Standing, TakenBack
  <2>. QED  BY <2>2, <2>3
<1>4. RowsStand'
  BY <1>2, <1>3 DEF RowsStand
<1>. QED  BY <1>1, <1>4 DEF ExportInv, ExportShapes, NamesInv, Row

(* What is left to say of a step that writes the folder or the journal.      *)
LEMMA WritingExportKeeps ==
    ASSUME ExportInv, UNCHANGED <<catalogAndScope, pending>>,
           RowsStand', journal' \in [Keys -> JournalRow], order' \in Seq(Keys),
           file' \in [Packs -> FileState], touched' \subseteq Packs,
           (\A j \in Keys : Row(j).state # "NONE" => Row(j).pack \in Packs)',
           client' \in [ExportClients -> Card],
           \A c \in ExportClients : client'[c].key # NoKey => client'[c].pack \in Packs,
           op' \in ExportRequest \cup {NoOp}, (op # NoOp => Named(op))', OpInv'
    PROVE  ExportInv'
<1>1. NamesInv'
  BY DEF ExportInv, NamesInv
<1>2. ExportShapes'
  BY DEF ExportInv, ExportShapes, catalogAndScope
<1>. QED  BY <1>1, <1>2 DEF ExportInv

LEMMA ClientsRest ==
    ASSUME ExportInv, UNCHANGED client
    PROVE  /\ client' \in [ExportClients -> Card]
           /\ \A c \in ExportClients : client'[c].key # NoKey => client'[c].pack \in Packs
  BY DEF ExportInv, ExportShapes, NamesInv

LEMMA OpeningKeeps ==
    ASSUME ExportInv, OpenFile
    PROVE  ExportInv'
<1>1. op # NoOp /\ op.kind = "execute" /\ op.at = "open" /\ UNCHANGED catalogAndScope
  BY DEF OpenFile, At
<1>2. PICK k \in Keys, p \in Packs, q \in ExportRequest :
        /\ k = op.key /\ p = op.pack /\ q = op
        /\ Row(k).pack = p /\ Row(k).state = "PREPARED"
  BY <1>1, OpShape DEF ExportInv, OpInv
<1>3. CASE Refuse
  BY <1>1, <1>3, RefusingKeeps
<1>4. CASE /\ file[p] = "missing" /\ file' = [file EXCEPT ![p] = "partial"]
           /\ op' = [op EXCEPT !.at = "finish"] /\ UNCHANGED <<touched, rows, client, pending>>
  <2>1. TakenBack(p) \/ p \in touched
          \/ \A j \in Keys : ~ (Row(j).pack = p /\ Row(j).state = "COMPLETED")
    BY <1>4 DEF ExportInv, RowsStand, Standing, TakenBack
  <2>2. "partial" \in FileState /\ UNCHANGED <<touched, rows>>
    BY <1>4 DEF FileState
  <2>3. /\ RowsStand' /\ journal' \in [Keys -> JournalRow] /\ order' \in Seq(Keys)
        /\ file' \in [Packs -> FileState] /\ touched' \subseteq Packs
        /\ (\A j \in Keys : Row(j).state # "NONE" => Row(j).pack \in Packs)'
    BY <1>2, <1>4, <2>1, <2>2, FileChanges
  <2>4. file'[p] = "partial" /\ UNCHANGED journal
    BY <1>4 DEF ExportInv, ExportShapes, rows
  <2>5. /\ op' \in ExportRequest /\ op'.at = "finish" /\ op'.kind = "execute" /\ op'.key = k
        /\ op'.pack = p
    BY <1>1, <1>2, <1>4 DEF ExportRequest
  <2>6. OpInv' /\ Named(op)'
    BY <1>2, <2>4, <2>5 DEF OpInv, Row, Named
  <2>. QED  BY <1>1, <1>4, <2>3, <2>5, <2>6, ClientsRest, WritingExportKeeps DEF Named
<1>. QED  BY <1>2, <1>3, <1>4 DEF OpenFile

LEMMA FinishingKeeps ==
    ASSUME ExportInv, FinishFile
    PROVE  ExportInv'
<1>1. op # NoOp /\ op.kind = "execute" /\ op.at = "finish"
      /\ UNCHANGED <<catalogAndScope, touched, rows, client, pending>>
  BY DEF FinishFile, At, Answer
<1>2. PICK k \in Keys, p \in Packs, q \in ExportRequest :
        /\ k = op.key /\ p = op.pack /\ q = op
        /\ Row(k).pack = p /\ Row(k).state = "PREPARED" /\ file[p] = "partial"
  BY <1>1, OpShape DEF ExportInv, OpInv
<1>3. CASE file' = file /\ Answer
  BY <1>1, <1>3, RefusingKeeps DEF Refuse, disk
<1>4. CASE file' = [file EXCEPT ![p] = "missing"] /\ Answer
  <2>1. TakenBack(p) \/ p \in touched
          \/ \A j \in Keys : ~ (Row(j).pack = p /\ Row(j).state = "COMPLETED")
    BY <1>2 DEF ExportInv, RowsStand, Standing, TakenBack
  <2>2. "missing" \in FileState /\ UNCHANGED <<touched, rows>>
    BY <1>1 DEF FileState
  <2>3. /\ RowsStand' /\ journal' \in [Keys -> JournalRow] /\ order' \in Seq(Keys)
        /\ file' \in [Packs -> FileState] /\ touched' \subseteq Packs
        /\ (\A j \in Keys : Row(j).state # "NONE" => Row(j).pack \in Packs)'
    BY <1>2, <1>4, <2>1, <2>2, FileChanges
  <2>4. op' = NoOp
    BY <1>4 DEF Answer
  <2>. QED  BY <1>1, <2>3, <2>4, OpEnds, ClientsRest, WritingExportKeeps
<1>5. CASE file' = [file EXCEPT ![p] = "exact"] /\ op' = [op EXCEPT !.at = "complete"]
  <2>1. "exact" \in FileState /\ UNCHANGED <<touched, rows>>
    BY <1>1 DEF FileState
  <2>2. /\ RowsStand' /\ journal' \in [Keys -> JournalRow] /\ order' \in Seq(Keys)
        /\ file' \in [Packs -> FileState] /\ touched' \subseteq Packs
        /\ (\A j \in Keys : Row(j).state # "NONE" => Row(j).pack \in Packs)'
    BY <1>2, <1>5, <2>1, FileChanges
  <2>3. file'[p] = "exact" /\ UNCHANGED journal
    BY <1>1, <1>5 DEF ExportInv, ExportShapes, rows
  <2>4. /\ op' \in ExportRequest /\ op'.at = "complete" /\ op'.kind = "execute" /\ op'.key = k
        /\ op'.pack = p
    BY <1>1, <1>2, <1>5 DEF ExportRequest
  <2>5. OpInv' /\ Named(op)'
    BY <1>2, <2>3, <2>4 DEF OpInv, Row, Named, Standing
  <2>. QED  BY <1>1, <2>2, <2>4, <2>5, ClientsRest, WritingExportKeeps DEF Named
<1>. QED  BY <1>2, <1>3, <1>4, <1>5 DEF FinishFile

(* The request ends with a row in another state.                             *)
LEMMA SettlingKeeps ==
    ASSUME ExportInv, UNCHANGED <<catalogAndScope, disk, client, pending>>, op' = NoOp,
           NEW k \in Keys,
           NEW s \in {"NONE", "PREPARED", "COMPLETED", "UNDOING", "UNDONE"}, SetState(k, s),
           s # "NONE" => Row(k).state # "NONE",
           s \in {"COMPLETED", "UNDOING"} \/ s = Row(k).state \/ file[Row(k).pack] = "missing",
           Row(k).state \in {"UNDOING", "UNDONE"} => s \in {"UNDOING", "UNDONE"},
           s = "COMPLETED" => Standing(Row(k).pack)
    PROVE  ExportInv'
<1>1. /\ RowsStand' /\ journal' \in [Keys -> JournalRow] /\ order' \in Seq(Keys)
      /\ file' \in [Packs -> FileState] /\ touched' \subseteq Packs
      /\ (\A j \in Keys : Row(j).state # "NONE" => Row(j).pack \in Packs)'
  BY StateChanges
<1>. QED  BY <1>1, OpEnds, ClientsRest, WritingExportKeeps

LEMMA CompletingKeeps ==
    ASSUME ExportInv, Complete
    PROVE  ExportInv'
<1>1. /\ op # NoOp /\ op.kind = "execute" /\ op.at = "complete"
      /\ UNCHANGED <<catalogAndScope, disk, client, pending>> /\ op' = NoOp
      /\ SetState(op.key, "COMPLETED")
  BY DEF Complete, At, Answer
<1>2. PICK k \in Keys, p \in Packs :
        k = op.key /\ p = op.pack /\ Row(k).pack = p /\ Row(k).state = "PREPARED" /\ Standing(p)
  BY <1>1, OpShape DEF ExportInv, OpInv, Standing, TakenBack
<1>3. SetState(k, "COMPLETED") /\ Standing(Row(k).pack)
  BY <1>1, <1>2 DEF SetState, Standing, TakenBack
<1>. QED  BY <1>1, <1>2, <1>3, SettlingKeeps

LEMMA UndoneKeeps ==
    ASSUME ExportInv, Undone
    PROVE  ExportInv'
<1>1. /\ op # NoOp /\ op.kind = "undo" /\ op.at = "undone"
      /\ UNCHANGED <<catalogAndScope, disk, client, pending>> /\ op' = NoOp
      /\ SetState(op.key, "UNDONE")
  BY DEF Undone, At, Answer
<1>2. PICK k \in Keys : k = op.key /\ Row(k).state = "UNDOING" /\ file[Row(k).pack] = "missing"
  BY <1>1, OpShape DEF ExportInv, OpInv
<1>. QED  BY <1>1, <1>2, SettlingKeeps

LEMMA DeletingKeeps ==
    ASSUME ExportInv, DeleteFile
    PROVE  ExportInv'
<1>1. op # NoOp /\ op.kind = "undo" /\ op.at = "unlink" /\ UNCHANGED catalogAndScope
  BY DEF DeleteFile, At
<1>2. PICK k \in Keys, p \in Packs, q \in ExportRequest :
        k = op.key /\ q = op /\ Row(k).pack = p /\ Row(k).state = "UNDOING"
  BY <1>1, OpShape, RowShape DEF ExportInv, OpInv
<1>3. CASE Refuse
  BY <1>1, <1>3, RefusingKeeps
<1>4. CASE /\ file' = [file EXCEPT ![p] = "missing"]
           /\ op' = [op EXCEPT !.at = "undone"] /\ UNCHANGED <<touched, rows, client, pending>>
  <2>1. TakenBack(p) /\ "missing" \in FileState /\ UNCHANGED <<touched, rows>>
    BY <1>2, <1>4 DEF TakenBack, FileState
  <2>2. /\ RowsStand' /\ journal' \in [Keys -> JournalRow] /\ order' \in Seq(Keys)
        /\ file' \in [Packs -> FileState] /\ touched' \subseteq Packs
        /\ (\A j \in Keys : Row(j).state # "NONE" => Row(j).pack \in Packs)'
    BY <1>2, <1>4, <2>1, FileChanges
  <2>3. file'[p] = "missing" /\ UNCHANGED journal
    BY <1>4 DEF ExportInv, ExportShapes, rows
  <2>4. /\ op' \in ExportRequest /\ op'.at = "undone" /\ op'.kind = "undo" /\ op'.key = k
    BY <1>1, <1>2, <1>4 DEF ExportRequest
  <2>5. OpInv' /\ Named(op)'
    BY <1>2, <2>3, <2>4 DEF OpInv, Row, Named
  <2>. QED  BY <1>1, <1>4, <2>2, <2>4, <2>5, ClientsRest, WritingExportKeeps DEF Named
<1>. QED  BY <1>2, <1>3, <1>4 DEF DeleteFile, Row

LEMMA LookingAgainKeeps ==
    ASSUME ExportInv, LookAgain
    PROVE  ExportInv'
<1>1. op # NoOp /\ op.kind = "undo" /\ op.at = "delete" /\ UNCHANGED catalogAndScope
  BY DEF LookAgain, At
<1>2. PICK k \in Keys : k = op.key /\ Row(k).state = "UNDOING"
  BY <1>1, OpShape DEF ExportInv, OpInv
<1>3. CASE Refuse
  BY <1>1, <1>3, RefusingKeeps
<1>4. CASE Inspection(k) = "exact" /\ Continue("unlink")
  <2>1. file[Row(k).pack] = "exact"
    BY <1>4, InspectionTells
  <2>. QED  BY <1>1, <1>2, <1>4, <2>1, ContinuingKeeps
<1>. QED  BY <1>2, <1>3, <1>4 DEF LookAgain

LEMMA StartingUndoKeeps ==
    ASSUME ExportInv, InspectForUndo
    PROVE  ExportInv'
<1>1. op # NoOp /\ op.kind = "undo" /\ UNCHANGED catalogAndScope
  BY DEF InspectForUndo, At
<1>2. PICK k \in Keys, q \in ExportRequest : k = op.key /\ q = op
  BY <1>1, OpShape
<1>3. CASE Refuse
  BY <1>1, <1>3, RefusingKeeps
<1>4. CASE /\ Row(k).state = "UNDOING" /\ Inspection(k) = "missing"
           /\ SetState(k, "UNDONE") /\ Answer /\ UNCHANGED disk
  <2>1. file[Row(k).pack] = "missing"
    BY <1>4, InspectionTells
  <2>. QED  BY <1>1, <1>4, <2>1, SettlingKeeps DEF Answer
<1>5. CASE /\ Row(k).state \in {"COMPLETED", "UNDOING"} /\ SetState(k, "UNDOING")
           /\ op' = [op EXCEPT !.at = "delete"] /\ UNCHANGED <<disk, client, pending>>
  <2>1. UNCHANGED disk /\ Row(k).state # "NONE"
    BY <1>5
  <2>2. /\ RowsStand' /\ journal' \in [Keys -> JournalRow] /\ order' \in Seq(Keys)
        /\ file' \in [Packs -> FileState] /\ touched' \subseteq Packs
        /\ journal'[k].state = "UNDOING"
        /\ (\A j \in Keys : Row(j).state # "NONE" => Row(j).pack \in Packs)'
    BY <1>5, <2>1, StateChanges
  <2>3. /\ op' \in ExportRequest /\ op'.at = "delete" /\ op'.kind = "undo" /\ op'.key = k
    BY <1>1, <1>2, <1>5 DEF ExportRequest
  <2>4. OpInv' /\ Named(op)'
    BY <2>2, <2>3 DEF OpInv, Row, Named
  <2>. QED  BY <1>1, <1>5, <2>2, <2>3, <2>4, ClientsRest, WritingExportKeeps DEF Named
<1>. QED  BY <1>2, <1>3, <1>4, <1>5 DEF InspectForUndo

(* What a crash has left is carried on from what the folder shows.           *)
LEMMA StatusKeeps ==
    ASSUME ExportInv, Status
    PROVE  ExportInv'
<1>1. op # NoOp /\ UNCHANGED catalogAndScope /\ op \in ExportRequest /\ op.client \in ExportClients
  BY OpShape DEF Status, At
<1>2. CASE order = <<>>
  BY <1>1, <1>2, RefusingKeeps DEF Status
<1>3. CASE order # <<>>
  <2>1. order \in Seq(Keys)
    BY DEF ExportInv, ExportShapes
  <2>2. PICK k \in Keys : k = order[Len(order)]
    BY <1>3, <2>1
  <2>3. PICK now : now = IF Row(k).state = "PREPARED" /\ Inspection(k) = "exact" THEN "COMPLETED"
                         ELSE IF Row(k).state = "UNDOING" /\ Inspection(k) = "missing" THEN "UNDONE"
                         ELSE Row(k).state
    OBVIOUS
  <2>4. PICK token \in Keys \cup {NoKey} :
          /\ SetState(k, now) /\ op' = NoOp /\ UNCHANGED <<disk, pending>>
          /\ client' \in {client, [client EXCEPT ![op.client].token = token]}
    BY <1>3, <2>2, <2>3 DEF Status
  <2>5. /\ now \in {"NONE", "PREPARED", "COMPLETED", "UNDOING", "UNDONE"}
        /\ now # "NONE" => Row(k).state # "NONE"
        /\ now \in {"COMPLETED", "UNDOING"} \/ now = Row(k).state \/ file[Row(k).pack] = "missing"
        /\ Row(k).state \in {"UNDOING", "UNDONE"} => now \in {"UNDOING", "UNDONE"}
    BY <2>3, RowShape, InspectionTells
  <2>6. now = "COMPLETED" => Standing(Row(k).pack)
    <3>1. CASE Row(k).state = "COMPLETED"
      BY <3>1 DEF ExportInv, RowsStand
    <3>2. CASE Row(k).state # "COMPLETED" /\ now = "COMPLETED"
      BY <2>3, <3>2, InspectionTells DEF Standing
    <3>. QED  BY <2>3, <3>1, <3>2
  <2>7. UNCHANGED disk /\ SetState(k, now)
    BY <2>4
  <2>8. /\ RowsStand' /\ journal' \in [Keys -> JournalRow] /\ order' \in Seq(Keys)
        /\ file' \in [Packs -> FileState] /\ touched' \subseteq Packs
        /\ (\A j \in Keys : Row(j).state # "NONE" => Row(j).pack \in Packs)'
    BY <2>5, <2>6, <2>7, StateChanges
  <2>9. /\ client' \in [ExportClients -> Card]
        /\ \A c \in ExportClients : client'[c].key # NoKey => client'[c].pack \in Packs
    <3>1. /\ client \in [ExportClients -> Card]
          /\ \A c \in ExportClients : client[c].key # NoKey => client[c].pack \in Packs
      BY DEF ExportInv, ExportShapes, NamesInv
    <3>2. PICK c \in ExportClients : c = op.client
      BY <1>1
    <3>3. PICK d \in Card : /\ d = [client[c] EXCEPT !.token = token]
                            /\ d.key = client[c].key /\ d.pack = client[c].pack
      <4>1. client[c] \in Card
        BY <3>1
      <4>2. [client[c] EXCEPT !.token = token] \in Card
        BY <4>1 DEF Card
      <4>. QED  BY <4>1, <4>2 DEF Card
    <3>4. client' = client \/ client' = [client EXCEPT ![c] = d]
      BY <2>4, <3>2, <3>3
    <3>. QED  BY <3>1, <3>3, <3>4
  <2>. QED  BY <1>1, <2>4, <2>8, <2>9, OpEnds, WritingExportKeeps
<1>. QED  BY <1>2, <1>3

LEMMA ExportInitial == ExportAssumption /\ ExportInit => ExportInv
<1>. SUFFICES ASSUME ExportAssumption, ExportInit PROVE ExportInv
  OBVIOUS
<1>1. NoPreviewYet \in Card /\ NoPreviewYet.key = NoKey
  BY DEF NoPreviewYet, Card
<1>2. ExportShapes
  BY <1>1, NoOpIs DEF ExportInit, ExportShapes, FileState
<1>3. NamesInv
  BY <1>1, NoOpIs DEF ExportInit, NamesInv, Row
<1>4. OpInv
  BY DEF ExportInit, OpInv
<1>5. RowsStand
  BY NoOpIs DEF ExportInit, RowsStand, Row
<1>. QED  BY <1>2, <1>3, <1>4, <1>5 DEF ExportInv

(* The invariant of exports: what the request under the service's lock has  *)
(* made of its row and its file.                                            *)
THEOREM ExportInvariant == ExportSpec => []ExportInv
<1>1. ExportInv /\ [ExportNext]_exportVars => ExportInv'
  BY ExportAssumption, EditingKeeps, SurroundingsKeep, BeginningKeeps, DyingKeeps,
     CheckingPreviewKeeps, PreparingRowKeeps, InspectingKeeps, OpeningKeeps, FinishingKeeps,
     CompletingKeeps, StatusKeeps, StartingUndoKeeps, LookingAgainKeeps, DeletingKeeps,
     UndoneKeeps DEF ExportNext, ExportUser, ExportStep
<1>. QED  BY <1>1, ExportInitial, ExportAssumption, PTL DEF ExportSpec

(* ArtifactExportService: across crashes at any step, retries and several    *)
(* cards, a file that was made has a row, and the file of a completed row    *)
(* stands.                                                                   *)
THEOREM JournalAndFolderAgree == ExportSpec => []JournalMatchesFolder
<1>1. ExportInv => JournalMatchesFolder
  <2>. SUFFICES ASSUME ExportInv, NEW p \in Packs
                PROVE  LET of(states) == {k \in Keys : Row(k).pack = p /\ Row(k).state \in states}
                       IN /\ file[p] \in {"partial", "exact"}
                               => of({"PREPARED", "COMPLETED", "UNDOING"}) # {}
                          /\ of({"COMPLETED"}) # {} /\ p \notin touched
                               => file[p] = "exact" \/ of({"UNDOING", "UNDONE"}) # {}
    BY DEF JournalMatchesFolder
  <2>1. file[p] \in {"partial", "exact"} =>
          \E k \in Keys : Row(k).pack = p /\ Row(k).state \in {"PREPARED", "COMPLETED", "UNDOING"}
    BY DEF ExportInv, RowsStand
  <2>2. \A k \in Keys : Row(k).pack = p /\ Row(k).state = "COMPLETED" => Standing(p)
    BY DEF ExportInv, RowsStand, Standing, TakenBack
  <2>. QED  BY <2>1, <2>2 DEF Standing, TakenBack
<1>. QED  BY <1>1, ExportInvariant, PTL

(* Type correctness of ArtifactExportService and its journal.               *)
THEOREM ExportTypes == ExportSpec => []ExportTypeOK
<1>1. ExportInv => ExportTypeOK
  BY DEF ExportInv, ExportShapes, FileState, JournalRow, ExportTypeOK
<1>. QED  BY <1>1, ExportInvariant, PTL

(* write_markdown_export and delete_markdown_export_unchanged: no step of the*)
(* service touches a file the user has edited, unless the edit fell between  *)
(* the last look and the unlink.                                             *)
THEOREM UserEditsSurvive == ExportSpec => EditsSurvive
<1>1. ASSUME ExportInv, ExportNext, ~ ExportUser, ~ (op # NoOp /\ op.edited),
             NEW p \in Packs, file[p] = "changed"
      PROVE  file'[p] = "changed"
  <2>1. file \in [Packs -> FileState]
    BY <1>1 DEF ExportInv, ExportShapes
  <2>2. CASE OpenFile
    <3>1. \/ file' = file
          \/ file[op.pack] = "missing" /\ file' = [file EXCEPT ![op.pack] = "partial"]
      BY <2>2 DEF OpenFile, Refuse, disk
    <3>. QED  BY <1>1, <2>1, <3>1
  <2>3. CASE FinishFile
    <3>1. file[op.pack] = "partial"
      BY <1>1, <2>3 DEF FinishFile, At, ExportInv, OpInv
    <3>2. \/ file' = file
          \/ \E s \in {"exact", "missing"} : file' = [file EXCEPT ![op.pack] = s]
      BY <2>3 DEF FinishFile
    <3>. QED  BY <1>1, <2>1, <3>1, <3>2
  <2>4. CASE DeleteFile
    <3>1. op # NoOp /\ op.kind = "undo" /\ op.at = "unlink"
      BY <2>4 DEF DeleteFile, At
    <3>2. file[Row(op.key).pack] = "exact"
      BY <1>1, <3>1 DEF ExportInv, OpInv
    <3>3. file' = file \/ file' = [file EXCEPT ![Row(op.key).pack] = "missing"]
      BY <2>4 DEF DeleteFile, Refuse, disk
    <3>. QED  BY <1>1, <2>1, <3>2, <3>3
  <2>5. CASE ~ (OpenFile \/ FinishFile \/ DeleteFile)
    <3>1. file' = file
      BY <1>1, <2>5 DEF ExportNext, ExportStep, StudyAgain, ChangeScope, PreparePreview, Confirm,
         SendRequest, Begin, CheckPreview, PrepareRow, InspectForExecute, Complete, Status,
         InspectForUndo, LookAgain, Undone, Fail, ExportRestart, Refuse, Continue, disk
    <3>. QED  BY <1>1, <3>1
  <2>. QED  BY <2>2, <2>3, <2>4, <2>5
<1>2. ExportInv /\ [ExportNext]_exportVars =>
        [\/ ExportUser
         \/ op # NoOp /\ op.edited
         \/ \A p \in Packs : file[p] = "changed" => file'[p] = "changed"]_exportVars
  BY <1>1
<1>. QED  BY <1>2, ExportInvariant, PTL DEF ExportSpec, EditsSurvive
===============================================================================
