------------------------------ MODULE AndroidOcr ------------------------------
(****************************************************************************)
(* Text the phone recognizes in the images of its catalog directory and     *)
(* sends to the Hub (AndroidOcrSyncClient, AndroidOcrStore), under a consent*)
(* the user gives and takes back (setContentAnalysisEnabled).  The Hub      *)
(* checks an upload against its catalog and writes it in two steps, on one  *)
(* of several workers; uploads are late, repeated from the outbox, or lost. *)
(****************************************************************************)
EXTENDS Naturals, FiniteSets

CONSTANTS Images,
          NoBatch,
          MaxImageRevision,   \* bound: revisions of an image
          MaxBatches,    \* bound: batches recognized
          MaxConsent     \* bound: times the user consents

ASSUME OcrAssumption == {MaxImageRevision, MaxBatches, MaxConsent} \subseteq Nat \ {0}

VARIABLES
    image,       \* revision of each image in the phone's directory
    consent,     \* number of the present consent, 0 without
    consents,    \* consents given so far
    batches,     \* batches recognized so far
    ocrOutbox,   \* the phone's outbox: one payload
    ocrApp,      \* what the page is busy with
    uploads,     \* uploads on their way to the Hub
    checked,     \* uploads that a worker has checked and not yet written
    listed,      \* revision of each image in the Hub's catalog, 0 for none
    everListed,  \* history: what the catalog has listed
    projection,  \* android_ocr_projection: revisions with a text of each image
    receipts     \* android_ocr_request: keys

phone == <<image, consent, consents, batches, ocrOutbox, ocrApp>>
network == <<uploads, checked>>
textStore == <<listed, everListed, projection, receipts>>
ocrVars == <<phone, network, textStore>>

PageIdle == [at |-> "idle"]

OcrInit ==
    /\ image = [i \in Images |-> 1]
    /\ consent = 0 /\ consents = 0 /\ batches = 0
    /\ ocrOutbox = NoBatch /\ ocrApp = PageIdle
    /\ uploads = {} /\ checked = {}
    /\ listed = [i \in Images |-> 0] /\ everListed = {}
    /\ projection = [i \in Images |-> {}] /\ receipts = {}

------------------------------------------------------------------------------
(* The phone.                                                                *)

ChangeImage(i) ==
    /\ image[i] < MaxImageRevision /\ image' = [image EXCEPT ![i] = @ + 1]
    /\ UNCHANGED <<consent, consents, batches, ocrOutbox, ocrApp, network, textStore>>

(* A snapshot of the directory reaches the catalog (CatalogSync says how).   *)
ListImages ==
    /\ listed' = image
    /\ everListed' = everListed \cup {<<i, image[i]>> : i \in Images}
    /\ UNCHANGED <<phone, network, projection, receipts>>

Consent ==
    /\ ocrApp = PageIdle /\ consent = 0 /\ consents < MaxConsent
    /\ consents' = consents + 1 /\ consent' = consents'
    /\ UNCHANGED <<image, batches, ocrOutbox, ocrApp, network, textStore>>

(* _analyzeAndSyncImages: the catalog is synchronized, which may fail for    *)
(* want of a network, and the images of the snapshot are recognized ...      *)
Recognize ==
    /\ ocrApp = PageIdle /\ consent # 0 /\ batches < MaxBatches
    /\ batches' = batches + 1
    /\ ocrApp' = [at |-> "recognized",
                  batch |-> [revisions |-> image, key |-> batches + 1, consent |-> consent]]
    /\ \/ /\ listed' = image
          /\ everListed' = everListed \cup {<<i, image[i]>> : i \in Images}
       \/ UNCHANGED <<listed, everListed>>
    /\ UNCHANGED <<image, consent, consents, ocrOutbox, network, projection, receipts>>

(* ... unless they change meanwhile (verifyAndroidOcrInput); the text is put *)
(* in the outbox and posted.                                                 *)
Upload ==
    /\ ocrApp.at = "recognized"
    /\ IF ocrApp.batch.revisions = image
       THEN /\ ocrOutbox' = ocrApp.batch
            /\ uploads' = uploads \cup {ocrApp.batch}
            /\ ocrApp' = [ocrApp EXCEPT !.at = "wait"]
       ELSE ocrApp' = PageIdle /\ UNCHANGED <<ocrOutbox, uploads>>
    /\ UNCHANGED <<image, consent, consents, batches, checked, textStore>>

(* The policy is checked before the outbox is read (requireOcrPolicy).       *)
RetryUpload ==
    /\ ocrApp = PageIdle /\ consent # 0 /\ ocrOutbox # NoBatch
    /\ uploads' = uploads \cup {ocrOutbox}
    /\ ocrApp' = [at |-> "wait", batch |-> ocrOutbox]
    /\ UNCHANGED <<image, consent, consents, batches, ocrOutbox, checked, textStore>>

(* The app is killed, or an upload fails or times out.                       *)
PageStops ==
    /\ ocrApp # PageIdle /\ ocrApp' = PageIdle
    /\ UNCHANGED <<image, consent, consents, batches, ocrOutbox, network, textStore>>

(* The user takes the consent back: the Hub is asked to forget, ...          *)
AskToForget ==
    /\ ocrApp = PageIdle /\ consent # 0
    /\ ocrApp' = [at |-> "forget"]
    /\ UNCHANGED <<image, consent, consents, batches, ocrOutbox, network, textStore>>

(* ... and whether it did or not, the consent and the outbox go together.    *)
Withdraw ==
    /\ ocrApp.at \in {"forget", "forgotten"}
    /\ consent' = 0 /\ ocrOutbox' = NoBatch /\ ocrApp' = PageIdle
    /\ UNCHANGED <<image, consents, batches, network, textStore>>

(* forgetCatalogDirectory clears what the phone keeps, and only that.        *)
ForgetDirectory ==
    /\ ocrApp = PageIdle /\ consent' = 0 /\ ocrOutbox' = NoBatch
    /\ UNCHANGED <<image, consents, batches, ocrApp, network, textStore>>

------------------------------------------------------------------------------
(* The Hub.                                                                  *)

Answered(q) ==
    IF ocrApp = [at |-> "wait", batch |-> q]
    THEN \/ ocrApp' = PageIdle /\ ocrOutbox' = (IF ocrOutbox = q THEN NoBatch ELSE ocrOutbox)
         \/ UNCHANGED <<ocrApp, ocrOutbox>>
    ELSE UNCHANGED <<ocrApp, ocrOutbox>>

Refused(q) == /\ ocrApp' = IF ocrApp = [at |-> "wait", batch |-> q] THEN PageIdle ELSE ocrApp
              /\ UNCHANGED ocrOutbox

(* Slip: the catalog is not asked. *)
MatchesAny(q) == TRUE

MatchesCatalog(q) == q.revisions = listed

(* apply: an upload that has a receipt is answered again; any other one must *)
(* be of the revisions the catalog lists now.  The network may keep a copy.  *)
CheckUpload(q) ==
    /\ q \in uploads /\ uploads' \in {uploads, uploads \ {q}}
    /\ \/ q.key \in receipts /\ Answered(q) /\ UNCHANGED checked
       \/ /\ q.key \notin receipts /\ MatchesCatalog(q)
          /\ checked' = checked \cup {q} /\ UNCHANGED <<ocrApp, ocrOutbox>>
       \/ q.key \notin receipts /\ ~MatchesCatalog(q) /\ Refused(q) /\ UNCHANGED checked
    /\ UNCHANGED <<image, consent, consents, batches, textStore>>

LoseUpload(q) == /\ q \in uploads /\ uploads' = uploads \ {q}
                 /\ UNCHANGED <<phone, checked, textStore>>

(* Slip: the texts of other revisions stay. *)
AddTexts(q) == [i \in Images |-> projection[i] \cup {q.revisions[i]}]

(* Other revisions of an image are deleted.                                  *)
ReplaceTexts(q) == [i \in Images |-> {q.revisions[i]}]

(* The write, a transaction of its own, looks for a receipt once more.       *)
WriteUpload(q) ==
    /\ q \in checked /\ checked' = checked \ {q}
    /\ IF q.key \in receipts THEN UNCHANGED <<projection, receipts>>
       ELSE /\ projection' = ReplaceTexts(q)
            /\ receipts' = receipts \cup {q.key}
    /\ Answered(q)
    /\ UNCHANGED <<image, consent, consents, batches, uploads, listed, everListed>>

(* forget_root deletes the texts and the receipts.                           *)
ForgetTexts ==
    /\ ocrApp.at = "forget" /\ ocrApp' \in {[at |-> "forgotten"], ocrApp}
    /\ projection' = [i \in Images |-> {}] /\ receipts' = {}
    /\ UNCHANGED <<image, consent, consents, batches, ocrOutbox, network, listed, everListed>>

(* Texts expire after seven days; the Hub dies, and its workers with it.     *)
ExpireTexts ==
    /\ projection' = [i \in Images |-> {}] /\ UNCHANGED <<listed, everListed, receipts>>
    /\ UNCHANGED <<phone, network>>

OcrHubRestart == checked' = {} /\ UNCHANGED <<phone, uploads, textStore>>

OcrNext ==
    \/ ListImages \/ Consent \/ Recognize \/ Upload \/ RetryUpload \/ PageStops
    \/ AskToForget \/ Withdraw \/ ForgetDirectory \/ ForgetTexts \/ ExpireTexts \/ OcrHubRestart
    \/ \E i \in Images : ChangeImage(i)
    \/ \E q \in uploads : CheckUpload(q) \/ LoseUpload(q)
    \/ \E q \in checked : WriteUpload(q)

OcrSpec == OcrInit /\ [][OcrNext]_ocrVars

------------------------------------------------------------------------------
(* Properties. *)

OcrTypeOK ==
    /\ image \in [Images -> 1..MaxImageRevision] /\ consent \in 0..MaxConsent
    /\ projection \in [Images -> SUBSET (1..MaxImageRevision)]
    /\ receipts \subseteq 1..MaxBatches

(* Whatever is late or repeated, an image has at most one text, and of a     *)
(* revision that the catalog has listed.                                     *)
TextsFollowCatalog ==
    \A i \in Images : /\ Cardinality(projection[i]) <= 1
                      /\ \A r \in projection[i] : <<i, r>> \in everListed

(* A text recognized under a consent that was taken back is never sent again,*)
(* not even once the user has consented anew.                                *)
OldConsentNotSent ==
    [][\A q \in uploads' \ uploads : q.consent = consent]_ocrVars

(* The page says that the texts on the computer are gone once the Hub has    *)
(* forgotten them (_setAndroidContentAnalysis).                              *)
ForgottenStaysForgotten ==
    [][(\A i \in Images : projection[i] = {}) /\ consent = 0
       => \A i \in Images : projection'[i] = {}]_ocrVars
===============================================================================
