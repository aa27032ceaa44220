--------------------------- MODULE MaterialInsight ---------------------------
(****************************************************************************)
(* A study pack made from the user's files: the request that generates it   *)
(* (ContentInsightCoordinator), the content store with its texts and packs  *)
(* (ContentUnderstandingService), and the read-only tools that the agent    *)
(* calls, in threads of their own and for as long as it likes, under a job  *)
(* of ReadonlyToolBridge.  Meanwhile the user edits files, the catalog is   *)
(* refreshed and consent is given and withdrawn.                            *)
(*                                                                          *)
(* A text is named by the revision of the file it was read from.            *)
(****************************************************************************)
EXTENDS Integers, FiniteSets

CONSTANTS Assets,       \* files of the authorized folder
          ToolThreads,  \* tool calls served at the same time
          MaxRevision,  \* bound: versions of a file; 0 is no file
          MaxCalls,     \* MAX_JOB_CALLS
          MaxRequests   \* bound: study packs asked for

ASSUME InsightAssumption ==
    /\ IsFiniteSet(Assets)
    /\ MaxRevision \in Nat \ {0} /\ {MaxCalls, MaxRequests} \subseteq Nat

Revisions == 0..MaxRevision

VARIABLES
    folder,     \* the revision of each file
    catalog,    \* CatalogStore: the revision of each file as last scanned
    optedIn,    \* content_root_policy of the current root
    texts,      \* content_projection_v2: revision and text of each asset, if any
    packs,      \* content_study_pack
    results,    \* the packs that autonomy_job keeps as results
    request,    \* ContentInsightCoordinator.generate
    requests,   \* how many there were
    toolJob,    \* ReadonlyToolBridge._jobs
    tool,       \* the calls of the agent's tools
    served      \* history: which text was given out for which asset, and for which snapshot

user == <<folder, catalog, optedIn>>
content == <<texts, packs, results>>
agent == <<toolJob, tool>>
insightVars == <<user, content, request, requests, agent, served>>

NoText == [revision |-> 0, text |-> 0]
NoRequest == [at |-> "idle"]
NoToolJob == [open |-> FALSE]
NoCall == [at |-> "idle"]
NoFiles == [a \in Assets |-> 0]

InsightInit ==
    /\ folder \in [Assets -> 0..1] /\ catalog = folder
    /\ optedIn = TRUE /\ packs = {} /\ results = {} /\ texts = [a \in Assets |-> NoText]
    /\ request = NoRequest /\ requests = 0
    /\ toolJob = NoToolJob /\ tool = [c \in ToolThreads |-> NoCall] /\ served = {}

------------------------------------------------------------------------------
(* The user.                                                                 *)

ChangeFile(a) ==
    /\ folder[a] < MaxRevision /\ folder' = [folder EXCEPT ![a] = @ + 1]
    /\ UNCHANGED <<catalog, optedIn, content, request, requests, agent, served>>

RefreshCatalog ==
    /\ catalog # folder /\ catalog' = folder
    /\ UNCHANGED <<folder, optedIn, content, request, requests, agent, served>>

(* set_opt_in: without consent the texts and the packs are deleted.          *)
SetOptIn(enabled) ==
    /\ optedIn # enabled /\ optedIn' = enabled
    /\ IF enabled THEN UNCHANGED content
       ELSE texts' = [a \in Assets |-> NoText] /\ packs' = {} /\ UNCHANGED results
    /\ UNCHANGED <<folder, catalog, request, requests, agent, served>>

ForgetRoot ==
    /\ texts' = [a \in Assets |-> NoText] /\ packs' = {}
    /\ <<texts, packs>>' # <<texts, packs>>
    /\ UNCHANGED <<user, results, request, requests, agent, served>>

(* A projection past its retention is deleted by the next load.              *)
ExpireText(a) ==
    /\ texts[a] # NoText /\ texts' = [texts EXCEPT ![a] = NoText]
    /\ UNCHANGED <<user, packs, results, request, requests, agent, served>>

------------------------------------------------------------------------------
(* What may be read of a snapshot, by list_safe_assets.                      *)

Safe(snapshot) == optedIn /\ catalog = snapshot

Files(snapshot) == {a \in Assets : snapshot[a] # 0}

(* Slip: any projection of the asset will do. *)
CachedAnyhow(a, revision) == texts[a] # NoText

(* extract_assets for one asset: the projection of its revision, or the file *)
(* as long as it still is that revision.                                     *)
Cached(a, revision) == texts[a] # NoText /\ texts[a].revision = revision

TextFor(a, revision) == IF Cached(a, revision) THEN texts[a].text ELSE folder[a]

Readable(a, revision) == Cached(a, revision) \/ folder[a] = revision

Give(snapshot, a) ==
    /\ Readable(a, snapshot[a])
    /\ served' = served \cup {<<snapshot, a, TextFor(a, snapshot[a])>>}

SaveText(a, revision, text) ==
    texts' = [texts EXCEPT ![a] = [revision |-> revision, text |-> text]]

------------------------------------------------------------------------------
(* generate.                                                                 *)

ToRequest(r) == request' = r

StartRequest ==
    /\ request = NoRequest /\ requests < MaxRequests /\ requests' = requests + 1
    /\ ToRequest([at |-> "list", view |-> catalog, cites |-> {}, left |-> {}])
    /\ UNCHANGED <<user, content, agent, served>>

ListAllowed ==
    /\ request.at = "list"
    /\ IF Safe(request.view) /\ Files(request.view) # {}
       THEN ToRequest([request EXCEPT !.at = "begin"]) ELSE ToRequest(NoRequest)
    /\ UNCHANGED <<user, content, requests, agent, served>>

(* The same question about the same snapshot has been answered before.       *)
ReuseResult ==
    /\ request.at = "begin"
    /\ \E p \in results : /\ p.view = request.view
                           /\ ToRequest([request EXCEPT !.at = "check", !.cites = p.cites])
    /\ UNCHANGED <<user, content, requests, agent, served>>

(* begin_job; without it the pack is made without the agent.                 *)
ToFallback == ToRequest([request EXCEPT !.at = "fallback", !.left = Files(request.view)])

BeginToolJob ==
    /\ request.at = "begin"
    /\ \/ /\ Safe(request.view) /\ ToRequest([request EXCEPT !.at = "agent"])
          /\ toolJob' = [open |-> TRUE, view |-> request.view, calls |-> 0,
                         excerpted |-> {}, tools |-> {}, last |-> "none", draft |-> {}]
       \/ ToFallback /\ UNCHANGED toolJob
    /\ UNCHANGED <<user, content, requests, tool, served>>

(* end_job, then what the job has to show for it: assets were discovered, an *)
(* excerpt was read, and a draft that cites such excerpts came last.         *)
ProperJob(j) ==
    /\ {"catalog", "content_get_safe_excerpt"} \subseteq j.tools
    /\ j.draft # {} /\ j.last = "insight_draft_study_pack"
    /\ j.draft \subseteq j.excerpted

EndToolJob ==
    /\ request.at = "agent" /\ toolJob' = NoToolJob
    /\ IF toolJob.open /\ ProperJob(toolJob)
       THEN \/ ToRequest([request EXCEPT !.at = "check", !.cites = toolJob.draft])
            \/ ToFallback                      \* its last words do not match the draft
       ELSE ToFallback
    /\ UNCHANGED <<user, content, requests, tool, served>>

(* The fallback reads the files one by one, after one look at the snapshot.  *)
FallbackLooks ==
    /\ request.at = "fallback"
    /\ IF Safe(request.view) THEN ToRequest([request EXCEPT !.at = "read"])
       ELSE ToRequest(NoRequest)
    /\ UNCHANGED <<user, content, requests, agent, served>>

FallbackReads(a) ==
    /\ request.at = "read" /\ a \in request.left
    /\ Give(request.view, a)
    /\ IF Cached(a, request.view[a]) THEN UNCHANGED texts
       ELSE SaveText(a, request.view[a], folder[a])
    /\ ToRequest([request EXCEPT !.left = @ \ {a}, !.cites = @ \cup {a},
                                 !.at = IF request.left = {a} THEN "check" ELSE "read"])
    /\ UNCHANGED <<user, packs, results, requests, agent>>

FallbackFails(a) ==
    /\ request.at = "read" /\ a \in request.left /\ ~Readable(a, request.view[a])
    /\ ToRequest(NoRequest)
    /\ UNCHANGED <<user, content, requests, agent, served>>

(* save_study_pack looks at the snapshot and then writes.                    *)
CheckPack ==
    /\ request.at = "check"
    /\ IF catalog = request.view THEN ToRequest([request EXCEPT !.at = "save"])
       ELSE ToRequest(NoRequest)
    /\ UNCHANGED <<user, content, requests, agent, served>>

SavePack ==
    /\ request.at = "save" /\ ToRequest(NoRequest)
    /\ LET pack == [view |-> request.view, cites |-> request.cites]
       IN /\ packs' = {p \in packs : p.view # request.view} \cup {pack}
          /\ results' = results \cup {pack}
    /\ UNCHANGED <<user, texts, requests, agent, served>>

------------------------------------------------------------------------------
(* A tool call: admitted, bound to the snapshot, carried out, recorded.      *)

ToCall(c, t) == tool' = [tool EXCEPT ![c] = t]

CallTool(c) ==
    /\ tool[c] = NoCall /\ toolJob.open /\ toolJob.calls < MaxCalls
    /\ \E name \in {"catalog", "content_get_safe_excerpt", "insight_draft_study_pack"},
          assets \in SUBSET Assets :
         /\ name = "catalog" <=> assets = {}
         /\ name = "content_get_safe_excerpt" => Cardinality(assets) = 1
         /\ ToCall(c, [at |-> "bind", name |-> name, assets |-> assets,
                       job |-> requests, view |-> toolJob.view])
    /\ toolJob' = [toolJob EXCEPT !.calls = @ + 1]
    /\ UNCHANGED <<user, content, request, requests, served>>

(* The checks on a job's own sets.                                           *)
Permitted(t) ==
    /\ t.assets \subseteq Files(t.view)
    /\ t.name = "insight_draft_study_pack"
         => toolJob.open /\ t.job = requests /\ t.assets \subseteq toolJob.excerpted

BindCall(c) ==
    /\ tool[c].at = "bind"
    /\ IF catalog = tool[c].view /\ Permitted(tool[c])
       THEN ToCall(c, [tool[c] EXCEPT !.at =
                          IF tool[c].name = "content_get_safe_excerpt" THEN "look" ELSE "record"])
       ELSE ToCall(c, NoCall)
    /\ UNCHANGED <<user, content, request, requests, toolJob, served>>

LookForExcerpt(c) ==
    /\ tool[c].at = "look"
    /\ IF Safe(tool[c].view) THEN ToCall(c, [tool[c] EXCEPT !.at = "excerpt"])
       ELSE ToCall(c, NoCall)
    /\ UNCHANGED <<user, content, request, requests, toolJob, served>>

ReadExcerpt(c) ==
    /\ tool[c].at = "excerpt"
    /\ \E a \in tool[c].assets :
         IF Readable(a, tool[c].view[a])
         THEN /\ Give(tool[c].view, a) /\ ToCall(c, [tool[c] EXCEPT !.at = "record"])
              /\ IF Cached(a, tool[c].view[a]) THEN UNCHANGED texts
                 ELSE SaveText(a, tool[c].view[a], folder[a])
         ELSE ToCall(c, NoCall) /\ UNCHANGED <<texts, served>>
    /\ UNCHANGED <<user, packs, results, request, requests, toolJob>>

(* _record_success: only for a job that is still open and within its time.   *)
RecordSuccess(c) ==
    /\ tool[c].at = "record" /\ ToCall(c, NoCall)
    /\ LET t == tool[c]
       IN IF ~toolJob.open \/ t.job # requests THEN UNCHANGED toolJob
          ELSE toolJob' =
                 [toolJob EXCEPT
                    !.tools = @ \cup {t.name}, !.last = t.name,
                    !.excerpted = IF t.name = "content_get_safe_excerpt" THEN @ \cup t.assets
                                  ELSE @,
                    !.draft = IF t.name = "insight_draft_study_pack" THEN t.assets ELSE @]
    /\ UNCHANGED <<user, content, request, requests, served>>

(* The deadline has passed: the next call finds it out and drops the job.    *)
DropExpired(c) ==
    /\ tool[c].at \in {"bind", "record"} /\ ToCall(c, NoCall)
    /\ toolJob.open /\ tool[c].job = requests /\ toolJob' = NoToolJob
    /\ UNCHANGED <<user, content, request, requests, served>>

InsightNext ==
    \/ \E a \in Assets : ChangeFile(a) \/ ExpireText(a) \/ FallbackReads(a) \/ FallbackFails(a)
    \/ RefreshCatalog \/ ForgetRoot \/ \E b \in BOOLEAN : SetOptIn(b)
    \/ StartRequest \/ ListAllowed \/ ReuseResult \/ BeginToolJob \/ EndToolJob \/ FallbackLooks
    \/ CheckPack \/ SavePack
    \/ \E c \in ToolThreads : \/ CallTool(c) \/ BindCall(c) \/ LookForExcerpt(c) \/ ReadExcerpt(c)
                              \/ RecordSuccess(c) \/ DropExpired(c)

InsightSpec == InsightInit /\ [][InsightNext]_insightVars

------------------------------------------------------------------------------
(* Properties. *)

InsightTypeOK ==
    /\ {folder, catalog} \subseteq [Assets -> Revisions] /\ optedIn \in BOOLEAN
    /\ texts \in [Assets -> [revision : Revisions, text : Revisions]]
    /\ \A p \in packs : p.cites \subseteq Files(p.view)

(* No text that is not the listed revision's is given out.                   *)
ServedAsListed == \A s \in served : s[3] = s[1][s[2]]

(* A pack cites only files whose text was given out to whoever wrote it, and *)
(* that text is of the very revision the pack's snapshot lists: not one that *)
(* an edit, a stale projection or a call that failed half-way stands for.    *)
PackIsRead ==
    /\ ServedAsListed
    /\ \A p \in packs : \A a \in p.cites : <<p.view, a, p.view[a]>> \in served
===============================================================================
