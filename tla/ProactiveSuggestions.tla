------------------------- MODULE ProactiveSuggestions -------------------------
(****************************************************************************)
(* Who asks the agent, how often, and what comes of it: the cards that the  *)
(* Hub proposes of its own accord (ProactiveSuggestionService) and the study*)
(* packs the user asks for (ContentInsightCoordinator), each under a lease  *)
(* of AutonomyJobStore, with one planner between them.  Several clients ask *)
(* at once; every transaction of a store is a step of its own.              *)
(*                                                                          *)
(* A tick is STABLE_SNAPSHOT_MS.                                            *)
(****************************************************************************)
EXTENDS Integers, FiniteSets

CONSTANTS Askers,        \* requests served at the same time
          Categories,    \* ALLOWED_CATEGORIES: each has one candidate
          Views,         \* snapshots of the catalog
          Nobody,
          Cooldown,      \* SUGGESTION_COOLDOWN_MS
          Flight,        \* ticks an answer of the planner may take (its timeout)
          Day,           \* ticks in a day
          DailyLimit,    \* DAILY_SUGGESTION_LIMIT
          DismissPause,  \* DAILY_DISMISS_PAUSE_THRESHOLD
          MaxNow,        \* bound: ticks
          MaxDisturbances \* bound: settings, snapshots, failures and restarts

ASSUME SuggestionAssumption ==
    /\ {Cooldown, Flight, Day, DailyLimit, DismissPause, MaxNow, MaxDisturbances} \subseteq Nat \ {0}
    /\ Nobody \notin Askers /\ Flight < Cooldown /\ Cooldown < Day

VARIABLES
    now, view,     \* the time, and the catalog's snapshot
    settings,      \* proactive_settings: enabled, disabled categories
    quota,         \* proactive_settings: day, cards created on it, time of the last card;
                   \* `late` is history: a card was counted for a day already left
    observation,   \* proactive_observation
    paused,        \* proactive_category_state
    card,          \* proactive_suggestion: status of each card by snapshot and candidates
    job,           \* autonomy_job: its state by job key
    planner,       \* who holds the planner's lock
    asker,         \* where each request is
    disabling,     \* a disable_category that has read the settings
    disturbances   \* how many of them there were

world == <<now, view, disturbances>>
policy == <<settings, quota, observation, paused>>
work == <<card, job, planner, asker, disabling>>
suggestionVars == <<world, policy, work>>

Waiting == [at |-> "idle"]
NoDisable == [at |-> "idle"]
NoCard == [status |-> "none", category |-> Nobody, created |-> 0]
NeverSeen == [view |-> Nobody, digest |-> {}, since |-> 0]

Digests == (SUBSET Categories) \ {{}}
CardKeys == Views \X Digests
StudyKey(v) == <<v, {}>>
JobKeys == CardKeys \cup {StudyKey(v) : v \in Views}
Active == {"QUEUED", "RUNNING", "VALIDATING"}   \* SNAPSHOT_BOUND is left at once

DayOf(t) == t \div Day

SuggestionInit ==
    /\ now = 0 /\ view \in Views /\ disturbances = 0
    /\ settings = [enabled |-> TRUE, disabled |-> {}]
    /\ quota = [day |-> -1, count |-> 0, last |-> -Cooldown, late |-> FALSE]
    /\ observation = NeverSeen
    /\ paused = [k \in Categories |-> [day |-> -1, dismissed |-> 0, paused |-> -1]]
    /\ card = [k \in CardKeys |-> NoCard]
    /\ job = [k \in JobKeys |-> "NONE"]
    /\ planner = Nobody
    /\ asker = [a \in Askers |-> Waiting] /\ disabling = NoDisable

------------------------------------------------------------------------------
(* An answer of the planner takes at most Flight.                            *)
Tick == /\ now < MaxNow /\ now' = now + 1
        /\ \A a \in Askers : asker[a] # Waiting => now' - asker[a].now <= Flight
        /\ UNCHANGED <<view, disturbances, policy, work>>

Disturb == disturbances < MaxDisturbances /\ disturbances' = disturbances + 1

CatalogChanges == Disturb /\ view' \in Views \ {view} /\ UNCHANGED <<now, policy, work>>

UpdateSettings ==
    /\ Disturb
    /\ \E e \in BOOLEAN, d \in SUBSET Categories : settings' = [enabled |-> e, disabled |-> d]
    /\ settings' # settings
    /\ UNCHANGED <<now, view, quota, observation, paused, work>>

Move(a, next) == asker' = [asker EXCEPT ![a] = next]
JobKey(a) == <<asker[a].view, asker[a].digest>>

------------------------------------------------------------------------------
(* observe: the candidates whose category is not blocked today.              *)

Blocked == settings.disabled \cup {k \in Categories : paused[k].paused = DayOf(now)}

Look(a) ==
    /\ asker[a] = Waiting /\ Categories \ Blocked # {}
    /\ Move(a, [at |-> "gate", view |-> view, digest |-> Categories \ Blocked, now |-> now,
                category |-> Nobody])
    /\ UNCHANGED <<world, policy, card, job, planner, disabling>>

(* gate: what must hold for a card to be asked for.                          *)
CountOn(day) == IF quota.day = day THEN quota.count ELSE 0

Proposable(digest) == settings.enabled /\ ~(digest \subseteq settings.disabled)

Unpaused(digest, t) == \A k \in digest : paused[k].paused # DayOf(t)

WithinQuota(t) == t - quota.last >= Cooldown /\ CountOn(DayOf(t)) < DailyLimit

Gate(a) ==
    /\ asker[a].at = "gate"
    /\ LET r == asker[a]
           stable == observation.view = r.view /\ observation.digest = r.digest
       IN IF ~Proposable(r.digest) \/ card[JobKey(a)] # NoCard
          THEN Move(a, Waiting) /\ UNCHANGED observation
          ELSE IF ~stable
          THEN /\ observation' = [view |-> r.view, digest |-> r.digest, since |-> r.now]
               /\ Move(a, Waiting)
          ELSE /\ IF /\ r.now - observation.since >= 1
                     /\ WithinQuota(r.now) /\ Unpaused(r.digest, r.now)
                  THEN Move(a, [r EXCEPT !.at = "begin"]) ELSE Move(a, Waiting)
               /\ UNCHANGED observation
    /\ UNCHANGED <<world, settings, quota, paused, card, job, planner, disabling>>

(* generate: a study pack needs no gate.                                     *)
AskForStudy(a) ==
    /\ asker[a] = Waiting
    /\ Move(a, [at |-> "begin", view |-> view, digest |-> {}, now |-> now,
                category |-> Nobody])
    /\ UNCHANGED <<world, policy, card, job, planner, disabling>>

------------------------------------------------------------------------------
(* The lease: begin, transition, complete, fail_safe of AutonomyJobStore.    *)

SetJob(a, s) == job' = [job EXCEPT ![JobKey(a)] = s]

(* Slip: a job that is under way is begun again. *)
BeginAlways(a) ==
    /\ asker[a].at = "begin"
    /\ SetJob(a, "QUEUED") /\ Move(a, [asker[a] EXCEPT !.at = "bind"])
    /\ UNCHANGED <<world, policy, card, planner, disabling>>

(* A result is used again, a job under way is busy, any other one begun anew.*)
BeginJob(a) ==
    /\ asker[a].at = "begin"
    /\ IF job[JobKey(a)] \in Active \cup {"SUCCEEDED"}
       THEN Move(a, Waiting) /\ UNCHANGED job
       ELSE SetJob(a, "QUEUED") /\ Move(a, [asker[a] EXCEPT !.at = "bind"])
    /\ UNCHANGED <<world, policy, card, planner, disabling>>

BindJob(a) ==
    /\ asker[a].at = "bind" /\ job[JobKey(a)] = "QUEUED"
    /\ SetJob(a, "RUNNING") /\ Move(a, [asker[a] EXCEPT !.at = "plan"])
    /\ UNCHANGED <<world, policy, card, planner, disabling>>

IsStudy(a) == asker[a].digest = {}

(* What the agent did not deliver: a card is given up, a study pack made of  *)
(* excerpts without the agent.                                               *)
WithoutAgent(a) ==
    IF IsStudy(a) THEN Move(a, [asker[a] EXCEPT !.at = "validate"]) /\ UNCHANGED job
    ELSE SetJob(a, "FAILED_SAFE") /\ Move(a, Waiting)

(* The planner serves one request at a time and turns away the others.       *)
AskPlanner(a) ==
    /\ asker[a].at = "plan"
    /\ IF planner = Nobody
       THEN planner' = a /\ Move(a, [asker[a] EXCEPT !.at = "planning"]) /\ UNCHANGED job
       ELSE UNCHANGED planner /\ WithoutAgent(a)
    /\ UNCHANGED <<world, policy, card, disabling>>

PlannerAnswers(a) ==
    /\ asker[a].at = "planning" /\ planner' = Nobody
    /\ \E k \in asker[a].digest \cup (IF IsStudy(a) THEN {"agent"} ELSE {}) :
         Move(a, [asker[a] EXCEPT !.at = "validate", !.category = k])
    /\ UNCHANGED <<world, policy, card, job, disabling>>

PlannerFails(a) ==
    /\ asker[a].at = "planning" /\ planner' = Nobody
    /\ WithoutAgent(a)
    /\ UNCHANGED <<world, policy, card, disabling>>

(* An error nobody expects, such as one of the catalog's store under a tool, *)
(* goes past every handler.                                                  *)
PlannerRaises(a) ==
    /\ Disturb /\ asker[a].at = "planning" /\ planner' = Nobody
    /\ Move(a, Waiting)
    /\ UNCHANGED <<now, view, policy, card, job, disabling>>

ValidateJob(a) ==
    /\ asker[a].at = "validate" /\ job[JobKey(a)] = "RUNNING"
    /\ SetJob(a, "VALIDATING")
    /\ Move(a, [asker[a] EXCEPT !.at = IF IsStudy(a) THEN "complete" ELSE "create"])
    /\ UNCHANGED <<world, policy, card, planner, disabling>>

(* Slip: the job is completed first. *)
CompleteBeforeCard(a) ==
    /\ asker[a].at = "create"
    /\ SetJob(a, "SUCCEEDED") /\ Move(a, Waiting)
    /\ UNCHANGED <<world, policy, card, planner, disabling>>

(* Slip: the count trusted to the gate. *)
CountedAtGate(count) == TRUE

(* The CHECK on proactive_settings.day_count. *)
Counted(count) == count <= DailyLimit

(* create: the card is inserted and counted, unless it is there or the count *)
(* passes its CHECK.                                                         *)
CreateCard(a) ==
    /\ asker[a].at = "create"
    /\ LET r == asker[a]
           count == CountOn(DayOf(r.now)) + 1
       IN \/ /\ card[JobKey(a)] # NoCard
             /\ Move(a, [r EXCEPT !.at = "complete"]) /\ UNCHANGED <<card, quota, job>>
          \/ /\ card[JobKey(a)] = NoCard /\ Counted(count)
             /\ card' = [card EXCEPT ![JobKey(a)] = [status |-> "available",
                                                  category |-> r.category, created |-> r.now]]
             /\ quota' = [day |-> DayOf(r.now), count |-> count, last |-> r.now,
                          late |-> quota.late \/ DayOf(r.now) < quota.day]
             /\ Move(a, [r EXCEPT !.at = "complete"]) /\ UNCHANGED job
          \/ /\ card[JobKey(a)] = NoCard /\ ~Counted(count)
             /\ SetJob(a, "FAILED_SAFE") /\ Move(a, Waiting) /\ UNCHANGED <<card, quota>>
    /\ UNCHANGED <<world, settings, observation, paused, planner, disabling>>

CompleteJob(a) ==
    /\ asker[a].at = "complete" /\ job[JobKey(a)] = "VALIDATING"
    /\ SetJob(a, IF IsStudy(a) /\ asker[a].category = Nobody THEN "DEGRADED" ELSE "SUCCEEDED")
    /\ Move(a, Waiting)
    /\ UNCHANGED <<world, policy, card, planner, disabling>>

(* A store fails under the request.                                          *)
JobFails(a) ==
    /\ Disturb /\ asker[a].at \in {"bind", "validate", "create", "complete"}
    /\ SetJob(a, "FAILED_SAFE") /\ Move(a, Waiting)
    /\ UNCHANGED <<now, view, policy, card, planner, disabling>>

------------------------------------------------------------------------------
(* What the user does with a card: transition, disable_category.             *)

SetStatus(k, s) == card' = [card EXCEPT ![k].status = s]

AcceptCard(k) ==
    /\ card[k].status = "available" /\ SetStatus(k, "accepted")
    /\ paused' = [paused EXCEPT ![card[k].category] =
                      [day |-> -1, dismissed |-> 0, paused |-> -1]]
    /\ UNCHANGED <<world, settings, quota, observation, job, planner, asker, disabling>>

Dismissed(k) ==
    LET c == card[k].category
        n == (IF paused[c].day = DayOf(now) THEN paused[c].dismissed ELSE 0) + 1
    IN paused' = [paused EXCEPT ![c] =
                    [day |-> DayOf(now), dismissed |-> n,
                     paused |-> IF n >= DismissPause THEN DayOf(now) ELSE -1]]

DismissCard(k) ==
    /\ card[k].status = "available" /\ SetStatus(k, "dismissed") /\ Dismissed(k)
    /\ UNCHANGED <<world, settings, quota, observation, job, planner, asker, disabling>>

(* disable_category reads the settings, dismisses the card and writes what it*)
(* read, each on its own.                                                    *)
StartDisable(k) ==
    /\ Disturb /\ disabling = NoDisable /\ card[k] # NoCard
    /\ disabling' = [at |-> "dismiss", card |-> k, settings |-> settings]
    /\ UNCHANGED <<now, view, policy, card, job, planner, asker>>

DismissForDisable ==
    /\ disabling.at = "dismiss"
    /\ LET k == disabling.card
           s == card[k].status
       IN \/ s = "available" /\ SetStatus(k, "dismissed") /\ Dismissed(k)
          \/ s = "dismissed" /\ UNCHANGED <<card, paused>>
          \/ s = "accepted" /\ UNCHANGED <<card, paused>>
    /\ disabling' = IF card[disabling.card].status = "accepted" THEN NoDisable
                    ELSE [disabling EXCEPT !.at = "write"]
    /\ UNCHANGED <<world, settings, quota, observation, job, planner, asker>>

FinishDisable ==
    /\ disabling.at = "write" /\ disabling' = NoDisable
    /\ settings' = [disabling.settings EXCEPT !.disabled = @ \cup {card[disabling.card].category}]
    /\ UNCHANGED <<world, quota, observation, paused, card, job, planner, asker>>

(* The Hub starts again: jobs under way have failed.                         *)
SuggestionRestart ==
    /\ Disturb
    /\ job' = [k \in JobKeys |-> IF job[k] \in Active THEN "FAILED_SAFE" ELSE job[k]]
    /\ planner' = Nobody /\ asker' = [a \in Askers |-> Waiting] /\ disabling' = NoDisable
    /\ UNCHANGED <<now, view, policy, card>>

SuggestionNext ==
    \/ Tick \/ CatalogChanges \/ UpdateSettings \/ SuggestionRestart
    \/ DismissForDisable \/ FinishDisable
    \/ \E k \in CardKeys : AcceptCard(k) \/ DismissCard(k) \/ StartDisable(k)
    \/ \E a \in Askers :
         \/ Look(a) \/ Gate(a) \/ AskForStudy(a) \/ BeginJob(a) \/ BindJob(a) \/ AskPlanner(a)
         \/ PlannerAnswers(a) \/ PlannerFails(a) \/ PlannerRaises(a) \/ ValidateJob(a)
         \/ CreateCard(a) \/ CompleteJob(a) \/ JobFails(a)

SuggestionSpec == SuggestionInit /\ [][SuggestionNext]_suggestionVars

------------------------------------------------------------------------------
(* Properties. *)

SuggestionTypeOK ==
    /\ now \in 0..MaxNow /\ view \in Views /\ planner \in Askers \cup {Nobody}
    /\ card \in [CardKeys -> [status : {"none", "available", "accepted", "dismissed"},
                              category : Categories \cup {Nobody}, created : Nat]]
    /\ job \in [JobKeys -> Active \cup {"NONE", "SUCCEEDED", "DEGRADED", "FAILED_SAFE"}]

AtWork(a) == asker[a].at \in {"bind", "plan", "planning", "validate", "create", "complete"}

(* A lease has one holder, whose every transition finds the state it expects,*)
(* whatever the others ask for; and a job that succeeded has made its card.  *)
LeaseIsExclusive ==
    /\ \A a \in Askers : AtWork(a) => job[JobKey(a)] \in Active
    /\ \A a, b \in Askers : a # b /\ AtWork(a) /\ AtWork(b) => JobKey(a) # JobKey(b)
    /\ \A k \in CardKeys : job[k] = "SUCCEEDED" => card[k] # NoCard

CardsOn(d) == {k \in CardKeys : card[k] # NoCard /\ DayOf(card[k].created) = d}

(* No more cards are created in a day than the limit, even by requests that  *)
(* passed the gate together, as long as no request of one day creates its    *)
(* card after a request of the next.                                         *)
WithinDailyLimit ==
    ~quota.late => \A d \in 0..DayOf(MaxNow) : Cardinality(CardsOn(d)) <= DailyLimit

(* The "daily limit of 3" (PROACTIVE_ACTION_CARD_V1.md, section 3) without   *)
(* that condition.  The row holds one day: a card of the day before takes it *)
(* back, and the next one of today is counted from 1 again.                  *)
DailyLimitKept ==
    \A d \in 0..DayOf(MaxNow) : Cardinality(CardsOn(d)) <= DailyLimit

(* A card is created only under the opt-in, outside of pauses and cooldown   *)
(* (PROACTIVE_ACTION_CARD_V1.md, section 3).                                 *)
CreatedUnderGate ==
    [][\A k \in CardKeys : card[k] = NoCard /\ card'[k] # NoCard
        => /\ settings.enabled /\ card'[k].category \notin settings.disabled
           /\ card'[k].created - quota.last >= Cooldown]_suggestionVars

(* A job that is under way has a request that works on it: after a failure   *)
(* the client may observe anew (PROACTIVE_ACTION_CARD_V1.md, section 3).     *)
BusyHasHolder ==
    \A k \in JobKeys : job[k] \in Active => \E a \in Askers : AtWork(a) /\ JobKey(a) = k

(* The user's last word on the settings stands until the user changes them.  *)
CategoryOnlyAdds ==
    [][FinishDisable => settings'.enabled = settings.enabled]_suggestionVars
===============================================================================
