--------------------------- MODULE Proposals_proofs ---------------------------
(* Theorems about what the Hub proposes and does on its own, for any         *)
(* requests, categories, snapshots, limits, messages, files and counts.      *)
(*                                                                           *)
(* ProactiveSuggestions: a job's lease has one holder, a job that is said to *)
(* have succeeded has made its card, and a day has no more cards than its    *)
(* limit while no request comes late over midnight.                          *)
(*                                                                           *)
(* ProductActions over ArchiveMemory: what is remembered rests on evidence,  *)
(* and an action marked completed has its answer in the conversation.        *)
EXTENDS ProactiveSuggestions, ProductActions, FiniteSetTheorems, TLAPS

(* ProactiveSuggestions.                                                     *)

Stages == {"gate", "begin", "bind", "plan", "planning", "validate", "create", "complete"}

Request == [at : Stages, view : Views, digest : SUBSET Categories, now : Int,
            category : Categories \cup {Nobody, "agent"}]

SuggestedCard == [status : {"none", "available", "accepted", "dismissed"},
                  category : Categories \cup {Nobody, "agent"}, created : Int]

JobStates == Active \cup {"NONE", "SUCCEEDED", "DEGRADED", "FAILED_SAFE"}

Types == /\ now \in Nat /\ view \in Views
         /\ asker \in [Askers -> {Waiting} \cup Request]
         /\ card \in [CardKeys -> SuggestedCard]
         /\ job \in [JobKeys -> JobStates]

(* A card's job completes after its card is there.                          *)
CardFirst == \A a \in Askers : asker[a].at = "complete" /\ ~ IsStudy(a) => card[JobKey(a)] # NoCard

LeaseInv == Types /\ LeaseIsExclusive /\ CardFirst

LEMMA KeysAreJobs ==
    ASSUME Types, NEW a \in Askers, asker[a] # Waiting
    PROVE  /\ asker[a] \in Request /\ JobKey(a) \in JobKeys
           /\ IsStudy(a) => JobKey(a) \notin CardKeys
           /\ ~ IsStudy(a) => JobKey(a) \in CardKeys
<1>1. asker[a] \in Request
  BY DEF Types
<1>2. asker[a].view \in Views /\ asker[a].digest \in SUBSET Categories
  BY <1>1 DEF Request
<1>. QED  BY <1>1, <1>2 DEF JobKey, JobKeys, CardKeys, Digests, StudyKey, IsStudy

LEMMA WorkersAreAsking ==
    ASSUME NEW a \in Askers, AtWork(a) \/ asker[a].at \in Stages
    PROVE  asker[a] # Waiting
  BY DEF AtWork, Stages, Waiting

CardsStay == /\ card' \in [CardKeys -> SuggestedCard]
             /\ \A k \in CardKeys : card[k] # NoCard => card'[k] # NoCard

(* A request goes on with its job: s is what becomes of the job.            *)
GoesOn(a, next, s) ==
    /\ asker[a] # Waiting /\ asker' = [asker EXCEPT ![a] = next]
    /\ next = Waiting \/ /\ next \in Request /\ next.view = asker[a].view
                         /\ next.digest = asker[a].digest
    /\ s \in JobStates /\ job' = [job EXCEPT ![JobKey(a)] = s]
    /\ s # job[JobKey(a)] => AtWork(a) \/ job[JobKey(a)] \notin Active
    /\ next # Waiting /\ next.at \notin {"gate", "begin"} =>
          s \in Active /\ (AtWork(a) \/ job[JobKey(a)] \notin Active)
    /\ s = "SUCCEEDED" /\ s # job[JobKey(a)] /\ ~ IsStudy(a) => card'[JobKey(a)] # NoCard
    /\ next # Waiting /\ next.at = "complete" /\ ~ IsStudy(a) => card'[JobKey(a)] # NoCard
    /\ CardsStay /\ UNCHANGED <<now, view>>

LEMMA GoingOnKeeps ==
    ASSUME LeaseInv, NEW a \in Askers, NEW next, NEW s, GoesOn(a, next, s)
    PROVE  LeaseInv'
<1>1. /\ asker[a] \in Request /\ JobKey(a) \in JobKeys
      /\ IsStudy(a) => JobKey(a) \notin CardKeys
      /\ ~ IsStudy(a) => JobKey(a) \in CardKeys
  BY KeysAreJobs DEF LeaseInv, GoesOn
<1>2. Types'
  BY <1>1 DEF LeaseInv, Types, GoesOn, CardsStay
<1>3. /\ asker'[a] = next
      /\ \A b \in Askers \ {a} : asker'[b] = asker[b]
  BY DEF GoesOn, LeaseInv, Types
<1>4. /\ job'[JobKey(a)] = s
      /\ \A k \in JobKeys \ {JobKey(a)} : job'[k] = job[k]
  BY <1>1 DEF GoesOn, LeaseInv, Types
<1>5. ASSUME NEW b \in Askers \ {a}
      PROVE  /\ AtWork(b)' <=> AtWork(b)
             /\ JobKey(b)' = JobKey(b) /\ (IsStudy(b)' <=> IsStudy(b))
  BY <1>3 DEF AtWork, JobKey, IsStudy
<1>6. ASSUME AtWork(a)'
      PROVE  /\ next # Waiting /\ next \in Request /\ JobKey(a)' = JobKey(a)
             /\ s \in Active /\ (AtWork(a) \/ job[JobKey(a)] \notin Active)
  <2>1. next # Waiting
    BY <1>3, <1>6 DEF AtWork, Waiting
  <2>. QED  BY <1>3, <1>6, <2>1 DEF AtWork, JobKey, GoesOn
<1>7. ASSUME NEW b \in Askers \ {a}, AtWork(b)
      PROVE  job'[JobKey(b)] = job[JobKey(b)] /\ job[JobKey(b)] \in Active /\ JobKey(b) \in JobKeys
  <2>1. JobKey(b) \in JobKeys /\ job[JobKey(b)] \in Active
    BY <1>7, KeysAreJobs, WorkersAreAsking DEF LeaseInv, LeaseIsExclusive
  <2>2. CASE JobKey(b) # JobKey(a)
    BY <1>4, <2>1, <2>2
  <2>3. CASE JobKey(b) = JobKey(a)
    BY <1>4, <1>7, <2>1, <2>3 DEF LeaseInv, LeaseIsExclusive, GoesOn
  <2>. QED  BY <2>1, <2>2, <2>3
<1>8. \A b \in Askers : AtWork(b)' => job'[JobKey(b)'] \in Active
  BY <1>4, <1>5, <1>6, <1>7
<1>9. ASSUME NEW b \in Askers, NEW c \in Askers, b # c, AtWork(b)', AtWork(c)'
      PROVE  JobKey(b)' # JobKey(c)'
  <2>1. ASSUME NEW x \in Askers \ {a}, AtWork(x), AtWork(a)' PROVE JobKey(x) # JobKey(a)
    BY <1>6, <1>7, <2>1 DEF LeaseInv, LeaseIsExclusive
  <2>2. CASE b # a /\ c # a
    BY <1>5, <1>9, <2>2 DEF LeaseInv, LeaseIsExclusive
  <2>3. CASE b = a
    BY <1>5, <1>6, <1>9, <2>1, <2>3
  <2>4. CASE c = a
    BY <1>5, <1>6, <1>9, <2>1, <2>4
  <2>. QED  BY <2>2, <2>3, <2>4
<1>10. ASSUME NEW k \in CardKeys, job'[k] = "SUCCEEDED" PROVE card'[k] # NoCard
  <2>1. CASE job[k] = "SUCCEEDED"
    BY <2>1 DEF LeaseInv, LeaseIsExclusive, GoesOn, CardsStay
  <2>2. CASE job[k] # "SUCCEEDED"
    <3>1. k = JobKey(a) /\ s = "SUCCEEDED"
      BY <1>4, <1>10, <2>2 DEF JobKeys
    <3>. QED  BY <1>1, <2>2, <3>1 DEF GoesOn
  <2>. QED  BY <2>1, <2>2
<1>11. LeaseIsExclusive'
  BY <1>8, <1>9, <1>10 DEF LeaseIsExclusive
<1>12. CardFirst'
  <2>1. ASSUME NEW b \in Askers \ {a}, asker[b].at = "complete", ~ IsStudy(b)
        PROVE  card'[JobKey(b)] # NoCard
    <3>1. JobKey(b) \in CardKeys
      BY <2>1, KeysAreJobs, WorkersAreAsking DEF LeaseInv, Stages
    <3>. QED  BY <2>1, <3>1 DEF LeaseInv, CardFirst, GoesOn, CardsStay
  <2>2. ASSUME next.at = "complete", ~ IsStudy(a)'
        PROVE  card'[JobKey(a)'] # NoCard
    <3>1. next # Waiting
      BY <2>2 DEF Waiting
    <3>2. JobKey(a)' = JobKey(a) /\ ~ IsStudy(a)
      BY <1>3, <2>2, <3>1 DEF JobKey, IsStudy, GoesOn
    <3>. QED  BY <2>2, <3>1, <3>2 DEF GoesOn
  <2>. QED  BY <1>3, <1>5, <2>1, <2>2 DEF CardFirst
<1>. QED  BY <1>2, <1>11, <1>12 DEF LeaseInv

LEMMA StartingKeeps ==
    ASSUME LeaseInv, NEW a \in Askers, Look(a) \/ AskForStudy(a)
    PROVE  LeaseInv'
<1>1. PICK next \in Request : /\ next.at \in {"gate", "begin"}
                              /\ asker' = [asker EXCEPT ![a] = next]
                              /\ UNCHANGED <<now, view, card, job>>
  BY DEF Look, AskForStudy, Move, Request, Stages, LeaseInv, Types, world, policy
<1>2. /\ asker'[a] = next /\ \A b \in Askers \ {a} : asker'[b] = asker[b]
      /\ asker' \in [Askers -> {Waiting} \cup Request]
  BY <1>1 DEF LeaseInv, Types
<1>3. ~ AtWork(a)' /\ asker'[a].at # "complete"
  BY <1>1, <1>2 DEF AtWork
<1>4. \A b \in Askers \ {a} : /\ AtWork(b)' <=> AtWork(b)
                              /\ JobKey(b)' = JobKey(b) /\ (IsStudy(b)' <=> IsStudy(b))
  BY <1>2 DEF AtWork, JobKey, IsStudy
<1>5. LeaseIsExclusive'
  BY <1>1, <1>3, <1>4 DEF LeaseInv, LeaseIsExclusive
<1>6. CardFirst'
  BY <1>1, <1>2, <1>3, <1>4 DEF LeaseInv, CardFirst
<1>. QED  BY <1>1, <1>2, <1>5, <1>6 DEF LeaseInv, Types

(* The typical step leaves the cards alone; s is what becomes of the job.   *)
LEMMA WaitingAfter ==
    ASSUME LeaseInv, NEW a \in Askers, asker[a].at \in Stages, NEW s \in JobStates,
           asker' = [asker EXCEPT ![a] = Waiting], job' = [job EXCEPT ![JobKey(a)] = s],
           s = job[JobKey(a)] \/ AtWork(a),
           s = "SUCCEEDED" => IsStudy(a) \/ card[JobKey(a)] # NoCard
                              \/ s = job[JobKey(a)],
           UNCHANGED <<now, view, card>>
    PROVE  LeaseInv'
<1>1. asker[a] # Waiting
  BY WorkersAreAsking
<1>2. CardsStay
  BY DEF CardsStay, LeaseInv, Types
<1>3. GoesOn(a, Waiting, s)
  BY <1>1, <1>2 DEF GoesOn
<1>. QED  BY <1>3, GoingOnKeeps

LEMMA StageAfter ==
    ASSUME LeaseInv, NEW a \in Askers, asker[a].at \in Stages, NEW s \in JobStates,
           NEW at \in Stages, NEW k \in Categories \cup {Nobody, "agent"},
           asker' = [asker EXCEPT ![a] = [asker[a] EXCEPT !.at = at, !.category = k]],
           job' = [job EXCEPT ![JobKey(a)] = s],
           s = job[JobKey(a)] \/ s # "SUCCEEDED",
           s # job[JobKey(a)] => AtWork(a) \/ job[JobKey(a)] \notin Active,
           at \notin {"gate", "begin"} =>
              s \in Active /\ (AtWork(a) \/ job[JobKey(a)] \notin Active),
           at = "complete" /\ ~ IsStudy(a) => card'[JobKey(a)] # NoCard,
           CardsStay, UNCHANGED <<now, view>>
    PROVE  LeaseInv'
<1>. DEFINE next == [asker[a] EXCEPT !.at = at, !.category = k]
<1>1. asker[a] # Waiting
  BY WorkersAreAsking
<1>2. asker[a] \in Request
  BY <1>1, KeysAreJobs DEF LeaseInv
<1>3. /\ next \in Request /\ next.view = asker[a].view /\ next.digest = asker[a].digest
      /\ next.at = at
  BY <1>2 DEF Request
<1>4. GoesOn(a, next, s)
  <2>. HIDE DEF next
  <2>1. asker' = [asker EXCEPT ![a] = next]
    BY DEF next
  <2>. QED  BY <1>1, <1>3, <2>1 DEF GoesOn
<1>. QED  BY <1>4, GoingOnKeeps

LEMMA SameJob ==
    ASSUME LeaseInv, NEW a \in Askers, asker[a].at \in Stages
    PROVE  /\ job = [job EXCEPT ![JobKey(a)] = job[JobKey(a)]]
           /\ job[JobKey(a)] \in JobStates /\ JobKey(a) \in JobKeys
           /\ AtWork(a) => job[JobKey(a)] \in Active
           /\ UNCHANGED card => CardsStay
           /\ asker[a] \in Request
           /\ \A at \in Stages : [asker[a] EXCEPT !.at = at] =
                                 [asker[a] EXCEPT !.at = at, !.category = asker[a].category]
           /\ asker[a].category \in Categories \cup {Nobody, "agent"}
<1>1. asker[a] # Waiting
  BY WorkersAreAsking
<1>2. asker[a] \in Request /\ JobKey(a) \in JobKeys
  BY <1>1, KeysAreJobs DEF LeaseInv
<1>3. \A at \in Stages : [asker[a] EXCEPT !.at = at] =
                         [asker[a] EXCEPT !.at = at, !.category = asker[a].category]
  BY <1>2 DEF Request
<1>4. asker[a].category \in Categories \cup {Nobody, "agent"}
  BY <1>2 DEF Request
<1>. QED  BY <1>2, <1>3, <1>4 DEF LeaseInv, Types, LeaseIsExclusive, CardsStay

LEMMA GateKeeps ==
    ASSUME LeaseInv, NEW a \in Askers, Gate(a)
    PROVE  LeaseInv'
<1>1. asker[a].at = "gate" /\ UNCHANGED <<now, view, card, job>>
  BY DEF Gate, world
<1>2. CASE asker' = [asker EXCEPT ![a] = Waiting]
  BY <1>1, <1>2, SameJob, WaitingAfter DEF Stages
<1>3. CASE asker' = [asker EXCEPT ![a] = [asker[a] EXCEPT !.at = "begin"]]
  BY <1>1, <1>3, SameJob, StageAfter DEF Stages
<1>. QED  BY <1>2, <1>3 DEF Gate, Move

LEMMA BeginJobKeeps ==
    ASSUME LeaseInv, NEW a \in Askers, BeginJob(a)
    PROVE  LeaseInv'
<1>1. asker[a].at = "begin" /\ UNCHANGED <<now, view, card>>
  BY DEF BeginJob, world
<1>2. CASE asker' = [asker EXCEPT ![a] = Waiting] /\ UNCHANGED job
  BY <1>1, <1>2, SameJob, WaitingAfter DEF Stages
<1>3. CASE /\ job[JobKey(a)] \notin Active /\ job' = [job EXCEPT ![JobKey(a)] = "QUEUED"]
           /\ asker' = [asker EXCEPT ![a] = [asker[a] EXCEPT !.at = "bind"]]
  BY <1>1, <1>3, SameJob, StageAfter DEF Stages, JobStates, Active
<1>. QED  BY <1>2, <1>3 DEF BeginJob, Move, SetJob

LEMMA BindJobKeeps ==
    ASSUME LeaseInv, NEW a \in Askers, BindJob(a)
    PROVE  LeaseInv'
<1>1. /\ asker[a].at = "bind" /\ UNCHANGED <<now, view, card>>
      /\ job' = [job EXCEPT ![JobKey(a)] = "RUNNING"]
      /\ asker' = [asker EXCEPT ![a] = [asker[a] EXCEPT !.at = "plan"]]
  BY DEF BindJob, world, Move, SetJob
<1>. QED  BY <1>1, SameJob, StageAfter DEF Stages, JobStates, Active, AtWork

LEMMA WithoutAgentKeeps ==
    ASSUME LeaseInv, NEW a \in Askers, asker[a].at \in {"plan", "planning"}, WithoutAgent(a),
           UNCHANGED <<now, view, card>>
    PROVE  LeaseInv'
<1>1. CASE asker' = [asker EXCEPT ![a] = [asker[a] EXCEPT !.at = "validate"]] /\ UNCHANGED job
  BY <1>1, SameJob, StageAfter DEF Stages, AtWork
<1>2. CASE /\ job' = [job EXCEPT ![JobKey(a)] = "FAILED_SAFE"]
           /\ asker' = [asker EXCEPT ![a] = Waiting]
  BY <1>2, SameJob, WaitingAfter DEF Stages, JobStates, AtWork
<1>. QED  BY <1>1, <1>2 DEF WithoutAgent, Move, SetJob

LEMMA PlannerKeeps ==
    ASSUME LeaseInv, NEW a \in Askers,
           AskPlanner(a) \/ PlannerAnswers(a) \/ PlannerFails(a) \/ PlannerRaises(a)
    PROVE  LeaseInv'
<1>1. CASE AskPlanner(a)
  <2>1. asker[a].at = "plan" /\ UNCHANGED <<now, view, card>>
    BY <1>1 DEF AskPlanner, world
  <2>2. CASE asker' = [asker EXCEPT ![a] = [asker[a] EXCEPT !.at = "planning"]] /\ UNCHANGED job
    BY <2>1, <2>2, SameJob, StageAfter DEF Stages, AtWork
  <2>. QED  BY <1>1, <2>1, <2>2, WithoutAgentKeeps DEF AskPlanner, Move
<1>2. CASE PlannerAnswers(a)
  <2>1. asker[a].at = "planning" /\ UNCHANGED <<now, view, card, job>>
    BY <1>2 DEF PlannerAnswers, world
  <2>2. PICK k \in asker[a].digest \cup (IF IsStudy(a) THEN {"agent"} ELSE {}) :
          asker' = [asker EXCEPT ![a] = [asker[a] EXCEPT !.at = "validate", !.category = k]]
    BY <1>2 DEF PlannerAnswers, Move
  <2>3. k \in Categories \cup {Nobody, "agent"}
    BY <2>1, <2>2, SameJob DEF Stages, Request
  <2>. QED  BY <2>1, <2>2, <2>3, SameJob, StageAfter DEF Stages, AtWork
<1>3. CASE PlannerFails(a)
  BY <1>3, WithoutAgentKeeps DEF PlannerFails, world
<1>4. CASE PlannerRaises(a)
  <2>1. /\ asker[a].at = "planning" /\ UNCHANGED <<now, view, card, job>>
        /\ asker' = [asker EXCEPT ![a] = Waiting]
    BY <1>4 DEF PlannerRaises, Move
  <2>. QED  BY <2>1, SameJob, WaitingAfter DEF Stages
<1>. QED  BY <1>1, <1>2, <1>3, <1>4

LEMMA ValidateJobKeeps ==
    ASSUME LeaseInv, NEW a \in Askers, ValidateJob(a)
    PROVE  LeaseInv'
<1>. DEFINE at == IF IsStudy(a) THEN "complete" ELSE "create"
<1>1. /\ asker[a].at = "validate" /\ UNCHANGED <<now, view, card>>
      /\ job' = [job EXCEPT ![JobKey(a)] = "VALIDATING"]
      /\ asker' = [asker EXCEPT ![a] = [asker[a] EXCEPT !.at = at]]
  BY DEF ValidateJob, world, Move, SetJob
<1>2. at \in Stages \ {"gate", "begin"} /\ (at = "complete" => IsStudy(a))
  BY DEF Stages
<1>. HIDE DEF at
<1>. QED  BY <1>1, <1>2, SameJob, StageAfter DEF Stages, JobStates, Active, AtWork

LEMMA CreateCardKeeps ==
    ASSUME LeaseInv, NEW a \in Askers, CreateCard(a)
    PROVE  LeaseInv'
<1>. DEFINE new == [status |-> "available", category |-> asker[a].category,
                    created |-> asker[a].now]
            key == JobKey(a)
<1>1. asker[a].at = "create" /\ UNCHANGED <<now, view>> /\ AtWork(a)
  BY DEF CreateCard, world, AtWork
<1>2. CASE /\ card[key] # NoCard /\ UNCHANGED <<card, job>>
           /\ asker' = [asker EXCEPT ![a] = [asker[a] EXCEPT !.at = "complete"]]
  BY <1>1, <1>2, SameJob, StageAfter DEF Stages
<1>3. CASE /\ card[key] = NoCard /\ card' = [card EXCEPT ![key] = new] /\ UNCHANGED job
           /\ asker' = [asker EXCEPT ![a] = [asker[a] EXCEPT !.at = "complete"]]
  <2>1. new \in SuggestedCard
    BY <1>1, SameJob DEF Stages, Request, SuggestedCard
  <2>2. new # NoCard
    BY DEF NoCard
  <2>. HIDE DEF new
  <2>3. card \in [CardKeys -> SuggestedCard]
    BY DEF LeaseInv, Types
  <2>4. CardsStay
    BY <1>3, <2>1, <2>2, <2>3 DEF CardsStay
  <2>5. ~ IsStudy(a) => card'[key] # NoCard
    BY <1>1, <1>3, <2>2, <2>3, KeysAreJobs, WorkersAreAsking DEF LeaseInv
  <2>. QED  BY <1>1, <1>3, <2>4, <2>5, SameJob, StageAfter DEF Stages
<1>4. CASE /\ job' = [job EXCEPT ![key] = "FAILED_SAFE"] /\ UNCHANGED card
           /\ asker' = [asker EXCEPT ![a] = Waiting]
  BY <1>1, <1>4, WaitingAfter DEF Stages, JobStates
<1>. QED  BY <1>2, <1>3, <1>4 DEF CreateCard, Move, SetJob

LEMMA CompleteJobKeeps ==
    ASSUME LeaseInv, NEW a \in Askers, CompleteJob(a)
    PROVE  LeaseInv'
<1>. DEFINE s == IF IsStudy(a) /\ asker[a].category = Nobody THEN "DEGRADED" ELSE "SUCCEEDED"
<1>1. /\ asker[a].at = "complete" /\ UNCHANGED <<now, view, card>> /\ AtWork(a)
      /\ job' = [job EXCEPT ![JobKey(a)] = s]
      /\ asker' = [asker EXCEPT ![a] = Waiting]
  BY DEF CompleteJob, world, Move, SetJob, AtWork
<1>2. s \in JobStates
  BY DEF JobStates
<1>3. IsStudy(a) \/ card[JobKey(a)] # NoCard
  BY <1>1 DEF LeaseInv, CardFirst
<1>. HIDE DEF s
<1>. QED  BY <1>1, <1>2, <1>3, WaitingAfter DEF Stages

LEMMA JobFailsKeeps ==
    ASSUME LeaseInv, NEW a \in Askers, JobFails(a)
    PROVE  LeaseInv'
<1>1. /\ asker[a].at \in {"bind", "validate", "create", "complete"} /\ AtWork(a)
      /\ UNCHANGED <<now, view, card>>
      /\ job' = [job EXCEPT ![JobKey(a)] = "FAILED_SAFE"]
      /\ asker' = [asker EXCEPT ![a] = Waiting]
  BY DEF JobFails, Move, SetJob, AtWork
<1>. QED  BY <1>1, WaitingAfter DEF Stages, JobStates

(* What happens to the cards and the world beside the jobs.                 *)
LEMMA AsideKeeps ==
    ASSUME LeaseInv, UNCHANGED <<asker, job>>, CardsStay, now' \in Nat, view' \in Views
    PROVE  LeaseInv'
<1>1. Types'
  BY DEF LeaseInv, Types, CardsStay
<1>2. LeaseIsExclusive'
  BY DEF LeaseInv, LeaseIsExclusive, AtWork, JobKey, CardsStay
<1>3. CardFirst'
  <2>1. ASSUME NEW a \in Askers, asker[a].at = "complete", ~ IsStudy(a)
        PROVE  card'[JobKey(a)] # NoCard
    <3>1. JobKey(a) \in CardKeys
      BY <2>1, KeysAreJobs, WorkersAreAsking DEF LeaseInv, Stages
    <3>. QED  BY <2>1, <3>1 DEF LeaseInv, CardFirst, CardsStay
  <2>. QED  BY <2>1 DEF CardFirst, IsStudy, JobKey
<1>. QED  BY <1>1, <1>2, <1>3 DEF LeaseInv

LEMMA StatusStays ==
    ASSUME LeaseInv, NEW k \in CardKeys, NEW s \in {"accepted", "dismissed"}, SetStatus(k, s)
    PROVE  CardsStay
<1>1. card \in [CardKeys -> SuggestedCard] /\ card' = [card EXCEPT ![k].status = s]
  BY DEF LeaseInv, Types, SetStatus
<1>2. /\ [card[k] EXCEPT !.status = s] \in SuggestedCard
      /\ [card[k] EXCEPT !.status = s].status # "none"
  BY <1>1 DEF SuggestedCard
<1>3. card' \in [CardKeys -> SuggestedCard] /\ \A x \in CardKeys \ {k} : card'[x] = card[x]
  BY <1>1, <1>2
<1>4. card'[k] # NoCard
  BY <1>1, <1>2 DEF NoCard
<1>. QED  BY <1>3, <1>4 DEF CardsStay

LEMMA CardsKeep ==
    ASSUME LeaseInv, NEW k \in CardKeys, AcceptCard(k) \/ DismissCard(k) \/ StartDisable(k)
    PROVE  LeaseInv'
<1>1. UNCHANGED <<asker, job, now, view>>
  BY DEF AcceptCard, DismissCard, StartDisable, world
<1>2. CardsStay
  BY StatusStays DEF AcceptCard, DismissCard, StartDisable, CardsStay, LeaseInv, Types
<1>. QED  BY <1>1, <1>2, AsideKeeps DEF LeaseInv, Types

LEMMA SettingsKeep ==
    ASSUME SuggestionAssumption, LeaseInv,
           \/ Tick \/ CatalogChanges \/ UpdateSettings \/ FinishDisable
           \/ UNCHANGED suggestionVars
    PROVE  LeaseInv'
<1>1. UNCHANGED <<asker, job, card>> /\ now' \in Nat /\ view' \in Views
  BY DEF Tick, CatalogChanges, UpdateSettings, FinishDisable, suggestionVars, world, work,
         LeaseInv, Types
<1>2. CardsStay
  BY <1>1 DEF CardsStay, LeaseInv, Types
<1>. QED  BY <1>1, <1>2, AsideKeeps

LEMMA SuggestionRestartKeeps ==
    ASSUME LeaseInv, SuggestionRestart
    PROVE  LeaseInv'
<1>1. /\ asker' = [a \in Askers |-> Waiting] /\ UNCHANGED <<now, view, card>>
      /\ job' = [k \in JobKeys |-> IF job[k] \in Active THEN "FAILED_SAFE" ELSE job[k]]
  BY DEF SuggestionRestart, policy
<1>2. \A a \in Askers : asker'[a].at = "idle"
  BY <1>1 DEF Waiting
<1>3. Types'
  BY <1>1 DEF LeaseInv, Types, JobStates
<1>4. LeaseIsExclusive' /\ CardFirst'
  BY <1>1, <1>2 DEF LeaseInv, LeaseIsExclusive, AtWork, CardFirst, JobKeys
<1>. QED  BY <1>3, <1>4 DEF LeaseInv

LEMMA DismissForDisableKeeps ==
    ASSUME LeaseInv, DismissForDisable
    PROVE  LeaseInv'
<1>1. UNCHANGED <<asker, job, now, view>>
  BY DEF DismissForDisable, world
<1>2. UNCHANGED card \/ SetStatus(disabling.card, "dismissed")
  BY DEF DismissForDisable
<1>3. CardsStay
  <2>1. CASE disabling.card \in CardKeys
    BY <1>2, <2>1, StatusStays DEF CardsStay, LeaseInv, Types
  <2>2. CASE disabling.card \notin CardKeys
    BY <1>2, <2>2 DEF CardsStay, SetStatus, LeaseInv, Types
  <2>. QED  BY <2>1, <2>2
<1>. QED  BY <1>1, <1>3, AsideKeeps DEF LeaseInv, Types

LEMMA SuggestionInitial == ASSUME SuggestionInit PROVE LeaseInv
<1>1. \A a \in Askers : asker[a].at = "idle"
  BY DEF SuggestionInit, Waiting
<1>2. Types
  BY DEF SuggestionInit, Types, NoCard, SuggestedCard, JobStates
<1>3. LeaseIsExclusive /\ CardFirst
  BY <1>1 DEF SuggestionInit, LeaseIsExclusive, AtWork, CardFirst, JobKeys
<1>. QED  BY <1>2, <1>3 DEF LeaseInv

LEMMA SuggestionStep == LeaseInv /\ [SuggestionNext]_suggestionVars => LeaseInv'
<1>. SUFFICES ASSUME LeaseInv, [SuggestionNext]_suggestionVars PROVE LeaseInv'
  OBVIOUS
<1>1. ASSUME NEW a \in Askers,
             \/ Look(a) \/ Gate(a) \/ AskForStudy(a) \/ BeginJob(a) \/ BindJob(a)
             \/ AskPlanner(a) \/ PlannerAnswers(a) \/ PlannerFails(a) \/ PlannerRaises(a)
             \/ ValidateJob(a) \/ CreateCard(a) \/ CompleteJob(a) \/ JobFails(a)
      PROVE  LeaseInv'
  BY <1>1, StartingKeeps, GateKeeps, BeginJobKeeps, BindJobKeeps, PlannerKeeps,
     ValidateJobKeeps, CreateCardKeeps, CompleteJobKeeps, JobFailsKeeps
<1>2. ASSUME NEW k \in CardKeys, AcceptCard(k) \/ DismissCard(k) \/ StartDisable(k)
      PROVE  LeaseInv'
  BY <1>2, CardsKeep
<1>. QED
  BY <1>1, <1>2, SettingsKeep, SuggestionRestartKeeps, DismissForDisableKeeps, SuggestionAssumption
  DEF SuggestionNext

------------------------------------------------------------------------------
(* The daily limit.  The row of the settings counts at least the cards of    *)
(* its day, and no card is of a later one; so a request of a new day, which  *)
(* is counted from 1, is the first of it.  A late request breaks just that.  *)

QuotaInv ==
    /\ quota \in [day : Int, count : Nat, last : Int, late : BOOLEAN]
    /\ \A d \in Int : IsFiniteSet(CardsOn(d))
    /\ ~ quota.late =>
         /\ quota.count <= DailyLimit
         /\ Cardinality(CardsOn(quota.day)) <= quota.count
         /\ \A d \in Int : Cardinality(CardsOn(d)) <= DailyLimit
         /\ \A d \in Int : d > quota.day => CardsOn(d) = {}

LEMMA OneMore ==
    ASSUME NEW S, IsFiniteSet(S), NEW x, NEW T \in SUBSET (S \cup {x})
    PROVE  /\ IsFiniteSet(T) /\ Cardinality(T) \in Nat /\ Cardinality(S) \in Nat
           /\ Cardinality(T) <= Cardinality(S) + 1
<1>1. IsFiniteSet(S \cup {x}) /\ Cardinality(S \cup {x}) \in Nat
      /\ Cardinality(S) \in Nat /\ Cardinality(S \cup {x}) <= Cardinality(S) + 1
  BY FS_AddElement, FS_CardinalityType
<1>2. IsFiniteSet(T) /\ Cardinality(T) \in Nat /\ Cardinality(T) <= Cardinality(S \cup {x})
  BY <1>1, FS_Subset, FS_CardinalityType
<1>. QED  BY <1>1, <1>2

LEMMA DaysAreIntegers == ASSUME NEW t \in Int PROVE DayOf(t) \in Int
  BY SuggestionAssumption DEF DayOf

(* Steps that create no card.                                                *)
DatesStay == /\ UNCHANGED quota
             /\ \A k \in CardKeys : /\ card'[k] = NoCard <=> card[k] = NoCard
                                    /\ card'[k].created = card[k].created

LEMMA DatesKeepQuota ==
    ASSUME QuotaInv, DatesStay
    PROVE  QuotaInv'
<1>1. \A d : CardsOn(d)' = CardsOn(d)
  BY DEF DatesStay, CardsOn, DayOf
<1>2. quota' = quota
  BY DEF DatesStay
<1>. QED  BY <1>1, <1>2 DEF QuotaInv

LEMMA StatusKeepsDates ==
    ASSUME LeaseInv, NEW k \in CardKeys, NEW s \in {"accepted", "dismissed"}, SetStatus(k, s),
           card[k] # NoCard
    PROVE  \A x \in CardKeys : /\ card'[x] = NoCard <=> card[x] = NoCard
                               /\ card'[x].created = card[x].created
<1>1. card \in [CardKeys -> SuggestedCard] /\ card' = [card EXCEPT ![k].status = s]
  BY DEF LeaseInv, Types, SetStatus
<1>2. /\ [card[k] EXCEPT !.status = s].status # "none"
      /\ [card[k] EXCEPT !.status = s].created = card[k].created
  BY <1>1 DEF SuggestedCard
<1>3. card'[k] # NoCard /\ card'[k].created = card[k].created
  BY <1>1, <1>2 DEF NoCard
<1>. QED  BY <1>1, <1>3

LEMMA NoCardIsNew == NoCard.status = "none"
  BY DEF NoCard

LEMMA OthersKeepDates ==
    ASSUME LeaseInv, [SuggestionNext]_suggestionVars,
           \A a \in Askers : CreateCard(a) => UNCHANGED <<card, quota>>
    PROVE  DatesStay
<1>1. CASE UNCHANGED <<card, quota>>
  BY <1>1 DEF DatesStay
<1>2. ASSUME NEW k \in CardKeys, AcceptCard(k) \/ DismissCard(k)
      PROVE  DatesStay
  <2>1. card[k] # NoCard /\ UNCHANGED quota
    BY <1>2, NoCardIsNew DEF AcceptCard, DismissCard
  <2>. QED  BY <1>2, <2>1, StatusKeepsDates DEF AcceptCard, DismissCard, DatesStay
<1>3. CASE DismissForDisable
  <2>1. UNCHANGED quota
    BY <1>3 DEF DismissForDisable
  <2>2. CASE UNCHANGED card
    BY <1>1, <2>1, <2>2
  <2>3. CASE card[disabling.card].status = "available" /\ SetStatus(disabling.card, "dismissed")
    <3>1. CASE disabling.card \in CardKeys
      BY <2>1, <2>3, <3>1, NoCardIsNew, StatusKeepsDates DEF DatesStay
    <3>2. CASE disabling.card \notin CardKeys
      BY <2>1, <2>3, <3>2 DEF DatesStay, SetStatus, LeaseInv, Types
    <3>. QED  BY <3>1, <3>2
  <2>. QED  BY <1>3, <2>2, <2>3 DEF DismissForDisable
<1>4. CASE \/ Tick \/ CatalogChanges \/ UpdateSettings \/ SuggestionRestart \/ FinishDisable
           \/ \E k \in CardKeys : StartDisable(k)
           \/ UNCHANGED suggestionVars
  BY <1>1, <1>4 DEF Tick, CatalogChanges, UpdateSettings, SuggestionRestart, FinishDisable,
       StartDisable, suggestionVars, policy, work
<1>5. ASSUME NEW a \in Askers,
             \/ Look(a) \/ Gate(a) \/ AskForStudy(a) \/ BeginJob(a) \/ BindJob(a)
             \/ AskPlanner(a) \/ PlannerAnswers(a) \/ PlannerFails(a) \/ PlannerRaises(a)
             \/ ValidateJob(a) \/ CreateCard(a) \/ CompleteJob(a) \/ JobFails(a)
      PROVE  DatesStay
  BY <1>1, <1>5 DEF Look, Gate, AskForStudy, BeginJob, BindJob, AskPlanner, PlannerAnswers,
       PlannerFails, PlannerRaises, ValidateJob, CompleteJob, JobFails, policy
<1>. QED  BY <1>2, <1>3, <1>4, <1>5 DEF SuggestionNext

(* A card is created and counted.                                            *)
LEMMA CountingKeepsQuota ==
    ASSUME SuggestionAssumption, LeaseInv, QuotaInv, NEW a \in Askers, CreateCard(a),
           ~ UNCHANGED <<card, quota>>
    PROVE  QuotaInv'
<1>0. asker[a].now \in Int
  BY KeysAreJobs, WorkersAreAsking DEF CreateCard, LeaseInv, Stages, Request
<1>. PICK t \in Int : t = asker[a].now
  BY <1>0
<1>. PICK day \in Int : day = DayOf(t)
  BY DaysAreIntegers
<1>. DEFINE key == JobKey(a)
            new == [status |-> "available", category |-> asker[a].category, created |-> t]
            count == CountOn(day) + 1
<1>2. /\ card' = [card EXCEPT ![key] = new] /\ count <= DailyLimit
      /\ quota' = [day |-> day, count |-> count, last |-> t,
                   late |-> quota.late \/ day < quota.day]
  BY DEF CreateCard, Counted
<1>3. count \in Nat /\ quota.day \in Int /\ quota.late \in BOOLEAN
  BY DEF QuotaInv, CountOn
<1>4. quota' \in [day : Int, count : Nat, last : Int, late : BOOLEAN]
  BY <1>2, <1>3
<1>5. /\ quota'.day = day /\ quota'.count = count
      /\ quota'.late <=> quota.late \/ day < quota.day
  BY <1>2
<1>6. ASSUME NEW d \in Int
      PROVE  /\ d # day => CardsOn(d)' \in SUBSET CardsOn(d)
             /\ CardsOn(d)' \in SUBSET (CardsOn(d) \cup {key})
  <2>1. \A k \in CardKeys : k # key => card'[k] = card[k]
    BY <1>2 DEF LeaseInv, Types
  <2>2. key \in CardKeys => card'[key].created = t
    BY <1>2 DEF LeaseInv, Types
  <2>. QED  BY <2>1, <2>2 DEF CardsOn, DayOf
<1>. HIDE DEF key, new, count
<1>7. \A d \in Int : /\ IsFiniteSet(CardsOn(d)') /\ Cardinality(CardsOn(d)') \in Nat
                     /\ Cardinality(CardsOn(d)) \in Nat
                     /\ Cardinality(CardsOn(d)') <= Cardinality(CardsOn(d)) + 1
  BY <1>6, OneMore DEF QuotaInv
<1>8. \A d \in Int : d # day => Cardinality(CardsOn(d)') <= Cardinality(CardsOn(d))
  BY <1>6, FS_Subset DEF QuotaInv
<1>9. ASSUME ~ quota'.late
      PROVE  /\ Cardinality(CardsOn(day)') <= count
             /\ \A d \in Int : d > day => CardsOn(d)' = {}
             /\ \A d \in Int : Cardinality(CardsOn(d)') <= DailyLimit
  <2>1. ~ quota.late /\ day >= quota.day
    BY <1>3, <1>5, <1>9
  <2>2. \A d \in Int : d > day => CardsOn(d)' = {}
    BY <1>3, <1>6, <2>1 DEF QuotaInv
  <2>3. ASSUME day = quota.day
        PROVE  Cardinality(CardsOn(day)') <= count
    <3>1. count = quota.count + 1 /\ quota.count \in Nat
      BY <2>3 DEF count, CountOn, QuotaInv
    <3>2. Cardinality(CardsOn(day)) <= quota.count
      BY <2>1, <2>3 DEF QuotaInv
    <3>. QED  BY <1>7, <3>1, <3>2
  <2>4. ASSUME day > quota.day
        PROVE  Cardinality(CardsOn(day)') <= count
    <3>1. count = 1
      BY <1>3, <2>4 DEF count, CountOn
    <3>2. CardsOn(day) = {}
      BY <2>1, <2>4 DEF QuotaInv
    <3>3. Cardinality(CardsOn(day)) = 0
      BY <3>2, FS_EmptySet
    <3>. QED  BY <1>7, <3>1, <3>3
  <2>5. Cardinality(CardsOn(day)') <= count
    BY <1>3, <2>1, <2>3, <2>4
  <2>6. ASSUME NEW d \in Int
        PROVE  Cardinality(CardsOn(d)') <= DailyLimit
    <3>1. CASE d = day
      BY <1>2, <1>3, <1>7, <2>5, <3>1, SuggestionAssumption
    <3>2. CASE d # day
      BY <1>7, <1>8, <2>1, <3>2, SuggestionAssumption DEF QuotaInv
    <3>. QED  BY <3>1, <3>2
  <2>. QED  BY <2>2, <2>5, <2>6
<1>. QED  BY <1>2, <1>4, <1>5, <1>7, <1>9 DEF QuotaInv

LEMMA QuotaInitial == SuggestionInit => QuotaInv
<1>. SUFFICES ASSUME SuggestionInit PROVE QuotaInv
  OBVIOUS
<1>1. \A d : CardsOn(d) = {}
  BY DEF SuggestionInit, CardsOn
<1>2. /\ quota \in [day : Int, count : Nat, last : Int, late : BOOLEAN]
      /\ quota.count = 0 /\ quota.day \in Int
  BY SuggestionAssumption DEF SuggestionInit
<1>. QED  BY <1>1, <1>2, FS_EmptySet, SuggestionAssumption DEF QuotaInv

------------------------------------------------------------------------------
(* The theorems. *)

(* The strengthened invariant of the job leases: beside the property itself *)
(* that a card is there before its job completes.                           *)
THEOREM LeaseInvariant == SuggestionSpec => []LeaseInv
  BY SuggestionInitial, SuggestionStep, PTL DEF SuggestionSpec

(* For any number of requests that observe, generate, fail, raise and are   *)
(* cut off by restarts: no two work on one job, each finds its job where it *)
(* left it, and success means that the card was made (AutonomyJobStore      *)
(* begin, transition, complete, fail_safe; ProactiveSuggestionStore.create).*)
THEOREM OneHolderPerLease == SuggestionSpec => []LeaseIsExclusive
  BY LeaseInvariant, PTL DEF LeaseInv

(* proactive_settings counts what proactive_suggestion holds, whichever      *)
(* requests passed the gate together.                                        *)
THEOREM QuotaInvariant == SuggestionSpec => []QuotaInv
<1>1. LeaseInv /\ QuotaInv /\ [SuggestionNext]_suggestionVars => QuotaInv'
  BY SuggestionAssumption, CountingKeepsQuota, OthersKeepDates, DatesKeepQuota
<1>. QED  BY <1>1, QuotaInitial, LeaseInvariant, PTL DEF SuggestionSpec

(* ProactiveSuggestionStore.gate and create: the daily limit holds, for any  *)
(* number of requests between their gate and their card, as long as none of  *)
(* them creates a card for a day the row has left (DailyLimitKept says what  *)
(* happens otherwise).                                                       *)
THEOREM LimitHolds == SuggestionSpec => []WithinDailyLimit
<1>1. QuotaInv => WithinDailyLimit
  <2>1. \A d \in 0..DayOf(MaxNow) : d \in Int
    OBVIOUS
  <2>. QED  BY <2>1 DEF QuotaInv, WithinDailyLimit
<1>. QED  BY <1>1, QuotaInvariant, PTL

-------------------------------------------------------------------------------
(* ProductActions and ArchiveMemory.                                         *)

(* The transactions of the memory. *)
MemoryStep ==
    \/ \E m \in Messages : Suggest(m) \/ Reject(m) \/ Accept(m, TRUE) \/ Accept(m, FALSE)
    \/ Approve
    \/ Forget

MemoryInv == MemoryTypeOK /\ UsedOnEvidence

------------------------------------------------------------------------------
(* The memory. *)

(* Evidence is a set of messages, so it is finite and counting is monotone. *)
LEMMA EvidenceGrows ==
    ASSUME MemoryTypeOK, NEW m \in Messages
    PROVE  /\ Cardinality(evidence) \in Nat
           /\ Cardinality(evidence \cup {m}) \in Nat
           /\ Cardinality(evidence \cup {m}) >= Cardinality(evidence)
<1>1. IsFiniteSet(evidence) /\ IsFiniteSet(evidence \cup {m})
  BY FS_Subset, MemoryAssumption DEF MemoryTypeOK
<1>2. evidence \subseteq evidence \cup {m}
  OBVIOUS
<1>. QED  BY <1>1, <1>2, FS_CardinalityType, FS_Subset

LEMMA SuggestKeeps ==
    ASSUME MemoryInv, NEW m \in Messages, Suggest(m)
    PROVE  MemoryInv'
<1>1. MemoryTypeOK'
  BY DEF MemoryInv, MemoryTypeOK, Suggest
<1>2. \A k \in evidence : suggestion'[k] = "accepted"
  BY DEF MemoryInv, MemoryTypeOK, UsedOnEvidence, Suggest
<1>. QED  BY <1>1, <1>2 DEF MemoryInv, UsedOnEvidence, Suggest

LEMMA RejectKeeps ==
    ASSUME MemoryInv, NEW m \in Messages, Reject(m)
    PROVE  MemoryInv'
<1>1. MemoryTypeOK'
  BY DEF MemoryInv, MemoryTypeOK, Reject
<1>2. m \notin evidence
  BY DEF MemoryInv, UsedOnEvidence, Reject, CanReject
<1>. QED  BY <1>1, <1>2 DEF MemoryInv, MemoryTypeOK, UsedOnEvidence, Reject

(* A preference that is active stays so, on more evidence than before; any  *)
(* other one is counted anew.                                               *)
LEMMA AcceptKeeps ==
    ASSUME MemoryInv, NEW m \in Messages, NEW relearn \in BOOLEAN, Accept(m, relearn)
    PROVE  MemoryInv'
<1>. USE DEF MemoryInv
<1>1. MemoryTypeOK'
  BY DEF MemoryTypeOK, Accept, Learnt, Gathered
<1>2. \A k \in evidence' : suggestion'[k] = "accepted"
  BY DEF MemoryTypeOK, UsedOnEvidence, Accept, Gathered
<1>3. ASSUME memory'.status \in {"candidate", "active"} PROVE Cardinality(evidence') >= Threshold
  <2>1. CASE memory.status = "active"
    <3>1. evidence' = evidence \cup {m}
      BY <2>1 DEF Accept, Gathered
    <3>2. Cardinality(evidence) >= Threshold
      BY <2>1 DEF UsedOnEvidence
    <3>. QED  BY <3>1, <3>2, EvidenceGrows, MemoryAssumption
  <2>2. CASE memory.status # "active"
    BY <1>3, <2>2 DEF Accept, Learnt
  <2>. QED  BY <2>1, <2>2
<1>. QED  BY <1>1, <1>2, <1>3 DEF UsedOnEvidence

LEMMA TransitionKeeps ==
    ASSUME MemoryInv, NEW status, Transition(status),
           \/ status = "active" /\ CanApprove
           \/ status = "forgotten"
    PROVE  MemoryInv'
  BY DEF MemoryInv, MemoryTypeOK, UsedOnEvidence, Transition, CanApprove

LEMMA MemoryStepKeeps == MemoryInv /\ MemoryStep => MemoryInv'
<1>. SUFFICES ASSUME MemoryInv, MemoryStep PROVE MemoryInv'
  OBVIOUS
<1>1. CASE \E m \in Messages : Suggest(m)
  BY <1>1, SuggestKeeps
<1>2. CASE \E m \in Messages : Reject(m)
  BY <1>2, RejectKeeps
<1>3. CASE \E m \in Messages : Accept(m, TRUE) \/ Accept(m, FALSE)
  BY <1>3, AcceptKeeps
<1>4. CASE Approve
  BY <1>4, TransitionKeeps DEF Approve
<1>5. CASE Forget
  BY <1>5, TransitionKeeps DEF Forget
<1>. QED  BY <1>1, <1>2, <1>3, <1>4, <1>5 DEF MemoryStep

LEMMA MemoryStutters == MemoryInv /\ UNCHANGED memoryVars => MemoryInv'
  BY DEF MemoryInv, MemoryTypeOK, UsedOnEvidence, memoryVars

------------------------------------------------------------------------------
(* The cards and the requests that work on them. *)

(* A row has its six columns; its message and kind are its key; a card that *)
(* accepts or rejects names a suggestion.                                   *)
RowsInv ==
    /\ \A a \in action :
         /\ a = [message |-> a.message, kind |-> a.kind, ref |-> a.ref, evidence |-> a.evidence,
                 completed |-> a.completed, result |-> a.result]
         /\ a.kind \in {"accept", "reject"} => a.ref \in Messages
    /\ \A a, b \in action : Key(a) = Key(b) => a = b

(* An answer that is about to be appended names the message it is about. *)
DraftInv == draft # NoDraft /\ draft.receipt.op = "suggest" => draft.receipt.ref \in Messages

(* A request works on a row that is there; the row has a result once the    *)
(* request is past it, and no action suggests anything.                     *)
RequestInv(c) ==
    \/ request[c] = Idle
    \/ /\ request[c].at \in {"execute", "append", "complete", "register"}
       /\ \E a \in action : Key(a) = request[c].action
       /\ request[c].at # "execute" => request[c].receipt.op \notin {"suggest", "none"}
       /\ request[c].at \in {"complete", "register"}
            => \A a \in action : Key(a) = request[c].action => a.result # NoResult

RequestsInv ==
    /\ request = [c \in Callers |-> request[c]]
    /\ \A c \in Callers : RequestInv(c)

ActionInv == MemoryInv /\ RowsInv /\ DraftInv /\ RequestsInv /\ CompletedHasResult

------------------------------------------------------------------------------
(* The row a request works on is there, and is the only one of its key. *)
LEMMA RowIsThere ==
    ASSUME RowsInv, NEW c \in Callers, \E a \in action : Key(a) = request[c].action
    PROVE  /\ Row(c) \in action
           /\ Key(Row(c)) = request[c].action
           /\ \A a \in action : Key(a) = request[c].action => a = Row(c)
  BY DEF RowsInv, Row

(* What EXCEPT makes of a record, spelled out. *)
LEMMA RowExcept ==
    ASSUME NEW a, NEW r,
           a = [message |-> a.message, kind |-> a.kind, ref |-> a.ref, evidence |-> a.evidence,
                completed |-> a.completed, result |-> a.result]
    PROVE  /\ [a EXCEPT !.result = r]
                = [message |-> a.message, kind |-> a.kind, ref |-> a.ref,
                   evidence |-> a.evidence, completed |-> a.completed, result |-> r]
           /\ [a EXCEPT !.completed = r]
                = [message |-> a.message, kind |-> a.kind, ref |-> a.ref,
                   evidence |-> a.evidence, completed |-> r, result |-> a.result]
  OBVIOUS

(* Replacing a row by one of the same key and reference keeps the rows.     *)
LEMMA UpdateKeepsRows ==
    ASSUME RowsInv, NEW c \in Callers, \E a \in action : Key(a) = request[c].action,
           NEW completed, NEW result,
           Update(c, [message |-> Row(c).message, kind |-> Row(c).kind, ref |-> Row(c).ref,
                      evidence |-> Row(c).evidence, completed |-> completed,
                      result |-> result])
    PROVE  /\ RowsInv'
           /\ \A a \in action : a = Row(c) \/ a \in action'
           /\ \A b \in action' :
                \/ b \in action /\ b # Row(c) /\ Key(b) # request[c].action
                \/ /\ Key(b) = request[c].action /\ b.message = Row(c).message
                   /\ b.completed = completed /\ b.result = result
           /\ \E b \in action' : Key(b) = request[c].action /\ b.result = result
<1>. DEFINE new == [message |-> Row(c).message, kind |-> Row(c).kind, ref |-> Row(c).ref,
                    evidence |-> Row(c).evidence, completed |-> completed, result |-> result]
<1>1. /\ Row(c) \in action /\ Key(Row(c)) = request[c].action
      /\ \A a \in action : Key(a) = request[c].action => a = Row(c)
  BY RowIsThere
<1>2. action' = (action \ {Row(c)}) \cup {new}
  BY DEF Update
<1>3. /\ new.message = Row(c).message /\ new.kind = Row(c).kind /\ new.ref = Row(c).ref
      /\ new.completed = completed /\ new.result = result
      /\ new = [message |-> new.message, kind |-> new.kind, ref |-> new.ref,
                evidence |-> new.evidence, completed |-> new.completed, result |-> new.result]
  OBVIOUS
<1>4. Key(new) = request[c].action
  BY <1>1, <1>3 DEF Key
<1>. HIDE DEF new
<1>5. \A b \in action' : b = new \/ (b \in action /\ b # Row(c) /\ Key(b) # request[c].action)
  BY <1>1, <1>2
<1>6. RowsInv'
  <2>1. \A a \in action' :
          /\ a = [message |-> a.message, kind |-> a.kind, ref |-> a.ref,
                  evidence |-> a.evidence, completed |-> a.completed, result |-> a.result]
          /\ a.kind \in {"accept", "reject"} => a.ref \in Messages
    BY <1>1, <1>3, <1>5 DEF RowsInv
  <2>2. \A a, b \in action' : Key(a) = Key(b) => a = b
    BY <1>4, <1>5 DEF RowsInv
  <2>. QED  BY <2>1, <2>2 DEF RowsInv, Key
<1>. QED  BY <1>2, <1>3, <1>4, <1>5, <1>6

(* The cards of one receipt are of different kinds. *)
Proper(specs) ==
    /\ \A s, t \in specs : s.kind = t.kind => s = t
    /\ \A s \in specs : s.kind \in {"accept", "reject"} => s.ref \in Messages

LEMMA SpecsProper ==
    ASSUME NEW r, r.op = "suggest" => r.ref \in Messages
    PROVE  Proper(Specs(r))
<1>1. CASE r.op = "suggest"
  <2>1. Specs(r) = {Card("accept", r), Card("reject", r), Card("organize", r)}
    BY <1>1 DEF Specs
  <2>. QED  BY <1>1, <2>1 DEF Proper, Card
<1>2. CASE r.op # "suggest"
  <2>1. \/ Specs(r) = {}
        \/ \E kind \in {"organize", "approve", "forget", "undo"} : Specs(r) = {Card(kind, r)}
    BY <1>2 DEF Specs
  <2>. QED  BY <2>1 DEF Proper, Card
<1>. QED  BY <1>1, <1>2

LEMMA InsertKeepsRows ==
    ASSUME RowsInv, NEW message, NEW specs, Proper(specs), Insert(message, specs)
    PROVE  /\ RowsInv'
           /\ action \subseteq action'
           /\ \A b \in action' :
                \/ b \in action
                \/ b.message = message /\ b.completed = FALSE /\ b.result = NoResult
<1>. DEFINE chosen == {t \in specs : t.kind \in followed /\ Rows(message, t.kind) = {}}
            new(s) == [message |-> message, kind |-> s.kind, ref |-> s.ref,
                       evidence |-> s.evidence, completed |-> FALSE, result |-> NoResult]
<1>1. action' = action \cup {new(s) : s \in chosen}
  BY DEF Insert
<1>2. \A s \in chosen :
        /\ new(s).message = message /\ new(s).kind = s.kind /\ new(s).ref = s.ref
        /\ new(s).completed = FALSE /\ new(s).result = NoResult
        /\ new(s) = [message |-> new(s).message, kind |-> new(s).kind, ref |-> new(s).ref,
                     evidence |-> new(s).evidence, completed |-> new(s).completed,
                     result |-> new(s).result]
  OBVIOUS
<1>3. \A s \in chosen : s \in specs /\ Rows(message, s.kind) = {}
  OBVIOUS
<1>4. \A s, t \in chosen : s.kind = t.kind => new(s) = new(t)
  BY <1>3 DEF Proper
<1>. HIDE DEF chosen, new
<1>5. \A b \in action' : b \in action \/ \E s \in chosen : b = new(s)
  BY <1>1
<1>6. \A s \in chosen, a \in action : Key(a) # Key(new(s))
  BY <1>2, <1>3 DEF Rows, Key
<1>7. \A s, t \in chosen : Key(new(s)) = Key(new(t)) => new(s) = new(t)
  BY <1>2, <1>4 DEF Key
<1>8. RowsInv'
  <2>1. \A a \in action' :
          /\ a = [message |-> a.message, kind |-> a.kind, ref |-> a.ref,
                  evidence |-> a.evidence, completed |-> a.completed, result |-> a.result]
          /\ a.kind \in {"accept", "reject"} => a.ref \in Messages
    BY <1>2, <1>3, <1>5 DEF RowsInv, Proper
  <2>2. \A a, b \in action' : Key(a) = Key(b) => a = b
    BY <1>5, <1>6, <1>7 DEF RowsInv
  <2>. QED  BY <2>1, <2>2 DEF RowsInv, Key
<1>. QED  BY <1>1, <1>2, <1>5, <1>8

------------------------------------------------------------------------------
(* What a step does to the rows that the requests work on. *)

(* Every row is still there under its key, with a result if it had one. *)
RowsStay ==
    \A a \in action : \E b \in action' :
        Key(b) = Key(a) /\ (a.result # NoResult => b.result # NoResult)

(* A new row shows no result of its own, under a message that exists. *)
RowsSound ==
    \A b \in action' :
        /\ b.completed => b.result # NoResult
        /\ \/ \E a \in action : a.message = b.message
           \/ b.message[1] = "reply" /\ b.message[2] \in answered'
           \/ \E a \in action : ResultOf(Key(a)) = b.message /\ a.result # NoResult
           \/ b.message[1] = "center"

LEMMA ResultsStay ==
    ASSUME CompletedHasResult, RowsStay, RowsSound, answered \subseteq answered'
    PROVE  CompletedHasResult'
<1>1. \A b \in action' : b.completed => b.result # NoResult
  BY DEF RowsSound
<1>2. ASSUME NEW b \in action', b.message[1] = "reply" PROVE b.message[2] \in answered'
  <2>1. \/ \E a \in action : a.message = b.message
        \/ b.message[2] \in answered'
        \/ \E a \in action : ResultOf(Key(a)) = b.message
    BY <1>2 DEF RowsSound
  <2>2. \A a \in action : ResultOf(Key(a))[1] # "reply"
    BY DEF ResultOf
  <2>. QED  BY <1>2, <2>1, <2>2 DEF CompletedHasResult
<1>3. ASSUME NEW b \in action', b.message[1] = "result"
      PROVE  \E d \in action' : ResultOf(Key(d)) = b.message /\ d.result # NoResult
  <2>1. \/ \E a \in action : a.message = b.message
        \/ \E a \in action : ResultOf(Key(a)) = b.message /\ a.result # NoResult
    BY <1>3 DEF RowsSound
  <2>2. PICK a \in action : ResultOf(Key(a)) = b.message /\ a.result # NoResult
    BY <1>3, <2>1 DEF CompletedHasResult
  <2>. QED  BY <2>2 DEF RowsStay, ResultOf
<1>. QED  BY <1>1, <1>2, <1>3 DEF CompletedHasResult, ResultOf, Key

(* A request that does not move keeps its row. *)
LEMMA RequestStays ==
    ASSUME NEW c \in Callers, RequestInv(c), request'[c] = request[c], RowsStay, RowsInv'
    PROVE  RequestInv(c)'
<1>1. CASE request[c] = Idle
  BY <1>1 DEF RequestInv
<1>2. CASE request[c] # Idle
  <2>1. PICK a \in action : Key(a) = request[c].action
    BY <1>2 DEF RequestInv
  <2>2. PICK b \in action' : Key(b) = Key(a) /\ (a.result # NoResult => b.result # NoResult)
    BY DEF RowsStay
  <2>3. \A d \in action' : Key(d) = request[c].action => d = b
    BY <2>1, <2>2 DEF RowsInv, Key
  <2>. QED  BY <1>2, <2>1, <2>2, <2>3 DEF RequestInv, Key
<1>. QED  BY <1>1, <1>2

LEMMA RequestsStay ==
    ASSUME RequestsInv, UNCHANGED request, RowsStay, RowsInv'
    PROVE  RequestsInv'
  BY RequestStays DEF RequestsInv

(* One request moves and the others keep their rows. *)
LEMMA RequestMoves ==
    ASSUME RequestsInv, NEW c \in Callers, NEW next, Goto(c, next), RowsStay, RowsInv',
           request'[c] = next => RequestInv(c)'
    PROVE  RequestsInv'
<1>1. request'[c] = next /\ \A d \in Callers : d # c => request'[d] = request[d]
  BY DEF RequestsInv, Goto
<1>2. request' = [d \in Callers |-> request'[d]]
  BY DEF RequestsInv, Goto
<1>3. \A d \in Callers : RequestInv(d)'
  BY <1>1, RequestStays DEF RequestsInv
<1>. QED  BY <1>2, <1>3 DEF RequestsInv

LEMMA NoRowMoves ==
    ASSUME RowsInv, CompletedHasResult, UNCHANGED action, answered \subseteq answered'
    PROVE  RowsInv' /\ RowsStay /\ CompletedHasResult'
<1>1. RowsInv' /\ RowsStay
  BY DEF RowsInv, RowsStay, Key
<1>2. RowsSound
  BY DEF RowsSound, CompletedHasResult
<1>. QED  BY <1>1, <1>2, ResultsStay

------------------------------------------------------------------------------
(* The actions. *)

LEMMA ActionInitial == ActionInit => ActionInv
<1>. SUFFICES ASSUME ActionInit PROVE ActionInv
  OBVIOUS
<1>. USE DEF ActionInit
<1>1. MemoryInv
  BY DEF MemoryInit, MemoryInv, MemoryTypeOK, UsedOnEvidence
<1>2. RowsInv /\ DraftInv /\ CompletedHasResult
  BY DEF RowsInv, DraftInv, CompletedHasResult
<1>3. RequestsInv
  BY DEF RequestsInv, RequestInv
<1>. QED  BY <1>1, <1>2, <1>3 DEF ActionInv

(* Nothing but the user's files moves. *)
LEMMA FilesKeep ==
    ASSUME ActionInv, EditFolder \/ UndoAtPc
    PROVE  ActionInv'
<1>1. UNCHANGED <<memoryVars, draft, answered, action, request>>
  BY DEF EditFolder, UndoAtPc, gateway
<1>2. RowsInv' /\ RowsStay /\ CompletedHasResult'
  BY <1>1, NoRowMoves DEF ActionInv
<1>3. RequestsInv'
  BY <1>1, <1>2, RequestsStay DEF ActionInv
<1>. QED  BY <1>1, <1>2, <1>3, MemoryStutters DEF ActionInv, DraftInv

LEMMA RunCommandKeeps ==
    ASSUME ActionInv, NEW m \in Messages, RunCommand(m)
    PROVE  ActionInv'
<1>1. UNCHANGED <<answered, action, request>> /\ Command(m)
  BY DEF RunCommand
<1>2. MemoryInv'
  <2>1. MemoryStep \/ UNCHANGED memoryVars
    BY <1>1 DEF Command, MemoryStep
  <2>. QED  BY <2>1, MemoryStepKeeps, MemoryStutters DEF ActionInv
<1>3. DraftInv'
  <2>1. \/ \E ref, of : \/ Draft(m, FileReceipt("suggest", m, of))
                        \/ Draft(m, FileReceipt("recall", ref, of))
        \/ \E op \in {"approve", "forget", "accept", "reject"}, ref \in {NoMessage} \cup Messages :
             Draft(m, MemoryReceipt(op, ref))
    BY <1>1 DEF Command
  <2>2. CASE \E of : Draft(m, FileReceipt("suggest", m, of))
    BY <2>2 DEF Draft, DraftInv, FileReceipt
  <2>3. CASE \E ref, of : Draft(m, FileReceipt("recall", ref, of))
    BY <2>3 DEF Draft, DraftInv, FileReceipt
  <2>4. CASE \E op \in {"approve", "forget", "accept", "reject"}, ref \in {NoMessage} \cup Messages :
               Draft(m, MemoryReceipt(op, ref))
    BY <2>4 DEF Draft, DraftInv, MemoryReceipt
  <2>. QED  BY <2>1, <2>2, <2>3, <2>4
<1>4. RowsInv' /\ RowsStay /\ CompletedHasResult'
  BY <1>1, NoRowMoves DEF ActionInv
<1>5. RequestsInv'
  BY <1>1, <1>4, RequestsStay DEF ActionInv
<1>. QED  BY <1>2, <1>3, <1>4, <1>5 DEF ActionInv

LEMMA AnswerKeeps ==
    ASSUME ActionInv, AppendAnswer
    PROVE  ActionInv'
<1>1. /\ Insert(ReplyTo(draft.message), Specs(draft.receipt))
      /\ draft' = NoDraft /\ draft.message \in answered' /\ answered \subseteq answered'
      /\ UNCHANGED <<memoryVars, request>>
  BY DEF AppendAnswer
<1>2. Proper(Specs(draft.receipt))
  BY SpecsProper DEF ActionInv, DraftInv, AppendAnswer
<1>3. /\ RowsInv' /\ action \subseteq action'
      /\ \A b \in action' : \/ b \in action
                            \/ /\ b.message = ReplyTo(draft.message)
                               /\ b.completed = FALSE /\ b.result = NoResult
  BY <1>1, <1>2, InsertKeepsRows DEF ActionInv
<1>4. RowsStay
  BY <1>3 DEF RowsStay
<1>5. RowsSound
  BY <1>1, <1>3 DEF RowsSound, ReplyTo, ActionInv, CompletedHasResult
<1>6. CompletedHasResult'
  BY <1>1, <1>4, <1>5, ResultsStay DEF ActionInv
<1>7. RequestsInv'
  BY <1>1, <1>3, <1>4, RequestsStay DEF ActionInv
<1>. QED  BY <1>1, <1>3, <1>6, <1>7, MemoryStutters DEF ActionInv, DraftInv

LEMMA AnswerFailsKeeps ==
    ASSUME ActionInv, AnswerFails
    PROVE  ActionInv'
<1>1. /\ draft' = NoDraft /\ answered \subseteq answered'
      /\ UNCHANGED <<memoryVars, action, request>>
  BY DEF AnswerFails
<1>2. RowsInv' /\ RowsStay /\ CompletedHasResult'
  BY <1>1, NoRowMoves DEF ActionInv
<1>3. RequestsInv'
  BY <1>1, <1>2, RequestsStay DEF ActionInv
<1>. QED  BY <1>1, <1>2, <1>3, MemoryStutters DEF ActionInv, DraftInv

LEMMA MemoryCenterKeeps ==
    ASSUME ActionInv, MemoryCenter
    PROVE  ActionInv'
<1>1. /\ Insert(<<"center", memory.version>>, MemoryView)
      /\ UNCHANGED <<memoryVars, draft, answered, request>>
  BY DEF MemoryCenter, gateway
<1>2. Proper(MemoryView)
  BY DEF Proper, MemoryView
<1>3. /\ RowsInv' /\ action \subseteq action'
      /\ \A b \in action' : \/ b \in action
                            \/ /\ b.message = <<"center", memory.version>>
                               /\ b.completed = FALSE /\ b.result = NoResult
  BY <1>1, <1>2, InsertKeepsRows DEF ActionInv
<1>4. RowsStay
  BY <1>3 DEF RowsStay
<1>5. RowsSound
  BY <1>3 DEF RowsSound, ActionInv, CompletedHasResult
<1>6. CompletedHasResult'
  BY <1>1, <1>4, <1>5, ResultsStay DEF ActionInv
<1>7. RequestsInv'
  BY <1>1, <1>3, <1>4, RequestsStay DEF ActionInv
<1>. QED  BY <1>1, <1>3, <1>6, <1>7, MemoryStutters DEF ActionInv, DraftInv

LEMMA ActionRestartKeeps ==
    ASSUME ActionInv, ActionRestart
    PROVE  ActionInv'
<1>1. /\ draft' = NoDraft /\ request' = [c \in Callers |-> Idle]
      /\ UNCHANGED <<memoryVars, answered, action>>
  BY DEF ActionRestart
<1>2. RowsInv' /\ CompletedHasResult'
  BY <1>1, NoRowMoves DEF ActionInv
<1>3. RequestsInv'
  BY <1>1 DEF RequestsInv, RequestInv
<1>. QED  BY <1>1, <1>2, <1>3, MemoryStutters DEF ActionInv, DraftInv

LEMMA PressKeeps ==
    ASSUME ActionInv, NEW c \in Callers, Press(c)
    PROVE  ActionInv'
<1>1. UNCHANGED <<memoryVars, draft, answered, action>>
  BY DEF Press, gateway
<1>2. PICK a \in action : Goto(c, [at |-> "execute", action |-> Key(a)])
  BY DEF Press
<1>3. RowsInv' /\ RowsStay /\ CompletedHasResult'
  BY <1>1, NoRowMoves DEF ActionInv
<1>4. RequestsInv'
  <2>1. request'[c] = [at |-> "execute", action |-> Key(a)] => RequestInv(c)'
    BY <1>1 DEF RequestInv, Key
  <2>. QED  BY <1>2, <1>3, <2>1, RequestMoves DEF ActionInv
<1>. QED  BY <1>1, <1>3, <1>4, MemoryStutters DEF ActionInv, DraftInv

(* An operation ended: its request goes on to append what it answers, or    *)
(* ends.                                                                    *)
LEMMA ExecuteMoves ==
    ASSUME ActionInv, NEW c \in Callers, request[c].at = "execute",
           NEW receipt, receipt.op \notin {"suggest", "none"},
           Executed(c, receipt) \/ Goto(c, Idle),
           UNCHANGED <<draft, answered, action>>, MemoryInv'
    PROVE  ActionInv'
<1>1. RowsInv' /\ RowsStay /\ CompletedHasResult'
  BY NoRowMoves DEF ActionInv
<1>2. PICK a \in action : Key(a) = request[c].action
  BY DEF ActionInv, RequestsInv, RequestInv, Idle
<1>3. RequestsInv'
  <2>1. CASE Goto(c, Idle)
    BY <1>1, <2>1, RequestMoves DEF ActionInv, RequestInv
  <2>2. CASE Executed(c, receipt)
    <3>. DEFINE next == [at |-> "append", action |-> request[c].action, receipt |-> receipt]
    <3>1. request'[c] = next => RequestInv(c)'
      BY <1>2 DEF RequestInv, Key
    <3>. QED  BY <1>1, <2>2, <3>1, RequestMoves DEF ActionInv, Executed
  <2>. QED  BY <2>1, <2>2
<1>. QED  BY <1>1, <1>3 DEF ActionInv, DraftInv

LEMMA ExecuteMemoryKeeps ==
    ASSUME ActionInv, NEW c \in Callers, ExecuteMemory(c)
    PROVE  ActionInv'
<1>. DEFINE a == Row(c)
<1>1. /\ request[c].at = "execute"
      /\ UNCHANGED <<draft, answered, action>>
  BY DEF ExecuteMemory, gateway
<1>2. Row(c) \in action
  <2>1. \E b \in action : Key(b) = request[c].action
    BY <1>1 DEF ActionInv, RequestsInv, RequestInv, Idle
  <2>. QED  BY <2>1, RowIsThere DEF ActionInv
<1>3. Row(c).kind \in {"accept", "reject"} => Row(c).ref \in Messages
  BY <1>2 DEF ActionInv, RowsInv
<1>4. \A op, ref : MemoryReceipt(op, ref).op = op
  BY DEF MemoryReceipt
<1>5. PICK op \in {"accept", "reject", "approve", "forget"} : \E ref :
        /\ Executed(c, MemoryReceipt(op, ref)) \/ Goto(c, Idle)
        /\ MemoryStep \/ UNCHANGED memoryVars
  <2>. HIDE DEF a
  <2>1. CASE a.kind = "accept"
    BY <1>3, <2>1 DEF ExecuteMemory, MemoryStep, a
  <2>2. CASE a.kind = "reject"
    BY <1>3, <2>2 DEF ExecuteMemory, MemoryStep, a
  <2>3. CASE a.kind = "approve"
    BY <2>3 DEF ExecuteMemory, MemoryStep, a
  <2>4. CASE a.kind = "forget"
    BY <2>4 DEF ExecuteMemory, MemoryStep, a
  <2>. QED  BY <2>1, <2>2, <2>3, <2>4 DEF ExecuteMemory, a
<1>6. PICK ref : Executed(c, MemoryReceipt(op, ref)) \/ Goto(c, Idle)
  BY <1>5
<1>7. MemoryInv'
  BY <1>5, MemoryStepKeeps, MemoryStutters DEF ActionInv
<1>. QED  BY <1>1, <1>4, <1>6, <1>7, ExecuteMoves

LEMMA ExecuteFilesKeeps ==
    ASSUME ActionInv, NEW c \in Callers, ExecuteFiles(c)
    PROVE  ActionInv'
<1>1. /\ request[c].at = "execute"
      /\ UNCHANGED <<memoryVars, draft, answered, action>>
  BY DEF ExecuteFiles, gateway
<1>2. \A op, ref, of : FileReceipt(op, ref, of).op = op
  BY DEF FileReceipt
<1>3. PICK op \in {"organize", "undo"} :
        \E ref, of : Executed(c, FileReceipt(op, ref, of)) \/ Goto(c, Idle)
  BY DEF ExecuteFiles
<1>4. PICK ref, of : Executed(c, FileReceipt(op, ref, of)) \/ Goto(c, Idle)
  BY <1>3
<1>. QED  BY <1>1, <1>2, <1>4, MemoryStutters, ExecuteMoves DEF ActionInv

(* The result is appended, or conflicts and the request ends. *)
LEMMA AppendResultKeeps ==
    ASSUME ActionInv, NEW c \in Callers, AppendResult(c)
    PROVE  ActionInv'
<1>. DEFINE text == Text(request[c].receipt)
            next == [request[c] EXCEPT !.at = "complete"]
<1>1. /\ request[c].at = "append"
      /\ UNCHANGED <<memoryVars, draft, answered>>
  BY DEF AppendResult, gateway
<1>2. /\ \E a \in action : Key(a) = request[c].action
      /\ request[c].receipt.op \notin {"suggest", "none"}
  BY <1>1 DEF ActionInv, RequestsInv, RequestInv, Idle
<1>3. text # NoResult
  BY <1>2 DEF Text, NoResult
<1>4. CASE Goto(c, Idle) /\ UNCHANGED action
  <2>1. RowsInv' /\ RowsStay /\ CompletedHasResult'
    BY <1>1, <1>4, NoRowMoves DEF ActionInv
  <2>2. RequestsInv'
    BY <1>4, <2>1, RequestMoves DEF ActionInv, RequestInv
  <2>. QED  BY <1>1, <2>1, <2>2, MemoryStutters DEF ActionInv, DraftInv
<1>5. CASE Update(c, [Row(c) EXCEPT !.result = text]) /\ Goto(c, next)
  <2>1. Row(c) \in action /\ Key(Row(c)) = request[c].action
    BY <1>2, RowIsThere DEF ActionInv
  <2>2. Update(c, [message |-> Row(c).message, kind |-> Row(c).kind, ref |-> Row(c).ref,
                   evidence |-> Row(c).evidence, completed |-> Row(c).completed,
                   result |-> text])
    BY <1>5, <2>1, RowExcept DEF ActionInv, RowsInv
  <2>. HIDE DEF text
  <2>3. /\ RowsInv'
        /\ \A a \in action : a = Row(c) \/ a \in action'
        /\ \A b \in action' :
             \/ b \in action /\ b # Row(c) /\ Key(b) # request[c].action
             \/ /\ Key(b) = request[c].action /\ b.message = Row(c).message
                /\ b.completed = Row(c).completed /\ b.result = text
        /\ \E b \in action' : Key(b) = request[c].action /\ b.result = text
    BY <1>2, <2>2, UpdateKeepsRows DEF ActionInv
  <2>4. RowsStay
    BY <1>3, <2>1, <2>3 DEF RowsStay
  <2>5. RowsSound
    BY <1>3, <2>1, <2>3 DEF RowsSound, ActionInv, CompletedHasResult
  <2>6. CompletedHasResult'
    BY <1>1, <2>4, <2>5, ResultsStay DEF ActionInv
  <2>7. request'[c] = next => RequestInv(c)'
    BY <1>1, <1>2, <1>3, <2>3 DEF RequestInv, Key, ActionInv, RequestsInv, Idle
  <2>8. RequestsInv'
    BY <1>5, <2>3, <2>4, <2>7, RequestMoves DEF ActionInv
  <2>. QED  BY <1>1, <2>3, <2>6, <2>8, MemoryStutters DEF ActionInv, DraftInv
<1>. QED  BY <1>4, <1>5 DEF AppendResult

LEMMA MarkCompletedKeeps ==
    ASSUME ActionInv, NEW c \in Callers, MarkCompleted(c)
    PROVE  ActionInv'
<1>. DEFINE next == [request[c] EXCEPT !.at = "register"]
<1>1. /\ request[c].at = "complete" /\ Goto(c, next)
      /\ UNCHANGED <<memoryVars, draft, answered>>
  BY DEF MarkCompleted, gateway
<1>2. /\ \E a \in action : Key(a) = request[c].action
      /\ \A a \in action : Key(a) = request[c].action => a.result # NoResult
      /\ request[c].receipt.op \notin {"suggest", "none"}
  BY <1>1 DEF ActionInv, RequestsInv, RequestInv, Idle
<1>3. /\ Row(c) \in action /\ Key(Row(c)) = request[c].action
      /\ Row(c).result # NoResult
  BY <1>2, RowIsThere DEF ActionInv
<1>4. Update(c, [message |-> Row(c).message, kind |-> Row(c).kind, ref |-> Row(c).ref,
                 evidence |-> Row(c).evidence, completed |-> TRUE,
                 result |-> Row(c).result])
  BY <1>3, RowExcept DEF MarkCompleted, ActionInv, RowsInv
<1>5. /\ RowsInv'
      /\ \A a \in action : a = Row(c) \/ a \in action'
      /\ \A b \in action' :
           \/ b \in action /\ b # Row(c) /\ Key(b) # request[c].action
           \/ /\ Key(b) = request[c].action /\ b.message = Row(c).message
              /\ b.completed = TRUE /\ b.result = Row(c).result
      /\ \E b \in action' : Key(b) = request[c].action /\ b.result = Row(c).result
  BY <1>2, <1>4, UpdateKeepsRows DEF ActionInv
<1>6. RowsStay
  BY <1>3, <1>5 DEF RowsStay
<1>7. RowsSound
  BY <1>3, <1>5 DEF RowsSound, ActionInv, CompletedHasResult
<1>8. CompletedHasResult'
  BY <1>1, <1>6, <1>7, ResultsStay DEF ActionInv
<1>9. request'[c] = next => RequestInv(c)'
  BY <1>1, <1>2, <1>3, <1>5 DEF RequestInv, Key, ActionInv, RequestsInv, Idle
<1>10. RequestsInv'
  BY <1>1, <1>5, <1>6, <1>9, RequestMoves DEF ActionInv
<1>. QED  BY <1>1, <1>5, <1>8, <1>10, MemoryStutters DEF ActionInv, DraftInv

LEMMA RegisterReceiptKeeps ==
    ASSUME ActionInv, NEW c \in Callers, RegisterReceipt(c)
    PROVE  ActionInv'
<1>1. /\ request[c].at = "register" /\ Goto(c, Idle)
      /\ Insert(ResultOf(request[c].action), Specs(request[c].receipt))
      /\ UNCHANGED <<memoryVars, draft, answered>>
  BY DEF RegisterReceipt, gateway
<1>2. /\ request[c].receipt.op # "suggest"
      /\ \E a \in action : Key(a) = request[c].action /\ a.result # NoResult
  BY <1>1 DEF ActionInv, RequestsInv, RequestInv, Idle
<1>3. Proper(Specs(request[c].receipt))
  BY <1>2, SpecsProper
<1>4. /\ RowsInv' /\ action \subseteq action'
      /\ \A b \in action' : \/ b \in action
                            \/ /\ b.message = ResultOf(request[c].action)
                               /\ b.completed = FALSE /\ b.result = NoResult
  BY <1>1, <1>3, InsertKeepsRows DEF ActionInv
<1>5. RowsStay
  BY <1>4 DEF RowsStay
<1>6. RowsSound
  BY <1>2, <1>4 DEF RowsSound, ActionInv, CompletedHasResult
<1>7. CompletedHasResult'
  BY <1>1, <1>5, <1>6, ResultsStay DEF ActionInv
<1>8. RequestsInv'
  BY <1>1, <1>4, <1>5, RequestMoves DEF ActionInv, RequestInv
<1>. QED  BY <1>1, <1>4, <1>7, <1>8, MemoryStutters DEF ActionInv, DraftInv

LEMMA RequestFailsKeeps ==
    ASSUME ActionInv, NEW c \in Callers, RequestFails(c)
    PROVE  ActionInv'
<1>1. Goto(c, Idle) /\ UNCHANGED <<memoryVars, draft, answered, action>>
  BY DEF RequestFails, gateway
<1>2. RowsInv' /\ RowsStay /\ CompletedHasResult'
  BY <1>1, NoRowMoves DEF ActionInv
<1>3. RequestsInv'
  BY <1>1, <1>2, RequestMoves DEF ActionInv, RequestInv
<1>. QED  BY <1>1, <1>2, <1>3, MemoryStutters DEF ActionInv, DraftInv

LEMMA StutterKeeps == ActionInv /\ UNCHANGED actionVars => ActionInv'
<1>. SUFFICES ASSUME ActionInv, UNCHANGED actionVars PROVE ActionInv'
  OBVIOUS
<1>1. UNCHANGED <<memoryVars, draft, answered, action, request>>
  BY DEF actionVars, gateway
<1>2. RowsInv' /\ RowsStay /\ CompletedHasResult'
  BY <1>1, NoRowMoves DEF ActionInv
<1>3. RequestsInv'
  BY <1>1, <1>2, RequestsStay DEF ActionInv
<1>. QED  BY <1>1, <1>2, <1>3, MemoryStutters DEF ActionInv, DraftInv

------------------------------------------------------------------------------
(* The theorems. *)

(* The strengthened invariant of the cards (execute_product_action,         *)
(* ActionProjectionService): rows have keys of their own, requests work on  *)
(* rows that are there, and the two properties below hold.                  *)
THEOREM ActionInvariant == ActionSpec => []ActionInv
<1>1. ActionInv /\ [ActionNext]_actionVars => ActionInv'
  <2>. SUFFICES ASSUME ActionInv, [ActionNext]_actionVars PROVE ActionInv'
    OBVIOUS
  <2>1. CASE EditFolder \/ UndoAtPc
    BY <2>1, FilesKeep
  <2>2. CASE MemoryCenter
    BY <2>2, MemoryCenterKeeps
  <2>3. CASE ActionRestart
    BY <2>3, ActionRestartKeeps
  <2>4. CASE AppendAnswer
    BY <2>4, AnswerKeeps
  <2>5. CASE AnswerFails
    BY <2>5, AnswerFailsKeeps
  <2>6. CASE \E m \in Messages : RunCommand(m)
    BY <2>6, RunCommandKeeps
  <2>7. ASSUME NEW c \in Callers,
               \/ Press(c) \/ ExecuteMemory(c) \/ ExecuteFiles(c) \/ AppendResult(c)
               \/ MarkCompleted(c) \/ RegisterReceipt(c) \/ RequestFails(c)
        PROVE  ActionInv'
    BY <2>7, PressKeeps, ExecuteMemoryKeeps, ExecuteFilesKeeps, AppendResultKeeps,
       MarkCompletedKeeps, RegisterReceiptKeeps, RequestFailsKeeps
  <2>8. CASE UNCHANGED actionVars
    BY <2>8, StutterKeeps
  <2>. QED  BY <2>1, <2>2, <2>3, <2>4, <2>5, <2>6, <2>7, <2>8 DEF ActionNext
<1>. QED  BY <1>1, ActionInitial, PTL DEF ActionSpec

(* Whatever cards are pressed in whatever order, and whatever dies, the     *)
(* preference is proposed or used only on enough accepted suggestions       *)
(* (ArchiveMemoryService).                                                  *)
THEOREM MemoryRestsOnEvidence == ActionSpec => []UsedOnEvidence
<1>1. ActionInv => UsedOnEvidence
  BY DEF ActionInv, MemoryInv
<1>. QED  BY <1>1, ActionInvariant, PTL

(* A completed action has its result, and a card its message                *)
(* (mark_completed comes after append_message).                             *)
THEOREM CompletedIsAnswered == ActionSpec => []CompletedHasResult
<1>1. ActionInv => CompletedHasResult
  BY DEF ActionInv
<1>. QED  BY <1>1, ActionInvariant, PTL
===============================================================================
