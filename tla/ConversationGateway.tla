------------------------- MODULE ConversationGateway -------------------------
(****************************************************************************)
(* Who answers a message of the user, and how often: append_message makes   *)
(* the message durable and leaves its derived result to a background task,  *)
(* which hands the operation to the single flight of                        *)
(* _UnifiedGatewayTaskManager or turns it away (api.py).  Messages are      *)
(* posted again by clients that saw no response; the lookup, the schedule   *)
(* and the write of an answer are steps of their own.                       *)
(****************************************************************************)
EXTENDS Naturals, FiniteSets

CONSTANTS Posts,      \* messages of users
          Requests,   \* requests and their background tasks at the same time
          NoPost,
          MaxPosts    \* bound: times a message is posted

ASSUME GatewayAssumption == NoPost \notin Posts /\ MaxPosts \in Nat \ {0}

VARIABLES
    posted,      \* how often each message was posted; it is durable after the first
    reply,       \* derived result of each message, "none" without one
    ran,         \* history: messages whose operation has done something
    lost,        \* history: messages whose answer a failure or a crash took away
    accepts,   \* the manager takes tasks: the Hub is not shutting down
    flight,      \* the operation the manager runs
    task         \* where each request's background task is

gatewayVars == <<posted, reply, ran, lost, accepts, flight, task>>

NoTask == [at |-> "none", post |-> NoPost]

GatewayInit == /\ posted = [m \in Posts |-> 0] /\ reply = [m \in Posts |-> "none"]
               /\ ran = {} /\ lost = {} /\ accepts = TRUE
               /\ flight = NoTask /\ task = [r \in Requests |-> NoTask]

Proceed(r, at) == task' = [task EXCEPT ![r] = IF at = "none" THEN NoTask
                                           ELSE [task[r] EXCEPT !.at = at]]

(* append_message: the message is durable, or was; the response goes out and *)
(* the background task starts.                                               *)
Post(r, m) ==
    /\ task[r] = NoTask /\ posted[m] < MaxPosts
    /\ posted' = [posted EXCEPT ![m] = @ + 1]
    /\ task' = [task EXCEPT ![r] = [at |-> "lookup", post |-> m]]
    /\ UNCHANGED <<reply, ran, lost, accepts, flight>>

(* schedule_derived_result_after_response: first the lookup ...              *)
LookUp(r) ==
    /\ task[r].at = "lookup"
    /\ Proceed(r, IF reply[task[r].post] # "none" THEN "none" ELSE "schedule")
    /\ UNCHANGED <<posted, reply, ran, lost, accepts, flight>>

(* Slip: an operation that is turned away is dropped.                        *)
ScheduleOrDrop(r) ==
    /\ task[r].at = "schedule"
    /\ flight' = IF flight = NoTask /\ accepts THEN [task[r] EXCEPT !.at = "lookup"]
                 ELSE flight
    /\ Proceed(r, "none")
    /\ UNCHANGED <<posted, reply, ran, lost, accepts>>

(* ... then schedule: the operation is left to the task that runs it already,*)
(* or scheduled, or rejected.                                                *)
Schedule(r) ==
    /\ task[r].at = "schedule"
    /\ \/ /\ flight.post = task[r].post
          /\ Proceed(r, "none") /\ UNCHANGED flight
       \/ /\ flight = NoTask /\ accepts
          /\ flight' = [task[r] EXCEPT !.at = "lookup"] /\ Proceed(r, "none")
       \/ /\ flight.post # task[r].post /\ (flight # NoTask \/ ~accepts)
          /\ Proceed(r, "turnAway") /\ UNCHANGED flight
    /\ UNCHANGED <<posted, reply, ran, lost, accepts>>

(* append_derived_result: an earlier result of the message stands.           *)
AnswerPost(m, what) == reply' = IF reply[m] = "none" THEN [reply EXCEPT ![m] = what] ELSE reply

TurnAway(r) ==
    /\ task[r].at = "turnAway"
    /\ AnswerPost(task[r].post, "notExecuted")
    /\ Proceed(r, "none")
    /\ UNCHANGED <<posted, ran, lost, accepts, flight>>

(* Slip: the answer there may be is not looked for under the lock.           *)
FlyUnseen ==
    /\ flight.at = "lookup"
    /\ flight' = [flight EXCEPT !.at = "run"]
    /\ UNCHANGED <<posted, reply, ran, lost, accepts, task>>

(* process_derived_result looks once more under unified_gateway_lock, ...    *)
FlightLooks ==
    /\ flight.at = "lookup"
    /\ flight' = IF reply[flight.post] # "none" THEN NoTask ELSE [flight EXCEPT !.at = "run"]
    /\ UNCHANGED <<posted, reply, ran, lost, accepts, task>>

(* ... runs the operation, which may have no effect, ...                     *)
FlightRuns ==
    /\ flight.at = "run"
    /\ flight' = [flight EXCEPT !.at = "append"]
    /\ ran' \in {ran, ran \cup {flight.post}}
    /\ UNCHANGED <<posted, reply, lost, accepts, task>>

(* ... and writes the answer.                                                *)
FlightAppends ==
    /\ flight.at = "append"
    /\ AnswerPost(flight.post, "result")
    /\ flight' = NoTask
    /\ UNCHANGED <<posted, ran, lost, accepts, task>>

(* What failed is answered as stopped (safely_process_derived_result), unless*)
(* the store fails too.                                                      *)
FlightFails ==
    /\ flight.at \in {"run", "append"}
    /\ \/ AnswerPost(flight.post, "stopped") /\ UNCHANGED lost
       \/ lost' = lost \cup {flight.post} /\ UNCHANGED reply
    /\ flight' = NoTask
    /\ UNCHANGED <<posted, ran, accepts, task>>

(* The store fails under a background task.                                  *)
TaskFails(r) ==
    /\ task[r] # NoTask
    /\ lost' = lost \cup {task[r].post}
    /\ Proceed(r, "none")
    /\ UNCHANGED <<posted, reply, ran, accepts, flight>>

(* stop_accepting_and_drain begins.  It awaits what runs, for a limited time,*)
(* and then raises; it cancels nothing, so until the Hub ends all goes on.   *)
StopAccepting == /\ accepts /\ accepts' = FALSE
                 /\ UNCHANGED <<posted, reply, ran, lost, flight, task>>

Underway == ({task[r].post : r \in Requests} \cup {flight.post}) \ {NoPost}

(* The Hub ends, drained or not, and starts again.                           *)
GatewayRestart ==
    /\ lost' = lost \cup Underway
    /\ flight' = NoTask /\ task' = [r \in Requests |-> NoTask]
    /\ accepts' = TRUE
    /\ UNCHANGED <<posted, reply, ran>>

GatewayStep == \/ FlightLooks \/ FlightRuns \/ FlightAppends
               \/ \E r \in Requests : LookUp(r) \/ Schedule(r) \/ TurnAway(r)

GatewayNext ==
    \/ GatewayStep \/ FlightFails \/ StopAccepting \/ GatewayRestart
    \/ \E r \in Requests : TaskFails(r) \/ \E m \in Posts : Post(r, m)

(* A task that has started goes on.                                          *)
GatewayFairness ==
    /\ WF_gatewayVars(FlightLooks \/ FlightRuns \/ FlightAppends)
    /\ \A r \in Requests : WF_gatewayVars(LookUp(r) \/ Schedule(r) \/ TurnAway(r))

GatewaySpec == GatewayInit /\ [][GatewayNext]_gatewayVars /\ GatewayFairness

------------------------------------------------------------------------------
(* Properties. *)

GatewayTypeOK ==
    /\ posted \in [Posts -> 0..MaxPosts]
    /\ reply \in [Posts -> {"none", "notExecuted", "stopped", "result"}]
    /\ ran \subseteq Posts /\ lost \subseteq Posts /\ accepts \in BOOLEAN
    /\ flight \in [at : {"none", "lookup", "run", "append"}, post : Posts \cup {NoPost}]
    /\ task \in [Requests -> [at : {"none", "lookup", "schedule", "turnAway"},
                              post : Posts \cup {NoPost}]]

(* However often a message is posted and whatever its requests overtake, an  *)
(* operation that has done something is not begun again unless its answer    *)
(* was lost.                                                                 *)
NotRunTwice ==
    [][\A m \in Posts : flight' = [at |-> "run", post |-> m] /\ flight' # flight /\ m \in ran
                        => m \in lost]_gatewayVars

(* Every message is answered, if only by its being turned away or stopped,   *)
(* unless the Hub died or its store failed under it.                         *)
EveryPostAnswered == \A m \in Posts : posted[m] > 0 ~> (reply[m] # "none" \/ m \in lost)

(* The answer of a message that was turned away says that nothing was done   *)
(* for it.                                                                   *)
NotExecutedIsTrue == \A m \in Posts : reply[m] = "notExecuted" => m \notin ran
===============================================================================
