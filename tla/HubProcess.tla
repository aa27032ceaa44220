----------------------------- MODULE HubProcess -----------------------------
(***************************************************************************)
(* The functions that build a Hub, serve and take everything down again    *)
(* (serve_https_hub, serve_supervised_pairing and                          *)
(* serve_supervised_shared_session), and the optional planner process that *)
(* the last of them owns (agent_supervisor.py).                            *)
(*                                                                         *)
(* Every resource is opened in turn, any opening may raise, and the finally*)
(* block closes what was opened in an order of its own; each close may     *)
(* raise and is tried by itself.  The planner is a child process with a    *)
(* home directory under a root that other Hubs use too.  It calls back into*)
(* the Hub through the read-only tool bridge.  What HubLifetime says of the*)
(* pool and the listeners is one resource each here.                       *)
(***************************************************************************)
EXTENDS Naturals, Sequences

CONSTANT MaxMishaps   \* bound: openings and closes that raise

ASSUME ProcessAssumption == MaxMishaps \in Nat

VARIABLES
    mode,       \* which of the three functions
    phase,      \* where it is; the steps of the planner's start and stop too
    position,   \* in the list of what it opens, and then of what it closes
    starting,   \* it has not come to its finally block
    opened,     \* what is open
    failed,     \* history: what did not let itself be closed
    agent,      \* the supervisor's fields
    child,      \* the planner process
    home,       \* its run directory is on the disk
    runsRoot,   \* so is the directory the run directories are in
    neighbour,  \* another Hub's planner in the same root
    toolCall,   \* a call of the tool bridge is being handled
    mishaps

agentVars == <<agent, child, home, runsRoot>>
processVars == <<mode, phase, position, starting, opened, failed, agentVars, neighbour,
                 toolCall, mishaps>>

(* The stores behind the app of the HTTPS Hub are one resource with it. *)
HttpsOpens == <<"pairing", "app">>
HttpsCloses == <<"app", "pairing">>
PairingOpens == <<"pairing", "executor">>
PairingCloses == <<"executor", "pairing">>
SessionOpens ==
    <<"pairing", "events", "catalog", "executor", "memory", "projection", "content", "ocr",
      "autonomy", "bridge", "agent", "export", "proactive", "discovery">>
SessionCloses ==
    <<"discovery", "agent", "projection", "memory", "executor", "events", "bridge", "catalog",
      "content", "ocr", "autonomy", "export", "proactive", "pairing">>

Opens == CASE mode = "https" -> HttpsOpens
           [] mode = "pairing" -> PairingOpens
           [] mode = "session" -> SessionOpens
Closes == CASE mode = "https" -> HttpsCloses
            [] mode = "pairing" -> PairingCloses
            [] mode = "session" -> SessionCloses

NoAgent == [planner |-> FALSE, process |-> FALSE, token |-> FALSE, runHome |-> FALSE,
            status |-> "fallback"]

ProcessInit ==
    /\ mode \in {"https", "pairing", "session"}
    /\ phase = "opening" /\ position = 1 /\ starting = TRUE
    /\ opened = {} /\ failed = {}
    /\ agent = NoAgent /\ child = "none" /\ home = FALSE
    /\ runsRoot = FALSE /\ neighbour = "none"
    /\ toolCall = FALSE /\ mishaps = 0

Mishap == mishaps < MaxMishaps /\ mishaps' = mishaps + 1

(* The next of either list; the finally block from its beginning. *)
NextInList(where) == phase' = where /\ position' = position + 1 /\ UNCHANGED starting
BeginClosing == phase' = "closing" /\ position' = 1 /\ starting' = FALSE

------------------------------------------------------------------------------
(* The try block. *)

Opening == phase = "opening" /\ position \in DOMAIN Opens
Resource == IF starting THEN Opens[position] ELSE Closes[position]

Open ==
    /\ Opening
    /\ opened' = opened \cup {Resource}
    /\ IF Resource = "agent" THEN phase' = "configure" /\ UNCHANGED <<position, starting>>
                             ELSE NextInList("opening")
    /\ UNCHANGED <<mode, failed, agentVars, neighbour, toolCall, mishaps>>

(* Only the advertisement of the service may be missing. *)
OpenFails ==
    /\ Opening /\ Mishap
    /\ IF Resource = "discovery" THEN NextInList("opening") ELSE BeginClosing
    /\ UNCHANGED <<mode, opened, failed, agentVars, neighbour, toolCall>>

Serve ==
    /\ phase = "opening" /\ ~Opening
    /\ phase' = "serving"
    /\ UNCHANGED <<mode, position, starting, opened, failed, agentVars, neighbour, toolCall, mishaps>>

(* The listeners could not start, one of them ended, or the Hub was told.  *)
StopServing ==
    /\ phase = "serving" /\ BeginClosing
    /\ UNCHANGED <<mode, opened, failed, agentVars, neighbour, toolCall, mishaps>>

------------------------------------------------------------------------------
(* AgentPlannerSupervisor.start_optional. *)

StartStages == {"configure", "root", "home", "profile", "spawn", "health", "contract", "client"}

Stage(at, then) ==
    /\ phase = at /\ phase' = then
    /\ UNCHANGED <<mode, position, starting, opened, failed, neighbour, toolCall, mishaps>>

NotConfigured ==
    /\ phase = "configure" /\ NextInList("opening")
    /\ UNCHANGED <<mode, opened, failed, agentVars, neighbour, toolCall, mishaps>>

Configured == Stage("configure", "root") /\ UNCHANGED agentVars

MakeRoot ==
    /\ Stage("root", "home")
    /\ runsRoot' = TRUE /\ UNCHANGED <<agent, child, home>>

(* A neighbour that leaves may have removed the root meanwhile. *)
MakeHome ==
    /\ runsRoot /\ Stage("home", "profile")
    /\ home' = TRUE /\ agent' = [agent EXCEPT !.runHome = TRUE]
    /\ UNCHANGED <<child, runsRoot>>

WriteProfile ==
    /\ Stage("profile", "spawn")
    /\ agent' = [agent EXCEPT !.token = TRUE] /\ UNCHANGED <<child, home, runsRoot>>

Spawn ==
    /\ Stage("spawn", "health")
    /\ agent' = [agent EXCEPT !.process = TRUE] /\ child' = "running"
    /\ UNCHANGED <<home, runsRoot>>

Healthy == child = "running" /\ Stage("health", "contract") /\ UNCHANGED agentVars

(* Authentication is required and every built-in toolset is off. *)
ContractHolds == Stage("contract", "client") /\ UNCHANGED agentVars

MakeClient ==
    /\ phase = "client" /\ NextInList("opening")
    /\ agent' = [agent EXCEPT !.planner = TRUE, !.status = "hermes"]
    /\ UNCHANGED <<mode, opened, failed, child, home, runsRoot, neighbour, toolCall, mishaps>>

(* Configuration, paths, directories, process, deadline or contract: every *)
(* exception of a stage closes what there is, and the Hub goes on without. *)
StageFails ==
    /\ phase \in StartStages /\ Stage(phase, "stopPlanner") /\ UNCHANGED agentVars

------------------------------------------------------------------------------
(* AgentPlannerSupervisor.close, from start_optional or the finally block. *)

CloseReturns ==
    /\ opened' = IF starting THEN opened ELSE opened \ {"agent"}
    /\ NextInList(IF starting THEN "opening" ELSE "closing")
    /\ UNCHANGED failed

(* The finally block goes on; the try block does not. *)
CloseRaises ==
    /\ failed' = failed \cup {"agent"}
    /\ IF starting THEN BeginClosing ELSE NextInList("closing")
    /\ UNCHANGED opened

ClosePlanner ==
    /\ Stage("stopPlanner", "stopChild")
    /\ agent' = [agent EXCEPT !.planner = FALSE, !.status = "fallback"]
    /\ UNCHANGED <<child, home, runsRoot>>

(* The field is cleared first: a second close does not know the process.   *)
StopChild ==
    /\ Stage("stopChild", "wipe")
    /\ agent' = [agent EXCEPT !.process = FALSE]
    /\ child' = IF agent.process /\ child = "running" THEN "exited" ELSE child
    /\ UNCHANGED <<home, runsRoot>>

StopRaises ==
    /\ phase = "stopChild" /\ agent.process /\ child = "running" /\ Mishap
    /\ agent' = [agent EXCEPT !.process = FALSE]
    /\ CloseRaises
    /\ UNCHANGED <<mode, child, home, runsRoot, neighbour, toolCall>>

Wipe ==
    /\ phase = "wipe"
    /\ agent' = [agent EXCEPT !.token = FALSE, !.runHome = FALSE]
    /\ IF agent.runHome THEN phase' = "remove" /\ UNCHANGED <<position, starting, opened, failed>>
                        ELSE CloseReturns
    /\ UNCHANGED <<mode, child, home, runsRoot, neighbour, toolCall, mishaps>>

RemoveHome ==
    /\ Stage("remove", "lookRoot")
    /\ home' = FALSE /\ UNCHANGED <<agent, child, runsRoot>>

(* A file of the child is still open. *)
RemoveRaises ==
    /\ phase = "remove" /\ Mishap /\ CloseRaises
    /\ UNCHANGED <<mode, agentVars, neighbour, toolCall>>

LookRoot ==
    /\ phase = "lookRoot"
    /\ IF ~runsRoot THEN CloseRaises
       ELSE IF neighbour = "home" THEN CloseReturns
       ELSE phase' = "removeRoot" /\ UNCHANGED <<position, starting, opened, failed>>
    /\ UNCHANGED <<mode, agentVars, neighbour, toolCall, mishaps>>

(* A neighbour may have come, or have removed the root itself. *)
RemoveRoot ==
    /\ phase = "removeRoot"
    /\ IF runsRoot /\ neighbour # "home" THEN runsRoot' = FALSE /\ CloseReturns
                                         ELSE UNCHANGED runsRoot /\ CloseRaises
    /\ UNCHANGED <<mode, agent, child, home, neighbour, toolCall, mishaps>>

------------------------------------------------------------------------------
(* The finally block. *)

Closing == phase = "closing" /\ position \in DOMAIN Closes

(* What was opened is closed; the bridge waits for its handlers.           *)
CloseOne ==
    /\ Closing
    /\ Resource = "bridge" => ~toolCall
    /\ IF Resource = "agent" /\ "agent" \in opened
         THEN phase' = "stopPlanner" /\ UNCHANGED <<position, starting, opened>>
         ELSE NextInList("closing") /\ opened' = opened \ {Resource}
    /\ UNCHANGED <<mode, failed, agentVars, neighbour, toolCall, mishaps>>

(* Slip: one try around them all. *)
CloseOneEndsAll ==
    /\ Closing /\ Resource \in opened \ {"agent"} /\ Mishap
    /\ failed' = failed \cup {Resource} /\ phase' = "returned"
    /\ UNCHANGED <<mode, position, starting, opened, agentVars, neighbour, toolCall>>

CloseOneFails ==
    /\ Closing /\ Resource \in opened \ {"agent"} /\ Mishap
    /\ failed' = failed \cup {Resource} /\ NextInList("closing")
    /\ UNCHANGED <<mode, opened, agentVars, neighbour, toolCall>>

Returns ==
    /\ phase = "closing" /\ ~Closing
    /\ phase' = "returned"
    /\ UNCHANGED <<mode, position, starting, opened, failed, agentVars, neighbour, toolCall, mishaps>>

------------------------------------------------------------------------------
(* The child, its calls, and another Hub. *)

ChildExits ==
    /\ child = "running" /\ child' = "exited"
    /\ UNCHANGED <<mode, phase, position, starting, opened, failed, agent, home, runsRoot,
                   neighbour, toolCall, mishaps>>

CallBegins ==
    /\ child = "running" /\ "bridge" \in opened /\ ~toolCall
    /\ toolCall' = TRUE
    /\ UNCHANGED <<mode, phase, position, starting, opened, failed, agentVars, neighbour, mishaps>>

CallEnds ==
    /\ toolCall /\ toolCall' = FALSE
    /\ UNCHANGED <<mode, phase, position, starting, opened, failed, agentVars, neighbour, mishaps>>

NeighbourComes ==
    /\ neighbour = "none" /\ neighbour' = "home" /\ runsRoot' = TRUE
    /\ UNCHANGED <<mode, phase, position, starting, opened, failed, agent, child, home, toolCall, mishaps>>

(* Its home goes, and then the root if nothing is left in it. *)
NeighbourLeaves ==
    /\ \/ neighbour = "home" /\ neighbour' = "leaving" /\ UNCHANGED runsRoot
       \/ neighbour = "leaving" /\ neighbour' = "none" /\ runsRoot' = (runsRoot /\ home)
    /\ UNCHANGED <<mode, phase, position, starting, opened, failed, agent, child, home, toolCall, mishaps>>

StartsPlanner == \/ Configured \/ NotConfigured \/ MakeRoot \/ MakeHome \/ WriteProfile \/ Spawn
          \/ Healthy \/ ContractHolds \/ MakeClient \/ StageFails
StopsPlanner == \/ ClosePlanner \/ StopChild \/ StopRaises \/ Wipe \/ RemoveHome \/ RemoveRaises
         \/ LookRoot \/ RemoveRoot
Around == ChildExits \/ CallBegins \/ CallEnds \/ NeighbourComes \/ NeighbourLeaves

ProcessNext ==
    \/ Open \/ OpenFails \/ Serve \/ StopServing
    \/ StartsPlanner \/ StopsPlanner
    \/ CloseOne \/ CloseOneFails \/ Returns
    \/ Around

ProcessSpec == ProcessInit /\ [][ProcessNext]_processVars

------------------------------------------------------------------------------
(* Properties. *)

Resources == {"pairing", "app", "events", "catalog", "executor", "memory", "projection",
              "content", "ocr", "autonomy", "bridge", "agent", "export", "proactive", "discovery"}
StopSteps == {"stopPlanner", "stopChild", "wipe", "remove", "lookRoot", "removeRoot"}

ProcessTypeOK ==
    /\ mode \in {"https", "pairing", "session"}
    /\ phase \in {"opening", "serving", "closing", "returned"} \cup StartStages \cup StopSteps
    /\ position \in 1..15
    /\ starting \in BOOLEAN
    /\ opened \subseteq Resources /\ failed \subseteq Resources
    /\ agent \in [planner : BOOLEAN, process : BOOLEAN, token : BOOLEAN, runHome : BOOLEAN,
                  status : {"fallback", "hermes"}]
    /\ child \in {"none", "running", "exited"}
    /\ home \in BOOLEAN /\ runsRoot \in BOOLEAN
    /\ neighbour \in {"none", "home", "leaving"}
    /\ toolCall \in BOOLEAN
    /\ mishaps \in 0..MaxMishaps

(* "Close ... on every path; ignore secondary cleanup errors": what the Hub *)
(* gives up it lets go.  When one of the three functions returns, only what *)
(* itself refused is still open, and unless the supervisor refused, no      *)
(* planner, token or run directory is left.  A Hub that goes on without its *)
(* planner holds nothing of it, wherever the planner's start stopped, and   *)
(* one that has a planner can talk to it.                                   *)
GivenUpIsLetGo ==
    /\ phase = "returned" =>
         /\ opened \subseteq failed
         /\ "agent" \in failed \/ (~agent.planner /\ ~agent.token /\ ~home /\ child # "running")
    /\ phase \in {"opening", "serving"} =>
         IF agent.status = "hermes"
           THEN agent.planner /\ agent.token /\ agent.process
           ELSE ~agent.planner /\ ~agent.token /\ ~agent.process /\ ~home /\ child # "running"

(* The catalog and the contents are not closed under a call of the tool    *)
(* bridge, whenever the planner dies or is stopped, unless the bridge did  *)
(* not let itself be closed before them.                                   *)
StoresOutliveCalls ==
    toolCall => "bridge" \in failed \/ {"catalog", "content"} \subseteq opened

(* "The Hub keeps its deterministic parser/executor as the fail-safe path  *)
(* when ... the owned child cannot be proven ready": giving up on the      *)
(* planner does not end the start of the Hub.                              *)
PlannerIsOptional == [][starting /\ phase \in StopSteps => starting']_processVars
==============================================================================
