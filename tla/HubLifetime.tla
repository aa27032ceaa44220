---------------------------- MODULE HubLifetime ----------------------------
(***************************************************************************)
(* The worker pool every HTTP handler of the Hub reaches the pairing store *)
(* through (pairing_store_executor.py), and the three runtimes that start  *)
(* listeners around it and stop them: serve_https_hub (one listener),      *)
(* serve_supervised_pairing (LAN listener and local control listener) and  *)
(* serve_supervised_shared_session (LAN and local listener).               *)
(*                                                                         *)
(* Three kinds of threads meet here.  Handlers run on one event loop, so a *)
(* submission is never interrupted by another handler, but the workers and *)
(* a thread that shuts the pool down may step between its two looks at     *)
(* `_accepting` and between its registration and its put.  The pool is     *)
(* shut by the lifespan of each listener that owns it and, at the end, by  *)
(* the function that built everything.                                     *)
(***************************************************************************)
EXTENDS Integers, Sequences, FiniteSets

CONSTANTS
    Calls,          \* calls of the store; each is made at most once
    Certain,        \* those made with run_completion_certain
    Local,          \* those made by handlers of the local listener
    Workers,        \* the threads of the pool (max_workers)
    Capacity,       \* max_workers + max_queued
    NoCall          \* what a worker holds that holds nothing

ASSUME LifetimeAssumption ==
    /\ Certain \subseteq Calls /\ Local \subseteq Calls /\ IsFiniteSet(Calls)
    /\ NoCall \notin Calls /\ "stop" \notin Calls
    /\ IsFiniteSet(Workers) /\ Workers # {} /\ Capacity \in Nat \ {0}

VARIABLES
    runtime,        \* which of the three functions is running
    accepting,      \* _accepting
    stopSent,       \* _stop_sent
    shut,           \* _shutdown_done
    active, queued, \* _active, _queued
    slots,          \* what is left of _slots
    futures,        \* _futures
    outcome,        \* the state of each call's Future
    tasks,          \* _tasks: calls, and Stop for None
    worker,         \* where each worker is and the call it holds
    caller,         \* where each handler is in submit and in its wait
    shutter,        \* where each of the three who may shut the pool down is
    server,         \* the listeners
    closedBy        \* who has closed a store

poolVars == <<accepting, stopSent, shut, active, queued, slots, futures, outcome, tasks>>
lifeVars == <<runtime, poolVars, worker, caller, shutter, server, closedBy>>

Stop == "stop"
Servers == {"local", "lan"}
Shutters == Servers \cup {"owner"}

(* A Future that will not change any more (Future.done). *)
Final == {"result", "cancelled"}

LifeInit ==
    /\ runtime \in {"https", "pairing", "session"}
    /\ accepting = TRUE /\ stopSent = FALSE /\ shut = FALSE
    /\ active = 0 /\ queued = 0 /\ slots = Capacity
    /\ futures = {} /\ outcome = [c \in Calls |-> "none"] /\ tasks = <<>>
    /\ worker = [w \in Workers |-> [at |-> "waiting", call |-> NoCall]]
    /\ caller = [c \in Calls |-> "idle"]
    /\ shutter = [s \in Shutters |-> "out"]
    /\ server = [s \in Servers |->
                    IF s = "local" /\ runtime = "https" THEN "down" ELSE "serving"]
    /\ closedBy = {}

AtMostZero(n) == IF n > 0 THEN n ELSE 0

----------------------------------------------------------------------------
(* Handlers.  None of them awaits inside submit: while one is in it the    *)
(* event loop does nothing else.                                           *)

InSubmit(c) == caller[c] \in {"admitted", "registered"}
LoopIsFree == ~\E c \in Calls : InSubmit(c)
ServerOf(c) == IF c \in Local THEN "local" ELSE "lan"
Over(c) == caller[c] \in {"idle", "refused", "answered"}

(* submit, up to the slot: refused when the pool is closed or full. *)
Admit(c) ==
    /\ LoopIsFree /\ caller[c] = "idle"
    /\ server[ServerOf(c)] = "serving"
    /\ IF accepting /\ slots > 0
         THEN slots' = slots - 1 /\ caller' = [caller EXCEPT ![c] = "admitted"]
         ELSE caller' = [caller EXCEPT ![c] = "refused"] /\ UNCHANGED slots
    /\ UNCHANGED <<runtime, accepting, stopSent, shut, active, queued, futures, outcome,
                   tasks, worker, shutter, server, closedBy>>

(* Slip: the second look at _accepting left out. *)
RegisterUnseen(c) ==
    /\ caller[c] = "admitted"
    /\ futures' = futures \cup {c}
    /\ queued' = queued + 1
    /\ outcome' = [outcome EXCEPT ![c] = "pending"]
    /\ caller' = [caller EXCEPT ![c] = "registered"]
    /\ UNCHANGED <<runtime, accepting, stopSent, shut, active, slots, tasks, worker,
                   shutter, server, closedBy>>

(* submit, the second look and the registration, both under the lock.  The *)
(* path out of it takes back a count that was never added.                 *)
Register(c) ==
    /\ caller[c] = "admitted"
    /\ IF accepting
         THEN /\ futures' = futures \cup {c}
              /\ queued' = queued + 1
              /\ outcome' = [outcome EXCEPT ![c] = "pending"]
              /\ caller' = [caller EXCEPT ![c] = "registered"]
              /\ UNCHANGED slots
         ELSE /\ queued' = AtMostZero(queued - 1)
              /\ slots' = slots + 1
              /\ caller' = [caller EXCEPT ![c] = "refused"]
              /\ UNCHANGED <<futures, outcome>>
    /\ UNCHANGED <<runtime, accepting, stopSent, shut, active, tasks, worker, shutter,
                   server, closedBy>>

(* submit, the put, which is outside the lock. *)
Enqueue(c) ==
    /\ caller[c] = "registered"
    /\ tasks' = Append(tasks, c)
    /\ caller' = [caller EXCEPT ![c] = "awaiting"]
    /\ UNCHANGED <<runtime, accepting, stopSent, shut, active, queued, slots, futures,
                   outcome, worker, shutter, server, closedBy>>

(* run: the deadline passes or the request is cancelled.  A call no worker *)
(* has started is taken back, one that runs goes on without its caller.    *)
Expire(c) ==
    /\ LoopIsFree /\ c \notin Certain /\ caller[c] = "awaiting"
    /\ outcome' = [outcome EXCEPT ![c] = IF @ = "pending" THEN "cancelled" ELSE @]
    /\ caller' = [caller EXCEPT ![c] = "answered"]
    /\ UNCHANGED <<runtime, accepting, stopSent, shut, active, queued, slots, futures,
                   tasks, worker, shutter, server, closedBy>>

(* Slip: the cancelled request answered at once. *)
LeaveAtOnce(c) ==
    /\ LoopIsFree /\ c \in Certain /\ caller[c] = "awaiting"
    /\ caller' = [caller EXCEPT ![c] = "answered"]
    /\ UNCHANGED <<runtime, poolVars, worker, shutter, server, closedBy>>

(* run_completion_certain: the request is cancelled; it stays all the same. *)
Leave(c) ==
    /\ LoopIsFree /\ c \in Certain /\ caller[c] = "awaiting"
    /\ caller' = [caller EXCEPT ![c] = "leaving"]
    /\ UNCHANGED <<runtime, poolVars, worker, shutter, server, closedBy>>

(* Either wait ends with the Future. *)
Return(c) ==
    /\ LoopIsFree /\ caller[c] \in {"awaiting", "leaving"} /\ outcome[c] \in Final
    /\ caller' = [caller EXCEPT ![c] = "answered"]
    /\ UNCHANGED <<runtime, poolVars, worker, shutter, server, closedBy>>

----------------------------------------------------------------------------
(* Workers: _worker_main and _finish_future. *)

Take(w) ==
    /\ worker[w].at = "waiting" /\ tasks # <<>>
    /\ tasks' = Tail(tasks)
    /\ IF Head(tasks) = Stop
         THEN worker' = [worker EXCEPT ![w].at = "gone"] /\ UNCHANGED queued
         ELSE /\ worker' = [worker EXCEPT ![w] = [at |-> "holding", call |-> Head(tasks)]]
              /\ queued' = AtMostZero(queued - 1)
    /\ UNCHANGED <<runtime, accepting, stopSent, shut, active, slots, futures, outcome,
                   caller, shutter, server, closedBy>>

GiveBack(w) ==
    /\ futures' = futures \ {worker[w].call}
    /\ slots' = slots + 1
    /\ worker' = [worker EXCEPT ![w] = [at |-> "waiting", call |-> NoCall]]

(* set_running_or_notify_cancel: a call that was taken back is not run. *)
Skip(w) ==
    /\ worker[w].at = "holding" /\ outcome[worker[w].call] = "cancelled"
    /\ GiveBack(w)
    /\ UNCHANGED <<runtime, accepting, stopSent, shut, active, queued, outcome, tasks,
                   caller, shutter, server, closedBy>>

Start(w) ==
    /\ worker[w].at = "holding" /\ outcome[worker[w].call] = "pending"
    /\ outcome' = [outcome EXCEPT ![worker[w].call] = "running"]
    /\ active' = active + 1
    /\ worker' = [worker EXCEPT ![w].at = "working"]
    /\ UNCHANGED <<runtime, accepting, stopSent, shut, queued, slots, futures, tasks,
                   caller, shutter, server, closedBy>>

(* The function returns or raises: the Future has its outcome. *)
Work(w) ==
    /\ worker[w].at = "working"
    /\ outcome' = [outcome EXCEPT ![worker[w].call] = "result"]
    /\ worker' = [worker EXCEPT ![w].at = "finishing"]
    /\ UNCHANGED <<runtime, accepting, stopSent, shut, active, queued, slots, futures,
                   tasks, caller, shutter, server, closedBy>>

Finish(w) ==
    /\ worker[w].at = "finishing"
    /\ active' = active - 1
    /\ GiveBack(w)
    /\ UNCHANGED <<runtime, accepting, stopSent, shut, queued, outcome, tasks, caller,
                   shutter, server, closedBy>>

----------------------------------------------------------------------------
(* shutdown, under _shutdown_mutex. *)

MutexIsFree == ~\E s \in Shutters : shutter[s] \in {"cancelling", "idling", "joining"}
Idle == active = 0 /\ \A c \in futures : outcome[c] \in Final
WorkersGone == \A w \in Workers : worker[w].at = "gone"
Quiet == Idle /\ queued = 0 /\ WorkersGone

Goes(s, at) == shutter' = [shutter EXCEPT ![s] = at]

Close(s) ==
    /\ shutter[s] = "wanted" /\ MutexIsFree
    /\ IF shut THEN Goes(s, "done") /\ UNCHANGED accepting
               ELSE Goes(s, "cancelling") /\ accepting' = FALSE
    /\ UNCHANGED <<runtime, stopSent, shut, active, queued, slots, futures, outcome,
                   tasks, worker, caller, server, closedBy>>

CancelQueued(s) ==
    /\ shutter[s] = "cancelling"
    /\ outcome' = [c \in Calls |-> IF c \in futures /\ outcome[c] = "pending"
                                     THEN "cancelled" ELSE outcome[c]]
    /\ Goes(s, "idling")
    /\ UNCHANGED <<runtime, accepting, stopSent, shut, active, queued, slots, futures,
                   tasks, worker, caller, server, closedBy>>

(* The pool is idle in time, and the workers are told to stop, once. *)
SendStops(s) ==
    /\ shutter[s] = "idling" /\ Idle
    /\ tasks' = IF stopSent THEN tasks
                ELSE tasks \o [i \in 1..Cardinality(Workers) |-> Stop]
    /\ stopSent' = TRUE
    /\ Goes(s, "joining")
    /\ UNCHANGED <<runtime, accepting, shut, active, queued, slots, futures, outcome,
                   worker, caller, server, closedBy>>

(* _wait_until_idle gives up: a call takes longer than the wait. *)
NotIdle(s) ==
    /\ shutter[s] = "idling" /\ ~Idle
    /\ Goes(s, "failed")
    /\ UNCHANGED <<runtime, poolVars, worker, caller, server, closedBy>>

(* Slip: the pool declared shut without looking at what is left. *)
JoinedUnseen(s) ==
    /\ shutter[s] = "joining" /\ WorkersGone
    /\ shut' = TRUE /\ Goes(s, "done")
    /\ UNCHANGED <<runtime, accepting, stopSent, active, queued, slots, futures, outcome,
                   tasks, worker, caller, server, closedBy>>

(* Every worker was joined; _shutdown_invariants_met decides. *)
Joined(s) ==
    /\ shutter[s] = "joining" /\ WorkersGone
    /\ IF Quiet THEN shut' = TRUE /\ Goes(s, "done")
                ELSE UNCHANGED shut /\ Goes(s, "failed")
    /\ UNCHANGED <<runtime, accepting, stopSent, active, queued, slots, futures, outcome,
                   tasks, worker, caller, server, closedBy>>

(* A join ran out of time. *)
NotJoined(s) ==
    /\ shutter[s] = "joining" /\ ~WorkersGone
    /\ Goes(s, "failed")
    /\ UNCHANGED <<runtime, poolVars, worker, caller, server, closedBy>>

----------------------------------------------------------------------------
(* The listeners and their lifespans. *)

(* Slip: both listeners of the pairing runtime told to exit at once. *)
MayStopTogether(s) == TRUE

(* _stop_servers: in the pairing runtime the control listener stops first. *)
MayStop(s) == s = "lan" /\ runtime = "pairing" => server["local"] = "down"

(* Only the control app of the pairing runtime does not own the pool. *)
OwnsPool(s) == ~(s = "local" /\ runtime = "pairing")

(* A listener told to exit leaves its handlers alone until the last ends. *)
StopServer(s) ==
    /\ LoopIsFree /\ server[s] = "serving" /\ MayStop(s)
    /\ \A c \in Calls : ServerOf(c) = s => Over(c)
    /\ IF OwnsPool(s)
         THEN server' = [server EXCEPT ![s] = "lifespan"] /\ Goes(s, "wanted")
         ELSE server' = [server EXCEPT ![s] = "down"] /\ UNCHANGED shutter
    /\ UNCHANGED <<runtime, poolVars, worker, caller, closedBy>>

(* Slip: the lifespan closes the event store whatever became of the pool. *)
EndLifespanAnyhow(s) ==
    /\ LoopIsFree /\ server[s] = "lifespan" /\ shutter[s] \in {"done", "failed"}
    /\ server' = [server EXCEPT ![s] = "down"]
    /\ closedBy' = IF runtime # "session" THEN closedBy \cup {s} ELSE closedBy
    /\ UNCHANGED <<runtime, poolVars, worker, caller, shutter>>

(* The end of lifespan: the event store is closed if the app made it (all  *)
(* but the session runtime let it) and the pool was shut.                  *)
EndLifespan(s) ==
    /\ LoopIsFree /\ server[s] = "lifespan" /\ shutter[s] \in {"done", "failed"}
    /\ server' = [server EXCEPT ![s] = "down"]
    /\ closedBy' = IF shutter[s] = "done" /\ runtime # "session"
                     THEN closedBy \cup {s} ELSE closedBy
    /\ UNCHANGED <<runtime, poolVars, worker, caller, shutter>>

(* The owner's finally block, after the event loop has ended. *)
OwnerShuts ==
    /\ shutter["owner"] = "out" /\ \A s \in Servers : server[s] = "down"
    /\ Goes("owner", "wanted")
    /\ UNCHANGED <<runtime, poolVars, worker, caller, server, closedBy>>

(* It ignores what shutdown raised and closes the stores. *)
OwnerCloses ==
    /\ shutter["owner"] \in {"done", "failed"} /\ "owner" \notin closedBy
    /\ closedBy' = closedBy \cup {"owner"}
    /\ UNCHANGED <<runtime, poolVars, worker, caller, shutter, server>>

----------------------------------------------------------------------------
LifeNext ==
    \/ \E c \in Calls :
         Admit(c) \/ Register(c) \/ Enqueue(c) \/ Expire(c) \/ Leave(c) \/ Return(c)
    \/ \E w \in Workers : Take(w) \/ Skip(w) \/ Start(w) \/ Work(w) \/ Finish(w)
    \/ \E s \in Shutters :
         Close(s) \/ CancelQueued(s) \/ SendStops(s) \/ NotIdle(s) \/ Joined(s) \/ NotJoined(s)
    \/ \E s \in Servers : StopServer(s) \/ EndLifespan(s)
    \/ OwnerShuts \/ OwnerCloses

(* Threads run, the functions given to the pool return, and the event loop *)
(* resumes whoever is ready.  Nothing says that a listener is ever stopped *)
(* or that a request is cancelled.                                         *)
LifeFairness ==
    /\ \A c \in Calls : WF_lifeVars(Register(c)) /\ WF_lifeVars(Enqueue(c)) /\ WF_lifeVars(Return(c))
    /\ \A w \in Workers :
         WF_lifeVars(Take(w)) /\ WF_lifeVars(Skip(w) \/ Start(w) \/ Work(w) \/ Finish(w))

LifeSpec == LifeInit /\ [][LifeNext]_lifeVars /\ LifeFairness

----------------------------------------------------------------------------
LifeTypeOK ==
    /\ active \in 0..Cardinality(Workers) /\ queued \in 0..Cardinality(Calls)
    /\ slots \in 0..Capacity
    /\ futures \subseteq Calls
    /\ outcome \in [Calls -> {"none", "pending", "running"} \cup Final]
    /\ tasks \in Seq(Calls \cup {Stop})
    /\ \A w \in Workers : worker[w].call \in Calls \cup {NoCall}
    /\ closedBy \subseteq Shutters

(* Every call that enters the pool comes back to its handler, also when    *)
(* the pool is shut between the handler's registration and its put, or     *)
(* while the call waits behind the others.                                 *)
CallsEnd == \A c \in Calls : caller[c] = "admitted" ~> Over(c)

(* run_completion_certain ("until its worker outcome is final"): a handler *)
(* that has its answer, or has been cancelled, leaves nothing that a       *)
(* worker could still do to the store in its name.                         *)
CertainIsFinal ==
    \A c \in Certain : caller[c] = "answered" =>
        /\ outcome[c] \in Final
        /\ \A w \in Workers : worker[w].call = c => worker[w].at # "working"

(* shutdown ("after success: active=queued=pending=workers=0"): once it    *)
(* has succeeded nothing is left in the pool, not even a call on its way   *)
(* from its registration to the queue.                                     *)
ShutIsQuiet == shut => Quiet /\ tasks = <<>> /\ ~\E c \in Calls : caller[c] = "registered"

(* Neither an answer nor a shutdown leaves work behind it. *)
NothingLeftBehind == CertainIsFinal /\ ShutIsQuiet

(* lifespan ("Incomplete executor shutdown must not close PairingStore"):  *)
(* a store a lifespan closes is not being used by a worker.                *)
LifespanClosesAfterWork ==
    closedBy \cap Servers # {} => \A w \in Workers : worker[w].at # "working"

(* _stop_servers ("Local control stops first so it cannot submit into a    *)
(* draining executor"): the pairing runtime's control listener is never    *)
(* refused because the pool is closing.                                    *)
ControlIsNotDrained ==
    runtime = "pairing" /\ ~accepting => \A c \in Local : Over(c) /\ server["local"] = "down"

(* The Hub stops from the outside in: listeners, pool, store. *)
StopsInOrder == LifespanClosesAfterWork /\ ControlIsNotDrained

(* The same of every closing: "Callers must close PairingStore only after  *)
(* this returns".  The three owners close it after the pool failed to shut.*)
StoreClosedAfterWork ==
    closedBy # {} => \A w \in Workers : worker[w].at # "working"
============================================================================
