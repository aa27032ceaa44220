# Data Steward: specifications and proofs

TLA+ modules of the parts of Data Steward in which steps of several actors,
failures or restarts meet: the Hub's durable conversation store, the delivery of
its events to devices, the device's client, controller, cursor files and
credential, pairing, the connection registry that enforces it and the worker pool
below it, the Hub's identity and the functions that open and close it with its
planner, the reversible organization and the export of files, and what the Hub
derives from messages and materials: answers, actions, a memory, a catalog,
recognized texts, study packs and suggestions. Each module is translated from the
source; `PROJECT.json` (`map`) names the lines every definition stands for.

Run a configuration with `tlc -config X.cfg M`, check the proofs with `tlapm` on the
eight modules whose names end in `_proofs`.

## 1. Inventory

Data Steward is a Hub (Python, FastAPI, one asyncio event loop, SQLite through
worker threads, `src/services/steward_hub`) and an app (Dart with Kotlin
executors, `src/apps/steward_app`) on a Windows PC and on Android devices.

| Component | State it keeps | Operations | Interacts with |
| --- | --- | --- | --- |
| Event store (`store.py`) | SQLite: conversation (`next_seq`), message, event rows | create, append, replay, lookup, close | append handlers, gateway, WebSocket serving |
| Subscriptions (`subscriptions.py`) | one bounded queue per live WebSocket, overflow flag | register, publish, next_event, unregister | append handlers publish, serving coroutines consume |
| WebSocket serving (`api.py`) | cursor `last_sent`, phase of one connection | replay, drain, ready, live loop, error closes | store, subscriptions, registry |
| Append and gateway endpoints (`api.py`) | single-flight table of derived results, background tasks | append, publish, derive an answer, drain | store, subscriptions, agent, memory, files |
| Device WebSocket client and projection (Dart) | connection state, reconnect count, last sequence number, known events | connect, frames, close codes, reconnect | serving coroutine, controller |
| Session controller (Dart) | pending message, running operation, running action, transport | start, send, retry, actions, reset | REST transport, client, cursor store |
| Cursor store (Dart) | three files per conversation | read, write, reset | controller |
| Pairing store (`pairing_store.py`) | SQLite: boot, session, attempt, credential, audit | start, create, hello, two confirmations, abort, expire, revoke, update | operator, devices, authentication |
| Pairing store executor, runtimes (`https_runtime.py`, `supervised_*_runtime.py`) | bounded queue of store calls, worker threads, listeners and their lifespans | run, run_completion_certain, shutdown; serve, stop | everything that calls the pairing store |
| Connection registry (`device_connection_registry.py`) | handshake permits, connection and operation leases, send gates, stripe locks | authenticate, send, release, transition, shut down | WebSocket and REST authentication, credential operations |
| File scope and organizer (`pc_file_scope.py`, journal) | authorized scope and its record, journal file, the user's folder | authorize, revoke, preview, organize, undo, export | gateway, action projection, catalog |
| Action projection, archive memory | actions and receipts, suggestions, the learnt preference and its evidence, all in SQLite | register, execute, complete; suggest, accept, reject, approve, forget | gateway, organizer |
| Artifact export, its view | export records in SQLite, one Markdown file each; the view's key and undo token | preview, execute, status, undo | file scope, content understanding |
| Catalog store and sync | snapshots per device and root, idempotency receipts; the phone's outbox and base sequence; what each refresh under way has read | apply snapshot, retire, retry, refresh the PC's root | file scope, devices, what reads the catalog |
| Android OCR store and sync | texts per image, receipts; the phone's outbox and consent | apply batch, forget, expire | catalog store, devices |
| Content understanding, read-only tools | consent, cached texts, study packs; one tool job with its budget | opt in, extract, generate, tool calls | catalog, file scope, planner |
| Proactive suggestions, autonomy job | settings, observation, quota, suggestion rows; job leases | observe, create, accept, dismiss, disable; begin, hand over, complete, fail | planner, catalog, action projection |
| Hub functions (`serve_https_hub`, `serve_supervised_*`) | what is open, what refused to be closed | open one by one, serve, close one by one | everything in the Hub |
| Agent supervisor and planner | planner process, its token, client and run directory | start in stages, health, close | gateway, tool bridge, other Hubs' run directories |
| TLS identity | product and hub directories, staging directories, one identity with a marker | bootstrap, wait, finish, audit, roll back, rotate, load | Hub functions, other runs of the bootstrap |
| Device pairing client, vault, app coordinator | pairing progress; stored credential; refresh generation, queued refresh, address | pair, confirm, delete; refresh, discover, move | pairing HTTP, controller |

`PROJECT.json` lists all of them with their files and says of each what is
modelled; `hazards` lists what is hard to test, each at its line.

What makes them hard: append handlers, serving coroutines, transitions and
threads interleave at every await; SQLite transactions may fail or lose the
process at any statement; publications come in another order than commits;
REST replies race WebSocket frames; timeouts race late answers; cursor and
journal files are replaced in several file operations; a credential may be
withdrawn while frames and requests of the device are running; the user changes
the folders that the organizer is moving files in, withdraws consent while texts
are on their way, and presses a button again whose first press may have worked;
planner and agent take seconds between a check and its use; stores are closed by
threads other than those that use them; bootstraps overlap without a lock and die
between any two file operations; openings and closings raise part-way.

What makes the components correct, in one line each: the log has no gap and every
answer stays true (store); each event reaches each live device once and in order
(delivery, client); a message is never silently dropped or doubled (controller);
an acknowledged cursor is never lost (cursor store); no authority without both
confirmations in time, none after its end (pairing, registry, device credential);
admitted work ends before what it uses is closed (executor, runtimes); files are
moved back or stay where the journal says, and the user's own are never touched
(organizer, export); every message is answered once (gateway); what is completed
can be shown again (actions); what is remembered rests on evidence (memory); what
is shown is of the version it names and of a consent that stands (catalog, texts,
packs); limits and leases hold under concurrency (suggestions, jobs); there is one identity,
for ever, and a start finds or makes it (TLS identity); what was opened is closed on
every path (Hub functions).

## 2. Modules

| Module | Models | Read as |
| --- | --- | --- |
| `ConversationLog` | what the event store promises | an abstract log per conversation and truthful answers |
| `EventStore` | `store.py` | one action per stage of `append_message` |
| `SessionDelivery` | `subscriptions.py`, `_serve_conversation_events`, `hub_websocket_client.dart`, `session_projection.dart` | one action per step between two awaits, frames in a FIFO |
| `SessionController` | `shared_session_controller.dart` | extends SessionDelivery with the REST side |
| `FileCursorStore` | `file_cursor_store.dart` | one action per file operation |
| `PairingStore` | `pairing_store.py` | one action per transaction, with the clock it read |
| `DeviceConnectionRegistry` | `device_connection_registry.py`, `credential_transition.py`, `authenticated_websocket.py`, the REST gate | one action per step between two awaits |
| `FileOrganizer` | `pc_file_scope.py` (scope, organize, undo), `pc_file_organizer_journal.py` | one action per file operation under the service's lock |
| `ConversationGateway` | `append_message`, `process_derived_result`, `_UnifiedGatewayTaskManager` in `api.py` | one action per await of a request and of its background task |
| `ArchiveMemory` | `archive_memory.py` | one action per transaction |
| `ProductActions` | `action_projection.py`, `execute_product_action`, typed commands | extends ArchiveMemory with cards and requests |
| `ArtifactExport` | `artifact_export.py`, `artifact_export_api.py`, the export calls of `pc_file_scope.py`, `knowledge_export_view.dart` | one action per file operation or journal transition |
| `CatalogSync` | `catalog_store.py`, `catalog_sync_client.dart`, `catalog_operator_api.py`, `cluster_organization.py` (its refresh) | one action per request, arrival or answer; a refresh of the PC is four |
| `AndroidOcr` | `android_ocr_store.py`, `android_ocr_client.dart`, `CatalogOcrExecutor.kt` | check and write of an upload are two actions |
| `MaterialInsight` | `content_understanding.py`, `content_api.py`, `readonly_tool_bridge.py`, the planner's study packs | one action per look, read and save |
| `ProactiveSuggestions` | `proactive_suggestion.py`, `autonomy_job.py`, the planner's lock | one action per transaction of a store |
| `HubLifetime` | `pairing_store_executor.py`, the runtimes, the lifespan in `api.py` | one action per step between two lock sections |
| `DeviceCredential` | `pairing_controller.dart`, `mobile_pairing_page.dart`, `steward_app_coordinator.dart`, `SecurePairingExecutor.kt` | one action per vault call, request or answer |
| `HubProcess` | `https_runtime.py`, `supervised_pairing_runtime.py`, `supervised_shared_session_runtime.py`, `agent_supervisor.py` | one action per opening, closing or stage of the planner |
| `IdentityRegister` | what the bootstrap of the identity promises | a register written once, and who was told what |
| `TlsIdentity` | `tls_identity/permanent_identity.py`, `provisioner.py`, `loader.py` | one action per file operation of a run |
| `MCMaterials`, `MCProposals`, `MCServices`, `MCKeptOnDisk` | - | sums of components that share no state: `focus` says which one steps in a behaviour |
| `MCSuggestions` | - | ProactiveSuggestions alone, around midnight |
| `EventStore_proofs`, `SessionController_proofs` (with delivery), `PairingStore_proofs`, `DeviceConnectionRegistry_proofs`, `Device_proofs` (cursor store, credential, TLS identity), `Services_proofs` (organizer, gateway, lifetime, process), `Proposals_proofs` (memory, actions, suggestions), `Materials_proofs` (catalog, texts, packs, exports) | - | the theorems of section 4 |
| `MC...` | - | instances for TLC |

How they compose. EventStore implements ConversationLog (`ImplementsLog`), and TlsIdentity
implements IdentityRegister (`ImplementsRegister`). From ConversationLog
SessionDelivery takes what it needs, gap-free numbering from 1, so that
an event is its number and the log is its length; `DiskIsLog` proves that
numbering. SessionController extends SessionDelivery: every step of the
controller module is a step of delivery, a step of the controller's own
variables, or both (a REST reply moves the same projection the frames move).
ProductActions extends ArchiveMemory in the same way: pressing a card is a
transaction of the memory followed by transactions of the card's own. HubLifetime
discharges what DeviceConnectionRegistry assumes of a credential transition, that
its commit is carried to its end once it was admitted (`CertainIsFinal`). HubProcess is
the level above: the pool and the listeners are one resource each of its lists.
DeviceCredential takes from PairingStore how far an attempt came and one grant per
epoch, which `RowsMoveForward` justifies. ArtifactExport and MaterialInsight look at
FileOrganizer's scope only as far as it is the one they began with.
FileCursorStore stands below the controller, whose only assumption about it is
that a write ends, well or badly. PairingStore and DeviceConnectionRegistry
share the credential: the registry's `epoch` is what the store's
`verify_active_credential_digest` would find (0 once revoked), and
`GrantChangesWithEpoch` (in `RowsMoveForward`) is the fact that makes comparing epochs enough.

Definitions whose comment begins with `Slip:` are not part of any model. Each is
the mutated form of the definition that follows it, the way a plausible bug
would change the code; `PROJECT.json` (`mutants`) pairs each property with the
slip that violates it.

Some modules end with properties that no run checks because the code does not
have them: section 6 says of each how TLC shows it.

### Correspondence

*EventStore.* `db` is the committed database and `tx` the open transaction's view
of it. `append_message` is CallAppend (validation, `_connect`), BeginImmediate or
BusyTimeout, AnswerFromTables (missing conversation, duplicate with
`_deduplicated_result`), ReserveSequence, InsertMessage, InsertEvent, Commit, with
Fail at every stage between BEGIN and COMMIT (the code's fault points, the
transaction hook and any SQLite error). Return hands the result to the caller;
`answers` remembers it. Restart is a death at any point: WAL recovery drops the
open transaction. A message's actor, role and content are one `body`, its
causation and correlation one `cause`, because `_deduplicated_result` compares the
first with the message row and the second with the event row.

*SessionDelivery.* `last` is the log; `unpublished` the commits whose handler has
not reached `publish`, `lost` those whose handler never will. `serve` and `phase`
are where the serving coroutine is; TakeNotification is both the drain before
`ready` and the live loop. Authorization closes are the registry's subject; here
they are one of the ways a connection ends (NoticeDisconnect, LoseConnection).
The branch for a cursor ahead of the server cannot be reached from the devices
modelled here, whose cursors come from the log, so Register simply requires it.

*SessionController.* `op` is the active operation: its request is on the way to the
Hub, answered, or being reconciled after a TransportException; `orphans` are
requests the device gave up on that may still arrive. `recording` holds events
applied by the WebSocket whose cursor write `_onSocketEvent` still awaits before
it compares them with the pending message.

`action` is an `executeAction` under way: it takes no token and no operation, so its
result (ReceiveResult) may come when the session has failed or a message is under
way, and moves projection and cursor all the same. Its request is not retried;
ActionFails is a transport error, which leaves whether the Hub executed it open.

*FileCursorStore.* Three files, absent or holding a number, and the step of the one
queued write. Reset deletes them one by one and may overlap a write queued after
it began, because `reset` awaits `_writeTail` without joining it; `raced`
remembers that this happened. A torn file is not modelled: the code flushes the
next file and renames it, and a record that fails its checksum is a refusal.

*PairingStore.* Rows of session, attempt and credential. An operation takes its time
from `ReadTimes`, at most MaxLag old: `_now()` is called before BEGIN IMMEDIATE
waits for the lock. `LiveSession` and `LiveCred` are the tables after
`_expire_due_locked`, which every transaction but the abort runs first. An
operation that raises and rolls back is no step. Secrets and digests are the
identity of the client that holds them.

*DeviceConnectionRegistry.* Locks are their holders. A connection goes through
handshake, verification under its stripe, registration, sends under its gate, and
cleanup; a request through verification, its handler, and release; a transition
through draining the device's operations, collecting leases, taking their gates,
committing, detaching, and closing. `StopAccepting` is the shutdown, which takes
neither gates nor stripes. A transition cannot be abandoned between its commit
and its detaching: `transition_and_close` and `run_completion_certain` defer
cancellation.

*FileOrganizer.* A file is its name and the version of its content, in the
authorized folder (`root`) or in its category folder (`archive`); the version
stands for size and time, which the evidence digest and the check before a move
look at. `pc` walks through the nested handlers: a move that fails rolls back
inside `_apply_organization` and again in the handler around it. Renames never
replace a file (the service runs on Windows, where `os.rename` raises). The plan
of `organize` is that of `organize_selected` with every file selected. Folders
other than the organized one appear only as a different scope after Restart or
Revoke; one authorize and one revoke call may overlap each other and anything
else.

*ConversationGateway.* A request posts (or finds) the message, answers, and leaves a
task. `task` walks through `safely_process_derived_result`: the look for an existing
answer, `schedule` (accepted, joined, or rejected and answered by a refusal), the
flight's own look, the operation, the append. `ran` remembers the messages whose
operation has had effects. StopAccepting is the beginning of the shutdown, which
awaits for a limited time what runs and raises if something still does; it cancels
nothing. GatewayRestart ends the Hub, drained or not. What the operation does is ProductActions' or FileOrganizer's.

*ArchiveMemory, ProductActions.* A card (`action`) is an inserted row: where it stands,
its kind, its status. `request` is an `execute_product_action` between its awaits:
selection, the operation (a transaction of the memory, or the organizer's answer),
append of the result, `mark_completed`, `register_receipt`, each of which may fail or
be cut off by a death. The organizer is what it answers: a text that depends on the
folder's state, so that a repetition may answer with another text. `followed` bounds
which kinds of cards a behaviour has. Messages that are commands (accept, reject,
show, forget) act on the memory in the gateway's transaction.

*ArtifactExport.* `journal` holds the rows, `file` what stands under the one name a pack
determines, `client` what a view remembers (key, token). `op` walks through the service
under its lock: inspect, prepare, open, write, complete; inspect, UNDOING, look
again, unlink, UNDONE; status converges rows. Requests and replies may be lost, and
another request waits for the lock; the user edits or removes files at any step.

*CatalogSync.* A snapshot is a function from items to revisions, the phone's outbox
holds one payload with its key and base sequence, `flying` the requests that may
arrive, again or late. `apply_snapshot` is ApplyAgain (its receipt), Conflict, or
ApplyNew with AssetsAfter and the retirement of the root's predecessors. A
refresh of the PC's folder (`refresh_pc`, `_refresh_pc_catalog`) is four steps: which
root is authorized (AskPc), the sequence of that root (ReadPc), the folder that is
authorized by then (ScanPc), the application (ApplyPc). Nothing is locked from one to
the next and nothing compares the roots, so `refresh` has one entry for each of several
refreshes, which interleave with each other and with ChangePc. `seen` and `kept` in it
are history: the snapshot that stood when the sequence was read, and whether the root
is still that one and has stayed in the catalog since.

*AndroidOcr.* A batch carries what was recognized, and the consent it was recognized
under, which only the properties look at. `apply` is CheckUpload and WriteUpload:
the code looks at the catalog between the two sections of its own lock.

*MaterialInsight.* A text is named by the revision of the file it was read from, so that
a stale one can be told. A request generates by the planner (whose tool calls run in
their own threads under one job and its budget) or by the fallback; both list,
extract with cache, and save, and the catalog, the files and the consent change
between any two.

*ProactiveSuggestions.* `work` of an asker: observe up to the gate, begin, bind, ask,
validate, create, complete, or the same for a study pack; time passes in ticks of
STABLE_SNAPSHOT_MS and the planner takes at most Flight of them. PlannerFails is an
AgentPlanningError, PlannerRaises any other exception. A restart fails what was
active, as `AutonomyJobStore.__init__` does.

*HubLifetime.* `tasks` is the queue with its sentinels, `worker` where each thread is,
`caller` where each handler is in `submit` (first look, registration, second look
and put) and in its wait, `shutter` where each of the three threads that may shut
the pool down is. Wait deadlines are nondeterministic (NotIdle, NotJoined).

*DeviceCredential.* `vault` holds at most one credential, `page` the pairing page's step,
`app` the coordinator with the refresh under way, what it read, and the address it
talks to. An update of the vault (Store, Persist) and the `loadActive` that ends it
(Reload) are two steps, between which the page may delete the record or pair again. Hub steps are the operator's: confirm, cancel, grant, revoke, and a move
to another address. Each request of the phone may be lost before or after the Hub
has acted on it.

*HubProcess.* `mode` says which of the three functions runs. `position` walks through
the list of what it opens (SessionOpens, ...) and, once an opening raised or serving
ended, through the list of what its finally block closes, in the code's order, which
is not the reverse one. Any opening may raise and so may any close, each of which has
its own `try`. At "agent" the walk goes through `start_optional` stage by stage, and
its `close()` (also called by its own handler) step by step: client, process, token,
run directory, common root. The child exits when it likes and calls the tool bridge,
whose close waits for its handler; `neighbour` is another Hub's planner under the same
root. `failed` is history: what refused to be closed.

*TlsIdentity.* `run` holds calls of the three entry points: the permanent bootstrap with
its directories and its handler, `provision_or_load_identity` called directly, and a
rotation candidate. `dir` is each run's staging directory (bare, owned, complete);
`identity` is the final one with its publication marker. A run's operations are the
code's: look, make, protect, stage, own, fill, rename, wait, verify, look for the
marker, unlink it, load strictly, audit; each may raise (Fault), the process may die
at any of them, a file may be damaged from outside, and a Hub puts its database beside
the identity (Serve). Keys, certificates and access lists are what the checks make of
them: intact or not, protected or bare. `hit` and `alone` are history.

## 3. Runs

Every passing run finishes and fires every action of its specification. Deadlock is
checked where the system cannot stop by itself; in `materials`, `proposals` and
`services` the bounds, or the shutdown, end a behaviour.

| Run | States | Shows |
| --- | --- | --- |
| `event_store` | 330,000 | tables stay a log, answers stay true, calls return, ConversationLog is implemented |
| `session_delivery` | 51,000 | no integrity failure, no lost wakeup, subscriptions and connections agree, delivery or disconnection |
| `session_controller` | 1,016,000 | no ghost pending, forgotten only if stored, confirmed by its own event, with an action under way too |
| `pairing` | 1,075,000 (symmetry) | one open session and agreeing rows, activation only in time, rows only move forward |
| `registry` | 169,000 | nothing stale sent, executed or registered; places and locks; all waits end |
| `organizer` | 284,000 | reversible, nothing lost, operations end |
| `materials` | 876,000 (symmetry) | nothing unseen is overwritten; texts follow the catalog; packs cite what was read; journal and folder agree, edits survive |
| `proposals` | 2,450,000 (symmetry) | exclusive leases, the daily limit unless a request comes late over midnight, memory only on evidence, completed actions have their result |
| `services` | 107,000 | every post answered, nothing run twice; pool calls end, nothing left behind, the Hub stops in order; what it gives up it lets go |
| `kept_on_disk` | 2,447,000 (symmetry) | acknowledged cursors survive; the device holds no grants but its own; the bootstrap is a register written once, what is published stays, and a start alone succeeds |
| `suggestions_midnight`, `session_controller_gap` | - | expected to be violated, section 6 |

### Bounds

| Run | Bound | Why it is enough |
| --- | --- | --- |
| event_store | 1 conversation, 2 identifiers, 2 bodies, 1 cause, 2 threads, 2 sequence numbers | conversations share only the write lock; two threads give every interleaving of a stage with another transaction, two identifiers and bodies every duplicate and conflict |
| session_delivery | 1 device, queue of 1, 1 reconnect, 3 events | devices meet only in `publish`, which treats queues separately; a queue of one overflows on the second notification, with the third in any place of the replay |
| session_controller | 1 device, 2 events, 2 messages or a message and an action (`sends`) | the device's message before or after another writer's, two of its own, or one beside an action's result |
| pairing | 2 sessions, 1 device, 2 capabilities, time to 3, lag 1, 2 boots, 2 epochs, mismatch limit 1; what follows an abort is explored for one of its reasons, and a restart (`OneReason`) | nothing reads why a session was aborted; both time limits pass, one within the lag of a lock; every pair of sessions |
| registry | 2 devices on one stripe, 2 sockets, 1 request, 1 transition, limits of 1 or 2 | a device waits for another's stripe; every limit is reached; a transition meets both sockets |
| organizer | 2 files, 2 versions, 2 root ids | a move that fails half-way, a stale preview, a file in both places, a new root id |
| materials | phone: 2 items, 3 snapshots, 2 tries; PC: 3 refreshes at once, 2 roots, sequences to 2; texts: 2 images, 2 revisions, 2 batches, 2 consents; packs: 1 file, 2 tool threads, 4 calls, 2 requests; export: 1 view, 2 keys, 2 packs or 2 authorizations, 1 request waiting | late requests of two earlier snapshots or batches; a refresh whose root is retired by a second and brought back by a third one, with the sequence it read; a tool call beside another and beside the fallback; the same pack under two keys |
| proposals | 2 askers, 1 category, 2 catalog views, limit 1, 3 ticks of which 3 are a day, 2 disturbances; 2 messages, 1 request at a time, 3 cards, threshold 2 | two askers meet at every step, the limit is reached by the first card and the day turns; two messages are the evidence, a request that dies is pressed again |
| suggestions_midnight | 2 askers, 1 category, 3 catalog views, limit 1, a day of 4 ticks, cooldown of 3; untouched settings, no answered cards, no study packs | one card of the new day and a late one of the old; a cooldown that fits into a day |
| services | 2 messages posted twice, 2 requests; 3 calls, 2 workers, 2 places | two requests of one message or of two; a call running, one waiting and one refused, while three threads shut the pool |
| services, `HubProcess` | 2 openings or closings that raise, one neighbour, one tool call at a time | a close that raises after an opening did; a neighbour coming and leaving at each step of the close |
| kept_on_disk | cursors to 3; 2 attempts, 2 grants, 2 addresses, 2 epochs, 1 lost answer, 1 move | a stored, a newer and an older number; a credential replaced by another one under a refresh, with each answer lost in turn |
| kept_on_disk, `TlsIdentity` | 3 runs, at most two of them at once; one operation that raises, one damaged file or one death (`TwoAtOnce`) | publisher and loser, publisher and finisher, and a start after either of them ended or died; overlapping runs share only the hub directory and the identity |

A constant whose name begins with `Max` only bounds the model, except
`MaxReconnect`, `MaxCalls` and the registry's limits, which are, like `QueueSize`,
`Capacity`, `MismatchLimit`, `DailyLimit`, `Threshold` and the time limits, the code's
own parameters with small values.

The sum modules check components that share no state in one run. A behaviour steps
only one of them (`focus`), so the states add up and do not multiply; interleaving
them would show nothing more, since no action of one reads a variable of another.

Symmetry is used in `pairing`, `materials`, `proposals` and `kept_on_disk`, which check
invariants and action properties, no liveness.

The type invariants of the first modules are parts of the agreement invariants
(`SubscriptionsAgree`, `TablesAgree`, `PlacesAndLocks`) or of their proofs; those of
the modules in the sums are theorems (`OcrTypes`, `CredentialTypes`, `PoolBounds`,
...) or parts of the inductive invariants of section 4, and are not repeated in the
runs.

### Fairness

* `EventStore`: weak fairness of each thread's steps. Nothing in the store waits
  but for the write lock, and that wait ends with `busy_timeout`.
* `SessionDelivery`, `SessionController`: weak fairness of each serving coroutine,
  of each device's processing of received frames, and of each append handler up
  to its publication: the event loop runs what is ready. No fairness of drops,
  failures, restarts, starts, user actions or REST replies.
* `DeviceConnectionRegistry`: weak fairness of tasks that hold a lock or lease (their
  verification, sends and handlers end by deadlines), of a told-to-close task's
  leaving, and strong fairness of a transition's AcquireGate: `asyncio.Lock` is
  first come, first served, so a sender cannot overtake a waiting transition for
  ever. A handler without a deadline of its own is assumed to end.
* `FileOrganizer`: weak fairness of the thread that holds the service's lock.
* `ConversationGateway`: a task that was started goes on. Nothing makes a client post
  again, and a death or a failing store excuses an answer.
* `HubLifetime`: worker threads run, the functions given to the pool return, the event
  loop resumes whoever is ready. Nothing says that a listener is ever stopped or a
  request cancelled.

## 4. Proofs

Every invariant and every action property that a passing run checks is stated by a
theorem, for all values of the constants under the named ASSUMEs of its module, which
TLC evaluates in the runs. Seven properties are stated by theorems and no run repeats
them: PagesHaveNoGap, AssetsMatchSnapshot, OldConsentNotSent, NeverBackwards,
ResultsAgree, LeavesNothing and StoresOutliveCalls; TLC agreed with each before it was
proved. Bounds like MaxSeq or MaxNow are part of the models and therefore of the
theorems, with any value.

### EventStore_proofs

For every set of conversations, identifiers, bodies, causes and threads and every
MaxSeq:

| Theorem | States |
| --- | --- |
| `StoreInvariant` | `Spec => []IInv` |
| `TypeCorrect` | `Spec => []TypeOK` |
| `DiskIsLog` | `Spec => []LogOnDisk` |
| `EventsStay` | `Spec => AppendOnly` |
| `AnswersAreTrue` | `Spec => []AnswersHold` |
| `PagesAreGapless` | `Spec => []PagesHaveNoGap` |
| `StoreImplementsLog` | `Spec => ImplementsLog` |

Assumptions: MaxSeq is a natural number, NoWorker is no thread, NoCall no
arguments, Unknown no sequence of entries.

The argument. LogOnDisk alone is not inductive: Commit replaces `db` by `tx`, so
the proof must know what `tx` holds. IInv adds OneWriter (a thread past BEGIN is
the holder of the write lock) and Transactions, which ties `tx` to `db` stage by
stage: equal while nothing is open or just begun, `next_seq` one further once
reserved, plus the thread's own message row, plus its own event row. It also
strengthens LogOnDisk to IsLog, which gives `next_seq` a row's range. Then
CommitIsAppend says that a commit adds exactly one row to each table at the
reserved number, and AppendIsLog that this preserves the log.

For AnswersAreTrue, ResultsHold says that a result about to be returned is
already true of the disk; DeduplicatedIsTrue is the lemma about
`_deduplicated_result`. Events are only added, so answers stay true.

PagesAreGapless is about every cursor and page size: EventsBetween counts the
events between two numbers of a log, so that the page's `limit` smallest events
are the next numbers after the cursor.

For StoreImplementsLog, LogEntries describes the refinement mapping: the abstract
log of a conversation is the sequence of its events' entries. CreateRefines,
CommitRefines and ReturnRefines map the three visible steps to Create, Accept and
Reply; HiddenSteps says that all others stutter.

### SessionController_proofs

For any devices, queue size, reconnect limit, messages and number of events, from
BoundsAssumption (QueueSize is positive, the others natural) and MessagesAssumption
(NoMessage and Result are no messages):

| Theorem | States |
| --- | --- |
| `DeliveryInvariant` | `Spec => []DeliveryInv` |
| `QueuesHaveOwners` | `Spec => []SubscriptionsAgree` |
| `NoWakeupLost` | `Spec => []NoMissedEvent` |
| `FramesAreAccepted` | `Spec => []NoIntegrityFailure` |
| `ControllerInvariant` | `ControllerSpec => []ControllerInv` |
| `ControlledQueuesHaveOwners` | `ControllerSpec => []SubscriptionsAgree` |
| `NoGhosts` | `ControllerSpec => []NoGhostPending` |
| `NothingForgotten` | `ControllerSpec => ForgottenOnlyIfStored` |

NoMissedEvent follows from AwakeInv, which speaks of the batch in hand before it is
sent out. NoIntegrityFailure needs the shape of what is in flight (FlightInv): each
frame continues from the one before it, the first from the projection, replay frames
come before the ready frame and live ones after it, nothing follows a close, and the
coroutine goes on from the last frame (InStep). SendingKeepsFlight and
ReceivingKeepsFlight shift that shape by one frame at either end.

The controller gives two freedoms to the device that Delivery does not have: a REST
result may overtake the frames, and a session may fail and drop what is in flight.
SessionSteps says that a step of the controller is a step of Delivery or one of these
two, and the books of the queues (BookInv) survive both; FlightInv does not, which is
the finding GapsAreReplayed. NoGhostPending needs that nothing known or in flight is
ahead of the log (CommittedInv), so that a message is stored before its event is shown,
and the ledger (LedgerInv): each message is stored once, the running operation is about
the pending message, and a reply and a recorded event are of stored ones.
NothingForgotten is the same ledger read as an action property.

### PairingStore_proofs

For any sessions, devices, capabilities, time limits and lags, from PairingAssumption
(NoClient is no client, limits are positive, the lag natural):

| Theorem | States |
| --- | --- |
| `PairingInvariant` | `Spec => []PairInv` |
| `TablesAlwaysAgree` | `Spec => []TablesAgree` |
| `ActivationIsEarned` | `Spec => []ActiveOnlyIfConfirmedInTime` |
| `RowsOnlyMoveForward` | `Spec => RowsMoveForward` |

That a credential was confirmed in time is not inductive: it has to hold from the
moment a confirmation is recorded. PairInv says it of pending credentials too
(InTime), beside the agreement of the three rows (Row) and the one open session.
LiveTables describes the expiry most transactions begin with; OneRow says that a
transaction changes one pairing on top of it, so that each operation is left with
showing its own rows good. RowsOnlyMoveForward shows Forward of each operation: what
expiry and abortion touch is open, and what is open is not settled (SettledTogether).

### DeviceConnectionRegistry_proofs

For any devices, stripes, tasks and limits, from RegistryAssumption (each device has a
stripe; connections, requests, transitions and Free are told apart; there is a device)
and LimitsAssumption (the limits are natural numbers):

| Theorem | States |
| --- | --- |
| `RegistryInvariant` | `Spec => []RegInv` |
| `NothingIsStale` | `Spec => []NothingStale` |
| `PlacesAndLocksHold` | `Spec => []PlacesAndLocks` |

RegInv says who holds which lock (StripesHeld, GatesAreHeld) and what that excludes:
what was verified under the stripe stays current while it is held
(VerifiedIsCurrent), and a transition past draining has listed every lease of its
device and met no running operation (Drained). The heart is CommitTransitionKeeps:
the epoch that changes is that of a device none of whose leases is verified, none of
whose requests runs, and all of whose registered leases wait for their gate. A send
under way then is current because its gate is its own. PlacesAndLocksHold counts: all
steps but three take no place (OthersTakeNoPlace), those three are guarded by the
limit (OneMore).

### Device_proofs

FileCursorStore for every MaxSeq, from CursorAssumption (MaxSeq is a natural number,
Absent is none); DeviceCredential for any attempts, grants, addresses, epochs and
numbers of losses, from CredentialAssumption (NoAttempt and NoAddress are none, what may
synchronize is among the grants); TlsIdentity for any runs and any number of faults and
deaths, from IdentityAssumption (NoId is no run, the bounds are natural):

| Theorem | States |
| --- | --- |
| `CursorInvariant` | `Spec => []CursorInv` |
| `NoCursorLost` | `Spec => []AcknowledgedSurvives` |
| `ConflictsAreInstalls` | `Spec => []ConflictIsUnfinishedInstall` |
| `CursorOnlyAdvances` | `Spec => NeverBackwards` |
| `CredentialInvariant` | `CredSpec => []CredInv` |
| `CredentialTypes` | `CredSpec => []CredTypeOK` |
| `CredentialsAreOwn` | `CredSpec => []HoldsOwnGrants` |
| `IdentityInvariant` | `TlsSpec => []TlsInv` |
| `IdentityTypes` | `TlsSpec => []TlsTypeOK` |
| `BootstrapIsRegister` | `TlsSpec => ImplementsRegister` |
| `OneIdentity` | `TlsSpec => []ResultsAgree` |
| `AloneItSucceeds` | `TlsSpec => []LoneRunSucceeds` |
| `RunsCleanUp` | `TlsSpec => []LeavesNothing` |
| `IdentityIsForEver` | `TlsSpec => PublishedStays` |

None of the cursor's properties is inductive: that the stored cursor survives the
rename of `final` to `backup` needs to know that `next` waits with a newer number.
CursorInv therefore says for each step of a write which file holds what
(WriteProgress), for each step of a reset what it has forgotten (ResetProgress),
and that of two files the final one is newer (Ordered); RecoveryKeepsStored is the
lemma about `read`. All of it under `~raced`: a write that runs inside a reset can
leave anything, and the properties claim nothing of it.

That a device holds only its own grants has to be known of every answer on its way, to
the page and to the coordinator, whose credential may have been replaced since it
asked. CredInv says of each place that what it holds was given (Given) to the attempt
it is written for; HubGoesOn, that the Hub's books only grow, keeps all of it through
the Hub's steps; AnswerWritten is the step where the comparison of the attempts
(MayUpdate) is what saves the vault.

The identity's runs share files and no lock, so TlsInv says of each run what it may rely
on although any other may step: behind the rename there is an identity and its publisher
is who won (OutcomeInv), a staging directory is complete when it is renamed and is left
behind only by a death or a fault (StagingInv), nothing is published or staged outside
the hub directory, which is why no rollback removes it (HubInv), the database comes only
beside a finished identity (UsedInv), and an unprotected directory has somebody to blame
(BareInv). IdentitySteps and FolderSteps list the few steps that change the shared files
at all; the lemmas whose names end in `Lands` say where each action leaves its run.

BootstrapIsRegister maps the identity's owner, the removal of its marker and the answers of
finished runs (Told) to IdentityRegister. Only Publish, Unlink and Damage touch the
identity, and only a strict load or an audit makes a run answer
(AnswersLeaveIdentity), so that no step does two things at once; AnswerIsTold is where
OutcomeInv is used: what a run has in hand when it answers is what was chosen.

AloneItSucceeds is about a run with no other one beside it. Its invariant (AllIsWell)
says for each place of such a run what it finds on the disk, so that no check of it
fails but one: the hub directory is refused when a database stands in it. At that
moment there is an identity, the handler looks at it once, and that look does not
fail. The slip HandleOnce shows that without the handler the Hub's second start would
fail. Other runs cannot step while a run is alone (NobodyElse), and a run that begins
ends that state for all others.

### Services_proofs

FileOrganizer for any files and bounds, from OrganizerAssumption (the bounds are
positive, NoJournal is none of the journals); ConversationGateway for any messages, from
GatewayAssumption (NoPost is no message, MaxPosts is positive); HubLifetime for any
finite set of calls, any finite number of workers that is not zero and any positive
capacity, from LifetimeAssumption; HubProcess for any number of openings and closings
that raise, from ProcessAssumption:

| Theorem | States |
| --- | --- |
| `OrganizerInvariant` | `Spec => []OrganizerInv` |
| `AlwaysReversible` | `Spec => []Reversible` |
| `ServiceLosesNothing` | `Spec => NothingLost` |
| `GatewayInvariant` | `GatewaySpec => []GatewayInv` |
| `GatewayTypes` | `GatewaySpec => []GatewayTypeOK` |
| `NothingRunsTwice` | `GatewaySpec => NotRunTwice` |
| `LifetimeInvariant` | `LifeSpec => []LifetimeInv` |
| `PoolBounds` | `LifeSpec => []LifeTypeOK` |
| `NothingIsLeftBehind` | `LifeSpec => []NothingLeftBehind` |
| `HubStopsInOrder` | `LifeSpec => []StopsInOrder` |
| `ProcessInvariant` | `ProcessSpec => []ProcessInv` |
| `ProcessTypes` | `ProcessSpec => []ProcessTypeOK` |
| `EveryCloseIsTried` | `ProcessSpec => []GivenUpIsLetGo` |
| `CallsKeepTheirStores` | `ProcessSpec => []StoresOutliveCalls` |

Reversible alone is not inductive: a rollback may only drop the journal because what
it still has to bring back (todo) holds everything that was moved away, which in turn
holds because a moved file is in the archive until the user deletes it there
(PlacedInv) and because plan and save are reached without a journal, move only with
one (JobInv).

NotRunTwice rests on RanInv: an operation that has had effects has an answer, is about
to append it, or has lost it, so that the next flight finds the answer at its own look.

NothingLeftBehind counts. A call is in one place (CallsInv: queued once, held by one
worker, or with its handler), the pool's numbers count those places (BoundsInv), and
once the stops are sent there are as many of them in the queue as workers alive
(ShuttingInv), so that with the workers gone no stop is left. That no call is left
either needs the order of the queue (Orderly: calls before stops), which a submission
overtaken by the shutdown would break; then the count of the queued still holds it, and
the shutdown does not end (QueueInv). JoinedIsQuiet puts these together: a shutdown that
has joined its workers with nothing queued leaves the pool quiet. StopsInOrder adds who
has closed what, and that the control listener was down before (ListenersInv).

HubProcess is a walk through two lists that are not each other's reverse. ListFacts gives
what the proofs need of them: whatever is opened is on the list of what is closed,
and catalog and contents are opened before the bridge and closed after it. OpenedInv:
what is open is still ahead in the list or has refused. BridgeInv carries the
order over to the tool calls. PlannerInv says of each stage of the planner's start and of
each step of its close what the supervisor holds and knows (StartedInv, Stopping): the
close clears each field before it acts on it, so a close that raises forgets a process or
a directory, and the properties except exactly that (`"agent" \in failed`).

### Proposals_proofs

For any messages and every threshold, from MemoryAssumption (Messages finite, Threshold
positive), and for any number of requests, snapshots, categories, limit and times, from
SuggestionAssumption (all positive; the planner's time is shorter than the cooldown and
that shorter than a day, as the code's constants are):

| Theorem | States |
| --- | --- |
| `ActionInvariant` | `ActionSpec => []ActionInv` |
| `MemoryRestsOnEvidence` | `ActionSpec => []UsedOnEvidence` |
| `CompletedIsAnswered` | `ActionSpec => []CompletedHasResult` |
| `LeaseInvariant` | `SuggestionSpec => []LeaseInv` |
| `OneHolderPerLease` | `SuggestionSpec => []LeaseIsExclusive` |
| `QuotaInvariant` | `SuggestionSpec => []QuotaInv` |
| `LimitHolds` | `SuggestionSpec => []WithinDailyLimit` |

The memory's own invariant (types and UsedOnEvidence) is inductive transaction by
transaction. ActionInv adds what the cards need: rows have keys of their own and refer
to messages that are there (RowsInv), a request works on a row that is there and is
past its append only with a result (RequestInv), which no other request takes back
(ResultsStay).

LeaseInv adds to the property the types of requests and jobs and CardFirst: a request
about to complete a card's job has its card. GoingOnKeeps treats a request's step
once: whoever is at work holds an active job, so nobody begins it again.

The attempt to prove the daily limit as the document states it showed that it does not
hold (DailyLimitKept, section 6): a request counted for a day that was already left
sets the count back. `quota.late` remembers that this happened, and LimitHolds proves
the limit as long as it did not. QuotaInv: the row counts the cards of its day
(CardsOn), and no later day has any.

### Materials_proofs

| Theorem | States |
| --- | --- |
| `CatalogInvariant` | `CatalogSpec => []CatalogInv` |
| `CatalogShowsSnapshot` | `CatalogSpec => []AssetsMatchSnapshot` |
| `NothingUnseenReplaced` | `CatalogSpec => OverwritesOnlySeen` |
| `OcrInvariant` | `OcrSpec => []OcrInv` |
| `TextsAreOfListedRevisions` | `OcrSpec => []TextsFollowCatalog` |
| `OcrTypes` | `OcrSpec => []OcrTypeOK` |
| `OnlyPresentConsent` | `OcrSpec => OldConsentNotSent` |
| `InsightInvariant` | `InsightSpec => []InsightInv` |
| `PacksCiteWhatWasRead` | `InsightSpec => []PackIsRead` |
| `InsightTypes` | `InsightSpec => []InsightTypeOK` |
| `ExportInvariant` | `ExportSpec => []ExportInv` |
| `JournalAndFolderAgree` | `ExportSpec => []JournalMatchesFolder` |
| `ExportTypes` | `ExportSpec => []ExportTypeOK` |
| `UserEditsSurvive` | `ExportSpec => EditsSurvive` |

From CatalogAssumption (snapshots map items to revisions, NoPayload is none, the
phone's root is none of the PC's), OcrAssumption, InsightAssumption (finitely many
files) and ExportAssumption (NoKey is no key); all bounds are positive or natural.

* Catalog: a request that may still be accepted has seen what it replaces (SeenInv).
  The phone's root is never retired: its sequence only grows, and names one snapshot. A
  root of the PC may be retired and come back at sequence 1 with another snapshot, and
  a refresh may carry the sequence of another root, so for a refresh this holds as long
  as it is `kept`: ScanPc gives it up when the root is another one by then, and every
  ApplyPc takes it from the other refreshes whose root it retires. A refresh with base 0
  needs neither: it is accepted only where there is no row, and it has seen none
  (RowsInv). What is left is exactly the counterexample of PcOverwritesOnlySeen
  (section 6), so the theorem says how far the claim of the protocol is true. A repeated
  request of the phone must be recognized by its receipt, so requests under one key have
  one base, and the outbox draws a new key with a new base (KeysInv).
* Texts: what a worker has checked the catalog has listed (ListedInv), even if it lists
  something else by the time of the write; a batch carries the present consent from its
  recognition to its request (ConsentInv).
* Packs: a reference is to a text given out under the request's own snapshot. A tool
  call may outlive its job; CallInv tells by the job's number whether its answer may
  still be recorded in the present one.
* Exports: the row says what the running request has done to its file (OpInv), and each
  file the service made is named by a row that is not undone, while a completed row's
  file stands unless somebody touched it or took it back (RowsStand).

### Left to TLC

Liveness under fairness and ENABLED are out of the provers' reach: CallsReturn,
CatchesUp, ConfirmedByEvent, WaitsEnd, OperationsEnd, EveryPostAnswered and CallsEnd are
checked on the instances of section 3 only. What section 6 lists is false of the code.


## 5. What is not modelled, and why

* Clustering, document parsing, Markdown rendering, prompts and the parsing of the
  agent's answers: pure functions, of which the models keep what their callers tell
  apart.
* Codecs, rate limits, discovery, Android adapters, user interface: they
  hold no state that the modelled components share; what the interface lets the
  user do is the environment of the models.
* Keys, certificates, DPAPI blobs and access lists: TlsIdentity keeps of them whether the
  checks accept them. The development tools under `tool/`, which exercise the same
  functions by hand.
* The command line, configuration and sockets of the Hub functions, and the supervision
  of the Hub from outside.
* Of modelled components: the hub identity and audit rows of the pairing store; the
  controller's action list, memory view and resetCursor; the organizer's status view;
  retention by time of texts and packs other than their expiry; sealing, which is
  abstracted to what it seals.
* SQLite, asyncio and the file system are used by their contract: a transaction is
  atomic and exclusive, a lock is first come first served, a rename is atomic.

## 6. Findings

Two have a run of their own that TLC answers with a counterexample. The
others are reproduced by replacing the INVARIANTS and PROPERTIES lines of the named
configuration by the one property (and leaving everything else as it is); each takes
TLC seconds. Quotations and lines are in `PROJECT.json` (`findings`).

| Property | How | What the code does, and what it is said to do |
| --- | --- | --- |
| `GapsAreReplayed` | run `session_controller_gap` | a REST reply before the WebSocket frame of another writer's earlier event ends the session; clients are to replay gaps (`SHARED_SESSION_V1.md:108`) |
| `LateResultsIgnored` | PROPERTIES of `MCSessionController.cfg` | an action's result that comes after the session failed moves projection and cursor; late results must not (`SHARED_SESSION_DART_CLIENT_V1.md:164`) |
| `PendingIsKept` | PROPERTIES of `MCSessionController.cfg` | `send` overwrites an uncertain message that is kept for a retry (`SHARED_SESSION_DART_CLIENT_V1.md:151`) |
| `ReplacementIsAtomic` | INVARIANTS of `MCKeptOnDisk.cfg` | killed between the install and the deletion of the backup, `read` refuses two numbers; the replacement is called atomic (`SHARED_SESSION_DART_CLIENT_V1.md:54`). The theorem ConflictsAreInstalls says that this is the only way there without a reset, and that the newer number is then the final file's |
| `MismatchLimitAborts` | INVARIANTS of `MCPairingStore.cfg` | wrong codes are counted after the pairing is consumed and audited as an abort that does not happen (`PAIRING_AUTH_V1.md:493`); `RowsMoveForward` shows that the credential is not touched |
| `LastOperationUndoable` | INVARIANTS of `MCFileOrganizer.cfg` | with the same folder authorized again under a new root id, undo refuses (`INSTALL_AND_USER_GUIDE.md:213`) |
| `RevocationIsTerminal` | PROPERTIES of `MCKeptOnDisk.cfg` | a refresh that fails shows a revoked device as offline; a test's name says never (`steward_app_coordinator_test.dart:125`) |
| `UndoDeletesOnlyExact` | PROPERTIES of `MCMaterials.cfg` | an edit between the comparison and the unlink is deleted (`KNOWLEDGE_PACK_EXPORT_V1.md:67`) |
| `UndoIsOffered` | INVARIANTS of `MCProposals.cfg` | a death between `mark_completed` and `register_receipt` leaves the result without the undo button it announces (`pc_file_scope.py:143`) |
| `RetryConverges` | INVARIANTS of `MCProposals.cfg` | a repeated operation that answers otherwise conflicts with its durable result; a retry is said to converge (`action_projection.py:255`) |
| `NotExecutedIsTrue` | INVARIANTS of `MCServices.cfg` | of a message posted twice, the answer "not executed" may stand although the other request's task ran (`api.py:1349`) |
| `ForgottenStaysForgotten` | PROPERTIES of `MCMaterials.cfg` | a delayed upload restores texts the user was told are gone (`catalog_directory_page.dart:218`) |
| `CreatedUnderGate` | PROPERTIES of `MCProposals.cfg` | opt-in, category pause and cooldown are not looked at again when the planner has answered (`PROACTIVE_ACTION_CARD_V1.md`, section 3) |
| `DailyLimitKept` | run `suggestions_midnight` | a request that read its time before midnight and is counted after another one's card of the new day sets the count back to 1 for the old day, and the new day gets one card more than its limit (`PROACTIVE_ACTION_CARD_V1.md:30`). `LimitHolds` proves that this is the only way |
| `BusyHasHolder` | INVARIANTS of `MCProposals.cfg` | an unexpected exception keeps the lease until the Hub restarts (`PROACTIVE_ACTION_CARD_V1.md:33`) |
| `StoreClosedAfterWork` | INVARIANTS of `MCServices.cfg` | the runtimes' last clean-up closes the pairing store although the pool did not shut down (`pairing_api.py:573`) |
| `OverlapIsHarmless` | PROPERTIES of `MCKeptOnDisk.cfg` | of bootstraps that overlap the publishing one, one may fail for a marker another one has just removed; a test that starts eight at once expects no error (`test_tls_identity_provisioner.py:327`) |
| `PlannerIsOptional` | PROPERTIES of `MCServices.cfg` | a close that raises in `start_optional`'s handler ends the start of the Hub; the planner is said to be optional (`agent_supervisor.py:4`) |
| `PcOverwritesOnlySeen` | PROPERTIES of `MCMaterials.cfg` | a refresh of the PC that read the sequence of one root and scanned another (or whose root was retired and brought back since) overwrites a newer snapshot it has not seen; a base that is behind or ahead is said to be a conflict (`CATALOG_SYNC_V1.md:41`). `NothingUnseenReplaced` proves that these are the only two ways |
| `ReplacedStaysOut` | PROPERTIES of `MCMaterials.cfg` | a late refresh of the folder that was authorized before retires the root of the present one from the catalog; a test's name says that replacing the scope removes the previous root (`test_catalog_operator_api.py:179`) |

### Observations

What the models show of the code where no document says otherwise:

* `NeverOlder` (PROPERTIES of `MCMaterials.cfg`) fails for the phone: a snapshot equal to
  the one in the catalog is accepted without a new sequence. When an earlier request,
  which carries another snapshot and the same base, is still on its way, it is accepted
  after it, and the catalog shows the older state until the next synchronization.
* `CategoryOnlyAdds` (PROPERTIES of `MCProposals.cfg`) fails: `disable_category` reads
  the settings and writes them back in two transactions, and undoes a change of the
  user's between them.
* A submission refused at its second look counts `_queued` down although it never
  counted it up, so the count may be one too low for the rest of a shutdown. The proof
  of NothingIsLeftBehind (QueueInv) says why it does no harm: it happens when the pool no
  longer accepts and the one submission under way has ended; nothing is put into the
  queue after that, and what is in it stands before the stops.
* `updateEndpoint` ends without looking at `_refreshQueued`: a refresh asked for
  meanwhile waits for the next one.
* A bootstrap that dies between the creation of its staging directory and the rename
  leaves it there, and every later permanent bootstrap refuses the hub directory for it:
  LoneRunSucceeds is about a disk without leftovers. The same holds of a directory whose
  access list was not yet applied, which the code does not count as its own.
* `AgentPlannerSupervisor.close` forgets process, root and run directory before it stops
  or removes them; after a close that raised, a second one does nothing.
* The tool bridge is closed before the catalog and the contents but after the archive
  memory, which it reads too: a call still being handled when the planner is stopped may
  find the memory closed, and StoresOutliveCalls can only be stated of the other two.
* An extraction under way when consent is withdrawn still saves its text; the text
  expires with the others.

## 7. Plan

Done: all components of the first plan but those of section 5, and a theorem for every
safety and action property that a passing run checks. Next, in order:

1. Abstract specifications next to ConversationLog and IdentityRegister, and the proofs that they are
   implemented: an authority register (no effect under an epoch older than the current
   one), which PairingStore and DeviceConnectionRegistry implement together; and a
   promise of at most one effect per message, which ConversationGateway and
   ProductActions implement.
2. resetCursor and the memory view in SessionController, composed with FileCursorStore.
3. Liveness of HubProcess (every function returns) and of the bootstraps, by TLC.
