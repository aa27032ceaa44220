------------------------------ MODULE EventStore ------------------------------
(****************************************************************************)
(* The Hub's durable event store (store.py): threads append messages to     *)
(* conversations, each append one SQLite BEGIN IMMEDIATE transaction that   *)
(* reserves a sequence number, inserts the message row and inserts the event*)
(* row.  Any stage may fail and roll back; the process may die anywhere.    *)
(*                                                                          *)
(* db is what is on disk, tx the write transaction's private view of it     *)
(* (equal to db while no transaction is open).                              *)
(****************************************************************************)
EXTENDS Integers, Sequences, FiniteSets

CONSTANTS Conversations, ClientIds, Bodies, Causes, Unknown,
          Workers,    \* threads that run store operations
          NoWorker,   \* holder of the write lock when there is none
          NoCall,     \* arguments of a thread that is not in the store
          MaxSeq      \* bound: sequence numbers a model run may allocate

ASSUME MaxSeqAssumption == MaxSeq \in Nat
ASSUME NoWorkerAssumption == NoWorker \notin Workers
ASSUME NoCallAssumption ==
    NoCall \notin [conv : Conversations,
                   entry : [cid : ClientIds, body : Bodies, cause : Causes]]

ASSUME UnknownAssumption ==
    Unknown \notin Seq([cid : ClientIds, body : Bodies, cause : Causes])

VARIABLES db,        \* committed tables: next (next_seq, 0 for no row), message, event
          tx,        \* the open write transaction's view of the tables
          writer,    \* the thread inside BEGIN IMMEDIATE ... COMMIT
          pc,        \* where each thread is in append_message
          call,      \* arguments of the thread's call
          result,    \* what the call will return
          closed,    \* EventStore._closed
          answers    \* history: the results callers have received

vars == <<db, tx, writer, pc, call, result, closed, answers>>

Entry == [cid : ClientIds, body : Bodies, cause : Causes]
Call == [conv : Conversations, entry : Entry]
Result == [verdict : {"accepted", "deduplicated", "conflict", "error"}, seq : Nat]

MessageRow == [conv : Conversations, seq : Nat, cid : ClientIds, body : Bodies]
EventRow == [conv : Conversations, seq : Nat, cid : ClientIds, body : Bodies,
             cause : Causes]
Tables == [next : [Conversations -> Nat],
           message : SUBSET MessageRow, event : SUBSET EventRow]

Error == [verdict |-> "error", seq |-> 0]

------------------------------------------------------------------------------
(* Queries. *)

MessageByClientId(t, c, id) == {m \in t.message : m.conv = c /\ m.cid = id}

EventAt(t, c, s) == {e \in t.event : e.conv = c /\ e.seq = s}

(* replay_events: the events after the exclusive cursor, at most limit of    *)
(* them, the smallest sequence numbers first.                                *)
ReplayEvents(c, after, limit) ==
    {e \in db.event :
        /\ e.conv = c
        /\ e.seq > after
        /\ Cardinality({f \in db.event : f.conv = c /\ f.seq > after /\ f.seq < e.seq})
             < limit}

EntryOf(e) == [cid |-> e.cid, body |-> e.body, cause |-> e.cause]

------------------------------------------------------------------------------
Init == /\ db = [next |-> [c \in Conversations |-> 0], message |-> {}, event |-> {}]
        /\ tx = db
        /\ writer = NoWorker
        /\ pc = [w \in Workers |-> "idle"]
        /\ call = [w \in Workers |-> NoCall]
        /\ result = [w \in Workers |-> Error]
        /\ closed = FALSE
        /\ answers = {}

(* Slip: INSERT OR REPLACE, which starts an existing conversation over. *)
CreateOrReplace(c) ==
    /\ ~closed
    /\ writer = NoWorker
    /\ db' = [db EXCEPT !.next[c] = 1]
    /\ tx' = db'
    /\ UNCHANGED <<writer, pc, call, result, closed, answers>>

(* create_conversation: one statement in its own transaction; a row that     *)
(* exists already is an IntegrityError and changes nothing.                  *)
CreateConversation(c) ==
    /\ ~closed
    /\ writer = NoWorker
    /\ db.next[c] = 0
    /\ db' = [db EXCEPT !.next[c] = 1]
    /\ tx' = db'
    /\ UNCHANGED <<writer, pc, call, result, closed, answers>>

(* append_message is called: _connect refuses once the store is closed.      *)
CallAppend(w, c, e) ==
    /\ pc[w] = "idle"
    /\ ~closed
    /\ call' = [call EXCEPT ![w] = [conv |-> c, entry |-> e]]
    /\ pc' = [pc EXCEPT ![w] = "connected"]
    /\ UNCHANGED <<db, tx, writer, result, closed, answers>>

(* BEGIN IMMEDIATE: SQLite admits one writer at a time. *)
BeginImmediate(w) ==
    /\ pc[w] = "connected"
    /\ writer = NoWorker
    /\ writer' = w
    /\ tx' = db
    /\ pc' = [pc EXCEPT ![w] = "begun"]
    /\ UNCHANGED <<db, call, result, closed, answers>>

(* Slip: no busy_timeout, the thread waits for as long as it takes. *)
WaitForLock(w) == FALSE

(* busy_timeout expires before the lock is free: sqlite3.Error. *)
BusyTimeout(w) ==
    /\ pc[w] = "connected"
    /\ writer # NoWorker
    /\ result' = [result EXCEPT ![w] = Error]
    /\ pc' = [pc EXCEPT ![w] = "returning"]
    /\ UNCHANGED <<db, tx, writer, call, closed, answers>>

(* Slip: the failed stages are committed. *)
CommitPartially(w, r) ==
    /\ db' = tx /\ tx' = tx
    /\ writer' = NoWorker
    /\ result' = [result EXCEPT ![w] = r]
    /\ pc' = [pc EXCEPT ![w] = "returning"]
    /\ UNCHANGED <<call, closed, answers>>

(* rollback and report r: nothing of the transaction reaches the disk.       *)
Rollback(w, r) ==
    /\ tx' = db
    /\ writer' = NoWorker
    /\ result' = [result EXCEPT ![w] = r]
    /\ pc' = [pc EXCEPT ![w] = "returning"]
    /\ UNCHANGED <<db, call, closed, answers>>

(* Slip: the stored message is not compared with the input. *)
DeduplicatedById(m, e) == [verdict |-> "deduplicated", seq |-> m.seq]

(* _deduplicated_result on the stored message m: the stored body is compared *)
(* with the message row, the causality with the event row.                   *)
Deduplicated(m, e) ==
    LET stored == EventAt(tx, m.conv, m.seq) IN
    IF stored = {} THEN Error
    ELSE IF m.body = e.body /\ \A s \in stored : s.cause = e.cause
         THEN [verdict |-> "deduplicated", seq |-> m.seq]
         ELSE [verdict |-> "conflict", seq |-> 0]

(* The conversation has no row, or the client message identifier is already  *)
(* stored: the transaction ends without a write.                             *)
AnswerFromTables(w) ==
    LET c == call[w].conv  e == call[w].entry IN
    /\ pc[w] = "begun"
    /\ \/ tx.next[c] = 0 /\ Rollback(w, Error)
       \/ \E m \in MessageByClientId(tx, c, e.cid) :
              tx.next[c] # 0 /\ Rollback(w, Deduplicated(m, e))

(* UPDATE conversation SET next_seq = next_seq + 1 WHERE next_seq = seq. *)
ReserveSequence(w) ==
    LET c == call[w].conv IN
    /\ pc[w] = "begun"
    /\ tx.next[c] \in 1..MaxSeq
    /\ MessageByClientId(tx, c, call[w].entry.cid) = {}
    /\ tx' = [tx EXCEPT !.next[c] = @ + 1]
    /\ result' = [result EXCEPT ![w] = [verdict |-> "accepted", seq |-> tx.next[c]]]
    /\ pc' = [pc EXCEPT ![w] = "reserved"]
    /\ UNCHANGED <<db, writer, call, closed, answers>>

InsertMessage(w) ==
    LET e == call[w].entry IN
    /\ pc[w] = "reserved"
    /\ tx' = [tx EXCEPT !.message = @ \cup
                {[conv |-> call[w].conv, seq |-> result[w].seq, cid |-> e.cid,
                  body |-> e.body]}]
    /\ pc' = [pc EXCEPT ![w] = "message"]
    /\ UNCHANGED <<db, writer, call, result, closed, answers>>

InsertEvent(w) ==
    LET e == call[w].entry IN
    /\ pc[w] = "message"
    /\ tx' = [tx EXCEPT !.event = @ \cup
                {[conv |-> call[w].conv, seq |-> result[w].seq, cid |-> e.cid,
                  body |-> e.body, cause |-> e.cause]}]
    /\ pc' = [pc EXCEPT ![w] = "event"]
    /\ UNCHANGED <<db, writer, call, result, closed, answers>>

(* transaction_hook has run without raising and COMMIT succeeds. *)
Commit(w) ==
    /\ pc[w] = "event"
    /\ db' = tx
    /\ writer' = NoWorker
    /\ pc' = [pc EXCEPT ![w] = "returning"]
    /\ UNCHANGED <<tx, call, result, closed, answers>>

(* An injected fault, the hook, or any statement raises. *)
Fail(w) ==
    /\ pc[w] \in {"begun", "reserved", "message", "event"}
    /\ Rollback(w, Error)

(* The call returns; only a result that is not an exception of the store     *)
(* itself says anything about the log.                                       *)
Return(w) ==
    /\ pc[w] = "returning"
    /\ pc' = [pc EXCEPT ![w] = "idle"]
    /\ call' = [call EXCEPT ![w] = NoCall]
    /\ result' = [result EXCEPT ![w] = Error]
    /\ answers' = IF result[w].verdict = "error" THEN answers
                  ELSE answers \cup
                       {[conv |-> call[w].conv, entry |-> call[w].entry,
                         verdict |-> result[w].verdict, seq |-> result[w].seq]}
    /\ UNCHANGED <<db, tx, writer, closed>>

Close == /\ ~closed
         /\ closed' = TRUE
         /\ UNCHANGED <<db, tx, writer, pc, call, result, answers>>

(* The process dies and a new one opens the same file: WAL recovery drops    *)
(* the open transaction, every call in flight is lost with its result.       *)
Restart == /\ tx' = db
           /\ writer' = NoWorker
           /\ pc' = [w \in Workers |-> "idle"]
           /\ call' = [w \in Workers |-> NoCall]
           /\ result' = [w \in Workers |-> Error]
           /\ closed' = FALSE
           /\ UNCHANGED <<db, answers>>

Step(w) == \/ BeginImmediate(w) \/ BusyTimeout(w) \/ AnswerFromTables(w)
           \/ ReserveSequence(w) \/ InsertMessage(w) \/ InsertEvent(w)
           \/ Commit(w) \/ Fail(w) \/ Return(w)

Next == \/ \E c \in Conversations : CreateConversation(c)
        \/ \E w \in Workers, c \in Conversations, e \in Entry : CallAppend(w, c, e)
        \/ \E w \in Workers : Step(w)
        \/ Close
        \/ Restart

Spec == Init /\ [][Next]_vars

(* A thread inside a call keeps running: nothing in the store waits for      *)
(* anything but the write lock, and that wait ends with busy_timeout.        *)
FairSpec == Spec /\ \A w \in Workers : WF_vars(Step(w))

------------------------------------------------------------------------------
(* Properties. *)

TypeOK == /\ db \in Tables
          /\ tx \in Tables
          /\ writer \in Workers \cup {NoWorker}
          /\ pc \in [Workers -> {"idle", "connected", "begun", "reserved", "message",
                                 "event", "returning"}]
          /\ call \in [Workers -> Call \cup {NoCall}]
          /\ \A w \in Workers : pc[w] # "idle" => call[w] \in Call
          /\ result \in [Workers -> Result]
          /\ closed \in BOOLEAN
          /\ answers \subseteq [conv : Conversations, entry : Entry,
                                verdict : {"accepted", "deduplicated", "conflict"},
                                seq : Nat]

(* On disk, the events of a conversation are numbered 1 .. next_seq - 1 with *)
(* no gap and no number twice, whatever failed or died part-way: this is what*)
(* lets every reader use a sequence number as a cursor.                      *)
Contiguous(t) ==
    \A c \in Conversations :
        /\ {e.seq : e \in {f \in t.event : f.conv = c}} = 1 .. t.next[c] - 1
        /\ \A e, f \in t.event : e.conv = c /\ f.conv = c /\ e.seq = f.seq => e = f

(* Message rows and event rows are two views of the same messages.           *)
Paired(t) ==
    /\ \A m \in t.message : \E e \in t.event :
           e.conv = m.conv /\ e.seq = m.seq /\ e.cid = m.cid /\ e.body = m.body
    /\ \A e \in t.event : \E m \in t.message :
           e.conv = m.conv /\ e.seq = m.seq /\ e.cid = m.cid /\ e.body = m.body

(* UNIQUE (conversation_id, client_message_id): a retry never becomes a      *)
(* second event.                                                             *)
OncePerClientId(t) ==
    \A m, n \in t.message : m.conv = n.conv /\ m.cid = n.cid => m = n

(* What is on disk is a log, whichever transactions failed or died part-way. *)
LogOnDisk == Contiguous(db) /\ Paired(db) /\ OncePerClientId(db)

(* Every result that reached a caller is still true of the disk: an accepted *)
(* or deduplicated message is the event at the sequence number returned, with*)
(* the caller's own body and causality; a conflict names a stored identifier *)
(* with other input.  It survives faults, restarts and later appends.        *)
AnswersHold ==
    \A a \in answers :
        IF a.verdict = "conflict"
        THEN \E e \in db.event : /\ e.conv = a.conv
                                 /\ e.cid = a.entry.cid
                                 /\ EntryOf(e) # a.entry
        ELSE \E e \in db.event : /\ e.conv = a.conv
                                 /\ e.seq = a.seq
                                 /\ EntryOf(e) = a.entry

(* Committed events are never rewritten or removed and next_seq never goes   *)
(* back: a cursor a client holds stays valid across every later step.        *)
AppendOnly == [][/\ db.event \subseteq db'.event
                 /\ \A c \in Conversations : db.next[c] <= db'.next[c]]_vars

(* Reading page after page with the last sequence number as the next cursor  *)
(* misses nothing: every page starts right after its cursor and has no gap.  *)
PagesHaveNoGap ==
    \A c \in Conversations, after \in 0..MaxSeq, limit \in 1..MaxSeq :
        LET page == {e.seq : e \in ReplayEvents(c, after, limit)}
            last == db.next[c] - 1
        IN page = {s \in after + 1 .. after + limit : s <= last}

(* A call that entered the store comes back, with an answer or an error,     *)
(* even when another thread holds the write lock: nobody waits for ever.     *)
CallsReturn == \A w \in Workers : pc[w] # "idle" ~> pc[w] = "idle"

(* The log this store implements, and the refinement to it. *)
Entries(events, c, next) ==
    IF next = 0 THEN Unknown
    ELSE [s \in 1 .. next - 1 |->
             EntryOf(CHOOSE e \in events : e.conv = c /\ e.seq = s)]

LogOf(t) == [c \in Conversations |-> Entries(t.event, c, t.next[c])]

Log == INSTANCE ConversationLog WITH log <- LogOf(db), answers <- answers

(* Seen through LogOf, every step of the store is a step of the abstract log *)
(* or changes nothing: appends are atomic and answers truthful.              *)
ImplementsLog == Log!Spec
==============================================================================
