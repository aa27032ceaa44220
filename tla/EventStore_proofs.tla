--------------------------- MODULE EventStore_proofs ---------------------------
(****************************************************************************)
(* Safety of the event store for every set of conversations, threads and    *)
(* messages and every number of appends.                                    *)
(*                                                                          *)
(* The strengthening IInv says what the open transaction holds at each stage*)
(* of append_message: exactly the committed tables plus the rows written so *)
(* far, all for the number that next_seq had when the transaction began.    *)
(****************************************************************************)
EXTENDS EventStore, FiniteSetTheorems, TLAPS

InTransaction == {"begun", "reserved", "message", "event"}

NextReserved(t, c) == [t.next EXCEPT ![c] = @ + 1]

NewMessage(a, s) == [conv |-> a.conv, seq |-> s, cid |-> a.entry.cid, body |-> a.entry.body]

NewEvent(a, s) == [conv |-> a.conv, seq |-> s, cid |-> a.entry.cid, body |-> a.entry.body,
                   cause |-> a.entry.cause]

(* The table t is a log. *)
IsLog(t) == Contiguous(t) /\ Paired(t) /\ OncePerClientId(t)

(* Thread w may append: its conversation exists, the number it reserved is   *)
(* the next one and its client identifier is new.                            *)
Reserved(w) == /\ db.next[call[w].conv] # 0
               /\ result[w] = [verdict |-> "accepted", seq |-> db.next[call[w].conv]]
               /\ MessageByClientId(db, call[w].conv, call[w].entry.cid) = {}

(* What the open transaction sees at each stage. *)
TxBegun == \A w \in Workers : pc[w] = "begun" => tx = db

TxReserved ==
    \A w \in Workers : pc[w] = "reserved" =>
        /\ Reserved(w)
        /\ tx = [next |-> NextReserved(db, call[w].conv),
                 message |-> db.message, event |-> db.event]

TxMessage ==
    \A w \in Workers : pc[w] = "message" =>
        /\ Reserved(w)
        /\ tx = [next |-> NextReserved(db, call[w].conv),
                 message |-> db.message \cup {NewMessage(call[w], result[w].seq)},
                 event |-> db.event]

TxEvent ==
    \A w \in Workers : pc[w] = "event" =>
        /\ Reserved(w)
        /\ tx = [next |-> NextReserved(db, call[w].conv),
                 message |-> db.message \cup {NewMessage(call[w], result[w].seq)},
                 event |-> db.event \cup {NewEvent(call[w], result[w].seq)}]

(* Exactly the holder of the write lock is inside a transaction. *)
OneWriter == \A w \in Workers : pc[w] \in InTransaction <=> writer = w

Transactions == OneWriter /\ TxBegun /\ TxReserved /\ TxMessage /\ TxEvent

IInv == TypeOK /\ IsLog(db) /\ Transactions

------------------------------------------------------------------------------
(* A new row of a call, and the tables with it, have the right type.         *)
LEMMA RowTypes ==
    ASSUME NEW a \in Call, NEW s \in Nat
    PROVE  NewMessage(a, s) \in MessageRow /\ NewEvent(a, s) \in EventRow
  BY DEF NewMessage, NewEvent, MessageRow, EventRow, Call, Entry

(* Every step keeps the types: rows written by append_message are rows, and a*)
(* thread in a call has its arguments.                                       *)
LEMMA TypeStep == TypeOK /\ [Next]_vars => TypeOK'
<1> SUFFICES ASSUME TypeOK, [Next]_vars
             PROVE  TypeOK'
  OBVIOUS
<1> USE DEF TypeOK
<1>e. Error \in Result
  BY DEF Error, Result
<1>d. NoCall \in Call \cup {NoCall} /\ NoWorker \in Workers \cup {NoWorker}
  OBVIOUS
<1>1. ASSUME NEW c \in Conversations, CreateConversation(c)
      PROVE  TypeOK'
  <2>1. db' \in Tables
    BY <1>1 DEF CreateConversation, Tables
  <2> QED
    BY <1>1, <2>1 DEF CreateConversation
<1>2. ASSUME NEW w \in Workers, NEW c \in Conversations, NEW e \in Entry,
             CallAppend(w, c, e)
      PROVE  TypeOK'
  <2>1. [conv |-> c, entry |-> e] \in Call
    BY DEF Call
  <2> QED
    BY <1>2, <2>1 DEF CallAppend
<1>3. ASSUME NEW w \in Workers, BeginImmediate(w)
      PROVE  TypeOK'
  BY <1>3 DEF BeginImmediate
<1>4. ASSUME NEW w \in Workers, BusyTimeout(w)
      PROVE  TypeOK'
  BY <1>4, <1>e DEF BusyTimeout
<1>r. ASSUME NEW w \in Workers, NEW r \in Result, Rollback(w, r), pc[w] # "idle"
      PROVE  TypeOK'
  BY <1>r, <1>d DEF Rollback
<1>5. ASSUME NEW w \in Workers, AnswerFromTables(w)
      PROVE  TypeOK'
  <2>1. call[w] \in Call
    BY <1>5 DEF AnswerFromTables
  <2>2. ASSUME NEW m \in tx.message, NEW e \in Entry
        PROVE  Deduplicated(m, e) \in Result
    BY <1>e DEF Deduplicated, Result, Tables, MessageRow
  <2>3. call[w].entry \in Entry
    BY <2>1 DEF Call
  <2> QED
    BY <1>5, <1>e, <1>r, <2>2, <2>3 DEF AnswerFromTables, MessageByClientId
<1>6. ASSUME NEW w \in Workers, ReserveSequence(w)
      PROVE  TypeOK'
  <2>1. call[w] \in Call
    BY <1>6 DEF ReserveSequence
  <2>2. call[w].conv \in Conversations
    BY <2>1 DEF Call
  <2>3. tx.next[call[w].conv] \in Nat
    BY <2>2 DEF Tables
  <2>4. tx' \in Tables
    BY <1>6, <2>2, <2>3 DEF ReserveSequence, Tables
  <2>5. result' \in [Workers -> Result]
    BY <1>6, <2>3 DEF ReserveSequence, Result
  <2> QED
    BY <1>6, <2>4, <2>5 DEF ReserveSequence
<1>7. ASSUME NEW w \in Workers, InsertMessage(w)
      PROVE  TypeOK'
  <2>1. call[w] \in Call /\ result[w].seq \in Nat
    BY <1>7 DEF InsertMessage, Result
  <2>2. NewMessage(call[w], result[w].seq) \in MessageRow
    BY <2>1, RowTypes
  <2>3. tx' \in Tables
    BY <1>7, <2>2 DEF InsertMessage, NewMessage, Tables
  <2> QED
    BY <1>7, <2>3 DEF InsertMessage
<1>8. ASSUME NEW w \in Workers, InsertEvent(w)
      PROVE  TypeOK'
  <2>1. call[w] \in Call /\ result[w].seq \in Nat
    BY <1>8 DEF InsertEvent, Result
  <2>2. NewEvent(call[w], result[w].seq) \in EventRow
    BY <2>1, RowTypes
  <2>3. tx' \in Tables
    BY <1>8, <2>2 DEF InsertEvent, NewEvent, Tables
  <2> QED
    BY <1>8, <2>3 DEF InsertEvent
<1>9. ASSUME NEW w \in Workers, Commit(w)
      PROVE  TypeOK'
  BY <1>9 DEF Commit
<1>10. ASSUME NEW w \in Workers, Fail(w)
       PROVE  TypeOK'
  BY <1>10, <1>e, <1>r DEF Fail
<1>11. ASSUME NEW w \in Workers, Return(w)
       PROVE  TypeOK'
  <2>1. call[w] \in Call /\ result[w] \in Result
    BY <1>11 DEF Return
  <2>2. call' \in [Workers -> Call \cup {NoCall}] /\ result' \in [Workers -> Result]
    BY <1>11, <1>e DEF Return
  <2>3. \A v \in Workers : pc'[v] # "idle" => call'[v] \in Call
    BY <1>11 DEF Return
  <2>4. answers' \subseteq [conv : Conversations, entry : Entry,
                            verdict : {"accepted", "deduplicated", "conflict"}, seq : Nat]
    BY <1>11, <2>1 DEF Return, Call, Result
  <2> QED
    BY <1>11, <2>2, <2>3, <2>4 DEF Return
<1>12. CASE Close
  BY <1>12 DEF Close
<1>13. CASE Restart
  BY <1>13, <1>d, <1>e DEF Restart
<1>14. CASE UNCHANGED vars
  BY <1>14 DEF vars
<1> QED
  BY <1>1, <1>2, <1>3, <1>4, <1>5, <1>6, <1>7, <1>8, <1>9, <1>10, <1>11, <1>12, <1>13,
     <1>14 DEF Next, Step

------------------------------------------------------------------------------
(* A message with a new identifier, stored under next_seq, makes a log of a  *)
(* log: the only place where append_message could break one.                 *)
LEMMA AppendIsLog ==
    ASSUME NEW t \in Tables, IsLog(t),
           NEW a \in Call,
           t.next[a.conv] # 0,
           MessageByClientId(t, a.conv, a.entry.cid) = {},
           NEW u,
           u = [next |-> NextReserved(t, a.conv),
                message |-> t.message \cup {NewMessage(a, t.next[a.conv])},
                event |-> t.event \cup {NewEvent(a, t.next[a.conv])}]
    PROVE  IsLog(u)
<1> DEFINE s == t.next[a.conv]
           m == NewMessage(a, s)
           e == NewEvent(a, s)
<1>1. a.conv \in Conversations /\ s \in Nat \ {0}
  BY DEF Call, Tables
<1>2. m.conv = a.conv /\ m.seq = s /\ m.cid = a.entry.cid /\ m.body = a.entry.body
  BY DEF NewMessage
<1>3. e.conv = a.conv /\ e.seq = s /\ e.cid = a.entry.cid /\ e.body = a.entry.body
  BY DEF NewEvent
<1>4. u.message = t.message \cup {m} /\ u.event = t.event \cup {e}
  OBVIOUS
<1>5. u.next = [t.next EXCEPT ![a.conv] = s + 1]
  BY DEF NextReserved
<1>6. \A f \in t.event : f.seq \in Nat /\ f.conv \in Conversations
  BY DEF Tables, EventRow
<1> HIDE DEF m, e, s
<1>7. Contiguous(u)
  <2> SUFFICES ASSUME NEW c \in Conversations
               PROVE  /\ {f.seq : f \in {g \in u.event : g.conv = c}} = 1 .. u.next[c] - 1
                      /\ \A f, g \in u.event :
                            f.conv = c /\ g.conv = c /\ f.seq = g.seq => f = g
    BY DEF Contiguous
  <2>1. /\ {f.seq : f \in {g \in t.event : g.conv = c}} = 1 .. t.next[c] - 1
        /\ \A f, g \in t.event : f.conv = c /\ g.conv = c /\ f.seq = g.seq => f = g
    BY DEF IsLog, Contiguous
  <2>2. t.next \in [Conversations -> Nat]
    BY DEF Tables
  <2>3. CASE c # a.conv
    <3>1. {g \in u.event : g.conv = c} = {g \in t.event : g.conv = c}
      BY <2>3, <1>3, <1>4
    <3>2. u.next[c] = t.next[c]
      BY <2>2, <2>3, <1>5
    <3> QED
      BY <2>1, <3>1, <3>2
  <2>4. CASE c = a.conv
    <3>1. u.next[c] = s + 1 /\ t.next[c] = s
      BY <2>2, <2>4, <1>5 DEF s
    <3>2. {g \in u.event : g.conv = c} = {g \in t.event : g.conv = c} \cup {e}
      BY <2>4, <1>3, <1>4
    <3>3. {f.seq : f \in {g \in u.event : g.conv = c}} = (1 .. s - 1) \cup {s}
      BY <3>1, <3>2, <2>1, <1>3
    <3>4. (1 .. s - 1) \cup {s} = 1 .. s
      BY <1>1
    <3>5. \A f \in t.event : f.conv = c => f.seq # s
      BY <2>1, <3>1, <1>1
    <3>6. \A f, g \in u.event : f.conv = c /\ g.conv = c /\ f.seq = g.seq => f = g
      BY <1>3, <1>4, <2>1, <3>5
    <3>7. 1 .. u.next[c] - 1 = 1 .. s
      BY <1>1, <3>1
    <3> QED
      BY <3>3, <3>4, <3>6, <3>7
  <2> QED
    BY <2>3, <2>4
<1>8. Paired(u)
  BY <1>2, <1>3, <1>4 DEF IsLog, Paired
<1>9. OncePerClientId(u)
  <2>1. \A n \in t.message : ~(n.conv = m.conv /\ n.cid = m.cid)
    BY <1>2 DEF MessageByClientId
  <2> QED
    BY <2>1, <1>4 DEF IsLog, OncePerClientId
<1> QED
  BY <1>7, <1>8, <1>9 DEF IsLog

(* A new, empty conversation leaves the tables a log. *)
LEMMA CreateIsLog ==
    ASSUME NEW t \in Tables, IsLog(t), NEW c \in Conversations, t.next[c] = 0,
           NEW u, u = [t EXCEPT !.next[c] = 1]
    PROVE  IsLog(u)
<1>1. u.message = t.message /\ u.event = t.event
  BY DEF Tables
<1>2. \A d \in Conversations : u.next[d] = IF d = c THEN 1 ELSE t.next[d]
  BY DEF Tables
<1>3. \A d \in Conversations : 1 .. u.next[d] - 1 = 1 .. t.next[d] - 1
  BY <1>2 DEF Tables
<1>4. Contiguous(u)
  BY <1>1, <1>3 DEF IsLog, Contiguous
<1> QED
  BY <1>1, <1>4 DEF IsLog, Paired, OncePerClientId

(* The initial tables are empty: a log. *)
LEMMA InitIInv == Init => IInv
<1> SUFFICES ASSUME Init PROVE IInv
  OBVIOUS
<1>1. TypeOK
  BY DEF Init, TypeOK, Tables, Error, Result
<1>2. IsLog(db)
  <2>1. Contiguous(db)
    BY DEF Init, Contiguous
  <2> QED
    BY <2>1 DEF Init, IsLog, Paired, OncePerClientId
<1>3. Transactions
  BY NoWorkerAssumption
     DEF Init, Transactions, OneWriter, InTransaction, TxBegun, TxReserved, TxMessage, TxEvent
<1> QED
  BY <1>1, <1>2, <1>3 DEF IInv

(* The open transaction holds what its stage says after every step; nothing  *)
(* but the commit of its own thread changes the committed tables under it.   *)
LEMMA TransactionsStep == IInv /\ [Next]_vars => Transactions'
<1> SUFFICES ASSUME IInv, [Next]_vars
             PROVE  Transactions'
  OBVIOUS
<1> USE NoWorkerAssumption DEF Transactions, OneWriter, InTransaction
<1>t. TypeOK /\ Transactions
  BY DEF IInv
<1>q. ASSUME writer' = NoWorker, \A w \in Workers : pc'[w] \notin InTransaction
      PROVE  Transactions'
  BY <1>q DEF TxBegun, TxReserved, TxMessage, TxEvent
<1>r. ASSUME NEW w \in Workers, NEW r, Rollback(w, r), pc[w] \in InTransaction
      PROVE  Transactions'
  BY <1>r, <1>t, <1>q DEF Rollback, TypeOK
<1>s. ASSUME UNCHANGED <<db, tx, writer>>, NEW w \in Workers,
             pc[w] \notin InTransaction, pc'[w] \notin InTransaction,
             \A v \in Workers \ {w} : /\ pc'[v] = pc[v] /\ call'[v] = call[v]
                                      /\ result'[v] = result[v]
      PROVE  Transactions'
  BY <1>s, <1>t, ZenonT(30) DEF TxBegun, TxReserved, TxMessage, TxEvent, Reserved
<1>1. ASSUME NEW c \in Conversations, CreateConversation(c)
      PROVE  Transactions'
  BY <1>1, <1>t, <1>q DEF CreateConversation, TypeOK
<1>2. ASSUME NEW w \in Workers, NEW c \in Conversations, NEW e \in Entry,
             CallAppend(w, c, e)
      PROVE  Transactions'
  BY <1>2, <1>t, <1>s DEF CallAppend, TypeOK
<1>3. ASSUME NEW w \in Workers, BeginImmediate(w)
      PROVE  Transactions'
  <2>1. \A v \in Workers : pc'[v] = "begun" <=> v = w
    BY <1>3, <1>t DEF BeginImmediate, TypeOK
  <2>2. \A v \in Workers : pc'[v] \notin {"reserved", "message", "event"}
    BY <1>3, <1>t DEF BeginImmediate, TypeOK
  <2> QED
    BY <1>3, <2>1, <2>2 DEF BeginImmediate, TxBegun, TxReserved, TxMessage, TxEvent
<1>4. ASSUME NEW w \in Workers, BusyTimeout(w)
      PROVE  Transactions'
  BY <1>4, <1>t, <1>s DEF BusyTimeout, TypeOK
<1>5. ASSUME NEW w \in Workers, AnswerFromTables(w)
      PROVE  Transactions'
  BY <1>5, <1>r DEF AnswerFromTables
<1>6. ASSUME NEW w \in Workers, ReserveSequence(w)
      PROVE  Transactions'
  <2>1. writer = w /\ tx = db /\ tx \in Tables /\ call[w] \in Call
    BY <1>6, <1>t DEF ReserveSequence, TxBegun, TypeOK
  <2>2. \A v \in Workers : pc'[v] = "reserved" <=> v = w
    BY <1>6, <1>t, <2>1 DEF ReserveSequence, TypeOK
  <2>3. \A v \in Workers : pc'[v] \notin {"begun", "message", "event"}
    BY <1>6, <1>t, <2>1 DEF ReserveSequence, TypeOK
  <2>4. Reserved(w)'
    BY <1>6, <1>t, <2>1 DEF ReserveSequence, TypeOK, Reserved
  <2>5. tx' = [next |-> NextReserved(db, call[w].conv),
               message |-> db.message, event |-> db.event]
    BY <1>6, <2>1 DEF ReserveSequence, Tables, NextReserved
  <2> QED
    BY <1>6, <2>1, <2>2, <2>3, <2>4, <2>5
       DEF ReserveSequence, TxBegun, TxReserved, TxMessage, TxEvent, NextReserved
<1>7. ASSUME NEW w \in Workers, InsertMessage(w)
      PROVE  Transactions'
  <2>1. writer = w
    BY <1>7, <1>t DEF InsertMessage
  <2>2. \A v \in Workers : pc'[v] = "message" <=> v = w
    BY <1>7, <1>t, <2>1 DEF InsertMessage, TypeOK
  <2>3. \A v \in Workers : pc'[v] \notin {"begun", "reserved", "event"}
    BY <1>7, <1>t, <2>1 DEF InsertMessage, TypeOK
  <2>4. Reserved(w) /\ Reserved(w)'
    BY <1>7, <1>t DEF InsertMessage, TxReserved, Reserved
  <2>5. tx' = [next |-> NextReserved(db, call[w].conv),
               message |-> db.message \cup {NewMessage(call[w], result[w].seq)},
               event |-> db.event]
    BY <1>7, <1>t, SMTT(30) DEF InsertMessage, TxReserved, NewMessage
  <2> QED
    BY <1>7, <2>1, <2>2, <2>3, <2>4, <2>5
       DEF InsertMessage, TxBegun, TxReserved, TxMessage, TxEvent, NextReserved, NewMessage
<1>8. ASSUME NEW w \in Workers, InsertEvent(w)
      PROVE  Transactions'
  <2>1. writer = w
    BY <1>8, <1>t DEF InsertEvent
  <2>2. \A v \in Workers : pc'[v] = "event" <=> v = w
    BY <1>8, <1>t, <2>1 DEF InsertEvent, TypeOK
  <2>3. \A v \in Workers : pc'[v] \notin {"begun", "reserved", "message"}
    BY <1>8, <1>t, <2>1 DEF InsertEvent, TypeOK
  <2>4. Reserved(w) /\ Reserved(w)'
    BY <1>8, <1>t DEF InsertEvent, TxMessage, Reserved
  <2>5. tx' = [next |-> NextReserved(db, call[w].conv),
               message |-> db.message \cup {NewMessage(call[w], result[w].seq)},
               event |-> db.event \cup {NewEvent(call[w], result[w].seq)}]
    <3>1. tx = [next |-> NextReserved(db, call[w].conv),
                message |-> db.message \cup {NewMessage(call[w], result[w].seq)},
                event |-> db.event]
      BY <1>8, <1>t DEF InsertEvent, TxMessage
    <3>2. tx' = [tx EXCEPT !.event = @ \cup {NewEvent(call[w], result[w].seq)}]
      BY <1>8 DEF InsertEvent, NewEvent
    <3> HIDE DEF Transactions
    <3> QED
      BY <3>1, <3>2
  <2> QED
    BY <1>8, <2>1, <2>2, <2>3, <2>4, <2>5
       DEF InsertEvent, TxBegun, TxReserved, TxMessage, TxEvent, NextReserved, NewMessage,
           NewEvent
<1>9. ASSUME NEW w \in Workers, Commit(w)
      PROVE  Transactions'
  <2>1. writer = w
    BY <1>9, <1>t DEF Commit
  <2> QED
    BY <1>9, <1>t, <1>q, <2>1 DEF Commit, TypeOK
<1>10. ASSUME NEW w \in Workers, Fail(w)
       PROVE  Transactions'
  BY <1>10, <1>r DEF Fail
<1>11. ASSUME NEW w \in Workers, Return(w)
       PROVE  Transactions'
  BY <1>11, <1>t, <1>s DEF Return, TypeOK
<1>12. CASE Close
  BY <1>12, <1>t DEF Close, TxBegun, TxReserved, TxMessage, TxEvent, Reserved
<1>13. CASE Restart
  BY <1>13, <1>q DEF Restart
<1>14. CASE UNCHANGED vars
  BY <1>14, <1>t DEF vars, TxBegun, TxReserved, TxMessage, TxEvent, Reserved
<1> QED
  BY <1>1, <1>2, <1>3, <1>4, <1>5, <1>6, <1>7, <1>8, <1>9, <1>10, <1>11, <1>12, <1>13,
     <1>14 DEF Next, Step

(* What Commit writes to disk: the tables before it, one row more in each.   *)
LEMMA CommitIsAppend ==
    ASSUME IInv, NEW w \in Workers, Commit(w)
    PROVE  /\ call[w] \in Call
           /\ Reserved(w)
           /\ db' = [next |-> NextReserved(db, call[w].conv),
                     message |-> db.message \cup
                                    {NewMessage(call[w], db.next[call[w].conv])},
                     event |-> db.event \cup {NewEvent(call[w], db.next[call[w].conv])}]
<1>1. call[w] \in Call
  BY DEF IInv, TypeOK, Commit
<1>2. Reserved(w)
  BY DEF IInv, Transactions, TxEvent, Commit
<1>3. result[w].seq = db.next[call[w].conv]
  BY <1>2 DEF Reserved
<1> QED
  BY <1>1, <1>2, <1>3 DEF IInv, Transactions, TxEvent, Commit

(* Only CreateConversation and Commit touch the disk. *)
LEMMA DiskSteps ==
    ASSUME [Next]_vars, db' # db
    PROVE  \/ \E c \in Conversations : CreateConversation(c)
           \/ \E w \in Workers : Commit(w)
  BY DEF Next, Step, CreateConversation, CallAppend, BeginImmediate, BusyTimeout,
         AnswerFromTables, Rollback, ReserveSequence, InsertMessage, InsertEvent, Fail,
         Return, Close, Restart, vars

(* The committed tables stay a log. *)
LEMMA LogStep == IInv /\ [Next]_vars => IsLog(db)'
<1> SUFFICES ASSUME IInv, [Next]_vars
             PROVE  IsLog(db)'
  OBVIOUS
<1>1. CASE db' = db
  BY <1>1 DEF IInv, IsLog, Contiguous, Paired, OncePerClientId
<1>2. ASSUME NEW c \in Conversations, CreateConversation(c)
      PROVE  IsLog(db)'
  <2>1. IsLog(db')
    BY <1>2, CreateIsLog DEF IInv, TypeOK, CreateConversation
  <2> QED
    BY <2>1 DEF IsLog, Contiguous, Paired, OncePerClientId
<1>3. ASSUME NEW w \in Workers, Commit(w)
      PROVE  IsLog(db)'
  <2>1. IsLog(db')
    BY <1>3, CommitIsAppend, AppendIsLog, SMTT(30) DEF IInv, TypeOK, Reserved
  <2> QED
    BY <2>1 DEF IsLog, Contiguous, Paired, OncePerClientId
<1> QED
  BY <1>1, <1>2, <1>3, DiskSteps

(* The strengthened invariant is inductive. *)
LEMMA IInvStep == IInv /\ [Next]_vars => IInv'
  BY TypeStep, LogStep, TransactionsStep DEF IInv

(* Every reachable state of the store satisfies the strengthened invariant.  *)
THEOREM StoreInvariant == Spec => []IInv
  BY InitIInv, IInvStep, PTL DEF Spec

(* Type correctness of the store's tables, transaction and calls.            *)
THEOREM TypeCorrect == Spec => []TypeOK
<1>1. IInv => TypeOK
  BY DEF IInv
<1> QED
  BY <1>1, StoreInvariant, PTL

(* append_message: whatever fails or dies, the disk holds gap-free logs with *)
(* matching message and event rows and no identifier twice.                  *)
THEOREM DiskIsLog == Spec => []LogOnDisk
<1>1. IInv => LogOnDisk
  BY DEF IInv, IsLog, LogOnDisk
<1> QED
  BY <1>1, StoreInvariant, PTL

(* Committed events are never rewritten and next_seq never goes back.        *)
THEOREM EventsStay == Spec => AppendOnly
<1>1. ASSUME IInv, [Next]_vars
      PROVE  /\ db.event \subseteq db'.event
             /\ \A c \in Conversations : db.next[c] <= db'.next[c]
  <2>1. db.next \in [Conversations -> Nat]
    BY <1>1 DEF IInv, TypeOK, Tables
  <2>2. CASE db' = db
    BY <2>1, <2>2
  <2>3. ASSUME NEW c \in Conversations, CreateConversation(c)
        PROVE  db.event = db'.event /\ \A d \in Conversations : db.next[d] <= db'.next[d]
    BY <1>1, <2>1, <2>3 DEF CreateConversation, IInv, TypeOK, Tables
  <2>4. ASSUME NEW w \in Workers, Commit(w)
        PROVE  db.event \subseteq db'.event
               /\ \A d \in Conversations : db.next[d] <= db'.next[d]
    BY <1>1, <2>1, <2>4, CommitIsAppend DEF NextReserved
  <2> QED
    BY <1>1, <2>2, <2>3, <2>4, DiskSteps
<1> QED
  BY <1>1, StoreInvariant, PTL DEF Spec, AppendOnly

------------------------------------------------------------------------------
(* The answers callers hold. *)

(* What a result with this verdict, for this call, says about the tables.    *)
TrueOf(conv, entry, verdict, s) ==
    IF verdict = "conflict"
    THEN \E e \in db.event : /\ e.conv = conv
                             /\ e.cid = entry.cid
                             /\ EntryOf(e) # entry
    ELSE \E e \in db.event : /\ e.conv = conv
                             /\ e.seq = s
                             /\ EntryOf(e) = entry

(* A result that is about to be returned is an error or true. *)
ResultsHold ==
    \A w \in Workers :
        pc[w] = "returning" /\ result[w].verdict # "error"
            => TrueOf(call[w].conv, call[w].entry, result[w].verdict, result[w].seq)

AInv == IInv /\ AnswersHold /\ ResultsHold

(* _deduplicated_result tells the truth: the message row it is given has one *)
(* event row, and it compares everything the caller sent with the two rows.  *)
LEMMA DeduplicatedIsTrue ==
    ASSUME IInv, NEW w \in Workers, pc[w] = "begun", call[w] \in Call,
           NEW m \in MessageByClientId(tx, call[w].conv, call[w].entry.cid),
           Deduplicated(m, call[w].entry).verdict # "error"
    PROVE  TrueOf(call[w].conv, call[w].entry, Deduplicated(m, call[w].entry).verdict,
                  Deduplicated(m, call[w].entry).seq)
<1> DEFINE c == call[w].conv
           e == call[w].entry
<1>1. tx = db
  BY DEF IInv, Transactions, TxBegun
<1>2. m \in db.message /\ m.conv = c /\ m.cid = e.cid
  BY <1>1 DEF MessageByClientId
<1>3. PICK f \in db.event : f.conv = m.conv /\ f.seq = m.seq /\ f.cid = m.cid
                           /\ f.body = m.body
  BY <1>2 DEF IInv, IsLog, Paired
<1>4. EventAt(tx, m.conv, m.seq) = {f}
  <2>1. m.conv \in Conversations
    BY <1>2 DEF Call
  <2> QED
    BY <1>1, <1>3, <2>1 DEF EventAt, IInv, IsLog, Contiguous
<1>5. e = [cid |-> e.cid, body |-> e.body, cause |-> e.cause]
  BY DEF Call, Entry
<1>6. CASE m.body = e.body /\ f.cause = e.cause
  <2>1. Deduplicated(m, e) = [verdict |-> "deduplicated", seq |-> m.seq]
    BY <1>4, <1>6 DEF Deduplicated
  <2>2. EntryOf(f) = e
    BY <1>2, <1>3, <1>5, <1>6 DEF EntryOf
  <2> QED
    BY <1>2, <1>3, <2>1, <2>2 DEF TrueOf
<1>7. CASE ~(m.body = e.body /\ f.cause = e.cause)
  <2>1. Deduplicated(m, e) = [verdict |-> "conflict", seq |-> 0]
    BY <1>4, <1>7 DEF Deduplicated
  <2>2. EntryOf(f) # e
    BY <1>3, <1>5, <1>7 DEF EntryOf
  <2> QED
    BY <1>2, <1>3, <2>1, <2>2 DEF TrueOf
<1> QED
  BY <1>6, <1>7

(* A step that leaves the answers and every finished result alone, and takes *)
(* no event away, keeps both true.                                           *)
LEMMA AnswersFrame ==
    ASSUME AInv, answers' = answers, db.event \subseteq db'.event,
           NEW w \in Workers,
           \A v \in Workers \ {w} :
               pc'[v] = "returning" =>
                   pc[v] = "returning" /\ call'[v] = call[v] /\ result'[v] = result[v],
           pc'[w] = "returning" /\ result'[w].verdict # "error" =>
               TrueOf(call[w].conv, call[w].entry, result[w].verdict, result[w].seq)'
    PROVE  AnswersHold' /\ ResultsHold'
<1>1. AnswersHold'
  BY DEF AInv, AnswersHold, EntryOf
<1>2. ASSUME NEW v \in Workers, pc'[v] = "returning", result'[v].verdict # "error", v # w
      PROVE  TrueOf(call[v].conv, call[v].entry, result[v].verdict, result[v].seq)'
  BY <1>2 DEF AInv, ResultsHold, TrueOf, EntryOf
<1> QED
  BY <1>1, <1>2 DEF ResultsHold

(* A thread's result stays true or is made true by every step. *)
LEMMA AnswersStep == AInv /\ [Next]_vars => AnswersHold' /\ ResultsHold'
<1> SUFFICES ASSUME AInv, [Next]_vars
             PROVE  AnswersHold' /\ ResultsHold'
  OBVIOUS
<1>t. TypeOK /\ IInv /\ ResultsHold /\ AnswersHold
  BY DEF AInv, IInv
<1>s. ASSUME answers' = answers, db.event \subseteq db'.event,
             \A v \in Workers :
                 pc'[v] = "returning" =>
                     pc[v] = "returning" /\ call'[v] = call[v] /\ result'[v] = result[v]
      PROVE  AnswersHold' /\ ResultsHold'
  BY <1>s, <1>t DEF AnswersHold, ResultsHold, TrueOf, EntryOf
<1>r. ASSUME NEW w \in Workers, NEW r, Rollback(w, r),
             r.verdict # "error" => TrueOf(call[w].conv, call[w].entry, r.verdict, r.seq)
      PROVE  AnswersHold' /\ ResultsHold'
  <2>1. pc'[w] = "returning" /\ result'[w] = r
    BY <1>r, <1>t DEF Rollback, TypeOK
  <2>2. r.verdict # "error" =>
          TrueOf(call[w].conv, call[w].entry, result[w].verdict, result[w].seq)'
    BY <1>r, <2>1 DEF Rollback, TrueOf
  <2>3. \A v \in Workers \ {w} : pc'[v] = pc[v] /\ call'[v] = call[v]
                                /\ result'[v] = result[v]
    BY <1>r, <1>t DEF Rollback, TypeOK
  <2> QED
    BY <1>r, <2>1, <2>2, <2>3, AnswersFrame DEF Rollback
<1>1. ASSUME NEW c \in Conversations, CreateConversation(c)
      PROVE  AnswersHold' /\ ResultsHold'
  <2>1. db'.event = db.event
    BY <1>1, <1>t DEF CreateConversation, TypeOK, Tables
  <2> QED
    BY <1>1, <1>s, <2>1 DEF CreateConversation
<1>2. ASSUME NEW w \in Workers, NEW c \in Conversations, NEW e \in Entry,
             CallAppend(w, c, e)
      PROVE  AnswersHold' /\ ResultsHold'
  BY <1>2, <1>s, <1>t DEF CallAppend, TypeOK
<1>3. ASSUME NEW w \in Workers, BeginImmediate(w)
      PROVE  AnswersHold' /\ ResultsHold'
  BY <1>3, <1>s, <1>t DEF BeginImmediate, TypeOK
<1>4. ASSUME NEW w \in Workers, BusyTimeout(w)
      PROVE  AnswersHold' /\ ResultsHold'
  <2>1. result'[w].verdict = "error"
    BY <1>4, <1>t DEF BusyTimeout, TypeOK, Error
  <2>2. \A v \in Workers \ {w} : pc'[v] = pc[v] /\ call'[v] = call[v]
                                /\ result'[v] = result[v]
    BY <1>4, <1>t DEF BusyTimeout, TypeOK
  <2> QED
    BY <1>4, <2>1, <2>2, AnswersFrame DEF BusyTimeout
<1>5. ASSUME NEW w \in Workers, AnswerFromTables(w)
      PROVE  AnswersHold' /\ ResultsHold'
  <2>1. pc[w] = "begun" /\ call[w] \in Call
    BY <1>5, <1>t DEF AnswerFromTables, TypeOK
  <2>2. CASE Rollback(w, Error)
    BY <1>r, <2>2 DEF Error
  <2>3. ASSUME NEW m \in MessageByClientId(tx, call[w].conv, call[w].entry.cid),
               Rollback(w, Deduplicated(m, call[w].entry))
        PROVE  AnswersHold' /\ ResultsHold'
    BY <1>r, <1>t, <2>1, <2>3, DeduplicatedIsTrue
  <2> QED
    BY <1>5, <2>2, <2>3 DEF AnswerFromTables
<1>6. ASSUME NEW w \in Workers, ReserveSequence(w)
      PROVE  AnswersHold' /\ ResultsHold'
  BY <1>6, <1>s, <1>t DEF ReserveSequence, TypeOK
<1>7. ASSUME NEW w \in Workers, InsertMessage(w)
      PROVE  AnswersHold' /\ ResultsHold'
  BY <1>7, <1>s, <1>t DEF InsertMessage, TypeOK
<1>8. ASSUME NEW w \in Workers, InsertEvent(w)
      PROVE  AnswersHold' /\ ResultsHold'
  BY <1>8, <1>s, <1>t DEF InsertEvent, TypeOK
<1>9. ASSUME NEW w \in Workers, Commit(w)
      PROVE  AnswersHold' /\ ResultsHold'
  <2> DEFINE f == NewEvent(call[w], db.next[call[w].conv])
  <2>1. /\ call[w] \in Call /\ Reserved(w)
        /\ db'.event = db.event \cup {f}
    BY <1>9, <1>t, CommitIsAppend
  <2>2. call' = call /\ result' = result /\ answers' = answers
    BY <1>9 DEF Commit
  <2>3. result[w].verdict = "accepted" /\ result[w].seq = db.next[call[w].conv]
    BY <2>1 DEF Reserved
  <2>4. f.conv = call[w].conv /\ f.seq = result[w].seq /\ EntryOf(f) = call[w].entry
    BY <2>1, <2>3 DEF NewEvent, EntryOf, Call, Entry
  <2>5. TrueOf(call[w].conv, call[w].entry, result[w].verdict, result[w].seq)'
    BY <2>1, <2>2, <2>3, <2>4 DEF TrueOf, EntryOf
  <2>6. \A v \in Workers \ {w} : pc'[v] = pc[v]
    BY <1>9, <1>t DEF Commit, TypeOK
  <2> QED
    BY <2>1, <2>2, <2>5, <2>6, AnswersFrame
<1>10. ASSUME NEW w \in Workers, Fail(w)
       PROVE  AnswersHold' /\ ResultsHold'
  BY <1>10, <1>r DEF Fail, Error
<1>11. ASSUME NEW w \in Workers, Return(w)
       PROVE  AnswersHold' /\ ResultsHold'
  <2>1. ResultsHold'
    BY <1>11, <1>t DEF Return, TypeOK, ResultsHold, TrueOf, EntryOf
  <2>2. \A a \in answers' : TrueOf(a.conv, a.entry, a.verdict, a.seq)
    <3>1. \A a \in answers : TrueOf(a.conv, a.entry, a.verdict, a.seq)
      BY <1>t DEF AnswersHold, TrueOf
    <3>2. result[w].verdict # "error" =>
            TrueOf(call[w].conv, call[w].entry, result[w].verdict, result[w].seq)
      BY <1>11, <1>t DEF Return, ResultsHold
    <3> QED
      BY <1>11, <3>1, <3>2 DEF Return
  <2>3. db' = db
    BY <1>11 DEF Return
  <2> QED
    BY <2>1, <2>2, <2>3 DEF AnswersHold, TrueOf, EntryOf
<1>12. CASE Close
  BY <1>12, <1>s DEF Close
<1>13. CASE Restart
  BY <1>13, <1>s DEF Restart
<1>14. CASE UNCHANGED vars
  BY <1>14, <1>s DEF vars
<1> QED
  BY <1>1, <1>2, <1>3, <1>4, <1>5, <1>6, <1>7, <1>8, <1>9, <1>10, <1>11, <1>12, <1>13,
     <1>14 DEF Next, Step

(* append_message never tells a caller something the disk does not say, now  *)
(* or after any number of later appends, faults and restarts.                *)
THEOREM AnswersAreTrue == Spec => []AnswersHold
<1>1. Init => AInv
  BY InitIInv DEF AInv, Init, AnswersHold, ResultsHold
<1>2. AInv /\ [Next]_vars => AInv'
  BY AnswersStep, IInvStep DEF AInv
<1>3. AInv => AnswersHold
  BY DEF AInv
<1> QED
  BY <1>1, <1>2, <1>3, PTL DEF Spec

------------------------------------------------------------------------------
(* Reading pages. *)

(* Between the cursor and an event of the log lie exactly the events with the*)
(* numbers in between: what replay_events counts is the distance.            *)
LEMMA EventsBetween ==
    ASSUME TypeOK, IsLog(db), NEW c \in Conversations, NEW after \in Nat,
           NEW e \in db.event, e.conv = c, e.seq > after
    PROVE  Cardinality({f \in db.event : f.conv = c /\ f.seq > after /\ f.seq < e.seq})
             = e.seq - after - 1
<1> DEFINE F == {f \in db.event : f.conv = c /\ f.seq > after /\ f.seq < e.seq}
           I == after + 1 .. e.seq - 1
           g == [s \in I |-> CHOOSE f \in F : f.seq = s]
<1>1. \A f \in db.event : f.seq \in Nat
  BY DEF TypeOK, Tables, EventRow
<1>2. db.next[c] \in Nat
  BY DEF TypeOK, Tables
<1>3. {f.seq : f \in {h \in db.event : h.conv = c}} = 1 .. db.next[c] - 1
  BY DEF IsLog, Contiguous
<1>4. \A f, h \in db.event : f.conv = c /\ h.conv = c /\ f.seq = h.seq => f = h
  BY DEF IsLog, Contiguous
<1>5. e.seq \in 1 .. db.next[c] - 1
  BY <1>3
<1>6. ASSUME NEW s \in I
      PROVE  \E f \in F : f.seq = s
  <2>1. s \in 1 .. db.next[c] - 1 /\ s > after /\ s < e.seq
    BY <1>1, <1>2, <1>5
  <2>2. PICK f \in db.event : f.conv = c /\ f.seq = s
    BY <1>3, <2>1
  <2> QED
    BY <2>1, <2>2
<1>7. \A s \in I : g[s] \in F /\ g[s].seq = s
  BY <1>6
<1>8. \A f \in F : f.seq \in I /\ g[f.seq] = f
  <2> SUFFICES ASSUME NEW f \in F
               PROVE  f.seq \in I /\ g[f.seq] = f
    OBVIOUS
  <2>1. f.seq \in I
    BY <1>1
  <2>2. g[f.seq] \in F /\ g[f.seq].seq = f.seq
    BY <1>7, <2>1
  <2> QED
    BY <1>4, <2>1, <2>2
<1>9. g \in Bijection(I, F)
  <2>1. g \in [I -> F]
    BY <1>7
  <2>2. DOMAIN g = I /\ \A s, t \in I : g[s] = g[t] => s = t
    BY <1>7
  <2>3. \A f \in F : \E s \in I : g[s] = f
    BY <1>8
  <2> HIDE DEF F, I, g
  <2>4. IsInjective(g)
    BY <2>2 DEF IsInjective
  <2>5. g \in Injection(I, F)
    BY <2>1, <2>4 DEF Injection
  <2>6. g \in Surjection(I, F)
    BY <2>1, <2>3 DEF Surjection
  <2> QED
    BY <2>5, <2>6 DEF Bijection
<1>10. IsFiniteSet(I) /\ Cardinality(I) = e.seq - after - 1
  <2>1. after + 1 \in Int /\ e.seq - 1 \in Int /\ e.seq - 1 >= after
    BY <1>1
  <2>2. /\ IsFiniteSet(I)
        /\ Cardinality(I) = IF after + 1 > e.seq - 1 THEN 0 ELSE (e.seq - 1) - (after + 1) + 1
    BY <2>1, FS_Interval
  <2> HIDE DEF I
  <2> QED
    BY <1>1, <2>1, <2>2
<1>11. ExistsBijection(I, F)
  BY <1>9 DEF ExistsBijection
<1> HIDE DEF F, I, g
<1>12. Cardinality(F) = e.seq - after - 1
  BY <1>10, <1>11, FS_Bijection
<1> QED
  BY <1>12 DEF F

(* Every page of replay_events starts right after its cursor and has no gap, *)
(* whichever appends were rolled back before: a reader that pages through a  *)
(* conversation misses nothing.                                              *)
THEOREM PagesAreGapless == Spec => []PagesHaveNoGap
<1>1. IInv => PagesHaveNoGap
  <2> SUFFICES ASSUME IInv,
                      NEW c \in Conversations, NEW after \in 0..MaxSeq, NEW limit \in 1..MaxSeq
               PROVE  {e.seq : e \in ReplayEvents(c, after, limit)}
                        = {s \in after + 1 .. after + limit : s <= db.next[c] - 1}
    BY DEF PagesHaveNoGap
  <2>1. /\ after \in Nat
        /\ db.next[c] \in Nat
        /\ \A e \in db.event : e.seq \in Nat
    BY MaxSeqAssumption DEF IInv, TypeOK, Tables, EventRow
  <2>2. {f.seq : f \in {h \in db.event : h.conv = c}} = 1 .. db.next[c] - 1
    BY DEF IInv, IsLog, Contiguous
  <2>3. \A e \in db.event : e.conv = c /\ e.seq > after =>
            Cardinality({f \in db.event : f.conv = c /\ f.seq > after /\ f.seq < e.seq})
              = e.seq - after - 1
    BY EventsBetween, <2>1 DEF IInv
  <2>4. \A e : e \in ReplayEvents(c, after, limit) <=>
            /\ e \in db.event /\ e.conv = c
            /\ e.seq > after /\ e.seq - after - 1 < limit
    BY <2>3 DEF ReplayEvents
  <2>5. ASSUME NEW e \in ReplayEvents(c, after, limit)
        PROVE  e.seq \in after + 1 .. after + limit /\ e.seq <= db.next[c] - 1
    <3>1. e.seq \in 1 .. db.next[c] - 1
      BY <2>2, <2>4, <2>5
    <3> QED
      BY <2>1, <2>4, <2>5, <3>1
  <2>6. ASSUME NEW s \in after + 1 .. after + limit, s <= db.next[c] - 1
        PROVE  \E e \in ReplayEvents(c, after, limit) : e.seq = s
    <3>1. s \in 1 .. db.next[c] - 1
      BY <2>1, <2>6
    <3>2. PICK e \in db.event : e.conv = c /\ e.seq = s
      BY <2>2, <3>1
    <3>3. e.seq > after /\ e.seq - after - 1 < limit
      BY <2>1, <3>2
    <3> QED
      BY <2>4, <3>2, <3>3
  <2> QED
    BY <2>5, <2>6
<1> QED
  BY <1>1, StoreInvariant, PTL

------------------------------------------------------------------------------
(* The store implements the abstract log. *)

(* Seen as a log, a conversation is the sequence of its events' entries.     *)
LEMMA LogEntries ==
    ASSUME NEW t \in Tables, IsLog(t), NEW c \in Conversations, t.next[c] # 0
    PROVE  /\ LogOf(t)[c] \in Seq(Entry)
           /\ Len(LogOf(t)[c]) = t.next[c] - 1
           /\ \A s \in 1 .. t.next[c] - 1 : \E e \in t.event : e.conv = c /\ e.seq = s
           /\ \A e \in t.event : e.conv = c =>
                  e.seq \in 1 .. t.next[c] - 1 /\ LogOf(t)[c][e.seq] = EntryOf(e)
<1> DEFINE n == t.next[c] - 1
           f == [s \in 1 .. n |->
                    EntryOf(CHOOSE e \in t.event : e.conv = c /\ e.seq = s)]
<1>1. n \in Nat
  BY DEF Tables
<1>2. LogOf(t)[c] = f
  BY DEF LogOf, Entries
<1>3. {e.seq : e \in {g \in t.event : g.conv = c}} = 1 .. n
  BY DEF IsLog, Contiguous
<1>4. \A e, g \in t.event : e.conv = c /\ g.conv = c /\ e.seq = g.seq => e = g
  BY DEF IsLog, Contiguous
<1>5. \A s \in 1 .. n : \E e \in t.event : e.conv = c /\ e.seq = s
  BY <1>3
<1>6. \A e \in t.event : EntryOf(e) \in Entry
  BY DEF EntryOf, Entry, Tables, EventRow
<1>7. \A s \in 1 .. n : f[s] \in Entry
  BY <1>5, <1>6
<1>8. f \in Seq(Entry) /\ Len(f) = n
  <2>1. f \in [1 .. n -> Entry]
    BY <1>7
  <2> HIDE DEF f, n
  <2> QED
    BY <1>1, <2>1
<1>9. ASSUME NEW e \in t.event, e.conv = c
      PROVE  e.seq \in 1 .. n /\ f[e.seq] = EntryOf(e)
  <2>1. e.seq \in 1 .. n
    BY <1>3, <1>9
  <2>2. (CHOOSE g \in t.event : g.conv = c /\ g.seq = e.seq) = e
    BY <1>4, <1>9
  <2> QED
    BY <2>1, <2>2
<1> QED
  BY <1>2, <1>5, <1>8, <1>9

(* Only append_message's own answers are of the kind conflict, and they carry*)
(* no sequence number.                                                       *)
ConflictsCarryNothing ==
    \A w \in Workers : result[w].verdict = "conflict" => result[w].seq = 0

(* Every step of append_message and every restart keeps it so. *)
LEMMA ConflictsStep == TypeOK /\ ConflictsCarryNothing /\ [Next]_vars
                         => ConflictsCarryNothing'
<1> SUFFICES ASSUME TypeOK, ConflictsCarryNothing, [Next]_vars
             PROVE  ConflictsCarryNothing'
  OBVIOUS
<1> USE DEF ConflictsCarryNothing
<1>1. CASE result' = result
  BY <1>1
<1>2. ASSUME NEW w \in Workers, NEW r, result' = [result EXCEPT ![w] = r],
             r.verdict = "conflict" => r.seq = 0
      PROVE  ConflictsCarryNothing'
  BY <1>2 DEF TypeOK
<1>3. ASSUME NEW w \in Workers, AnswerFromTables(w)
      PROVE  ConflictsCarryNothing'
  BY <1>2, <1>3 DEF AnswerFromTables, Rollback, Deduplicated, Error
<1>4. CASE Restart
  BY <1>4 DEF Restart, Error
<1> QED
  BY <1>1, <1>2, <1>3, <1>4
     DEF Next, Step, CreateConversation, CallAppend, BeginImmediate, BusyTimeout,
         ReserveSequence, InsertMessage, InsertEvent, Commit, Fail, Rollback, Return,
         Close, Error, vars

(* What the refinement proof assumes of a reachable state. *)
RInv == AInv /\ ConflictsCarryNothing

(* create_conversation is the abstract Create. *)
LEMMA CreateRefines ==
    ASSUME RInv, NEW c \in Conversations, CreateConversation(c)
    PROVE  Log!Create(c)
<1>1. db \in Tables /\ db' = [db EXCEPT !.next[c] = 1] /\ db.next[c] = 0
  BY DEF RInv, AInv, IInv, TypeOK, CreateConversation
<1>2. db'.event = db.event /\ db'.next[c] = 1
  BY <1>1 DEF Tables
<1>3. \A d \in Conversations \ {c} : db'.next[d] = db.next[d]
  BY <1>1 DEF Tables
<1>4. LogOf(db)[c] = Unknown
  BY <1>1 DEF LogOf, Entries
<1>5. LogOf(db') = [LogOf(db) EXCEPT ![c] = <<>>]
  <2>1. \A d \in Conversations \ {c} : LogOf(db')[d] = LogOf(db)[d]
    BY <1>2, <1>3 DEF LogOf
  <2>2. LogOf(db')[c] = <<>>
    BY <1>2 DEF LogOf, Entries
  <2> QED
    BY <2>1, <2>2 DEF LogOf
<1>6. answers' = answers
  BY DEF CreateConversation
<1>7. LogOf(db)' = LogOf(db')
  BY DEF LogOf
<1> QED
  BY <1>4, <1>5, <1>6, <1>7 DEF Log!Create, Log!Known

(* The commit of append_message is the abstract Accept of its entry. *)
LEMMA CommitRefines ==
    ASSUME RInv, NEW w \in Workers, Commit(w)
    PROVE  Log!Accept(call[w].conv, call[w].entry)
<1> DEFINE c == call[w].conv
           e == call[w].entry
           n == db.next[c]
           f == NewEvent(call[w], n)
<1>1. /\ call[w] \in Call /\ Reserved(w)
      /\ db' = [next |-> NextReserved(db, c),
                message |-> db.message \cup {NewMessage(call[w], n)},
                event |-> db.event \cup {f}]
  BY CommitIsAppend DEF RInv, AInv
<1>2. db \in Tables /\ IsLog(db)
  BY DEF RInv, AInv, IInv, TypeOK
<1>3. db' \in Tables /\ IsLog(db')
  <2>1. IInv'
    BY IInvStep DEF RInv, AInv, Next, Step
  <2>2. IsLog(db')
    BY <2>1 DEF IInv, IsLog, Contiguous, Paired, OncePerClientId
  <2> QED
    BY <2>1, <2>2 DEF IInv, TypeOK
<1>4. c \in Conversations /\ e \in Entry /\ n \in Nat \ {0}
  BY <1>1, <1>2 DEF Call, Reserved, Tables
<1>5. db'.next[c] = n + 1 /\ db'.event = db.event \cup {f}
      /\ \A d \in Conversations \ {c} : db'.next[d] = db.next[d]
  BY <1>1, <1>2, <1>4 DEF NextReserved, Tables
<1>6. f.conv = c /\ f.seq = n /\ EntryOf(f) = e
  BY <1>1, <1>4 DEF NewEvent, EntryOf, Entry
<1>7. /\ LogOf(db)[c] \in Seq(Entry) /\ Len(LogOf(db)[c]) = n - 1
      /\ \A s \in 1 .. n - 1 : \E g \in db.event : g.conv = c /\ g.seq = s
      /\ \A g \in db.event : g.conv = c => LogOf(db)[c][g.seq] = EntryOf(g)
  BY <1>2, <1>4, LogEntries
<1>8. /\ LogOf(db')[c] \in Seq(Entry) /\ Len(LogOf(db')[c]) = n
      /\ \A g \in db'.event : g.conv = c => LogOf(db')[c][g.seq] = EntryOf(g)
  BY <1>3, <1>4, <1>5, LogEntries
<1> HIDE DEF c, e, n, f
<1>9. LogOf(db')[c] = Append(LogOf(db)[c], e)
  <2>1. \A s \in 1 .. n - 1 : LogOf(db')[c][s] = LogOf(db)[c][s]
    BY <1>5, <1>7, <1>8
  <2>2. LogOf(db')[c][n] = e
    BY <1>5, <1>6, <1>8
  <2> QED
    BY <1>4, <1>7, <1>8, <2>1, <2>2
<1>10. \A d \in Conversations \ {c} : LogOf(db')[d] = LogOf(db)[d]
  <2> SUFFICES ASSUME NEW d \in Conversations \ {c}
               PROVE  LogOf(db')[d] = LogOf(db)[d]
    OBVIOUS
  <2>1. \A g : g \in db'.event /\ g.conv = d <=> g \in db.event /\ g.conv = d
    BY <1>5, <1>6
  <2>2. CASE db.next[d] = 0
    BY <1>5, <2>2 DEF LogOf, Entries
  <2>3. CASE db.next[d] # 0
    <3>1. /\ LogOf(db)[d] \in Seq(Entry) /\ Len(LogOf(db)[d]) = db.next[d] - 1
          /\ \A s \in 1 .. db.next[d] - 1 : \E g \in db.event : g.conv = d /\ g.seq = s
          /\ \A g \in db.event : g.conv = d => LogOf(db)[d][g.seq] = EntryOf(g)
      BY <1>2, <2>3, LogEntries
    <3>2. /\ LogOf(db')[d] \in Seq(Entry) /\ Len(LogOf(db')[d]) = db.next[d] - 1
          /\ \A g \in db'.event : g.conv = d => LogOf(db')[d][g.seq] = EntryOf(g)
      BY <1>3, <1>5, <2>3, LogEntries
    <3>3. \A s \in 1 .. db.next[d] - 1 : LogOf(db')[d][s] = LogOf(db)[d][s]
      BY <2>1, <3>1, <3>2
    <3> QED
      BY <3>1, <3>2, <3>3
  <2> QED
    BY <2>2, <2>3
<1>11. LogOf(db') = [LogOf(db) EXCEPT ![c] = Append(@, e)]
  BY <1>4, <1>9, <1>10 DEF LogOf
<1>12. ~Log!HasClientId(c, e.cid)
  <2> SUFFICES ASSUME NEW s \in 1 .. n - 1, LogOf(db)[c][s].cid = e.cid
               PROVE  FALSE
    BY <1>4, <1>7 DEF Log!HasClientId
  <2>1. PICK g \in db.event : g.conv = c /\ g.seq = s
    BY <1>7
  <2>2. g.cid = e.cid
    <3>1. LogOf(db)[c][s] = EntryOf(g)
      BY <1>7, <2>1
    <3>2. EntryOf(g).cid = g.cid
      BY DEF EntryOf
    <3> QED
      BY <3>1, <3>2
  <2>3. PICK m \in db.message : m.conv = c /\ m.cid = e.cid
    BY <1>2, <2>1, <2>2 DEF IsLog, Paired
  <2> QED
    BY <1>1, <2>3 DEF Reserved, MessageByClientId, c, e
<1>13. Log!Known(c)
  BY <1>7, UnknownAssumption DEF Log!Known, Entry
<1>14. answers' = answers /\ LogOf(db)' = LogOf(db')
  BY DEF Commit, LogOf
<1> QED
  BY <1>11, <1>12, <1>13, <1>14 DEF Log!Accept, c, e

(* The return of append_message is the abstract Reply, or says nothing. *)
LEMMA ReturnRefines ==
    ASSUME RInv, NEW w \in Workers, Return(w)
    PROVE  \/ UNCHANGED <<LogOf(db), answers>>
           \/ Log!Reply(call[w].conv)
<1> DEFINE c == call[w].conv
           e == call[w].entry
           r == result[w]
<1>1. call[w] \in Call /\ r \in Result /\ pc[w] = "returning"
  BY DEF RInv, AInv, IInv, TypeOK, Return
<1>2. c \in Conversations /\ e \in Entry
  BY <1>1 DEF Call
<1>3. db \in Tables /\ IsLog(db) /\ db' = db
  BY DEF RInv, AInv, IInv, TypeOK, Return
<1>4. LogOf(db)' = LogOf(db)
  BY <1>3 DEF LogOf
<1>5. CASE r.verdict = "error"
  BY <1>4, <1>5 DEF Return
<1>6. CASE r.verdict # "error"
  <2>1. answers' = answers \cup {[conv |-> c, entry |-> e, verdict |-> r.verdict,
                                  seq |-> r.seq]}
    BY <1>6 DEF Return
  <2>2. TrueOf(c, e, r.verdict, r.seq)
    BY <1>1, <1>6 DEF RInv, AInv, ResultsHold
  <2>3. PICK g \in db.event : /\ g.conv = c
                             /\ IF r.verdict = "conflict"
                                THEN g.cid = e.cid /\ EntryOf(g) # e
                                ELSE g.seq = r.seq /\ EntryOf(g) = e
    BY <2>2 DEF TrueOf
  <2>4. db.next[c] # 0
    <3>1. g.seq \in 1 .. db.next[c] - 1
      BY <1>2, <1>3, <2>3 DEF IsLog, Contiguous
    <3> QED
      BY <3>1
  <2>5. /\ LogOf(db)[c] \in Seq(Entry)
        /\ Len(LogOf(db)[c]) = db.next[c] - 1
        /\ g.seq \in 1 .. db.next[c] - 1
        /\ LogOf(db)[c][g.seq] = EntryOf(g)
    BY <1>2, <1>3, <2>3, <2>4, LogEntries
  <2>6. g.seq \in DOMAIN LogOf(db)[c]
    BY <1>2, <1>3, <2>5 DEF Tables
  <2>7. Log!Known(c)
    BY <2>5, UnknownAssumption DEF Log!Known, Entry
  <2>8. CASE r.verdict = "conflict"
    <3>1. r.seq = 0
      BY <2>8, <1>1 DEF RInv, ConflictsCarryNothing
    <3>2. LogOf(db)[c][g.seq].cid = e.cid /\ LogOf(db)[c][g.seq] # e
      BY <2>3, <2>5, <2>8 DEF EntryOf
    <3>3. Log!ReplyConflict(c, e)
      BY <1>4, <2>1, <2>6, <2>8, <3>1, <3>2 DEF Log!ReplyConflict
    <3>4. e \in Log!Entry
      BY <1>2 DEF Entry, Log!Entry
    <3> QED
      BY <2>7, <3>3, <3>4 DEF Log!Reply
  <2>9. CASE r.verdict # "conflict"
    <3>1. r.verdict \in {"accepted", "deduplicated"}
      BY <1>1, <1>6, <2>9 DEF Result
    <3>2. g.seq = r.seq /\ LogOf(db)[c][g.seq] = e
      BY <2>3, <2>5, <2>9
    <3>3. Log!ReplySeq(c, g.seq, r.verdict)
      BY <1>4, <2>1, <3>2 DEF Log!ReplySeq
    <3> QED
      BY <2>6, <2>7, <3>1, <3>3 DEF Log!Reply
  <2> QED
    BY <2>8, <2>9
<1> QED
  BY <1>5, <1>6

(* Nothing but creations, commits and returns is visible in the log. *)
LEMMA HiddenSteps ==
    ASSUME [Next]_vars
    PROVE  \/ db' = db /\ answers' = answers
           \/ \E c \in Conversations : CreateConversation(c)
           \/ \E w \in Workers : Commit(w) \/ Return(w)
  BY DEF Next, Step, CreateConversation, CallAppend, BeginImmediate, BusyTimeout,
         AnswerFromTables, Rollback, ReserveSequence, InsertMessage, InsertEvent, Fail,
         Return, Close, Restart, vars

(* The transactions of store.py, with all their faults, rollbacks, lock      *)
(* timeouts and restarts, implement the abstract append-only log.            *)
THEOREM StoreImplementsLog == Spec => ImplementsLog
<1>1. Init => Log!Init
  <2> SUFFICES ASSUME Init PROVE Log!Init
    OBVIOUS
  <2>1. \A c \in Conversations : db.next[c] = 0
    BY DEF Init
  <2> QED
    BY <2>1 DEF Init, Log!Init, LogOf, Entries
<1>2. RInv /\ [Next]_vars => [Log!Next]_(Log!vars)
  <2> SUFFICES ASSUME RInv, [Next]_vars
               PROVE  Log!Next \/ UNCHANGED <<LogOf(db), answers>>
    BY DEF Log!vars
  <2>1. CASE db' = db /\ answers' = answers
    BY <2>1 DEF LogOf
  <2>2. ASSUME NEW c \in Conversations, CreateConversation(c)
        PROVE  Log!Next
    BY <2>2, CreateRefines DEF Log!Next
  <2>3. ASSUME NEW w \in Workers, Commit(w)
        PROVE  Log!Next
    <3>1. call[w] \in Call
      BY <2>3, CommitIsAppend DEF RInv, AInv
    <3>2. call[w].conv \in Conversations /\ call[w].entry \in Log!Entry
      BY <3>1 DEF Call, Entry, Log!Entry
    <3> QED
      BY <2>3, <3>2, CommitRefines DEF Log!Next
  <2>4. ASSUME NEW w \in Workers, Return(w)
        PROVE  Log!Next \/ UNCHANGED <<LogOf(db), answers>>
    <3>1. call[w].conv \in Conversations
      BY <2>4 DEF RInv, AInv, IInv, TypeOK, Return, Call
    <3> QED
      BY <2>4, <3>1, ReturnRefines DEF Log!Next
  <2> QED
    BY <2>1, <2>2, <2>3, <2>4, HiddenSteps
<1>3. Init => RInv
  BY InitIInv
     DEF RInv, AInv, Init, AnswersHold, ResultsHold, ConflictsCarryNothing, Error
<1>4. RInv /\ [Next]_vars => RInv'
  BY AnswersStep, IInvStep, ConflictsStep DEF RInv, AInv, IInv
<1> QED
  BY <1>1, <1>2, <1>3, <1>4, PTL DEF Spec, ImplementsLog, Log!Spec
==============================================================================
