---------------------------- MODULE ProductActions ----------------------------
(****************************************************************************)
(* The cards under the Hub's messages: the answer to a message of the user  *)
(* offers product actions (ActionProjectionService), and an action that is  *)
(* pressed changes the archive memory or the files and is answered by a     *)
(* result of its own (execute_product_action).  Every transaction is a step;*)
(* a request may fail or the process die between any two, and the user      *)
(* presses again.                                                           *)
(****************************************************************************)
EXTENDS ArchiveMemory

CONSTANTS Callers,       \* requests served at the same time
          NoMessage,
          Followed,      \* sets of kinds of cards: a behaviour follows those of one set
          MaxActions,    \* bound: rows of product_action
          MaxVersion,    \* bound: version of the memory
          MaxInventory,  \* bound: states the user brings the folder to
          MaxJournal     \* bound: journal ids drawn

ASSUME ActionAssumption ==
    /\ NoMessage \notin Messages
    /\ {MaxActions, MaxVersion, MaxInventory, MaxJournal} \subseteq Nat \ {0}

VARIABLES
    followed,    \* the kinds of cards this behaviour keeps; the others are not pressed
    answered,    \* messages whose derived result is durable
    draft,       \* the receipt the gateway is to answer a message with
    action,      \* the rows of product_action, each with its result message
    request,     \* where each request is
    inventory,   \* evidence digest of the authorized folder, 0 once organized
    journal,     \* organizer journal: its id and the evidence it was made from
    lastJournal  \* last journal id drawn

folder == <<inventory, journal, lastJournal>>
gateway == <<followed, answered, draft>>
actionVars == <<memoryVars, folder, gateway, action, request>>

Idle == [at |-> "idle"]
NoDraft == [message |-> NoMessage]
NoJournal == [id |-> 0, evidence |-> 0]
NoResult == [op |-> "none"]

ActionInit == /\ MemoryInit
              /\ followed \in Followed /\ answered = {} /\ draft = NoDraft
              /\ action = {}
              /\ request = [c \in Callers |-> Idle]
              /\ inventory = 1 /\ journal = NoJournal /\ lastJournal = 0

Goto(c, next) == request' = [request EXCEPT ![c] = next]

(* What a receipt says is what its operation, the support of the memory and  *)
(* whether it is a candidate say (conversation_text).                        *)
MemoryReceipt(op, ref) ==
    [op |-> op, ref |-> ref, evidence |-> 0,
     support |-> IF op \in {"accept", "approve"} THEN Cardinality(evidence') ELSE 0,
     status |-> IF op = "accept" THEN memory'.status = "candidate" ELSE FALSE]

FileReceipt(op, ref, of) ==
    [op |-> op, ref |-> ref, evidence |-> of, support |-> 0, status |-> FALSE]

Text(receipt) == [op |-> receipt.op, support |-> receipt.support, status |-> receipt.status]

(* _receipt_specs: the cards a receipt offers.                               *)
Card(kind, receipt) == [kind |-> kind, ref |-> receipt.ref, evidence |-> receipt.evidence]

Specs(r) ==
    CASE r.op = "suggest" -> {Card("accept", r), Card("reject", r), Card("organize", r)}
      [] r.op = "recall"  -> {Card("organize", r)}
      [] r.op = "accept" /\ r.status -> {Card("approve", r)}
      [] r.op = "approve" -> {Card("forget", r)}
      [] r.op = "forget"  -> {Card("approve", r)}
      [] r.op = "organize" -> {Card("undo", r)}
      [] OTHER -> {}

(* _insert_specs: a kind that the message offers already is left as it is.   *)
Rows(message, kind) == {a \in action : a.message = message /\ a.kind = kind}

Insert(message, specs) ==
    /\ action' = action \cup {[message |-> message, kind |-> s.kind, ref |-> s.ref,
                               evidence |-> s.evidence, completed |-> FALSE,
                               result |-> NoResult]
                              : s \in {t \in specs : t.kind \in followed /\ Rows(message, t.kind) = {}}}
    /\ Cardinality(action') <= MaxActions

(* The messages of the Hub: the answer to a message of the user, the result  *)
(* of an action.                                                             *)
ReplyTo(m) == <<"reply", m>>
ResultOf(key) == <<"result", key>>
Key(a) == <<a.message, a.kind>>

------------------------------------------------------------------------------
(* The user's files.                                                         *)

EditFolder == /\ "organize" \in followed
              /\ inventory < MaxInventory /\ inventory # 0 /\ journal = NoJournal
              /\ inventory' = inventory + 1
              /\ UNCHANGED <<journal, lastJournal, memoryVars, gateway, action, request>>

(* PcFileScopeService.organize: a completed journal of the same evidence     *)
(* answers again; a journal of another one, a stale preview or a file in the *)
(* way refuses.                                                              *)
Organized(e) == journal # NoJournal /\ journal.evidence = e

CanOrganize(e) == Organized(e) \/ (journal = NoJournal /\ inventory = e)

Organize(e) ==
    IF Organized(e) THEN UNCHANGED folder
    ELSE /\ lastJournal < MaxJournal
         /\ inventory' = 0 /\ lastJournal' = lastJournal + 1
         /\ journal' = [id |-> lastJournal + 1, evidence |-> e]

CanUndo(j) == journal.id = j /\ j # 0

Undo == /\ inventory' = journal.evidence /\ journal' = NoJournal
        /\ UNCHANGED lastJournal

(* The operator's panel undoes too.                                          *)
UndoAtPc == /\ CanUndo(journal.id) /\ Undo
            /\ UNCHANGED <<memoryVars, gateway, action, request>>

------------------------------------------------------------------------------
(* The gateway answers a message of the user (ConversationGateway says when).*)

Draft(m, r) == draft' = [message |-> m, receipt |-> r]

(* What the message, or the plan made of it, asks the archive memory for; the*)
(* words that name a suggestion or the memory allow no learning anew.        *)
Command(m) ==
    \/ /\ memory.status # "active" /\ Suggest(m)
       /\ Draft(m, FileReceipt("suggest", m, inventory))
    \/ /\ memory.status = "active" /\ UNCHANGED memoryVars
       /\ Draft(m, FileReceipt("recall", NoMessage, inventory))
    \/ Approve /\ Draft(m, MemoryReceipt("approve", NoMessage))
    \/ Forget /\ Draft(m, MemoryReceipt("forget", NoMessage))
    \/ \E s \in Messages : Accept(s, FALSE) /\ Draft(m, MemoryReceipt("accept", s))
    \/ \E s \in Messages : Reject(s) /\ Draft(m, MemoryReceipt("reject", s))

(* One message is worked on at a time (unified_gateway_lock).                *)
RunCommand(m) ==
    /\ draft = NoDraft /\ m \notin answered /\ memory.version < MaxVersion
    /\ Command(m)
    /\ UNCHANGED <<folder, followed, answered, action, request>>

(* The answer and its cards are one transaction (register_projection).       *)
AppendAnswer ==
    /\ draft # NoDraft /\ draft' = NoDraft
    /\ Insert(ReplyTo(draft.message), Specs(draft.receipt))
    /\ answered' = answered \cup {draft.message}
    /\ UNCHANGED <<memoryVars, folder, followed, request>>

(* It fails, and an answer without cards is tried (_archive_error_text,      *)
(* safely_process_derived_result).                                           *)
AnswerFails ==
    /\ draft # NoDraft /\ draft' = NoDraft
    /\ answered' \in {answered, answered \cup {draft.message}}
    /\ UNCHANGED <<memoryVars, folder, followed, action, request>>

------------------------------------------------------------------------------
(* A card is pressed.                                                        *)

(* memory_center: the memory offers a card of its own, under a message named *)
(* by its version.                                                           *)
MemoryView ==
    LET kind == IF memory.status = "active" THEN "forget" ELSE "approve"
    IN {[kind |-> kind, ref |-> NoMessage, evidence |-> 0]}

MemoryCenter ==
    /\ memory.status \in {"candidate", "active", "forgotten"}
    /\ Insert(<<"center", memory.version>>, MemoryView)
    /\ UNCHANGED <<memoryVars, folder, gateway, request>>

(* A completed action is answered from its result, any other one is run.     *)
Press(c) ==
    /\ request[c] = Idle
    /\ \E a \in action : ~a.completed /\ Goto(c, [at |-> "execute", action |-> Key(a)])
    /\ UNCHANGED <<memoryVars, folder, gateway, action>>

Row(c) == CHOOSE a \in action : Key(a) = request[c].action
Update(c, a) == action' = (action \ {Row(c)}) \cup {a}

Executed(c, receipt) == Goto(c, [at |-> "append", action |-> request[c].action,
                                 receipt |-> receipt])

(* execute_action on the row; where the operation refuses the request ends.  *)
ExecuteMemory(c) ==
    /\ request[c].at = "execute" /\ memory.version < MaxVersion
    /\ LET a == Row(c)
       IN \/ /\ a.kind = "accept"
             /\ IF CanAccept(a.ref, TRUE)
                THEN Accept(a.ref, TRUE) /\ Executed(c, MemoryReceipt("accept", a.ref))
                ELSE Goto(c, Idle) /\ UNCHANGED memoryVars
          \/ /\ a.kind = "reject"
             /\ IF CanReject(a.ref)
                THEN Reject(a.ref) /\ Executed(c, MemoryReceipt("reject", a.ref))
                ELSE Goto(c, Idle) /\ UNCHANGED memoryVars
          \/ /\ a.kind = "approve"
             /\ IF CanApprove
                THEN Approve /\ Executed(c, MemoryReceipt("approve", NoMessage))
                ELSE Goto(c, Idle) /\ UNCHANGED memoryVars
          \/ /\ a.kind = "forget"
             /\ Forget /\ Executed(c, MemoryReceipt("forget", NoMessage))
    /\ UNCHANGED <<folder, gateway, action>>

ExecuteFiles(c) ==
    /\ request[c].at = "execute"
    /\ LET a == Row(c)
       IN \/ /\ a.kind = "organize"
             /\ IF CanOrganize(a.evidence)
                THEN /\ Organize(a.evidence)
                     /\ Executed(c, FileReceipt("organize", journal'.id, a.evidence))
                ELSE Goto(c, Idle) /\ UNCHANGED folder
          \/ /\ a.kind = "undo"
             /\ IF CanUndo(a.ref)
                THEN Undo /\ Executed(c, FileReceipt("undo", a.ref, 0))
                ELSE Goto(c, Idle) /\ UNCHANGED folder
    /\ UNCHANGED <<memoryVars, gateway, action>>

(* Slip: the action is completed before its result is written.               *)
CompleteBeforeResult(c) ==
    /\ request[c].at = "append"
    /\ Update(c, [Row(c) EXCEPT !.completed = TRUE])
    /\ Goto(c, [request[c] EXCEPT !.at = "complete"])
    /\ UNCHANGED <<memoryVars, folder, gateway>>

(* The result is one message per action: the same text again is the message  *)
(* there is, another text conflicts with it.                                 *)
AppendResult(c) ==
    /\ request[c].at = "append"
    /\ LET text == Text(request[c].receipt)
       IN IF Row(c).result \notin {NoResult, text}
          THEN Goto(c, Idle) /\ UNCHANGED action
          ELSE /\ Update(c, [Row(c) EXCEPT !.result = text])
               /\ Goto(c, [request[c] EXCEPT !.at = "complete"])
    /\ UNCHANGED <<memoryVars, folder, gateway>>

MarkCompleted(c) ==
    /\ request[c].at = "complete"
    /\ Update(c, [Row(c) EXCEPT !.completed = TRUE])
    /\ Goto(c, [request[c] EXCEPT !.at = "register"])
    /\ UNCHANGED <<memoryVars, folder, gateway>>

RegisterReceipt(c) ==
    /\ request[c].at = "register"
    /\ Insert(ResultOf(request[c].action), Specs(request[c].receipt))
    /\ Goto(c, Idle)
    /\ UNCHANGED <<memoryVars, folder, gateway>>

(* A request ends early: an operation raises or the connection is gone.      *)
RequestFails(c) ==
    /\ request[c].at \in {"execute", "append", "complete", "register"}
    /\ Goto(c, Idle)
    /\ UNCHANGED <<memoryVars, folder, gateway, action>>

(* The Hub dies and starts again from its database.                          *)
ActionRestart ==
    /\ draft' = NoDraft /\ request' = [c \in Callers |-> Idle]
    /\ UNCHANGED <<memoryVars, folder, followed, answered, action>>

ActionNext ==
    \/ EditFolder \/ UndoAtPc \/ MemoryCenter \/ ActionRestart
    \/ AppendAnswer \/ AnswerFails \/ \E m \in Messages : RunCommand(m)
    \/ \E c \in Callers :
         \/ Press(c) \/ ExecuteMemory(c) \/ ExecuteFiles(c) \/ AppendResult(c)
         \/ MarkCompleted(c) \/ RegisterReceipt(c) \/ RequestFails(c)

ActionSpec == ActionInit /\ [][ActionNext]_actionVars

------------------------------------------------------------------------------
(* Properties. *)

(* mark_completed comes only after the result is durable: whatever dies or is*)
(* pressed twice, a completed action can be answered again from its result,  *)
(* and a card was inserted only under a message that exists.                 *)
CompletedHasResult ==
    \A a \in action :
        /\ a.completed => a.result # NoResult
        /\ a.message[1] = "reply" => a.message[2] \in answered
        /\ a.message[1] = "result"
             => \E b \in action : ResultOf(Key(b)) = a.message /\ b.result # NoResult

(* The receipt of an organization tells the user to use the undo button under*)
(* it (PcFileOrganizationReceipt.conversation_text).                         *)
UndoIsOffered ==
    \A a \in action :
        a.kind = "organize" /\ a.completed /\ "undo" \in followed
        => \/ Rows(ResultOf(Key(a)), "undo") # {}
           \/ \E c \in Callers : request[c].at = "register" /\ request[c].action = Key(a)

(* An action whose result is durable converges: pressed again, it never      *)
(* conflicts with the result it has (mark_completed's comment).              *)
RetryConverges ==
    \A c \in Callers : request[c].at = "append"
        => Row(c).result \in {NoResult, Text(request[c].receipt)}
===============================================================================
