--------------------------- MODULE ConversationLog ---------------------------
(****************************************************************************)
(* What the Hub's durable conversation store promises to its callers: one   *)
(* append-only log per conversation, in which a client message identifier   *)
(* occurs at most once, and answers that are true of that log.              *)
(*                                                                          *)
(* EventStore.tla (the SQLite transactions of store.py) implements this     *)
(* specification; SessionDelivery.tla reads a log of this shape.            *)
(****************************************************************************)
EXTENDS Naturals, Sequences

CONSTANTS Conversations,   \* conversation_id values
          ClientIds,       \* client_message_id values
          Bodies,          \* actor, role and content of a message
          Causes,          \* causation_id and correlation_id
          Unknown          \* the log of a conversation that has no row

VARIABLES log,       \* the durable log of each conversation
          answers    \* the results that reached a caller

vars == <<log, answers>>

Entry == [cid : ClientIds, body : Bodies, cause : Causes]

Known(c) == log[c] # Unknown

HasClientId(c, id) == \E s \in DOMAIN log[c] : log[c][s].cid = id

Init == /\ log = [c \in Conversations |-> Unknown]
        /\ answers = {}

Create(c) == /\ ~Known(c)
             /\ log' = [log EXCEPT ![c] = <<>>]
             /\ UNCHANGED answers

Accept(c, e) == /\ Known(c)
                /\ ~HasClientId(c, e.cid)
                /\ log' = [log EXCEPT ![c] = Append(@, e)]
                /\ UNCHANGED answers

(* A caller learns that its message is in the log, and where. *)
ReplySeq(c, s, verdict) ==
    /\ answers' = answers \cup {[conv |-> c, entry |-> log[c][s],
                                 verdict |-> verdict, seq |-> s]}
    /\ UNCHANGED log

(* A caller learns that its identifier stands for other input. *)
ReplyConflict(c, e) ==
    /\ \E s \in DOMAIN log[c] : log[c][s].cid = e.cid /\ log[c][s] # e
    /\ answers' = answers \cup {[conv |-> c, entry |-> e,
                                 verdict |-> "conflict", seq |-> 0]}
    /\ UNCHANGED log

Reply(c) == /\ Known(c)
            /\ \/ \E s \in DOMAIN log[c], v \in {"accepted", "deduplicated"} :
                     ReplySeq(c, s, v)
               \/ \E e \in Entry : ReplyConflict(c, e)

Next == \E c \in Conversations :
            \/ Create(c)
            \/ \E e \in Entry : Accept(c, e)
            \/ Reply(c)

Spec == Init /\ [][Next]_vars
==============================================================================
