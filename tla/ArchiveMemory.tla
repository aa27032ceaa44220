---------------------------- MODULE ArchiveMemory ----------------------------
(****************************************************************************)
(* The store of archive suggestions and of the one learnt preference        *)
(* (ArchiveMemoryService).  Every operation is one transaction.  A          *)
(* suggestion is named by the message that asked for it; it is pending until*)
(* it is accepted or rejected, and the suggestions accepted are the evidence*)
(* of the preference.                                                       *)
(****************************************************************************)
EXTENDS Naturals, FiniteSets

CONSTANTS Messages,    \* messages of the user that may ask for a suggestion
          Threshold    \* MEMORY_ACTIVATION_THRESHOLD

ASSUME MemoryAssumption == IsFiniteSet(Messages) /\ Threshold \in Nat \ {0}

VARIABLES
    suggestion,   \* status of each message's suggestion, "none" without one
    memory,       \* status and version of the preference, "none" without one
    evidence,     \* archive_memory_evidence
    fresh         \* suggestions created since the preference was forgotten

memoryVars == <<suggestion, memory, evidence, fresh>>

MemoryInit == /\ suggestion = [m \in Messages |-> "none"]
              /\ memory = [status |-> "none", version |-> 0]
              /\ evidence = {} /\ fresh = {}

(* _suggest: one suggestion per source message.                              *)
Suggest(m) ==
    /\ suggestion' = IF suggestion[m] = "none" THEN [suggestion EXCEPT ![m] = "pending"]
                     ELSE suggestion
    /\ fresh' = IF suggestion[m] = "none" /\ memory.status = "forgotten"
                THEN fresh \cup {m} ELSE fresh
    /\ UNCHANGED <<memory, evidence>>

(* A forgotten preference is learnt anew from nothing, and only by an        *)
(* explicit choice on a suggestion made after it was forgotten.              *)
CanAccept(m, relearn) ==
    /\ suggestion[m] \in {"pending", "accepted"}
    /\ memory.status = "forgotten" => relearn /\ suggestion[m] = "pending" /\ m \in fresh

Gathered(m) == (IF memory.status = "forgotten" THEN {} ELSE evidence) \cup {m}

Learnt(m) ==
    [status |-> IF memory.status = "active" THEN "active"
                ELSE IF Cardinality(Gathered(m)) >= Threshold THEN "candidate"
                ELSE "learning",
     version |-> IF memory.status \in {"none", "forgotten"} THEN memory.version + 1
                 ELSE memory.version]

Accept(m, relearn) ==
    /\ CanAccept(m, relearn)
    /\ memory' = Learnt(m) /\ evidence' = Gathered(m)
    /\ suggestion' = [suggestion EXCEPT ![m] = "accepted"]
    /\ fresh' = {}

CanReject(m) == suggestion[m] \in {"pending", "rejected"}

Reject(m) ==
    /\ CanReject(m)
    /\ suggestion' = [suggestion EXCEPT ![m] = "rejected"]
    /\ UNCHANGED <<memory, evidence, fresh>>

Transition(status) ==
    /\ memory' = [status |-> status,
                  version |-> memory.version + (IF memory.status = status THEN 0 ELSE 1)]
    /\ fresh' = {}
    /\ UNCHANGED <<suggestion, evidence>>

(* Slip: the evidence is not counted again. *)
CanApproveAny == memory.status # "none"

CanApprove == memory.status # "none" /\ Cardinality(evidence) >= Threshold

Approve == CanApprove /\ Transition("active")

CanForget == memory.status # "none"

Forget == CanForget /\ Transition("forgotten")

------------------------------------------------------------------------------

MemoryTypeOK ==
    /\ suggestion \in [Messages -> {"none", "pending", "accepted", "rejected"}]
    /\ memory \in [status : {"none", "learning", "candidate", "active", "forgotten"},
                   version : Nat]
    /\ evidence \subseteq Messages /\ fresh \subseteq Messages

(* A preference is proposed or used only on enough evidence, and a suggestion*)
(* the user rejected is never evidence, whatever cards, old or new, are      *)
(* pressed in whatever order on whatever device.                             *)
UsedOnEvidence ==
    /\ memory.status \in {"candidate", "active"} => Cardinality(evidence) >= Threshold
    /\ \A m \in evidence : suggestion[m] = "accepted"
==============================================================================
