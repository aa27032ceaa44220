--------------------------- MODULE IdentityRegister ---------------------------
(***************************************************************************)
(* What the bootstrap of the Hub's TLS identity promises to whoever calls  *)
(* it: a register that is written once.  Runs may propose at the same time *)
(* and any of them may die; one proposal is chosen, it is finished once,   *)
(* and only then is anybody told, everybody the same, and only the run     *)
(* whose proposal it was may hear that it created it.                      *)
(*                                                                         *)
(* TlsIdentity (files, markers and renames) implements this specification. *)
(***************************************************************************)
EXTENDS Naturals

CONSTANTS Runs,   \* calls of the bootstrap
          NoId    \* nothing is chosen, nobody was told

VARIABLES chosen,    \* whose identity it is
          finished,  \* it may be handed out
          told       \* the result of each run

registerVars == <<chosen, finished, told>>

NotTold == [id |-> NoId, created |-> FALSE]

RegisterInit == chosen = NoId /\ finished = FALSE /\ told = [r \in Runs |-> NotTold]

Choose(r) ==
    /\ chosen = NoId
    /\ chosen' = r
    /\ UNCHANGED <<finished, told>>

Finish ==
    /\ chosen # NoId /\ ~finished
    /\ finished' = TRUE
    /\ UNCHANGED <<chosen, told>>

Tell(r) ==
    /\ finished /\ told[r] = NotTold
    /\ \E created \in BOOLEAN :
         /\ created => chosen = r
         /\ told' = [told EXCEPT ![r] = [id |-> chosen, created |-> created]]
    /\ UNCHANGED <<chosen, finished>>

RegisterNext == Finish \/ \E r \in Runs : Choose(r) \/ Tell(r)

RegisterSpec == RegisterInit /\ [][RegisterNext]_registerVars
==============================================================================
