-------------------------- MODULE MCSessionController --------------------------
(* One device under observation, other writers unconstrained (CommitEvent); *)
(* two events in all, so that what the device sends is the first or the     *)
(* second.  In a behaviour it sends two messages, or one message and an     *)
(* action (`sends`); the request of an action it gives up on has reached    *)
(* the Hub by then.                                                         *)
EXTENDS SessionController

VARIABLE sends

mcVars == <<allVars, sends>>

Sent(d) == {pending[d], op[d].msg, IF action[d] = "idle" THEN NoMessage ELSE Result}

MCInit ==
    /\ ControllerInit
    /\ sends \in {Messages, {CHOOSE m \in Messages : TRUE, Result}}

MCNext == /\ ControllerNext
          /\ UNCHANGED sends
          /\ \A d \in Devices : Sent(d)' \subseteq sends \cup {NoMessage}
          /\ Result \notin orphans'

MCSpec == MCInit /\ [][MCNext]_mcVars /\ ControllerFairness
===============================================================================
