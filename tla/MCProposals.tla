----------------------------- MODULE MCProposals -----------------------------
(* What the Hub proposes and what becomes of it: cards asked for with the   *)
(* agent's help (ProactiveSuggestions), and the actions under the answers   *)
(* to the user's messages, with the memory they feed (ProductActions over   *)
(* ArchiveMemory).  They share no state; `focus` steps in a behaviour.      *)
EXTENDS ProactiveSuggestions, ProductActions, TLC

VARIABLE focus

(* The kinds of cards that follow one another. *)
MCFollowed == {{"organize", "undo"}, {"accept"}, {"reject", "forget"}, {"approve"}}

MCSymmetry == Permutations(Askers) \cup Permutations(Views) \cup Permutations(Messages)

proposalVars == <<focus, suggestionVars, actionVars>>

ProposalsInit ==
    /\ focus \in {"suggestions", "actions"}
    /\ SuggestionInit /\ ActionInit
    /\ focus # "actions" => followed = {"accept"}

ProposalsNext ==
    /\ UNCHANGED focus
    /\ \/ focus = "suggestions" /\ SuggestionNext /\ UNCHANGED actionVars
       \/ focus = "actions" /\ ActionNext /\ UNCHANGED suggestionVars

ProposalsSpec == ProposalsInit /\ [][ProposalsNext]_proposalVars
==============================================================================
