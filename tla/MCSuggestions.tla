---------------------------- MODULE MCSuggestions ----------------------------
(* ProactiveSuggestions alone, around midnight: cards are proposed and      *)
(* counted, with settings nobody touches, cards nobody answers and no study *)
(* packs, so that the requests for cards race as long as the bounds allow.  *)
EXTENDS ProactiveSuggestions, TLC

MCSymmetry == Permutations(Askers) \cup Permutations(Views)

NightNext ==
    /\ SuggestionNext /\ UNCHANGED <<settings, paused, disabling>>
    /\ \A a \in Askers : asker'[a] = Waiting \/ asker'[a].digest # {}
    /\ \A k \in CardKeys : card'[k].status \in {"none", "available"}

NightSpec == SuggestionInit /\ [][NightNext]_suggestionVars
==============================================================================
