---------------------------- MODULE MCPairingStore ----------------------------
(* Two sessions, one device, two capabilities and a clock long enough for    *)
(* both time limits to pass while an operation waits for the write lock.     *)
EXTENDS PairingStore, TLC

Symmetry == Permutations(Sessions) \cup Permutations(Clients) \cup Permutations(Capabilities)

(* Nothing reads why a session was aborted, so that what follows an abort is *)
(* explored for one reason only.                                             *)
OneReason == \A s \in Sessions :
                session[s].state \notin {"ABORTED_PROTOCOL", "ABORTED_MISMATCH",
                                        "ABORTED_TIMEOUT"}
==============================================================================
