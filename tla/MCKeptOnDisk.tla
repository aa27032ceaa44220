---------------------------- MODULE MCKeptOnDisk -----------------------------
(* What is kept on a disk across restarts, one of three in each behaviour:  *)
(* the device's cursor (FileCursorStore), its credential (DeviceCredential) *)
(* and the Hub's TLS identity (TlsIdentity).                                *)
EXTENDS FileCursorStore, DeviceCredential, TlsIdentity, TLC

CONSTANTS sync, none

VARIABLE focus

MCSymmetry == Permutations(Attempts) \cup Permutations(Addresses) \cup Permutations(Runs)

(* Bounds: two runs of the identity's bootstrap overlap, and one thing goes *)
(* wrong, an operation, a file or a process; the third run comes afterwards *)
(* or in place of one that has died.                                        *)
TwoAtOnce == Cardinality({r \in Runs : InProgress(r)}) <= 2 /\ faults + deaths <= 1

keptVars == <<focus, vars, credVars, tlsVars>>

KeptInit == /\ focus \in {"cursor", "credential", "identity"}
            /\ Init /\ CredInit /\ TlsInit

KeptNext ==
    /\ UNCHANGED focus
    /\ \/ focus = "cursor" /\ Next /\ UNCHANGED <<credVars, tlsVars>>
       \/ focus = "credential" /\ CredNext /\ UNCHANGED <<vars, tlsVars>>
       \/ focus = "identity" /\ TlsNext /\ UNCHANGED <<vars, credVars>>

KeptSpec == KeptInit /\ [][KeptNext]_keptVars
==============================================================================
