----------------------------- MODULE MCMaterials -----------------------------
(* The way of the user's materials through the Hub, one component in each   *)
(* behaviour: the phone's catalog snapshots and the PC's own (CatalogSync), *)
(* texts recognized on the phone (AndroidOcr), study packs made of excerpts *)
(* (MaterialInsight) and their export as files (ArtifactExport).  They share*)
(* no state, so one of them steps (`focus`) and the others stand still; an  *)
(* export sees either other packs or another authorization of the folder.   *)
EXTENDS CatalogSync, AndroidOcr, MaterialInsight, ArtifactExport, TLC

CONSTANTS i1, i2

VARIABLE focus

(* Two items, of which one is edited and the other one added. *)
MCSnapshots == {i1 :> 1 @@ i2 :> 0, i1 :> 2 @@ i2 :> 1}

MCSymmetry == Permutations(Refreshers) \cup Permutations(Keys) \cup Permutations(Packs)

materialVars == <<focus, catalogVars, ocrVars, insightVars, exportVars>>

MaterialsInit ==
    /\ focus \in {"phone", "pc", "ocr", "insight", "export", "scope"}
    /\ CatalogInit /\ OcrInit /\ InsightInit /\ ExportInit
    /\ directory[i1] = 1 /\ pcFolder[i1] = 1 /\ pcRoot = NoRoot
    /\ focus # "insight" => \A a \in Assets : folder[a] = 0

MaterialsNext ==
    /\ UNCHANGED focus
    /\ \/ /\ focus = "phone" /\ PhoneNext
          /\ UNCHANGED <<ocrVars, insightVars, exportVars>>
       \/ /\ focus = "pc" /\ PcNext
          /\ UNCHANGED <<ocrVars, insightVars, exportVars>>
       \/ /\ focus = "ocr" /\ OcrNext
          /\ UNCHANGED <<catalogVars, insightVars, exportVars>>
       \/ /\ focus = "insight" /\ InsightNext
          /\ UNCHANGED <<catalogVars, ocrVars, exportVars>>
       \/ /\ focus = "export" /\ ExportNext /\ rootsDrawn' = 1
          /\ UNCHANGED <<catalogVars, ocrVars, insightVars>>
       \/ /\ focus = "scope" /\ ExportNext /\ UNCHANGED built
          /\ UNCHANGED <<catalogVars, ocrVars, insightVars>>

MaterialsSpec == MaterialsInit /\ [][MaterialsNext]_materialVars
==============================================================================
