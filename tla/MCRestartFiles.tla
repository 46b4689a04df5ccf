--------------------------- MODULE MCRestartFiles ---------------------------
EXTENDS RestartFiles, TLC

(* A nest, a nest inside it that starts a step later, ends with it.        *)
MCParent   == (2 :> 1) @@ (3 :> 2)
MCDomStart == <<0, 1, 2>>
MCDomEnd   == <<9, 4, 4>>
=============================================================================
