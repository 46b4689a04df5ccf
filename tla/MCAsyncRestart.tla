--------------------------- MODULE MCAsyncRestart ---------------------------
(* Values of the constants of AsyncRestart for model checking.             *)
EXTENDS AsyncRestart, TLC

(* Processor splitting: four work PEs, the nests 2 and 3 of the base       *)
(* domain on two PEs each, nest 4 inside nest 3.  Nest 3 starts at the end *)
(* of step 1, nest 4 at the end of step 2; nest 2 stops before step 2.     *)
SplitParent    == (2 :> 1) @@ (3 :> 1) @@ (4 :> 3)
SplitOwned     == <<{0, 1, 2, 3}, {0, 1}, {2, 3}, {2, 3}>>
SplitProc0     == <<0, 0, 2, 2>>
SplitStart     == <<0, 0, 1, 2>>
SplitEnd       == <<9, 2, 9, 9>>
SplitCkptSteps == {1, 2}
=============================================================================
