------------------------- MODULE MCRestartInflight -------------------------
(* Values of the constants of RestartInflight for model checking.          *)
EXTENDS RestartInflight

BothBuilds  == {TRUE, FALSE}
WithoutRget == {FALSE}
=============================================================================
