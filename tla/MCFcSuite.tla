----------------------------- MODULE MCFcSuite -----------------------------
EXTENDS FcSuite

(* As icon_multi.py: parallel forecasts from ICON data, months that are    *)
(* left out (the third date), plots on chosen dates.                       *)
IconMulti == [npar |-> 2, nprep |-> 1, nmet |-> 1, first |-> 1, last |-> 3,
              months |-> {1}, ifs |-> {}, eom |-> {2, 3}]

(* As icon_fc.py: one forecast at a time, from IFS data, every date tried  *)
(* for plots; two tasks prepare the means.                                 *)
IconFc    == [npar |-> 1, nprep |-> 2, nmet |-> 1, first |-> 1, last |-> 2,
              months |-> {1}, ifs |-> {1}, eom |-> 1 .. 2]

(* As many forecasts as dates, the second month from IFS data.             *)
AllAtOnce == [npar |-> 3, nprep |-> 1, nmet |-> 1, first |-> 1, last |-> 3,
              months |-> {1, 2}, ifs |-> {2}, eom |-> {2}]

AllSuites == {IconMulti, IconFc, AllAtOnce}
=============================================================================
