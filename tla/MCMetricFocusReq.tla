-------------------------- MODULE MCMetricFocusReq --------------------------
(* Instances of MetricFocusReq for TLC. *)
EXTENDS MetricFocusReq, TLC

CONSTANTS d1, d2, m1, m2, c1, c2

MCDaemon == {d1, d2}
MCMI == {m1, m2}
MCInitialDaemons == {d1}
\* m1 is a whole program focus; m2 is refined to the machine of d1
MCFocus == (m1 :> {d1, d2} @@ m2 :> {d1})
MCOneFocus == (m1 :> {d1, d2})
=============================================================================
