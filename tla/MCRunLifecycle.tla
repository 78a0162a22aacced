--------------------------- MODULE MCRunLifecycle ---------------------------
(* Two runs on one thread: the smallest instance in which a run is created *)
(* while another is being started, cancelled or rolled back.               *)
EXTENDS RunLifecycle

CONSTANTS r1, r2, t1

MCThread == {t1}
MCRun == {r1, r2}
MCThreadOf == [r \in MCRun |-> t1]
MCStrategies == Strategy

=============================================================================
