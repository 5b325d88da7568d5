---------------------------- MODULE MCLiveHandle ----------------------------
(***************************************************************************)
(* Instances of LiveHandle for TLC: two tasks of the process that deployed *)
(* and one of another process that attaches.                               *)
(***************************************************************************)
EXTENDS LiveHandle

MCAccount == {"a1"}
TwoProcesses == {"p1", "p2"}
TwoTasks == {"t1", "t2"}
ThreeTasks == {"t1", "t2", "t3"}
Together == [t \in TwoTasks |-> "p1"]
Apart == [t \in TwoTasks |-> IF t = "t1" THEN "p1" ELSE "p2"]
Mixed == [t \in ThreeTasks |-> IF t = "t3" THEN "p2" ELSE "p1"]
=============================================================================
