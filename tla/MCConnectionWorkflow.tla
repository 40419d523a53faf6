------------------------ MODULE MCConnectionWorkflow ------------------------
(* TLC instances of ConnectionWorkflow. *)
EXTENDS ConnectionWorkflow

OneHost == <<2>>
ThreeHosts == <<2, 1, 2>>
=============================================================================
