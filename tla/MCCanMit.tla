------------------------------- MODULE MCCanMit -------------------------------
(* A bus with one DM arm servo and one DM effector servo or ENCOS servo.      *)
EXTENDS CanMit
===============================================================================
