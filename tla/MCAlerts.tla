------------------------------ MODULE MCAlerts ------------------------------
(***************************************************************************)
(* A small instance of Alerts: one trigger, two processes.  One socket is  *)
(* enough, at either process: sockets do not act on each other.            *)
(***************************************************************************)
EXTENDS Alerts, TLC

CONSTANTS t1, p1, p2

MCHome == t1 :> p1
=============================================================================
