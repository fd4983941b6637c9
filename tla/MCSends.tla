------------------------------- MODULE MCSends -------------------------------
(* Small instances of Sends.                                               *)
EXTENDS Sends

CONSTANTS m1, m2
===============================================================================
