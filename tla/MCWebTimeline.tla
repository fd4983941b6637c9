----------------------------- MODULE MCWebTimeline -----------------------------
(* Small instances of WebTimeline.                                         *)
EXTENDS WebTimeline

Load(created, changed, opened, failed) ==
    [created |-> created, changes |-> changed, opens |-> opened, faults |-> failed]

(* One message, changed while the connection is down.                      *)
DropLoads == {Load(0, 1, 1, 1)}
================================================================================
