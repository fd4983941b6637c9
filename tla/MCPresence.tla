------------------------------ MODULE MCPresence ------------------------------
(* Small instances of Presence.                                            *)
EXTENDS Presence, TLC

CONSTANTS w1, w2, s1, s2, phone, laptop

OwnDevice == (s1 :> phone) @@ (s2 :> laptop)
===============================================================================
