-------------------------- MODULE MCNotifications ---------------------------
(* Notifications for TLC: what clients send.                                *)
EXTENDS Notifications

Sent == {[transient |-> FALSE, timed |-> TRUE, resident |-> FALSE],
         [transient |-> TRUE, timed |-> FALSE, resident |-> TRUE]}
=============================================================================
