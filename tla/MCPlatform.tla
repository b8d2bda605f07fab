----------------------------- MODULE MCPlatform -----------------------------
(* Model checking of Platform. *)
EXTENDS Platform

CONSTANTS o1, notification, analytics

OneOrder == {o1}
BothConsumers == {notification, analytics}
=============================================================================
