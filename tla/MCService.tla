------------------------------ MODULE MCService ------------------------------
(***************************************************************************)
(* Service for TLC, with and without STOP_CONSUMING_ON_UNHEALTHY.          *)
(***************************************************************************)
EXTENDS Service
=============================================================================
