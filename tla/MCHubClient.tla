----------------------------- MODULE MCHubClient -----------------------------
(* Small instances of HubClient for TLC. *)
EXTENDS HubClient

CONSTANTS c1, s1
==============================================================================
