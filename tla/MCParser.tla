------------------------------ MODULE MCParser ------------------------------
(* Parser for TLC: its constants all have their values in the .cfg.        *)
EXTENDS Parser
=============================================================================
