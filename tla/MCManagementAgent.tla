-------------------------- MODULE MCManagementAgent --------------------------
(* Small instances of ManagementAgent: its two topics, one session.          *)
EXTENDS ManagementAgent

CONSTANTS req, resp
=============================================================================
