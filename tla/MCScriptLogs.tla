---------------------------- MODULE MCScriptLogs ----------------------------
(* Model-checking definitions for ScriptLogs. *)
EXTENDS ScriptLogs
=============================================================================
