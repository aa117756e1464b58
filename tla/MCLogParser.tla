---------------------------- MODULE MCLogParser -----------------------------
(* A small instance of LogParser: every constant is a number, or given in  *)
(* the configuration.                                                      *)
EXTENDS LogParser
=============================================================================
