--------------------------- MODULE MCLlmService ---------------------------
(* Small instances of LlmService for TLC.                                  *)
EXTENDS MCLlmScheduler, LlmService
============================================================================
