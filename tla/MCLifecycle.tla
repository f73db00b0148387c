----------------------------- MODULE MCLifecycle -----------------------------
(***************************************************************************)
(* Model-checking instance of Lifecycle: two plugin files, so that one can *)
(* fail while the other runs, and up to two commands.                      *)
(***************************************************************************)
EXTENDS Lifecycle

MCNFiles == 2
MCMaxSent == 2
=============================================================================
