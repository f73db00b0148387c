----------------------------- MODULE MCStringBag -----------------------------
(***************************************************************************)
(* Model-checking instance of StringBag: every text of up to seven         *)
(* characters, enough for two lines before the empty line or for one line  *)
(* of several words; a small line buffer.                                  *)
(***************************************************************************)
EXTENDS StringBag

MCMaxText == 7
MCLineBuffer == 8
=============================================================================
