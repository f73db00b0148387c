----------------------------- MODULE MCNcursesUI -----------------------------
(***************************************************************************)
(* Model-checking instance of NcursesUI: two plugins and one interface, two*)
(* messages from other threads, and enough keys to go through three windows*)
(* (menu, plugin list, dialog) and leave the last one.                     *)
(***************************************************************************)
EXTENDS NcursesUI

MCNPlugins == 2
MCNInterfaces == 1
MCMaxWrites == 2
MCMaxKeys == 4
=============================================================================
