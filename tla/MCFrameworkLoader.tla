--------------------------- MODULE MCFrameworkLoader ---------------------------
(***************************************************************************)
(* Model-checking instance of FrameworkLoader: two plugins, so that one    *)
(* pair is at work while the other is set up or fails, and the packets of  *)
(* either; the two frameworks of the repository, every framework that      *)
(* lacks one symbol of a complete one, and the stdio framework with a      *)
(* shutdown routine.                                                       *)
(***************************************************************************)
EXTENDS FrameworkLoader

ncurses == Symbol
stdio == {"init_framework", "fw_manifest", "_f_stdout", "_f_stderr"}

MCNPlugins == 2
MCMaxPackets == 2
MCFramework ==
  {ncurses, stdio, stdio \cup {"shutdown_framework"}} \cup {Symbol \ {x} : x \in Symbol}
=============================================================================
