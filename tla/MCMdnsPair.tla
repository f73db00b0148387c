------------------------------ MODULE MCMdnsPair ------------------------------
(***************************************************************************)
(* Model-checking instance of MdnsPair: two slots and five packets, so that*)
(* a slot can be written three times while its first pointer waits.        *)
(***************************************************************************)
EXTENDS MdnsPair

MCNSlots == 2
MCMaxPackets == 5
=============================================================================
