------------------------------ MODULE MCSsdpPair ------------------------------
(***************************************************************************)
(* Model-checking instance of SsdpPair: three packets, so that a location  *)
(* can wait in the queue while another is retrieved and a third packet is  *)
(* dissected; none, one or two nodes in a description.                     *)
(***************************************************************************)
EXTENDS SsdpPair

MCMaxPackets == 3
MCMaxNodes == 2
=============================================================================
