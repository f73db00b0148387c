---------------------------- MODULE MCSsdpDissector ----------------------------
(***************************************************************************)
(* Model-checking instance of SsdpDissector: messages of two header lines  *)
(* over texts of up to three separators, with and without words between    *)
(* them, with a prefix, and the names the code compares with.              *)
(***************************************************************************)
EXTENDS SsdpDissector

MCWord == {"x", "upnp", "rootdevice", "urn", "schemas-upnp-org", "device", "service",
           "ssdp", "alive", "byebye"}
MCText ==
  {t \in BoundedSeq({":", "$"}, 3) : t # <<>>}
    \cup {<<"x">>, <<"x", ":", "x", ":", "x">>}
    \cup {DEVICE \o t : t \in {<<"x">>, <<"x", ":", "x">>, <<"x", ":", "$", "x">>}}
    \cup {SERVICE \o <<"x", ":", "x">>, ROOT, <<"x", ":">> \o ROOT, ALIVE, BYEBYE}
MCMaxLines == 2
=============================================================================
