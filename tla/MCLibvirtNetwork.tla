--------------------------- MODULE MCLibvirtNetwork ---------------------------
(* Three networks, no name of which is a part of another one, to check       *)
(* LibvirtNetwork with.                                                      *)
EXTENDS LibvirtNetwork

CONSTANTS n1, n2, n3

Exact == {<<n1, n1>>, <<n2, n2>>, <<n3, n3>>}
May == BOOLEAN
===============================================================================
