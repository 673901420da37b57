---------------------------- MODULE MCBorderRouter ----------------------------
(* BorderRouter for TLC: one host in another network and one in the router's,  *)
(* one radio node, and two prefixes.                                          *)
EXTENDS BorderRouter

MCPrefixes == {<<1, 0>>, <<2, 0>>}
MCHostAddrs == {<<1, 7>>, <<3, 7>>}
MCNodeAddrs == {<<1, 8>>}
=============================================================================
