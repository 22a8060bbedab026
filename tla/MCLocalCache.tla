---------------------------- MODULE MCLocalCache ----------------------------
(* LocalCache for TLC: three keys, two of them with a common prefix.       *)
EXTENDS LocalCache, TLC

CONSTANTS k1, k2, k3

MCKeys == {k1, k2, k3}
MCPrefixes == {{k1, k2}}
KeySymmetry == Permutations({k1, k2})
=============================================================================
