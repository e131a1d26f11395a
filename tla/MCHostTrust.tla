---------------------------- MODULE MCHostTrust ----------------------------
(* One server whose record moves between two hosts, two keys, two requests.  *)
EXTENDS HostTrust, TLC

MCSymmetry == Permutations(Hosts) \union Permutations(Keys) \union Permutations(Flows)
=============================================================================
