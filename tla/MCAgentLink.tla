----------------------------- MODULE MCAgentLink -----------------------------
(* One agent process and two identities it can have, one after the other.    *)
EXTENDS AgentLink, TLC

MCSymmetry ==
    Permutations(Agents) \union Permutations(Codes) \union Permutations(Socks)
        \union Permutations(Reqs)
=============================================================================
