---------------------------- MODULE MCServerStore ----------------------------
(* Two servers, both kinds of credential and two secrets.                    *)
EXTENDS ServerStore, TLC

MCSymmetry == Permutations(Servers) \union Permutations(Inputs)
                  \union Permutations(Secrets) \union Permutations(Kinds)
=============================================================================
