---------------------------- MODULE MCSessionPool ----------------------------
(* Three callers on two servers, two of them competing for the same one. *)
EXTENDS SessionPool, TLC

CONSTANTS c1, c2, c3, va, vb, a1, a2, a3, b1, b2

MCCallers == {c1, c2, c3}
MCServers == {va, vb}
MCSessions == {a1, a2, a3, b1, b2}
MCServerOf == (c1 :> va) @@ (c2 :> va) @@ (c3 :> vb)
MCHostOf == (a1 :> va) @@ (a2 :> va) @@ (a3 :> va) @@ (b1 :> vb) @@ (b2 :> vb)

\* The callers of one server, and the sessions to one server, are
\* interchangeable: no property names one of them.
MCSymmetry ==
    Permutations({c1, c2}) \union Permutations({a1, a2, a3}) \union Permutations({b1, b2})
=============================================================================
