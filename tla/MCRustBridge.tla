---------------------------- MODULE MCRustBridge -----------------------------
(* Two applications; the user has moved x to the local port of y. *)
EXTENDS RustBridge, TLC

CONSTANTS x, y, px, py

MCApps == {x, y}
MCPorts == {px, py}
MCPortsOf == (x :> {px, py}) @@ (y :> {py})
MCX == {x}

MCSymmetry == Permutations(Reqs) \union Permutations(Tunnels)
=============================================================================
