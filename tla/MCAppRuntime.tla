---------------------------- MODULE MCAppRuntime -----------------------------
(* Two applications on one server; x may be started and stopped remotely. *)
EXTENDS AppRuntime, TLC

CONSTANTS x, y, srv, px, py

MCApps == {x, y}
MCServers == {srv}
MCPorts == {px, py}
MCServerOf == [a \in MCApps |-> srv]
MCHostOf == [s \in Sessions |-> srv]
MCPortOf == (x :> px) @@ (y :> py)
MCServerOf1 == x :> srv
MCPortOf1 == x :> px
MCRemote == {x}

MCSymmetry == Permutations(Sessions) \union Permutations(Loops)
=============================================================================
