---------------------------- MODULE MCDiscovery ----------------------------
(***************************************************************************)
(* Instances of Discovery for TLC.                                         *)
(***************************************************************************)
EXTENDS Discovery

OneCable == {<<<<1, 1>>, <<2, 1>>>>}
Triangle == {<<<<1, 1>>, <<2, 1>>>>, <<<<2, 2>>, <<3, 1>>>>, <<<<1, 2>>, <<3, 2>>>>}

Small == {OneCable}
SmallAndRing == {OneCable, Triangle}

\* The state has its type, and the switch manager knows the ports of a switch
\* once its messages are through (Switch.cc:380).
SwitchesKnown == TypeOK /\ PortsKnown

============================================================================
