------------------------------ MODULE MCMaple ------------------------------
(***************************************************************************)
(* Instances of Maple for TLC: the configured pipeline with either         *)
(* learning switch, and a handful of packets.                              *)
(***************************************************************************)
EXTENDS Maple

Default == <<"link-discovery", "host-manager", "arp-handler", "learning-switch">>
Simple == <<"link-discovery", "host-manager", "arp-handler", "simple-learning-switch">>

BothPipelines == {Default, Simple}

Make(kind, src, dst, port) == kind @@ src @@ (EthDst :> dst) @@ (InPort :> port)

\* B to A with two ethernet types, whose flows overlap, A to all from another
\* port, and an ARP request of A.
SomePackets ==
    {Make(IP, Address(0, 1), 0, 0), Make(OtherType, Address(0, 1), 0, 0),
     Make(IP, Address(0, 0), 1, 1), Make(ARP @@ (ArpOp :> 1), Address(0, 0), 1, 1)}

\* The state has its type, and the rules of a flow that is Active are in the
\* table of the switch or under way to it (Controller.cc:317).
FlowsInstalled == TypeOK /\ ActiveFlowsInstalled

=============================================================================
