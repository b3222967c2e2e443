----------------------------- MODULE Neighbours ------------------------------
(***************************************************************************)
(* The frames that TLC offers a bridge.  The bridge has address 1; its     *)
(* neighbours are 0, which is better, and 2, which is worse.               *)
(***************************************************************************)
EXTENDS StpTypes

Id(address) == BridgeId(DefaultPriority, address)

NeighbourTimes ==
  [ForwardDelay |-> DefaultForwardDelay, HelloTime |-> DefaultHelloTime,
   MaxAge |-> DefaultMaxAge, MessageAge |-> 0, remainingHops |-> 0]

\* bridge from, in the given role, says that root is the root, at the given cost
RstFrame(from, role, root, cost, flags) ==
  [type |-> "RST", mstConfigId |-> 0, msti |-> << >>, times |-> NeighbourTimes,
   flags |-> [flags EXCEPT !.PortRole = role],
   priority |-> [ZeroPriority EXCEPT !.RootId = Id(root), !.ExternalRootPathCost = cost,
                                     !.RegionalRootId = Id(from),
                                     !.DesignatedPortId = PortId(DefaultPortPriority, 1)]]

ConfigFrame(from) ==
  [RstFrame(from, "DESIGNATED", from, 0, ZeroFlags) EXCEPT
     !.type = "CONFIG", !.flags = [ZeroFlags EXCEPT !.Tc = TRUE, !.TcAckOrMaster = TRUE]]

TcnFrame == [NoBpdu EXCEPT !.type = "TCN"]

Proposal  == [ZeroFlags EXCEPT !.Proposal = TRUE]
Agreement == [ZeroFlags EXCEPT !.Agreement = TRUE, !.Learning = TRUE, !.Forwarding = TRUE]
Active    == [ZeroFlags EXCEPT !.Learning = TRUE, !.Forwarding = TRUE, !.Tc = TRUE]

\* a better root, with and without a proposal; a worse one that agrees, or does not listen
RstpFrames == {RstFrame(0, "DESIGNATED", 0, 0, Proposal), RstFrame(0, "DESIGNATED", 0, 0, Active),
               RstFrame(2, "ROOT", 1, 1, Agreement), RstFrame(2, "DESIGNATED", 2, 0, Active)}

\* the frames of an STP neighbour
StpFrames == {RstFrame(0, "DESIGNATED", 0, 0, Proposal), ConfigFrame(0), ConfigFrame(2), TcnFrame}

=============================================================================
