------------------------------- MODULE MCMstp -------------------------------
(***************************************************************************)
(* A bridge that runs MSTP, with neighbours inside its region and outside. *)
(* Bridge 0 is better than this one (1) and bridge 2 is worse, in the CIST *)
(* and in the MSTI alike, unless the MSTI message says otherwise.          *)
(***************************************************************************)
EXTENDS MCBridge

RegionTimes == [NeighbourTimes EXCEPT !.remainingHops = MaxHops]

MstiPart(role, root, cost, priority, flags) ==
  [flags |-> [flags EXCEPT !.PortRole = role], RegionalRootId |-> Id(root),
   InternalRootPathCost |-> cost, BridgePriority |-> priority,
   PortPriority |-> DefaultPortPriority, RemainingHops |-> MaxHops]

\* bridge from, of region id, with one MSTI; root is both the CIST root and its regional root
MstFrame(id, from, role, root, cost, flags, msti) ==
  [type |-> "MST", mstConfigId |-> id, msti |-> << msti >>, times |-> RegionTimes,
   flags |-> [flags EXCEPT !.PortRole = role],
   priority |-> [RootId |-> Id(root), ExternalRootPathCost |-> 0, RegionalRootId |-> Id(root),
                 InternalRootPathCost |-> cost, DesignatedBridgeId |-> Id(from),
                 DesignatedPortId |-> PortId(DefaultPortPriority, 1)]]

\* bridge 0 proposes as the root of both trees, from this region and from another
ProposesBoth(id) == MstFrame(id, 0, "DESIGNATED", 0, 0, Proposal,
                             MstiPart("DESIGNATED", 0, 0, DefaultPriority, Proposal))

\* bridge 0 is the root of the CIST and agrees to this bridge as the root of the MSTI
ProposesOne == MstFrame(0, 0, "DESIGNATED", 0, 0, Proposal,
                        MstiPart("ROOT", 1, 1, DefaultPriority, Agreement))

\* bridge 2 agrees in both trees
AgreesBoth == MstFrame(0, 2, "ROOT", 1, 1, Agreement,
                       MstiPart("ROOT", 1, 1, DefaultPriority, Agreement))

MstpFrames == {ProposesBoth(0), ProposesBoth(1), ProposesOne, AgreesBoth,
               RstFrame(0, "DESIGNATED", 0, 0, Proposal)}

\* a neighbour inside the region, and an STP bridge on the same LAN
LegacyFrames == {ProposesOne, TcnFrame}

MstpInit ==
  /\ bridge = Started(WithStpVersion(CreateBridge(1), MSTP)) /\ run = StartPass
  /\ calls = 0 /\ returned = CreateBridge(1) /\ followed = FALSE

MstpSpec == MstpInit /\ [][MCNext]_mcvars

MstpLiveSpec == MstpSpec /\ WF_vars(RunStep)

=============================================================================
