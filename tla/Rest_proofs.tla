----------------------------- MODULE Rest_proofs -----------------------------
(***************************************************************************)
(* What a bridge has settled when a call returns.  An inductive invariant  *)
(* ties, for each port and tree, the information the port holds, the role  *)
(* selected from it, the role taken, and what the hardware does; when no   *)
(* machine can move, it gives the properties of the bridge at rest.        *)
(* First the machines one by one, then the loop and the calls around them. *)
(***************************************************************************)
EXTENDS BridgeProperties_proofs


-----------------------------------------------------------------------------
(***************************************************************************)
(* The fields that the roles hang on, in three groups: the information and *)
(* the role selected from it, the role taken, the hardware.                *)
(***************************************************************************)
SameInfo(x, z) ==
  /\ z.infoIs = x.infoIs /\ z.updtInfo = x.updtInfo /\ z.rcvdInfo = x.rcvdInfo
  /\ z.reselect = x.reselect /\ z.selected = x.selected /\ z.selectedRole = x.selectedRole
  /\ z.portInformationState = x.portInformationState

SameRole(x, z) ==
  /\ z.role = x.role /\ z.learn = x.learn /\ z.forward = x.forward
  /\ z.portRoleTransitionsState = x.portRoleTransitionsState

SameHardware(x, z) ==
  /\ z.learning = x.learning /\ z.forwarding = x.forwarding
  /\ z.portStateTransitionState = x.portStateTransitionState

LEMMA AlikeParts ==
  ASSUME NEW x, NEW z
  PROVE  Alike(x, z) <=> SameInfo(x, z) /\ SameRole(x, z) /\ SameHardware(x, z)
  BY Zenon DEF Alike, SameInfo, SameRole, SameHardware

\* A new PORT_TREE for port p in tree t.
LEMMA SetPortTreeUntouchedBut ==
  ASSUME NEW b \in Bridge, NEW p \in Ports, NEW t \in Trees, NEW x,
         x.rcvdMsg => b.pt[p][t].rcvdMsg
  PROVE  UntouchedBut(b, SetPortTree(b, p, t, x), p, t) /\ SetPortTree(b, p, t, x).pt[p][t] = x
<1> DEFINE c == SetPortTree(b, p, t, x)
<1>1. /\ SameFrame(b, c) /\ c.pt[p][t] = x
      /\ \A q \in Ports, s \in Trees : q # p \/ s # t => c.pt[q][s] = b.pt[q][s]
  BY PortTreeUpdated
<1> HIDE DEF c
<1>2. ASSUME NEW q \in Ports, NEW s \in Trees
      PROVE  /\ c.pt[q][s].rcvdMsg => b.pt[q][s].rcvdMsg
             /\ (q = p /\ s = t) \/ Alike(b.pt[q][s], c.pt[q][s])
  <2>1. CASE q = p /\ s = t
    BY <1>1, <2>1, Zenon
  <2>2. CASE q # p \/ s # t
    BY <1>1, <2>2, NothingTouched, Zenon
  <2> QED BY <2>1, <2>2, Zenon
<1>3. UntouchedBut(b, c, p, t) /\ c.pt[p][t] = x
  BY <1>1, <1>2, Zenon DEF UntouchedBut
<1> QED BY <1>3, Zenon DEF c

-----------------------------------------------------------------------------
(***************************************************************************)
(* Port Information: what a transition to state makes of its PORT_TREE x,  *)
(* apart from the state itself.                                            *)
(***************************************************************************)
InfoIsOf(state) == IF state = "SUPERIOR_DESIGNATED" THEN "RECEIVED" ELSE state

Reselecting == {"DISABLED", "AGED", "SUPERIOR_DESIGNATED"}

InfoMoves(x, z, state) ==
  /\ SameRole(x, z) /\ SameHardware(x, z) /\ z.selectedRole = x.selectedRole
  /\ z.rcvdMsg => x.rcvdMsg
  /\ state \in Reselecting => /\ z.infoIs = InfoIsOf(state) /\ z.updtInfo = x.updtInfo
                              /\ z.reselect /\ ~z.selected
  /\ state \notin Reselecting => z.reselect = x.reselect /\ z.selected = x.selected
  /\ state = "UPDATE" => z.infoIs = "MINE" /\ ~z.updtInfo
  /\ state \notin Reselecting \cup {"UPDATE"} => z.infoIs = x.infoIs /\ z.updtInfo = x.updtInfo
  /\ state = "RECEIVE" => z.rcvdInfo # "UNKNOWN"

InfoEnters(b, c, p, t, state) ==
  UntouchedBut(b, c, p, t) /\ InfoMoves(b.pt[p][t], c.pt[p][t], state)

\* Nothing more is done before or after.
LEMMA InfoMovesAround ==
  ASSUME NEW x, NEW y, NEW z, NEW state
  PROVE  /\ Fades(x, y) /\ InfoMoves(y, z, state) => InfoMoves(x, z, state)
         /\ InfoMoves(x, y, state) /\ Fades(y, z) => InfoMoves(x, z, state)
  BY Zenon DEF Fades, Alike, InfoMoves, SameRole, SameHardware

LEMMA EntersAround ==
  ASSUME NEW b, NEW c, NEW d, NEW p \in Ports, NEW t \in Trees, NEW state
  PROVE  /\ Untouched(b, c) /\ InfoEnters(c, d, p, t, state) => InfoEnters(b, d, p, t, state)
         /\ InfoEnters(b, c, p, t, state) /\ Untouched(c, d) => InfoEnters(b, d, p, t, state)
<1>1. ASSUME Untouched(b, c), InfoEnters(c, d, p, t, state)
      PROVE  InfoEnters(b, d, p, t, state)
  <2>1. UntouchedBut(b, d, p, t)
    BY <1>1, UntouchedWeaker, UntouchedButTwice, Zenon DEF InfoEnters
  <2>2. Fades(b.pt[p][t], c.pt[p][t])
    BY <1>1, Zenon DEF Untouched
  <2> QED BY <1>1, <2>1, <2>2, InfoMovesAround, Zenon DEF InfoEnters
<1>2. ASSUME InfoEnters(b, c, p, t, state), Untouched(c, d)
      PROVE  InfoEnters(b, d, p, t, state)
  <2>1. UntouchedBut(b, d, p, t)
    BY <1>2, UntouchedWeaker, UntouchedButTwice, Zenon DEF InfoEnters
  <2>2. Fades(c.pt[p][t], d.pt[p][t])
    BY <1>2, Zenon DEF Untouched
  <2> QED BY <1>2, <2>1, <2>2, InfoMovesAround, Zenon DEF InfoEnters
<1> QED BY <1>1, <1>2, Zenon

\* A state whose entry block leaves the information and the selection as they are.
LEMMA UntouchedEnters ==
  ASSUME NEW b, NEW c, NEW p \in Ports, NEW t \in Trees, NEW state, Untouched(b, c),
         state \notin Reselecting, state \notin {"UPDATE", "RECEIVE"}
  PROVE  InfoEnters(b, c, p, t, state)
<1>1. UntouchedBut(b, c, p, t) /\ Fades(b.pt[p][t], c.pt[p][t])
  BY UntouchedWeaker, Zenon DEF Untouched
<1>2. InfoMoves(b.pt[p][t], c.pt[p][t], state)
  BY <1>1, Zenon DEF Fades, Alike, InfoMoves, SameRole, SameHardware
<1> QED BY <1>1, <1>2, Zenon DEF InfoEnters

LEMMA SetPortTreeEnters ==
  ASSUME NEW b \in Bridge, NEW p \in Ports, NEW t \in Trees, NEW z, NEW state,
         InfoMoves(b.pt[p][t], z, state)
  PROVE  InfoEnters(b, SetPortTree(b, p, t, z), p, t, state)
<1> DEFINE c == SetPortTree(b, p, t, z)
<1>1. z.rcvdMsg => b.pt[p][t].rcvdMsg
  BY Zenon DEF InfoMoves
<1>2. UntouchedBut(b, c, p, t) /\ c.pt[p][t] = z
  BY <1>1, SetPortTreeUntouchedBut
<1> HIDE DEF c
<1>3. InfoEnters(b, c, p, t, state)
  BY <1>2, Zenon DEF InfoEnters
<1> QED BY <1>3, Zenon DEF c

\* The new PORT_TREEs of the entry blocks.
LEMMA ReselectMoves ==
  ASSUME NEW x \in PortTree, NEW y \in PortTree, NEW state \in Reselecting, Fades(x, y)
  PROVE  InfoMoves(x, Reselect(y, InfoIsOf(state)), state)
<1> DEFINE infoIs == InfoIsOf(state)
           z      == Reselect(y, infoIs)
<1>1. /\ z.infoIs = infoIs /\ z.updtInfo = y.updtInfo /\ z.reselect = TRUE /\ z.selected = FALSE
      /\ SameRole(y, z) /\ SameHardware(y, z) /\ z.selectedRole = y.selectedRole
      /\ z.rcvdMsg = y.rcvdMsg
  BY ZenonT(60) DEF PortTree, Reselect, SameRole, SameHardware
<1>2. state \notin {"UPDATE", "RECEIVE"}
  BY Zenon DEF Reselecting
<1> HIDE DEF z, infoIs
<1>3. z.reselect /\ ~z.selected
  BY <1>1, Zenon
<1>4. InfoMoves(x, z, state)
  BY <1>1, <1>2, <1>3, Zenon DEF Fades, Alike, InfoMoves, SameRole, SameHardware, infoIs
<1> QED BY <1>4, Zenon DEF z, infoIs

LEMMA UpdateMoves ==
  ASSUME NEW b \in Bridge, NEW p \in Ports, NEW t \in Trees
  PROVE  InfoEnters(b, EnterUpdate(b, p, t), p, t, "UPDATE")
<1> DEFINE x      == b.pt[p][t]
           agreed == x.agreed /\ betterorsameInfo(x, "MINE")
           synced == x.synced /\ agreed
           new    == [x EXCEPT !.proposing = FALSE, !.proposed = FALSE, !.agreed = agreed,
                               !.synced = synced, !.portPriority = x.designatedPriority,
                               !.portTimes = x.designatedTimes, !.updtInfo = FALSE,
                               !.infoIs = "MINE"]
           c      == SetPortTree(b, p, t, new)
<1>1. x \in PortTree
  BY BridgeParts, Zenon
<1>2. x.designatedPriority \in PriorityVector /\ x.designatedTimes \in Times
  BY <1>1, PortTreeFields, Zenon
<1>3. agreed \in BOOLEAN /\ synced \in BOOLEAN
  BY Zenon
<1>4. EnterUpdate(b, p, t) = SetNewInfo(c, p, t)
  BY DEF EnterUpdate
<1> HIDE DEF x, agreed, synced
<1>5. new \in PortTree
  BY <1>1, <1>2, <1>3, InfoIsValues, ZenonT(60) DEF PortTree
<1>6. InfoMoves(x, new, "UPDATE")
  <2>1. /\ SameRole(x, new) /\ SameHardware(x, new) /\ new.selectedRole = x.selectedRole
        /\ new.rcvdMsg = x.rcvdMsg /\ new.infoIs = "MINE" /\ new.updtInfo = FALSE
        /\ new.reselect = x.reselect /\ new.selected = x.selected
    BY <1>1, ZenonT(60) DEF PortTree, SameRole, SameHardware
  <2>2. "UPDATE" \notin Reselecting
    BY Zenon DEF Reselecting
  <2> HIDE DEF new
  <2>3. ~new.updtInfo
    BY <2>1, Zenon
  <2> QED BY <2>1, <2>2, <2>3, Zenon DEF InfoMoves
<1> HIDE DEF new
<1>7. InfoEnters(b, c, p, t, "UPDATE")
  BY <1>6, SetPortTreeEnters DEF x
<1>8. c \in Bridge
  BY <1>5, SetPortTreeTyped, Zenon
<1> HIDE DEF c
<1>9. Untouched(c, SetNewInfo(c, p, t))
  BY <1>8, FlagProceduresUntouched, Zenon
<1> QED BY <1>4, <1>7, <1>9, EntersAround, Zenon

LEMMA ReceiveMoves ==
  ASSUME NEW b \in Bridge, NEW p \in Ports, NEW t \in Trees
  PROVE  InfoEnters(b, EnterReceive(b, p, t), p, t, "RECEIVE")
<1> DEFINE x    == b.pt[p][t]
           info == rcvInfo(b, p, t)
           new  == [x EXCEPT !.rcvdInfo = info]
           c    == SetPortTree(b, p, t, new)
<1>1. x \in PortTree
  BY BridgeParts, Zenon
<1>2. info \in RcvdInfos /\ info # "UNKNOWN"
  BY rcvInfoTyped, Zenon DEF rcvInfo
<1>3. EnterReceive(b, p, t) = recordMastered(c, p, t)
  BY Zenon DEF EnterReceive
<1> HIDE DEF x, info
<1>4. new \in PortTree
  BY <1>1, <1>2, ZenonT(60) DEF PortTree
<1>5. InfoMoves(x, new, "RECEIVE")
  <2>1. /\ SameRole(x, new) /\ SameHardware(x, new) /\ new.selectedRole = x.selectedRole
        /\ new.rcvdMsg = x.rcvdMsg /\ new.infoIs = x.infoIs /\ new.updtInfo = x.updtInfo
        /\ new.reselect = x.reselect /\ new.selected = x.selected /\ new.rcvdInfo = info
    BY <1>1, ZenonT(60) DEF PortTree, SameRole, SameHardware
  <2>2. "RECEIVE" \notin Reselecting
    BY Zenon DEF Reselecting
  <2> HIDE DEF new
  <2> QED BY <1>2, <2>1, <2>2, Zenon DEF InfoMoves
<1> HIDE DEF new
<1>6. InfoEnters(b, c, p, t, "RECEIVE")
  BY <1>5, SetPortTreeEnters DEF x
<1>7. c \in Bridge
  BY <1>4, SetPortTreeTyped, Zenon
<1> HIDE DEF c
<1>8. Untouched(c, recordMastered(c, p, t))
  BY <1>7, FlagProceduresUntouched, Zenon
<1> QED BY <1>3, <1>6, <1>8, EntersAround, Zenon

\* Entry block of SUPERIOR_DESIGNATED: all that comes before Reselect touches nothing.
LEMMA SuperiorMoves ==
  ASSUME NEW b \in Bridge, NEW p \in Ports, NEW t \in Trees
  PROVE  InfoEnters(b, EnterSuperiorDesignated(b, p, t), p, t, "SUPERIOR_DESIGNATED")
<1> DEFINE a  == NotingRegion(b, p)
           b1 == SetPortTree(a, p, t, [b.pt[p][t] EXCEPT !.agreed = FALSE, !.proposing = FALSE])
           c2 == recordProposal(b1, p, t)
           b2 == setTcFlags(c2, p, t)
           b3 == SetPortTree(b2, p, t,
                   [b2.pt[p][t] EXCEPT !.agree = @ /\ betterorsameInfo(b2.pt[p][t], "RECEIVED")])
           b4 == recordAgreement(b3, p, t)
           b5 == SetPortTree(b4, p, t, [b4.pt[p][t] EXCEPT !.synced = @ /\ b4.pt[p][t].agreed])
           c5 == recordPriority(b5, p, t)
           d5 == recordTimes(c5, p, t)
           b6 == updtRcvdInfoWhile(d5, p, t)
           b7 == SetPortTree(b6, p, t, Reselect(b6.pt[p][t], "RECEIVED"))
<1>1. ASSUME NEW x \in PortTree, NEW v
      PROVE  /\ [x EXCEPT !.agreed = FALSE, !.proposing = FALSE] \in PortTree
             /\ [x EXCEPT !.agree = @ /\ v] \in PortTree
             /\ [x EXCEPT !.synced = @ /\ v] \in PortTree
             /\ Fades(x, [x EXCEPT !.agreed = FALSE, !.proposing = FALSE])
             /\ Fades(x, [x EXCEPT !.agree = @ /\ v])
             /\ Fades(x, [x EXCEPT !.synced = @ /\ v])
  BY GuardedFlags, TreeFieldsFade, MoreTreeFieldsFade, Zenon
<1>2. EnterSuperiorDesignated(b, p, t) = MessageDone(b7, p, t)
  BY Zenon DEF EnterSuperiorDesignated
<1>3. a \in Bridge /\ Untouched(b, a) /\ b.pt[p][t] \in PortTree
  BY NotingRegionTyped, FlagProceduresUntouched, BridgeParts, Zenon
<1>4. a.pt[p][t] = b.pt[p][t]
  <2>1. a.pt = b.pt
    BY ZenonT(60) DEF NotingRegion, SetPort, Bridge
  <2> QED BY <2>1, Zenon
<1> HIDE DEF a
<1>5. b1 \in Bridge /\ Untouched(b, b1)
  BY <1>1, <1>3, <1>4, SetPortTreeTyped, SetPortTreeUntouched, UntouchedTwice, Zenon
<1> HIDE DEF b1
<1>6. c2 \in Bridge /\ Untouched(b, c2)
  BY <1>5, recordProposalTyped, TreeProceduresUntouched, UntouchedTwice, Zenon
<1> HIDE DEF c2
<1>7. b2 \in Bridge /\ Untouched(b, b2)
  BY <1>6, setTcFlagsTyped, setTcFlagsUntouched, UntouchedTwice, Zenon
<1> HIDE DEF b2
<1>8. b3 \in Bridge /\ Untouched(b, b3)
  BY <1>1, <1>7, BridgeParts, SetPortTreeTyped, OneMoreUntouched, Zenon
<1> HIDE DEF b3
<1>9. b4 \in Bridge /\ Untouched(b, b4)
  BY <1>8, recordAgreementTyped, recordAgreementUntouched, UntouchedTwice, Zenon
<1> HIDE DEF b4
<1>10. b5 \in Bridge /\ Untouched(b, b5)
  BY <1>1, <1>9, BridgeParts, SetPortTreeTyped, OneMoreUntouched, Zenon
<1> HIDE DEF b5
<1>11. c5 \in Bridge /\ Untouched(b, c5)
  BY <1>10, recordPriorityTyped, TreeProceduresUntouched, UntouchedTwice, Zenon
<1> HIDE DEF c5
<1>12. d5 \in Bridge /\ Untouched(b, d5)
  BY <1>11, recordTimesTyped, TreeProceduresUntouched, UntouchedTwice, Zenon
<1> HIDE DEF d5
<1>13. b6 \in Bridge /\ Untouched(b, b6)
  BY <1>12, updtRcvdInfoWhileTyped, TreeProceduresUntouched, UntouchedTwice, Zenon
<1> HIDE DEF b6
<1>14. InfoEnters(b6, b7, p, t, "SUPERIOR_DESIGNATED") /\ b7 \in Bridge
  <2> DEFINE z == Reselect(b6.pt[p][t], "RECEIVED")
  <2>1. /\ b6.pt[p][t] \in PortTree /\ InfoIsOf("SUPERIOR_DESIGNATED") = "RECEIVED"
        /\ "SUPERIOR_DESIGNATED" \in Reselecting
    BY <1>13, BridgeParts, Zenon DEF InfoIsOf, Reselecting
  <2>2. InfoMoves(b6.pt[p][t], z, "SUPERIOR_DESIGNATED") /\ z \in PortTree
    BY <2>1, ReselectMoves, ReselectTyped, InfoIsValues, NothingTouched, Zenon
  <2> HIDE DEF z
  <2>3. InfoEnters(b6, SetPortTree(b6, p, t, z), p, t, "SUPERIOR_DESIGNATED")
    BY <1>13, <2>2, SetPortTreeEnters
  <2>4. SetPortTree(b6, p, t, z) \in Bridge
    BY <1>13, <2>2, SetPortTreeTyped, Zenon
  <2> QED BY <2>3, <2>4, Zenon DEF z
<1> HIDE DEF b7
<1>15. Untouched(b7, MessageDone(b7, p, t))
  BY <1>14, TreeProceduresUntouched, Zenon
<1>16. InfoEnters(b, b7, p, t, "SUPERIOR_DESIGNATED")
  BY <1>13, <1>14, EntersAround, Zenon
<1> QED BY <1>2, <1>15, <1>16, EntersAround, Zenon

\* Entry block of REPEATED_DESIGNATED.
LEMMA RepeatedUntouched ==
  ASSUME NEW b \in Bridge, NEW p \in Ports, NEW t \in Trees
  PROVE  Untouched(b, EnterRepeatedDesignated(b, p, t))
<1> DEFINE a == NotingRegion(b, p)
           c == recordProposal(a, p, t)
           d == setTcFlags(c, p, t)
           f == recordAgreement(d, p, t)
           g == updtRcvdInfoWhile(f, p, t)
<1>1. EnterRepeatedDesignated(b, p, t) = MessageDone(g, p, t)
  BY Zenon DEF EnterRepeatedDesignated
<1>2. a \in Bridge /\ Untouched(b, a)
  BY NotingRegionTyped, FlagProceduresUntouched, Zenon
<1> HIDE DEF a
<1>3. c \in Bridge /\ Untouched(b, c)
  BY <1>2, recordProposalTyped, TreeProceduresUntouched, UntouchedTwice, Zenon
<1> HIDE DEF c
<1>4. d \in Bridge /\ Untouched(b, d)
  BY <1>3, setTcFlagsTyped, setTcFlagsUntouched, UntouchedTwice, Zenon
<1> HIDE DEF d
<1>5. f \in Bridge /\ Untouched(b, f)
  BY <1>4, recordAgreementTyped, recordAgreementUntouched, UntouchedTwice, Zenon
<1> HIDE DEF f
<1>6. g \in Bridge /\ Untouched(b, g)
  BY <1>5, updtRcvdInfoWhileTyped, TreeProceduresUntouched, UntouchedTwice, Zenon
<1> HIDE DEF g
<1>7. Untouched(g, MessageDone(g, p, t))
  BY <1>6, TreeProceduresUntouched, Zenon
<1> QED BY <1>1, <1>6, <1>7, UntouchedTwice, Zenon

\* Every entry block of Port Information.
LEMMA InformationBlockEnters ==
  ASSUME NEW b \in Bridge, NEW p \in Ports, NEW t \in Trees, NEW state
  PROVE  InfoEnters(b, PortInformationEnter(b, p, t, state), p, t, state)
<1> DEFINE e == PortInformationEnter(b, p, t, state)
<1>1. CASE state = "DISABLED"
  <2> DEFINE x == b.pt[p][t]
             y == [x EXCEPT !.rcvdMsg = FALSE, !.proposing = FALSE, !.proposed = FALSE,
                            !.agree = FALSE, !.agreed = FALSE, !.rcvdInfoWhile = 0]
             z == Reselect(y, "DISABLED")
  <2>1. e = SetPortTree(b, p, t, z)
    BY <1>1 DEF PortInformationEnter
  <2>2. x \in PortTree
    BY BridgeParts, Zenon
  <2> HIDE DEF x
  <2>3. y \in PortTree
    <3>1. 0 \in Nat
      BY SMT
    <3> QED BY <2>2, <3>1, ZenonT(60) DEF PortTree
  <2>4. Fades(x, y)
    BY <2>2, ZenonT(60) DEF PortTree, Fades, Alike
  <2>5. state \in Reselecting /\ InfoIsOf(state) = "DISABLED"
    BY <1>1, Zenon DEF Reselecting, InfoIsOf
  <2> HIDE DEF y
  <2>6. InfoMoves(x, z, state)
    BY <2>2, <2>3, <2>4, <2>5, ReselectMoves, Zenon
  <2> HIDE DEF z
  <2>7. InfoEnters(b, SetPortTree(b, p, t, z), p, t, state)
    BY <2>6, SetPortTreeEnters DEF x
  <2> QED BY <2>1, <2>7, Zenon
<1>2. CASE state = "AGED"
  <2> DEFINE x == b.pt[p][t]
             z == Reselect(x, "AGED")
  <2>1. e = SetPortTree(b, p, t, z)
    BY <1>2 DEF PortInformationEnter
  <2>2. x \in PortTree /\ Fades(x, x)
    BY BridgeParts, NothingTouched, Zenon
  <2>3. state \in Reselecting /\ InfoIsOf(state) = "AGED"
    BY <1>2, Zenon DEF Reselecting, InfoIsOf
  <2> HIDE DEF x
  <2>4. InfoMoves(x, z, state)
    BY <2>2, <2>3, ReselectMoves, Zenon
  <2> HIDE DEF z
  <2>5. InfoEnters(b, SetPortTree(b, p, t, z), p, t, state)
    BY <2>4, SetPortTreeEnters DEF x
  <2> QED BY <2>1, <2>5, Zenon
<1>3. CASE state = "UPDATE"
  BY <1>3, UpdateMoves DEF PortInformationEnter
<1>4. CASE state = "SUPERIOR_DESIGNATED"
  BY <1>4, SuperiorMoves DEF PortInformationEnter
<1>5. CASE state = "RECEIVE"
  BY <1>5, ReceiveMoves DEF PortInformationEnter
<1>6. CASE state \notin Reselecting \cup {"UPDATE", "RECEIVE"}
  <2>1. /\ Untouched(b, b) /\ Untouched(b, EnterRepeatedDesignated(b, p, t))
        /\ Untouched(b, MessageDone(b, p, t))
    BY RepeatedUntouched, TreeProceduresUntouched, NothingTouched, Zenon
  <2>2. Untouched(b, MessageDone(recordDispute(b, p, t), p, t))
    BY recordDisputeTyped, TreeProceduresUntouched, UntouchedTwice, Zenon
  <2>3. Untouched(b, MessageDone(setTcFlags(recordAgreement(b, p, t), p, t), p, t))
    <3> DEFINE c == recordAgreement(b, p, t)
               d == setTcFlags(c, p, t)
    <3>1. c \in Bridge /\ Untouched(b, c)
      BY recordAgreementTyped, recordAgreementUntouched, Zenon
    <3> HIDE DEF c
    <3>2. d \in Bridge /\ Untouched(b, d)
      BY <3>1, setTcFlagsTyped, setTcFlagsUntouched, UntouchedTwice, Zenon
    <3> HIDE DEF d
    <3>3. Untouched(b, MessageDone(d, p, t))
      BY <3>2, TreeProceduresUntouched, UntouchedTwice, Zenon
    <3> QED BY <3>3, Zenon DEF c, d
  <2>4. Untouched(b, e)
    BY <1>6, <2>1, <2>2, <2>3, ZenonT(60) DEF PortInformationEnter, Reselecting
  <2>5. state \notin Reselecting /\ state \notin {"UPDATE", "RECEIVE"}
    BY <1>6, Zenon
  <2> QED BY <2>4, <2>5, UntouchedEnters, Zenon
<1> QED BY <1>1, <1>2, <1>3, <1>4, <1>5, <1>6, Zenon DEF Reselecting

\* Port Information: a transition to state.
LEMMA PortInformationEnters ==
  ASSUME NEW b \in Bridge, NEW p \in Ports, NEW t \in Trees
  PROVE  LET state == PortInformationNext(b, p, t)
             c     == EnterPortInformation(b, p, t)
         IN  /\ InfoEnters(b, c, p, t, state)
             /\ c.pt[p][t].portInformationState = state
<1> DEFINE state == PortInformationNext(b, p, t)
           e     == PortInformationEnter(b, p, t, state)
           y     == e.pt[p][t]
           z     == [y EXCEPT !.portInformationState = state]
           c     == SetPortTree(e, p, t, z)
<1>1. EnterPortInformation(b, p, t) = c
  BY DEF EnterPortInformation
<1> HIDE DEF state
<1>2. e \in Bridge /\ InfoEnters(b, e, p, t, state)
  BY PortInformationEnterTyped, InformationBlockEnters, Zenon
<1> HIDE DEF e
<1>3. y \in PortTree
  BY <1>2, BridgeParts, Zenon
<1>4. InfoMoves(b.pt[p][t], y, state)
  BY <1>2, Zenon DEF InfoEnters
<1> HIDE DEF y
<1>5. /\ z.portInformationState = state /\ SameRole(y, z) /\ SameHardware(y, z)
      /\ z.selectedRole = y.selectedRole /\ z.rcvdMsg = y.rcvdMsg
      /\ z.infoIs = y.infoIs /\ z.updtInfo = y.updtInfo /\ z.rcvdInfo = y.rcvdInfo
      /\ z.reselect = y.reselect /\ z.selected = y.selected
  BY <1>3, ZenonT(60) DEF PortTree, SameRole, SameHardware
<1> HIDE DEF z
<1>6. InfoMoves(b.pt[p][t], z, state)
  BY <1>4, <1>5, Zenon DEF InfoMoves, SameRole, SameHardware
<1>7. UntouchedBut(e, c, p, t) /\ c.pt[p][t] = z
  <2>1. z.rcvdMsg => e.pt[p][t].rcvdMsg
    BY <1>5, Zenon DEF y
  <2>2. UntouchedBut(e, SetPortTree(e, p, t, z), p, t) /\ SetPortTree(e, p, t, z).pt[p][t] = z
    BY <1>2, <2>1, SetPortTreeUntouchedBut
  <2> QED BY <2>2, Zenon
<1> HIDE DEF c
<1>8. UntouchedBut(b, c, p, t)
  BY <1>2, <1>7, UntouchedButTwice, Zenon DEF InfoEnters
<1>9. InfoEnters(b, c, p, t, state) /\ c.pt[p][t].portInformationState = state
  BY <1>5, <1>6, <1>7, <1>8, Zenon DEF InfoEnters
<1> QED BY <1>1, <1>9, Zenon DEF state

-----------------------------------------------------------------------------
(***************************************************************************)
(* The invariant, for port p in tree t.                                    *)
(***************************************************************************)
\* the role that updtRolesTree selects for the information held
RoleFits(x) ==
  CASE x.infoIs = "DISABLED" -> x.selectedRole = "DISABLED"
    [] x.infoIs = "AGED"     -> x.selectedRole = "DESIGNATED" /\ x.updtInfo
    [] x.infoIs = "MINE"     -> x.selectedRole = "DESIGNATED"
    [] OTHER -> IF x.updtInfo THEN x.selectedRole = "DESIGNATED"
                ELSE x.selectedRole \in {"ROOT", "ALTERNATE", "BACKUP"}

\* the state of Port Information and the information held
StateFits(x) ==
  /\ x.portInformationState # "NONE" =>
       /\ x.portInformationState = "DISABLED" <=> x.infoIs = "DISABLED"
       /\ x.portInformationState = "AGED" <=> x.infoIs = "AGED"
  /\ x.portInformationState = "RECEIVE" => x.rcvdInfo # "UNKNOWN"

\* Roles are selected, or will be selected anew; the role of an MSTI port may
\* follow from the CIST's information instead of its own.
SelectionFits(b, p, t) ==
  LET x == b.pt[p][t]
  IN  b.tree[t].portRoleSelectionState = "ROLE_SELECTION" =>
        /\ x.selected \/ x.reselect
        /\ x.reselect \/ ((cist(t) \/ x.infoIs = "DISABLED") => RoleFits(x))

\* a port without a link has nothing to announce
NoUpdate(b, p, t) ==
  b.pt[p][t].infoIs = "DISABLED" \/ ~b.port[p].portEnabled \/ b.BEGIN => ~b.pt[p][t].updtInfo

InfoFits(b, p, t) ==
  /\ StateFits(b.pt[p][t]) /\ SelectionFits(b, p, t) /\ NoUpdate(b, p, t)
  /\ b.started /\ ~b.BEGIN /\ t \in TreesOf(b) => b.pt[p][t].portInformationState # "NONE"
  /\ t \notin TreesOf(b) => ~b.pt[p][t].updtInfo

\* the role that goes with a state of Port Role Transitions
RoleOfState(state) ==
  IF state \in {"MASTER_PORT"} \cup MasterSteps THEN "MASTER"
  ELSE IF state \in {"ROOT_PORT"} \cup RootSteps THEN "ROOT"
  ELSE IF state \in {"DESIGNATED_PORT"} \cup DesignatedSteps THEN "DESIGNATED"
  ELSE "NONE"

LearnFits(x) ==
  /\ x.forward => x.learn
  /\ x.learn => x.role \in ActiveRoles
  /\ RoleOfState(x.portRoleTransitionsState) \in {"NONE", x.role}

\* the state of Port State Transition and the hardware
HardwareFits(x) ==
  CASE x.portStateTransitionState = "DISCARDING" -> ~x.learning /\ ~x.forwarding
    [] x.portStateTransitionState = "LEARNING"   -> x.learning /\ ~x.forwarding
    [] x.portStateTransitionState = "FORWARDING" -> x.learning /\ x.forwarding
    [] OTHER -> TRUE

SwitchFits(b, p, t) ==
  b.started /\ t \in TreesOf(b) =>
    /\ HardwareFits(b.pt[p][t])
    /\ ~b.BEGIN => b.pt[p][t].portStateTransitionState # "NONE"

PartFits(b, p, t) ==
  InfoFits(b, p, t) /\ LearnFits(b.pt[p][t]) /\ SwitchFits(b, p, t)

Begun(b) ==
  b.started /\ ~b.BEGIN =>
    /\ \A q \in Ports : b.port[q].portTimersState # "NONE"
    /\ \A s \in TreesOf(b) : b.tree[s].portRoleSelectionState # "NONE"

InOrder(b) == Begun(b) /\ \A q \in Ports, s \in Trees : PartFits(b, q, s)

\* Port Information of port p in tree t is to enter DISABLED
MustDisable(b, p, t) ==
  \/ b.BEGIN /\ b.pt[p][t].portInformationState # "DISABLED"
  \/ ~b.BEGIN /\ ~b.port[p].portEnabled /\ b.pt[p][t].infoIs # "DISABLED"

\* what no machine changes
SameOutside(b, c) ==
  /\ c.BEGIN = b.BEGIN /\ c.started = b.started
  /\ c.ForceProtocolVersion = b.ForceProtocolVersion /\ c.receivedBpdu = b.receivedBpdu
  /\ \A q \in Ports : AlikePort(b.port[q], c.port[q])

\* a step after which the invariant holds and no port is to be disabled that was not before
Orderly(b, c) ==
  /\ InOrder(c) /\ SameOutside(b, c)
  /\ \A q \in Ports, s \in Trees : MustDisable(c, q, s) => MustDisable(b, q, s)

MessagesFade(b, c) ==
  \A q \in Ports, s \in Trees : c.pt[q][s].rcvdMsg => b.pt[q][s].rcvdMsg

-----------------------------------------------------------------------------
\* What the groups of fields decide.
LEMMA FrameTrees ==
  ASSUME NEW b, NEW c, SameFrame(b, c)
  PROVE  /\ TreesOf(c) = TreesOf(b) /\ c.BEGIN = b.BEGIN /\ c.started = b.started
         /\ \A q \in Ports : c.port[q].portEnabled = b.port[q].portEnabled
         /\ Begun(b) => Begun(c)
<1>1. TreesOf(c) = TreesOf(b) /\ c.BEGIN = b.BEGIN /\ c.started = b.started
  BY Zenon DEF SameFrame, TreesOf
<1>2. \A q \in Ports : c.port[q].portEnabled = b.port[q].portEnabled
  BY Zenon DEF SameFrame, AlikePort
<1>3. TreesOf(b) \subseteq Trees
  BY CistIsTree, Zenon DEF TreesOf
<1>4. Begun(b) => Begun(c)
  BY <1>1, <1>3, Zenon DEF SameFrame, AlikePort, Begun
<1> QED BY <1>1, <1>2, <1>4, Zenon

LEMMA InfoDecides ==
  ASSUME NEW b, NEW c, SameFrame(b, c), NEW p \in Ports, NEW t \in Trees,
         SameInfo(b.pt[p][t], c.pt[p][t])
  PROVE  /\ InfoFits(b, p, t) => InfoFits(c, p, t)
         /\ MustDisable(c, p, t) => MustDisable(b, p, t)
<1>1. /\ TreesOf(c) = TreesOf(b) /\ c.BEGIN = b.BEGIN /\ c.started = b.started
      /\ c.port[p].portEnabled = b.port[p].portEnabled
      /\ c.tree[t].portRoleSelectionState = b.tree[t].portRoleSelectionState
  BY FrameTrees, Zenon DEF SameFrame
<1>2. StateFits(b.pt[p][t]) => StateFits(c.pt[p][t])
  BY Zenon DEF SameInfo, StateFits
<1>3. RoleFits(b.pt[p][t]) => RoleFits(c.pt[p][t])
  BY SMT DEF SameInfo, RoleFits
<1>4. SelectionFits(b, p, t) => SelectionFits(c, p, t)
  BY <1>1, <1>3, Zenon DEF SameInfo, SelectionFits
<1>5. NoUpdate(b, p, t) => NoUpdate(c, p, t)
  BY <1>1, Zenon DEF SameInfo, NoUpdate
<1>6. InfoFits(b, p, t) => InfoFits(c, p, t)
  BY <1>1, <1>2, <1>4, <1>5, Zenon DEF SameInfo, InfoFits
<1>7. MustDisable(c, p, t) => MustDisable(b, p, t)
  BY <1>1, Zenon DEF SameInfo, MustDisable
<1> QED BY <1>6, <1>7, Zenon

LEMMA RoleDecides ==
  ASSUME NEW x, NEW z, SameRole(x, z), LearnFits(x)
  PROVE  LearnFits(z)
  BY Zenon DEF SameRole, LearnFits

LEMMA HardwareDecides ==
  ASSUME NEW b, NEW c, SameFrame(b, c), NEW p \in Ports, NEW t \in Trees,
         SameHardware(b.pt[p][t], c.pt[p][t]), SwitchFits(b, p, t)
  PROVE  SwitchFits(c, p, t)
<1>1. TreesOf(c) = TreesOf(b) /\ c.BEGIN = b.BEGIN /\ c.started = b.started
  BY FrameTrees, Zenon
<1>2. HardwareFits(b.pt[p][t]) => HardwareFits(c.pt[p][t])
  BY SMT DEF SameHardware, HardwareFits
<1> QED BY <1>1, <1>2, Zenon DEF SameHardware, SwitchFits

\* A step that leaves the roles alone.
LEMMA RolesUntouchedOrderly ==
  ASSUME NEW b, NEW c, RolesUntouched(b, c), InOrder(b)
  PROVE  Orderly(b, c)
<1>1. SameFrame(b, c)
  BY Zenon DEF RolesUntouched
<1>2. ASSUME NEW q \in Ports, NEW s \in Trees
      PROVE  PartFits(c, q, s) /\ (MustDisable(c, q, s) => MustDisable(b, q, s))
  <2>1. /\ SameInfo(b.pt[q][s], c.pt[q][s]) /\ SameRole(b.pt[q][s], c.pt[q][s])
        /\ SameHardware(b.pt[q][s], c.pt[q][s])
    BY AlikeParts, Zenon DEF RolesUntouched
  <2>2. InfoFits(b, q, s) /\ LearnFits(b.pt[q][s]) /\ SwitchFits(b, q, s)
    BY Zenon DEF InOrder, PartFits
  <2> QED BY <1>1, <2>1, <2>2, InfoDecides, RoleDecides, HardwareDecides, Zenon DEF PartFits
<1>3. Begun(c) /\ SameOutside(b, c)
  BY <1>1, FrameTrees, Zenon DEF InOrder, SameFrame, SameOutside
<1> QED BY <1>2, <1>3, Zenon DEF Orderly, InOrder

\* A step that touches one PORT_TREE.
LEMMA UntouchedButOrderly ==
  ASSUME NEW b, NEW c, NEW p \in Ports, NEW t \in Trees, UntouchedBut(b, c, p, t), InOrder(b),
         PartFits(c, p, t), MustDisable(c, p, t) => MustDisable(b, p, t)
  PROVE  Orderly(b, c) /\ MessagesFade(b, c)
<1>1. SameFrame(b, c)
  BY Zenon DEF UntouchedBut
<1>2. ASSUME NEW q \in Ports, NEW s \in Trees
      PROVE  PartFits(c, q, s) /\ (MustDisable(c, q, s) => MustDisable(b, q, s))
  <2>1. CASE q = p /\ s = t
    BY <2>1, Zenon
  <2>2. CASE ~(q = p /\ s = t)
    <3>1. /\ SameInfo(b.pt[q][s], c.pt[q][s]) /\ SameRole(b.pt[q][s], c.pt[q][s])
          /\ SameHardware(b.pt[q][s], c.pt[q][s])
      BY <2>2, AlikeParts, Zenon DEF UntouchedBut
    <3>2. InfoFits(b, q, s) /\ LearnFits(b.pt[q][s]) /\ SwitchFits(b, q, s)
      BY Zenon DEF InOrder, PartFits
    <3> QED BY <1>1, <3>1, <3>2, InfoDecides, RoleDecides, HardwareDecides, Zenon DEF PartFits
  <2> QED BY <2>1, <2>2, Zenon
<1>3. Begun(c) /\ SameOutside(b, c)
  BY <1>1, FrameTrees, Zenon DEF InOrder, SameFrame, SameOutside
<1>4. MessagesFade(b, c)
  BY Zenon DEF UntouchedBut, MessagesFade
<1> QED BY <1>2, <1>3, <1>4, Zenon DEF Orderly, InOrder

-----------------------------------------------------------------------------
(***************************************************************************)
(* Port Information keeps the invariant.                                   *)
(***************************************************************************)
\* What the conditions of a transition say of the port.
LEMMA InformationGuards ==
  ASSUME NEW b \in Bridge, NEW p \in Ports, NEW t \in Trees, InfoFits(b, p, t),
         PortInformationNext(b, p, t) # "NONE"
  PROVE  LET x     == b.pt[p][t]
             state == PortInformationNext(b, p, t)
         IN  /\ state = "DISABLED" => ~x.updtInfo
             /\ state # "DISABLED" => ~b.BEGIN /\ b.port[p].portEnabled
             /\ state \notin {"DISABLED", "AGED"} =>
                  x.infoIs # "DISABLED" /\ (x.infoIs = "AGED" => state = "UPDATE")
             /\ state = "UPDATE" => x.selected /\ x.updtInfo
<1> DEFINE x       == b.pt[p][t]
           pis     == x.portInformationState
           state   == PortInformationNext(b, p, t)
           message == rcvdXstMsg(b, p, t)
           update  == updtXstInfo(b, p, t)
           off     == b.BEGIN \/ (~b.port[p].portEnabled /\ x.infoIs # "DISABLED")
<1>1. x.rcvdInfo \in RcvdInfos
  BY BridgeParts, PortTreeFields, Zenon
<1> state # "NONE"
  OBVIOUS
<1>2. off => state = "DISABLED"
  BY SMT DEF PortInformationNext
<1>6. ASSUME ~off
      PROVE  /\ pis # "NONE"
             /\ pis = "DISABLED" => \/ x.rcvdMsg /\ state = "DISABLED"
                                    \/ b.port[p].portEnabled /\ state = "AGED"
             /\ pis = "AGED" => state = "UPDATE" /\ x.selected /\ x.updtInfo
             /\ pis = "CURRENT" => \/ state = "UPDATE" /\ x.selected /\ x.updtInfo
                                   \/ state = "AGED" \/ state = "RECEIVE"
             /\ pis = "RECEIVE" => state = "NOT_DESIGNATED" \/ state = x.rcvdInfo
             /\ pis \notin {"DISABLED", "AGED", "CURRENT", "RECEIVE"} => state = "CURRENT"
  <2>1. state = CASE pis = "DISABLED" ->
                       IF x.rcvdMsg THEN "DISABLED"
                       ELSE IF b.port[p].portEnabled THEN "AGED" ELSE "NONE"
                  [] pis = "AGED" -> IF x.selected /\ x.updtInfo THEN "UPDATE" ELSE "NONE"
                  [] pis = "CURRENT" ->
                       IF x.selected /\ x.updtInfo THEN "UPDATE"
                       ELSE IF /\ x.infoIs = "RECEIVED" /\ x.rcvdInfoWhile = 0
                               /\ ~x.updtInfo /\ ~message
                       THEN "AGED"
                       ELSE IF message /\ ~update THEN "RECEIVE"
                       ELSE "NONE"
                  [] pis = "RECEIVE" ->
                       IF x.rcvdInfo = "INFERIOR_ROOT_ALTERNATE" THEN "NOT_DESIGNATED"
                       ELSE IF x.rcvdInfo = "UNKNOWN" THEN "NONE" ELSE x.rcvdInfo
                  [] pis = "NONE" -> "NONE"
                  [] OTHER -> "CURRENT"
    BY <1>6, SMT DEF PortInformationNext
  <2> HIDE DEF state, message, update
  <2>2. pis # "NONE" /\ (pis = "DISABLED" => \/ x.rcvdMsg /\ state = "DISABLED"
                                             \/ b.port[p].portEnabled /\ state = "AGED")
    BY <2>1, SMT
  <2>3. pis = "AGED" => state = "UPDATE" /\ x.selected /\ x.updtInfo
    BY <2>1, SMT
  <2>4. pis = "CURRENT" => \/ state = "UPDATE" /\ x.selected /\ x.updtInfo
                           \/ state = "AGED" \/ state = "RECEIVE"
    BY <2>1, SMT
  <2>5. pis = "RECEIVE" => state = "NOT_DESIGNATED" \/ state = x.rcvdInfo
    BY <2>1, SMT
  <2>6. pis \notin {"DISABLED", "AGED", "CURRENT", "RECEIVE"} => state = "CURRENT"
    BY <2>1, SMT
  <2> QED BY <2>2, <2>3, <2>4, <2>5, <2>6, Zenon
<1>3. StateFits(x) /\ NoUpdate(b, p, t)
  BY Zenon DEF InfoFits
<1> HIDE DEF state
<1>4. CASE off
  BY <1>2, <1>3, <1>4, SMT DEF NoUpdate, state
<1>5. CASE ~off
  <2>1. pis # "NONE" /\ (pis = "DISABLED" <=> x.infoIs = "DISABLED")
                     /\ (pis = "AGED" <=> x.infoIs = "AGED")
    BY <1>3, <1>5, <1>6, Zenon DEF StateFits
  <2>2. CASE pis = "DISABLED"
    <3>1. ~x.updtInfo
      BY <1>3, <2>1, <2>2, Zenon DEF NoUpdate
    <3> QED BY <1>5, <1>6, <2>1, <2>2, <3>1, SMT DEF state
  <2>3. CASE pis # "DISABLED"
    <3>1. state \notin {"DISABLED"}
      BY <1>1, <1>2, <1>5, <1>6, <2>3, SMT DEF RcvdInfos
    <3>2. state = "UPDATE" => x.selected /\ x.updtInfo
      BY <1>1, <1>2, <1>5, <1>6, <2>3, SMT DEF RcvdInfos
    <3>3. x.infoIs # "DISABLED" /\ b.port[p].portEnabled /\ ~b.BEGIN
      BY <1>5, <2>1, <2>3, Zenon
    <3>4. x.infoIs = "AGED" => state = "UPDATE"
      BY <1>5, <1>6, <2>1, Zenon
    <3> QED BY <3>1, <3>2, <3>3, <3>4, Zenon DEF state
  <2> QED BY <2>2, <2>3, Zenon
<1> QED BY <1>4, <1>5, Zenon

LEMMA PortInformationOrderly ==
  ASSUME NEW b \in Bridge, NEW p \in Ports, NEW t \in Trees, InOrder(b), t \in TreesOf(b),
         PortInformationNext(b, p, t) # "NONE"
  PROVE  Orderly(b, EnterPortInformation(b, p, t)) /\ MessagesFade(b, EnterPortInformation(b, p, t))
<1> DEFINE state == PortInformationNext(b, p, t)
           c     == EnterPortInformation(b, p, t)
           x     == b.pt[p][t]
           z     == c.pt[p][t]
<1>1. /\ UntouchedBut(b, c, p, t) /\ InfoMoves(x, z, state) /\ z.portInformationState = state
  BY PortInformationEnters, Zenon DEF InfoEnters
<1>2. /\ PartFits(b, p, t) /\ InfoFits(b, p, t) /\ StateFits(x) /\ SelectionFits(b, p, t)
      /\ NoUpdate(b, p, t)
  BY Zenon DEF InOrder, PartFits, InfoFits
<1>3. /\ state = "DISABLED" => ~x.updtInfo
      /\ state # "DISABLED" => ~b.BEGIN /\ b.port[p].portEnabled
      /\ state \notin {"DISABLED", "AGED"} =>
           x.infoIs # "DISABLED" /\ (x.infoIs = "AGED" => state = "UPDATE")
      /\ state = "UPDATE" => x.selected /\ x.updtInfo
  BY <1>2, InformationGuards, Zenon
<1>4. /\ SameFrame(b, c) /\ TreesOf(c) = TreesOf(b) /\ c.BEGIN = b.BEGIN /\ c.started = b.started
      /\ c.port[p].portEnabled = b.port[p].portEnabled
      /\ c.tree[t].portRoleSelectionState = b.tree[t].portRoleSelectionState
  BY <1>1, FrameTrees, Zenon DEF UntouchedBut, SameFrame
<1>5. state # "NONE" /\ x.infoIs \in InfoIs
  <2>1. x \in PortTree
    BY BridgeParts, Zenon
  <2> QED BY <2>1, Zenon DEF PortTree
<1> HIDE DEF state, c
<1>6. /\ state \in Reselecting => z.infoIs = InfoIsOf(state) /\ z.updtInfo = x.updtInfo /\ z.reselect
      /\ state \notin Reselecting => z.reselect = x.reselect /\ z.selected = x.selected
      /\ state = "UPDATE" => z.infoIs = "MINE" /\ ~z.updtInfo
      /\ state \notin Reselecting \cup {"UPDATE"} => z.infoIs = x.infoIs /\ z.updtInfo = x.updtInfo
      /\ state = "RECEIVE" => z.rcvdInfo # "UNKNOWN"
      /\ z.selectedRole = x.selectedRole
  BY <1>1, Zenon DEF InfoMoves
<1>7. StateFits(z)
  <2>1. CASE state \in Reselecting
    BY <1>1, <1>6, <2>1, SMT DEF StateFits, Reselecting, InfoIsOf
  <2>2. CASE state = "UPDATE"
    BY <1>1, <1>6, <2>2, SMT DEF StateFits
  <2>3. CASE state \notin Reselecting \cup {"UPDATE"}
    <3>1. state \notin {"DISABLED", "AGED", "UPDATE"}
      BY <2>3, Zenon DEF Reselecting
    <3>2. z.infoIs \notin {"DISABLED", "AGED"}
      BY <1>3, <1>6, <2>3, <3>1, Zenon
    <3> QED BY <1>1, <1>6, <3>1, <3>2, Zenon DEF StateFits
  <2> QED BY <2>1, <2>2, <2>3, Zenon
<1>8. SelectionFits(c, p, t)
  <2>1. CASE state \in Reselecting
    BY <1>6, <2>1, Zenon DEF SelectionFits
  <2>2. CASE state = "UPDATE"
    <3>1. state \notin Reselecting /\ state \notin {"DISABLED", "AGED"}
      BY <2>2, SMT DEF Reselecting
    <3>2. x.updtInfo /\ x.infoIs \in {"AGED", "MINE", "RECEIVED"}
      BY <1>3, <1>5, <2>2, <3>1, Zenon DEF InfoIs
    <3>3. RoleFits(x) => x.selectedRole = "DESIGNATED"
      BY <3>2, SMT DEF RoleFits
    <3>4. x.selectedRole = "DESIGNATED" => RoleFits(z)
      BY <1>6, <2>2, SMT DEF RoleFits
    <3>5. z.infoIs # "DISABLED"
      BY <1>6, <2>2, SMT
    <3> QED BY <1>2, <1>4, <1>6, <3>1, <3>3, <3>4, <3>5, Zenon DEF SelectionFits
  <2>3. CASE state \notin Reselecting \cup {"UPDATE"}
    <3>1. /\ z.infoIs = x.infoIs /\ z.updtInfo = x.updtInfo /\ z.selectedRole = x.selectedRole
          /\ z.reselect = x.reselect /\ z.selected = x.selected
      BY <1>6, <2>3, Zenon
    <3>2. RoleFits(x) => RoleFits(z)
      BY <3>1, SMT DEF RoleFits
    <3> QED BY <1>2, <1>4, <3>1, <3>2, Zenon DEF SelectionFits
  <2> QED BY <2>1, <2>2, <2>3, Zenon
<1>9. NoUpdate(c, p, t)
  <2>1. CASE state = "DISABLED"
    BY <1>3, <1>6, <2>1, SMT DEF NoUpdate, Reselecting
  <2>2. CASE state # "DISABLED"
    <3>1. ~c.BEGIN /\ c.port[p].portEnabled
      BY <1>3, <1>4, <2>2, Zenon
    <3>2. z.infoIs # "DISABLED"
      BY <1>3, <1>6, <2>2, SMT DEF Reselecting, InfoIsOf
    <3> QED BY <3>1, <3>2, Zenon DEF NoUpdate
  <2> QED BY <2>1, <2>2, Zenon
<1>10. InfoFits(c, p, t)
  BY <1>1, <1>4, <1>5, <1>7, <1>8, <1>9, Zenon DEF InfoFits
<1>11. LearnFits(z) /\ SwitchFits(c, p, t)
  <2>1. SameRole(x, z) /\ SameHardware(x, z) /\ LearnFits(x) /\ SwitchFits(b, p, t)
    BY <1>1, <1>2, Zenon DEF InfoMoves, PartFits
  <2> QED BY <1>4, <2>1, RoleDecides, HardwareDecides, Zenon
<1>12. MustDisable(c, p, t) => MustDisable(b, p, t)
  <2>1. CASE state = "DISABLED"
    <3>1. z.infoIs = "DISABLED" /\ z.portInformationState = "DISABLED"
      BY <1>1, <1>6, <2>1, SMT DEF Reselecting, InfoIsOf
    <3> QED BY <3>1, Zenon DEF MustDisable
  <2>2. CASE state # "DISABLED"
    BY <1>3, <1>4, <2>2, Zenon DEF MustDisable
  <2> QED BY <2>1, <2>2, Zenon
<1>13. Orderly(b, c) /\ MessagesFade(b, c)
  BY <1>1, <1>10, <1>11, <1>12, UntouchedButOrderly, Zenon DEF PartFits
<1> QED BY <1>13, Zenon DEF c

-----------------------------------------------------------------------------
(***************************************************************************)
(* Port Role Transitions: what a transition to state makes of the role.    *)
(***************************************************************************)
PortStates == {"MASTER_PORT", "ROOT_PORT", "DESIGNATED_PORT"}
LearnStates == {"MASTER_LEARN", "ROOT_LEARN", "DESIGNATED_LEARN"}
ForwardStates == {"MASTER_FORWARD", "ROOT_FORWARD", "DESIGNATED_FORWARD"}

RoleKept(x, z) == z.role = x.role /\ z.learn = x.learn /\ z.forward = x.forward

Halted(x, z, state) ==
  /\ ~z.learn /\ ~z.forward
  /\ RoleOfState(state) = "NONE" \/ (state \notin PortStates /\ z.role = x.role)

RoleMoves(x, z, state) ==
  /\ SameInfo(x, z) /\ SameHardware(x, z) /\ (z.rcvdMsg => x.rcvdMsg)
  /\ \/ Halted(x, z, state)
     \/ state \in PortStates /\ z.role = RoleOfState(state)
                             /\ z.learn = x.learn /\ z.forward = x.forward
     \/ state \in LearnStates /\ z.learn /\ z.role = x.role /\ z.forward = x.forward
     \/ state \in ForwardStates /\ z.forward /\ z.role = x.role /\ z.learn = x.learn
     \/ state \notin PortStates \cup LearnStates \cup ForwardStates /\ RoleKept(x, z)

\* what a transition to state asks of the port
RoleGuard(x, state) ==
  /\ state \in PortStates \/ RoleOfState(state) \in {"NONE", x.role}
  /\ state \in ForwardStates => x.learn

\* The roles that go with the states.
LEMMA RolesOfStates ==
  ASSUME NEW state
  PROVE  /\ state \in {"MASTER_PORT"} \cup MasterSteps => RoleOfState(state) = "MASTER"
         /\ state \in {"ROOT_PORT"} \cup RootSteps => RoleOfState(state) = "ROOT"
         /\ state \in {"DESIGNATED_PORT"} \cup DesignatedSteps => RoleOfState(state) = "DESIGNATED"
         /\ state \in {"INIT_PORT", "DISABLE_PORT", "DISABLED_PORT", "BLOCK_PORT", "ALTERNATE_PORT",
                       "NONE"} \cup AlternateSteps => RoleOfState(state) = "NONE"
         /\ RoleOfState(state) \in {"NONE"} \cup ActiveRoles
         /\ state \in PortStates \cup LearnStates \cup ForwardStates =>
              RoleOfState(state) \in ActiveRoles
  BY SMT DEF RoleOfState, MasterSteps, RootSteps, DesignatedSteps, AlternateSteps, ActiveRoles,
             PortStates, LearnStates, ForwardStates

\* A transition whose guard holds keeps the port in order.
LEMMA RoleMovesFit ==
  ASSUME NEW x, NEW z, NEW state, RoleMoves(x, z, state), RoleGuard(x, state), LearnFits(x),
         z.portRoleTransitionsState = state
  PROVE  LearnFits(z)
<1>1. (x.forward => x.learn) /\ (x.learn => x.role \in ActiveRoles)
  BY Zenon DEF LearnFits
<1>2. (state \in PortStates \/ RoleOfState(state) \in {"NONE", x.role})
      /\ (state \in ForwardStates => x.learn)
  BY Zenon DEF RoleGuard
<1>3. "NONE" \notin ActiveRoles
  BY Zenon DEF ActiveRoles
<1>4. state \notin PortStates => RoleOfState(state) \in {"NONE", x.role}
  BY <1>2, Zenon
<1>5. CASE Halted(x, z, state)
  <2>1. CASE state \in PortStates
    <3>1. RoleOfState(state) = "NONE"
      BY <1>5, <2>1, Zenon DEF Halted
    <3> QED BY <1>5, <3>1, Zenon DEF LearnFits, Halted
  <2>2. CASE state \notin PortStates
    BY <1>4, <1>5, <2>2, Zenon DEF LearnFits, Halted
  <2> QED BY <2>1, <2>2, Zenon
<1>6. CASE state \in PortStates /\ z.role = RoleOfState(state)
           /\ z.learn = x.learn /\ z.forward = x.forward
  BY <1>1, <1>6, RolesOfStates, Zenon DEF LearnFits
<1>7. CASE state \in LearnStates /\ z.learn /\ z.role = x.role /\ z.forward = x.forward
  <2>1. state \notin PortStates /\ RoleOfState(state) \in ActiveRoles
    BY <1>7, RolesOfStates, SMT DEF PortStates, LearnStates
  <2>2. RoleOfState(state) = x.role
    BY <1>3, <1>4, <2>1, Zenon
  <2> QED BY <1>7, <2>1, <2>2, Zenon DEF LearnFits
<1>8. CASE state \in ForwardStates /\ z.forward /\ z.role = x.role /\ z.learn = x.learn
  <2>1. state \notin PortStates
    BY <1>8, SMT DEF PortStates, ForwardStates
  <2>2. x.learn
    BY <1>2, <1>8, Zenon
  <2> QED BY <1>1, <1>4, <1>8, <2>1, <2>2, Zenon DEF LearnFits
<1>9. CASE state \notin PortStates \cup LearnStates \cup ForwardStates /\ RoleKept(x, z)
  <2>1. state \notin PortStates
    BY <1>9, Zenon
  <2> QED BY <1>1, <1>4, <1>9, <2>1, Zenon DEF LearnFits, RoleKept
<1> QED BY <1>5, <1>6, <1>7, <1>8, <1>9, Zenon DEF RoleMoves

\* The entry blocks that touch one PORT_TREE only.
LEMMA EnteredRoleMoves ==
  ASSUME NEW b \in Bridge, NEW p \in Ports, NEW x \in PortTree, NEW state
  PROVE  RoleMoves(x, EnteredPortTree(b, p, x, state), state)
<1> DEFINE double == 2 * HelloTime(b, p)
           triple == 3 * HelloTime(b, p)
           fwd    == FwdDelay(b, p)
           age    == MaxAge(b, p)
           delay  == forwardDelay(b, p)
           send   == b.port[p].sendRSTP
           back   == [x EXCEPT !.rbWhile = IF x.disputed THEN triple ELSE @]
           z      == EnteredPortTree(b, p, x, state)
           RoleOnly(v) == SameInfo(x, v) /\ SameHardware(x, v) /\ v.rcvdMsg = x.rcvdMsg
           Quieted(v) == RoleOnly(v) /\ v.learn = FALSE /\ v.forward = FALSE
<1>1. z = CASE state = "INIT_PORT" ->
             [x EXCEPT !.role = "DISABLED", !.learn = FALSE, !.forward = FALSE, !.synced = FALSE,
                       !.sync = TRUE, !.reRoot = TRUE, !.rrWhile = fwd,
                       !.fdWhile = age, !.rbWhile = 0]
        [] state = "DISABLE_PORT" ->
             [x EXCEPT !.role = "DISABLED", !.learn = FALSE, !.forward = FALSE]
        [] state = "DISABLED_PORT" ->
             [x EXCEPT !.fdWhile = age, !.synced = TRUE, !.rrWhile = 0, !.sync = FALSE,
                       !.reRoot = FALSE]
        [] state = "ALTERNATE_PORT" ->
             [x EXCEPT !.fdWhile = delay, !.synced = TRUE, !.rrWhile = 0, !.sync = FALSE,
                       !.reRoot = FALSE]
        [] state = "MASTER_PORT"     -> [x EXCEPT !.role = "MASTER"]
        [] state = "ROOT_PORT"       -> [x EXCEPT !.role = "ROOT", !.rrWhile = fwd]
        [] state = "DESIGNATED_PORT" -> [x EXCEPT !.role = "DESIGNATED"]
        [] state = "BLOCK_PORT" ->
             [x EXCEPT !.role = x.selectedRole, !.learn = FALSE, !.forward = FALSE]
        [] state = "BACKUP_PORT"     -> [x EXCEPT !.rbWhile = double]
        [] state \in {"MASTER_AGREED", "ROOT_AGREED", "DESIGNATED_AGREE"} -> Agrees(x)
        [] state = "ALTERNATE_AGREED" -> [x EXCEPT !.proposed = FALSE, !.agree = TRUE]
        [] state \in {"MASTER_SYNCED", "DESIGNATED_SYNCED"} ->
             [x EXCEPT !.rrWhile = 0, !.synced = TRUE, !.sync = FALSE]
        [] state = "ROOT_SYNCED" -> [x EXCEPT !.synced = TRUE, !.sync = FALSE]
        [] state \in {"MASTER_RETIRED", "DESIGNATED_RETIRED", "REROOTED"} ->
             [x EXCEPT !.reRoot = FALSE]
        [] state \in {"MASTER_FORWARD", "DESIGNATED_FORWARD"} ->
             [x EXCEPT !.forward = TRUE, !.fdWhile = 0, !.agreed = send]
        [] state = "ROOT_FORWARD" -> [x EXCEPT !.forward = TRUE, !.fdWhile = 0]
        [] state \in {"MASTER_LEARN", "ROOT_LEARN", "DESIGNATED_LEARN"} ->
             [x EXCEPT !.learn = TRUE, !.fdWhile = delay]
        [] state \in {"MASTER_DISCARD", "DESIGNATED_DISCARD"} -> Discards(x, delay)
        [] state = "ROOT_DISCARD" -> Discards(back, fwd)
        [] OTHER -> x
  BY DEF EnteredPortTree
<1>2. back \in PortTree /\ SameInfo(x, back) /\ SameHardware(x, back) /\ back.rcvdMsg = x.rcvdMsg
      /\ back.role = x.role
  <2> DEFINE rb == IF x.disputed THEN triple ELSE x.rbWhile
             v  == [x EXCEPT !.rbWhile = rb]
  <2>1. rb \in Nat
    BY DelaysTyped, PortTreeFields, Zenon
  <2>2. back = v
    OBVIOUS
  <2> HIDE DEF rb
  <2>3. v \in PortTree /\ SameInfo(x, v) /\ SameHardware(x, v) /\ v.rcvdMsg = x.rcvdMsg
        /\ v.role = x.role
    BY <2>1, ZenonT(60) DEF PortTree, SameInfo, SameHardware
  <2> HIDE DEF v
  <2> QED BY <2>2, <2>3, Zenon
<1> HIDE DEF double, triple, fwd, age, delay, send, back, z
<1>3. CASE state \in {"INIT_PORT", "DISABLE_PORT", "BLOCK_PORT"}
  <2>1. /\ Quieted([x EXCEPT !.role = "DISABLED", !.learn = FALSE, !.forward = FALSE,
                            !.synced = FALSE, !.sync = TRUE, !.reRoot = TRUE, !.rrWhile = fwd,
                            !.fdWhile = age, !.rbWhile = 0])
        /\ Quieted([x EXCEPT !.role = "DISABLED", !.learn = FALSE, !.forward = FALSE])
        /\ Quieted([x EXCEPT !.role = x.selectedRole, !.learn = FALSE, !.forward = FALSE])
    BY ZenonT(60) DEF PortTree, SameInfo, SameHardware
  <2> HIDE DEF Quieted
  <2>2. Quieted(z)
    <3>1. CASE state = "INIT_PORT"
      BY <1>1, <2>1, <3>1
    <3>2. CASE state = "DISABLE_PORT"
      BY <1>1, <2>1, <3>2
    <3>3. CASE state = "BLOCK_PORT"
      BY <1>1, <2>1, <3>3
    <3> QED BY <1>3, <3>1, <3>2, <3>3, Zenon
  <2>3. RoleOfState(state) = "NONE"
    BY <1>3, RolesOfStates, Zenon
  <2>4. RoleOnly(z) /\ ~z.learn /\ ~z.forward
    BY <2>2, Zenon DEF Quieted
  <2>5. Halted(x, z, state)
    BY <2>3, <2>4, Zenon DEF Halted
  <2>6. SameInfo(x, z) /\ SameHardware(x, z) /\ (z.rcvdMsg => x.rcvdMsg)
    BY <2>4, Zenon
  <2>7. RoleMoves(x, z, state)
    BY <2>5, <2>6, Zenon DEF RoleMoves
  <2> QED BY <2>7, Zenon DEF z
<1>4. CASE state \in {"MASTER_DISCARD", "DESIGNATED_DISCARD", "ROOT_DISCARD"}
  <2>1. ASSUME NEW y \in PortTree, NEW d, RoleOnly(y), y.role = x.role
        PROVE  Quieted(Discards(y, d)) /\ Discards(y, d).role = x.role
    <3> DEFINE v == Discards(y, d)
    <3>1. SameInfo(y, v) /\ SameHardware(y, v) /\ v.rcvdMsg = y.rcvdMsg /\ v.role = y.role
          /\ v.learn = FALSE /\ v.forward = FALSE
      BY ZenonT(60) DEF PortTree, Discards, SameInfo, SameHardware
    <3> HIDE DEF v
    <3>2. Quieted(v) /\ v.role = x.role
      BY <2>1, <3>1, Zenon DEF SameInfo, SameHardware
    <3> QED BY <3>2, Zenon DEF v
  <2>2. RoleOnly(x)
    BY Zenon DEF SameInfo, SameHardware
  <2>3. Quieted(z) /\ z.role = x.role
    <3> HIDE DEF Quieted
    <3>1. CASE state = "ROOT_DISCARD"
      <4>1. z = Discards(back, fwd)
        BY <1>1, <3>1
      <4> QED BY <1>2, <2>1, <4>1, Zenon
    <3>2. CASE state \in {"MASTER_DISCARD", "DESIGNATED_DISCARD"}
      <4>1. z = Discards(x, delay)
        BY <1>1, <3>2, SMT
      <4> QED BY <2>1, <2>2, <4>1, Zenon
    <3> QED BY <1>4, <3>1, <3>2, Zenon
  <2>4. RoleOnly(z) /\ ~z.learn /\ ~z.forward /\ z.role = x.role
    BY <2>3, Zenon
  <2>5. state \notin PortStates
    BY <1>4, SMT DEF PortStates
  <2> QED BY <2>4, <2>5, Zenon DEF RoleMoves, Halted, z
<1>5. CASE state \in PortStates
  <2> DEFINE Into(v, role) == RoleOnly(v) /\ v.role = role /\ v.learn = x.learn
                              /\ v.forward = x.forward
  <2>1. /\ Into([x EXCEPT !.role = "MASTER"], "MASTER")
        /\ Into([x EXCEPT !.role = "ROOT", !.rrWhile = fwd], "ROOT")
        /\ Into([x EXCEPT !.role = "DESIGNATED"], "DESIGNATED")
    BY ZenonT(60) DEF PortTree, SameInfo, SameHardware
  <2> HIDE DEF Into
  <2>2. Into(z, RoleOfState(state))
    <3>1. CASE state = "MASTER_PORT"
      BY <1>1, <2>1, <3>1, RolesOfStates
    <3>2. CASE state = "ROOT_PORT"
      BY <1>1, <2>1, <3>2, RolesOfStates
    <3>3. CASE state = "DESIGNATED_PORT"
      BY <1>1, <2>1, <3>3, RolesOfStates
    <3> QED BY <1>5, <3>1, <3>2, <3>3, Zenon DEF PortStates
  <2> QED BY <1>5, <2>2, Zenon DEF RoleMoves, Into, z
<1>6. CASE state \in LearnStates
  <2> DEFINE v == [x EXCEPT !.learn = TRUE, !.fdWhile = delay]
  <2>1. RoleOnly(v) /\ v.learn = TRUE /\ v.role = x.role /\ v.forward = x.forward
    BY ZenonT(60) DEF PortTree, SameInfo, SameHardware
  <2>2. z = v
    BY <1>1, <1>6, SMT DEF LearnStates
  <2> HIDE DEF v
  <2> QED BY <1>6, <2>1, <2>2, Zenon DEF RoleMoves, z
<1>7. CASE state \in ForwardStates
  <2> DEFINE v == [x EXCEPT !.forward = TRUE, !.fdWhile = 0, !.agreed = send]
             w == [x EXCEPT !.forward = TRUE, !.fdWhile = 0]
             On(r) == RoleOnly(r) /\ r.forward = TRUE /\ r.role = x.role /\ r.learn = x.learn
  <2>1. On(v) /\ On(w)
    BY ZenonT(60) DEF PortTree, SameInfo, SameHardware
  <2>2. z = v \/ z = w
    <3>1. CASE state = "ROOT_FORWARD"
      BY <1>1, <3>1
    <3>2. CASE state = "MASTER_FORWARD"
      BY <1>1, <3>2
    <3>3. CASE state = "DESIGNATED_FORWARD"
      BY <1>1, <3>3
    <3> QED BY <1>7, <3>1, <3>2, <3>3, Zenon DEF ForwardStates
  <2> HIDE DEF v, w, On
  <2>3. On(z)
    BY <2>1, <2>2, Zenon
  <2> QED BY <1>7, <2>3, Zenon DEF RoleMoves, On, z
<1>8. CASE state \notin {"INIT_PORT", "DISABLE_PORT", "BLOCK_PORT", "MASTER_DISCARD",
                         "DESIGNATED_DISCARD", "ROOT_DISCARD"} \cup PortStates \cup LearnStates
                        \cup ForwardStates
  <2> DEFINE On(r) == RoleOnly(r) /\ RoleKept(x, r)
  <2>1. /\ On([x EXCEPT !.fdWhile = age, !.synced = TRUE, !.rrWhile = 0, !.sync = FALSE,
                       !.reRoot = FALSE])
        /\ On([x EXCEPT !.fdWhile = delay, !.synced = TRUE, !.rrWhile = 0, !.sync = FALSE,
                       !.reRoot = FALSE])
        /\ On([x EXCEPT !.rbWhile = double])
        /\ On(Agrees(x)) /\ On(x)
    BY ZenonT(60) DEF PortTree, SameInfo, SameHardware, RoleKept, Agrees
  <2>2. /\ On([x EXCEPT !.proposed = FALSE, !.agree = TRUE])
        /\ On([x EXCEPT !.rrWhile = 0, !.synced = TRUE, !.sync = FALSE])
        /\ On([x EXCEPT !.synced = TRUE, !.sync = FALSE])
        /\ On([x EXCEPT !.reRoot = FALSE])
    BY ZenonT(60) DEF PortTree, SameInfo, SameHardware, RoleKept
  <2> HIDE DEF On
  <2>3. On(z)
    BY <1>1, <1>8, <2>1, <2>2, ZenonT(60) DEF PortStates, LearnStates, ForwardStates
  <2> QED BY <1>8, <2>3, Zenon DEF RoleMoves, On, z
<1> QED BY <1>3, <1>4, <1>5, <1>6, <1>7, <1>8, Zenon

LEMMA RoleMovesAround ==
  ASSUME NEW x, NEW y, NEW z, NEW state, RoleMoves(x, y, state), Fades(y, z)
  PROVE  RoleMoves(x, z, state)
<1>1. /\ z.role = y.role /\ z.learn = y.learn /\ z.forward = y.forward
      /\ SameInfo(y, z) /\ SameHardware(y, z) /\ (z.rcvdMsg => y.rcvdMsg)
  BY Zenon DEF Fades, Alike, SameInfo, SameHardware
<1>2. SameInfo(x, z) /\ SameHardware(x, z) /\ (z.rcvdMsg => x.rcvdMsg)
  BY <1>1, Zenon DEF RoleMoves, SameInfo, SameHardware
<1> QED BY <1>1, <1>2, Zenon DEF RoleMoves, Halted, RoleKept

\* Every entry block of Port Role Transitions.
LEMMA RoleBlocksMove ==
  ASSUME NEW b \in Bridge, NEW p \in Ports, NEW t \in Trees, NEW state
  PROVE  LET c == RoleTransitionsEnter(b, p, t, state)
         IN  UntouchedBut(b, c, p, t) /\ RoleMoves(b.pt[p][t], c.pt[p][t], state)
<1> DEFINE x   == b.pt[p][t]
           own == SetPortTree(b, p, t, EnteredPortTree(b, p, x, state))
           c   == RoleTransitionsEnter(b, p, t, state)
           Good(d) == UntouchedBut(b, d, p, t) /\ RoleMoves(x, d.pt[p][t], state)
<1>1. own \in Bridge /\ Good(own)
  <2> DEFINE z == EnteredPortTree(b, p, x, state)
  <2>1. x \in PortTree
    BY BridgeParts, Zenon
  <2>2. z \in PortTree /\ RoleMoves(x, z, state)
    BY <2>1, EnteredPortTreeTyped, EnteredRoleMoves, Zenon
  <2> HIDE DEF z
  <2>3. z.rcvdMsg => b.pt[p][t].rcvdMsg
    BY <2>2, Zenon DEF RoleMoves
  <2>4. UntouchedBut(b, SetPortTree(b, p, t, z), p, t) /\ SetPortTree(b, p, t, z).pt[p][t] = z
    BY <2>3, SetPortTreeUntouchedBut
  <2>5. SetPortTree(b, p, t, z) \in Bridge
    BY <2>2, SetPortTreeTyped, Zenon
  <2> QED BY <2>2, <2>4, <2>5, Zenon DEF z
<1> HIDE DEF own
<1>2. CASE state \in {"MASTER_PROPOSED", "ROOT_PROPOSED", "ALTERNATE_PROPOSED", "REROOT",
                      "DESIGNATED_PROPOSE"}
  <2>1. Untouched(b, setReRootTree(b, t))
    BY TreeProceduresUntouched, Zenon
  <2>2. Untouched(b, EnterProposed(b, p, t))
    <3> DEFINE b1 == setSyncTree(b, t)
    <3>1. b1 \in Bridge /\ Untouched(b, b1)
      BY setSyncTreeTyped, TreeProceduresUntouched, Zenon
    <3> HIDE DEF b1
    <3>2. Fades(b1.pt[p][t], [b1.pt[p][t] EXCEPT !.proposed = FALSE])
      <4>1. b1.pt[p][t] \in PortTree
        BY <3>1, BridgeParts, Zenon
      <4> QED BY <4>1, ZenonT(60) DEF PortTree, Fades, Alike
    <3>3. Untouched(b1, SetPortTree(b1, p, t, [b1.pt[p][t] EXCEPT !.proposed = FALSE]))
      BY <3>1, <3>2, SetPortTreeUntouched, Zenon
    <3> QED BY <3>1, <3>3, UntouchedTwice, Zenon DEF EnterProposed, b1
  <2>3. Untouched(b, EnterDesignatedPropose(b, p, t))
    <3> DEFINE b1 == SetPortTree(b, p, t, [b.pt[p][t] EXCEPT !.proposing = TRUE])
               b2 == SetPort(b1, p, [b1.port[p] EXCEPT !.edgeDelayWhile = EdgeDelay(b, p)])
    <3>1. b1 \in Bridge /\ Untouched(b, b1)
      <4>1. x \in PortTree
        BY BridgeParts, Zenon
      <4> HIDE DEF x
      <4>2. [x EXCEPT !.proposing = TRUE] \in PortTree /\ Fades(x, [x EXCEPT !.proposing = TRUE])
        BY <4>1, ZenonT(60) DEF PortTree, Fades, Alike
      <4> QED BY <4>2, SetPortTreeTyped, SetPortTreeUntouched, Zenon DEF x
    <3> HIDE DEF b1
    <3>2. b2 \in Bridge /\ Untouched(b, b2)
      <4>1. b1.port[p] \in Port /\ EdgeDelay(b, p) \in Nat
        BY <3>1, BridgeParts, CistIsTree, HelloTimeTyped, Zenon
      <4>2. /\ [b1.port[p] EXCEPT !.edgeDelayWhile = EdgeDelay(b, p)] \in Port
            /\ AlikePort(b1.port[p], [b1.port[p] EXCEPT !.edgeDelayWhile = EdgeDelay(b, p)])
        BY <4>1, ZenonT(60) DEF Port, AlikePort
      <4>3. b2 \in Bridge /\ Untouched(b1, b2)
        BY <3>1, <4>2, SetPortTyped, PortUpdated, Zenon
      <4> QED BY <3>1, <4>3, UntouchedTwice, Zenon
    <3> HIDE DEF b2
    <3>3. Untouched(b, SetNewInfo(b1, p, t)) /\ Untouched(b, SetNewInfo(b2, p, t))
      BY <3>1, <3>2, FlagProceduresUntouched, UntouchedTwice, Zenon
    <3> QED BY <3>3, Zenon DEF EnterDesignatedPropose, b1, b2
  <2>4. c \in {EnterProposed(b, p, t), setReRootTree(b, t), EnterDesignatedPropose(b, p, t)}
    BY <1>2, SMT DEF RoleTransitionsEnter
  <2> HIDE DEF c
  <2>5. Untouched(b, c)
    BY <2>1, <2>2, <2>3, <2>4, Zenon
  <2>6. state \notin PortStates \cup LearnStates \cup ForwardStates
    BY <1>2, SMT DEF PortStates, LearnStates, ForwardStates
  <2>7. UntouchedBut(b, c, p, t)
    BY <2>5, UntouchedWeaker, Zenon
  <2>8. RoleMoves(x, c.pt[p][t], state)
    <3>1. Fades(x, c.pt[p][t])
      BY <2>5, Zenon DEF Untouched
    <3>2. SameInfo(x, c.pt[p][t]) /\ SameHardware(x, c.pt[p][t]) /\ RoleKept(x, c.pt[p][t])
      BY <3>1, Zenon DEF Fades, Alike, SameInfo, SameHardware, RoleKept
    <3> QED BY <2>6, <3>1, <3>2, Zenon DEF RoleMoves, Fades
  <2> QED BY <2>7, <2>8, Zenon DEF c
<1>3. CASE state \in {"ROOT_AGREED", "DESIGNATED_AGREE", "ALTERNATE_AGREED"}
  <2>1. c = SetNewInfo(own, p, t)
    BY <1>3, SMT DEF RoleTransitionsEnter, own
  <2>2. Untouched(own, c)
    BY <1>1, <2>1, FlagProceduresUntouched, Zenon
  <2> HIDE DEF c
  <2>3. UntouchedBut(b, c, p, t)
    BY <1>1, <2>2, UntouchedWeaker, UntouchedButTwice, Zenon
  <2>4. Fades(own.pt[p][t], c.pt[p][t])
    BY <2>2, Zenon DEF Untouched
  <2>5. RoleMoves(x, c.pt[p][t], state)
    BY <1>1, <2>4, RoleMovesAround, Zenon
  <2> QED BY <2>3, <2>5, Zenon DEF c
<1>4. CASE state \notin {"MASTER_PROPOSED", "ROOT_PROPOSED", "ALTERNATE_PROPOSED", "REROOT",
                         "DESIGNATED_PROPOSE", "ROOT_AGREED", "DESIGNATED_AGREE",
                         "ALTERNATE_AGREED"}
  <2>1. c = own
    BY <1>4, SMT DEF RoleTransitionsEnter, own
  <2> QED BY <1>1, <2>1, Zenon
<1> QED BY <1>2, <1>3, <1>4, Zenon

\* What the conditions of a transition say of the role: the exits of an active role's
\* states stay with the role, and forwarding follows learning.
LEMMA ExitsGuarded ==
  ASSUME NEW b, NEW p, NEW t
  PROVE  /\ MasterPortExit(b, p, t) \in MasterSteps \cup {"NONE"}
         /\ MasterPortExit(b, p, t) = "MASTER_FORWARD" => b.pt[p][t].learn
         /\ RootPortExit(b, p, t) \in RootSteps \cup {"ROOT_PORT", "NONE"}
         /\ RootPortExit(b, p, t) = "ROOT_FORWARD" => b.pt[p][t].learn
         /\ DesignatedPortExit(b, p, t) \in DesignatedSteps \cup {"NONE"}
         /\ DesignatedPortExit(b, p, t) = "DESIGNATED_FORWARD" => b.pt[p][t].learn
         /\ AlternatePortExit(b, p, t) \in AlternateSteps \cup {"ALTERNATE_PORT", "NONE"}
         /\ DisabledPortExit(b, p, t) \in {"DISABLED_PORT", "NONE"}
<1>1. MasterPortExit(b, p, t) \in MasterSteps \cup {"NONE"}
  BY ZenonT(60) DEF MasterPortExit, MasterSteps
<1>2. MasterPortExit(b, p, t) = "MASTER_FORWARD" => b.pt[p][t].learn
  BY SMTT(60) DEF MasterPortExit
<1>3. RootPortExit(b, p, t) \in RootSteps \cup {"ROOT_PORT", "NONE"}
  BY ZenonT(60) DEF RootPortExit, RootSteps
<1>4. RootPortExit(b, p, t) = "ROOT_FORWARD" => b.pt[p][t].learn
  BY SMTT(60) DEF RootPortExit
<1>5. DesignatedPortExit(b, p, t) \in DesignatedSteps \cup {"NONE"}
  BY ZenonT(60) DEF DesignatedPortExit, DesignatedSteps
<1>6. DesignatedPortExit(b, p, t) = "DESIGNATED_FORWARD" => b.pt[p][t].learn
  BY SMTT(60) DEF DesignatedPortExit
<1>7. AlternatePortExit(b, p, t) \in AlternateSteps \cup {"ALTERNATE_PORT", "NONE"}
  BY ZenonT(60) DEF AlternatePortExit, AlternateSteps
<1>8. DisabledPortExit(b, p, t) \in {"DISABLED_PORT", "NONE"}
  BY SMT DEF DisabledPortExit
<1> QED BY <1>1, <1>2, <1>3, <1>4, <1>5, <1>6, <1>7, <1>8, Zenon

LEMMA RoleGuards ==
  ASSUME NEW b, NEW p, NEW t, LearnFits(b.pt[p][t])
  PROVE  RoleGuard(b.pt[p][t], RoleTransitionsNext(b, p, t))
<1> DEFINE x     == b.pt[p][t]
           prt   == x.portRoleTransitionsState
           state == RoleTransitionsNext(b, p, t)
           plain == {"INIT_PORT", "DISABLE_PORT", "DISABLED_PORT", "BLOCK_PORT", "ALTERNATE_PORT",
                     "NONE"} \cup AlternateSteps
           exits == {MasterPortExit(b, p, t), RootPortExit(b, p, t), DesignatedPortExit(b, p, t)}
<1>1. EntryState(x.selectedRole) \in plain \cup PortStates
  BY SMT DEF EntryState, PortStates
<1>2. \/ state \in plain \cup PortStates
      \/ prt = "MASTER_PORT" /\ state = MasterPortExit(b, p, t)
      \/ prt = "ROOT_PORT" /\ state = RootPortExit(b, p, t)
      \/ prt = "DESIGNATED_PORT" /\ state = DesignatedPortExit(b, p, t)
  <2> DEFINE guarded == GuardedExit(b, p, t)
             entry   == EntryState(x.selectedRole)
  <2>1. \/ guarded \in plain
        \/ prt = "MASTER_PORT" /\ guarded = MasterPortExit(b, p, t)
        \/ prt = "ROOT_PORT" /\ guarded = RootPortExit(b, p, t)
        \/ prt = "DESIGNATED_PORT" /\ guarded = DesignatedPortExit(b, p, t)
    BY ExitsGuarded, SMT DEF GuardedExit
  <2>2. \/ state \in {"NONE", "INIT_PORT", "DISABLE_PORT", "ALTERNATE_PORT"} \cup PortStates
        \/ state = entry \/ state = guarded
    BY SMT DEF RoleTransitionsNext, PortStates
  <2> HIDE DEF guarded, entry, state, x
  <2>3. {"NONE", "INIT_PORT", "DISABLE_PORT", "ALTERNATE_PORT"} \subseteq plain
    BY SMT
  <2> QED BY <1>1, <2>1, <2>2, <2>3, Zenon DEF entry
<1> HIDE DEF state
<1>3. RoleOfState(prt) \in {"NONE", x.role}
  BY Zenon DEF LearnFits
<1>4. CASE state \in plain
  <2>1. RoleOfState(state) = "NONE"
    BY <1>4, RolesOfStates, Zenon
  <2>2. state \notin ForwardStates
    BY <1>4, SMT DEF ForwardStates, AlternateSteps
  <2> QED BY <2>1, <2>2, Zenon DEF RoleGuard, state
<1>5. CASE state \in PortStates
  <2>1. state \notin ForwardStates
    BY <1>5, SMT DEF PortStates, ForwardStates
  <2> QED BY <1>5, <2>1, Zenon DEF RoleGuard, state
<1>6. CASE prt = "MASTER_PORT" /\ state = MasterPortExit(b, p, t)
  <2>1. state \in MasterSteps \cup {"NONE"} /\ (state = "MASTER_FORWARD" => x.learn)
    BY <1>6, ExitsGuarded, Zenon
  <2>2. RoleOfState(prt) = "MASTER" /\ RoleOfState(state) \in {"MASTER", "NONE"}
    BY <1>6, <2>1, RolesOfStates, Zenon
  <2>3. x.role = "MASTER"
    BY <1>3, <2>2, SMT
  <2>4. state \in ForwardStates => state = "MASTER_FORWARD"
    BY <2>1, SMT DEF ForwardStates, MasterSteps
  <2>5. RoleOfState(state) \in {"NONE", x.role} /\ (state \in ForwardStates => x.learn)
    BY <2>1, <2>2, <2>3, <2>4, Zenon
  <2> QED BY <2>5, Zenon DEF RoleGuard, state
<1>7. CASE prt = "ROOT_PORT" /\ state = RootPortExit(b, p, t)
  <2>1. state \in RootSteps \cup {"ROOT_PORT", "NONE"} /\ (state = "ROOT_FORWARD" => x.learn)
    BY <1>7, ExitsGuarded, Zenon
  <2>2. RoleOfState(prt) = "ROOT" /\ RoleOfState(state) \in {"ROOT", "NONE"}
    BY <1>7, <2>1, RolesOfStates, Zenon
  <2>3. x.role = "ROOT"
    BY <1>3, <2>2, SMT
  <2>4. state \in ForwardStates => state = "ROOT_FORWARD"
    BY <2>1, SMT DEF ForwardStates, RootSteps
  <2>5. RoleOfState(state) \in {"NONE", x.role} /\ (state \in ForwardStates => x.learn)
    BY <2>1, <2>2, <2>3, <2>4, Zenon
  <2> QED BY <2>5, Zenon DEF RoleGuard, state
<1>8. CASE prt = "DESIGNATED_PORT" /\ state = DesignatedPortExit(b, p, t)
  <2>1. state \in DesignatedSteps \cup {"NONE"} /\ (state = "DESIGNATED_FORWARD" => x.learn)
    BY <1>8, ExitsGuarded, Zenon
  <2>2. RoleOfState(prt) = "DESIGNATED" /\ RoleOfState(state) \in {"DESIGNATED", "NONE"}
    BY <1>8, <2>1, RolesOfStates, Zenon
  <2>3. x.role = "DESIGNATED"
    BY <1>3, <2>2, SMT
  <2>4. state \in ForwardStates => state = "DESIGNATED_FORWARD"
    BY <2>1, SMT DEF ForwardStates, DesignatedSteps
  <2>5. RoleOfState(state) \in {"NONE", x.role} /\ (state \in ForwardStates => x.learn)
    BY <2>1, <2>2, <2>3, <2>4, Zenon
  <2> QED BY <2>5, Zenon DEF RoleGuard, state
<1> QED BY <1>2, <1>4, <1>5, <1>6, <1>7, <1>8, Zenon

\* Port Role Transitions keeps the invariant.
LEMMA RoleTransitionsOrderly ==
  ASSUME NEW b \in Bridge, NEW p \in Ports, NEW t \in Trees, InOrder(b)
  PROVE  Orderly(b, EnterRoleTransitions(b, p, t)) /\ MessagesFade(b, EnterRoleTransitions(b, p, t))
<1> DEFINE x     == b.pt[p][t]
           state == RoleTransitionsNext(b, p, t)
           e     == RoleTransitionsEnter(b, p, t, state)
           y     == e.pt[p][t]
           z     == [y EXCEPT !.portRoleTransitionsState = state]
           c     == SetPortTree(e, p, t, z)
<1>1. EnterRoleTransitions(b, p, t) = c
  BY DEF EnterRoleTransitions
<1>2. PartFits(b, p, t) /\ LearnFits(x) /\ InfoFits(b, p, t) /\ SwitchFits(b, p, t)
  BY Zenon DEF InOrder, PartFits
<1>3. RoleGuard(x, state)
  BY <1>2, RoleGuards, Zenon
<1> HIDE DEF state
<1>4. e \in Bridge /\ UntouchedBut(b, e, p, t) /\ RoleMoves(x, y, state)
  BY RoleTransitionsEnterTyped, RoleBlocksMove, Zenon
<1> HIDE DEF e
<1>5. y \in PortTree
  BY <1>4, BridgeParts, Zenon
<1> HIDE DEF y, x
<1>6. /\ z.portRoleTransitionsState = state /\ SameInfo(y, z) /\ SameHardware(y, z)
      /\ RoleKept(y, z) /\ z.rcvdMsg = y.rcvdMsg
  BY <1>5, ZenonT(60) DEF PortTree, SameInfo, SameHardware, RoleKept
<1> HIDE DEF z
<1>7. RoleMoves(x, z, state)
  <2>1. SameInfo(x, z) /\ SameHardware(x, z) /\ (z.rcvdMsg => x.rcvdMsg)
    BY <1>4, <1>6, Zenon DEF RoleMoves, SameInfo, SameHardware
  <2> QED BY <1>4, <1>6, <2>1, Zenon DEF RoleMoves, Halted, RoleKept
<1>8. UntouchedBut(b, c, p, t) /\ c.pt[p][t] = z
  <2>1. z.rcvdMsg => e.pt[p][t].rcvdMsg
    BY <1>6, Zenon DEF y
  <2>2. UntouchedBut(e, SetPortTree(e, p, t, z), p, t) /\ SetPortTree(e, p, t, z).pt[p][t] = z
    BY <1>4, <2>1, SetPortTreeUntouchedBut
  <2> HIDE DEF c
  <2>3. UntouchedBut(e, c, p, t) /\ c.pt[p][t] = z
    BY <2>2, Zenon DEF c
  <2> QED BY <1>4, <2>3, UntouchedButTwice, Zenon
<1> HIDE DEF c
<1>9. LearnFits(z)
  BY <1>2, <1>3, <1>6, <1>7, RoleMovesFit, Zenon
<1>10. SameInfo(b.pt[p][t], c.pt[p][t]) /\ SameHardware(b.pt[p][t], c.pt[p][t])
  BY <1>7, <1>8, Zenon DEF RoleMoves, x
<1>11. SameFrame(b, c)
  BY <1>8, Zenon DEF UntouchedBut
<1>12. InfoFits(c, p, t) /\ SwitchFits(c, p, t) /\ (MustDisable(c, p, t) => MustDisable(b, p, t))
  BY <1>2, <1>10, <1>11, InfoDecides, HardwareDecides, Zenon
<1>13. Orderly(b, c) /\ MessagesFade(b, c)
  BY <1>8, <1>9, <1>12, UntouchedButOrderly, Zenon DEF PartFits
<1> QED BY <1>1, <1>13, Zenon

-----------------------------------------------------------------------------
\* Port State Transition keeps the invariant.
LEMMA StateTransitionOrderly ==
  ASSUME NEW b \in Bridge, NEW p \in Ports, NEW t \in Trees, InOrder(b), t \in TreesOf(b),
         b.started, StateTransitionNext(b, p, t) # "NONE"
  PROVE  Orderly(b, EnterStateTransition(b, p, t)) /\ MessagesFade(b, EnterStateTransition(b, p, t))
<1> DEFINE x     == b.pt[p][t]
           state == StateTransitionNext(b, p, t)
           y     == CASE state = "DISCARDING" -> [x EXCEPT !.learning = FALSE, !.forwarding = FALSE]
                      [] state = "LEARNING"   -> [x EXCEPT !.learning = TRUE]
                      [] OTHER                -> [x EXCEPT !.forwarding = TRUE]
           e     == SetPortTree(b, p, t, y)
           z     == [e.pt[p][t] EXCEPT !.portStateTransitionState = state]
           c     == SetPortTree(e, p, t, z)
           off   == [x EXCEPT !.learning = FALSE, !.forwarding = FALSE]
           learn == [x EXCEPT !.learning = TRUE]
           forw  == [x EXCEPT !.forwarding = TRUE]
<1>1. EnterStateTransition(b, p, t) = c
  BY DEF EnterStateTransition, StateTransitionEnter
<1>2. /\ PartFits(b, p, t) /\ LearnFits(x) /\ InfoFits(b, p, t) /\ SwitchFits(b, p, t)
      /\ HardwareFits(x) /\ (~b.BEGIN => x.portStateTransitionState # "NONE")
  BY Zenon DEF InOrder, PartFits, SwitchFits
<1>3. x \in PortTree
  BY BridgeParts, Zenon
<1>4. \/ state = "DISCARDING"
      \/ state = "LEARNING" /\ x.portStateTransitionState = "DISCARDING"
      \/ state = "FORWARDING" /\ x.portStateTransitionState = "LEARNING"
  BY SMT DEF StateTransitionNext
<1>5. /\ state = "DISCARDING" => y = off
      /\ state = "LEARNING" => y = learn
      /\ state = "FORWARDING" => y = forw
  <2> HIDE DEF state, x
  <2>1. CASE state = "DISCARDING"
    BY <2>1
  <2>2. CASE state = "LEARNING"
    BY <2>2
  <2>3. CASE state = "FORWARDING"
    BY <2>3
  <2> QED BY <2>1, <2>2, <2>3, <1>4, Zenon
<1> DEFINE Kept(v) == v \in PortTree /\ SameInfo(x, v) /\ SameRole(x, v) /\ v.rcvdMsg = x.rcvdMsg
<1>6. /\ Kept(off) /\ off.learning = FALSE /\ off.forwarding = FALSE
      /\ Kept(learn) /\ learn.learning = TRUE /\ learn.forwarding = x.forwarding
      /\ Kept(forw) /\ forw.learning = x.learning /\ forw.forwarding = TRUE
  <2> HIDE DEF x
  <2>1. Kept(off) /\ off.learning = FALSE /\ off.forwarding = FALSE
    BY <1>3, ZenonT(60) DEF PortTree, SameInfo, SameRole
  <2>2. Kept(learn) /\ learn.learning = TRUE /\ learn.forwarding = x.forwarding
    BY <1>3, ZenonT(60) DEF PortTree, SameInfo, SameRole
  <2>3. Kept(forw) /\ forw.learning = x.learning /\ forw.forwarding = TRUE
    BY <1>3, ZenonT(60) DEF PortTree, SameInfo, SameRole
  <2> QED BY <2>1, <2>2, <2>3, Zenon
<1>7. \/ x.portStateTransitionState = "DISCARDING" => ~x.learning /\ ~x.forwarding
  BY <1>2, SMT DEF HardwareFits
<1>8. x.portStateTransitionState = "LEARNING" => x.learning /\ ~x.forwarding
  BY <1>2, SMT DEF HardwareFits
<1> HIDE DEF off, learn, forw, y, state
<1>9. /\ Kept(y)
      /\ state = "DISCARDING" => ~y.learning /\ ~y.forwarding
      /\ state = "LEARNING" => y.learning /\ ~y.forwarding
      /\ state = "FORWARDING" => y.learning /\ y.forwarding
  <2> HIDE DEF Kept
  <2>1. CASE state = "DISCARDING"
    BY <1>5, <1>6, <2>1, SMT
  <2>2. CASE state = "LEARNING" /\ x.portStateTransitionState = "DISCARDING"
    BY <1>5, <1>6, <1>7, <2>2, SMT
  <2>3. CASE state = "FORWARDING" /\ x.portStateTransitionState = "LEARNING"
    BY <1>5, <1>6, <1>8, <2>3, SMT
  <2> QED BY <1>4, <2>1, <2>2, <2>3, Zenon
<1>10. /\ UntouchedBut(b, e, p, t) /\ e.pt[p][t] = y /\ e \in Bridge
  <2>1. y.rcvdMsg => b.pt[p][t].rcvdMsg
    BY <1>9, Zenon
  <2>2. UntouchedBut(b, e, p, t) /\ e.pt[p][t] = y
    BY <2>1, SetPortTreeUntouchedBut
  <2>3. e \in Bridge
    BY <1>9, SetPortTreeTyped, Zenon
  <2> QED BY <2>2, <2>3, Zenon
<1> HIDE DEF e
<1>11. /\ z.portStateTransitionState = state /\ SameInfo(y, z) /\ SameRole(y, z)
       /\ z.learning = y.learning /\ z.forwarding = y.forwarding /\ z.rcvdMsg = y.rcvdMsg
  <2>1. z = [y EXCEPT !.portStateTransitionState = state]
    BY <1>10, Zenon
  <2>2. y \in PortTree
    BY <1>9, Zenon
  <2> HIDE DEF z
  <2> QED BY <2>1, <2>2, ZenonT(60) DEF PortTree, SameInfo, SameRole
<1> HIDE DEF z
<1>12. UntouchedBut(b, c, p, t) /\ c.pt[p][t] = z
  <2>1. z.rcvdMsg => e.pt[p][t].rcvdMsg
    BY <1>10, <1>11, Zenon
  <2>2. UntouchedBut(e, c, p, t) /\ c.pt[p][t] = z
    BY <1>10, <2>1, SetPortTreeUntouchedBut
  <2> HIDE DEF c
  <2> QED BY <1>10, <2>2, UntouchedButTwice, Zenon
<1> HIDE DEF c
<1>13. HardwareFits(z) /\ state # "NONE"
  <2>1. state \in {"DISCARDING", "LEARNING", "FORWARDING"}
    BY <1>4, SMT
  <2> QED BY <1>9, <1>11, <2>1, SMT DEF HardwareFits
<1>14. SameInfo(b.pt[p][t], c.pt[p][t]) /\ SameRole(b.pt[p][t], c.pt[p][t])
  <2>1. SameInfo(x, y) /\ SameRole(x, y)
    BY <1>9, Zenon
  <2>2. SameInfo(x, z) /\ SameRole(x, z)
    BY <2>1, <1>11, Zenon DEF SameInfo, SameRole
  <2> QED BY <2>2, <1>12, Zenon
<1>15. SameFrame(b, c)
  BY <1>12, Zenon DEF UntouchedBut
<1>16. /\ InfoFits(c, p, t) /\ LearnFits(c.pt[p][t])
       /\ MustDisable(c, p, t) => MustDisable(b, p, t)
  BY <1>2, <1>14, <1>15, InfoDecides, RoleDecides, Zenon
<1>17. SwitchFits(c, p, t)
  BY <1>11, <1>12, <1>13, Zenon DEF SwitchFits
<1>18. Orderly(b, c) /\ MessagesFade(b, c)
  BY <1>12, <1>16, <1>17, UntouchedButOrderly, Zenon DEF PartFits
<1> QED BY <1>1, <1>18, Zenon

-----------------------------------------------------------------------------
(***************************************************************************)
(* The machines that leave the roles alone keep the invariant.             *)
(***************************************************************************)
LEMMA UntouchedOrderly ==
  ASSUME NEW b, NEW c, Untouched(b, c), InOrder(b)
  PROVE  Orderly(b, c) /\ MessagesFade(b, c)
<1>1. Orderly(b, c)
  BY UntouchedWeaker, RolesUntouchedOrderly, Zenon
<1>2. MessagesFade(b, c)
  BY Zenon DEF Untouched, Fades, MessagesFade
<1> QED BY <1>1, <1>2, Zenon

LEMMA TransmitUntouched ==
  ASSUME NEW b, NEW c, OnlyTransmits(b, c)
  PROVE  Untouched(b, c)
<1>1. /\ c.BEGIN = b.BEGIN /\ c.started = b.started /\ c.pt = b.pt /\ c.tree = b.tree
      /\ c.ForceProtocolVersion = b.ForceProtocolVersion /\ c.receivedBpdu = b.receivedBpdu
      /\ \A q \in Ports : SameTested(b.port[q], c.port[q])
  BY Zenon DEF OnlyTransmits
<1>2. \A q \in Ports : AlikePort(b.port[q], c.port[q])
  BY <1>1, Zenon DEF SameTested, SameLink, AlikePort
<1> QED BY <1>1, <1>2, NothingTouched, Zenon DEF Untouched, SameFrame

-----------------------------------------------------------------------------
(***************************************************************************)
(* Port Role Selection.                                                    *)
(***************************************************************************)
\* what the selection of roles leaves alone in a PORT_TREE
Unselected(x, z) ==
  /\ z.infoIs = x.infoIs /\ z.rcvdInfo = x.rcvdInfo
  /\ z.portInformationState = x.portInformationState
  /\ SameRole(x, z) /\ SameHardware(x, z)

SelectsAround(b, c, t) ==
  \A q \in Ports, s \in Trees : /\ c.pt[q][s].rcvdMsg => b.pt[q][s].rcvdMsg
                                /\ Unselected(b.pt[q][s], c.pt[q][s])
                                /\ s = t \/ Alike(b.pt[q][s], c.pt[q][s])

\* c differs from b in the selection of the ports of tree t
SelectsOnly(b, c, t) == SameFrame(b, c) /\ SelectsAround(b, c, t)

LEMMA UnselectedTwice ==
  ASSUME NEW x, NEW y, NEW z
  PROVE  /\ Unselected(x, x)
         /\ Unselected(x, y) /\ Unselected(y, z) => Unselected(x, z)
         /\ Alike(x, y) => Unselected(x, y)
  BY Zenon DEF Unselected, Alike, SameRole, SameHardware

LEMMA SelectsTwice ==
  ASSUME NEW b, NEW c, NEW d, NEW t, SelectsOnly(b, c, t), SelectsOnly(c, d, t)
  PROVE  SelectsOnly(b, d, t)
<1>1. SameFrame(b, d)
  BY FrameTwice, Zenon DEF SelectsOnly
<1>2. SelectsAround(b, c, t) /\ SelectsAround(c, d, t)
  BY Zenon DEF SelectsOnly
<1>3. SelectsAround(b, d, t)
  BY <1>2, AlikeTwice, UnselectedTwice, Zenon DEF SelectsAround
<1> QED BY <1>1, <1>3, Zenon DEF SelectsOnly

LEMMA UntouchedSelects ==
  ASSUME NEW b, NEW c, NEW t, Untouched(b, c)
  PROVE  SelectsOnly(b, c, t)
  BY UnselectedTwice, Zenon DEF Untouched, Fades, SelectsOnly, SelectsAround

\* c has the PORT_TREE z[q] in tree t of every port q, and is b elsewhere
NewColumn(b, c, t, f, z) ==
  c = [b EXCEPT !.pt = f] /\ \A q \in Ports : f[q] = [b.pt[q] EXCEPT ![t] = z[q]]

MildColumn(b, t, z) ==
  \A q \in Ports : Unselected(b.pt[q][t], z[q]) /\ (z[q].rcvdMsg => b.pt[q][t].rcvdMsg)

HasColumn(c, t, z) == \A q \in Ports : c.pt[q][t] = z[q]

LEMMA ColumnSelects ==
  ASSUME NEW b \in Bridge, NEW t \in Trees, NEW f, NEW z, NEW c,
         NewColumn(b, c, t, f, z), MildColumn(b, t, z)
  PROVE  SelectsOnly(b, c, t) /\ HasColumn(c, t, z)
<1>1. SameFrame(b, c) /\ c.pt = f
  <2>1. c = [b EXCEPT !.pt = f]
    BY Zenon DEF NewColumn
  <2> QED BY <2>1, TreesUpdated
<1>2. ASSUME NEW q \in Ports
      PROVE  c.pt[q][t] = z[q] /\ \A s \in Trees : s # t => c.pt[q][s] = b.pt[q][s]
  <2>1. b.pt[q] \in [Trees -> PortTree]
    <3>1. b.pt \in [Ports -> [Trees -> PortTree]]
      BY Zenon DEF Bridge
    <3> QED BY <3>1, Zenon
  <2>2. c.pt[q] = [b.pt[q] EXCEPT ![t] = z[q]]
    BY <1>1, Zenon DEF NewColumn
  <2> QED BY <2>1, <2>2, Zenon
<1>3. ASSUME NEW q \in Ports, NEW s \in Trees
      PROVE  /\ c.pt[q][s].rcvdMsg => b.pt[q][s].rcvdMsg
             /\ Unselected(b.pt[q][s], c.pt[q][s])
             /\ s = t \/ Alike(b.pt[q][s], c.pt[q][s])
  <2>1. CASE s = t
    BY <1>2, <2>1, Zenon DEF MildColumn
  <2>2. CASE s # t
    <3>1. c.pt[q][s] = b.pt[q][s]
      BY <1>2, <2>2, Zenon
    <3> QED BY <3>1, NothingTouched, UnselectedTwice, Zenon
  <2> QED BY <2>1, <2>2, Zenon
<1> QED BY <1>1, <1>2, <1>3, Zenon DEF SelectsOnly, SelectsAround, HasColumn

\* OnPorts for all ports, with the assignments of clearReselectTree and setSelectedTree.
LEMMA SelectionFlags ==
  ASSUME NEW x \in PortTree
  PROVE  /\ Unselected(x, [x EXCEPT !.reselect = FALSE])
         /\ [x EXCEPT !.reselect = FALSE].reselect = FALSE
         /\ [x EXCEPT !.reselect = FALSE].rcvdMsg = x.rcvdMsg
         /\ [x EXCEPT !.reselect = FALSE].updtInfo = x.updtInfo
         /\ Unselected(x, [x EXCEPT !.selected = TRUE])
         /\ [x EXCEPT !.selected = TRUE].selected = TRUE
         /\ [x EXCEPT !.selected = TRUE].rcvdMsg = x.rcvdMsg
         /\ [x EXCEPT !.selected = TRUE].reselect = x.reselect
         /\ [x EXCEPT !.selected = TRUE].updtInfo = x.updtInfo
         /\ [x EXCEPT !.selected = TRUE].selectedRole = x.selectedRole
         /\ Unselected(x, [x EXCEPT !.selectedRole = "DISABLED"])
         /\ [x EXCEPT !.selectedRole = "DISABLED"].rcvdMsg = x.rcvdMsg
         /\ [x EXCEPT !.selectedRole = "DISABLED"].updtInfo = x.updtInfo
  BY ZenonT(120) DEF PortTree, Unselected, SameRole, SameHardware

LEMMA WholeTreeSelects ==
  ASSUME NEW b \in Bridge, NEW t \in Trees
  PROVE  /\ SelectsOnly(b, clearReselectTree(b, t), t)
         /\ \A q \in Ports : /\ ~clearReselectTree(b, t).pt[q][t].reselect
                             /\ clearReselectTree(b, t).pt[q][t].updtInfo = b.pt[q][t].updtInfo
         /\ SelectsOnly(b, updtRolesDisabledTree(b, t), t)
         /\ \A q \in Ports : updtRolesDisabledTree(b, t).pt[q][t].updtInfo = b.pt[q][t].updtInfo
         /\ (\A q \in Ports : ~b.pt[q][t].reselect) =>
              /\ SelectsOnly(b, setSelectedTree(b, t), t)
              /\ \A q \in Ports :
                   LET z == setSelectedTree(b, t).pt[q][t]
                   IN  /\ z.selected /\ ~z.reselect
                       /\ z.updtInfo = b.pt[q][t].updtInfo
                       /\ z.selectedRole = b.pt[q][t].selectedRole
<1>1. \A q \in Ports : b.pt[q][t] \in PortTree
  BY BridgeParts, Zenon
<1>2. /\ SelectsOnly(b, clearReselectTree(b, t), t)
      /\ \A q \in Ports : /\ ~clearReselectTree(b, t).pt[q][t].reselect
                          /\ clearReselectTree(b, t).pt[q][t].updtInfo = b.pt[q][t].updtInfo
  <2> DEFINE z == [q \in Ports |-> [b.pt[q][t] EXCEPT !.reselect = FALSE]]
             f == [q \in Ports |-> IF q \in Ports
                                   THEN [b.pt[q] EXCEPT ![t] = [b.pt[q][t] EXCEPT !.reselect = FALSE]]
                                   ELSE b.pt[q]]
             c == clearReselectTree(b, t)
  <2>1. c = [b EXCEPT !.pt = f]
    BY Zenon DEF clearReselectTree, OnPorts
  <2>2. \A q \in Ports : f[q] = [b.pt[q] EXCEPT ![t] = z[q]]
    BY Zenon
  <2>3. \A q \in Ports : /\ Unselected(b.pt[q][t], z[q]) /\ (z[q].rcvdMsg => b.pt[q][t].rcvdMsg)
                         /\ z[q].reselect = FALSE /\ z[q].updtInfo = b.pt[q][t].updtInfo
    BY <1>1, SelectionFlags, Zenon
  <2> HIDE DEF z, f, c
  <2>4. SelectsOnly(b, c, t) /\ HasColumn(c, t, z)
    <3>1. NewColumn(b, c, t, f, z)
      BY <2>1, <2>2, Zenon DEF NewColumn
    <3>2. MildColumn(b, t, z)
      BY <2>3, Zenon DEF MildColumn
    <3> QED BY <3>1, <3>2, ColumnSelects, Zenon
  <2>5. \A q \in Ports : ~z[q].reselect
    BY <2>3, Zenon
  <2> QED BY <2>3, <2>4, <2>5, Zenon DEF c, HasColumn
<1>3. /\ SelectsOnly(b, updtRolesDisabledTree(b, t), t)
      /\ \A q \in Ports : updtRolesDisabledTree(b, t).pt[q][t].updtInfo = b.pt[q][t].updtInfo
  <2> DEFINE z == [q \in Ports |-> [b.pt[q][t] EXCEPT !.selectedRole = "DISABLED"]]
             f == [q \in Ports |->
                     IF q \in Ports
                     THEN [b.pt[q] EXCEPT ![t] = [b.pt[q][t] EXCEPT !.selectedRole = "DISABLED"]]
                     ELSE b.pt[q]]
             c == updtRolesDisabledTree(b, t)
  <2>1. c = [b EXCEPT !.pt = f]
    BY Zenon DEF updtRolesDisabledTree, OnPorts
  <2>2. \A q \in Ports : f[q] = [b.pt[q] EXCEPT ![t] = z[q]]
    BY Zenon
  <2>3. \A q \in Ports : /\ Unselected(b.pt[q][t], z[q]) /\ (z[q].rcvdMsg => b.pt[q][t].rcvdMsg)
                         /\ z[q].updtInfo = b.pt[q][t].updtInfo
    BY <1>1, SelectionFlags, Zenon
  <2> HIDE DEF z, f, c
  <2>4. SelectsOnly(b, c, t) /\ HasColumn(c, t, z)
    <3>1. NewColumn(b, c, t, f, z)
      BY <2>1, <2>2, Zenon DEF NewColumn
    <3>2. MildColumn(b, t, z)
      BY <2>3, Zenon DEF MildColumn
    <3> QED BY <3>1, <3>2, ColumnSelects, Zenon
  <2> QED BY <2>3, <2>4, Zenon DEF c, HasColumn
<1>4. ASSUME \A q \in Ports : ~b.pt[q][t].reselect
      PROVE  /\ SelectsOnly(b, setSelectedTree(b, t), t)
             /\ \A q \in Ports :
                  LET z == setSelectedTree(b, t).pt[q][t]
                  IN  /\ z.selected /\ ~z.reselect
                      /\ z.updtInfo = b.pt[q][t].updtInfo
                      /\ z.selectedRole = b.pt[q][t].selectedRole
  <2> DEFINE z == [q \in Ports |-> [b.pt[q][t] EXCEPT !.selected = TRUE]]
             f == [q \in Ports |-> IF q \in Ports
                                   THEN [b.pt[q] EXCEPT ![t] = [b.pt[q][t] EXCEPT !.selected = TRUE]]
                                   ELSE b.pt[q]]
             c == setSelectedTree(b, t)
  <2>1. c = [b EXCEPT !.pt = f]
    BY <1>4, Zenon DEF setSelectedTree, OnPorts
  <2>2. \A q \in Ports : f[q] = [b.pt[q] EXCEPT ![t] = z[q]]
    BY Zenon
  <2>3. \A q \in Ports : /\ Unselected(b.pt[q][t], z[q]) /\ (z[q].rcvdMsg => b.pt[q][t].rcvdMsg)
                         /\ z[q].selected = TRUE /\ z[q].updtInfo = b.pt[q][t].updtInfo
                         /\ z[q].reselect = b.pt[q][t].reselect
                         /\ z[q].selectedRole = b.pt[q][t].selectedRole
    BY <1>1, SelectionFlags, Zenon
  <2> HIDE DEF z, f, c
  <2>4. SelectsOnly(b, c, t) /\ HasColumn(c, t, z)
    <3>1. NewColumn(b, c, t, f, z)
      BY <2>1, <2>2, Zenon DEF NewColumn
    <3>2. MildColumn(b, t, z)
      BY <2>3, Zenon DEF MildColumn
    <3> QED BY <3>1, <3>2, ColumnSelects, Zenon
  <2>5. \A q \in Ports : z[q].selected /\ ~z[q].reselect
    BY <1>4, <2>3, Zenon
  <2> QED BY <2>3, <2>4, <2>5, Zenon DEF c, HasColumn
<1> QED BY <1>2, <1>3, <1>4, Zenon

\* The vectors and the other trees' agreements do not matter to the roles.
LEMMA WithRootUntouched ==
  ASSUME NEW b \in Bridge, NEW t \in Trees, NEW root
  PROVE  Untouched(b, WithRoot(b, t, root))
<1> DEFINE old      == b.tree[t]
           priority == IF root = NoPort THEN old.BridgePriority ELSE RootPathPriority(b, root, t)
           times    == IF root = NoPort THEN old.BridgeTimes ELSE RootTimes(b, root, t)
           rootId   == IF root = NoPort THEN 0 ELSE b.pt[root][t].portId
           new      == [old EXCEPT !.rootPriority = priority, !.rootTimes = times,
                                   !.rootPortId = rootId]
           f        == [p \in Ports |-> [b.pt[p] EXCEPT ![t] =
                          [b.pt[p][t] EXCEPT
                             !.designatedPriority = DesignatedPriority(b, p, t, priority),
                             !.designatedTimes = times]]]
           c        == WithRoot(b, t, root)
<1>1. c = [b EXCEPT !.tree[t] = new, !.pt = f]
  BY Zenon DEF WithRoot
<1> HIDE DEF c, f, priority, times, rootId
<1>2. new.portRoleSelectionState = old.portRoleSelectionState
  <2>1. old \in BridgeTree
    BY BridgeTreePart, Zenon
  <2> HIDE DEF old
  <2> QED BY <2>1, ZenonT(60) DEF BridgeTree
<1> HIDE DEF new
<1>3. /\ c.BEGIN = b.BEGIN /\ c.started = b.started /\ c.port = b.port
      /\ c.ForceProtocolVersion = b.ForceProtocolVersion /\ c.receivedBpdu = b.receivedBpdu
      /\ c.tree = [b.tree EXCEPT ![t] = new] /\ c.pt = f
  BY <1>1, ZenonT(60) DEF Bridge
<1>4. ASSUME NEW s \in Trees
      PROVE  c.tree[s].portRoleSelectionState = b.tree[s].portRoleSelectionState
  <2>1. b.tree \in [Trees -> BridgeTree]
    BY Zenon DEF Bridge
  <2>2. c.tree[s] = IF s = t THEN new ELSE b.tree[s]
    BY <1>3, <2>1, Zenon
  <2>3. CASE s = t
    <3>1. c.tree[s] = new
      BY <2>2, <2>3, Zenon
    <3> QED BY <1>2, <2>3, <3>1, Zenon
  <2>4. CASE s # t
    <3>1. c.tree[s] = b.tree[s]
      BY <2>2, <2>4, Zenon
    <3> QED BY <3>1, Zenon
  <2> QED BY <2>3, <2>4, Zenon
<1>5. ASSUME NEW q \in Ports, NEW s \in Trees
      PROVE  Fades(b.pt[q][s], f[q][s])
  <2> DEFINE z == [b.pt[q][t] EXCEPT !.designatedPriority = DesignatedPriority(b, q, t, priority),
                                     !.designatedTimes = times]
  <2>1. f[q] = [b.pt[q] EXCEPT ![t] = z]
    BY Zenon DEF f
  <2>2. b.pt[q][t] \in PortTree /\ b.pt[q] \in [Trees -> PortTree]
    <3>1. b.pt \in [Ports -> [Trees -> PortTree]]
      BY Zenon DEF Bridge
    <3> QED BY <3>1, Zenon
  <2>3. Fades(b.pt[q][t], z)
    BY <2>2, MoreTreeFieldsFade, Zenon
  <2> HIDE DEF z
  <2>4. CASE s = t
    BY <2>1, <2>2, <2>3, <2>4, Zenon
  <2>5. CASE s # t
    <3>1. f[q][s] = b.pt[q][s]
      BY <2>1, <2>2, <2>5, Zenon
    <3> QED BY <3>1, NothingTouched, Zenon
  <2> QED BY <2>4, <2>5, Zenon
<1>6. SameFrame(b, c)
  BY <1>3, <1>4, Zenon DEF SameFrame, AlikePort
<1>7. Untouched(b, c)
  BY <1>3, <1>5, <1>6, Zenon DEF Untouched
<1> QED BY <1>7, Zenon DEF c

-----------------------------------------------------------------------------
(***************************************************************************)
(* The role that updtRolesTree gives to a PORT_TREE.                       *)
(***************************************************************************)
RoleGiven(x, z, t) ==
  /\ Unselected(x, z) /\ z.rcvdMsg = x.rcvdMsg /\ z.reselect = x.reselect
  /\ x.infoIs = "DISABLED" => z.selectedRole = "DISABLED" /\ z.updtInfo = x.updtInfo
  /\ cist(t) => RoleFits(z)

\* z is x with the given selectedRole and updtInfo
Given(x, z, role, update) ==
  /\ Unselected(x, z) /\ z.rcvdMsg = x.rcvdMsg /\ z.reselect = x.reselect
  /\ z.infoIs = x.infoIs /\ z.selectedRole = role /\ z.updtInfo = update

LEMMA RoleAssigned ==
  ASSUME NEW x \in PortTree, NEW role, NEW update
  PROVE  Given(x, [x EXCEPT !.selectedRole = role, !.updtInfo = update], role, update)
  BY ZenonT(120) DEF PortTree, Given, Unselected, SameRole, SameHardware

LEMMA SelectedRoleGiven ==
  ASSUME NEW b \in Bridge, NEW p \in Ports, NEW t \in Trees, NEW root
  PROVE  RoleGiven(b.pt[p][t], WithSelectedRole(b, p, t, root), t)
<1> DEFINE x     == b.pt[p][t]
           c     == b.pt[p][CIST]
           stale == x.portPriority # x.designatedPriority \/ x.portTimes # x.designatedTimes
           external == ~cist(t) /\ c.infoIs = "RECEIVED" /\ ~b.port[p].infoInternal
           role  == IF c.selectedRole = "ROOT" THEN "MASTER"
                    ELSE IF c.selectedRole = "ALTERNATE" THEN "ALTERNATE" ELSE x.selectedRole
           better == IsBetterThan(x.designatedPriority, x.portPriority)
           own    == SentByThisBridge(b, p, t)
           As(r, u) == [x EXCEPT !.selectedRole = r, !.updtInfo = u]
           z     == WithSelectedRole(b, p, t, root)
<1>1. z = IF x.infoIs = "DISABLED" THEN As("DISABLED", x.updtInfo)
          ELSE IF external THEN As(role, x.updtInfo \/ stale)
          ELSE IF c.infoIs = "DISABLED" THEN x
          ELSE IF x.infoIs = "AGED" THEN As("DESIGNATED", TRUE)
          ELSE IF x.infoIs = "MINE" THEN As("DESIGNATED", x.updtInfo \/ stale)
          ELSE IF p = root THEN As("ROOT", FALSE)
          ELSE IF better THEN As("DESIGNATED", TRUE)
          ELSE IF own THEN As("BACKUP", FALSE)
          ELSE As("ALTERNATE", FALSE)
  BY DEF WithSelectedRole
<1>2. x \in PortTree
  BY BridgeParts, Zenon
<1>3. x = c \/ ~cist(t)
  BY Zenon DEF cist
<1>4. cist(t) => ~external
  BY Zenon
<1>5. ASSUME NEW r, NEW u
      PROVE  Given(x, As(r, u), r, u)
  BY <1>2, RoleAssigned, Zenon
<1>6. Unselected(x, x)
  BY UnselectedTwice, Zenon
<1> HIDE DEF z, As, better, own, stale, role, external, x, c
<1>7. ASSUME x.infoIs = "DISABLED"
      PROVE  RoleGiven(x, z, t)
  <2>1. z = As("DISABLED", x.updtInfo)
    BY <1>1, <1>7, SMT
  <2>2. Given(x, z, "DISABLED", x.updtInfo)
    BY <1>5, <2>1, Zenon
  <2>3. RoleFits(z)
    BY <1>7, <2>2, SMT DEF RoleFits, Given
  <2> QED BY <2>2, <2>3, Zenon DEF RoleGiven, Given
<1>8. ASSUME x.infoIs # "DISABLED", external
      PROVE  RoleGiven(x, z, t)
  <2>1. z = As(role, x.updtInfo \/ stale)
    BY <1>1, <1>8, SMT
  <2>2. Given(x, z, role, x.updtInfo \/ stale)
    BY <1>5, <2>1, Zenon
  <2> QED BY <1>4, <1>8, <2>2, Zenon DEF RoleGiven, Given
<1>9. ASSUME x.infoIs # "DISABLED", ~external, c.infoIs = "DISABLED"
      PROVE  RoleGiven(x, z, t)
  <2>1. z = x
    BY <1>1, <1>9, SMT
  <2>2. ~cist(t)
    BY <1>3, <1>9, Zenon
  <2> QED BY <1>6, <1>9, <2>1, <2>2, Zenon DEF RoleGiven
<1>10. ASSUME x.infoIs # "DISABLED", ~external, c.infoIs # "DISABLED"
       PROVE  RoleGiven(x, z, t)
  <2>1. CASE x.infoIs = "AGED"
    <3>1. z = As("DESIGNATED", TRUE)
      BY <1>1, <1>10, <2>1, SMT
    <3>2. Given(x, z, "DESIGNATED", TRUE)
      BY <1>5, <3>1, Zenon
    <3>3. RoleFits(z)
      BY <2>1, <3>2, SMT DEF RoleFits, Given
    <3> QED BY <1>10, <3>2, <3>3, Zenon DEF RoleGiven, Given
  <2>2. CASE x.infoIs = "MINE"
    <3>1. z = As("DESIGNATED", x.updtInfo \/ stale)
      BY <1>1, <1>10, <2>2, SMT
    <3>2. Given(x, z, "DESIGNATED", x.updtInfo \/ stale)
      BY <1>5, <3>1, Zenon
    <3>3. RoleFits(z)
      BY <2>2, <3>2, SMT DEF RoleFits, Given
    <3> QED BY <1>10, <3>2, <3>3, Zenon DEF RoleGiven, Given
  <2>3. CASE x.infoIs # "AGED" /\ x.infoIs # "MINE"
    <3>1. ASSUME NEW r, NEW u, z = As(r, u),
                 (r = "DESIGNATED" /\ u = TRUE)
                   \/ (r \in {"ROOT", "ALTERNATE", "BACKUP"} /\ u = FALSE)
          PROVE  RoleGiven(x, z, t)
      <4>1. Given(x, z, r, u)
        BY <1>5, <3>1, Zenon
      <4>2. RoleFits(z)
        BY <1>10, <2>3, <3>1, <4>1, SMT DEF RoleFits, Given
      <4> QED BY <1>10, <4>1, <4>2, Zenon DEF RoleGiven, Given
    <3>2. CASE p = root
      <4>1. z = As("ROOT", FALSE)
        BY <1>1, <1>10, <2>3, <3>2, SMT
      <4> QED BY <3>1, <4>1, Zenon
    <3>3. CASE p # root /\ better
      <4>1. z = As("DESIGNATED", TRUE)
        BY <1>1, <1>10, <2>3, <3>3, SMT
      <4> QED BY <3>1, <4>1, Zenon
    <3>4. CASE p # root /\ ~better /\ own
      <4>1. z = As("BACKUP", FALSE)
        BY <1>1, <1>10, <2>3, <3>4, SMT
      <4> QED BY <3>1, <4>1, Zenon
    <3>5. CASE p # root /\ ~better /\ ~own
      <4>1. z = As("ALTERNATE", FALSE)
        BY <1>1, <1>10, <2>3, <3>5, SMT
      <4> QED BY <3>1, <4>1, Zenon
    <3> QED BY <3>2, <3>3, <3>4, <3>5, Zenon
  <2> QED BY <2>1, <2>2, <2>3, Zenon
<1>11. RoleGiven(x, z, t)
  BY <1>7, <1>8, <1>9, <1>10, Zenon
<1> QED BY <1>11, Zenon DEF x, z

\* The roles of all the ports of the tree.
LEMMA updtRolesTreeSelects ==
  ASSUME NEW b \in Bridge, NEW t \in Trees
  PROVE  LET c == updtRolesTree(b, t)
         IN  /\ SelectsOnly(b, c, t)
             /\ \A q \in Ports : LET x == b.pt[q][t]
                                     z == c.pt[q][t]
                                 IN  /\ z.reselect = x.reselect
                                     /\ x.infoIs = "DISABLED" =>
                                          z.selectedRole = "DISABLED" /\ z.updtInfo = x.updtInfo
                                     /\ cist(t) => RoleFits(z)
<1> DEFINE root == RootPort(b, t)
           b1   == WithRoot(b, t, root)
           b2   == IF cist(t) /\ RegionalRootChanged(b.tree[t].rootPriority,
                                                     b1.tree[t].rootPriority)
                   THEN syncMaster(b1) ELSE b1
           z    == [q \in Ports |-> WithSelectedRole(b2, q, t, root)]
           f    == [p \in Ports |-> [b2.pt[p] EXCEPT ![t] = WithSelectedRole(b2, p, t, root)]]
           c    == updtRolesTree(b, t)
<1>1. b1 \in Bridge /\ Untouched(b, b1)
  BY RootPortTyped, WithRootTyped, WithRootUntouched, Zenon
<1>2. c = [b2 EXCEPT !.pt = f]
  BY Zenon DEF updtRolesTree
<1> HIDE DEF b1, root
<1>3. b2 \in Bridge /\ Untouched(b, b2)
  BY <1>1, syncMasterTyped, syncMasterUntouched, UntouchedTwice, Zenon
<1> HIDE DEF b2
<1>4. \A q \in Ports : RoleGiven(b2.pt[q][t], z[q], t)
  BY <1>3, SelectedRoleGiven, Zenon
<1>5. \A q \in Ports : f[q] = [b2.pt[q] EXCEPT ![t] = z[q]]
  BY Zenon
<1> HIDE DEF z, f, c
<1>6. SelectsOnly(b2, c, t) /\ HasColumn(c, t, z)
  <2>1. NewColumn(b2, c, t, f, z)
    BY <1>2, <1>5, Zenon DEF NewColumn
  <2>2. MildColumn(b2, t, z)
    BY <1>4, Zenon DEF MildColumn, RoleGiven
  <2> QED BY <1>3, <2>1, <2>2, ColumnSelects, Zenon
<1>7. SelectsOnly(b, c, t)
  BY <1>3, <1>6, UntouchedSelects, SelectsTwice, Zenon
<1>8. \A q \in Ports : Fades(b.pt[q][t], b2.pt[q][t])
  BY <1>3, Zenon DEF Untouched
<1>9. ASSUME NEW q \in Ports
      PROVE  /\ c.pt[q][t].reselect = b.pt[q][t].reselect
             /\ b.pt[q][t].infoIs = "DISABLED" =>
                  c.pt[q][t].selectedRole = "DISABLED" /\ c.pt[q][t].updtInfo = b.pt[q][t].updtInfo
             /\ cist(t) => RoleFits(c.pt[q][t])
  <2>1. c.pt[q][t] = z[q]
    BY <1>6, Zenon DEF HasColumn
  <2>2. RoleGiven(b2.pt[q][t], z[q], t) /\ Alike(b.pt[q][t], b2.pt[q][t])
    BY <1>4, <1>8, Zenon DEF Fades
  <2> QED BY <2>1, <2>2, Zenon DEF RoleGiven, Alike
<1> QED BY <1>7, <1>9, Zenon DEF c

\* The entry block of ROLE_SELECTION.
LEMMA RolesSelected ==
  ASSUME NEW b \in Bridge, NEW t \in Trees
  PROVE  LET c == RoleSelectionEnter(b, t, "ROLE_SELECTION")
         IN  /\ SelectsOnly(b, c, t)
             /\ \A q \in Ports : LET x == b.pt[q][t]
                                     z == c.pt[q][t]
                                 IN  /\ z.selected /\ ~z.reselect
                                     /\ x.infoIs = "DISABLED" =>
                                          z.selectedRole = "DISABLED" /\ z.updtInfo = x.updtInfo
                                     /\ cist(t) => RoleFits(z)
<1> DEFINE a == clearReselectTree(b, t)
           d == updtRolesTree(a, t)
           c == RoleSelectionEnter(b, t, "ROLE_SELECTION")
<1>1. c = setSelectedTree(d, t)
  BY Zenon DEF RoleSelectionEnter
<1>2. a \in Bridge /\ SelectsOnly(b, a, t)
  BY clearReselectTreeTyped, WholeTreeSelects, Zenon
<1>3. \A q \in Ports : ~a.pt[q][t].reselect /\ a.pt[q][t].updtInfo = b.pt[q][t].updtInfo
  BY WholeTreeSelects, Zenon
<1> HIDE DEF a
<1>4. d \in Bridge /\ SelectsOnly(a, d, t)
  BY <1>2, updtRolesTreeTyped, updtRolesTreeSelects, Zenon
<1>5. ASSUME NEW q \in Ports
      PROVE  /\ d.pt[q][t].reselect = a.pt[q][t].reselect
             /\ a.pt[q][t].infoIs = "DISABLED" =>
                  d.pt[q][t].selectedRole = "DISABLED" /\ d.pt[q][t].updtInfo = a.pt[q][t].updtInfo
             /\ cist(t) => RoleFits(d.pt[q][t])
  BY <1>2, updtRolesTreeSelects, Zenon
<1> HIDE DEF d
<1>6. \A q \in Ports : ~d.pt[q][t].reselect
  BY <1>3, <1>5, Zenon
<1>7. SelectsOnly(d, c, t)
  BY <1>1, <1>4, <1>6, WholeTreeSelects, Zenon
<1>8. \A q \in Ports : /\ c.pt[q][t].selected /\ ~c.pt[q][t].reselect
                       /\ c.pt[q][t].updtInfo = d.pt[q][t].updtInfo
                       /\ c.pt[q][t].selectedRole = d.pt[q][t].selectedRole
  BY <1>1, <1>4, <1>6, WholeTreeSelects
<1> HIDE DEF c
<1>9. SelectsOnly(b, c, t)
  BY <1>2, <1>4, <1>7, SelectsTwice, Zenon
<1>10. ASSUME NEW q \in Ports
       PROVE  /\ a.pt[q][t].infoIs = b.pt[q][t].infoIs
              /\ c.pt[q][t].infoIs = d.pt[q][t].infoIs
  BY <1>2, <1>7, Zenon DEF SelectsOnly, SelectsAround, Unselected
<1>11. ASSUME NEW q \in Ports
       PROVE  /\ b.pt[q][t].infoIs = "DISABLED" =>
                   c.pt[q][t].selectedRole = "DISABLED" /\ c.pt[q][t].updtInfo = b.pt[q][t].updtInfo
              /\ cist(t) => RoleFits(c.pt[q][t])
  <2>1. RoleFits(d.pt[q][t]) => RoleFits(c.pt[q][t])
    BY <1>8, <1>10, SMT DEF RoleFits
  <2> QED BY <1>3, <1>5, <1>8, <1>10, <2>1, Zenon
<1> QED BY <1>8, <1>9, <1>11, Zenon DEF c

\* Only the state of the machine is set afterwards.
LEMMA SelectionStateSet ==
  ASSUME NEW b \in Bridge, NEW t \in Trees, NEW state
  PROVE  LET c == [b EXCEPT !.tree[t].portRoleSelectionState = state]
         IN  /\ c.BEGIN = b.BEGIN /\ c.started = b.started /\ c.port = b.port /\ c.pt = b.pt
             /\ c.ForceProtocolVersion = b.ForceProtocolVersion
             /\ c.receivedBpdu = b.receivedBpdu
             /\ c.tree[t].portRoleSelectionState = state
             /\ \A s \in Trees : s # t => c.tree[s] = b.tree[s]
<1> DEFINE z == [b.tree[t] EXCEPT !.portRoleSelectionState = state]
           c == [b EXCEPT !.tree[t].portRoleSelectionState = state]
<1>1. c = [b EXCEPT !.tree[t] = z]
  OBVIOUS
<1>2. z.portRoleSelectionState = state
  <2>1. b.tree[t] \in BridgeTree
    BY BridgeTreePart, Zenon
  <2> QED BY <2>1, ZenonT(60) DEF BridgeTree
<1> HIDE DEF z, c
<1>3. /\ c.BEGIN = b.BEGIN /\ c.started = b.started /\ c.port = b.port /\ c.pt = b.pt
      /\ c.ForceProtocolVersion = b.ForceProtocolVersion
      /\ c.receivedBpdu = b.receivedBpdu
      /\ c.tree = [b.tree EXCEPT ![t] = z]
  BY <1>1, ZenonT(60) DEF Bridge
<1>4. c.tree[t] = z /\ \A s \in Trees : s # t => c.tree[s] = b.tree[s]
  <2>1. b.tree \in [Trees -> BridgeTree]
    BY Zenon DEF Bridge
  <2> QED BY <1>3, <2>1, Zenon
<1> QED BY <1>2, <1>3, <1>4, Zenon DEF c

LEMMA RoleSelectionMoves ==
  ASSUME NEW b, NEW t, RoleSelectionNext(b, t) # "NONE"
  PROVE  \/ b.BEGIN /\ RoleSelectionNext(b, t) = "INIT_TREE"
         \/ ~b.BEGIN /\ RoleSelectionNext(b, t) = "ROLE_SELECTION"
  BY SMT DEF RoleSelectionNext

LEMMA RoleSelectionOrderly ==
  ASSUME NEW b \in Bridge, NEW t \in TreesOf(b), InOrder(b), RoleSelectionNext(b, t) # "NONE",
         \A q \in Ports : ~MustDisable(b, q, t)
  PROVE  Orderly(b, EnterRoleSelection(b, t)) /\ MessagesFade(b, EnterRoleSelection(b, t))
<1> DEFINE state == RoleSelectionNext(b, t)
           d     == RoleSelectionEnter(b, t, state)
           c     == EnterRoleSelection(b, t)
<1>1. t \in Trees /\ TreesOf(b) \subseteq Trees
  BY CistIsTree, Zenon DEF TreesOf
<1>2. (b.BEGIN /\ state = "INIT_TREE") \/ (~b.BEGIN /\ state = "ROLE_SELECTION")
  BY RoleSelectionMoves, Zenon
<1>3. c = [d EXCEPT !.tree[t].portRoleSelectionState = state]
  BY Zenon DEF EnterRoleSelection
<1>4. d \in Bridge
  BY <1>1, RoleSelectionEnterTyped, Zenon
<1> HIDE DEF state
<1>5. SelectsOnly(b, d, t)
  <2>1. CASE state = "INIT_TREE"
    <3>1. d = updtRolesDisabledTree(b, t)
      BY <2>1, Zenon DEF RoleSelectionEnter
    <3> QED BY <1>1, <3>1, WholeTreeSelects, Zenon
  <2>2. CASE state = "ROLE_SELECTION"
    BY <1>1, <2>2, RolesSelected, Zenon
  <2> QED BY <1>2, <2>1, <2>2, Zenon
<1>6. state = "INIT_TREE" => \A q \in Ports : d.pt[q][t].updtInfo = b.pt[q][t].updtInfo
  <2> SUFFICES ASSUME state = "INIT_TREE"
               PROVE  \A q \in Ports : d.pt[q][t].updtInfo = b.pt[q][t].updtInfo
    BY Zenon
  <2>1. d = updtRolesDisabledTree(b, t)
    BY Zenon DEF RoleSelectionEnter
  <2> QED BY <1>1, <2>1, WholeTreeSelects
<1>7. ASSUME state = "ROLE_SELECTION", NEW q \in Ports
      PROVE  /\ d.pt[q][t].selected /\ ~d.pt[q][t].reselect
             /\ b.pt[q][t].infoIs = "DISABLED" =>
                  d.pt[q][t].selectedRole = "DISABLED" /\ d.pt[q][t].updtInfo = b.pt[q][t].updtInfo
             /\ cist(t) => RoleFits(d.pt[q][t])
  BY <1>1, <1>7, RolesSelected, Zenon
<1> HIDE DEF d
<1>8. /\ c.BEGIN = d.BEGIN /\ c.started = d.started /\ c.port = d.port /\ c.pt = d.pt
      /\ c.ForceProtocolVersion = d.ForceProtocolVersion /\ c.receivedBpdu = d.receivedBpdu
      /\ c.tree[t].portRoleSelectionState = state
      /\ \A s \in Trees : s # t => c.tree[s] = d.tree[s]
  BY <1>1, <1>3, <1>4, SelectionStateSet
<1> HIDE DEF c
<1>9. SameFrame(b, d) /\ SelectsAround(b, d, t)
  BY <1>5, Zenon DEF SelectsOnly
<1>10. /\ TreesOf(d) = TreesOf(b) /\ d.BEGIN = b.BEGIN /\ d.started = b.started
       /\ \A q \in Ports : d.port[q].portEnabled = b.port[q].portEnabled
       /\ Begun(d)
  BY <1>9, FrameTrees, Zenon DEF InOrder
<1>11. TreesOf(c) = TreesOf(b)
  BY <1>8, <1>10, Zenon DEF TreesOf
<1>12. ASSUME NEW q \in Ports
       PROVE  PartFits(c, q, t)
  <2> DEFINE x == b.pt[q][t]
             z == d.pt[q][t]
  <2>1. Unselected(x, z)
    BY <1>1, <1>9, Zenon DEF SelectsAround
  <2>2. InfoFits(b, q, t) /\ LearnFits(x) /\ SwitchFits(b, q, t)
    BY <1>1, Zenon DEF InOrder, PartFits
  <2>3. LearnFits(z) /\ SwitchFits(d, q, t)
    BY <1>1, <1>9, <2>1, <2>2, RoleDecides, HardwareDecides, Zenon DEF Unselected
  <2>4. LearnFits(c.pt[q][t]) /\ SwitchFits(c, q, t) /\ c.pt[q][t] = z
    BY <1>8, <1>10, <1>11, <2>3, Zenon DEF SwitchFits
  <2>5. StateFits(z)
    BY <2>1, <2>2, Zenon DEF InfoFits, StateFits, Unselected
  <2>6. c.started /\ ~c.BEGIN => z.portInformationState # "NONE"
    BY <1>8, <1>10, <2>1, <2>2, Zenon DEF InfoFits, Unselected
  <2>7. NoUpdate(b, q, t) /\ ~MustDisable(b, q, t)
    BY <2>2, Zenon DEF InfoFits
  <2>8. c.BEGIN = b.BEGIN /\ c.port[q].portEnabled = b.port[q].portEnabled
    BY <1>8, <1>10, Zenon
  <2> HIDE DEF x, z
  <2>9. CASE state = "INIT_TREE"
    <3>1. c.tree[t].portRoleSelectionState # "ROLE_SELECTION"
      BY <1>8, <2>9, Zenon
    <3>2. SelectionFits(c, q, t)
      BY <3>1, Zenon DEF SelectionFits
    <3>3. z.updtInfo = x.updtInfo /\ z.infoIs = x.infoIs
      BY <1>6, <2>1, <2>9, Zenon DEF Unselected, x, z
    <3>4. NoUpdate(c, q, t)
      BY <2>4, <2>7, <2>8, <3>3, Zenon DEF NoUpdate, x
    <3>5. InfoFits(c, q, t)
      BY <1>11, <2>4, <2>5, <2>6, <3>2, <3>4, Zenon DEF InfoFits
    <3> QED BY <2>4, <3>5, Zenon DEF PartFits
  <2>10. CASE state = "ROLE_SELECTION"
    <3>1. z.infoIs = x.infoIs /\ ~b.BEGIN
      BY <1>2, <2>1, <2>10, Zenon DEF Unselected
    <3>2. /\ z.selected /\ ~z.reselect
          /\ x.infoIs = "DISABLED" => z.selectedRole = "DISABLED" /\ z.updtInfo = x.updtInfo
          /\ cist(t) => RoleFits(z)
      BY <1>7, <2>10, Zenon DEF x, z
    <3>3. z.infoIs = "DISABLED" => RoleFits(z)
      BY <3>1, <3>2, SMT DEF RoleFits
    <3>4. SelectionFits(c, q, t)
      BY <2>4, <3>2, <3>3, Zenon DEF SelectionFits
    <3>5. b.port[q].portEnabled \/ x.infoIs = "DISABLED"
      BY <2>7, <3>1, Zenon DEF MustDisable, x
    <3>6. x.infoIs = "DISABLED" => ~z.updtInfo
      BY <2>7, <3>2, Zenon DEF NoUpdate, x
    <3>7. NoUpdate(c, q, t)
      BY <2>4, <2>8, <3>1, <3>5, <3>6, Zenon DEF NoUpdate
    <3>8. InfoFits(c, q, t)
      BY <1>11, <2>4, <2>5, <2>6, <3>4, <3>7, Zenon DEF InfoFits
    <3> QED BY <2>4, <3>8, Zenon DEF PartFits
  <2> QED BY <1>2, <2>9, <2>10, Zenon
<1>13. ASSUME NEW q \in Ports, NEW s \in Trees, s # t
       PROVE  PartFits(c, q, s)
  <2>1. Alike(b.pt[q][s], d.pt[q][s])
    BY <1>9, <1>13, Zenon DEF SelectsAround
  <2>2. InfoFits(b, q, s) /\ LearnFits(b.pt[q][s]) /\ SwitchFits(b, q, s)
    BY Zenon DEF InOrder, PartFits
  <2>3. InfoFits(d, q, s) /\ LearnFits(d.pt[q][s]) /\ SwitchFits(d, q, s)
    BY <1>9, <2>1, <2>2, AlikeParts, InfoDecides, RoleDecides, HardwareDecides, Zenon
  <2>4. /\ c.pt[q][s] = d.pt[q][s] /\ c.tree[s] = d.tree[s] /\ c.port = d.port
        /\ c.BEGIN = d.BEGIN /\ c.started = d.started /\ TreesOf(c) = TreesOf(d)
    BY <1>8, <1>10, <1>11, <1>13, Zenon
  <2>5. InfoFits(c, q, s)
    BY <2>3, <2>4, Zenon DEF InfoFits, SelectionFits, NoUpdate
  <2>6. SwitchFits(c, q, s)
    BY <2>3, <2>4, Zenon DEF SwitchFits
  <2> QED BY <2>3, <2>4, <2>5, <2>6, Zenon DEF PartFits
<1>14. ASSUME NEW q \in Ports, NEW s \in Trees, MustDisable(c, q, s)
       PROVE  MustDisable(b, q, s)
  <2>1. /\ d.pt[q][s].infoIs = b.pt[q][s].infoIs
        /\ d.pt[q][s].portInformationState = b.pt[q][s].portInformationState
    BY <1>9, Zenon DEF SelectsAround, Unselected
  <2>2. /\ c.BEGIN = b.BEGIN /\ c.port[q].portEnabled = b.port[q].portEnabled
        /\ c.pt[q][s].infoIs = b.pt[q][s].infoIs
        /\ c.pt[q][s].portInformationState = b.pt[q][s].portInformationState
    BY <1>8, <1>10, <2>1, Zenon
  <2> QED BY <1>14, <2>2, Zenon DEF MustDisable
<1>15. Begun(c)
  <2>1. \A s \in TreesOf(b) : s # t => c.tree[s].portRoleSelectionState
                                         = d.tree[s].portRoleSelectionState
    BY <1>1, <1>8, Zenon
  <2>2. c.tree[t].portRoleSelectionState # "NONE"
    BY <1>2, <1>8, Zenon
  <2> QED BY <1>8, <1>10, <1>11, <2>1, <2>2, Zenon DEF Begun
<1>16. Orderly(b, c) /\ MessagesFade(b, c)
  <2>1. MessagesFade(b, c)
    BY <1>8, <1>9, Zenon DEF SelectsAround, MessagesFade
  <2>2. SameOutside(b, c)
    BY <1>8, <1>9, Zenon DEF SameFrame, SameOutside
  <2> QED BY <1>12, <1>13, <1>14, <1>15, <2>1, <2>2, Zenon DEF Orderly, InOrder
<1> QED BY <1>16, Zenon DEF c

-----------------------------------------------------------------------------
(***************************************************************************)
(* The invariant along a run: every step of RunStateMachines and every     *)
(* call keeps it, and when a call returns each port is at ease.            *)
(***************************************************************************)
-----------------------------------------------------------------------------
(***************************************************************************)
(* Port Information comes before Port Role Selection: a port that is to be *)
(* disabled holds up the pass.                                             *)
(***************************************************************************)
LEMMA DisableReady ==
  ASSUME NEW b, NEW p \in Ports, NEW t \in TreesOf(b), InfoFits(b, p, t), MustDisable(b, p, t)
  PROVE  Ready(b, Instance("PortInformation", p, t))
<1> DEFINE i == Instance("PortInformation", p, t)
           x == b.pt[p][t]
<1>1. i.machine = "PortInformation" /\ i.port = p /\ i.tree = t
  BY Zenon DEF Instance
<1> HIDE DEF i
<1>2. StateFits(x)
  BY Zenon DEF InfoFits
<1>3. x.portInformationState = "DISABLED" => x.infoIs = "DISABLED"
  BY <1>2, Zenon DEF StateFits
<1>4. PortInformationNext(b, p, t) = "DISABLED"
  <2>1. b.BEGIN \/ (~b.port[p].portEnabled /\ x.infoIs # "DISABLED")
    BY Zenon DEF MustDisable
  <2>2. x.portInformationState # "DISABLED"
    BY <1>3, Zenon DEF MustDisable
  <2> QED BY <2>1, <2>2, SMT DEF PortInformationNext
<1>5. Transition(b, i) = PortInformationNext(b, p, t)
  BY <1>1, SMT DEF Transition
<1>6. Transition(b, i) # "NONE"
  BY <1>4, <1>5, SMT
<1> QED BY <1>1, <1>6, Zenon DEF Ready, i

\* The last place of a port, and the first after the ports.
LEMMA InformationFirst ==
  ASSUME NEW p \in Ports, NEW s \in Trees, NEW t \in Trees
  PROVE  Position[Instance("PortInformation", p, s)] < Position[Instance("PortRoleSelection", 1, t)]
<1> DEFINE i == Instance("PortInformation", p, s)
           j == Instance("PortRoleSelection", 1, t)
<1>1. i \in Instances /\ j \in Instances
  <2>1. 1 \in Ports
    BY SizesAssumption, SMT DEF Ports
  <2> QED BY <2>1, InstancesNamed, Zenon
<1>2. /\ i.machine = "PortInformation" /\ i.port = p /\ i.tree = s
      /\ j.machine = "PortRoleSelection" /\ j.tree = t
  BY Zenon DEF Instance
<1> HIDE DEF i, j
<1>3. Position[j] = NumPorts * PortWidth + t
  <2>1. ~\E k \in 1..4 : j.machine = PortMachines[k]
    BY <1>2, SMT DEF PortMachines
  <2> QED BY <1>1, <1>2, <2>1, Zenon DEF Position
<1>4. Position[i] = (p - 1) * PortWidth + 4 * s + IndexOf("PortInformation", TreeMachines) + 3
  <2>1. i.machine # "PortRoleSelection" /\ ~\E k \in 1..4 : i.machine = PortMachines[k]
    BY <1>2, SMT DEF PortMachines
  <2> QED BY <1>1, <1>2, <2>1, Zenon DEF Position
<1>5. IndexOf("PortInformation", TreeMachines) \in 1..4
  <2>1. \E k \in 1..4 : "PortInformation" = TreeMachines[k]
    BY SMT DEF TreeMachines
  <2> QED BY <2>1, IndexTyped, Zenon
<1>6. IndexOf("PortInformation", TreeMachines) = 1
  <2>1. \E k \in 1..4 : TreeMachines[k] = "PortInformation"
    BY SMT DEF TreeMachines
  <2>2. TreeMachines[IndexOf("PortInformation", TreeMachines)] = "PortInformation"
    BY <2>1, Zenon DEF IndexOf
  <2> QED BY <1>5, <2>2, SMT DEF TreeMachines
<1>7. PortWidth \in Nat /\ 4 * s + 4 < PortWidth /\ s \in Nat /\ t \in Nat
  BY SizesAssumption, SMT DEF PortWidth, Trees
<1>8. p \in 1..NumPorts /\ NumPorts \in Nat
  BY SizesAssumption, SMT DEF Ports
<1>9. (p - 1) * PortWidth + PortWidth <= NumPorts * PortWidth
  <2>1. ASSUME NEW w \in Nat, NEW n \in Nat, NEW q \in 1..n
        PROVE  (q - 1) * w + w <= n * w
    <3>1. n = q + (n - q) /\ n - q \in Nat /\ q - 1 \in Nat
      BY SMT
    <3>2. n * w = (q - 1) * w + w + (n - q) * w
      BY <3>1, SMT
    <3>3. (n - q) * w \in Nat
      BY <3>1, SMT
    <3> QED BY <3>2, <3>3, SMT
  <2> QED BY <1>7, <1>8, <2>1
<1> DEFINE first == (p - 1) * PortWidth
           after == NumPorts * PortWidth
<1>10. first \in Int /\ after \in Int
  <2>1. ASSUME NEW m \in Int, NEW n \in Int
        PROVE  m * n \in Int
    BY SMT
  <2>2. p - 1 \in Int /\ NumPorts \in Int /\ PortWidth \in Int
    BY <1>7, <1>8, SMT
  <2> QED BY <2>1, <2>2, Zenon
<1>11. first + PortWidth <= after /\ Position[j] = after + t /\ Position[i] = first + 4 * s + 4
  <2>1. Position[i] = first + 4 * s + 1 + 3
    BY <1>4, <1>6, Zenon
  <2>2. first + PortWidth <= after /\ Position[j] = after + t
    BY <1>3, <1>9, Zenon
  <2> HIDE DEF first, after
  <2>3. first + 4 * s + 1 + 3 = first + 4 * s + 4
    BY <1>7, <1>10, SMT
  <2> QED BY <2>1, <2>2, <2>3
<1> HIDE DEF first, after
<1>12. Position[i] < Position[j]
  <2>1. ASSUME NEW m \in Int, NEW n \in Int, NEW w \in Int, NEW k \in Nat, m + w <= n,
               4 * s + 4 < w, s \in Nat
        PROVE  m + 4 * s + 4 < n + k
    BY <2>1, SMT
  <2>2. PortWidth \in Int
    BY <1>7, SMT
  <2> QED BY <1>7, <1>10, <1>11, <2>1, <2>2, Zenon
<1> QED BY <1>12, Zenon DEF i, j

\* While the machines run, a port that is to be disabled lies ahead.
Scheduled ==
  run.phase = "machines" =>
    \A q \in Ports, s \in TreesOf(bridge) :
      MustDisable(bridge, q, s) => run.at <= Position[Instance("PortInformation", q, s)]

\* So no instance behind it has its turn.
LEMMA TurnsBefore ==
  ASSUME TypeOK, Scheduled, InOrder(bridge), NEW i \in Instances, Turn(i),
         NEW q \in Ports, NEW s \in TreesOf(bridge), MustDisable(bridge, q, s)
  PROVE  Position[i] <= Position[Instance("PortInformation", q, s)]
<1> DEFINE j == Instance("PortInformation", q, s)
<1>1. s \in Trees
  BY CistIsTree, Zenon DEF TreesOf
<1>2. j \in Instances
  BY <1>1, InstancesNamed, Zenon
<1>3. Ready(bridge, j)
  BY <1>1, DisableReady, Zenon DEF InOrder, PartFits
<1>4. run.at <= Position[j]
  BY Zenon DEF Scheduled, Turn
<1> HIDE DEF j
<1>5. ~(Position[j] < Position[i])
  BY <1>2, <1>3, <1>4, Zenon DEF Turn
<1>6. Position[i] <= Position[j]
  <2>1. Position[i] \in Nat /\ Position[j] \in Nat
    BY <1>2, PositionTyped, Zenon
  <2>2. ASSUME NEW m \in Nat, NEW n \in Nat, ~(n < m)
        PROVE  m <= n
    BY <2>2, SMT
  <2> QED BY <1>5, <2>1, <2>2, Zenon
<1> QED BY <1>6, Zenon DEF j

-----------------------------------------------------------------------------
(***************************************************************************)
(* The steps of RunStateMachines.                                          *)
(***************************************************************************)
\* What it means that instance i has its turn.
LEMMA TurnsAre ==
  ASSUME NEW i \in Instances, NEW b, Moves(i, b)
  PROVE  /\ Turn(i) /\ i.tree \in TreesOf(bridge) /\ Transition(bridge, i) # "NONE"
         /\ bridge' = b /\ run.phase = "machines"
  BY Zenon DEF Moves, Turn, Ready

\* The machines of a port.
LEMMA PortMachineOrderly ==
  ASSUME TypeOK, InOrder(bridge), NEW p \in Ports,
         \/ PortTimersStep(p) \/ ProtocolMigrationStep(p) \/ BridgeDetectionStep(p)
  PROVE  Orderly(bridge, bridge') /\ MessagesFade(bridge, bridge')
<1>1. bridge \in Bridge
  BY Zenon DEF TypeOK
<1>2. CASE PortTimersStep(p)
  <2> DEFINE i == Instance("PortTimers", p, CIST)
  <2>1. i \in Instances /\ i.machine = "PortTimers" /\ i.port = p
    BY InstancesNamed, CistIsTree, Zenon DEF Instance
  <2>2. Moves(i, EnterPortTimers(bridge, p))
    BY <1>2, Zenon DEF PortTimersStep
  <2> HIDE DEF i
  <2>3. Transition(bridge, i) # "NONE" /\ bridge' = EnterPortTimers(bridge, p)
    BY <2>1, <2>2, TurnsAre, Zenon
  <2>4. Transition(bridge, i) = PortTimersNext(bridge, p)
    BY <2>1, SMT DEF Transition
  <2>5. Untouched(bridge, EnterPortTimers(bridge, p))
    BY <1>1, <2>3, <2>4, PortTimersUntouched, Zenon
  <2> QED BY <2>3, <2>5, UntouchedOrderly, Zenon
<1>3. CASE ProtocolMigrationStep(p)
  <2>1. bridge' = EnterProtocolMigration(bridge, p)
    BY <1>3, Zenon DEF ProtocolMigrationStep, Moves
  <2> QED BY <1>1, <2>1, FlagMachinesUntouched, UntouchedOrderly, Zenon
<1>4. CASE BridgeDetectionStep(p)
  <2>1. bridge' = EnterBridgeDetection(bridge, p)
    BY <1>4, Zenon DEF BridgeDetectionStep, Moves
  <2> QED BY <1>1, <2>1, FlagMachinesUntouched, UntouchedOrderly, Zenon
<1> QED BY <1>2, <1>3, <1>4, Zenon

\* The machines of a port and a tree.
LEMMA TreeMachineOrderly ==
  ASSUME TypeOK, InOrder(bridge), bridge.started, NEW p \in Ports, NEW t \in Trees,
         \/ PortInformationStep(p, t) \/ RoleTransitionsStep(p, t)
         \/ StateTransitionStep(p, t) \/ TopologyChangeStep(p, t)
  PROVE  Orderly(bridge, bridge') /\ MessagesFade(bridge, bridge')
<1>1. bridge \in Bridge
  BY Zenon DEF TypeOK
<1>2. CASE PortInformationStep(p, t)
  <2> DEFINE i == Instance("PortInformation", p, t)
  <2>1. i \in Instances /\ i.machine = "PortInformation" /\ i.port = p /\ i.tree = t
    BY InstancesNamed, Zenon DEF Instance
  <2>2. Moves(i, EnterPortInformation(bridge, p, t))
    BY <1>2, Zenon DEF PortInformationStep
  <2> HIDE DEF i
  <2>3. /\ Transition(bridge, i) # "NONE" /\ bridge' = EnterPortInformation(bridge, p, t)
        /\ t \in TreesOf(bridge)
    BY <2>1, <2>2, TurnsAre, Zenon
  <2>4. Transition(bridge, i) = PortInformationNext(bridge, p, t)
    BY <2>1, SMT DEF Transition
  <2> QED BY <1>1, <2>3, <2>4, PortInformationOrderly, Zenon
<1>3. CASE RoleTransitionsStep(p, t)
  <2>1. bridge' = EnterRoleTransitions(bridge, p, t)
    BY <1>3, Zenon DEF RoleTransitionsStep, Moves
  <2> QED BY <1>1, <2>1, RoleTransitionsOrderly, Zenon
<1>4. CASE StateTransitionStep(p, t)
  <2> DEFINE i == Instance("PortStateTransition", p, t)
  <2>1. i \in Instances /\ i.machine = "PortStateTransition" /\ i.port = p /\ i.tree = t
    BY InstancesNamed, Zenon DEF Instance
  <2>2. Moves(i, EnterStateTransition(bridge, p, t))
    BY <1>4, Zenon DEF StateTransitionStep
  <2> HIDE DEF i
  <2>3. /\ Transition(bridge, i) # "NONE" /\ bridge' = EnterStateTransition(bridge, p, t)
        /\ t \in TreesOf(bridge)
    BY <2>1, <2>2, TurnsAre, Zenon
  <2>4. Transition(bridge, i) = StateTransitionNext(bridge, p, t)
    BY <2>1, SMT DEF Transition
  <2> QED BY <1>1, <2>3, <2>4, StateTransitionOrderly, Zenon
<1>5. CASE TopologyChangeStep(p, t)
  <2>1. bridge' = EnterTopologyChange(bridge, p, t)
    BY <1>5, Zenon DEF TopologyChangeStep, Moves
  <2> QED BY <1>1, <2>1, TopologyChangeUntouched, UntouchedOrderly, Zenon
<1> QED BY <1>2, <1>3, <1>4, <1>5, Zenon

\* Port Role Selection has its turn when no port is left that is to be disabled.
LEMMA SelectionOrderly ==
  ASSUME TypeOK, InOrder(bridge), Scheduled, NEW t \in Trees, RoleSelectionStep(t)
  PROVE  Orderly(bridge, bridge') /\ MessagesFade(bridge, bridge')
<1> DEFINE i == Instance("PortRoleSelection", 1, t)
<1>1. bridge \in Bridge /\ 1 \in Ports
  BY SizesAssumption, SMT DEF TypeOK, Ports
<1>2. i \in Instances /\ i.machine = "PortRoleSelection" /\ i.tree = t
  BY <1>1, InstancesNamed, Zenon DEF Instance
<1>3. Moves(i, EnterRoleSelection(bridge, t))
  BY Zenon DEF RoleSelectionStep
<1>4. \A q \in Ports : Position[Instance("PortInformation", q, t)] < Position[i]
  BY InformationFirst, Zenon
<1> HIDE DEF i
<1>5. /\ Turn(i) /\ Transition(bridge, i) # "NONE" /\ t \in TreesOf(bridge)
      /\ bridge' = EnterRoleSelection(bridge, t)
  BY <1>2, <1>3, TurnsAre, Zenon
<1>6. Transition(bridge, i) = RoleSelectionNext(bridge, t)
  BY <1>2, SMT DEF Transition
<1>7. ASSUME NEW q \in Ports, MustDisable(bridge, q, t)
      PROVE  FALSE
  <2> DEFINE j == Instance("PortInformation", q, t)
  <2>1. j \in Instances
    BY InstancesNamed, Zenon
  <2>2. Position[i] <= Position[j] /\ Position[j] < Position[i]
    BY <1>2, <1>4, <1>5, <1>7, TurnsBefore, Zenon
  <2>3. Position[i] \in Nat /\ Position[j] \in Nat
    BY <1>2, <2>1, PositionTyped, Zenon
  <2>4. ASSUME NEW m \in Nat, NEW n \in Nat
        PROVE  ~(m <= n /\ n < m)
    BY SMT
  <2> QED BY <2>2, <2>3, <2>4, Zenon
<1> QED BY <1>1, <1>5, <1>6, <1>7, RoleSelectionOrderly, Zenon

\* A step of the main loops is the turn of some instance.
LEMMA StepsAreTurns ==
  ASSUME MachineStep
  PROVE  \E i \in Instances :
           Turn(i) /\ run' = [run EXCEPT !.at = Position[i], !.changed = TRUE]
<1> DEFINE Turns == \E i \in Instances :
                      Turn(i) /\ run' = [run EXCEPT !.at = Position[i], !.changed = TRUE]
<1>1. ASSUME NEW i \in Instances, NEW b, Moves(i, b)
      PROVE  Turns
  BY <1>1, Zenon DEF Moves
<1> HIDE DEF Turns
<1>2. ASSUME NEW p \in Ports, \/ PortTimersStep(p) \/ ProtocolMigrationStep(p)
                              \/ PortReceiveStep(p) \/ BridgeDetectionStep(p)
      PROVE  Turns
  BY <1>1, <1>2, InstancesNamed, CistIsTree, Zenon
     DEF PortTimersStep, ProtocolMigrationStep, PortReceiveStep, BridgeDetectionStep
<1>3. ASSUME NEW p \in Ports, NEW t \in Trees,
             \/ PortInformationStep(p, t) \/ RoleTransitionsStep(p, t)
             \/ StateTransitionStep(p, t) \/ TopologyChangeStep(p, t)
      PROVE  Turns
  BY <1>1, <1>3, InstancesNamed, Zenon
     DEF PortInformationStep, RoleTransitionsStep, StateTransitionStep, TopologyChangeStep
<1>4. ASSUME NEW t \in Trees, RoleSelectionStep(t)
      PROVE  Turns
  <2>1. 1 \in Ports
    BY SizesAssumption, SMT DEF Ports
  <2> QED BY <1>1, <1>4, <2>1, InstancesNamed, Zenon DEF RoleSelectionStep
<1>5. Turns
  BY <1>2, <1>3, <1>4, Zenon DEF MachineStep
<1> QED BY <1>5, Zenon DEF Turns

\* What no machine changes decides the trees.
LEMMA OutsideTrees ==
  ASSUME NEW b, NEW c, SameOutside(b, c)
  PROVE  TreesOf(c) = TreesOf(b)
  BY Zenon DEF SameOutside, TreesOf

\* A transition of the main loops.
LEMMA MachineStepOrderly ==
  ASSUME TypeOK, InOrder(bridge), bridge.started, Scheduled, MachineStep
  PROVE  /\ Orderly(bridge, bridge') /\ Scheduled'
         /\ run.phase = "machines" /\ run'.phase = "machines"
<1>1. bridge \in Bridge /\ run \in Run
  BY Zenon DEF TypeOK
<1>2. PICK i \in Instances : Turn(i) /\ run' = [run EXCEPT !.at = Position[i], !.changed = TRUE]
  BY StepsAreTurns
<1>3. run.phase = "machines" /\ run'.phase = "machines" /\ run'.at = Position[i]
  BY <1>1, <1>2, Zenon DEF Turn, Run
<1>4. ASSUME NEW p \in Ports, PortReceiveStep(p)
      PROVE  Orderly(bridge, bridge')
  <2>1. bridge' = EnterPortReceive(bridge, p)
    BY <1>4, Zenon DEF PortReceiveStep, Moves
  <2>2. RolesUntouched(bridge, bridge')
    BY <1>1, <2>1, PortReceiveRolesUntouched, Zenon
  <2> QED BY <2>2, RolesUntouchedOrderly, Zenon
<1>5. Orderly(bridge, bridge')
  BY <1>4, PortMachineOrderly, TreeMachineOrderly, SelectionOrderly, Zenon DEF MachineStep
<1>6. Scheduled'
  <2>1. TreesOf(bridge') = TreesOf(bridge)
    BY <1>5, OutsideTrees, Zenon DEF Orderly
  <2>2. ASSUME NEW q \in Ports, NEW s \in TreesOf(bridge), MustDisable(bridge', q, s)
        PROVE  run'.at <= Position[Instance("PortInformation", q, s)]
    <3>1. s \in Trees
      BY CistIsTree, Zenon DEF TreesOf
    <3>2. MustDisable(bridge, q, s)
      BY <1>5, <2>2, <3>1, Zenon DEF Orderly
    <3> QED BY <1>2, <1>3, <3>2, TurnsBefore, Zenon
  <2> QED BY <2>1, <2>2, Zenon DEF Scheduled
<1> QED BY <1>3, <1>5, <1>6, Zenon

-----------------------------------------------------------------------------
(***************************************************************************)
(* A bridge whose machines cannot move is at ease.                         *)
(***************************************************************************)
\* port p in tree t when nothing is left to do
AtEase(b, p, t) ==
  LET x == b.pt[p][t]
  IN  /\ b.tree[t].portRoleSelectionState = "ROLE_SELECTION"
      /\ x.selected /\ ~x.reselect /\ ~x.updtInfo /\ (cist(t) => ~x.rcvdMsg)
      /\ x.role = x.selectedRole \/ x.selectedRole = "UNDEFINED"
      /\ x.learn = x.learning /\ x.forward = x.forwarding
      /\ x.infoIs = "DISABLED" <=> ~b.port[p].portEnabled
      /\ x.infoIs = "RECEIVED" => x.rcvdInfoWhile # 0
      /\ ~b.port[p].tick

NoneReady(b) == \A i \in Instances : ~Ready(b, i)

\* Then no machine has a transition.
LEMMA NoneReadyMeans ==
  ASSUME NEW b, NoneReady(b), NEW p \in Ports, NEW t \in TreesOf(b)
  PROVE  /\ PortTimersNext(b, p) = "NONE" /\ PortReceiveNext(b, p) = "NONE"
         /\ PortInformationNext(b, p, t) = "NONE" /\ RoleTransitionsNext(b, p, t) = "NONE"
         /\ StateTransitionNext(b, p, t) = "NONE" /\ RoleSelectionNext(b, t) = "NONE"
<1>1. t \in Trees /\ CIST \in TreesOf(b) /\ CIST \in Trees /\ 1 \in Ports
  <2>1. CIST \in TreesOf(b) /\ TreesOf(b) \subseteq Trees
    BY CistIsTree, Zenon DEF TreesOf
  <2>2. 1 \in Ports
    BY SizesAssumption, SMT DEF Ports
  <2> QED BY <2>1, <2>2, CistIsTree, Zenon
<1>2. ASSUME NEW i \in Instances, i.tree \in TreesOf(b)
      PROVE  Transition(b, i) = "NONE"
  BY <1>2, Zenon DEF NoneReady, Ready
<1>3. PortTimersNext(b, p) = "NONE"
  <2> DEFINE i == Instance("PortTimers", p, CIST)
  <2>1. i \in Instances /\ i.machine = "PortTimers" /\ i.port = p /\ i.tree = CIST
    BY <1>1, InstancesNamed, Zenon DEF Instance
  <2> HIDE DEF i
  <2>2. Transition(b, i) = PortTimersNext(b, p)
    BY <2>1, SMT DEF Transition
  <2> QED BY <1>1, <1>2, <2>1, <2>2, Zenon
<1>4. PortReceiveNext(b, p) = "NONE"
  <2> DEFINE i == Instance("PortReceive", p, CIST)
  <2>1. i \in Instances /\ i.machine = "PortReceive" /\ i.port = p /\ i.tree = CIST
    BY <1>1, InstancesNamed, Zenon DEF Instance
  <2> HIDE DEF i
  <2>2. Transition(b, i) = PortReceiveNext(b, p)
    BY <2>1, SMT DEF Transition
  <2> QED BY <1>1, <1>2, <2>1, <2>2, Zenon
<1>5. PortInformationNext(b, p, t) = "NONE"
  <2> DEFINE i == Instance("PortInformation", p, t)
  <2>1. i \in Instances /\ i.machine = "PortInformation" /\ i.port = p /\ i.tree = t
    BY <1>1, InstancesNamed, Zenon DEF Instance
  <2> HIDE DEF i
  <2>2. Transition(b, i) = PortInformationNext(b, p, t)
    BY <2>1, SMT DEF Transition
  <2> QED BY <1>2, <2>1, <2>2, Zenon
<1>6. RoleTransitionsNext(b, p, t) = "NONE"
  <2> DEFINE i == Instance("PortRoleTransitions", p, t)
  <2>1. i \in Instances /\ i.machine = "PortRoleTransitions" /\ i.port = p /\ i.tree = t
    BY <1>1, InstancesNamed, Zenon DEF Instance
  <2> HIDE DEF i
  <2>2. Transition(b, i) = RoleTransitionsNext(b, p, t)
    BY <2>1, SMT DEF Transition
  <2> QED BY <1>2, <2>1, <2>2, Zenon
<1>7. StateTransitionNext(b, p, t) = "NONE"
  <2> DEFINE i == Instance("PortStateTransition", p, t)
  <2>1. i \in Instances /\ i.machine = "PortStateTransition" /\ i.port = p /\ i.tree = t
    BY <1>1, InstancesNamed, Zenon DEF Instance
  <2> HIDE DEF i
  <2>2. Transition(b, i) = StateTransitionNext(b, p, t)
    BY <2>1, SMT DEF Transition
  <2> QED BY <1>2, <2>1, <2>2, Zenon
<1>8. RoleSelectionNext(b, t) = "NONE"
  <2> DEFINE i == Instance("PortRoleSelection", 1, t)
  <2>1. i \in Instances /\ i.machine = "PortRoleSelection" /\ i.tree = t
    BY <1>1, InstancesNamed, Zenon DEF Instance
  <2> HIDE DEF i
  <2>2. Transition(b, i) = RoleSelectionNext(b, t)
    BY <2>1, SMT DEF Transition
  <2> QED BY <1>2, <2>1, <2>2, Zenon
<1> QED BY <1>3, <1>4, <1>5, <1>6, <1>7, <1>8, Zenon

\* The states that the machines of a port and a tree can be in.
LEMMA StatesOf ==
  ASSUME NEW b \in Bridge, NEW p \in Ports, NEW t \in Trees
  PROVE  /\ b.pt[p][t].portInformationState \in InformationStates
         /\ b.pt[p][t].portStateTransitionState \in StateTransitionStates
         /\ b.pt[p][t].learn \in BOOLEAN /\ b.pt[p][t].forward \in BOOLEAN
         /\ b.pt[p][t].learning \in BOOLEAN /\ b.pt[p][t].forwarding \in BOOLEAN
         /\ b.pt[p][t].selectedRole \in Roles /\ b.pt[p][t].infoIs \in InfoIs
         /\ b.port[p].portTimersState \in PortTimersStates
         /\ b.tree[t].portRoleSelectionState \in RoleSelectionStates
<1>1. b.pt[p][t] \in PortTree /\ b.port[p] \in Port /\ b.tree[t] \in BridgeTree
  BY BridgeParts, BridgeTreePart, Zenon
<1>2. /\ b.pt[p][t].portInformationState \in InformationStates
      /\ b.pt[p][t].portStateTransitionState \in StateTransitionStates
      /\ b.pt[p][t].learn \in BOOLEAN /\ b.pt[p][t].forward \in BOOLEAN
      /\ b.pt[p][t].learning \in BOOLEAN /\ b.pt[p][t].forwarding \in BOOLEAN
      /\ b.pt[p][t].selectedRole \in Roles /\ b.pt[p][t].infoIs \in InfoIs
  BY <1>1, ZenonT(60) DEF PortTree
<1>3. b.port[p].portTimersState \in PortTimersStates
  BY <1>1, ZenonT(60) DEF Port
<1>4. b.tree[t].portRoleSelectionState \in RoleSelectionStates
  BY <1>1, ZenonT(60) DEF BridgeTree
<1> QED BY <1>2, <1>3, <1>4, Zenon

\* The information is settled, whether or not a message waits for the CIST's.
LEMMA InformationRests ==
  ASSUME NEW b \in Bridge, InOrder(b), b.started, ~b.BEGIN, NoneReady(b),
         NEW p \in Ports, NEW t \in TreesOf(b)
  PROVE  LET x == b.pt[p][t]
         IN  /\ b.tree[t].portRoleSelectionState = "ROLE_SELECTION"
             /\ x.selected /\ ~x.reselect /\ ~x.updtInfo
             /\ x.infoIs = "DISABLED" <=> ~b.port[p].portEnabled
             /\ x.portInformationState = "DISABLED" => ~x.rcvdMsg
             /\ x.infoIs = "RECEIVED" => x.portInformationState = "CURRENT"
             /\ x.portInformationState \in {"DISABLED", "AGED", "CURRENT"}
             /\ x.portInformationState = "AGED" => x.infoIs = "AGED"
<1> DEFINE x     == b.pt[p][t]
           state == x.portInformationState
           role  == b.tree[t].portRoleSelectionState
<1>1. t \in Trees
  BY CistIsTree, Zenon DEF TreesOf
<1>2. PortInformationNext(b, p, t) = "NONE" /\ RoleSelectionNext(b, t) = "NONE"
  BY NoneReadyMeans, Zenon
<1>3. /\ InfoFits(b, p, t) /\ StateFits(x) /\ SelectionFits(b, p, t) /\ NoUpdate(b, p, t)
      /\ Begun(b) /\ state # "NONE"
  BY <1>1, Zenon DEF InOrder, PartFits, InfoFits
<1>4. role # "NONE" /\ role \in RoleSelectionStates
  BY <1>1, <1>3, StatesOf, Zenon DEF Begun
<1>5. role = "ROLE_SELECTION" /\ \A q \in Ports : ~b.pt[q][t].reselect
  BY <1>2, <1>4, SMT DEF RoleSelectionNext, RoleSelectionStates
<1>6. x.selected /\ ~x.reselect
  BY <1>3, <1>5, Zenon DEF SelectionFits
<1>7. state \in InformationStates
  BY <1>1, StatesOf, Zenon
<1>8. b.port[p].portEnabled \/ x.infoIs = "DISABLED"
  <2>1. SUFFICES ASSUME ~b.port[p].portEnabled, x.infoIs # "DISABLED"
                 PROVE  FALSE
    BY Zenon
  <2>2. state # "DISABLED"
    BY <1>3, <2>1, Zenon DEF StateFits
  <2> HIDE DEF state
  <2> QED BY <1>2, <2>1, <2>2, SMT DEF PortInformationNext, state
<1>9. /\ state = "DISABLED" <=> x.infoIs = "DISABLED"
      /\ state = "AGED" <=> x.infoIs = "AGED"
      /\ state = "RECEIVE" => x.rcvdInfo # "UNKNOWN"
  BY <1>3, Zenon DEF StateFits
<1>10. state = "DISABLED" => ~x.rcvdMsg /\ ~b.port[p].portEnabled
  BY <1>2, <1>8, <1>9, SMT DEF PortInformationNext
<1>11. state # "RECEIVE"
  <2>1. SUFFICES ASSUME state = "RECEIVE"
                 PROVE  FALSE
    BY Zenon
  <2>2. x.rcvdInfo \in RcvdInfos /\ x.rcvdInfo # "UNKNOWN"
    BY <1>1, <1>9, <2>1, BridgeParts, PortTreeFields, Zenon
  <2>3. x.rcvdInfo # "NONE"
    BY <2>2, SMT DEF RcvdInfos
  <2>4. ~(b.BEGIN \/ (~b.port[p].portEnabled /\ x.infoIs # "DISABLED"))
    BY <1>8, Zenon
  <2>5. \/ PortInformationNext(b, p, t) = "NOT_DESIGNATED"
        \/ PortInformationNext(b, p, t) = x.rcvdInfo
    BY <2>1, <2>2, <2>4, SMT DEF PortInformationNext
  <2> QED BY <1>2, <2>3, <2>5, SMT
<1>12. state \in {"DISABLED", "AGED", "CURRENT"}
  BY <1>2, <1>3, <1>7, <1>8, <1>9, <1>11, SMT DEF PortInformationNext, InformationStates
<1>13. ~x.updtInfo
  <2>1. state = "DISABLED" => ~x.updtInfo
    BY <1>3, <1>9, Zenon DEF NoUpdate
  <2>2. state = "AGED" => ~x.updtInfo
    BY <1>2, <1>6, <1>8, <1>9, SMT DEF PortInformationNext
  <2>3. state = "CURRENT" => ~x.updtInfo
    BY <1>2, <1>6, <1>8, <1>9, SMT DEF PortInformationNext
  <2> QED BY <1>12, <2>1, <2>2, <2>3, Zenon
<1>14. x.infoIs = "RECEIVED" => state = "CURRENT"
  BY <1>9, <1>12, SMT
<1>15. x.infoIs = "DISABLED" <=> ~b.port[p].portEnabled
  BY <1>8, <1>9, <1>10, Zenon
<1> QED BY <1>5, <1>6, <1>9, <1>10, <1>12, <1>13, <1>14, <1>15, Zenon

\* The CIST has read its messages.
LEMMA MessagesRead ==
  ASSUME NEW b \in Bridge, InOrder(b), b.started, ~b.BEGIN, NoneReady(b), NEW p \in Ports
  PROVE  ~b.pt[p][CIST].rcvdMsg
<1> DEFINE x     == b.pt[p][CIST]
           state == x.portInformationState
<1>1. CIST \in TreesOf(b) /\ cist(CIST) /\ CIST \in Trees
  BY CistIsTree, Zenon DEF TreesOf, cist
<1>2. /\ b.tree[CIST].portRoleSelectionState = "ROLE_SELECTION" /\ ~x.updtInfo /\ ~x.reselect
      /\ x.infoIs = "DISABLED" <=> ~b.port[p].portEnabled
      /\ state = "DISABLED" => ~x.rcvdMsg
      /\ state \in {"DISABLED", "AGED", "CURRENT"}
      /\ state = "AGED" => x.infoIs = "AGED"
  BY <1>1, InformationRests, Zenon
<1>3. PortInformationNext(b, p, CIST) = "NONE"
  BY <1>1, NoneReadyMeans, Zenon
<1>4. RoleFits(x)
  BY <1>1, <1>2, Zenon DEF InOrder, PartFits, InfoFits, SelectionFits
<1>5. x.infoIs # "AGED"
  BY <1>2, <1>4, SMT DEF RoleFits
<1>6. state # "AGED"
  BY <1>2, <1>5, Zenon
<1>7. state = "CURRENT" => ~x.rcvdMsg
  <2>1. SUFFICES ASSUME state = "CURRENT", x.rcvdMsg
                 PROVE  FALSE
    BY Zenon
  <2>2. rcvdXstMsg(b, p, CIST) /\ ~updtXstInfo(b, p, CIST)
    BY <1>1, <1>2, <2>1, Zenon DEF rcvdXstMsg, updtXstInfo
  <2>3. ~(b.BEGIN \/ (~b.port[p].portEnabled /\ x.infoIs # "DISABLED"))
    BY <1>2, Zenon
  <2>4. PortInformationNext(b, p, CIST) = "RECEIVE"
    BY <1>2, <2>1, <2>2, <2>3, SMT DEF PortInformationNext
  <2> QED BY <1>3, <2>4, SMT
<1> QED BY <1>2, <1>6, <1>7, Zenon

\* Roles are taken, and the hardware does what they ask for.
LEMMA RolesRest ==
  ASSUME NEW b \in Bridge, InOrder(b), b.started, ~b.BEGIN, NoneReady(b),
         NEW p \in Ports, NEW t \in TreesOf(b)
  PROVE  LET x == b.pt[p][t]
         IN  /\ x.role = x.selectedRole \/ x.selectedRole = "UNDEFINED"
             /\ x.learn = x.learning /\ x.forward = x.forwarding
<1> DEFINE x     == b.pt[p][t]
           state == x.portStateTransitionState
<1>1. t \in Trees
  BY CistIsTree, Zenon DEF TreesOf
<1>2. RoleTransitionsNext(b, p, t) = "NONE" /\ StateTransitionNext(b, p, t) = "NONE"
  BY NoneReadyMeans, Zenon
<1>3. LearnFits(x) /\ HardwareFits(x) /\ state # "NONE"
  BY <1>1, Zenon DEF InOrder, PartFits, SwitchFits
<1>4. /\ state \in StateTransitionStates /\ x.selectedRole \in Roles
      /\ x.learn \in BOOLEAN /\ x.forward \in BOOLEAN
      /\ x.learning \in BOOLEAN /\ x.forwarding \in BOOLEAN
  BY <1>1, StatesOf, Zenon
<1>5. x.selected /\ ~x.updtInfo
  BY InformationRests, Zenon
<1>6. x.role = x.selectedRole \/ x.selectedRole = "UNDEFINED"
  <2>1. SUFFICES ASSUME x.role # x.selectedRole, x.selectedRole # "UNDEFINED"
                 PROVE  FALSE
    BY Zenon
  <2>2. RoleTransitionsNext(b, p, t) = EntryState(x.selectedRole)
    BY <1>5, <2>1, SMT DEF RoleTransitionsNext
  <2>3. EntryState(x.selectedRole) # "NONE"
    BY <1>4, <2>1, SMT DEF EntryState, Roles
  <2> QED BY <1>2, <2>2, <2>3, Zenon
<1>7. x.forward => x.learn
  BY <1>3, Zenon DEF LearnFits
<1>8. state \in {"DISCARDING", "LEARNING", "FORWARDING"}
  BY <1>3, <1>4, SMT DEF StateTransitionStates
<1>9. CASE state = "DISCARDING"
  <2>1. ~x.learn /\ ~x.forward
    BY <1>2, <1>7, <1>9, SMT DEF StateTransitionNext
  <2>2. ~x.learning /\ ~x.forwarding
    BY <1>3, <1>9, SMT DEF HardwareFits
  <2> QED BY <1>4, <1>6, <2>1, <2>2, Zenon
<1>10. CASE state = "LEARNING"
  <2>1. x.learn /\ ~x.forward
    BY <1>2, <1>10, SMT DEF StateTransitionNext
  <2>2. x.learning /\ ~x.forwarding
    BY <1>3, <1>10, SMT DEF HardwareFits
  <2> QED BY <1>4, <1>6, <2>1, <2>2, Zenon
<1>11. CASE state = "FORWARDING"
  <2>1. x.learn /\ x.forward
    BY <1>2, <1>7, <1>11, SMT DEF StateTransitionNext
  <2>2. x.learning /\ x.forwarding
    BY <1>3, <1>11, SMT DEF HardwareFits
  <2> QED BY <1>4, <1>6, <2>1, <2>2, Zenon
<1> QED BY <1>8, <1>9, <1>10, <1>11, Zenon

\* All of it together.
LEMMA RestIsEase ==
  ASSUME NEW b \in Bridge, InOrder(b), b.started, ~b.BEGIN, NoneReady(b),
         NEW p \in Ports, NEW t \in TreesOf(b)
  PROVE  AtEase(b, p, t)
<1> DEFINE x == b.pt[p][t]
<1>1. t \in Trees /\ CIST \in TreesOf(b)
  BY CistIsTree, Zenon DEF TreesOf
<1>2. /\ b.tree[t].portRoleSelectionState = "ROLE_SELECTION"
      /\ x.selected /\ ~x.reselect /\ ~x.updtInfo
      /\ x.infoIs = "DISABLED" <=> ~b.port[p].portEnabled
      /\ x.infoIs = "RECEIVED" => x.portInformationState = "CURRENT"
  BY InformationRests, Zenon
<1>3. ~b.pt[p][CIST].updtInfo
  BY <1>1, InformationRests, Zenon
<1>4. ~b.pt[p][CIST].rcvdMsg
  BY MessagesRead, Zenon
<1>5. cist(t) => ~x.rcvdMsg
  BY <1>4, Zenon DEF cist
<1>6. PortInformationNext(b, p, t) = "NONE" /\ PortTimersNext(b, p) = "NONE"
  BY NoneReadyMeans, Zenon
<1>7. x.infoIs = "RECEIVED" => x.rcvdInfoWhile # 0
  <2>1. SUFFICES ASSUME x.infoIs = "RECEIVED", x.rcvdInfoWhile = 0
                 PROVE  FALSE
    BY Zenon
  <2>2. x.portInformationState = "CURRENT" /\ b.port[p].portEnabled
    BY <1>2, <2>1, SMT
  <2>3. ~updtXstInfo(b, p, t)
    BY <1>2, <1>3, Zenon DEF updtXstInfo
  <2>4. PortInformationNext(b, p, t) \in {"UPDATE", "AGED", "RECEIVE"}
    BY <1>2, <2>1, <2>2, <2>3, SMT DEF PortInformationNext
  <2> QED BY <1>6, <2>4, SMT
<1>8. ~b.port[p].tick
  <2>1. b.port[p].portTimersState \in PortTimersStates /\ b.port[p].portTimersState # "NONE"
    BY <1>1, StatesOf, Zenon DEF InOrder, Begun
  <2> QED BY <1>6, <2>1, SMT DEF PortTimersNext, PortTimersStates
<1>9. /\ x.role = x.selectedRole \/ x.selectedRole = "UNDEFINED"
      /\ x.learn = x.learning /\ x.forward = x.forwarding
  BY RolesRest, Zenon
<1> QED BY <1>2, <1>5, <1>7, <1>8, <1>9, Zenon DEF AtEase

-----------------------------------------------------------------------------
(***************************************************************************)
(* The invariant along a run.                                              *)
(***************************************************************************)
Easy == AtRest => \A q \in Ports, s \in TreesOf(bridge) : AtEase(bridge, q, s)

\* between runs no port waits to update its information
NoneUpdates(b) == \A q \in Ports, s \in Trees : ~b.pt[q][s].updtInfo

Settled ==
  /\ InOrder(bridge) /\ Scheduled /\ Easy
  /\ run.phase # "idle" => bridge.started
  /\ run.phase = "idle" => NoneUpdates(bridge)

\* All but the frame received and the frames sent.
SameParts(b, c) ==
  /\ c.BEGIN = b.BEGIN /\ c.started = b.started
  /\ c.ForceProtocolVersion = b.ForceProtocolVersion
  /\ c.port = b.port /\ c.pt = b.pt /\ c.tree = b.tree

LEMMA PartsDecide ==
  ASSUME NEW b, NEW c, SameParts(b, c), InOrder(b)
  PROVE  /\ InOrder(c) /\ TreesOf(c) = TreesOf(b) /\ c.started = b.started
         /\ NoneUpdates(b) => NoneUpdates(c)
         /\ \A q \in Ports, s \in Trees : AtEase(b, q, s) => AtEase(c, q, s)
<1>1. /\ c.BEGIN = b.BEGIN /\ c.started = b.started /\ TreesOf(c) = TreesOf(b)
      /\ c.port = b.port /\ c.pt = b.pt /\ c.tree = b.tree
  BY Zenon DEF SameParts, TreesOf
<1>2. ASSUME NEW q \in Ports, NEW s \in Trees
      PROVE  PartFits(c, q, s)
  <2>1. InfoFits(b, q, s) /\ LearnFits(b.pt[q][s]) /\ SwitchFits(b, q, s)
    BY Zenon DEF InOrder, PartFits
  <2>2. InfoFits(c, q, s)
    BY <1>1, <2>1, Zenon DEF InfoFits, SelectionFits, NoUpdate
  <2>3. SwitchFits(c, q, s)
    BY <1>1, <2>1, Zenon DEF SwitchFits
  <2>4. LearnFits(c.pt[q][s])
    BY <1>1, <2>1, Zenon
  <2> QED BY <2>2, <2>3, <2>4, Zenon DEF PartFits
<1>3. Begun(c)
  BY <1>1, Zenon DEF InOrder, Begun
<1>4. NoneUpdates(b) => NoneUpdates(c)
  BY <1>1, Zenon DEF NoneUpdates
<1>5. ASSUME NEW q \in Ports, NEW s \in Trees, AtEase(b, q, s)
      PROVE  AtEase(c, q, s)
  <2>1. c.pt[q][s] = b.pt[q][s] /\ c.tree[s] = b.tree[s] /\ c.port[q] = b.port[q]
    BY <1>1, Zenon
  <2> QED BY <1>5, <2>1, SMT DEF AtEase
<1> QED BY <1>1, <1>2, <1>3, <1>4, <1>5, Zenon DEF InOrder

\* The first place of the loops is before all others.
LEMMA PassScheduled == run'.at = 0 => Scheduled'
<1>1. ASSUME NEW q \in Ports, NEW s \in TreesOf(bridge')
      PROVE  0 <= Position[Instance("PortInformation", q, s)]
  <2> DEFINE i == Instance("PortInformation", q, s)
  <2>1. i \in Instances
    BY CistIsTree, InstancesNamed, Zenon DEF TreesOf
  <2>2. Position[i] \in Nat
    BY <2>1, PositionTyped, Zenon
  <2> HIDE DEF i
  <2>3. 0 <= Position[i]
    BY <2>2, SMT
  <2> QED BY <2>3, Zenon DEF i
<1>2. ASSUME run'.at = 0
      PROVE  Scheduled'
  BY <1>1, <1>2, Zenon DEF Scheduled
<1> QED BY <1>2, Zenon

\* BEGIN has brought every machine to its first state.
LEMMA BegunAfter ==
  ASSUME NEW b \in Bridge, NEW c, InOrder(b), b.started, b.BEGIN, NoneReady(b),
         c = [b EXCEPT !.BEGIN = FALSE]
  PROVE  InOrder(c) /\ c.started
<1>1. /\ ~c.BEGIN /\ c.started = b.started
      /\ c.ForceProtocolVersion = b.ForceProtocolVersion
      /\ c.port = b.port /\ c.pt = b.pt /\ c.tree = b.tree
  <2>1. /\ c.BEGIN = FALSE /\ c.started = b.started
        /\ c.ForceProtocolVersion = b.ForceProtocolVersion
        /\ c.port = b.port /\ c.pt = b.pt /\ c.tree = b.tree
    BY ZenonT(60) DEF Bridge
  <2> QED BY <2>1
<1>2. TreesOf(c) = TreesOf(b) /\ TreesOf(b) \subseteq Trees /\ CIST \in TreesOf(b)
  BY <1>1, CistIsTree, Zenon DEF TreesOf
<1>3. ASSUME NEW q \in Ports, NEW s \in TreesOf(b)
      PROVE  /\ b.port[q].portTimersState # "NONE" /\ b.tree[s].portRoleSelectionState # "NONE"
             /\ b.pt[q][s].portInformationState # "NONE"
             /\ b.pt[q][s].portStateTransitionState # "NONE"
  <2>1. /\ PortTimersNext(b, q) = "NONE" /\ PortInformationNext(b, q, s) = "NONE"
        /\ StateTransitionNext(b, q, s) = "NONE" /\ RoleSelectionNext(b, s) = "NONE"
    BY NoneReadyMeans, Zenon
  <2>2. b.port[q].portTimersState = "ONE_SECOND"
    BY <2>1, SMT DEF PortTimersNext
  <2>3. b.tree[s].portRoleSelectionState = "INIT_TREE"
    BY <2>1, SMT DEF RoleSelectionNext
  <2>4. b.pt[q][s].portInformationState = "DISABLED"
    BY <2>1, SMT DEF PortInformationNext
  <2>5. b.pt[q][s].portStateTransitionState = "DISCARDING"
    BY <2>1, SMT DEF StateTransitionNext
  <2> QED BY <2>2, <2>3, <2>4, <2>5, SMT
<1>4. ASSUME NEW q \in Ports, NEW s \in Trees
      PROVE  PartFits(c, q, s)
  <2>1. InfoFits(b, q, s) /\ LearnFits(b.pt[q][s]) /\ SwitchFits(b, q, s)
    BY Zenon DEF InOrder, PartFits
  <2>2. s \in TreesOf(b) => /\ b.pt[q][s].portInformationState # "NONE"
                            /\ b.pt[q][s].portStateTransitionState # "NONE"
    BY <1>3, Zenon
  <2>3. SelectionFits(c, q, s) /\ NoUpdate(c, q, s)
    BY <1>1, <2>1, Zenon DEF InfoFits, SelectionFits, NoUpdate
  <2>4. InfoFits(c, q, s)
    BY <1>1, <1>2, <2>1, <2>2, <2>3, Zenon DEF InfoFits
  <2>5. SwitchFits(c, q, s)
    BY <1>1, <1>2, <2>1, <2>2, Zenon DEF SwitchFits
  <2> QED BY <1>1, <2>1, <2>4, <2>5, Zenon DEF PartFits
<1>5. Begun(c)
  <2>1. 1 \in Ports
    BY SizesAssumption, SMT DEF Ports
  <2>2. \A q \in Ports : c.port[q].portTimersState # "NONE"
    BY <1>1, <1>2, <1>3, Zenon
  <2>3. \A s \in TreesOf(c) : c.tree[s].portRoleSelectionState # "NONE"
    BY <1>1, <1>2, <1>3, <2>1, Zenon
  <2> QED BY <2>2, <2>3, Zenon DEF Begun
<1> QED BY <1>1, <1>4, <1>5, Zenon DEF InOrder

\* Within a run, nothing is promised of ports at ease.
LEMMA RunningSettles ==
  ASSUME InOrder(bridge'), bridge'.started, Scheduled', run'.phase # "idle"
  PROVE  Settled'
<1>1. ~AtRest'
  BY SMT DEF AtRest, Idle
<1> QED BY <1>1, Zenon DEF Settled, Easy

LEMMA RunStepSettles ==
  ASSUME Inv, Settled, RunStep
  PROVE  Settled'
<1>1. /\ TypeOK /\ Quiet /\ InOrder(bridge) /\ Scheduled
      /\ run.phase # "idle" => bridge.started
      /\ run.phase = "transmit" => NoneReady(bridge)
  BY Zenon DEF Inv, Quiet, NoneReady, Settled
<1>2. bridge \in Bridge
  BY <1>1, Zenon DEF TypeOK
<1>3. /\ Idle.phase = "idle" /\ StartPass.phase = "machines" /\ StartPass.at = 0
      /\ StartTx.phase = "transmit"
  BY SMT DEF Idle, StartPass, StartTx
<1>4. run'.phase = "transmit" => Scheduled'
  BY SMT DEF Scheduled
<1>5. ASSUME run' = StartPass \/ run' = StartTx
      PROVE  Scheduled' /\ run'.phase # "idle"
  <2>1. CASE run' = StartPass
    <3>1. run'.at = 0 /\ run'.phase = "machines"
      BY <1>3, <2>1, Zenon
    <3>2. run'.phase # "idle"
      BY <3>1, SMT
    <3> QED BY <3>1, <3>2, PassScheduled, Zenon
  <2>2. CASE run' = StartTx
    <3>1. run'.phase = "transmit"
      BY <1>3, <2>2, Zenon
    <3>2. run'.phase # "idle"
      BY <3>1, SMT
    <3> QED BY <1>4, <3>1, <3>2, Zenon
  <2> QED BY <1>5, <2>1, <2>2, Zenon
<1>6. TransmitDone => run.phase = "transmit" /\ run.phase # "idle"
  BY SMT DEF TransmitDone
<1>7. CASE MachineStep
  <2>1. run.phase = "machines"
    BY <1>7, StepsAreTurns, Zenon DEF Turn
  <2>2. bridge.started
    BY <1>1, <2>1, SMT
  <2>3. Orderly(bridge, bridge') /\ Scheduled' /\ run'.phase = "machines"
    BY <1>1, <1>7, <2>2, MachineStepOrderly, Zenon
  <2>4. InOrder(bridge') /\ bridge'.started /\ run'.phase # "idle"
    BY <2>2, <2>3, SMT DEF Orderly, SameOutside
  <2> QED BY <2>3, <2>4, RunningSettles, Zenon
<1>8. CASE EndOfPass
  <2>1. run.phase = "machines" /\ bridge' = bridge /\ (run' = StartPass \/ run' = StartTx)
    BY <1>8, Zenon DEF EndOfPass
  <2>2. bridge.started
    BY <1>1, <2>1, SMT
  <2> QED BY <1>1, <1>5, <2>1, <2>2, RunningSettles, Zenon
<1>9. CASE \E p \in Ports : PortTransmitStep(p)
  <2>1. PICK p \in Ports : PortTransmitStep(p)
    BY <1>9
  <2>2. OnlyTransmits(bridge, bridge') /\ run.phase = "transmit" /\ run'.phase = "transmit"
    BY <1>1, <2>1, PortTransmitStepLeaves, Zenon
  <2>3. Orderly(bridge, bridge')
    BY <1>1, <2>2, TransmitUntouched, UntouchedOrderly, Zenon
  <2>4. bridge.started
    BY <1>1, <2>2, SMT
  <2>5. InOrder(bridge') /\ bridge'.started /\ run'.phase # "idle"
    BY <2>2, <2>3, <2>4, SMT DEF Orderly, SameOutside
  <2> QED BY <1>4, <2>2, <2>5, RunningSettles, Zenon
<1>10. CASE TransmitAgain
  <2>1. TransmitDone /\ bridge' = bridge /\ run' = StartPass
    BY <1>10, Zenon DEF TransmitAgain
  <2>2. bridge.started
    BY <1>1, <1>6, <2>1, Zenon
  <2> QED BY <1>1, <1>5, <2>1, <2>2, RunningSettles, Zenon
<1>11. CASE BeginEnds
  <2>1. /\ TransmitDone /\ bridge.BEGIN /\ run' = StartPass
        /\ bridge' = [bridge EXCEPT !.BEGIN = FALSE]
    BY <1>11, Zenon DEF BeginEnds
  <2>2. bridge.started /\ NoneReady(bridge)
    BY <1>1, <1>6, <2>1, Zenon
  <2>3. InOrder(bridge') /\ bridge'.started
    BY <1>1, <1>2, <2>1, <2>2, BegunAfter, Zenon
  <2> QED BY <1>5, <2>1, <2>3, RunningSettles, Zenon
<1>12. CASE CallReturns
  <2>1. /\ TransmitDone /\ ~bridge.BEGIN /\ run' = Idle
        /\ bridge' = [bridge EXCEPT !.receivedBpdu = NoBpdu, !.tx = << >>]
    BY <1>12, Zenon DEF CallReturns
  <2>2. bridge.started /\ NoneReady(bridge)
    BY <1>1, <1>6, <2>1, Zenon
  <2>3. SameParts(bridge, bridge')
    BY <1>2, <2>1, ZenonT(60) DEF Bridge, SameParts
  <2>4. /\ InOrder(bridge') /\ TreesOf(bridge') = TreesOf(bridge)
        /\ bridge'.started
        /\ NoneUpdates(bridge) => NoneUpdates(bridge')
        /\ \A q \in Ports, s \in Trees : AtEase(bridge, q, s) => AtEase(bridge', q, s)
    BY <1>1, <2>2, <2>3, PartsDecide, Zenon
  <2>5. \A q \in Ports, s \in TreesOf(bridge) : AtEase(bridge, q, s)
    BY <1>1, <1>2, <2>1, <2>2, RestIsEase, Zenon
  <2>6. NoneUpdates(bridge)
    <3>1. ASSUME NEW q \in Ports, NEW s \in Trees
          PROVE  ~bridge.pt[q][s].updtInfo
      <4>1. CASE s \in TreesOf(bridge)
        BY <2>5, <4>1, Zenon DEF AtEase
      <4>2. CASE s \notin TreesOf(bridge)
        BY <1>1, <4>2, Zenon DEF InOrder, PartFits, InfoFits
      <4> QED BY <4>1, <4>2, Zenon
    <3> QED BY <3>1, Zenon DEF NoneUpdates
  <2>7. TreesOf(bridge) \subseteq Trees
    BY CistIsTree, Zenon DEF TreesOf
  <2>8. Easy'
    BY <2>4, <2>5, <2>7, Zenon DEF Easy
  <2>9. run'.phase = "idle" /\ run'.at = 0
    BY <2>1, SMT DEF Idle
  <2>10. Scheduled'
    BY <2>9, PassScheduled, Zenon
  <2> QED BY <2>4, <2>6, <2>8, <2>9, <2>10, Zenon DEF Settled
<1> QED BY <1>7, <1>8, <1>9, <1>10, <1>11, <1>12, Zenon DEF RunStep

-----------------------------------------------------------------------------
(***************************************************************************)
(* What a call does before the machines run.  Most calls leave all that    *)
(* the machines have settled; some have the roles computed anew.           *)
(***************************************************************************)
TreeCarried(x, z) ==
  /\ z.infoIs = x.infoIs /\ z.updtInfo = x.updtInfo /\ z.rcvdInfo = x.rcvdInfo
  /\ z.portInformationState = x.portInformationState
  /\ SameRole(x, z) /\ SameHardware(x, z)
  /\ z.reselect \/ (/\ z.reselect = x.reselect /\ z.selected = x.selected
                    /\ z.selectedRole = x.selectedRole)
  /\ z.rcvdMsg => x.rcvdMsg

SameProtocol(b, c) ==
  /\ c.BEGIN = b.BEGIN /\ c.started = b.started
  /\ c.ForceProtocolVersion = b.ForceProtocolVersion
  /\ \A s \in Trees : c.tree[s].portRoleSelectionState = b.tree[s].portRoleSelectionState

Carries(b, c) ==
  /\ SameProtocol(b, c)
  /\ \A q \in Ports : c.port[q].portTimersState = b.port[q].portTimersState
  /\ \A q \in Ports, s \in Trees : TreeCarried(b.pt[q][s], c.pt[q][s])

NoReceipt(b, c) == \A q \in Ports : c.port[q].rcvdBpdu => b.port[q].rcvdBpdu

PortHeld(y, z) ==
  /\ z.portEnabled = y.portEnabled /\ z.tick = y.tick /\ z.rcvdBpdu = y.rcvdBpdu
  /\ z.portTimersState = y.portTimersState

TreeHeld(x, z) ==
  Alike(x, z) /\ z.rcvdMsg = x.rcvdMsg /\ z.rcvdInfoWhile = x.rcvdInfoWhile

Held(b, c) ==
  /\ SameProtocol(b, c)
  /\ \A q \in Ports : PortHeld(b.port[q], c.port[q])
  /\ \A q \in Ports, s \in Trees : TreeHeld(b.pt[q][s], c.pt[q][s])

LEMMA HeldCarries ==
  ASSUME NEW b, NEW c, Held(b, c)
  PROVE  Carries(b, c) /\ NoReceipt(b, c)
<1>1. ASSUME NEW x, NEW z, TreeHeld(x, z)
      PROVE  TreeCarried(x, z)
  BY <1>1, Zenon DEF TreeHeld, TreeCarried, Alike, SameRole, SameHardware
<1>2. \A q \in Ports, s \in Trees : TreeCarried(b.pt[q][s], c.pt[q][s])
  BY <1>1, Zenon DEF Held
<1> QED BY <1>2, Zenon DEF Held, Carries, NoReceipt, PortHeld

LEMMA CarriesOn ==
  ASSUME NEW b, NEW c, NEW d, Held(b, c), Carries(c, d), NoReceipt(c, d)
  PROVE  Carries(b, d) /\ NoReceipt(b, d)
<1>1. ASSUME NEW x, NEW y, NEW z, TreeHeld(x, y), TreeCarried(y, z)
      PROVE  TreeCarried(x, z)
  <2>1. SameRole(x, z) /\ SameHardware(x, z)
    BY <1>1, Zenon DEF TreeHeld, TreeCarried, Alike, SameRole, SameHardware
  <2> QED BY <1>1, <2>1, Zenon DEF TreeHeld, TreeCarried, Alike
<1>2. \A q \in Ports, s \in Trees : TreeCarried(b.pt[q][s], d.pt[q][s])
  BY <1>1, Zenon DEF Held, Carries
<1>3. SameProtocol(b, d)
  BY Zenon DEF Held, Carries, SameProtocol
<1>4. \A q \in Ports : d.port[q].portTimersState = b.port[q].portTimersState
  BY Zenon DEF Held, Carries, PortHeld
<1>5. NoReceipt(b, d)
  BY Zenon DEF Held, NoReceipt, PortHeld
<1> QED BY <1>2, <1>3, <1>4, <1>5, Zenon DEF Carries

\* What is carried stays in order, though the link may have come or gone.
LEMMA CarriedInOrder ==
  ASSUME NEW b, NEW c, Carries(b, c), InOrder(b), NoneUpdates(b)
  PROVE  /\ InOrder(c) /\ NoneUpdates(c)
         /\ TreesOf(c) = TreesOf(b) /\ c.started = b.started
<1>1. /\ c.BEGIN = b.BEGIN /\ c.started = b.started /\ TreesOf(c) = TreesOf(b)
      /\ \A s \in Trees : c.tree[s].portRoleSelectionState = b.tree[s].portRoleSelectionState
  BY Zenon DEF Carries, SameProtocol, TreesOf
<1>2. NoneUpdates(c)
  BY Zenon DEF Carries, TreeCarried, NoneUpdates
<1>3. Begun(c)
  <2>1. TreesOf(b) \subseteq Trees
    BY CistIsTree, Zenon DEF TreesOf
  <2> QED BY <1>1, <2>1, Zenon DEF Carries, InOrder, Begun
<1>4. ASSUME NEW q \in Ports, NEW s \in Trees
      PROVE  PartFits(c, q, s)
  <2> DEFINE x == b.pt[q][s]
             z == c.pt[q][s]
  <2>1. InfoFits(b, q, s) /\ LearnFits(x) /\ SwitchFits(b, q, s)
    BY Zenon DEF InOrder, PartFits
  <2>2. TreeCarried(x, z)
    BY Zenon DEF Carries
  <2>3. ~z.updtInfo
    BY <1>2, Zenon DEF NoneUpdates
  <2>4. StateFits(z)
    BY <2>1, <2>2, Zenon DEF InfoFits, StateFits, TreeCarried
  <2>5. SelectionFits(c, q, s)
    <3>1. CASE z.reselect
      BY <3>1, Zenon DEF SelectionFits
    <3>2. CASE ~z.reselect
      <4>1. /\ z.reselect = x.reselect /\ z.selected = x.selected
            /\ z.selectedRole = x.selectedRole
            /\ z.infoIs = x.infoIs /\ z.updtInfo = x.updtInfo
        BY <2>2, <3>2, Zenon DEF TreeCarried
      <4>2. RoleFits(x) => RoleFits(z)
        BY <4>1, SMT DEF RoleFits
      <4>3. SelectionFits(b, q, s)
        BY <2>1, Zenon DEF InfoFits
      <4> QED BY <1>1, <4>1, <4>2, <4>3, Zenon DEF SelectionFits
    <3> QED BY <3>1, <3>2, Zenon
  <2>6. NoUpdate(c, q, s)
    BY <2>3, Zenon DEF NoUpdate
  <2>7. z.portInformationState = x.portInformationState
    BY <2>2, Zenon DEF TreeCarried
  <2>8. InfoFits(c, q, s)
    BY <1>1, <2>1, <2>3, <2>4, <2>5, <2>6, <2>7, Zenon DEF InfoFits
  <2>9. LearnFits(z)
    BY <2>1, <2>2, Zenon DEF LearnFits, TreeCarried, SameRole
  <2>10. SwitchFits(c, q, s)
    <3>1. HardwareFits(x) => HardwareFits(z)
      BY <2>2, SMT DEF HardwareFits, TreeCarried, SameHardware
    <3>2. z.portStateTransitionState = x.portStateTransitionState
      BY <2>2, Zenon DEF TreeCarried, SameHardware
    <3> QED BY <1>1, <2>1, <3>1, <3>2, Zenon DEF SwitchFits
  <2> QED BY <2>8, <2>9, <2>10, Zenon DEF PartFits
<1> QED BY <1>1, <1>2, <1>3, <1>4, Zenon DEF InOrder

\* And a port that is held stays at ease.
LEMMA HeldAtEase ==
  ASSUME NEW b, NEW c, Held(b, c), NEW q \in Ports, NEW s \in Trees, AtEase(b, q, s)
  PROVE  AtEase(c, q, s)
<1> DEFINE x == b.pt[q][s]
           z == c.pt[q][s]
<1>1. TreeHeld(x, z) /\ PortHeld(b.port[q], c.port[q])
  BY Zenon DEF Held
<1>2. c.tree[s].portRoleSelectionState = b.tree[s].portRoleSelectionState
  BY Zenon DEF Held, SameProtocol
<1>3. /\ z.selected = x.selected /\ z.reselect = x.reselect /\ z.updtInfo = x.updtInfo
      /\ z.rcvdMsg = x.rcvdMsg /\ z.role = x.role /\ z.selectedRole = x.selectedRole
      /\ z.learn = x.learn /\ z.learning = x.learning
      /\ z.forward = x.forward /\ z.forwarding = x.forwarding
      /\ z.infoIs = x.infoIs /\ z.rcvdInfoWhile = x.rcvdInfoWhile
  BY <1>1, Zenon DEF TreeHeld, Alike
<1>4. /\ c.port[q].portEnabled = b.port[q].portEnabled /\ c.port[q].tick = b.port[q].tick
  BY <1>1, Zenon DEF PortHeld
<1> QED BY <1>2, <1>3, <1>4, SMT DEF AtEase

\* A call that has the roles computed anew, or not.
LEMMA RecomputedCarries ==
  ASSUME NEW b, NEW c \in Bridge, Held(b, c), NEW t, NEW condition \in BOOLEAN
  PROVE  /\ Carries(b, RecomputeIf(condition, c, t)) /\ NoReceipt(b, RecomputeIf(condition, c, t))
         /\ ~condition => Held(b, RecomputeIf(condition, c, t))
<1> DEFINE d == Recomputed(c, t)
<1>1. /\ d.BEGIN = c.BEGIN /\ d.started = c.started
      /\ d.ForceProtocolVersion = c.ForceProtocolVersion
      /\ d.port = c.port /\ d.tree = c.tree
  BY ZenonT(60) DEF Recomputed, Bridge
<1>2. d.pt = [q \in Ports |-> [s \in Trees |->
                IF s = t \/ (cist(t) /\ s \in TreesOf(c))
                THEN [c.pt[q][s] EXCEPT !.selected = FALSE, !.reselect = TRUE]
                ELSE c.pt[q][s]]]
  BY ZenonT(60) DEF Recomputed, Bridge
<1>3. ASSUME NEW q \in Ports, NEW s \in Trees
      PROVE  \/ d.pt[q][s] = [c.pt[q][s] EXCEPT !.selected = FALSE, !.reselect = TRUE]
             \/ d.pt[q][s] = c.pt[q][s]
  BY <1>2, Zenon
<1> HIDE DEF d
<1>4. ASSUME NEW x \in PortTree, NEW z,
             z = [x EXCEPT !.selected = FALSE, !.reselect = TRUE]
      PROVE  TreeCarried(x, z)
  <2>1. /\ z.infoIs = x.infoIs /\ z.updtInfo = x.updtInfo /\ z.rcvdInfo = x.rcvdInfo
        /\ z.portInformationState = x.portInformationState
        /\ SameRole(x, z) /\ SameHardware(x, z)
        /\ z.reselect = TRUE /\ z.rcvdMsg = x.rcvdMsg
    BY <1>4, ZenonT(60) DEF PortTree, SameRole, SameHardware
  <2> QED BY <2>1, Zenon DEF TreeCarried
<1>5. ASSUME NEW x
      PROVE  TreeCarried(x, x)
  BY Zenon DEF TreeCarried, SameRole, SameHardware
<1>6. \A q \in Ports, s \in Trees : TreeCarried(c.pt[q][s], d.pt[q][s])
  <2>1. ASSUME NEW q \in Ports, NEW s \in Trees
        PROVE  TreeCarried(c.pt[q][s], d.pt[q][s])
    <3>1. c.pt[q][s] \in PortTree
      BY BridgeParts, Zenon
    <3>2. CASE d.pt[q][s] = c.pt[q][s]
      BY <1>5, <3>2, Zenon
    <3>3. CASE d.pt[q][s] = [c.pt[q][s] EXCEPT !.selected = FALSE, !.reselect = TRUE]
      BY <1>4, <3>1, <3>3
    <3> QED BY <1>3, <3>2, <3>3
  <2> QED BY <2>1, Zenon
<1>7. Carries(c, d) /\ NoReceipt(c, d)
  BY <1>1, <1>6, Zenon DEF Carries, SameProtocol, NoReceipt
<1>8. Carries(b, d) /\ NoReceipt(b, d)
  BY <1>7, CarriesOn, Zenon
<1>9. Carries(b, c) /\ NoReceipt(b, c)
  BY HeldCarries, Zenon
<1>10. CASE condition
  <2>1. RecomputeIf(condition, c, t) = d
    BY <1>10, SMT DEF RecomputeIf, d
  <2> QED BY <1>8, <1>10, <2>1, Zenon
<1>11. CASE ~condition
  <2>1. RecomputeIf(condition, c, t) = c
    BY <1>11, SMT DEF RecomputeIf
  <2> QED BY <1>9, <2>1, Zenon
<1> QED BY <1>10, <1>11, Zenon

\* no frame waits to be read, and no message of the CIST
NoFrame(b) == \A q \in Ports : ~b.port[q].rcvdBpdu /\ ~b.pt[q][CIST].rcvdMsg

\* the protocol version of c is the bridge's, or one that a caller chose
VersionKept(c) == c.ForceProtocolVersion \in {bridge.ForceProtocolVersion} \cup StpVersions

CallSettled == Settled' /\ (NoFrame(bridge) => NoFrame(bridge')) /\ VersionKept(bridge')

\* the call runs the machines, or changes nothing that they go by
RunsOrHolds(b) ==
  \/ b.started /\ Runs(b)
  \/ RunsIfStarted(b)
  \/ Returns(b) /\ Held(bridge, b)

\* The call ends with the machines about to run, on a bridge in order.
LEMMA StartedSettles ==
  ASSUME NEW b, InOrder(b), b.started, Runs(b)
  PROVE  Settled'
<1>1. bridge' = b /\ run'.phase = "machines" /\ run'.at = 0
  BY SMT DEF Runs, StartPass
<1>2. run'.phase # "idle"
  BY <1>1, SMT
<1>3. Scheduled'
  BY <1>1, PassScheduled, Zenon
<1> QED BY <1>1, <1>2, <1>3, RunningSettles, Zenon

\* It ends on a stopped bridge, of which nothing more is promised.
LEMMA StoppedSettles ==
  ASSUME NEW b, InOrder(b), NoneUpdates(b), ~b.started, Returns(b)
  PROVE  Settled'
<1>1. bridge' = b /\ run'.phase = "idle" /\ run'.at = 0
  BY SMT DEF Returns, Idle
<1>2. Scheduled'
  BY <1>1, PassScheduled, Zenon
<1>3. ~AtRest'
  BY <1>1, Zenon DEF AtRest
<1> QED BY <1>1, <1>2, <1>3, Zenon DEF Settled, Easy

LEMMA CallSettles ==
  ASSUME Settled, run = Idle, NEW b, Carries(bridge, b), RunsOrHolds(b)
  PROVE  Settled'
<1>1. InOrder(bridge) /\ NoneUpdates(bridge) /\ Easy
  <2>1. run.phase = "idle"
    BY SMT DEF Idle
  <2> QED BY <2>1, Zenon DEF Settled
<1>2. /\ InOrder(b) /\ NoneUpdates(b)
      /\ TreesOf(b) = TreesOf(bridge) /\ b.started = bridge.started
  BY <1>1, CarriedInOrder, Zenon
<1>3. CASE b.started /\ Runs(b)
  BY <1>2, <1>3, StartedSettles, Zenon
<1>4. CASE ~b.started /\ Returns(b)
  BY <1>2, <1>4, StoppedSettles, Zenon
<1>5. CASE b.started /\ Returns(b) /\ Held(bridge, b)
  <2>1. bridge' = b /\ run' = Idle /\ run'.phase = "idle" /\ run'.at = 0
    BY <1>5, SMT DEF Returns, Idle
  <2>2. AtRest
    BY <1>2, <1>5, Zenon DEF AtRest
  <2>3. \A q \in Ports, s \in TreesOf(bridge) : AtEase(bridge, q, s)
    BY <1>1, <2>2, Zenon DEF Easy
  <2>4. TreesOf(bridge) \subseteq Trees
    BY CistIsTree, Zenon DEF TreesOf
  <2>5. \A q \in Ports, s \in TreesOf(b) : AtEase(b, q, s)
    BY <1>2, <1>5, <2>3, <2>4, HeldAtEase, Zenon
  <2>6. Easy'
    BY <2>1, <2>5, Zenon DEF Easy
  <2>7. Scheduled'
    BY <2>1, PassScheduled, Zenon
  <2> QED BY <1>2, <2>1, <2>6, <2>7, Zenon DEF Settled
<1>6. \/ b.started /\ Runs(b)
      \/ ~b.started /\ Returns(b)
      \/ b.started /\ Returns(b) /\ Held(bridge, b)
  BY SMT DEF RunsOrHolds, RunsIfStarted
<1> QED BY <1>3, <1>4, <1>5, <1>6, Zenon

\* No call but the one that brings a frame leaves one to be read.
LEMMA CallBringsNone ==
  ASSUME NEW b, Carries(bridge, b), NoReceipt(bridge, b), RunsOrHolds(b)
  PROVE  (NoFrame(bridge) => NoFrame(bridge')) /\ VersionKept(bridge')
<1>1. bridge' = b
  BY SMT DEF RunsOrHolds, RunsIfStarted, Runs, Returns
<1>2. NoFrame(bridge) => NoFrame(b)
  BY CistIsTree, Zenon DEF Carries, TreeCarried, NoReceipt, NoFrame
<1>3. VersionKept(b)
  BY Zenon DEF Carries, SameProtocol, VersionKept
<1> QED BY <1>1, <1>2, <1>3, Zenon

LEMMA CarryingCall ==
  ASSUME Settled, run = Idle, NEW b, Carries(bridge, b), NoReceipt(bridge, b), RunsOrHolds(b)
  PROVE  CallSettled
  BY CallSettles, CallBringsNone, Zenon DEF CallSettled

\* A call that has the roles computed anew only if the machines run, too.
LEMMA RecomputingCall ==
  ASSUME Settled, run = Idle, NEW c \in Bridge, Held(bridge, c),
         NEW t, NEW condition \in BOOLEAN, NEW b, b = RecomputeIf(condition, c, t),
         \/ condition /\ RunsIfStarted(b)
         \/ RunsIfStarted(b)
         \/ ~condition /\ Returns(b)
  PROVE  CallSettled
<1>1. Carries(bridge, b) /\ NoReceipt(bridge, b) /\ (~condition => Held(bridge, b))
  BY RecomputedCarries, Zenon
<1>2. RunsOrHolds(b)
  BY <1>1, Zenon DEF RunsOrHolds
<1> QED BY <1>1, <1>2, CarryingCall, Zenon

-----------------------------------------------------------------------------
(***************************************************************************)
(* The calls, one by one.                                                  *)
(***************************************************************************)
LEMMA HeldItself ==
  /\ \A y : PortHeld(y, y)
  /\ \A x : TreeHeld(x, x)
  BY Zenon DEF PortHeld, TreeHeld, Alike

\* One PORT changes, one PORT_TREE, the BRIDGE_TREEs.
LEMMA SetPortHeld ==
  ASSUME NEW b \in Bridge, NEW p \in Ports, NEW z, PortHeld(b.port[p], z)
  PROVE  Held(b, SetPort(b, p, z))
<1> DEFINE c == SetPort(b, p, z)
<1>1. /\ c.BEGIN = b.BEGIN /\ c.started = b.started
      /\ c.ForceProtocolVersion = b.ForceProtocolVersion
      /\ c.pt = b.pt /\ c.tree = b.tree /\ c.port = [b.port EXCEPT ![p] = z]
  BY ZenonT(60) DEF Bridge, SetPort
<1> HIDE DEF c
<1>2. \A q \in Ports : c.port[q] = IF q = p THEN z ELSE b.port[q]
  <2>1. b.port \in [Ports -> Port]
    BY Zenon DEF Bridge
  <2> QED BY <1>1, <2>1, Zenon
<1>3. \A q \in Ports : PortHeld(b.port[q], c.port[q])
  BY <1>2, HeldItself, Zenon
<1>4. Held(b, c)
  BY <1>1, <1>3, HeldItself, Zenon DEF Held, SameProtocol
<1> QED BY <1>4, Zenon DEF c

LEMMA SetPortTreeHeld ==
  ASSUME NEW b \in Bridge, NEW p \in Ports, NEW t \in Trees, NEW z, TreeHeld(b.pt[p][t], z)
  PROVE  Held(b, SetPortTree(b, p, t, z))
<1> DEFINE c == SetPortTree(b, p, t, z)
<1>1. /\ SameFrame(b, c) /\ c.pt[p][t] = z
      /\ \A q \in Ports, s \in Trees : q # p \/ s # t => c.pt[q][s] = b.pt[q][s]
  BY PortTreeUpdated
<1>2. c.port = b.port
  BY ZenonT(60) DEF Bridge, SetPortTree
<1> HIDE DEF c
<1>3. ASSUME NEW q \in Ports, NEW s \in Trees
      PROVE  TreeHeld(b.pt[q][s], c.pt[q][s])
  <2>1. CASE q = p /\ s = t
    BY <1>1, <2>1, Zenon
  <2>2. CASE q # p \/ s # t
    BY <1>1, <2>2, HeldItself, Zenon
  <2> QED BY <2>1, <2>2, Zenon
<1>4. Held(b, c)
  BY <1>1, <1>2, <1>3, HeldItself, Zenon DEF Held, SameProtocol, SameFrame
<1> QED BY <1>4, Zenon DEF c

LEMMA SetTreesHeld ==
  ASSUME NEW b \in Bridge, NEW tree,
         \A s \in Trees : tree[s].portRoleSelectionState = b.tree[s].portRoleSelectionState
  PROVE  Held(b, [b EXCEPT !.tree = tree])
<1> DEFINE c == [b EXCEPT !.tree = tree]
<1>1. /\ c.BEGIN = b.BEGIN /\ c.started = b.started
      /\ c.ForceProtocolVersion = b.ForceProtocolVersion
      /\ c.pt = b.pt /\ c.port = b.port /\ c.tree = tree
  BY ZenonT(60) DEF Bridge
<1> HIDE DEF c
<1>2. Held(b, c)
  BY <1>1, HeldItself, Zenon DEF Held, SameProtocol
<1> QED BY <1>2, Zenon DEF c

LEMMA SetTreeHeld ==
  ASSUME NEW b \in Bridge, NEW t \in Trees, NEW z,
         z.portRoleSelectionState = b.tree[t].portRoleSelectionState
  PROVE  Held(b, [b EXCEPT !.tree[t] = z])
<1> DEFINE tree == [b.tree EXCEPT ![t] = z]
<1>1. b.tree \in [Trees -> BridgeTree]
  BY ZenonT(60) DEF Bridge
<1>2. \A s \in Trees : tree[s] = IF s = t THEN z ELSE b.tree[s]
  BY <1>1, Zenon
<1>3. [b EXCEPT !.tree[t] = z] = [b EXCEPT !.tree = tree]
  OBVIOUS
<1> HIDE DEF tree
<1>4. \A s \in Trees : tree[s].portRoleSelectionState = b.tree[s].portRoleSelectionState
  BY <1>2, Zenon
<1>5. Held(b, [b EXCEPT !.tree = tree])
  BY <1>4, SetTreesHeld, Zenon
<1> QED BY <1>3, <1>5

\* STP_SetPortAdminEdge and STP_SetPortAutoEdge.
LEMMA EdgeSettingsSettle ==
  ASSUME TypeOK, Settled, NEW p \in Ports, SetPortAdminEdge(p) \/ SetPortAutoEdge(p)
  PROVE  CallSettled
<1> DEFINE y == bridge.port[p]
<1>1. bridge \in Bridge /\ y \in Port /\ run = Idle
  BY BridgeParts, CistIsTree, Zenon DEF TypeOK, SetPortAdminEdge, SetPortAutoEdge
<1>2. ASSUME NEW z, PortHeld(y, z), Returns(SetPort(bridge, p, z))
      PROVE  CallSettled
  <2>1. Held(bridge, SetPort(bridge, p, z))
    BY <1>1, <1>2, SetPortHeld, Zenon
  <2> HIDE DEF y
  <2> DEFINE c == SetPort(bridge, p, z)
  <2>2. Carries(bridge, c) /\ NoReceipt(bridge, c) /\ RunsOrHolds(c)
    BY <1>2, <2>1, HeldCarries, Zenon DEF RunsOrHolds
  <2> HIDE DEF c
  <2> QED BY <1>1, <2>2, CarryingCall, Zenon
<1>3. ASSUME NEW edge \in BOOLEAN
      PROVE  /\ PortHeld(y, [y EXCEPT !.AdminEdge = edge])
             /\ PortHeld(y, [y EXCEPT !.AutoEdge = edge])
             /\ [bridge EXCEPT !.port[p].AdminEdge = edge]
                  = SetPort(bridge, p, [y EXCEPT !.AdminEdge = edge])
             /\ [bridge EXCEPT !.port[p].AutoEdge = edge]
                  = SetPort(bridge, p, [y EXCEPT !.AutoEdge = edge])
  <2>1. /\ PortHeld(y, [y EXCEPT !.AdminEdge = edge])
        /\ PortHeld(y, [y EXCEPT !.AutoEdge = edge])
    BY <1>1, ZenonT(60) DEF Port, PortHeld
  <2>2. /\ [bridge EXCEPT !.port[p].AdminEdge = edge]
             = SetPort(bridge, p, [y EXCEPT !.AdminEdge = edge])
        /\ [bridge EXCEPT !.port[p].AutoEdge = edge]
             = SetPort(bridge, p, [y EXCEPT !.AutoEdge = edge])
    BY DEF SetPort
  <2> QED BY <2>1, <2>2
<1>4. CASE SetPortAdminEdge(p)
  <2>1. PICK edge \in BOOLEAN : Returns([bridge EXCEPT !.port[p].AdminEdge = edge])
    BY <1>4 DEF SetPortAdminEdge
  <2> DEFINE z == [y EXCEPT !.AdminEdge = edge]
  <2>2. PortHeld(y, z)
    BY <1>3
  <2>3. Returns(SetPort(bridge, p, z))
    BY <1>3, <2>1
  <2> HIDE DEF z
  <2> QED BY <1>2, <2>2, <2>3, Zenon
<1>5. CASE SetPortAutoEdge(p)
  <2>1. PICK edge \in BOOLEAN : Returns([bridge EXCEPT !.port[p].AutoEdge = edge])
    BY <1>5 DEF SetPortAutoEdge
  <2> DEFINE z == [y EXCEPT !.AutoEdge = edge]
  <2>2. PortHeld(y, z)
    BY <1>3
  <2>3. Returns(SetPort(bridge, p, z))
    BY <1>3, <2>1
  <2> HIDE DEF z
  <2> QED BY <1>2, <2>2, <2>3, Zenon
<1> QED BY <1>4, <1>5

\* STP_SetAdminPointToPointMAC.
LEMMA PointToPointSettles ==
  ASSUME TypeOK, Settled, NEW p \in Ports, SetAdminPointToPointMAC(p)
  PROVE  CallSettled
<1>1. bridge \in Bridge /\ bridge.port[p] \in Port /\ run = Idle
  BY BridgeParts, CistIsTree, Zenon DEF TypeOK, SetAdminPointToPointMAC
<1>2. PICK admin \in AdminP2P :
        \/ RunsIfStarted(WithAdminPointToPointMAC(bridge, p, admin))
        \/ Returns(WithAdminPointToPointMAC(bridge, p, admin))
  BY Zenon DEF SetAdminPointToPointMAC
<1> DEFINE y    == bridge.port[p]
           oper == IF y.portEnabled THEN OperPointToPoint(admin, y.detectedPointToPointMAC)
                   ELSE y.operPointToPointMAC
           z    == [y EXCEPT !.adminPointToPointMAC = admin, !.operPointToPointMAC = oper]
           c    == SetPort(bridge, p, z)
<1>3. WithAdminPointToPointMAC(bridge, p, admin) = c
  BY DEF WithAdminPointToPointMAC
<1> HIDE DEF oper
<1>4. PortHeld(y, z)
  BY <1>1, ZenonT(60) DEF Port, PortHeld
<1> HIDE DEF z
<1>5. Held(bridge, c)
  BY <1>1, <1>4, SetPortHeld, Zenon
<1> HIDE DEF c
<1>6. RunsIfStarted(c) \/ Returns(c)
  BY <1>2, <1>3
<1>7. Carries(bridge, c) /\ NoReceipt(bridge, c) /\ RunsOrHolds(c)
  BY <1>5, <1>6, HeldCarries, Zenon DEF RunsOrHolds
<1> QED BY <1>1, <1>7, CarryingCall, Zenon

LEMMA EdgeCallSettles ==
  ASSUME TypeOK, Settled, EdgeCall
  PROVE  CallSettled
  BY EdgeSettingsSettle, PointToPointSettles, Zenon DEF EdgeCall

\* STP_SetTxHoldCount.
LEMMA TxHoldCountSettles ==
  ASSUME TypeOK, Settled, SetTxHoldCount
  PROVE  CallSettled
<1>1. bridge \in Bridge /\ run = Idle
  BY Zenon DEF TypeOK, SetTxHoldCount
<1>2. PICK count \in TxHoldCounts : Returns(WithTxHoldCount(bridge, count))
  BY Zenon DEF SetTxHoldCount
<1> DEFINE port == [q \in Ports |-> [bridge.port[q] EXCEPT !.txCount = 0]]
           c    == [bridge EXCEPT !.TxHoldCount = count, !.port = port]
<1>3. WithTxHoldCount(bridge, count) = c
  BY DEF WithTxHoldCount
<1>4. ASSUME NEW q \in Ports
      PROVE  PortHeld(bridge.port[q], port[q])
  <2>1. bridge.port[q] \in Port
    BY <1>1, BridgeParts, CistIsTree, Zenon
  <2>2. PortHeld(bridge.port[q], [bridge.port[q] EXCEPT !.txCount = 0])
    BY <2>1, ZenonT(60) DEF Port, PortHeld
  <2> QED BY <2>2, Zenon
<1> HIDE DEF port
<1>5. /\ c.BEGIN = bridge.BEGIN /\ c.started = bridge.started
      /\ c.ForceProtocolVersion = bridge.ForceProtocolVersion
      /\ c.pt = bridge.pt /\ c.tree = bridge.tree /\ c.port = port
  BY <1>1, ZenonT(60) DEF Bridge
<1> HIDE DEF c
<1>6. Held(bridge, c)
  BY <1>4, <1>5, HeldItself, Zenon DEF Held, SameProtocol
<1>7. Returns(c)
  BY <1>2, <1>3
<1>8. Carries(bridge, c) /\ NoReceipt(bridge, c) /\ RunsOrHolds(c)
  BY <1>6, <1>7, HeldCarries, Zenon DEF RunsOrHolds
<1> QED BY <1>1, <1>8, CarryingCall, Zenon

\* The machines run if the tree is one that the bridge uses.
LEMMA UsedTreeCall ==
  ASSUME Settled, run = Idle, NEW c \in Bridge, Held(bridge, c), NEW t,
         (bridge.started /\ t \in TreesOf(bridge)) \in BOOLEAN,
         RunsIfUsed(RecomputeIf(bridge.started /\ t \in TreesOf(bridge), c, t), t)
  PROVE  CallSettled
<1> DEFINE condition == bridge.started /\ t \in TreesOf(bridge)
           b         == RecomputeIf(condition, c, t)
<1>1. b = RecomputeIf(condition, c, t) /\ condition \in BOOLEAN /\ RunsIfUsed(b, t)
  BY Zenon
<1> HIDE DEF b
<1>2. TreesOf(b) = TreesOf(bridge)
  <2>1. Carries(bridge, b)
    BY <1>1, RecomputedCarries, Zenon
  <2> QED BY <2>1, Zenon DEF Carries, SameProtocol, TreesOf
<1>3. RunsIfStarted(b) \/ (~condition /\ Returns(b))
  BY <1>1, <1>2, Zenon DEF RunsIfUsed
<1> HIDE DEF condition
<1> QED BY <1>1, <1>3, RecomputingCall, Zenon

\* Identifiers: STP_SetBridgeAddress, STP_SetBridgePriority.
LEMMA IdentifierHeld ==
  ASSUME NEW x \in BridgeTree, NEW t \in Trees, NEW id
  PROVE  WithIdentifier(x, t, id).portRoleSelectionState = x.portRoleSelectionState
  BY ZenonT(60) DEF BridgeTree, WithIdentifier

LEMMA AddressSettles ==
  ASSUME TypeOK, Settled, SetBridgeAddress
  PROVE  CallSettled
<1>1. bridge \in Bridge /\ run = Idle /\ bridge.started \in BOOLEAN
  BY BridgeFields, Zenon DEF TypeOK, SetBridgeAddress
<1>2. PICK address \in Addresses : RunsIfStarted(WithBridgeAddress(bridge, address))
  BY Zenon DEF SetBridgeAddress
<1>3. address \in Nat
  BY InputsAssumption, SizesAssumption, SMT
<1> DEFINE Id(s) == BridgeId(Priority(bridge.tree[s].BridgeIdentifier), address)
           tree  == [s \in Trees |-> WithIdentifier(bridge.tree[s], s, Id(s))]
           c     == [bridge EXCEPT !.tree = tree]
<1>4. WithBridgeAddress(bridge, address) = RecomputeIf(bridge.started, c, CIST)
  BY Zenon DEF WithBridgeAddress
<1>5. ASSUME NEW s \in Trees
      PROVE  Id(s) \in Nat
  <2>1. bridge.tree[s].BridgeIdentifier \in Nat
    BY <1>1, BridgeTreePart, Zenon DEF BridgeTree
  <2>2. Priority(bridge.tree[s].BridgeIdentifier) \in Nat
    BY <2>1, IdentifiersTyped, Zenon
  <2> QED BY <1>3, <2>2, BridgeIdTyped, Zenon
<1> HIDE DEF Id
<1>6. tree \in [Trees -> BridgeTree]
  BY <1>1, <1>5, BridgeTreePart, WithIdentifierTyped, Zenon
<1>7. \A s \in Trees : tree[s].portRoleSelectionState = bridge.tree[s].portRoleSelectionState
  BY <1>1, BridgeTreePart, IdentifierHeld, Zenon
<1> HIDE DEF tree
<1>8. c \in Bridge
  BY <1>1, <1>6, ZenonT(60) DEF Bridge
<1>9. Held(bridge, c)
  BY <1>1, <1>7, SetTreesHeld, Zenon
<1> HIDE DEF c
<1> QED BY <1>1, <1>2, <1>4, <1>8, <1>9, RecomputingCall, Zenon

LEMMA BridgePrioritySettles ==
  ASSUME TypeOK, Settled, NEW t \in Trees, SetBridgePriority(t)
  PROVE  CallSettled
<1>1. bridge \in Bridge /\ run = Idle
  BY Zenon DEF TypeOK, SetBridgePriority
<1>2. PICK priority \in BridgePriorities :
        RunsIfUsed(WithBridgePriority(bridge, t, priority), t)
  BY Zenon DEF SetBridgePriority
<1>3. priority \in Nat
  BY InputsAssumption, Zenon
<1> DEFINE id        == BridgeId(priority, Address(bridge.tree[t].BridgeIdentifier))
           z         == WithIdentifier(bridge.tree[t], t, id)
           c         == [bridge EXCEPT !.tree[t] = z]
           condition == bridge.started /\ t \in TreesOf(bridge)
           b         == RecomputeIf(condition, c, t)
<1>4. WithBridgePriority(bridge, t, priority) = b
  BY Zenon DEF WithBridgePriority
<1>5. id \in Nat
  <2>1. bridge.tree[t].BridgeIdentifier \in Nat
    BY <1>1, BridgeTreePart, Zenon DEF BridgeTree
  <2> QED BY <1>3, <2>1, IdentifiersTyped, BridgeIdTyped, Zenon
<1> HIDE DEF id
<1>6. /\ z \in BridgeTree
      /\ z.portRoleSelectionState = bridge.tree[t].portRoleSelectionState
  BY <1>1, <1>5, BridgeTreePart, WithIdentifierTyped, IdentifierHeld, Zenon
<1> HIDE DEF z
<1>7. c \in Bridge
  BY <1>1, <1>6, SetTreeTyped, Zenon
<1>8. Held(bridge, c)
  BY <1>1, <1>6, SetTreeHeld, Zenon
<1> HIDE DEF c
<1>9. RunsIfUsed(b, t)
  BY <1>2, <1>4
<1>10. condition \in BOOLEAN
  BY <1>1, BridgeFields, Zenon
<1> QED BY <1>1, <1>7, <1>8, <1>9, <1>10, UsedTreeCall

\* STP_SetPortPriority.
LEMMA PortPrioritySettles ==
  ASSUME TypeOK, Settled, NEW p \in Ports, NEW t \in Trees, SetPortPriority(p, t)
  PROVE  CallSettled
<1>1. bridge \in Bridge /\ run = Idle
  BY Zenon DEF TypeOK, SetPortPriority
<1>2. PICK priority \in PortPriorities :
        RunsIfUsed(WithPortPriority(bridge, p, t, priority), t)
  BY Zenon DEF SetPortPriority
<1>3. priority \in Nat
  BY InputsAssumption, Zenon
<1> DEFINE x         == bridge.pt[p][t]
           id        == PortId(priority, PortNumber(x.portId))
           z         == [x EXCEPT !.portId = id]
           a         == [bridge EXCEPT !.pt[p][t].portId = id]
           c         == SetPortTree(bridge, p, t, z)
           condition == bridge.started /\ t \in TreesOf(bridge)
           b         == RecomputeIf(condition, c, t)
<1>4. WithPortPriority(bridge, p, t, priority) = RecomputeIf(condition, a, t)
  BY DEF WithPortPriority
<1>5. a = c
  BY DEF SetPortTree
<1>6. x \in PortTree
  BY <1>1, BridgeParts, Zenon
<1>7. id \in Nat
  <2>1. x.portId \in Nat
    BY <1>6, PortTreeFields, Zenon
  <2> QED BY <1>3, <2>1, IdentifiersTyped, BridgeIdTyped, Zenon
<1> HIDE DEF a, id
<1>8. z \in PortTree /\ TreeHeld(x, z)
  BY <1>6, <1>7, ZenonT(60) DEF PortTree, TreeHeld, Alike
<1> HIDE DEF z
<1>9. c \in Bridge
  BY <1>1, <1>8, SetPortTreeTyped, Zenon
<1>10. Held(bridge, c)
  BY <1>1, <1>8, SetPortTreeHeld, Zenon
<1> HIDE DEF c
<1>11. RunsIfUsed(b, t)
  BY <1>2, <1>4, <1>5
<1>12. condition \in BOOLEAN
  BY <1>1, BridgeFields, Zenon
<1> QED BY <1>1, <1>9, <1>10, <1>11, <1>12, UsedTreeCall

\* STP_SetBridgeMaxAge and STP_SetBridgeForwardDelay.
LEMMA TimesSettle ==
  ASSUME TypeOK, Settled, SetBridgeMaxAge \/ SetBridgeForwardDelay
  PROVE  CallSettled
<1> DEFINE z == bridge.tree[CIST]
<1>1. /\ bridge \in Bridge /\ run = Idle /\ bridge.started \in BOOLEAN
      /\ z \in BridgeTree /\ CIST \in Trees
  BY CistIsTree, BridgeFields, BridgeTreePart, Zenon
     DEF TypeOK, SetBridgeMaxAge, SetBridgeForwardDelay
<1>2. ASSUME NEW times \in Times, NEW b,
             b = RecomputeIf(bridge.started,
                             [bridge EXCEPT !.tree[CIST] = [z EXCEPT !.BridgeTimes = times]], CIST),
             RunsIfStarted(b)
      PROVE  CallSettled
  <2> DEFINE y == [z EXCEPT !.BridgeTimes = times]
             c == [bridge EXCEPT !.tree[CIST] = y]
  <2>1. y \in BridgeTree /\ y.portRoleSelectionState = z.portRoleSelectionState
    BY <1>1, ZenonT(60) DEF BridgeTree
  <2>2. b = RecomputeIf(bridge.started, c, CIST)
    BY <1>2
  <2> HIDE DEF y
  <2>3. c \in Bridge
    BY <1>1, <2>1, SetTreeTyped, Zenon
  <2>4. Held(bridge, c)
    BY <1>1, <2>1, SetTreeHeld, Zenon
  <2> HIDE DEF c
  <2> QED BY <1>1, <1>2, <2>2, <2>3, <2>4, RecomputingCall, Zenon
<1>3. z.BridgeTimes \in Times
  BY <1>1, Zenon DEF BridgeTree
<1>4. CASE SetBridgeMaxAge
  <2>1. PICK age \in MaxAges : RunsIfStarted(WithMaxAge(bridge, age))
    BY <1>4, Zenon DEF SetBridgeMaxAge
  <2> DEFINE times == [z.BridgeTimes EXCEPT !.MaxAge = age]
  <2>2. times \in Times
    <3>1. age \in Nat
      BY InputsAssumption, SMT
    <3> QED BY <1>3, <3>1, Zenon DEF Times
  <2>3. [bridge EXCEPT !.tree[CIST].BridgeTimes.MaxAge = age]
          = [bridge EXCEPT !.tree[CIST] = [z EXCEPT !.BridgeTimes = times]]
    OBVIOUS
  <2>4. WithMaxAge(bridge, age)
          = RecomputeIf(bridge.started,
              [bridge EXCEPT !.tree[CIST] = [z EXCEPT !.BridgeTimes = times]], CIST)
    BY <2>3 DEF WithMaxAge
  <2> HIDE DEF times, z
  <2> QED BY <1>2, <2>1, <2>2, <2>4
<1>5. CASE SetBridgeForwardDelay
  <2>1. PICK delay \in ForwardDelays : RunsIfStarted(WithForwardDelay(bridge, delay))
    BY <1>5, Zenon DEF SetBridgeForwardDelay
  <2> DEFINE times == [z.BridgeTimes EXCEPT !.ForwardDelay = delay]
  <2>2. times \in Times
    <3>1. delay \in Nat
      BY InputsAssumption, SMT
    <3> QED BY <1>3, <3>1, Zenon DEF Times
  <2>3. [bridge EXCEPT !.tree[CIST].BridgeTimes.ForwardDelay = delay]
          = [bridge EXCEPT !.tree[CIST] = [z EXCEPT !.BridgeTimes = times]]
    OBVIOUS
  <2>4. WithForwardDelay(bridge, delay)
          = RecomputeIf(bridge.started,
              [bridge EXCEPT !.tree[CIST] = [z EXCEPT !.BridgeTimes = times]], CIST)
    BY <2>3 DEF WithForwardDelay
  <2> HIDE DEF times, z
  <2> QED BY <1>2, <2>1, <2>2, <2>4
<1> QED BY <1>4, <1>5

\* STP_SetAdminExternalPortPathCost.
LEMMA ExternalCostSettles ==
  ASSUME TypeOK, Settled, NEW p \in Ports, SetAdminExternalPortPathCost(p)
  PROVE  CallSettled
<1> DEFINE y == bridge.port[p]
<1>1. bridge \in Bridge /\ run = Idle /\ bridge.started \in BOOLEAN /\ y \in Port
  BY BridgeFields, BridgeParts, CistIsTree, Zenon DEF TypeOK, SetAdminExternalPortPathCost
<1>2. PICK admin \in AdminCosts :
        LET b == WithAdminExternalPortPathCost(bridge, p, admin)
        IN  IF b.port[p].ExternalPortPathCost # y.ExternalPortPathCost
            THEN RunsIfStarted(b) ELSE Returns(b)
  BY Zenon DEF SetAdminExternalPortPathCost
<1> DEFINE cost      == IF y.portEnabled THEN PathCost(admin, y.detectedPortPathCost)
                        ELSE y.ExternalPortPathCost
           z         == [y EXCEPT !.adminExternalPortPathCost = admin,
                                  !.ExternalPortPathCost = cost]
           a         == [bridge EXCEPT !.port[p] = z]
           c         == SetPort(bridge, p, z)
           condition == bridge.started /\ cost # y.ExternalPortPathCost
           b         == RecomputeIf(condition, c, CIST)
<1>3. WithAdminExternalPortPathCost(bridge, p, admin) = RecomputeIf(condition, a, CIST)
  BY DEF WithAdminExternalPortPathCost
<1>4. a = c
  BY DEF SetPort
<1> HIDE DEF a
<1>5. cost \in Nat /\ admin \in Nat
  BY <1>1, PortFields, InputsAssumption, Zenon DEF PathCost
<1> HIDE DEF cost
<1>6. z \in Port /\ PortHeld(y, z) /\ z.ExternalPortPathCost = cost
  BY <1>1, <1>5, ZenonT(60) DEF Port, PortHeld
<1> HIDE DEF z
<1>7. c \in Bridge
  BY <1>1, <1>6, SetPortTyped, Zenon
<1>8. Held(bridge, c)
  BY <1>1, <1>6, SetPortHeld, Zenon
<1>9. c.port[p] = z
  <2>1. c.port = [bridge.port EXCEPT ![p] = z]
    BY <1>1, ZenonT(60) DEF Bridge, SetPort
  <2>2. bridge.port \in [Ports -> Port]
    BY <1>1, Zenon DEF Bridge
  <2> QED BY <2>1, <2>2, Zenon
<1> HIDE DEF c
<1>10. b.port = c.port
  <2>1. Recomputed(c, CIST).port = c.port
    BY <1>7, ZenonT(60) DEF Bridge, Recomputed
  <2> QED BY <2>1, Zenon DEF RecomputeIf
<1>11. WithAdminExternalPortPathCost(bridge, p, admin) = b
  BY <1>3, <1>4
<1> HIDE DEF b
<1>12. b.port[p].ExternalPortPathCost = cost
  BY <1>6, <1>9, <1>10
<1>13. RunsIfStarted(b) \/ (~condition /\ Returns(b))
  BY <1>2, <1>11, <1>12
<1>14. b = RecomputeIf(condition, c, CIST) /\ condition \in BOOLEAN
  BY <1>1, Zenon DEF b
<1> HIDE DEF condition
<1> QED BY <1>1, <1>7, <1>8, <1>13, <1>14, RecomputingCall, Zenon

\* STP_SetAdminInternalPortPathCost.
LEMMA InternalCostSettles ==
  ASSUME TypeOK, Settled, NEW p \in Ports, NEW t \in Trees, SetAdminInternalPortPathCost(p, t)
  PROVE  CallSettled
<1> DEFINE x == bridge.pt[p][t]
           y == bridge.port[p]
<1>1. bridge \in Bridge /\ run = Idle /\ bridge.started \in BOOLEAN /\ x \in PortTree /\ y \in Port
  BY BridgeFields, BridgeParts, Zenon DEF TypeOK, SetAdminInternalPortPathCost
<1>2. PICK admin \in AdminCosts :
        LET b == WithAdminInternalPortPathCost(bridge, p, t, admin)
        IN  IF b.pt[p][t].InternalPortPathCost # x.InternalPortPathCost
            THEN RunsIfStarted(b) ELSE Returns(b)
  BY Zenon DEF SetAdminInternalPortPathCost
<1> DEFINE cost      == IF y.portEnabled THEN PathCost(admin, y.detectedPortPathCost)
                        ELSE x.InternalPortPathCost
           z         == [x EXCEPT !.adminInternalPortPathCost = admin,
                                  !.InternalPortPathCost = cost]
           a         == [bridge EXCEPT !.pt[p][t] = z]
           c         == SetPortTree(bridge, p, t, z)
           condition == bridge.started /\ cost # x.InternalPortPathCost
           b         == RecomputeIf(condition, c, t)
<1>3. WithAdminInternalPortPathCost(bridge, p, t, admin) = RecomputeIf(condition, a, t)
  BY DEF WithAdminInternalPortPathCost
<1>4. a = c
  BY DEF SetPortTree
<1> HIDE DEF a
<1>5. cost \in Nat /\ admin \in Nat
  BY <1>1, PortFields, PortTreeFields, InputsAssumption, Zenon DEF PathCost
<1> HIDE DEF cost
<1>6. z \in PortTree /\ TreeHeld(x, z) /\ z.InternalPortPathCost = cost
  BY <1>1, <1>5, ZenonT(60) DEF PortTree, TreeHeld, Alike
<1> HIDE DEF z
<1>7. c \in Bridge
  BY <1>1, <1>6, SetPortTreeTyped, Zenon
<1>8. Held(bridge, c)
  BY <1>1, <1>6, SetPortTreeHeld, Zenon
<1>9. c.pt[p][t] = z
  BY <1>1, PortTreeUpdated
<1> HIDE DEF c
<1>10. b.pt[p][t].InternalPortPathCost = c.pt[p][t].InternalPortPathCost
  <2>1. Recomputed(c, t).pt[p][t].InternalPortPathCost = c.pt[p][t].InternalPortPathCost
    <3>1. c.pt[p][t] \in PortTree
      BY <1>7, BridgeParts, Zenon
    <3>2. [c.pt[p][t] EXCEPT !.selected = FALSE, !.reselect = TRUE].InternalPortPathCost
            = c.pt[p][t].InternalPortPathCost
      BY <3>1, ZenonT(60) DEF PortTree
    <3>3. Recomputed(c, t).pt
            = [q \in Ports |-> [s \in Trees |->
                IF s = t \/ (cist(t) /\ s \in TreesOf(c))
                THEN [c.pt[q][s] EXCEPT !.selected = FALSE, !.reselect = TRUE]
                ELSE c.pt[q][s]]]
      BY <1>7, ZenonT(60) DEF Bridge, Recomputed
    <3>4. \/ Recomputed(c, t).pt[p][t] = [c.pt[p][t] EXCEPT !.selected = FALSE, !.reselect = TRUE]
          \/ Recomputed(c, t).pt[p][t] = c.pt[p][t]
      BY <3>3, Zenon
    <3> QED BY <3>2, <3>4
  <2> QED BY <2>1 DEF RecomputeIf
<1>11. WithAdminInternalPortPathCost(bridge, p, t, admin) = b
  BY <1>3, <1>4
<1> HIDE DEF b
<1>12. b.pt[p][t].InternalPortPathCost = cost
  BY <1>6, <1>9, <1>10
<1>13. RunsIfStarted(b) \/ (~condition /\ Returns(b))
  BY <1>2, <1>11, <1>12
<1>14. b = RecomputeIf(condition, c, t) /\ condition \in BOOLEAN
  BY <1>1, Zenon DEF b
<1> HIDE DEF condition
<1> QED BY <1>1, <1>7, <1>8, <1>13, <1>14, RecomputingCall, Zenon

LEMMA PriorityCallSettles ==
  ASSUME TypeOK, Settled, PriorityCall
  PROVE  CallSettled
  BY AddressSettles, BridgePrioritySettles, PortPrioritySettles, TimesSettle,
     ExternalCostSettles, InternalCostSettles, Zenon DEF PriorityCall

\* The clock, the link and a frame change the PORTs, and perhaps the path costs.
LEMMA EventCarries ==
  ASSUME NEW b, NEW c,
         c.BEGIN = b.BEGIN, c.started = b.started,
         c.ForceProtocolVersion = b.ForceProtocolVersion, c.tree = b.tree,
         \A q \in Ports : c.port[q].portTimersState = b.port[q].portTimersState,
         \A q \in Ports, s \in Trees : TreeHeld(b.pt[q][s], c.pt[q][s])
  PROVE  Carries(b, c)
<1>1. ASSUME NEW x, NEW z, TreeHeld(x, z)
      PROVE  TreeCarried(x, z)
  BY <1>1, Zenon DEF TreeHeld, TreeCarried, Alike, SameRole, SameHardware
<1>2. \A q \in Ports, s \in Trees : TreeCarried(b.pt[q][s], c.pt[q][s])
  BY <1>1, Zenon
<1> QED BY <1>2, Zenon DEF Carries, SameProtocol

LEMMA TickSettles ==
  ASSUME TypeOK, Settled, OnOneSecondTick
  PROVE  CallSettled
<1> DEFINE c == Ticked(bridge)
<1>1. bridge \in Bridge /\ run = Idle /\ bridge.started /\ Runs(c)
  BY Zenon DEF TypeOK, OnOneSecondTick
<1>2. /\ c.BEGIN = bridge.BEGIN /\ c.started = bridge.started
      /\ c.ForceProtocolVersion = bridge.ForceProtocolVersion
      /\ c.pt = bridge.pt /\ c.tree = bridge.tree
      /\ c.port = [p \in Ports |-> [bridge.port[p] EXCEPT !.tick = TRUE]]
  BY <1>1, ZenonT(60) DEF Bridge, Ticked
<1> HIDE DEF c
<1>3. ASSUME NEW q \in Ports
      PROVE  /\ c.port[q].portTimersState = bridge.port[q].portTimersState
             /\ c.port[q].rcvdBpdu = bridge.port[q].rcvdBpdu
  <2>1. bridge.port[q] \in Port
    BY <1>1, BridgeParts, CistIsTree, Zenon
  <2>2. ASSUME NEW y \in Port, NEW z, z = [y EXCEPT !.tick = TRUE]
        PROVE  z.portTimersState = y.portTimersState /\ z.rcvdBpdu = y.rcvdBpdu
    BY <2>2, ZenonT(60) DEF Port
  <2>3. c.port[q] = [bridge.port[q] EXCEPT !.tick = TRUE]
    BY <1>2, Zenon
  <2> QED BY <2>1, <2>2, <2>3, Zenon
<1>4. Carries(bridge, c) /\ NoReceipt(bridge, c) /\ RunsOrHolds(c)
  <2>1. \A q \in Ports, s \in Trees : TreeHeld(bridge.pt[q][s], c.pt[q][s])
    BY <1>2, HeldItself, Zenon
  <2>2. Carries(bridge, c)
    BY <1>2, <1>3, <2>1, EventCarries, Zenon
  <2> QED BY <1>1, <1>2, <1>3, <2>2, Zenon DEF NoReceipt, RunsOrHolds
<1> QED BY <1>1, <1>4, CarryingCall, Zenon

LEMMA LinkUpSettles ==
  ASSUME TypeOK, Settled, NEW p \in Ports, OnPortEnabled(p)
  PROVE  CallSettled
<1>1. bridge \in Bridge /\ run = Idle /\ bridge.port[p] \in Port
  BY BridgeParts, CistIsTree, Zenon DEF TypeOK, OnPortEnabled
<1>2. PICK cost \in LinkCosts, p2p \in LinkDuplex :
        RunsIfStarted(PortEnabled(bridge, p, cost, p2p))
  BY DEF OnPortEnabled
<1> DEFINE y   == bridge.port[p]
           z   == [y EXCEPT
                    !.portEnabled = TRUE, !.detectedPointToPointMAC = p2p,
                    !.operPointToPointMAC = OperPointToPoint(y.adminPointToPointMAC, p2p),
                    !.detectedPortPathCost = cost,
                    !.ExternalPortPathCost = PathCost(y.adminExternalPortPathCost, cost)]
           row == [t \in Trees |->
                    IF t \in TreesOf(bridge)
                    THEN [bridge.pt[p][t] EXCEPT
                            !.InternalPortPathCost =
                              PathCost(bridge.pt[p][t].adminInternalPortPathCost, cost)]
                    ELSE bridge.pt[p][t]]
           c   == [bridge EXCEPT !.port[p] = z, !.pt[p] = row]
<1>3. PortEnabled(bridge, p, cost, p2p) = c
  BY DEF PortEnabled
<1>4. z.portTimersState = y.portTimersState /\ z.rcvdBpdu = y.rcvdBpdu
  BY <1>1, ZenonT(60) DEF Port
<1>5. ASSUME NEW s \in Trees
      PROVE  TreeHeld(bridge.pt[p][s], row[s])
  <2>1. ASSUME NEW x \in PortTree, NEW w, NEW n, w = [x EXCEPT !.InternalPortPathCost = n]
        PROVE  TreeHeld(x, w)
    BY <2>1, ZenonT(60) DEF PortTree, TreeHeld, Alike
  <2>2. bridge.pt[p][s] \in PortTree
    BY <1>1, BridgeParts, Zenon
  <2> DEFINE n == PathCost(bridge.pt[p][s].adminInternalPortPathCost, cost)
  <2>3. \/ row[s] = [bridge.pt[p][s] EXCEPT !.InternalPortPathCost = n]
        \/ row[s] = bridge.pt[p][s]
    BY Zenon
  <2> HIDE DEF row, n
  <2> QED BY <2>1, <2>2, <2>3, HeldItself, Zenon
<1> HIDE DEF z, row
<1>6. /\ c.BEGIN = bridge.BEGIN /\ c.started = bridge.started
      /\ c.ForceProtocolVersion = bridge.ForceProtocolVersion /\ c.tree = bridge.tree
      /\ c.port = [bridge.port EXCEPT ![p] = z] /\ c.pt = [bridge.pt EXCEPT ![p] = row]
  BY <1>1, ZenonT(60) DEF Bridge
<1> HIDE DEF c
<1>7. /\ \A q \in Ports : c.port[q] = IF q = p THEN z ELSE bridge.port[q]
      /\ \A q \in Ports : c.pt[q] = IF q = p THEN row ELSE bridge.pt[q]
  <2>1. bridge.port \in [Ports -> Port] /\ bridge.pt \in [Ports -> [Trees -> PortTree]]
    BY <1>1, ZenonT(60) DEF Bridge
  <2> QED BY <1>6, <2>1, Zenon
<1>8. ASSUME NEW q \in Ports
      PROVE  /\ c.port[q].portTimersState = bridge.port[q].portTimersState
             /\ c.port[q].rcvdBpdu = bridge.port[q].rcvdBpdu
  BY <1>4, <1>7, Zenon
<1>9. \A q \in Ports, s \in Trees : TreeHeld(bridge.pt[q][s], c.pt[q][s])
  BY <1>5, <1>7, HeldItself, Zenon
<1>10. Carries(bridge, c)
  BY <1>6, <1>8, <1>9, EventCarries, Zenon
<1>11. RunsIfStarted(c)
  BY <1>2, <1>3
<1>12. NoReceipt(bridge, c) /\ RunsOrHolds(c)
  BY <1>8, <1>11, Zenon DEF NoReceipt, RunsOrHolds
<1> QED BY <1>1, <1>10, <1>12, CarryingCall, Zenon

LEMMA LinkDownSettles ==
  ASSUME TypeOK, Settled, NEW p \in Ports, OnPortDisabled(p)
  PROVE  CallSettled
<1> DEFINE y == bridge.port[p]
           z == [y EXCEPT !.portEnabled = FALSE, !.detectedPointToPointMAC = FALSE,
                          !.operPointToPointMAC = FALSE, !.detectedPortPathCost = 0,
                          !.ExternalPortPathCost = 0]
           c == [bridge EXCEPT !.port[p] = z]
<1>1. bridge \in Bridge /\ run = Idle /\ y \in Port
  BY BridgeParts, CistIsTree, Zenon DEF TypeOK, OnPortDisabled
<1>2. RunsIfStarted(PortDisabled(bridge, p))
  BY Zenon DEF OnPortDisabled
<1>3. PortDisabled(bridge, p) = c
  BY DEF PortDisabled
<1>4. z.portTimersState = y.portTimersState /\ z.rcvdBpdu = y.rcvdBpdu
  BY <1>1, ZenonT(60) DEF Port
<1> HIDE DEF z
<1>5. /\ c.BEGIN = bridge.BEGIN /\ c.started = bridge.started
      /\ c.ForceProtocolVersion = bridge.ForceProtocolVersion
      /\ c.tree = bridge.tree /\ c.pt = bridge.pt /\ c.port = [bridge.port EXCEPT ![p] = z]
  BY <1>1, ZenonT(60) DEF Bridge
<1> HIDE DEF c
<1>6. \A q \in Ports : c.port[q] = IF q = p THEN z ELSE bridge.port[q]
  <2>1. bridge.port \in [Ports -> Port]
    BY <1>1, Zenon DEF Bridge
  <2> QED BY <1>5, <2>1, Zenon
<1>7. Carries(bridge, c)
  <2>1. \A q \in Ports : c.port[q].portTimersState = bridge.port[q].portTimersState
    BY <1>4, <1>6, Zenon
  <2>2. \A q \in Ports, s \in Trees : TreeHeld(bridge.pt[q][s], c.pt[q][s])
    BY <1>5, HeldItself, Zenon
  <2> QED BY <1>5, <2>1, <2>2, EventCarries, Zenon
<1>8. RunsIfStarted(c)
  BY <1>2, <1>3
<1>9. NoReceipt(bridge, c) /\ RunsOrHolds(c)
  BY <1>4, <1>8, <1>6, Zenon DEF NoReceipt, RunsOrHolds
<1> QED BY <1>1, <1>7, <1>9, CarryingCall, Zenon

\* A frame comes in: the bridge has it in hand.
FrameInHand(b) ==
  \A q \in Ports : /\ b.port[q].rcvdBpdu => b.port[q].portEnabled
                   /\ b.port[q].rcvdBpdu \/ b.pt[q][CIST].rcvdMsg => b.receivedBpdu # NoBpdu

LEMMA ReceiptSettles ==
  ASSUME TypeOK, Settled, NEW p \in Ports, OnBpduReceived(p)
  PROVE  /\ Settled' /\ (NoFrame(bridge) => FrameInHand(bridge')) /\ run'.phase # "idle"
         /\ VersionKept(bridge')
<1>1. /\ bridge \in Bridge /\ run = Idle /\ bridge.port[p] \in Port
      /\ bridge.started /\ bridge.port[p].portEnabled
  BY BridgeParts, CistIsTree, Zenon DEF TypeOK, OnBpduReceived
<1>2. PICK m \in Frames : Runs(BpduReceived(bridge, p, m))
  BY DEF OnBpduReceived
<1> DEFINE y == bridge.port[p]
           z == [y EXCEPT !.rcvdBpdu = TRUE]
           v == Validated(bridge, m)
           c == [bridge EXCEPT !.receivedBpdu = v, !.port[p] = z]
<1>3. BpduReceived(bridge, p, m) = c
  BY DEF BpduReceived
<1>4. z.portTimersState = y.portTimersState /\ z.portEnabled = y.portEnabled
  BY <1>1, ZenonT(60) DEF Port
<1>5. v # NoBpdu
  <2>1. m \in Bpdu
    BY InputsAssumption, Zenon
  <2>4. v.type \in BpduTypes
    <3> DEFINE e == [m EXCEPT !.type = "RST", !.mstConfigId = 0, !.msti = << >>,
                 !.priority = [@ EXCEPT !.InternalRootPathCost = 0, !.DesignatedBridgeId = 0],
                 !.times = [@ EXCEPT !.remainingHops = 0]]
    <3>1. v = IF m.type = "MST" /\ bridge.ForceProtocolVersion < MSTP THEN e ELSE m
      BY DEF Validated
    <3>2. e.type = "RST"
      BY <2>1, ZenonT(60) DEF Bpdu
    <3> HIDE DEF e, v
    <3>3. v = e \/ v = m
      BY <3>1, Zenon
    <3>4. m.type \in BpduTypes /\ "RST" \in BpduTypes
      BY <2>1, Zenon DEF Bpdu, BpduTypes
    <3> QED BY <3>2, <3>3, <3>4, Zenon
  <2> HIDE DEF v
  <2>5. NoBpdu.type \notin BpduTypes
    BY SMT DEF NoBpdu, BpduTypes
  <2> QED BY <2>4, <2>5, Zenon
<1> HIDE DEF z, v
<1>6. /\ c.BEGIN = bridge.BEGIN /\ c.started = bridge.started
      /\ c.ForceProtocolVersion = bridge.ForceProtocolVersion
      /\ c.tree = bridge.tree /\ c.pt = bridge.pt /\ c.port = [bridge.port EXCEPT ![p] = z]
      /\ c.receivedBpdu = v
  BY <1>1, ZenonT(60) DEF Bridge
<1> HIDE DEF c
<1>7. c.receivedBpdu = v /\ c.started
  BY <1>1, <1>6, Zenon
<1>8. \A q \in Ports : c.port[q] = IF q = p THEN z ELSE bridge.port[q]
  <2>1. bridge.port \in [Ports -> Port]
    BY <1>1, Zenon DEF Bridge
  <2> QED BY <1>6, <2>1, Zenon
<1>9. Carries(bridge, c)
  <2>1. \A q \in Ports : c.port[q].portTimersState = bridge.port[q].portTimersState
    BY <1>4, <1>8, Zenon
  <2>2. \A q \in Ports, s \in Trees : TreeHeld(bridge.pt[q][s], c.pt[q][s])
    BY <1>6, HeldItself, Zenon
  <2> QED BY <1>6, <2>1, <2>2, EventCarries, Zenon
<1>10. Runs(c)
  BY <1>2, <1>3
<1>11. Settled'
  BY <1>1, <1>9, <1>7, <1>10, CallSettles, Zenon DEF RunsOrHolds
<1>12. NoFrame(bridge) => FrameInHand(c)
  BY <1>1, <1>4, <1>5, <1>7, <1>8, Zenon DEF NoFrame, FrameInHand
<1>13. bridge' = c /\ run'.phase # "idle"
  BY <1>10, SMT DEF Runs, StartPass
<1>14. VersionKept(c)
  BY <1>6, Zenon DEF VersionKept
<1> QED BY <1>11, <1>12, <1>13, <1>14, Zenon

-----------------------------------------------------------------------------
(***************************************************************************)
(* Starting, restarting, stopping.  Between runs the machines' states tell *)
(* no more than this of a bridge, whichever trees it runs.                 *)
(***************************************************************************)
Core(b) ==
  \A q \in Ports, s \in Trees :
    /\ StateFits(b.pt[q][s]) /\ SelectionFits(b, q, s) /\ LearnFits(b.pt[q][s])
    /\ ~b.pt[q][s].updtInfo

LEMMA CoreOf ==
  ASSUME NEW b, InOrder(b), NoneUpdates(b)
  PROVE  Core(b)
  BY Zenon DEF InOrder, PartFits, InfoFits, NoneUpdates, Core

\* The same PORT_TREEs and states make the same core.
LEMMA CoreDecides ==
  ASSUME NEW b, NEW c, Core(b), c.pt = b.pt, c.tree = b.tree
  PROVE  Core(c)
  BY Zenon DEF Core, SelectionFits

LEMMA CoreStopped ==
  ASSUME NEW b, Core(b), ~b.started
  PROVE  InOrder(b) /\ NoneUpdates(b)
<1>1. ASSUME NEW q \in Ports, NEW s \in Trees
      PROVE  PartFits(b, q, s)
  <2>1. NoUpdate(b, q, s)
    BY Zenon DEF Core, NoUpdate
  <2>2. InfoFits(b, q, s)
    BY <2>1, Zenon DEF Core, InfoFits
  <2>3. SwitchFits(b, q, s)
    BY Zenon DEF SwitchFits
  <2> QED BY <2>2, <2>3, Zenon DEF Core, PartFits
<1>2. Begun(b)
  BY Zenon DEF Begun
<1> QED BY <1>1, <1>2, Zenon DEF InOrder, NoneUpdates, Core

\* A PORT_TREE whose machines are about to begin.
LEMMA StoppedTreeFits ==
  ASSUME NEW x \in PortTree, LearnFits(x), NEW z, z = StoppedPortTree(x)
  PROVE  /\ StateFits(z) /\ LearnFits(z) /\ HardwareFits(z)
         /\ z.updtInfo = x.updtInfo /\ z.rcvdMsg = x.rcvdMsg
<1>1. /\ z.portInformationState = "NONE" /\ z.portRoleTransitionsState = "NONE"
      /\ z.portStateTransitionState = "NONE"
      /\ z.role = x.role /\ z.learn = x.learn /\ z.forward = x.forward
      /\ z.updtInfo = x.updtInfo /\ z.rcvdMsg = x.rcvdMsg
  BY ZenonT(60) DEF PortTree, StoppedPortTree
<1>2. StateFits(z)
  BY <1>1, SMT DEF StateFits
<1>3. HardwareFits(z)
  BY <1>1, SMT DEF HardwareFits
<1>4. RoleOfState("NONE") \in {"NONE", x.role}
  <2>1. RoleOfState("NONE") = "NONE"
    BY RolesOfStates, Zenon
  <2> QED BY <2>1, Zenon
<1>5. LearnFits(z)
  BY <1>1, <1>4, Zenon DEF LearnFits
<1> QED BY <1>1, <1>2, <1>3, <1>5, Zenon

LEMMA RestartedInOrder ==
  ASSUME NEW b \in Bridge, Core(b)
  PROVE  /\ InOrder(Restarted(b)) /\ Restarted(b).started = b.started
         /\ NoFrame(b) => NoFrame(Restarted(b))
         /\ Restarted(b).ForceProtocolVersion = b.ForceProtocolVersion
<1> DEFINE c == Restarted(b)
<1>1. /\ c.BEGIN = TRUE /\ c.started = b.started
      /\ c.ForceProtocolVersion = b.ForceProtocolVersion
      /\ c.port = [q \in Ports |-> StoppedPort(b.port[q])]
  BY ZenonT(60) DEF Bridge, Restarted
<1>2. c.pt = [q \in Ports |-> [s \in Trees |->
               IF s \in TreesOf(b) THEN StoppedPortTree(b.pt[q][s]) ELSE b.pt[q][s]]]
  BY ZenonT(60) DEF Bridge, Restarted
<1>3. c.tree = [s \in Trees |->
                 IF s \in TreesOf(b) THEN [b.tree[s] EXCEPT !.portRoleSelectionState = "NONE"]
                 ELSE b.tree[s]]
  BY ZenonT(60) DEF Bridge, Restarted
<1> HIDE DEF c
<1>4. TreesOf(c) = TreesOf(b)
  BY <1>1, Zenon DEF TreesOf
<1>5. ASSUME NEW q \in Ports, NEW s \in Trees
      PROVE  PartFits(c, q, s) /\ c.pt[q][s].rcvdMsg = b.pt[q][s].rcvdMsg
  <2> DEFINE x == b.pt[q][s]
             z == c.pt[q][s]
  <2>1. x \in PortTree /\ b.tree[s] \in BridgeTree
    BY BridgeParts, BridgeTreePart, Zenon
  <2>2. StateFits(x) /\ SelectionFits(b, q, s) /\ LearnFits(x) /\ ~x.updtInfo
    BY Zenon DEF Core
  <2>3. CASE s \in TreesOf(b)
    <3>1. z = StoppedPortTree(x)
      BY <1>2, <2>3, SMT
    <3>2. c.tree[s].portRoleSelectionState = "NONE"
      <4>1. ASSUME NEW y \in BridgeTree
            PROVE  [y EXCEPT !.portRoleSelectionState = "NONE"].portRoleSelectionState = "NONE"
        BY ZenonT(60) DEF BridgeTree
      <4>2. c.tree[s] = [b.tree[s] EXCEPT !.portRoleSelectionState = "NONE"]
        BY <1>3, <2>3, Zenon
      <4> QED BY <2>1, <4>1, <4>2, Zenon
    <3>3. /\ StateFits(z) /\ LearnFits(z) /\ HardwareFits(z)
          /\ z.updtInfo = x.updtInfo /\ z.rcvdMsg = x.rcvdMsg
      BY <2>1, <2>2, <3>1, StoppedTreeFits, Zenon
    <3>4. SelectionFits(c, q, s)
      BY <3>2, SMT DEF SelectionFits
    <3>5. InfoFits(c, q, s)
      BY <1>1, <2>2, <3>3, <3>4, Zenon DEF InfoFits, NoUpdate
    <3>6. SwitchFits(c, q, s)
      BY <1>1, <3>3, Zenon DEF SwitchFits
    <3> QED BY <3>3, <3>5, <3>6, Zenon DEF PartFits
  <2>4. CASE s \notin TreesOf(b)
    <3>1. z = x /\ c.tree[s] = b.tree[s]
      BY <1>2, <1>3, <2>4, SMT
    <3>2. SelectionFits(c, q, s)
      BY <2>2, <3>1, Zenon DEF SelectionFits
    <3>3. StateFits(z) /\ LearnFits(z) /\ ~z.updtInfo /\ z.rcvdMsg = x.rcvdMsg
      BY <2>2, <3>1, Zenon
    <3>4. InfoFits(c, q, s)
      BY <1>1, <3>2, <3>3, Zenon DEF InfoFits, NoUpdate
    <3>5. SwitchFits(c, q, s)
      BY <1>4, <2>4, Zenon DEF SwitchFits
    <3> QED BY <3>3, <3>4, <3>5, Zenon DEF PartFits
  <2> QED BY <2>3, <2>4, Zenon
<1>6. Begun(c)
  BY <1>1, Zenon DEF Begun
<1>7. NoFrame(b) => NoFrame(c)
  <2>1. ASSUME NEW q \in Ports
        PROVE  c.port[q].rcvdBpdu = b.port[q].rcvdBpdu
    <3>1. b.port[q] \in Port
      BY BridgeParts, CistIsTree, Zenon
    <3>2. ASSUME NEW y \in Port, NEW w, w = StoppedPort(y)
          PROVE  w.rcvdBpdu = y.rcvdBpdu
      BY <3>2, ZenonT(60) DEF Port, StoppedPort
    <3>3. c.port[q] = StoppedPort(b.port[q])
      BY <1>1, Zenon
    <3> QED BY <3>1, <3>2, <3>3, Zenon
  <2> QED BY <1>5, <2>1, CistIsTree, Zenon DEF NoFrame
<1>8. /\ InOrder(c) /\ c.started = b.started /\ (NoFrame(b) => NoFrame(c))
      /\ c.ForceProtocolVersion = b.ForceProtocolVersion
  BY <1>1, <1>5, <1>6, <1>7, Zenon DEF InOrder
<1> QED BY <1>8, Zenon DEF c

\* The calls restart the machines of a bridge that differs in nothing they go by.
LEMMA RestartSettles ==
  ASSUME Settled, run = Idle, NEW c \in Bridge,
         c.pt = bridge.pt, c.tree = bridge.tree, c.port = bridge.port, VersionKept(c),
         \/ c.started /\ Runs(Restarted(c))
         \/ ~c.started /\ Returns(c)
  PROVE  CallSettled
<1>1. Core(bridge)
  <2>1. run.phase = "idle"
    BY SMT DEF Idle
  <2> QED BY <2>1, CoreOf, Zenon DEF Settled
<1>2. Core(c)
  BY <1>1, CoreDecides, Zenon
<1>3. NoFrame(bridge) => NoFrame(c)
  BY Zenon DEF NoFrame
<1>4. CASE c.started /\ Runs(Restarted(c))
  <2> DEFINE d == Restarted(c)
  <2>1. /\ InOrder(d) /\ d.started /\ (NoFrame(c) => NoFrame(d))
        /\ d.ForceProtocolVersion = c.ForceProtocolVersion
    BY <1>2, <1>4, RestartedInOrder, Zenon
  <2>2. Runs(d)
    BY <1>4, Zenon
  <2> HIDE DEF d
  <2>3. Settled' /\ bridge' = d
    BY <2>1, <2>2, StartedSettles, Zenon DEF Runs
  <2>4. VersionKept(d)
    BY <2>1, Zenon DEF VersionKept
  <2> QED BY <1>3, <2>1, <2>3, <2>4, Zenon DEF CallSettled
<1>5. CASE ~c.started /\ Returns(c)
  <2>1. InOrder(c) /\ NoneUpdates(c)
    BY <1>2, <1>5, CoreStopped, Zenon
  <2>2. Settled' /\ bridge' = c
    BY <1>5, <2>1, StoppedSettles, Zenon DEF Returns
  <2> QED BY <1>3, <2>2, Zenon DEF CallSettled
<1> QED BY <1>4, <1>5

LEMMA StartSettles ==
  ASSUME TypeOK, Settled, StartBridge
  PROVE  CallSettled
<1> DEFINE c == [bridge EXCEPT !.started = TRUE]
<1>1. bridge \in Bridge /\ run = Idle /\ Runs(Started(bridge))
  BY Zenon DEF TypeOK, StartBridge
<1>2. /\ c \in Bridge /\ c.pt = bridge.pt /\ c.tree = bridge.tree /\ c.port = bridge.port
      /\ c.started = TRUE /\ c.ForceProtocolVersion = bridge.ForceProtocolVersion
  BY <1>1, ZenonT(60) DEF Bridge
<1>3. Runs(Restarted(c))
  BY <1>1 DEF Started
<1> HIDE DEF c
<1>4. c.started /\ Runs(Restarted(c)) /\ VersionKept(c)
  BY <1>2, <1>3 DEF VersionKept
<1> QED BY <1>1, <1>2, <1>4, RestartSettles, Zenon

LEMMA VersionSettles ==
  ASSUME TypeOK, Settled, SetStpVersion \/ SetMstConfigId
  PROVE  CallSettled
<1>1. bridge \in Bridge /\ run = Idle /\ bridge.started \in BOOLEAN
  BY BridgeFields, Zenon DEF TypeOK, SetStpVersion, SetMstConfigId
<1>2. ASSUME NEW c \in Bridge, c.pt = bridge.pt, c.tree = bridge.tree, c.port = bridge.port,
             c.started = bridge.started, VersionKept(c), RunsIfStarted(RestartIfStarted(c))
      PROVE  CallSettled
  <2>1. CASE c.started
    <3>1. RestartIfStarted(c) = Restarted(c)
      BY <2>1, SMT DEF RestartIfStarted
    <3>2. Restarted(c).started
      BY <2>1, ZenonT(60) DEF Bridge, Restarted
    <3>3. Runs(Restarted(c))
      BY <1>2, <3>1, <3>2, Zenon DEF RunsIfStarted
    <3> QED BY <1>1, <1>2, <2>1, <3>3, RestartSettles, Zenon
  <2>2. CASE ~c.started
    <3>1. RestartIfStarted(c) = c
      BY <2>2, SMT DEF RestartIfStarted
    <3>2. Returns(c)
      BY <1>2, <2>2, <3>1, Zenon DEF RunsIfStarted
    <3> QED BY <1>1, <1>2, <2>2, <3>2, RestartSettles, Zenon
  <2> QED BY <2>1, <2>2, Zenon
<1>3. CASE SetStpVersion
  <2>1. PICK version \in StpVersions : RunsIfStarted(WithStpVersion(bridge, version))
    BY <1>3, Zenon DEF SetStpVersion
  <2> DEFINE c == [bridge EXCEPT !.ForceProtocolVersion = version]
  <2>2. version \in Versions
    BY InputsAssumption, Zenon
  <2>3. /\ c \in Bridge /\ c.pt = bridge.pt /\ c.tree = bridge.tree /\ c.port = bridge.port
        /\ c.started = bridge.started /\ c.ForceProtocolVersion = version
    BY <1>1, <2>2, ZenonT(60) DEF Bridge
  <2>4. RunsIfStarted(RestartIfStarted(c))
    BY <2>1 DEF WithStpVersion
  <2> HIDE DEF c
  <2>5. VersionKept(c)
    BY <2>3, Zenon DEF VersionKept
  <2> QED BY <1>2, <2>3, <2>4, <2>5, Zenon
<1>4. CASE SetMstConfigId
  <2>1. PICK id \in MstConfigIds : RunsIfStarted(WithMstConfigId(bridge, id))
    BY <1>4, Zenon DEF SetMstConfigId
  <2> DEFINE c == [bridge EXCEPT !.mstConfigId = id]
  <2>2. id \in Nat
    BY InputsAssumption, Zenon
  <2>3. /\ c \in Bridge /\ c.pt = bridge.pt /\ c.tree = bridge.tree /\ c.port = bridge.port
        /\ c.started = bridge.started /\ c.ForceProtocolVersion = bridge.ForceProtocolVersion
    BY <1>1, <2>2, ZenonT(60) DEF Bridge
  <2>4. RunsIfStarted(RestartIfStarted(c))
    BY <2>1 DEF WithMstConfigId
  <2> HIDE DEF c
  <2>5. VersionKept(c)
    BY <2>3, Zenon DEF VersionKept
  <2> QED BY <1>2, <2>3, <2>4, <2>5, Zenon
<1> QED BY <1>3, <1>4

\* STP_StopBridge leaves the hardware to itself.
LEMMA StopSettles ==
  ASSUME TypeOK, Settled, StopBridge
  PROVE  CallSettled
<1>1. bridge \in Bridge /\ run = Idle
  BY Zenon DEF TypeOK, StopBridge
<1>2. PICK learning, forwarding \in BOOLEAN : Returns(Stopped(bridge, learning, forwarding))
  BY Zenon DEF StopBridge
<1> DEFINE c == Stopped(bridge, learning, forwarding)
<1>3. /\ c.started = FALSE /\ c.tree = bridge.tree /\ c.port = bridge.port
      /\ c.ForceProtocolVersion = bridge.ForceProtocolVersion
  BY <1>1, ZenonT(60) DEF Bridge, Stopped
<1>4. c.pt = [q \in Ports |-> [s \in Trees |->
               IF s \in TreesOf(bridge)
               THEN [bridge.pt[q][s] EXCEPT !.learning = learning, !.forwarding = forwarding]
               ELSE bridge.pt[q][s]]]
  BY <1>1, ZenonT(60) DEF Bridge, Stopped
<1>5. Returns(c)
  BY <1>2, Zenon
<1> HIDE DEF c
<1>6. Core(bridge)
  <2>1. run.phase = "idle"
    BY <1>1, SMT DEF Idle
  <2> QED BY <2>1, CoreOf, Zenon DEF Settled
<1>7. ASSUME NEW q \in Ports, NEW s \in Trees
      PROVE  SameInfo(bridge.pt[q][s], c.pt[q][s]) /\ SameRole(bridge.pt[q][s], c.pt[q][s])
             /\ c.pt[q][s].rcvdMsg = bridge.pt[q][s].rcvdMsg
  <2>1. bridge.pt[q][s] \in PortTree
    BY <1>1, BridgeParts, Zenon
  <2>2. ASSUME NEW x \in PortTree, NEW z,
               \/ z = [x EXCEPT !.learning = learning, !.forwarding = forwarding]
               \/ z = x
        PROVE  SameInfo(x, z) /\ SameRole(x, z) /\ z.rcvdMsg = x.rcvdMsg
    <3>1. CASE z = [x EXCEPT !.learning = learning, !.forwarding = forwarding]
      BY <3>1, ZenonT(60) DEF PortTree, SameInfo, SameRole
    <3>2. CASE z = x
      BY <3>2, Zenon DEF SameInfo, SameRole
    <3> QED BY <2>2, <3>1, <3>2
  <2>3. \/ c.pt[q][s] = [bridge.pt[q][s] EXCEPT !.learning = learning, !.forwarding = forwarding]
        \/ c.pt[q][s] = bridge.pt[q][s]
    BY <1>4, Zenon
  <2> QED BY <2>1, <2>2, <2>3
<1>8. Core(c)
  <2>1. ASSUME NEW q \in Ports, NEW s \in Trees
        PROVE  /\ StateFits(c.pt[q][s]) /\ SelectionFits(c, q, s) /\ LearnFits(c.pt[q][s])
               /\ ~c.pt[q][s].updtInfo
    <3>1. /\ StateFits(bridge.pt[q][s]) /\ SelectionFits(bridge, q, s)
          /\ LearnFits(bridge.pt[q][s]) /\ ~bridge.pt[q][s].updtInfo
      BY <1>6, Zenon DEF Core
    <3>2. SameInfo(bridge.pt[q][s], c.pt[q][s]) /\ SameRole(bridge.pt[q][s], c.pt[q][s])
      BY <1>7, Zenon
    <3>3. StateFits(c.pt[q][s]) /\ ~c.pt[q][s].updtInfo
      BY <3>1, <3>2, Zenon DEF StateFits, SameInfo
    <3>4. LearnFits(c.pt[q][s])
      BY <3>1, <3>2, Zenon DEF LearnFits, SameRole
    <3>5. RoleFits(bridge.pt[q][s]) => RoleFits(c.pt[q][s])
      BY <3>2, SMT DEF RoleFits, SameInfo
    <3>6. SelectionFits(c, q, s)
      BY <1>3, <3>1, <3>2, <3>5, Zenon DEF SelectionFits, SameInfo
    <3> QED BY <3>3, <3>4, <3>6, Zenon
  <2> QED BY <2>1, Zenon DEF Core
<1>9. Settled' /\ bridge' = c
  <2>1. InOrder(c) /\ NoneUpdates(c)
    BY <1>3, <1>8, CoreStopped, Zenon
  <2> QED BY <1>3, <1>5, <2>1, StoppedSettles, Zenon DEF Returns
<1>10. NoFrame(bridge) => NoFrame(c)
  BY <1>3, <1>7, CistIsTree, Zenon DEF NoFrame
<1>11. VersionKept(c)
  BY <1>3, Zenon DEF VersionKept
<1> QED BY <1>9, <1>10, <1>11, Zenon DEF CallSettled

-----------------------------------------------------------------------------
(***************************************************************************)
(* The invariant of the bridge.                                            *)
(***************************************************************************)
LEMMA CallsSettle ==
  ASSUME TypeOK, Settled,
         \/ StartBridge \/ StopBridge \/ OnOneSecondTick \/ LinkCall
         \/ EdgeCall \/ PriorityCall \/ ProtocolCall
  PROVE  CallSettled
<1>1. LinkCall => CallSettled
  BY LinkUpSettles, LinkDownSettles, Zenon DEF LinkCall
<1>2. ProtocolCall => CallSettled
  BY TxHoldCountSettles, VersionSettles, Zenon DEF ProtocolCall
<1> QED BY <1>1, <1>2, StartSettles, StopSettles, TickSettles, EdgeCallSettles,
           PriorityCallSettles, Zenon

\* A bridge that was just created is in order, stopped.
LEMMA InitSettles == Init => Settled /\ NoFrame(bridge)
<1> SUFFICES ASSUME Init
             PROVE  Settled /\ NoFrame(bridge)
  OBVIOUS
<1>1. PICK address \in Addresses : bridge = CreateBridge(address)
  BY Zenon DEF Init
<1>2. bridge.started = FALSE
  BY <1>1, SMT DEF CreateBridge
<1>3. ASSUME NEW q \in Ports, NEW s \in Trees
      PROVE  /\ bridge.pt[q][s] = NewPortTree(q, s) /\ bridge.port[q] = NewPort
             /\ bridge.tree[s].portRoleSelectionState = "NONE"
  <2>1. bridge.pt[q][s] = NewPortTree(q, s)
    BY <1>1 DEF CreateBridge
  <2>2. bridge.port[q] = NewPort
    BY <1>1 DEF CreateBridge
  <2>3. bridge.tree[s] = NewBridgeTree(s, BridgeId(DefaultPriority, address))
    BY <1>1 DEF CreateBridge
  <2>4. NewBridgeTree(s, BridgeId(DefaultPriority, address)).portRoleSelectionState = "NONE"
    BY DEF NewBridgeTree, WithIdentifier
  <2> QED BY <2>1, <2>2, <2>3, <2>4
<1>4. ASSUME NEW q \in Ports, NEW s \in Trees
      PROVE  /\ StateFits(bridge.pt[q][s]) /\ SelectionFits(bridge, q, s)
             /\ LearnFits(bridge.pt[q][s]) /\ ~bridge.pt[q][s].updtInfo
             /\ ~bridge.pt[q][s].rcvdMsg /\ ~bridge.port[q].rcvdBpdu
  <2> DEFINE x == bridge.pt[q][s]
  <2>1. /\ x.portInformationState = "NONE" /\ x.portRoleTransitionsState = "NONE"
        /\ x.learn = FALSE /\ x.forward = FALSE /\ x.updtInfo = FALSE /\ x.rcvdMsg = FALSE
    <3>1. ASSUME NEW y, y = NewPortTree(q, s)
          PROVE  /\ y.portInformationState = "NONE" /\ y.portRoleTransitionsState = "NONE"
                 /\ y.learn = FALSE /\ y.forward = FALSE
                 /\ y.updtInfo = FALSE /\ y.rcvdMsg = FALSE
      BY <3>1, ZenonT(60) DEF NewPortTree
    <3>2. x = NewPortTree(q, s)
      BY <1>3, Zenon
    <3> HIDE DEF x
    <3> QED BY <3>1, <3>2
  <2>2. bridge.port[q].rcvdBpdu = FALSE
    <3>1. bridge.port[q] = NewPort
      BY <1>3, Zenon
    <3>2. NewPort.rcvdBpdu = FALSE
      BY DEF NewPort
    <3> QED BY <3>1, <3>2
  <2>3. SelectionFits(bridge, q, s)
    BY <1>3, SMT DEF SelectionFits
  <2>4. StateFits(x)
    BY <2>1, SMT DEF StateFits
  <2>5. LearnFits(x)
    <3>1. RoleOfState("NONE") = "NONE"
      BY RolesOfStates, Zenon
    <3> QED BY <2>1, <3>1, Zenon DEF LearnFits
  <2> QED BY <2>1, <2>2, <2>3, <2>4, <2>5, Zenon
<1>5. InOrder(bridge) /\ NoneUpdates(bridge)
  <2>1. Core(bridge)
    BY <1>4, Zenon DEF Core
  <2> QED BY <1>2, <2>1, CoreStopped, Zenon
<1>6. run.phase = "idle"
  BY SMT DEF Init, Idle
<1>7. Scheduled
  BY <1>6, SMT DEF Scheduled
<1>8. Easy
  BY <1>2, Zenon DEF Easy, AtRest
<1>9. NoFrame(bridge)
  BY <1>4, CistIsTree, Zenon DEF NoFrame
<1> QED BY <1>5, <1>6, <1>7, <1>8, <1>9, Zenon DEF Settled

LEMMA NextSettles ==
  ASSUME Inv, Settled, [Next]_vars
  PROVE  Settled'
<1>1. TypeOK
  BY Zenon DEF Inv
<1>2. CASE vars' = vars
  <2>1. bridge' = bridge /\ run' = run
    BY <1>2, Zenon DEF vars
  <2> QED BY <2>1, Zenon DEF Settled, Scheduled, Easy, AtRest
<1>3. CASE RunStep
  BY <1>3, RunStepSettles, Zenon
<1>4. CASE ReceiveCall
  BY <1>1, <1>4, ReceiptSettles, Zenon DEF ReceiveCall
<1>5. CASE \/ StartBridge \/ StopBridge \/ OnOneSecondTick \/ LinkCall
           \/ EdgeCall \/ PriorityCall \/ ProtocolCall
  BY <1>1, <1>5, CallsSettle, Zenon DEF CallSettled
<1> QED BY <1>2, <1>3, <1>4, <1>5, Zenon DEF Next

(***************************************************************************)
(* Information, roles and hardware are in order in every state, and ports  *)
(* are at ease whenever the library has returned.                          *)
(***************************************************************************)
THEOREM SettledHolds == Spec => [](Inv /\ Settled)
<1>1. Init => Inv /\ Settled
  BY InitInv, InitSettles, Zenon
<1>2. (Inv /\ Settled) /\ [Next]_vars => (Inv /\ Settled)'
  <2> SUFFICES ASSUME Inv, Settled, [Next]_vars
               PROVE  Inv' /\ Settled'
    BY Zenon
  <2> QED BY NextInv, NextSettles, Zenon
<1> QED BY <1>1, <1>2, PTL DEF Spec

-----------------------------------------------------------------------------
(***************************************************************************)
(* What it says of the bridge at rest.                                     *)
(***************************************************************************)
LEMMA AtRestMeans ==
  ASSUME Settled, AtRest, NEW p \in Ports, NEW t \in TreesOf(bridge)
  PROVE  /\ AtEase(bridge, p, t) /\ PartFits(bridge, p, t) /\ t \in Trees
         /\ ~bridge.pt[p][t].updtInfo
         /\ cist(t) \/ bridge.pt[p][t].infoIs = "DISABLED" => RoleFits(bridge.pt[p][t])
<1>1. t \in Trees
  BY CistIsTree, Zenon DEF TreesOf
<1>2. AtEase(bridge, p, t) /\ PartFits(bridge, p, t)
  BY <1>1, Zenon DEF Settled, Easy, InOrder
<1>3. /\ bridge.tree[t].portRoleSelectionState = "ROLE_SELECTION"
      /\ ~bridge.pt[p][t].reselect /\ ~bridge.pt[p][t].updtInfo
  BY <1>2, Zenon DEF AtEase
<1>4. SelectionFits(bridge, p, t)
  BY <1>2, Zenon DEF PartFits, InfoFits
<1> QED BY <1>1, <1>2, <1>3, <1>4, Zenon DEF SelectionFits

\* A role goes with the information that the port holds.
LEMMA RoleOfEase ==
  ASSUME NEW b \in Bridge, NEW p \in Ports, NEW t \in TreesOf(b),
         AtEase(b, p, t), PartFits(b, p, t), cist(t) \/ ~b.port[p].portEnabled
  PROVE  LET x == b.pt[p][t]
         IN  /\ x.role = x.selectedRole
             /\ x.infoIs = "DISABLED" <=> ~b.port[p].portEnabled
             /\ \/ x.infoIs = "DISABLED" /\ x.role = "DISABLED"
                \/ x.infoIs = "MINE" /\ x.role = "DESIGNATED"
                \/ /\ x.infoIs = "RECEIVED" /\ x.role \in {"ROOT", "ALTERNATE", "BACKUP"}
                   /\ x.rcvdInfoWhile # 0
<1> DEFINE x == b.pt[p][t]
<1>1. /\ b.tree[t].portRoleSelectionState = "ROLE_SELECTION"
      /\ ~x.reselect /\ ~x.updtInfo /\ t \in Trees
  BY CistIsTree, Zenon DEF AtEase, TreesOf
<1>2. /\ x.role = x.selectedRole \/ x.selectedRole = "UNDEFINED"
      /\ x.infoIs = "DISABLED" <=> ~b.port[p].portEnabled
      /\ x.infoIs = "RECEIVED" => x.rcvdInfoWhile # 0
  BY Zenon DEF AtEase
<1>3. RoleFits(x)
  BY <1>1, <1>2, Zenon DEF PartFits, InfoFits, SelectionFits
<1>4. x.infoIs \in InfoIs
  BY <1>1, StatesOf, Zenon
<1>5. CASE x.infoIs = "DISABLED"
  <2>1. x.selectedRole = "DISABLED"
    BY <1>3, <1>5, SMT DEF RoleFits
  <2>2. x.role = "DISABLED"
    BY <1>2, <2>1, SMT
  <2> QED BY <1>2, <1>5, <2>1, <2>2, Zenon
<1>6. CASE x.infoIs = "MINE"
  <2>1. x.selectedRole = "DESIGNATED"
    BY <1>3, <1>6, SMT DEF RoleFits
  <2>2. x.role = "DESIGNATED"
    BY <1>2, <2>1, SMT
  <2> QED BY <1>2, <1>6, <2>1, <2>2, Zenon
<1>7. CASE x.infoIs = "RECEIVED"
  <2>1. x.selectedRole \in {"ROOT", "ALTERNATE", "BACKUP"}
    BY <1>1, <1>3, <1>7, SMT DEF RoleFits
  <2>2. x.role = x.selectedRole
    BY <1>2, <2>1, SMT
  <2> QED BY <1>2, <1>7, <2>1, <2>2, Zenon
<1>8. x.infoIs # "AGED"
  BY <1>1, <1>3, SMT DEF RoleFits
<1> QED BY <1>4, <1>5, <1>6, <1>7, <1>8, SMT DEF InfoIs

LEMMA RoleAtEase ==
  ASSUME TypeOK, Settled, AtRest, NEW p \in Ports, NEW t \in TreesOf(bridge),
         cist(t) \/ ~bridge.port[p].portEnabled
  PROVE  LET x == bridge.pt[p][t]
         IN  /\ x.role = x.selectedRole
             /\ x.infoIs = "DISABLED" <=> ~bridge.port[p].portEnabled
             /\ \/ x.infoIs = "DISABLED" /\ x.role = "DISABLED"
                \/ x.infoIs = "MINE" /\ x.role = "DESIGNATED"
                \/ /\ x.infoIs = "RECEIVED" /\ x.role \in {"ROOT", "ALTERNATE", "BACKUP"}
                   /\ x.rcvdInfoWhile # 0
  BY AtRestMeans, RoleOfEase, Zenon DEF TypeOK

(***************************************************************************)
(* Between calls only root, designated and master ports of live links      *)
(* learn or forward, in every tree, under every protocol version: the      *)
(* hardware does what learn and forward ask for, they ask for it only in   *)
(* an active role, and a port whose link is down has been given the        *)
(* Disabled role.                                                          *)
(***************************************************************************)
THEOREM OnlyActivePortsLearnHolds == Spec => []OnlyActivePortsLearn
<1>1. Inv /\ Settled => OnlyActivePortsLearn
  <2> SUFFICES ASSUME TypeOK, Settled, AtRest, NEW p \in Ports, NEW t \in TreesOf(bridge),
                      bridge.pt[p][t].learning \/ bridge.pt[p][t].forwarding
               PROVE  bridge.port[p].portEnabled /\ bridge.pt[p][t].role \in ActiveRoles
    BY Zenon DEF Inv, OnlyActivePortsLearn
  <2> DEFINE x == bridge.pt[p][t]
  <2>1. AtEase(bridge, p, t) /\ PartFits(bridge, p, t)
    BY AtRestMeans, Zenon
  <2>2. x.learn = x.learning /\ x.forward = x.forwarding
    BY <2>1, Zenon DEF AtEase
  <2>3. x.role \in ActiveRoles
    BY <2>1, <2>2, Zenon DEF PartFits, LearnFits
  <2>4. ASSUME ~bridge.port[p].portEnabled
        PROVE  FALSE
    <3>1. x.role = "DISABLED"
      BY <2>4, RoleAtEase, SMT
    <3> QED BY <2>3, <3>1, SMT DEF ActiveRoles
  <2> QED BY <2>3, <2>4, Zenon
<1> QED BY SettledHolds, <1>1, PTL

(***************************************************************************)
(* Whenever the library has returned, every port of a started bridge is at *)
(* ease, in every tree, under every protocol version.                      *)
(***************************************************************************)
THEOREM AtEaseHolds == Spec => []Easy
<1>1. Inv /\ Settled => Easy
  BY Zenon DEF Settled
<1> QED BY SettledHolds, <1>1, PTL

(***************************************************************************)
(* Then a port's role in the CIST is the one its information calls for,    *)
(* and information from a neighbour is on its way out: the CIST's part of  *)
(* InformationAges, under every protocol version.                          *)
(***************************************************************************)
CistInformationAges ==
  AtRest => \A p \in Ports :
    LET x == bridge.pt[p][CIST]
    IN  \/ x.role = "DISABLED" /\ ~bridge.port[p].portEnabled /\ x.infoIs = "DISABLED"
        \/ x.role = "DESIGNATED" /\ x.infoIs = "MINE"
        \/ x.role \in {"ROOT", "ALTERNATE", "BACKUP"} /\ Aging(x)

LEMMA SettledAges == TypeOK /\ Settled => CistInformationAges
<1> SUFFICES ASSUME TypeOK, Settled, AtRest, NEW p \in Ports
             PROVE  LET x == bridge.pt[p][CIST]
                    IN  \/ /\ x.role = "DISABLED" /\ ~bridge.port[p].portEnabled
                           /\ x.infoIs = "DISABLED"
                        \/ x.role = "DESIGNATED" /\ x.infoIs = "MINE"
                        \/ x.role \in {"ROOT", "ALTERNATE", "BACKUP"} /\ Aging(x)
  BY Zenon DEF CistInformationAges
<1>1. CIST \in TreesOf(bridge) /\ cist(CIST)
  BY CistIsTree, SMT DEF TreesOf, cist
<1> DEFINE x == bridge.pt[p][CIST]
<1>2. /\ x.infoIs = "DISABLED" <=> ~bridge.port[p].portEnabled
      /\ \/ x.infoIs = "DISABLED" /\ x.role = "DISABLED"
         \/ x.infoIs = "MINE" /\ x.role = "DESIGNATED"
         \/ /\ x.infoIs = "RECEIVED" /\ x.role \in {"ROOT", "ALTERNATE", "BACKUP"}
            /\ x.rcvdInfoWhile # 0
  BY <1>1, RoleAtEase, Zenon
<1>3. CASE x.infoIs = "DISABLED" /\ x.role = "DISABLED"
  BY <1>2, <1>3, Zenon DEF Aging
<1>4. CASE x.infoIs = "MINE" /\ x.role = "DESIGNATED"
  BY <1>4, Zenon DEF Aging
<1>5. CASE /\ x.infoIs = "RECEIVED" /\ x.role \in {"ROOT", "ALTERNATE", "BACKUP"}
           /\ x.rcvdInfoWhile # 0
  BY <1>5, Zenon DEF Aging
<1> QED BY <1>2, <1>3, <1>4, <1>5, Zenon

THEOREM CistInformationAgesHolds == Spec => []CistInformationAges
<1>1. Inv /\ Settled => CistInformationAges
  BY SettledAges, Zenon DEF Inv
<1> QED BY SettledHolds, <1>1, PTL

-----------------------------------------------------------------------------
(***************************************************************************)
(* A bridge that runs the CIST only: it was created without MSTIs, or no   *)
(* caller has it speak MSTP.  Then everything that is received belongs to  *)
(* the CIST.                                                               *)
(***************************************************************************)
CistOnly == NumMsti = 0 \/ MSTP \notin StpVersions

CistAlone(b) == NumMsti = 0 \/ b.ForceProtocolVersion # MSTP

LEMMA AloneMeans ==
  ASSUME NEW b \in Bridge, CistAlone(b)
  PROVE  TreesOf(b) = {CIST}
<1>1. CASE NumMsti = 0
  <2>1. Trees = {CIST}
    BY <1>1, SMT DEF Trees, CIST
  <2> QED BY <2>1, Zenon DEF TreesOf
<1>2. CASE b.ForceProtocolVersion # MSTP
  <2>1. b.ForceProtocolVersion \in Versions
    BY BridgeFields, Zenon
  <2>2. ASSUME NEW v \in Versions, v # MSTP
        PROVE  ~(v >= MSTP)
    BY <2>2, SMT DEF Versions, MSTP, RSTP, LEGACY_STP
  <2> QED BY <1>2, <2>1, <2>2, Zenon DEF TreesOf
<1> QED BY <1>1, <1>2, Zenon DEF CistAlone

\* No call makes it run other trees.
LEMMA AloneKept ==
  ASSUME CistOnly, NEW c, CistAlone(bridge), VersionKept(c)
  PROVE  CistAlone(c)
  BY Zenon DEF CistOnly, CistAlone, VersionKept

\* Whenever the library has returned no frame waits; during a run, one is in hand.
FrameFits ==
  /\ run.phase = "idle" => NoFrame(bridge)
  /\ FrameInHand(bridge) /\ CistAlone(bridge)

LEMMA NoneInHand ==
  ASSUME NEW b, NoFrame(b)
  PROVE  FrameInHand(b)
  BY Zenon DEF NoFrame, FrameInHand

\* Messages that fade stay in hand.
LEMMA StaysInHand ==
  ASSUME NEW b, NEW c, FrameInHand(b), SameOutside(b, c), MessagesFade(b, c)
  PROVE  FrameInHand(c)
  BY CistIsTree, Zenon DEF FrameInHand, SameOutside, AlikePort, MessagesFade

\* Port Receive gives the messages of the frame in hand, or drops it.
LEMMA PortReceiveInHand ==
  ASSUME TypeOK, FrameInHand(bridge), NEW p \in Ports, PortReceiveStep(p)
  PROVE  FrameInHand(bridge')
<1> DEFINE i == Instance("PortReceive", p, CIST)
<1>1. bridge \in Bridge
  BY Zenon DEF TypeOK
<1>2. i \in Instances /\ i.machine = "PortReceive" /\ i.port = p
  BY InstancesNamed, CistIsTree, Zenon DEF Instance
<1>3. Moves(i, EnterPortReceive(bridge, p))
  BY Zenon DEF PortReceiveStep
<1> HIDE DEF i
<1>4. Transition(bridge, i) # "NONE" /\ bridge' = EnterPortReceive(bridge, p)
  BY <1>2, <1>3, TurnsAre, Zenon
<1>5. PortReceiveNext(bridge, p) # "NONE"
  BY <1>2, <1>4, SMT DEF Transition
<1>6. /\ RolesUntouched(bridge, bridge')
      /\ PortReceiveNext(bridge, p) = "DISCARD" => Untouched(bridge, bridge')
  BY <1>1, <1>4, PortReceiveRolesUntouched, Zenon
<1>7. SameFrame(bridge, bridge')
  BY <1>6, Zenon DEF RolesUntouched
<1>8. CASE PortReceiveNext(bridge, p) = "DISCARD"
  <2>1. SameOutside(bridge, bridge') /\ MessagesFade(bridge, bridge')
    BY <1>6, <1>8, Zenon DEF Untouched, SameFrame, SameOutside, Fades, MessagesFade
  <2> QED BY <2>1, StaysInHand, Zenon
<1>9. CASE PortReceiveNext(bridge, p) # "DISCARD"
  <2>1. bridge.port[p].rcvdBpdu
    BY <1>5, <1>9, SMT DEF PortReceiveNext
  <2>2. bridge'.receivedBpdu # NoBpdu
    BY <1>7, <2>1, Zenon DEF FrameInHand, SameFrame
  <2>3. \A q \in Ports : bridge'.port[q].rcvdBpdu => bridge'.port[q].portEnabled
    BY <1>7, Zenon DEF FrameInHand, SameFrame, AlikePort
  <2> QED BY <2>2, <2>3, Zenon DEF FrameInHand
<1> QED BY <1>8, <1>9

LEMMA MachineStepInHand ==
  ASSUME TypeOK, InOrder(bridge), bridge.started, Scheduled, FrameInHand(bridge), MachineStep
  PROVE  FrameInHand(bridge')
<1>1. ASSUME Orderly(bridge, bridge'), MessagesFade(bridge, bridge')
      PROVE  FrameInHand(bridge')
  BY <1>1, StaysInHand, Zenon DEF Orderly
<1>2. CASE \E p \in Ports : PortReceiveStep(p)
  BY <1>2, PortReceiveInHand, Zenon
<1>3. CASE \E p \in Ports : PortTimersStep(p) \/ ProtocolMigrationStep(p) \/ BridgeDetectionStep(p)
  BY <1>1, <1>3, PortMachineOrderly, Zenon
<1>4. CASE \E p \in Ports, t \in Trees : \/ PortInformationStep(p, t) \/ RoleTransitionsStep(p, t)
                                         \/ StateTransitionStep(p, t) \/ TopologyChangeStep(p, t)
  BY <1>1, <1>4, TreeMachineOrderly, Zenon
<1>5. CASE \E t \in Trees : RoleSelectionStep(t)
  BY <1>1, <1>5, SelectionOrderly, Zenon
<1> QED BY <1>2, <1>3, <1>4, <1>5, Zenon DEF MachineStep

\* When the machines rest the frame has been read.
LEMMA NothingLeft ==
  ASSUME NEW b \in Bridge, InOrder(b), b.started, ~b.BEGIN, NoneReady(b),
         FrameInHand(b), CistAlone(b)
  PROVE  NoFrame(b)
<1>1. ASSUME NEW p \in Ports
      PROVE  ~b.port[p].rcvdBpdu /\ ~b.pt[p][CIST].rcvdMsg
  <2>1. ~b.pt[p][CIST].rcvdMsg
    BY MessagesRead, Zenon
  <2>2. ~rcvdAnyMsg(b, p)
    <3>1. TreesOf(b) = {CIST}
      BY AloneMeans, Zenon
    <3> QED BY <2>1, <3>1, Zenon DEF rcvdAnyMsg
  <2>3. CIST \in TreesOf(b)
    BY CistIsTree, Zenon DEF TreesOf
  <2>4. PortReceiveNext(b, p) = "NONE"
    BY <2>3, NoneReadyMeans, Zenon
  <2>5. b.port[p].rcvdBpdu => b.port[p].portEnabled
    BY Zenon DEF FrameInHand
  <2>6. ASSUME b.port[p].rcvdBpdu, b.port[p].portEnabled
        PROVE  FALSE
    BY <2>2, <2>4, <2>6, SMT DEF PortReceiveNext
  <2> QED BY <2>1, <2>5, <2>6, Zenon
<1> QED BY <1>1, Zenon DEF NoFrame

\* The calls begin when the last one has returned.
LEMMA CallsFromIdle ==
  ASSUME \/ StartBridge \/ StopBridge \/ OnOneSecondTick \/ LinkCall
         \/ EdgeCall \/ PriorityCall \/ ProtocolCall
  PROVE  run = Idle
<1>1. LinkCall \/ EdgeCall => run = Idle
  BY Zenon DEF LinkCall, OnPortEnabled, OnPortDisabled,
     EdgeCall, SetPortAdminEdge, SetPortAutoEdge, SetAdminPointToPointMAC
<1>2. PriorityCall => run = Idle
  BY Zenon DEF PriorityCall, SetBridgeAddress, SetBridgeMaxAge, SetBridgeForwardDelay,
     SetBridgePriority, SetPortPriority, SetAdminInternalPortPathCost,
     SetAdminExternalPortPathCost
<1>3. ProtocolCall => run = Idle
  BY Zenon DEF ProtocolCall, SetTxHoldCount, SetStpVersion, SetMstConfigId
<1> QED BY <1>1, <1>2, <1>3, Zenon DEF StartBridge, StopBridge, OnOneSecondTick

-----------------------------------------------------------------------------
LEMMA RunStepInHand ==
  ASSUME Inv, Settled, FrameFits, RunStep
  PROVE  FrameInHand(bridge') /\ CistAlone(bridge') /\ (run'.phase = "idle" => NoFrame(bridge'))
<1>1. /\ TypeOK /\ Quiet /\ InOrder(bridge) /\ Scheduled
      /\ FrameInHand(bridge) /\ CistAlone(bridge)
      /\ run.phase # "idle" => bridge.started
      /\ run.phase = "transmit" => NoneReady(bridge)
  BY Zenon DEF Inv, Quiet, NoneReady, Settled, FrameFits
<1>2. bridge \in Bridge
  BY <1>1, Zenon DEF TypeOK
<1>3. /\ Idle.phase = "idle" /\ StartPass.phase # "idle" /\ StartTx.phase # "idle"
  BY SMT DEF Idle, StartPass, StartTx
<1>4. TransmitDone => run.phase = "transmit" /\ run.phase # "idle"
  BY SMT DEF TransmitDone
<1>5. CASE MachineStep
  <2>1. run.phase = "machines"
    BY <1>5, StepsAreTurns, Zenon DEF Turn
  <2>2. bridge.started
    BY <1>1, <2>1, SMT
  <2>3. Orderly(bridge, bridge') /\ run'.phase = "machines"
    BY <1>1, <1>5, <2>2, MachineStepOrderly, Zenon
  <2>4. FrameInHand(bridge')
    BY <1>1, <1>5, <2>2, MachineStepInHand, Zenon
  <2>5. CistAlone(bridge')
    BY <1>1, <2>3, Zenon DEF Orderly, SameOutside, CistAlone
  <2>6. run'.phase # "idle"
    BY <2>3, SMT
  <2> QED BY <2>4, <2>5, <2>6, Zenon
<1>6. CASE EndOfPass \/ TransmitAgain
  BY <1>1, <1>3, <1>6, Zenon DEF EndOfPass, TransmitAgain
<1>7. CASE \E p \in Ports : PortTransmitStep(p)
  <2>1. PICK p \in Ports : PortTransmitStep(p)
    BY <1>7
  <2>2. OnlyTransmits(bridge, bridge') /\ run'.phase = "transmit"
    BY <1>1, <2>1, PortTransmitStepLeaves, Zenon
  <2>3. Untouched(bridge, bridge')
    BY <2>2, TransmitUntouched, Zenon
  <2>4. SameOutside(bridge, bridge') /\ MessagesFade(bridge, bridge')
    BY <2>3, Zenon DEF Untouched, SameFrame, SameOutside, Fades, MessagesFade
  <2>5. FrameInHand(bridge') /\ CistAlone(bridge')
    BY <1>1, <2>4, StaysInHand, Zenon DEF SameOutside, CistAlone
  <2>6. run'.phase # "idle"
    BY <2>2, SMT
  <2> QED BY <2>5, <2>6, Zenon
<1>8. CASE BeginEnds
  <2>1. bridge' = [bridge EXCEPT !.BEGIN = FALSE] /\ run' = StartPass
    BY <1>8, Zenon DEF BeginEnds
  <2>2. /\ bridge'.port = bridge.port /\ bridge'.pt = bridge.pt
        /\ bridge'.receivedBpdu = bridge.receivedBpdu
        /\ bridge'.ForceProtocolVersion = bridge.ForceProtocolVersion
    BY <1>2, <2>1, ZenonT(60) DEF Bridge
  <2>3. run'.phase # "idle"
    BY <1>3, <2>1, Zenon
  <2>4. FrameInHand(bridge')
    BY <1>1, <2>2, Zenon DEF FrameInHand
  <2>5. CistAlone(bridge')
    BY <1>1, <2>2, Zenon DEF CistAlone
  <2> QED BY <2>3, <2>4, <2>5, Zenon
<1>9. CASE CallReturns
  <2>1. /\ TransmitDone /\ ~bridge.BEGIN
        /\ bridge' = [bridge EXCEPT !.receivedBpdu = NoBpdu, !.tx = << >>]
    BY <1>9, Zenon DEF CallReturns
  <2>2. /\ bridge'.port = bridge.port /\ bridge'.pt = bridge.pt
        /\ bridge'.ForceProtocolVersion = bridge.ForceProtocolVersion
    BY <1>2, <2>1, ZenonT(60) DEF Bridge
  <2>3. NoFrame(bridge)
    BY <1>1, <1>2, <1>4, <2>1, NothingLeft, Zenon
  <2>4. NoFrame(bridge')
    BY <2>2, <2>3, Zenon DEF NoFrame
  <2>5. CistAlone(bridge')
    BY <1>1, <2>2, Zenon DEF CistAlone
  <2> QED BY <2>4, <2>5, NoneInHand, Zenon
<1> QED BY <1>5, <1>6, <1>7, <1>8, <1>9, Zenon DEF RunStep

LEMMA NextInHand ==
  ASSUME CistOnly, Inv, Settled, FrameFits, [Next]_vars
  PROVE  FrameFits'
<1>1. TypeOK /\ CistAlone(bridge)
  BY Zenon DEF Inv, FrameFits
<1>2. ASSUME FrameInHand(bridge'), CistAlone(bridge'), run'.phase = "idle" => NoFrame(bridge')
      PROVE  FrameFits'
  BY <1>2, Zenon DEF FrameFits, FrameInHand, CistAlone, NoFrame
<1>3. CASE vars' = vars
  <2>1. bridge' = bridge /\ run' = run
    BY <1>3, Zenon DEF vars
  <2> QED BY <1>2, <2>1, Zenon DEF FrameFits
<1>4. CASE RunStep
  BY <1>2, <1>4, RunStepInHand, Zenon
<1>5. ASSUME run = Idle
      PROVE  NoFrame(bridge)
  BY <1>5, SMT DEF FrameFits, Idle
<1>6. CASE ReceiveCall
  <2>1. PICK p \in Ports : OnBpduReceived(p)
    BY <1>6, Zenon DEF ReceiveCall
  <2>2. NoFrame(bridge)
    BY <1>5, <2>1, Zenon DEF OnBpduReceived
  <2>3. FrameInHand(bridge') /\ run'.phase # "idle" /\ VersionKept(bridge')
    BY <1>1, <2>1, <2>2, ReceiptSettles, Zenon
  <2>4. CistAlone(bridge')
    BY <1>1, <2>3, AloneKept, Zenon
  <2> QED BY <1>2, <2>3, <2>4, Zenon
<1>7. CASE \/ StartBridge \/ StopBridge \/ OnOneSecondTick \/ LinkCall
           \/ EdgeCall \/ PriorityCall \/ ProtocolCall
  <2>1. CallSettled
    BY <1>1, <1>7, CallsSettle, Zenon
  <2>2. run = Idle
    BY <1>7, CallsFromIdle, Zenon
  <2>3. NoFrame(bridge') /\ VersionKept(bridge')
    BY <1>5, <2>1, <2>2, Zenon DEF CallSettled
  <2>4. CistAlone(bridge') /\ FrameInHand(bridge')
    BY <1>1, <2>3, AloneKept, NoneInHand, Zenon
  <2> QED BY <1>2, <2>3, <2>4, Zenon
<1> QED BY <1>3, <1>4, <1>6, <1>7, Zenon DEF Next

LEMMA FrameFitsHolds ==
  ASSUME CistOnly
  PROVE  Spec => [](Inv /\ Settled /\ FrameFits)
<1>1. Init => FrameFits
  <2> SUFFICES ASSUME Init
               PROVE  FrameFits
    OBVIOUS
  <2>1. NoFrame(bridge)
    BY InitSettles, Zenon
  <2>2. CistAlone(bridge)
    <3>1. PICK address \in Addresses : bridge = CreateBridge(address)
      BY Zenon DEF Init
    <3>2. bridge.ForceProtocolVersion = RSTP
      BY <3>1, SMT DEF CreateBridge
    <3> QED BY <3>2, SMT DEF CistAlone, RSTP, MSTP
  <2> QED BY <2>1, <2>2, NoneInHand, Zenon DEF FrameFits
<1>2. Init => Inv /\ Settled
  BY InitInv, InitSettles, Zenon
<1>3. (Inv /\ Settled /\ FrameFits) /\ [Next]_vars => (Inv /\ Settled /\ FrameFits)'
  BY NextInv, NextSettles, NextInHand, Zenon
<1> QED BY <1>1, <1>2, <1>3, PTL DEF Spec

-----------------------------------------------------------------------------
(***************************************************************************)
(* BpduInHand of a bridge that runs the CIST only: no machine reads a      *)
(* message once the frame it came in is gone.  OnBpduReceived lends the    *)
(* frame for one run, and the run reads it to the end.                     *)
(***************************************************************************)
THEOREM BpduInHandHolds ==
  ASSUME CistOnly
  PROVE  Spec => []BpduInHand
<1>1. Inv /\ Settled /\ FrameFits => BpduInHand
  <2> SUFFICES ASSUME TypeOK, FrameFits, NEW p \in Ports,
                      bridge.port[p].rcvdBpdu \/ rcvdAnyMsg(bridge, p)
               PROVE  bridge.receivedBpdu # NoBpdu
    BY Zenon DEF Inv, BpduInHand
  <2>1. TreesOf(bridge) = {CIST}
    BY AloneMeans, Zenon DEF FrameFits, TypeOK
  <2>2. bridge.port[p].rcvdBpdu \/ bridge.pt[p][CIST].rcvdMsg
    BY <2>1, Zenon DEF rcvdAnyMsg
  <2> QED BY <2>2, Zenon DEF FrameFits, FrameInHand
<1> QED BY FrameFitsHolds, <1>1, PTL

(***************************************************************************)
(* NothingPending of such a bridge: when a call has returned no event, no  *)
(* message, no new selection, role or hardware setting is left to a later  *)
(* call.                                                                   *)
(***************************************************************************)
THEOREM NothingPendingHolds ==
  ASSUME CistOnly
  PROVE  Spec => []NothingPending
<1>1. Inv /\ Settled /\ FrameFits => NothingPending
  <2> SUFFICES ASSUME TypeOK, Settled, FrameFits, AtRest, NEW p \in Ports
               PROVE  PortIsSettled(p)
    BY Zenon DEF Inv, NothingPending
  <2>1. CIST \in TreesOf(bridge) /\ cist(CIST) /\ TreesOf(bridge) = {CIST}
    BY AloneMeans, Zenon DEF FrameFits, TypeOK, cist
  <2>2. AtEase(bridge, p, CIST)
    BY <2>1, AtRestMeans, Zenon
  <2>3. bridge.pt[p][CIST].role = bridge.pt[p][CIST].selectedRole
    BY <2>1, RoleAtEase, Zenon
  <2>4. ~bridge.port[p].rcvdBpdu
    BY SMT DEF FrameFits, NoFrame, AtRest, Idle
  <2>5. ASSUME NEW t \in TreesOf(bridge)
        PROVE  t = CIST
    BY <2>1, Zenon
  <2> QED BY <2>1, <2>2, <2>3, <2>4, <2>5, Zenon DEF PortIsSettled, AtEase
<1> QED BY FrameFitsHolds, <1>1, PTL

(***************************************************************************)
(* InformationAges of such a bridge: a root, alternate or backup port has  *)
(* its timer running, so a neighbour that falls silent is forgotten.       *)
(***************************************************************************)
THEOREM InformationAgesHolds ==
  ASSUME CistOnly
  PROVE  Spec => []InformationAges
<1>1. Inv /\ Settled /\ FrameFits => InformationAges
  <2> SUFFICES ASSUME TypeOK, Settled, FrameFits
               PROVE  InformationAges
    BY Zenon DEF Inv
  <2>1. TreesOf(bridge) = {CIST}
    BY AloneMeans, Zenon DEF FrameFits, TypeOK
  <2>2. CistInformationAges
    BY SettledAges, Zenon
  <2>3. ASSUME NEW t \in TreesOf(bridge)
        PROVE  t = CIST
    BY <2>1, Zenon
  <2> QED BY <2>2, <2>3, Zenon DEF CistInformationAges, InformationAges
<1> QED BY FrameFitsHolds, <1>1, PTL

-----------------------------------------------------------------------------
(***************************************************************************)
(* What a frame says of the port it leaves from.                           *)
(***************************************************************************)
Transmitting == {"TRANSMIT_CONFIG", "TRANSMIT_TCN", "TRANSMIT_RSTP"}

\* Nothing is sent in the other states, and a frame is sent from the port itself.
LEMMA EnterSends ==
  ASSUME NEW b \in Bridge, NEW p \in Ports
  PROVE  LET c == EnterPortTransmit(b, p)
         IN  \/ c.tx = b.tx
             \/ /\ PortTransmitNext(b, p) \in Transmitting
                /\ \E bpdu : c.tx = Append(b.tx, [port |-> p, bpdu |-> bpdu])
<1> DEFINE y     == b.port[p]
           state == PortTransmitNext(b, p)
           e     == PortTransmitEnter(b, p, state)
<1>1. ASSUME NEW c \in Bridge, NEW z
      PROVE  SetPort(c, p, z).tx = c.tx
  BY ZenonT(60) DEF Bridge, SetPort
<1>2. ASSUME NEW bpdu
      PROVE  Send(b, p, bpdu).tx = Append(b.tx, [port |-> p, bpdu |-> bpdu])
  BY ZenonT(60) DEF Bridge, Send
<1>3. \/ \E z : e = SetPort(b, p, z)
      \/ state \in Transmitting
           /\ \E d \in {txConfig(b, p), txTcn(b, p), txRstp(b, p)} : \E z : e = SetPort(d, p, z)
  BY ZenonT(60) DEF PortTransmitEnter, Transmitting
<1>4. ASSUME NEW d \in {txConfig(b, p), txTcn(b, p), txRstp(b, p)}
      PROVE  d \in Bridge /\ \E bpdu : d.tx = Append(b.tx, [port |-> p, bpdu |-> bpdu])
  <2>1. d \in Bridge
    BY txConfigTyped, txTcnTyped, txRstpTyped, Zenon
  <2>2. \E bpdu : d = Send(b, p, bpdu)
    BY Zenon DEF txConfig, txTcn, txRstp
  <2> QED BY <1>2, <2>1, <2>2, Zenon
<1>5. \/ e.tx = b.tx
      \/ /\ state \in Transmitting
         /\ \E bpdu : e.tx = Append(b.tx, [port |-> p, bpdu |-> bpdu])
  BY <1>1, <1>3, <1>4, Zenon
<1>6. e \in Bridge
  BY PortTransmitEnterTyped, Zenon
<1>7. EnterPortTransmit(b, p) = SetPort(e, p, [e.port[p] EXCEPT !.portTransmitState = state])
  BY DEF EnterPortTransmit
<1> HIDE DEF e, state
<1>8. EnterPortTransmit(b, p).tx = e.tx
  BY <1>1, <1>6, <1>7, Zenon
<1> QED BY <1>5, <1>8, Zenon DEF state

\* The step that sends a frame from port p.
SendingStep(p) ==
  /\ PortTransmitStep(p) /\ PortTransmitNext(bridge, p) \in Transmitting
  /\ bridge'.tx[Len(bridge'.tx)].port = p

LEMMA StepSends ==
  ASSUME bridge \in Bridge, NEW p \in Ports, PortTransmitStep(p), Sends(bridge, bridge')
  PROVE  SendingStep(p)
<1> DEFINE c == EnterPortTransmit(bridge, p)
<1>1. PICK sent \in BOOLEAN : bridge' = [c EXCEPT !.tx = IF sent THEN c.tx ELSE bridge.tx]
  BY Zenon DEF PortTransmitStep
<1>2. c \in Bridge
  BY PortTransmitTyped, Zenon
<1>3. \/ c.tx = bridge.tx
      \/ /\ PortTransmitNext(bridge, p) \in Transmitting
         /\ \E bpdu : c.tx = Append(bridge.tx, [port |-> p, bpdu |-> bpdu])
  BY EnterSends, Zenon
<1> HIDE DEF c
<1>4. bridge'.tx = IF sent THEN c.tx ELSE bridge.tx
  BY <1>1, <1>2, ZenonT(60) DEF Bridge
<1>5. bridge.tx \in Seq([port : Ports, bpdu : Bpdu])
  BY BridgeFields, Zenon
<1>6. bridge'.tx # bridge.tx
  <2>1. Len(bridge.tx) \in Nat
    BY <1>5, SMT
  <2>2. ASSUME NEW n \in Nat
        PROVE  ~(n > n)
    BY SMT
  <2> QED BY <2>1, <2>2, Zenon DEF Sends
<1>7. PICK bpdu : /\ PortTransmitNext(bridge, p) \in Transmitting
                  /\ bridge'.tx = Append(bridge.tx, [port |-> p, bpdu |-> bpdu])
  BY <1>3, <1>4, <1>6, Zenon
<1>8. ASSUME NEW S, NEW s \in Seq(S), NEW f
      PROVE  Append(s, f)[Len(Append(s, f))] = f
  <2>1. s \in Seq(S \cup {f})
    BY SMT
  <2>2. ASSUME NEW T, NEW w \in Seq(T), NEW e \in T
        PROVE  Append(w, e)[Len(Append(w, e))] = e
    BY SMT
  <2> QED BY <2>1, <2>2, Zenon
<1>9. bridge'.tx[Len(bridge'.tx)] = [port |-> p, bpdu |-> bpdu]
  BY <1>5, <1>7, <1>8, Zenon
<1>10. bridge'.tx[Len(bridge'.tx)].port = p
  <2>1. [port |-> p, bpdu |-> bpdu].port = p
    OBVIOUS
  <2> QED BY <1>9, <2>1, SMT
<1> QED BY <1>7, <1>10, Zenon DEF SendingStep

\* Only Port Transmit makes the list of frames longer.
LEMMA SomeoneSends ==
  ASSUME Inv, [Next]_vars, Sends(bridge, bridge')
  PROVE  \E p \in Ports : PortTransmitStep(p)
<1>1. TypeOK /\ bridge \in Bridge /\ run \in Run /\ Fits(bridge)
  BY Zenon DEF Inv, TypeOK
<1>2. bridge'.tx # bridge.tx /\ bridge'.tx # << >>
  <2>1. bridge.tx \in Seq([port : Ports, bpdu : Bpdu])
    BY <1>1, BridgeFields, Zenon
  <2>2. Len(bridge.tx) \in Nat /\ Len(<< >>) = 0
    BY <2>1, SMT
  <2>3. ASSUME NEW n \in Nat
        PROVE  ~(n > n) /\ ~(0 > n)
    BY SMT
  <2> QED BY <2>2, <2>3, Zenon DEF Sends
<1>3. ~CallLeaves
  BY <1>2, Zenon DEF CallLeaves, Harmless
<1>4. ~MachineStep
  BY <1>1, <1>2, MachineStepLeaves, Zenon DEF Harmless
<1>5. ~EndOfPass /\ ~TransmitAgain /\ vars' # vars
  BY <1>2, Zenon DEF EndOfPass, TransmitAgain, vars
<1>6. ~BeginEnds
  <2>1. [bridge EXCEPT !.BEGIN = FALSE].tx = bridge.tx
    BY <1>1, ZenonT(60) DEF Bridge
  <2> QED BY <1>2, <2>1, Zenon DEF BeginEnds
<1>7. ~CallReturns
  <2>1. [bridge EXCEPT !.receivedBpdu = NoBpdu, !.tx = << >>].tx = << >>
    BY <1>1, ZenonT(60) DEF Bridge
  <2> QED BY <1>2, <2>1, Zenon DEF CallReturns
<1>8. RunStep
  BY <1>1, <1>3, <1>5, EventsLeave, EdgeCallLeaves, PriorityCallLeaves, ProtocolCallLeaves, Zenon
     DEF Next
<1> QED BY <1>4, <1>5, <1>6, <1>7, <1>8, Zenon DEF RunStep

LEMMA SendsNamed ==
  ASSUME CistOnly, Inv, Settled, FrameFits, [Next]_vars, Sends(bridge, bridge'),
         NEW t \in TreesOf(bridge)
  PROVE  bridge.pt[bridge'.tx[Len(bridge'.tx)].port][t].role
           \in {"ROOT", "DESIGNATED", "ALTERNATE", "BACKUP"}
<1>1. /\ TypeOK /\ Quiet /\ InOrder(bridge) /\ bridge \in Bridge
      /\ run.phase # "idle" => bridge.started
      /\ run.phase = "transmit" => NoneReady(bridge)
      /\ TreesOf(bridge) = {CIST}
  BY AloneMeans, Zenon DEF Inv, Quiet, NoneReady, Settled, FrameFits, TypeOK
<1>2. PICK p \in Ports : PortTransmitStep(p)
  BY SomeoneSends, Zenon
<1>3. SendingStep(p)
  BY <1>1, <1>2, StepSends, Zenon
<1>4. run.phase = "transmit" /\ run.phase # "idle"
  BY <1>2, SMT DEF PortTransmitStep
<1>5. bridge.port[p].portEnabled /\ ~bridge.BEGIN
  BY <1>3, SMT DEF SendingStep, Transmitting, PortTransmitNext
<1>6. CIST \in TreesOf(bridge) /\ CIST \in Trees /\ cist(CIST) /\ t = CIST
  BY <1>1, CistIsTree, Zenon DEF cist
<1>7. AtEase(bridge, p, CIST) /\ PartFits(bridge, p, CIST)
  BY <1>1, <1>4, <1>5, <1>6, RestIsEase, Zenon DEF InOrder
<1> DEFINE x == bridge.pt[p][CIST]
<1>8. /\ x.infoIs = "DISABLED" <=> ~bridge.port[p].portEnabled
      /\ \/ x.infoIs = "DISABLED" /\ x.role = "DISABLED"
         \/ x.infoIs = "MINE" /\ x.role = "DESIGNATED"
         \/ /\ x.infoIs = "RECEIVED" /\ x.role \in {"ROOT", "ALTERNATE", "BACKUP"}
            /\ x.rcvdInfoWhile # 0
  BY <1>1, <1>6, <1>7, RoleOfEase, Zenon
<1>9. x.role \in {"ROOT", "DESIGNATED", "ALTERNATE", "BACKUP"}
  BY <1>5, <1>8, Zenon
<1> QED BY <1>3, <1>6, <1>9, Zenon DEF SendingStep

(***************************************************************************)
(* SendsNamedRoles of such a bridge: a frame leaves only from a port whose *)
(* role a BPDU can name, so the assertion of GetBpduPortRole holds.        *)
(***************************************************************************)
THEOREM SendsNamedRolesHolds ==
  ASSUME CistOnly
  PROVE  Spec => SendsNamedRoles
<1> DEFINE A == Sends(bridge, bridge') =>
                  \A t \in TreesOf(bridge) :
                    bridge.pt[bridge'.tx[Len(bridge'.tx)].port][t].role \in
                      {"ROOT", "DESIGNATED", "ALTERNATE", "BACKUP"} \cup IF cist(t) THEN {} ELSE {"MASTER"}
<1>1. (Inv /\ Settled /\ FrameFits) /\ [Next]_vars => [A]_vars
  BY SendsNamed, Zenon
<1> QED BY FrameFitsHolds, <1>1, PTL DEF Spec, SendsNamedRoles

=============================================================================
