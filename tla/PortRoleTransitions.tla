------------------------- MODULE PortRoleTransitions ------------------------
(***************************************************************************)
(* Port Role Transitions state machine, one per port and tree (13.37;      *)
(* stp_sm_port_role_transitions.cpp).  The exits of each state are listed  *)
(* in the order in which the code tries them.                              *)
(***************************************************************************)
EXTENDS StpProcedures

\* the state that gives a port the role it was selected for
EntryState(role) ==
  CASE role = "DISABLED"               -> "DISABLE_PORT"
    [] role = "MASTER"                 -> "MASTER_PORT"
    [] role = "ROOT"                   -> "ROOT_PORT"
    [] role = "DESIGNATED"             -> "DESIGNATED_PORT"
    [] role \in {"ALTERNATE", "BACKUP"} -> "BLOCK_PORT"
    [] OTHER                           -> "NONE"

\* a port that has been told to sync, to retire a recent root, or is disputed
MustDiscard(x) == \/ x.sync /\ ~x.synced
                  \/ x.reRoot /\ x.rrWhile # 0
                  \/ x.disputed

CanSync(x, y) == \/ ~x.learning /\ ~x.forwarding /\ ~x.synced
                 \/ x.agreed /\ ~x.synced
                 \/ y.operEdge /\ ~x.synced
                 \/ x.sync /\ x.synced

DisabledPortExit(b, p, t) ==
  LET x == b.pt[p][t]
  IN  IF x.fdWhile # MaxAge(b, p) \/ x.sync \/ x.reRoot \/ ~x.synced
      THEN "DISABLED_PORT" ELSE "NONE"

MasterPortExit(b, p, t) ==
  LET x      == b.pt[p][t]
      y      == b.port[p]
      synced == allSynced(b, p, t)
      ready  == x.fdWhile = 0 \/ synced
  IN  IF MustDiscard(x) /\ ~y.operEdge /\ (x.learn \/ x.forward) THEN "MASTER_DISCARD"
      ELSE IF ready /\ ~x.learn THEN "MASTER_LEARN"
      ELSE IF ready /\ ~x.forward THEN "MASTER_FORWARD"
      ELSE IF x.proposed /\ ~x.agree THEN "MASTER_PROPOSED"
      ELSE IF (synced /\ ~x.agree) \/ (x.proposed /\ x.agree) THEN "MASTER_AGREED"
      ELSE IF CanSync(x, y) THEN "MASTER_SYNCED"
      ELSE IF x.reRoot /\ x.rrWhile = 0 THEN "MASTER_RETIRED"
      ELSE "NONE"

RootPortExit(b, p, t) ==
  LET x     == b.pt[p][t]
      ready == \/ x.fdWhile = 0
               \/ reRooted(b, p, t) /\ x.rbWhile = 0 /\ rstpVersion(b)
  IN  IF x.proposed /\ ~x.agree THEN "ROOT_PROPOSED"
      ELSE IF (allSynced(b, p, t) /\ ~x.agree) \/ (x.proposed /\ x.agree) THEN "ROOT_AGREED"
      ELSE IF (x.agreed /\ ~x.synced) \/ (x.sync /\ x.synced) THEN "ROOT_SYNCED"
      ELSE IF ~x.forward /\ x.rbWhile = 0 /\ ~x.reRoot THEN "REROOT"
      ELSE IF x.rrWhile # FwdDelay(b, p) THEN "ROOT_PORT"
      ELSE IF x.disputed THEN "ROOT_DISCARD"
      ELSE IF x.reRoot /\ x.forward THEN "REROOTED"
      ELSE IF ready /\ ~x.learn THEN "ROOT_LEARN"
      ELSE IF ready /\ ~x.forward THEN "ROOT_FORWARD"
      ELSE "NONE"

DesignatedPortExit(b, p, t) ==
  LET x     == b.pt[p][t]
      y     == b.port[p]
      ready == /\ x.fdWhile = 0 \/ x.agreed \/ y.operEdge
               /\ x.rrWhile = 0 \/ ~x.reRoot
               /\ ~x.sync /\ ~y.isolate
  IN  IF ~x.forward /\ ~x.agreed /\ ~x.proposing /\ ~y.operEdge THEN "DESIGNATED_PROPOSE"
      ELSE IF allSynced(b, p, t) /\ (x.proposed \/ ~x.agree) THEN "DESIGNATED_AGREE"
      ELSE IF CanSync(x, y) THEN "DESIGNATED_SYNCED"
      ELSE IF x.reRoot /\ x.rrWhile = 0 THEN "DESIGNATED_RETIRED"
      ELSE IF (MustDiscard(x) \/ y.isolate) /\ ~y.operEdge /\ (x.learn \/ x.forward)
      THEN "DESIGNATED_DISCARD"
      ELSE IF ready /\ ~x.learn THEN "DESIGNATED_LEARN"
      ELSE IF ready /\ ~x.forward THEN "DESIGNATED_FORWARD"
      ELSE "NONE"

AlternatePortExit(b, p, t) ==
  LET x == b.pt[p][t]
  IN  IF x.proposed /\ ~x.agree THEN "ALTERNATE_PROPOSED"
      ELSE IF (allSynced(b, p, t) /\ ~x.agree) \/ (x.proposed /\ x.agree) THEN "ALTERNATE_AGREED"
      ELSE IF x.fdWhile # forwardDelay(b, p) \/ x.sync \/ x.reRoot \/ ~x.synced
      THEN "ALTERNATE_PORT"
      ELSE IF x.rbWhile # 2 * HelloTime(b, p) /\ x.role = "BACKUP" THEN "BACKUP_PORT"
      ELSE "NONE"

\* the states left only when the port's role is selected and its information up to date
GuardedExit(b, p, t) ==
  LET x       == b.pt[p][t]
      stopped == ~x.learning /\ ~x.forwarding
      state   == x.portRoleTransitionsState
  IN  CASE state = "DISABLE_PORT"    -> IF stopped THEN "DISABLED_PORT" ELSE "NONE"
        [] state = "BLOCK_PORT"      -> IF stopped THEN "ALTERNATE_PORT" ELSE "NONE"
        [] state = "DISABLED_PORT"   -> DisabledPortExit(b, p, t)
        [] state = "MASTER_PORT"     -> MasterPortExit(b, p, t)
        [] state = "ROOT_PORT"       -> RootPortExit(b, p, t)
        [] state = "DESIGNATED_PORT" -> DesignatedPortExit(b, p, t)
        [] state = "ALTERNATE_PORT"  -> AlternatePortExit(b, p, t)
        [] OTHER                     -> "NONE"

MasterSteps     == {"MASTER_PROPOSED", "MASTER_AGREED", "MASTER_SYNCED", "MASTER_RETIRED",
                    "MASTER_FORWARD", "MASTER_LEARN", "MASTER_DISCARD"}
RootSteps       == {"ROOT_PROPOSED", "ROOT_AGREED", "ROOT_SYNCED", "REROOT", "ROOT_FORWARD",
                    "ROOT_LEARN", "REROOTED", "ROOT_DISCARD"}
DesignatedSteps == {"DESIGNATED_PROPOSE", "DESIGNATED_AGREE", "DESIGNATED_SYNCED",
                    "DESIGNATED_RETIRED", "DESIGNATED_FORWARD", "DESIGNATED_LEARN",
                    "DESIGNATED_DISCARD"}
AlternateSteps  == {"ALTERNATE_PROPOSED", "ALTERNATE_AGREED", "BACKUP_PORT"}

RoleTransitionsNext(b, p, t) ==
  LET x       == b.pt[p][t]
      state   == x.portRoleTransitionsState
      current == x.selected /\ ~x.updtInfo
  IN  IF b.BEGIN THEN IF state = "INIT_PORT" THEN "NONE" ELSE "INIT_PORT"
      ELSE IF current /\ x.role # x.selectedRole /\ x.selectedRole # "UNDEFINED"
      THEN EntryState(x.selectedRole)
      ELSE CASE state = "INIT_PORT"         -> "DISABLE_PORT"
             [] state \in MasterSteps       -> "MASTER_PORT"
             [] state \in RootSteps         -> "ROOT_PORT"
             [] state \in DesignatedSteps   -> "DESIGNATED_PORT"
             [] state \in AlternateSteps    -> "ALTERNATE_PORT"
             [] OTHER                       -> IF current THEN GuardedExit(b, p, t) ELSE "NONE"

-----------------------------------------------------------------------------
(***************************************************************************)
(* The entry blocks, first those that touch the port's own PORT_TREE only. *)
(***************************************************************************)
Agrees(x) == [x EXCEPT !.proposed = FALSE, !.sync = FALSE, !.agree = TRUE]

Discards(x, delay) ==
  [x EXCEPT !.learn = FALSE, !.forward = FALSE, !.disputed = FALSE, !.fdWhile = delay]

\* x is the PORT_TREE of port p in tree t
EnteredPortTree(b, p, x, state) ==
  LET sendRSTP == b.port[p].sendRSTP
      hello    == HelloTime(b, p)
      delay    == forwardDelay(b, p)
  IN  CASE state = "INIT_PORT" ->
             [x EXCEPT !.role = "DISABLED", !.learn = FALSE, !.forward = FALSE, !.synced = FALSE,
                       !.sync = TRUE, !.reRoot = TRUE, !.rrWhile = FwdDelay(b, p),
                       !.fdWhile = MaxAge(b, p), !.rbWhile = 0]
        [] state = "DISABLE_PORT" ->
             [x EXCEPT !.role = "DISABLED", !.learn = FALSE, !.forward = FALSE]
        [] state = "DISABLED_PORT" ->
             [x EXCEPT !.fdWhile = MaxAge(b, p), !.synced = TRUE, !.rrWhile = 0, !.sync = FALSE,
                       !.reRoot = FALSE]
        [] state = "ALTERNATE_PORT" ->
             [x EXCEPT !.fdWhile = delay, !.synced = TRUE, !.rrWhile = 0, !.sync = FALSE,
                       !.reRoot = FALSE]
        [] state = "MASTER_PORT"     -> [x EXCEPT !.role = "MASTER"]
        [] state = "ROOT_PORT"       -> [x EXCEPT !.role = "ROOT", !.rrWhile = FwdDelay(b, p)]
        [] state = "DESIGNATED_PORT" -> [x EXCEPT !.role = "DESIGNATED"]
        [] state = "BLOCK_PORT" ->
             [x EXCEPT !.role = x.selectedRole, !.learn = FALSE, !.forward = FALSE]
        [] state = "BACKUP_PORT"     -> [x EXCEPT !.rbWhile = 2 * hello]
        [] state \in {"MASTER_AGREED", "ROOT_AGREED", "DESIGNATED_AGREE"} -> Agrees(x)
        [] state = "ALTERNATE_AGREED" -> [x EXCEPT !.proposed = FALSE, !.agree = TRUE]
        [] state \in {"MASTER_SYNCED", "DESIGNATED_SYNCED"} ->
             [x EXCEPT !.rrWhile = 0, !.synced = TRUE, !.sync = FALSE]
        [] state = "ROOT_SYNCED" -> [x EXCEPT !.synced = TRUE, !.sync = FALSE]
        [] state \in {"MASTER_RETIRED", "DESIGNATED_RETIRED", "REROOTED"} ->
             [x EXCEPT !.reRoot = FALSE]
        [] state \in {"MASTER_FORWARD", "DESIGNATED_FORWARD"} ->
             [x EXCEPT !.forward = TRUE, !.fdWhile = 0, !.agreed = sendRSTP]
        [] state = "ROOT_FORWARD" -> [x EXCEPT !.forward = TRUE, !.fdWhile = 0]
        [] state \in {"MASTER_LEARN", "ROOT_LEARN", "DESIGNATED_LEARN"} ->
             [x EXCEPT !.learn = TRUE, !.fdWhile = delay]
        [] state \in {"MASTER_DISCARD", "DESIGNATED_DISCARD"} -> Discards(x, delay)
        [] state = "ROOT_DISCARD" ->
             Discards([x EXCEPT !.rbWhile = IF x.disputed THEN 3 * hello ELSE @], FwdDelay(b, p))
        [] OTHER -> x

EnterProposed(b, p, t) ==
  LET b1 == setSyncTree(b, t)
  IN  SetPortTree(b1, p, t, [b1.pt[p][t] EXCEPT !.proposed = FALSE])

\* variant: edge detection does not start over
EnterDesignatedProposeOnly(b, p, t) ==
  SetNewInfo(SetPortTree(b, p, t, [b.pt[p][t] EXCEPT !.proposing = TRUE]), p, t)

EnterDesignatedPropose(b, p, t) ==
  LET b1 == SetPortTree(b, p, t, [b.pt[p][t] EXCEPT !.proposing = TRUE])
  IN  SetNewInfo(
        IF cist(t) THEN SetPort(b1, p, [b1.port[p] EXCEPT !.edgeDelayWhile = EdgeDelay(b, p)])
        ELSE b1, p, t)

RoleTransitionsEnter(b, p, t, state) ==
  LET own == SetPortTree(b, p, t, EnteredPortTree(b, p, b.pt[p][t], state))
  IN  CASE state \in {"MASTER_PROPOSED", "ROOT_PROPOSED", "ALTERNATE_PROPOSED"} ->
             EnterProposed(b, p, t)
        [] state = "REROOT" -> setReRootTree(b, t)
        [] state = "DESIGNATED_PROPOSE" -> EnterDesignatedPropose(b, p, t)
        [] state \in {"ROOT_AGREED", "DESIGNATED_AGREE", "ALTERNATE_AGREED"} ->
             SetNewInfo(own, p, t)
        [] OTHER -> own

=============================================================================
