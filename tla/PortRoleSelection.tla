-------------------------- MODULE PortRoleSelection -------------------------
(***************************************************************************)
(* Port Role Selection state machine, one per tree (13.36;                 *)
(* stp_sm_port_role_selection.cpp).                                        *)
(***************************************************************************)
EXTENDS StpProcedures

\* variant: the last port's reselect is not looked at
RoleSelectionNextShort(b, t) ==
  LET state == b.tree[t].portRoleSelectionState
  IN  IF b.BEGIN THEN IF state = "INIT_TREE" THEN "NONE" ELSE "INIT_TREE"
      ELSE IF state = "INIT_TREE" \/ \E p \in 1..(NumPorts - 1) : b.pt[p][t].reselect
      THEN "ROLE_SELECTION"
      ELSE "NONE"

RoleSelectionNext(b, t) ==
  LET state == b.tree[t].portRoleSelectionState
  IN  IF b.BEGIN THEN IF state = "INIT_TREE" THEN "NONE" ELSE "INIT_TREE"
      ELSE IF \/ state = "INIT_TREE"
              \/ state = "ROLE_SELECTION" /\ \E p \in Ports : b.pt[p][t].reselect
      THEN "ROLE_SELECTION"
      ELSE "NONE"

RoleSelectionEnter(b, t, state) ==
  IF state = "INIT_TREE" THEN updtRolesDisabledTree(b, t)
  ELSE setSelectedTree(updtRolesTree(clearReselectTree(b, t), t), t)

=============================================================================
