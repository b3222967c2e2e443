---------------------------- MODULE BridgeClock -----------------------------
(***************************************************************************)
(* Three bridges for TLC, one from each initial state: one that runs RSTP  *)
(* and is watched by clocks, one that is managed, and one that runs MSTP.  *)
(*                                                                         *)
(* The clocks, which the code does not have, tell for each port how many   *)
(* seconds have passed since certain events.  A second passes for a port   *)
(* when its Port Timers machine enters TICK.  The clocks only watch; the   *)
(* properties are about the code's own timers, of which there are nine per *)
(* port, restarted in some thirty places.                                  *)
(***************************************************************************)
EXTENDS MCMstp

CONSTANT ClockLimit   \* the clocks stop there

ASSUME ClockAssumption == ClockLimit \in Nat /\ MigrateTime <= ClockLimit

VARIABLES
  clock,
  part    \* "watched", "managed" or "region": which of the three bridges it is

clockvars == << bridge, run, clock >>
allvars   == << mcvars, clock, part >>

\* heard: since a frame came in or the link came up; blocked: since the port was last
\* told to forward; migrated: since it last changed between RSTP and STP
Clocks == [heard : 0..ClockLimit, blocked : 0..ClockLimit, migrated : 0..ClockLimit]

\* port p lives through a second, or through the event that stops its clock
Counted(p, count, event) ==
  IF event THEN 0
  ELSE IF /\ bridge.port[p].portTimersState # "TICK"
          /\ bridge'.port[p].portTimersState = "TICK"
          /\ count < ClockLimit
  THEN count + 1 ELSE count

ComesUp(p) == ~bridge.port[p].portEnabled /\ bridge'.port[p].portEnabled

Heard(p) == (bridge.port[p].rcvdBpdu /\ ~bridge'.port[p].rcvdBpdu) \/ ComesUp(p)

Migrated(p) == bridge.port[p].sendRSTP # bridge'.port[p].sendRSTP

ClockStep ==
  clock' = [p \in Ports |->
    [heard    |-> Counted(p, clock[p].heard, Heard(p)),
     blocked  |-> Counted(p, clock[p].blocked, bridge'.pt[p][CIST].forward \/ ComesUp(p)),
     migrated |-> Counted(p, clock[p].migrated, Migrated(p))]]

-----------------------------------------------------------------------------
PartsInit ==
  /\ \/ part \in {"watched", "managed"} /\ MCInit
     \/ part = "region" /\ MstpInit
  /\ clock = [p \in Ports |-> [heard |-> 0, blocked |-> 0, migrated |-> 0]]

\* the constant Frames has the neighbours of all three
AllFrames == StpFrames \cup MstpFrames

FramesOfPart == IF part = "region" THEN MstpFrames ELSE StpFrames

PartCall ==
  \/ LinkCall
  \/ ReceiveCall /\ bridge'.receivedBpdu \in FramesOfPart
  \/ part \in {"watched", "managed"} /\ EdgeCall
  \/ part = "managed" /\ (PriorityCall \/ ProtocolCall)

PartsNext ==
  /\ Called(PartCall) \/ OnePortUp \/ Ticks \/ RunsOn
  /\ IF part = "watched" THEN ClockStep ELSE UNCHANGED clock
  /\ UNCHANGED << returned, followed, part >>

PartsSpec == PartsInit /\ [][PartsNext]_allvars

-----------------------------------------------------------------------------
(***************************************************************************)
(* A port is taken for an edge port, without being configured as one, only *)
(* when it has heard nothing for MigrateTime.                              *)
(***************************************************************************)
EdgeOnlyWhenQuiet ==
  [][part = "watched" => \A p \in Ports :
       ~bridge.port[p].operEdge /\ bridge'.port[p].operEdge /\ ~bridge.port[p].AdminEdge
         => clock[p].heard >= MigrateTime]_clockvars

(***************************************************************************)
(* A designated port that has no agreement and is not at the edge forwards *)
(* only after the forward delay, however its earlier roles left its timer. *)
(***************************************************************************)
ForwardsAfterDelay ==
  [][part = "watched" => \A p \in Ports :
       LET x == bridge.pt[p][CIST]
       IN  /\ ~x.forward /\ bridge'.pt[p][CIST].forward
           /\ x.role = "DESIGNATED" /\ ~x.agreed /\ ~bridge.port[p].operEdge
           => clock[p].blocked >= 2 * forwardDelay(bridge, p)]_clockvars

(***************************************************************************)
(* A port that stays up changes between RSTP and STP at most once in       *)
(* MigrateTime, whatever its neighbours send.                              *)
(***************************************************************************)
MigratesSlowly ==
  [][part = "watched" => \A p \in Ports :
       Migrated(p) /\ bridge.port[p].portEnabled /\ ~bridge.BEGIN
         => clock[p].migrated >= MigrateTime]_clockvars

=============================================================================
