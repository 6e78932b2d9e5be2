------------------------------ MODULE MCAgents ------------------------------
(***************************************************************************)
(* Work of agents in a room for TLC: leases with handoffs and integrations,*)
(* messages, commands, work items and recovery loops.  The components keep *)
(* separate rows, so their steps commute and a behaviour moves only the    *)
(* one that focus names: the state spaces add up instead of multiplying.   *)
(***************************************************************************)
EXTENDS MCAgentCoordination, AgentRooms, AgentCommands, AgentWorkItems, AutonomyRecovery

CONSTANTS i1, i2, w1, w2

VARIABLE focus

\* The second item waits for the first and only the second worker suits it.
ItemChain  == [i \in Items |-> IF i = i2 THEN {i1} ELSE {}]
WhoSuits   == [i \in Items |-> IF i = i2 THEN {w2} ELSE {w1, w2}]
IdleAgents == {<<"idle", TRUE>>}

AgentsInit ==
    /\ focus \in {"leases", "rooms", "commands", "work items", "recovery"}
    /\ Init /\ RoomInit /\ CmdInit /\ WorkInit /\ RecInit

AgentsNext ==
    /\ UNCHANGED focus
    /\ \/ focus = "leases" /\ Next /\ UNCHANGED <<roomVars, cmdVars, workVars, recVars>>
       \/ focus = "rooms" /\ RoomNext /\ UNCHANGED <<vars, cmdVars, workVars, recVars>>
       \/ focus = "commands" /\ CmdNext /\ UNCHANGED <<vars, roomVars, workVars, recVars>>
       \/ focus = "work items" /\ WorkNext /\ UNCHANGED <<vars, roomVars, cmdVars, recVars>>
       \/ focus = "recovery" /\ RecNext /\ UNCHANGED <<vars, roomVars, cmdVars, workVars>>

AgentsSpec == AgentsInit /\ [][AgentsNext]_<<focus, vars, roomVars, cmdVars, workVars, recVars>>

Interchangeable == Permutations(Sessions) \cup Permutations(Members) \cup Permutations(MsgKeys)
-----------------------------------------------------------------------------
\* The types of the five components.
AgentTypesOK == TypeOK /\ RoomTypeOK /\ CmdTypeOK /\ WorkTypeOK /\ RecTypeOK

\* Messages of a room are numbered without gap or repetition although the
\* room lock is lost when stale agents are expired, and a finished command
\* was accepted first, by its agent and with its approval.
CollaborationSound == SequenceGapless /\ FinishedWasAccepted
=============================================================================
