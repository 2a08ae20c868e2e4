------------------------- MODULE MCProposalScenarios -------------------------
(***************************************************************************)
(* The proposal workflow in two scenarios, each with the commands that     *)
(* bear on it: on the way to acceptance, or to completion.                 *)
(***************************************************************************)
EXTENDS MCProposalWorkflow

VARIABLE scenario

AllScenarios == AcceptanceCommands \cup CompletionCommands

ScenarioCommands == IF scenario = "acceptance" THEN AcceptanceCommands ELSE CompletionCommands

ScenarioInit == Init /\ scenario \in {"acceptance", "completion"}

ScenarioNext ==
  /\ Next /\ UNCHANGED scenario
  /\ \A c \in Clients : cmd'[c] \in ScenarioCommands \cup {NoCommand}

ScenarioSpec == ScenarioInit /\ [][ScenarioNext]_<<vars, scenario>>
=============================================================================
