--------------------------- MODULE MCInspectService ---------------------------
(***************************************************************************)
(* Instances of InspectService for TLC.                                    *)
(***************************************************************************)
EXTENDS InspectService, TLC

CONSTANTS eve, note

MCUsers == {eve}
MCRolesOf == eve :> {"inspector", "appraiser"}
MCPatches == {"notes" :> note}

\* One request that is not scheduled, and two that are.
MCLog == <<[scheduled |-> FALSE, event |-> "e1", request |-> "r3"],
           [scheduled |-> TRUE, event |-> "e2", request |-> "r1"],
           [scheduled |-> TRUE, event |-> "e3", request |-> "r2"]>>
=============================================================================
