--------------------------- MODULE MCInspectionAPI ---------------------------
(***************************************************************************)
(* Instances of InspectionAPI for TLC.                                     *)
(***************************************************************************)
EXTENDS InspectionAPI, TLC

CONSTANTS ann, bob, eve, note

\* Two inspectors and an appraiser.
MCUsers == {ann, bob, eve}
MCRolesOf == (ann :> {"inspector"}) @@ (bob :> {"inspector"}) @@ (eve :> {"appraiser"})

\* One user with every right, for runs about the data and not about access.
SoloUsers == {eve}
SoloRolesOf == eve :> {"inspector", "appraiser"}

\* Two bodies that touch different columns: reassignment, and notes.
MCPatches == {"inspector_id" :> bob, "notes" :> note}
SoloPatches == {"inspector_id" :> eve, "notes" :> note}

\* One clock that never lags: a stamp is not behind another, and it is behind no
\* version its request has read.
SteadyClock ==
    \A p \in Procs :
        pc[p] = "readPhotos" /\ pc'[p] \in {"update", "txUpdate"} =>
            stamp'[p] >= clock /\ stamp'[p] > snap[p].updatedAt

\* Updates and completions only, without faults and with the best of clocks: every
\* behaviour of WritersSpec is one of Spec, so what it violates Spec violates.
WritersNext ==
    \/ \E p \in Procs :
         \/ Dispatch(p) /\ req'[p].op \in {"update", "complete"}
         \/ Step(p) /\ SteadyClock
    \/ Quiet
WritersSpec == Init /\ [][WritersNext]_vars

Symmetry == Permutations(Procs)
=============================================================================
