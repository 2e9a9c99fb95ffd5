------------------------------ MODULE MCListing ------------------------------
(***************************************************************************)
(* Instances of Listing for TLC.                                           *)
(***************************************************************************)
EXTENDS Listing, TLC

CONSTANTS ann, bob, eve, sam

\* An inspector, one with a broader role too, staff, and a user of another service.
MCUsers == {ann, bob, eve, sam}
MCRolesOf ==
    ann :> {"inspector"} @@ bob :> {"inspector", "admin"} @@ eve :> {"appraiser"} @@ sam :> {}

MCStamps == 1 .. 3

\* An int of 6 bits: page 17 with limit 2 has the offset -32, and with limit 4 it
\* has the offset 0 again.
MCNumbers == {0, 2, 4, 17}

Symmetry == Permutations(Rows)
=============================================================================
