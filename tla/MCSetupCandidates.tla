-------------------------- MODULE MCSetupCandidates --------------------------
(***************************************************************************)
(* Two setups of one direction and one of the other compete for the places *)
(* of one instrument.                                                      *)
(***************************************************************************)
EXTENDS SetupCandidates, TLC

CONSTANTS l1, l2, s1

MCDirectionOf == l1 :> "LONG" @@ l2 :> "LONG" @@ s1 :> "SHORT"

(* The two setups of one direction are interchangeable.                    *)
MCSymmetry == Permutations({l1, l2})

=============================================================================
