----------------------------- MODULE MCRestarts -----------------------------
(* The instances of MCRelationships, with restarts.                        *)
EXTENDS MCRelationships, Restarts

=============================================================================
