------------------------------ MODULE MCStream ------------------------------
(* Two patches, one of which has the id of the other.                      *)
EXTENDS RunStream

CONSTANTS hit, miss, base

MCPatches == {[id |-> "p1", plan |-> hit], [id |-> "p1", plan |-> miss]}
MCOffered == {[id |-> "p1", plan |-> miss]}
=============================================================================
