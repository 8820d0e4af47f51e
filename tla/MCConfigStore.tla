---------------------------- MODULE MCConfigStore ----------------------------
(* ConfigStore on two layouts and two contexts. *)
EXTENDS ConfigStore

MCStart == [layout |-> "two-set", switch |-> TRUE, category |-> "English"]
=============================================================================
