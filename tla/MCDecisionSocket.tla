-------------------------- MODULE MCDecisionSocket --------------------------
(* Instances of DecisionSocket for TLC.                                    *)
EXTENDS DecisionSocket
=============================================================================
