--------------------------- MODULE MCParaProgress ---------------------------
(* Instances of ParaProgress for TLC.                                      *)
EXTENDS ParaProgress

AllOptions == [parallel : BOOLEAN, failFast : BOOLEAN, timeout : {FALSE}]
                \cup {[parallel |-> TRUE, failFast |-> TRUE, timeout |-> TRUE]}
=============================================================================
