------------------------------- MODULE MCSystem -------------------------------
(***************************************************************************)
(* System for TLC: two instances and a dataset job.                        *)
(***************************************************************************)
EXTENDS System

CONSTANTS w1, w2, dataset

MCEvent ==
    [m \in Message |->
        [decodes |-> TRUE, instanceID |-> "i1", version |-> "v1", rowCount |-> 1,
         fileName |-> [base |-> "v1", ext |-> "csv"], filterOutputID |-> ""]]
=============================================================================
