-------------------------- MODULE MCDispatchRefinement --------------------------
(* A small instance of DispatchRefinement for TLC. *)
EXTENDS DispatchRefinement, MCDispatchQueue
================================================================================
