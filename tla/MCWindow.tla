------------------------------ MODULE MCWindow ------------------------------
(* TLC values for Window.  The workers are alike.                            *)
EXTENDS Window, TLC

WorkerSymmetry == Permutations(Workers)
=============================================================================
