------------------------------ MODULE MCRunOne ------------------------------
(* TLC model of RunOne: two calls, one death.                                *)
EXTENDS RunOne
=============================================================================
