---------------------------- MODULE MCRestartSut ----------------------------
(* TLC values for RestartSut. *)
EXTENDS RestartSut, TLC

Symmetric == Permutations(Uids)
=============================================================================
