---------------------------- MODULE MCSampleProc ----------------------------
(* TLC values for SampleProc: a wrapper shell, the tool and a helper.        *)
EXTENDS SampleProc, TLC

Helpers == Permutations(Pids \ {Root})
=============================================================================
