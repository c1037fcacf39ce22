---------------------------- MODULE BackgroundJob ----------------------------
(***************************************************************************)
(* What run_one relies on for a Python process it leaves in the background *)
(* while a tool runs, sample_proc.py or the series mode of                 *)
(* scrape_server.py: until its handlers are installed a signal kills it,   *)
(* afterwards it finishes its round, writes its file and ends.             *)
(***************************************************************************)
CONSTANT MayAbort   \* a Boolean: whether an exception nobody catches can end it

VARIABLES
  job,    \* where the process is, and the flag its handlers set
  over    \* whether what it observes is gone, which ends it too

Where == {"unborn", "boot", "loop", "done", "killed", "aborted"}
Jobs == [at: Where, stop: BOOLEAN]
Ended == {"done", "killed", "aborted"}

Unborn == [at |-> "unborn", stop |-> FALSE]
Started == [at |-> "boot", stop |-> FALSE]

At(where) == [at |-> where, stop |-> job.stop]

Install == job.at = "boot" /\ job' = At("loop")

\* kill: fatal before the handlers are there, without effect on one that ended.
Signal ==
  job' = IF job.at = "boot" THEN At("killed")
         ELSE IF job.at = "loop" THEN [at |-> "loop", stop |-> TRUE]
         ELSE job

Finish ==
  /\ job.at = "loop" /\ (job.stop \/ over)
  /\ job' = At("done")

Abort == MayAbort /\ job.at = "loop" /\ job' = At("aborted")

Runs == Install \/ Finish

Init == job = Started /\ over = FALSE

Next ==
  \/ (Runs \/ Signal \/ Abort) /\ over' = over
  \/ over' = TRUE /\ job' = job

vars == <<job, over>>
Spec == Init /\ [][Next]_vars
FairSpec == Spec /\ WF_job(Runs)
=============================================================================
