SPECIFICATION FairSpec
CONSTANTS
  Pids = {shell, tool, helper}
  Root = shell
  Reaper = init
  MaxTicks = 1
INVARIANTS TypeOK NeverOvercharged StableTreeIsCharged
PROPERTY IsBackgroundJob
CHECK_DEADLOCK FALSE
