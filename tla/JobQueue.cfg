SPECIFICATION FairSpec
CONSTANTS
  r1 = r1
  Realms = {r1}
  NullRealm = NullRealm
  Consumed = Consumed
  DetailLimit = 2
  EdgeSize = 1
  CompactionThreshold = 1
  MaxJobs = 2
  MaxHookFailures = 2
  MaxDepth = 3
INVARIANTS
  DurableFailuresAreWindow
  PendingJobsAreCovered
  JobRunsInItsRealm
PROPERTIES
  ImplementsAgentJobs
  JobsEventuallyStart
