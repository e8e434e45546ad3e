SPECIFICATION FairSpec
CONSTANTS
  t1 = t1
  t2 = t2
  Batches = {1}
  Tasks = {t1, t2}
  BatchOf <- TasksOfOne
  Source <- OneNat
  StatusWorkers = {s1}
  NotifyWorkers = {n1}
  AssomiWorkers = {a1}
  MailWorkers = {m1}
  Requests = {}
  BatchLimit = 1
  RespectPause = TRUE
  AggResults = {"failed", "spin", "nospin"}
  MaxFaults = 0
  NoBatch = NoBatch
  NoTask = NoTask
PROPERTIES
  EveryBatchReported
  PollContinues
