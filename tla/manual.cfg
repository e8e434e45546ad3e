SPECIFICATION FairSpec
CONSTANTS
  t1 = t1
  t2 = t2
  Batches = {1, 2}
  Tasks = {t1, t2}
  BatchOf <- TaskOfEach
  Source <- SpinAndAssomi
  StatusWorkers = {}
  NotifyWorkers = {}
  AssomiWorkers = {a1}
  MailWorkers = {m1}
  Requests = {}
  BatchLimit = 1
  RespectPause = FALSE
  AggResults = {"failed", "spin", "nospin"}
  MaxFaults = 2
  NoBatch = NoBatch
  NoTask = NoTask
INVARIANTS
  PipelineSafe
PROPERTIES
  EveryBatchReported
