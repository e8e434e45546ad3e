SPECIFICATION Spec
CONSTANTS
  t1 = t1
  t2 = t2
  Batches = {1}
  Tasks = {t1, t2}
  BatchOf <- TasksOfOne
  Source <- OneNat
  StatusWorkers = {s1}
  NotifyWorkers = {n1}
  AssomiWorkers = {a1}
  MailWorkers = {m1}
  Requests = {r1}
  BatchLimit = 0
  RespectPause = TRUE
  AggResults = {"failed", "spin", "nospin"}
  MaxFaults = 1
  NoBatch = NoBatch
  NoTask = NoTask
INVARIANTS
  TypeOK
  PauseIsBarrier
  NotifiedOnlyWhenSettled
  OneOutcomeTold
  OnceUnlessLost
  MonitoringAgrees
PROPERTIES
  DownloadStaysReady
  ImplementsLife
