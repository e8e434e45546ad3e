SPECIFICATION DownloadSpec
CONSTANTS
  t1 = t1
  t2 = t2
  Batches = {1}
  Tasks = {t1}
  BatchOf <- TaskOfOne
  Source <- OneNat
  StatusWorkers = {s1, s2}
  NotifyWorkers = {n1, n2}
  AssomiWorkers = {a1, a2}
  MailWorkers = {m1, m2}
  Requests = {}
  BatchLimit = 0
  RespectPause = TRUE
  AggResults = {"failed", "spin", "blank", "nospin"}
  MaxFaults = 1
  NoBatch = NoBatch
  NoTask = NoTask
SYMMETRY Replicas
INVARIANTS
  ClaimStaysTrue
  PipelineSafe
  WholeWorkbook
