SPECIFICATION FairSpec
CONSTANTS
  ann = ann
  bob = bob
  Workers = {w1, w2}
  Tasks = {1, 2, 3, 4}
  File <- Files
  Unreadable = {2}
  Locals = {ann, bob}
  Blank = Blank
  Known = {bob}
  CodeMin = 1
  CodeMax = 3
  CodeStart = 2
  MaxFaults = 1
INVARIANTS
  NoValueTwice
  OneRequestServed
  RowsAnswerFile
PROPERTIES
  GivesUpOnlyWhenAllRefused
  EveryTaskDecided
