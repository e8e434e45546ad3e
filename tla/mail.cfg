SPECIFICATION Spec
CONSTANTS
  idA = idA
  idB = idB
  alice = alice
  bob = bob
  fileA = fileA
  fileB = fileB
  NoId = NoId
  Mails = {1, 2, 3}
  Kind <- Hard
  IdOf <- HardIds
  SenderOf <- HardSenders
  FileOf <- HardFiles
  BadFiles = {}
  ReplyEnabled = TRUE
  MaxFaults = 2
  Cap = 4
INVARIANTS
  SeenIsRecorded
  OnlyLostRepeated
  OutcomeIsTrue
