SPECIFICATION FairSpec
CONSTANTS
  idA = idA
  idB = idB
  alice = alice
  bob = bob
  fileA = fileA
  fileB = fileB
  NoId = NoId
  Mails = {1, 2, 3}
  Kind <- Mixed
  IdOf <- MixedIds
  SenderOf <- MixedSenders
  FileOf <- MixedFiles
  BadFiles = {}
  ReplyEnabled = FALSE
  MaxFaults = 2
  Cap = 4
PROPERTIES
  EveryMailHandled
