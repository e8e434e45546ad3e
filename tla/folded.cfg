SPECIFICATION FairSpec
CONSTANTS
  idA = idA
  idB = idB
  alice = alice
  bob = bob
  fileA = fileA
  fileB = fileB
  NoId = NoId
  Mails = {1, 2}
  Kind <- Folded
  IdOf <- FoldedIds
  SenderOf <- FoldedSenders
  FileOf <- FoldedFiles
  BadFiles = {}
  ReplyEnabled = TRUE
  MaxFaults = 0
  Cap = 4
PROPERTIES
  ProcessedIsAudited
