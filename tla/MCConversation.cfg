SPECIFICATION ConversationSpec
CONSTANTS
  ada = ada
  bob = bob
  coat = coat
  scarf = scarf
  Accounts = {ada, bob}
  ItemsOf <- Wardrobes
  Named = {coat, scarf}
  MaxOpeners = 2
  MaxRequests = 2
  HistoryLimit = 1
  MaxCrashes = 1
  MaxJobs = 4
  MaxAttempts = 1
  MaxFaults = 0
INVARIANTS NoOrphans HistoryIsPast AnswersAnnounced ProposedMeansOwn
PROPERTY OnlyOwnerDeletes
SYMMETRY AccountSymmetry
CHECK_DEADLOCK FALSE
