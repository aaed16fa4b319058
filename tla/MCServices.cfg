SPECIFICATION ServicesSpec
CONSTANTS
  ada = ada
  coat = coat
  scarf = scarf
  boots = boots
  Accounts = {ada}
  ItemsOf <- Wardrobes
  Named = {coat}
  MaxOpeners = 1
  MaxRequests = 1
  HistoryLimit = 1
  MaxCrashes = 1
  MaxJobs = 2
  MaxAttempts = 2
  MaxFaults = 0
  Items <- AllItems
  Mine <- OwnItems
  Calls <- ModelCalls
  MaxRounds = 2
  MaxCalls = 3
  RowLimit = 1
  MaxBatch = 3
  LogItems = {coat, boots}
  MyItems = {coat}
  LogRequests = {r1, r2}
  MaxLogs = 1
  MaxRestarts = 1
  Mailboxes = {m}
  MaxSettings = 3
  MaxOutages = 1
  OldIds = {1, 2, 3}
  NewIds = {4}
  OldMarks <- Marks
  LabelFields = {type}
  TextFields = {name}
  MinSeverity = 0
  MaxReplays = 1
  MaxLogCrashes = 1
INVARIANTS
  ServicesTypeOK BudgetsKept CallsAnswered NoDanglingEntries LoginFindsOne
  MigrationSound AnswerHonest CostsHaveCause
PROPERTIES ExchangeKept ColumnsKept AnswersDelivered
CHECK_DEADLOCK FALSE
