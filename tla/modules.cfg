CONSTANTS
  Conversations <- Talks
  Dialogues <- TheDialogues
  Sessions <- TheSessions
  MaxCmdQueue = 2
  DsUsers = {u1, u2}
  DataNames = {"list", "config"}
  Fields = 2
  DsConns = {c1, c2, c3}
  NoConn = none
  MaxFaults = 1
  MaxRestarts = 1
  Savers = {"s1"}
  Loaders = {"l1"}
  Deleters = {"d1"}
  PgNames = {"a"}
  PgRows = {1, 2}
  MaxIds = 2
  MaxLost = 1
  MaxRefused = 1
  NumBits = 3
  FieldValues <- QueryValues
  MaxWrites = 3
SPECIFICATION ModulesSpec
INVARIANTS RequestsPaired NothingMissed MailsWhole LiteralsWhole
INVARIANTS DatasetsWhole ConnsHaveOneUser SavesWhole TransactionsEnd 
CHECK_DEADLOCK FALSE
