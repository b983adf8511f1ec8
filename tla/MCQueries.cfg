CONSTANTS
  Width = 20
  None = None
  Labels <- MCLabels
  HorizonOps <- MCHorizonOps
  TxQuestions <- MCTxQuestions
  HorizonAccounts <- MCHorizonAccounts
  Organisations = {"Org", " "}
  Clock <- MCClock
  Drift = 1
  History <- MCHistory
  Limits = {None, 0, 1, 2, 51}
  Orders = {None, "asc", "desc", "latest"}
SPECIFICATION QueriesSpec
INVARIANT NothingIsConfused
INVARIANT ListsAgree
INVARIANT CalendarIsGregorian
INVARIANT PagesPartition
