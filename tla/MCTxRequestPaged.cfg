CONSTANTS
  Width = 8
  None = None
  Ledger <- MCLedger
  BaseFees = {1, 4}
  PageLimit = 3
SPECIFICATION Spec
INVARIANT EveryOperationIsExplained
