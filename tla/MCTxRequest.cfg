CONSTANTS
  Width = 8
  None = None
  Ledger <- MCLedger
  BaseFees = {1, 4}
  PageLimit = 3
SPECIFICATION FairSpec
INVARIANT TypeOK
INVARIANT StatusIgnoresOrder
INVARIANT PositionsLineUp
INVARIANT FeeClaimsAreTrue
PROPERTY RequestIsAnswered
