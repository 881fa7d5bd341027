SPECIFICATION FairSpec
CONSTANTS
  Position <- TwoPositions
  Linked <- OnlyFirst
  Recent <- TwoPositions
  Shadow <- OnlySecond
  ShadowTables <- EitherTable
  MaxRetries = 2
  MaxRestarts = 1
  MaxRounds = 1
INVARIANTS RowsAccounted ClosedHasRow
PROPERTIES ImplementsJournal Reconciled
