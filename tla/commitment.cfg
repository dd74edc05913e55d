SPECIFICATION Spec
CHECK_DEADLOCK FALSE
CONSTANTS
  pay1 = pay1  pay2 = pay2  pay3 = pay3
  NoVault = NoVault
  Commitments = {pay1, pay2, pay3}
  Amount <- MCAmount
  Funds = 3
  Paid <- PaidThree
  Upgraders = {pay1}
  Unlockable = {pay1}
  WorkerBatch = 1
  SequencerBatch = 1
  MaxFails = 1
  MaxCrashes = 0
INVARIANTS
  RepaidIsReal
  TransferHasVault
  NothingDivertedToClosing
PROPERTY
  RecordMovesForward
