SPECIFICATION Spec
CHECK_DEADLOCK FALSE
CONSTANTS
  pay1 = pay1  pay2 = pay2  pay3 = pay3
  NoVault = NoVault
  Commitments = {pay1, pay2, pay3}
  Amount <- MCAmount
  Funds = 2
  Paid <- PaidOne
  Upgraders = {pay1, pay2, pay3}
  Unlockable = {}
  WorkerBatch = 1
  SequencerBatch = 2
  MaxFails = 0
  MaxCrashes = 1
INVARIANT
  TreasuryNeverOverdrawn
