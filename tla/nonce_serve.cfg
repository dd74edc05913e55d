SPECIFICATION LiveSpec
CHECK_DEADLOCK FALSE
CONSTANTS
  c1 = c1  c2 = c2  o1 = o1
  temp = temp  perm = perm  gift = gift  pay1 = pay1  pay2 = pay2  svc1 = svc1  svc2 = svc2
  h1 = h1  h2 = h2  ho = ho  ho2 = ho2  hu = hu
  NoNonce = NoNonce  NoSig = NoSig
  Nonces = {c1, o1}
  Seeded = {c1, o1}
  Clients = {pay1}
  OnDemand = {svc1, svc2}
  Upgrades = {}
  Temps = {}
  Dormants = {}
  TempOf <- MCTempOf
  Holders <- MCHolders
  HolderOf <- MCHolderOf
  Leaky = {}
  Purpose <- MCPurpose
  UseCase <- MCUseCase
  PoolSize = 1
  InvalidLimit = 0
  MaxFails = 0
  MaxCrashes = 0
  AllowUnlock = FALSE
PROPERTY
  OnDemandIsServed
