SPECIFICATION FairSpec
CHECK_DEADLOCK FALSE
CONSTANTS
  ann = ann  bob = bob  cat = cat
  card = card
  ph1 = ph1  ph2 = ph2  ph3 = ph3
  NoOwner = NoOwner
  NoCard = NoCard
  Table <- Ring
  Owners = {ann, bob, cat}
  Cards = {card}
  PhoneOf <- OwnPhones
  Stripe <- Stripes
  Purse = 1
  MaxUses = 1
  MaxOpens = 1
  MaxArrivals = 3
PROPERTY
  EveryRequestEnds
