SPECIFICATION Spec
CONSTANTS
  a1 = a1
  a2 = a2
  i1 = i1
  i2 = i2
  Actors = {a1, a2}
  Intents = {i1, i2}
  Responsible <- OwnIntents
  Offers = {h1, h2}
  Keys = {k1, k2}
  None = none
  OfferLife = 1
  MaxDelay = 1
SYMMETRY RowSymmetry
INVARIANTS
  OffersAlternate
  ActsOncePerKey
  AnswersAreTrue
PROPERTIES
  ShownExpiredIsFinal
