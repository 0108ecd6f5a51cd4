SPECIFICATION ReferenceSpec
CONSTANTS
  robe = robe
  robes = robes
  jupe = jupe
  RateId = {a1, a2, a3}
  RateFix = {k1, k2}
  RateValue = {1, 2}
  RateDate = {1, 2}
  CategoryName <- MCCategoryName
  CategoryKey <- MCCategoryKey
  CategoryRequest = {c1, c2, c3}
  DefaultName <- MCDefaultName
  MaxReferenceRequests = 4
SYMMETRY MCSymmetry
CHECK_DEADLOCK FALSE
INVARIANTS
  ReferenceTypeOK
  ActiveTogetherOnlyIfOverlapping
  RateUnlessLeft
  TwinsOnlyIfOverlapping
  ServedCategoriesExist
