CONSTANTS
  p1 = p1  p2 = p2  noProduct = noProduct  noCall = noCall  noKey = noKey
  search1 = search1  search2 = search2  facets1 = facets1  unbranded = unbranded
  CartCalls = {"c1", "c2", "c3"}
  CartProducts = {p1, p2}
  Shelf <- MCShelf
  MaxAsked = 1
  Popular = {p1}
  CartMenu <- MCCartMenu
  NoProduct = noProduct  NoCall = noCall
  Readers = {"r1", "r2"}
  Writers = {"w1"}
  Keys = {search1, facets1}
  Patterns = {"search:*", "facets:*"}
  Pattern <- MCPattern
  MaxQuiet = 1
  NoKey = noKey
  None = none
  ItemIds = {1, 2, 3}
  Items <- MCItems
  Queries <- MCQueries
  NoItem <- MCNoItem
  NoQuery <- MCNoQuery
  PerPage = 2
  Uploads = {"u1", "u2", "u3", "u4"}
  File <- MCFile
  Single = {"u3"}  Json = {"u2", "u4"}
  Names = {"Parka", "Tent"}
  KnownCategories = {"jackets"}
  Brands = {"A"}
  Unbranded = unbranded
  CategoryIds = {"jackets", "down", "fleece"}
  InUse = {"fleece"}
  MaxMoves = 3
  Root = root
  Gone = gone
  GivenImages = {"g1", "g2"}
  ImageUploads = {"i1", "i2", "i3"}
  AsPrimary = {"i1", "i3"}
  Sizes = {"large", "small"}
  SecretCalls = {"s1", "s2", "s3", "s4", "s5"}
  SecretMenu <- MCSecretMenu
  PerSetup = 2
  NoSetup = noSetup
  AccountCalls = {"a1", "a2", "a3", "a4", "a5"}
  AccountMenu <- MCAccountMenu
  Nobody = nobody
  Hits = {"h1", "h2", "h3", "h4"}
  Limit = 2  Ttl = 3  Life = 4  Skew = 1  MaxTime = 4
SPECIFICATION MCSpec
CHECK_DEADLOCK FALSE
INVARIANTS ServicesTypeOK SavedWritesShow CatalogueIsWhole UploadsAreWhole SecondFactorHolds AccountsHold
PROPERTIES CartsKeepTheirGoods BucketKeepsItsWord
