CONSTANTS
  Panels = {"delivery", "categories", "brands", "products", "orders", "reviews", "users", "addresses"}
  RowIds = {"x", "y"}
  RowValues = {1, 2}
  Rows0 <- MCRows0
  Calls = {"q1", "q2", "q3"}
  MaxMounts = 2
  NoRow = noRow
  NoPanel = noPanel
  OrderIds = {"o1", "o2"}
  Intents = {"i1", "i2"}
  CartCalls = {"c1"}
  NoOrder = noOrder
  NoIntent = noIntent
  Filters = {"a", "b"}
  PagesOf <- MCPagesOf
  MaxPages = 2
  MaxVisits = 2
  MaxGen = 3
  TreeRuns = {"t1", "t2"}
  NoAnswer = noAnswer
  MaxPolls = 8
  Lists = {"l1", "l2"}
  Goods = {"g", "h"}
  InStock <- MCInStock
  CartOps = {"k1", "k2"}
  NoGoods = noGoods
  Requests = {"r1", "r2"}
  Families = {1, 2}
  MaxIds = 2
  Menu <- MCMenu
  NoCookie = noCookie
  MaxSends = 4
  TfaCalls = {"f1", "f2"}
  MaxSecrets = 3
  Things = {"p1", "p2"}  Namesakes = {"p2"}
  MaxLooks = 2
  NoThing = noThing
  Terms = {"s1", "s2"}
  SuggestedFor <- MCSuggestedFor
  NoTerm = noTerm
SPECIFICATION MCSpec
CHECK_DEADLOCK FALSE
INVARIANTS AppTypeOK PanelsAgreeWithTheServer OrdersArePaidOnce CatalogShowsItsQuery
  CartShowsTheServers FormsTellTheTruth
PROPERTIES OrdersShowTheirStatus SessionIsKept AccountPageIsTrue StorefrontIsCurrent
