CONSTANTS
  Things = {"p1", "p2"}
  Namesakes = {}
  MaxLooks = 2
  NoThing = noThing
SPECIFICATION ProductPagesSpec
CHECK_DEADLOCK FALSE
PROPERTY ResubmitKeepsText
