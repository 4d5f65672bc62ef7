CONSTANTS
  search1 = search1
  Readers = {"r1", "r2"}
  Writers = {"w1"}
  Keys = {search1}
  Patterns = {"search:*"}
  Pattern <- MCPattern
  MaxQuiet = 0
  NoKey = noKey
  None = none
SPECIFICATION CacheSpec
CHECK_DEADLOCK FALSE
INVARIANT ReflectedImmediately
