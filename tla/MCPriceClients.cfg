SPECIFICATION Spec
CONSTANTS
  a = a
  b = b
  one = one
  all = all
  p1 = p1
  p2 = p2
  q = q
  t1 = t1
  t2 = t2
  MaxDelay = 1
  MaxTime = 7
  Mint = {a, b}
  Call = {p1, p2, q, t1, t2}
  Caller = {t1, t2}
  Asks <- MCAsks
  CacheTime = 2
  ListTime = 2
  NameTime = 1
  None = None
  NoName = NoName
  Watcher = {one, all}
  Portfolio = {all}
  PollOf <- MCPollOf
  MintsOf <- MCMintsOf
  Interval <- MCInterval
  Token = a
  MaxUses = 2
SYMMETRY Symmetry
INVARIANTS
  TypeOK
  WhatIsUsedIsRecent
  PricesGoBackOneFetch
  ClearedIsGone
  WatchersCallBack
CHECK_DEADLOCK FALSE
