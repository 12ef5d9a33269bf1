SPECIFICATION Spec
CONSTANTS
  Keys = {k1}
  StringKeys = {k1}
  SortedKeys = {z1}
  HashKeys = {h1}
  NoKey = noKey
  NoTtl = noTtl
  Null = null
  Second = 2
  DefaultTtl = 2
  Ttls = {1, 2}
  Fields = {f1}
  Scores = {1, 2, 3}
  Reach = {0, 1, 2}
  Named = {1, 2, 3}
  MaxValue = 2
  Tasks = {t1, t2}
  Ttl = 2
  MaxVersion = 2
  MaxErrors = 1
  k1 = k1
  z1 = z1
  h1 = h1
  noKey = noKey
  null = null
  noTtl = noTtl
  f1 = f1
  t1 = t1
  t2 = t2
INVARIANTS
  CacheInv
  ImplementationsAgree
  TtlHonest
  ShutdownForgets
PROPERTIES
  ServedFresh
  StaleExpires
