SPECIFICATION FairSpec
CONSTANTS
  Clients = {c1, c2}
  t1 = t1  t2 = t2
  Targets = {t1, t2}
  h1 = h1  h2 = h2  h3 = h3
  Hooks = {h1, h2, h3}
  TargetOf <- MCTargetOf
  Slots = {s1, s2, s3}
  Foreign = {f1}
  p1 = p1  RX = RX  RWX = RWX
  Pages = {p1}
  FirstPage <- MCFirstPage
  PagesOf <- MCOnePage
  Perms <- MCPerms
  InitPerm <- MCInitPerm
  Null = Null  Original = Original  Bypass = Bypass
  MaxOps = 3
  Disciplined = TRUE
INVARIANTS
  NoDanglingTrampoline
  PermsRestored
  DetourReachableIffAttached
  NoStrandedTrampoline
  IInv
PROPERTIES
  LeakOnlyUnderALaterHook
  TransactionEnds
  ImplementsHookOrder
