SPECIFICATION HelperSpec
CONSTANTS
  c1 = c1  c2 = c2
  Clients = {c1, c2}
  t1 = t1  t2 = t2
  Targets = {t1, t2}
  h1 = h1  h2 = h2  h3 = h3
  Hooks = {h1, h2, h3}
  HooksOf <- MCHooksOf
  TargetOf <- MCTargetOf
  Slots = {s1, s2, s3}
  Foreign = {}
  p1 = p1  RX = RX  RWX = RWX
  Pages = {p1}
  FirstPage <- MCFirstPage
  PagesOf <- MCPagesOf
  Perms <- MCPerms
  InitPerm <- MCInitPerm
  Null = Null  Original = Original  Bypass = Bypass
  MaxOps = 2
  Disciplined = TRUE
INVARIANTS
  HelperTypeOK
PROPERTIES
  ImplementsAtomicHooks
  OuterTransactionKept
