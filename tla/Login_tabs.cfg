SPECIFICATION MCSpec
CONSTANTS
  t1 = t1
  t2 = t2
  u1 = u1
  u2 = u2
  f1 = f1
  f2 = f2
  Absent = Absent
  Nil = Nil
  Givens <- SomeGivens
  Tabs <- TwoTabs
  Users <- TwoUsers
  Flows <- TwoFlows
  AccessAge = 1
  RefreshAge = 2
  MaxTime = 3
  MaxLogins = 2
SYMMETRY Symmetry
INVARIANTS TypeOK LoginOffersWork SessionBounded Authentic LogoutHolds HintMatches
