SPECIFICATION Spec
CONSTANTS
  u1 = u1
  u2 = u2
  n1 = n1
  n2 = n2
  id1 = id1
  id2 = id2
  id3 = id3
  c1 = c1
  c2 = c2
  t1 = t1
  t2 = t2
  t3 = t3
  version = version
  k1 = k1
  current = current
  Nil = Nil
  Unknown = Unknown
  Users <- TwoUsers
  Names <- TwoNames
  Ids <- ThreeIds
  Contents <- TwoContents
  Tabs <- ThreeTabs
  UserOf <- LoggedIn
  Keys <- TwoKeys
  Version = version
  Titles <- OneTitle
  Values <- OneValue
  Current = current
SYMMETRY Symmetry
INVARIANTS RowsTypeOK UniqueIds ShownIsVisible CellsTypeOK WhatWasSeenStands
PROPERTIES OwnRowsOnly KeyIsKept
