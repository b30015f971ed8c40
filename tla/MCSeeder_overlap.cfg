SPECIFICATION Spec
SYMMETRY Symmetry
CHECK_DEADLOCK FALSE
CONSTANTS
  s1 = s1
  s2 = s2
  admin = admin
  user1 = user1
  p1 = p1
  Person = {p1}
  Address <- AddressOf
  u1 = u1
  d1 = d1
  Email = {admin, user1}
  Upload = {u1}
  Download = {d1}
  Seeder = {s1, s2}
  SeedUser <- Script
INVARIANTS
  SeededOnce
  ClearedCompletely
  DownloadsServe
