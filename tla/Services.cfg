SPECIFICATION SpecOne
CONSTANTS
  None = None
  t1 = t1
  t2 = t2
  Thread = {t1, t2}
  Pei = 3
  Peid = 1
  Mdt = 2
  Mdn = 2
  Dur = 6
  Num = {2, 4}
  MaxSeriesTime = 12
  MaxInstance = 3
  Source = {s1, s2}
  s1 = s1
  s2 = s2
  Eem = {"allPresent", "allOrSomePresent", "someMissing", "allOrSomeMissing", "allMissing"}
  Tws = 2
  MaxExc = 2
  MaxWindowTime = 3
  Action = {a1, a2}
  a1 = a1
  Semaphore = {1, 2, 3, 4}
  a2 = a2
  Ecp = {2}
  ecpPeriodicDefault = 3
  ecpContinuousDefault = 1
  MaxActionTime = 3
  MaxChange = 2
  Csi = {B, C}
  B = B
  C = C
  MaxId = 4
  Peer = {p1}
  p1 = p1
  WS = {1, 2, 3}
  Sender = {r1, r2}
  r1 = r1
  r2 = r2
  MaxMessage = 2
  Resource = {m1, m2}
  Group = {g1, g2}
  Sub = {g2}
  m1 = m1
  m2 = m2
  g1 = g1
  g2 = g2
  Nu = {u1, u2}
  u1 = u1
  u2 = u2
  Exc = {0, 2}
  MaxEvent = 2
  MaxUpdate = 1
  Cin = {1, 2, 3, 4}
  Size <- MCSize
  Mni = {0, 1, 2, None}
  Mbs = 3
  Op = {"create", "delete", "update"}
  OverlapOp = {"create"}
  MaxSt = 5
SYMMETRY MCSymmetry
CONSTRAINT Explored
CHECK_DEADLOCK FALSE
INVARIANTS TypesFit MissingExact WindowExact ExpiresExactly CountsAgree OnceInPeriod DependenciesDecide AnnouncementsMatch MembersExist StatsExact ConnectionsMatch CountsExact
PROPERTIES NewestKept
