SPECIFICATION Spec
CONSTANTS
  root = root
  a = a
  ab = ab
  b = b
  cse = cse
  r1 = r1
  r2 = r2
  r3 = r3
  t1 = t1
  t2 = t2
  None = None
  Thread = {t1, t2}
  Ri = {cse, r1, r2, r3}
  Srn <- MCSrn
  Root = root
  CseRi = cse
  Parent <- MCParent
  Below <- MCBelow
  Isolated = FALSE
SYMMETRY MCSymmetry
INVARIANTS UniqueSrn
