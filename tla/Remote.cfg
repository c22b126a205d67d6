SPECIFICATION FairSpec
CONSTANTS
  in = in
  mn = mn
  asn = asn
  None = None
  Cse = {in, mn, asn}
  Registrar <- MCRegistrar
  CheckLiveliness = {TRUE, FALSE}
  Overlap = {{}, {in, mn}}
  MaxIncident = 1
CHECK_DEADLOCK FALSE
INVARIANTS DescendantsMatch
PROPERTIES Registered DescendantsKnown
