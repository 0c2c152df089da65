SPECIFICATION FairSpec
CONSTANTS
  Proc = {p1, p2}
  ScanId = {s1, s2, s3}
  NoScan = NoScan
  StaleAfter = 2
  MaxWait = 1
INVARIANTS
  TypeOK
  LeaseCoherent
PROPERTIES
  NoInterleavedWrites
  NoEarlyTakeover
  ImplementsLease
  OrphansRecovered
  ScanningResumes
