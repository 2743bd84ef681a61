\* Admission control with and without the shutdown path (removeAll).
CONSTANTS
  w1 = w1
  w2 = w2
  t1 = t1
  t2 = t2
  m1 = m1
  u1 = u1
  ProductionLimit = 2
  ExecutionsMode = "regular"
SPECIFICATION Spec
INVARIANTS TypeOK AdmissionBound
PROPERTIES WaitersEventuallyRun
