SPECIFICATION Spec
CONSTANTS
  t1 = t1
  t2 = t2
  Nobody = Nobody
  Plans <- MCPlans
  Runners = {r1, r2}
  Readers = {q1}
SYMMETRY Symmetry
INVARIANTS
  TypeOK
  StoreStaysValid
  WriteAhead
  NothingGrafted
PROPERTIES
  KeepsLedger
