SPECIFICATION Spec
CONSTANTS
  t1 = t1  t2 = t2  t3 = t3
  makkah1 = makkah1  makkah2 = makkah2  madinah1 = madinah1
  Travellers = {t1, t2, t3}
  None = None
  Covered = {2}
  Operators = {o1, o2}
  Rooms = {makkah1, makkah2, madinah1}
  StayOf <- MCStayOf
  TypeOf <- MCTypeOf
  Amenders = {a1, a2}
  RequiredKinds = {"PassportBioPage"}
  Uploaders = {c1, c2}
  Reviewers = {d1, d2}
  Officers = {v1, v2}
  Closers = {h1, h2}
  Leads = {g1}
  Leaders = {l1, l2}
  Scenarios <- MCScenarios
CHECK_DEADLOCK FALSE
SYMMETRY Symmetry
INVARIANTS TypeOK RoomsWithinCapacity HandedOverHaveVisas
PROPERTIES ImplementsRoomPlan ChangesWhatTheOperatorSaw AmendsWhatWasPreviewed VerdictsStand CompletedIsFrozen
