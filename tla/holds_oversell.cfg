SPECIFICATION Spec
CONSTANTS
  q1 = q1  q2 = q2  q3 = q3
  ann = ann  ben = ben  quad = quad  twin = twin
  Pools = {quad}
  Quotes = {q1, q2, q3}
  Quote <- OnePoolQuote
  Keys = {k1, k2}
  HoldIds = {h1, h2}
  Readers = {r1}
  Nothing = Nothing  NoRow = NoRow
  Lifetime = 2
  Capacities = {1}
  MaxTime = 3
INVARIANT SoldSeatsWithinCapacity
