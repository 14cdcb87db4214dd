SPECIFICATION Spec
CONSTANTS
  a1 = a1
  a2 = a2
  b = b
  i1 = i1
  i2 = i2
  c1 = c1
  c2 = c2
  h1 = h1
  h2 = h2
  Aggregates = {a1, a2, b}
  Ids = {i1, i2}
  EventClasses = {c1, c2}
  Handlers = {h1, h2}
  MaxEvents = 2
  IdOf <- MCIdOf
  Subscriptions <- MCSubscriptions
CHECK_DEADLOCK FALSE
INVARIANTS
  TypeOK
  MarkedUnique
  DeliveredInOrder
  SoleWriterDelivers
PROPERTIES
  ImplementsEventDelivery
