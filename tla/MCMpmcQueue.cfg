SPECIFICATION Spec
CONSTANTS
  Pusher = {p1, p2}
  Puller = {c1, c2}
  Value = {v1, v2}
  NoValue = NoValue
  Capacity = 2
  MaxTicket = 4
CONSTRAINT TicketBound
SYMMETRY Symmetry
INVARIANTS
  ExclusiveCells
  IInv
PROPERTIES
  PullFailsHonestly
  PushFailsHonestly
  ImplementsFifo
