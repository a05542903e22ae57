SPECIFICATION Spec32
CONSTANTS
  Pusher = {p1, p2}
  Puller = {c1, c2}
  Value = {v1}
  NoValue = NoValue
  Capacity = 2
  Width = 8
  Start = 6
  MaxLag = 2
  MaxTicket = 11
CONSTRAINT TicketBound
SYMMETRY Symmetry
PROPERTY StepsAsUnbounded
