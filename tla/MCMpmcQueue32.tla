--------------------------- MODULE MCMpmcQueue32 ---------------------------
(***************************************************************************)
(* MpmcQueue32 with positions of a few bits, started just before they wrap *)
(* around: MaxTicket, beyond Width, bounds the tickets.                    *)
(***************************************************************************)
EXTENDS MpmcQueue32, TLC

CONSTANTS MaxTicket

TicketBound == tail <= MaxTicket

Symmetry ==
  Permutations(Pusher) \cup Permutations(Puller) \cup Permutations(Value)

=============================================================================
