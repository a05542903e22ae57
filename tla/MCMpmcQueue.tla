---------------------------- MODULE MCMpmcQueue ----------------------------
(***************************************************************************)
(* Small instances of MpmcQueue for TLC.  Tickets grow without bound in    *)
(* the module; MaxTicket bounds them here.                                 *)
(***************************************************************************)
EXTENDS MpmcQueue, TLC

CONSTANTS MaxTicket

TicketBound == tail <= MaxTicket

Symmetry ==
  Permutations(Pusher) \cup Permutations(Puller) \cup Permutations(Value)

=============================================================================
