-------------------------- MODULE CourtBookingClaims --------------------------
(***************************************************************************)
(* Statements of the repository's documents and tests about court bookings *)
(* that the code does not keep; a run refutes what this module states.     *)
(***************************************************************************)
EXTENDS CourtBooking

(* "after proof submission, reserve it until human review [...] without    *)
(* automatically releasing possibly paid inventory" (ADR 0002).  The       *)
(* submission and the status are two commits of submitProof, and the       *)
(* expiry job may run between them.                                        *)
PaidInventoryIsKept ==
  \A b \in Booking : status[b] = "EXPIRED" =>
    \A p \in Ref : subBooking[p] = b => subStatus[p] # "PENDING"

=============================================================================
