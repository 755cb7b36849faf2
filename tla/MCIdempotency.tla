---------------------------- MODULE MCIdempotency ----------------------------
(* Small instances of Idempotency for TLC: every constant is given by the  *)
(* cfg.                                                                    *)
EXTENDS Idempotency

=============================================================================
