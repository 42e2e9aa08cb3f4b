----------------------------- MODULE MCDdrRing -----------------------------
(* Model checking of DdrRing: constants are set in the .cfg files. *)
EXTENDS DdrRing

\* What a refill ends with: an I/O error, or -EPIPE of spf_tandem_session_collect
\* when the tandem device is gone (ETIMEDOUT and EOVERFLOW arise in the producer).
RefillErrno == {"EIO", "EPIPE"}
=============================================================================
