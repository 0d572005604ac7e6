----------------------------- MODULE MCBilling -----------------------------
(* Every combination of settings that are missing, garbled, zero, shorter  *)
(* and longer than the interval of the killer.                             *)
EXTENDS Billing

Settings == {Missing, Garbled, 0, 1, 2, 3, 5}

\* destroy_safe_time left out, as the sections vagrant, linode and vultr do.
NoSafeTime == {Missing}
=============================================================================
