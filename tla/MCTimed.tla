-------------------------------- MODULE MCTimed --------------------------------
(* Half seconds; timeouts before, within and after the backoffs. *)
EXTENDS TimedProperties

MCTimeouts      == {0, 1, 3, 6, 12}
MCRetrySettings == {-1, 1, 3}
MCWindows       == {0, 3, 5}
=============================================================================
