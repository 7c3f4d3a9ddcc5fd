------------------------------ MODULE MCRetryPool ------------------------------
(* Two calls that share the connections of one base transport. *)
EXTENDS RetryProperties

MCManyRetries   == {5}
MCRetrySettings == {-1, 0, 2}
MCStatuses      == {200, 429, 503}
MCRetryAfters   == {NoRetryAfter}
MCPayloads      == {"unread"}
=============================================================================
