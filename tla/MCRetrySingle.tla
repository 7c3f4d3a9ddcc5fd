---------------------------- MODULE MCRetrySingle ----------------------------
(* One call, every kind of answer, Durations of six bits. *)
EXTENDS RetryProperties

MCRetrySettings == {-1, 0, 1, 4}
MCStatuses      == {200, 404, 429, 503}
MCRetryAfters   == {-1, NoRetryAfter, 0, 1, 8}
MCPayloads      == {"nil", "unread"}
=============================================================================
