------------------------------- MODULE MCRemote -------------------------------
(* Two writers of one page, each with a retry. *)
EXTENDS RemoteProperties

CONSTANTS c1, c2

Pairs(a, b) == [c \in {c1, c2} |-> IF c = c1 THEN a ELSE b]

MCScenarios ==
    {Pairs("Create", "Replace"), Pairs("Update", "Update"),
     Pairs("Delete", "Update"), Pairs("Replace", "Delete")}
MCRetrySettings == {1}
MCStatuses      == {200, 201, 204, 404, 429, 503}
MCRetryAfters   == {NoRetryAfter}
MCPayloads      == {"unread"}
=============================================================================
