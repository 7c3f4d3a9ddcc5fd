------------------------------- MODULE MCApiCall -------------------------------
(* One call of every operation, through clients configured in several ways. *)
EXTENDS ApiProperties

MCBaseURLs == {<< >>, <<"api", "v1">>, <<"api", "v1", "", "">>}

Retries(n) == [field |-> "maxRetries", value |-> n]
Source(s)  == [field |-> "tokenSource", value |-> s]
UA(a)  == [field |-> "userAgent", value |-> a]

MCOptionLists ==
    {<<Source("refreshing"), Retries(0), UA("terraform"), Retries(1)>>,
     <<Source("static"), Source("refreshing"), Retries(-1)>>,
     <<Source("refreshing"), Source("static")>>,
     <<Source("static"), Retries(1), Retries(0)>>}

MCStatuses == {200, 201, 204, 401, 403, 404, 422, 429}
=============================================================================
