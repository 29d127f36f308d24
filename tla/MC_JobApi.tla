------------------------------ MODULE MC_JobApi ------------------------------
(* Instantiations of JobApi for TLC.                                       *)
EXTENDS JobApi

\* Every method of the API, plain and with_http_info.
AllMethods ==
  {"events", "list", "local_events", "results", "states", "submit"}
    \X {"plain", "with_http_info"}

\* Every subset of the recognised options, plus a typo.
AllKwargSets == SUBSET AllParams \cup {{Typo}, {Typo, "async_req"}}

\* For the concurrency runs: two endpoints that share their request type
\* (results, states), each through one of the two variants.
FewMethods == {<<"results", "plain">>, <<"states", "with_http_info">>}

\* Synchronous and asynchronous calls, with and without a timeout, and a
\* call that turns off preloading.
FewKwargSets ==
  { {}, {"_request_timeout"}, {"async_req"},
    {"async_req", "_request_timeout"}, {"_preload_content"} }

=============================================================================
