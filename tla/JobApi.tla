------------------------------- MODULE JobApi -------------------------------
(***************************************************************************)
(* The generated resource client JobApi (api/job_api.py) together with the *)
(* shared transport ApiClient it delegates to.                            *)
(*                                                                         *)
(* Every endpoint has a pair of methods: `op` forces                       *)
(* _return_http_data_only and calls `op_with_http_info`, which rejects     *)
(* unknown keyword arguments (TypeError), rejects a missing request when   *)
(* client-side validation is on (ValueError), and hands the request to    *)
(* ApiClient.call_api.  The transport is not part of src/: it is modelled *)
(* from the spec (sections 4.1, 5, 6 and 7): a synchronous call sends the  *)
(* request on the caller's thread and blocks; an asynchronous one queues a *)
(* task on a pool of worker threads and returns a cancellable handle.     *)
(*                                                                         *)
(* Data is abstracted to what the properties tell apart: a request model  *)
(* is the value Request or None; a keyword argument is present or absent, *)
(* and present means the non-default value (async_req=True,               *)
(* _return_http_data_only=True, _preload_content=False, a timeout given). *)
(***************************************************************************)
EXTENDS Naturals, Sequences, FiniteSets, SequencesExt

CONSTANTS
  Callers,    \* threads of the calling program sharing one ApiClient
  Methods,    \* the JobApi methods they call: <<endpoint, variant>> pairs
  KwargSets,  \* the sets of keyword arguments they pass
  Typo,       \* a keyword argument no method recognises (model value)
  None,       \* Python None (model value)
  MaxCalls,   \* bound on the number of invocations in a behaviour
  PoolSize,   \* worker threads of the transport's pool
  Contents    \* field values a thread's request model can hold

Request == "request_model"
Ids == 1..MaxCalls

ASSUME MaxCalls \in Nat \ {0} /\ PoolSize \in Nat \ {0}

-----------------------------------------------------------------------------
(* The client: job_api.py                                                 *)

\* The keyword arguments every *_with_http_info accepts besides the
\* (positional) required request.
AllParams == {"async_req", "_return_http_data_only",
              "_preload_content", "_request_timeout"}

\* Mutant: the required-parameter check left out of the template.
WithHttpInfoNoValidation(path, rtype, request, kwargs, validation) ==
  IF ~(kwargs \subseteq AllParams) THEN [raised |-> "TypeError"]
  ELSE [raised |-> "none",
        args |-> [path |-> path, rtype |-> rtype, body |-> request,
                  async |-> "async_req" \in kwargs,
                  dataOnly |-> "_return_http_data_only" \in kwargs,
                  preload |-> "_preload_content" \notin kwargs,
                  timeout |-> "_request_timeout" \in kwargs]]

\* Mutant: _request_timeout not forwarded to call_api.
WithHttpInfoNoTimeout(path, rtype, request, kwargs, validation) ==
  IF ~(kwargs \subseteq AllParams) THEN [raised |-> "TypeError"]
  ELSE IF validation /\ request = None THEN [raised |-> "ValueError"]
  ELSE [raised |-> "none",
        args |-> [path |-> path, rtype |-> rtype, body |-> request,
                  async |-> "async_req" \in kwargs,
                  dataOnly |-> "_return_http_data_only" \in kwargs,
                  preload |-> "_preload_content" \notin kwargs,
                  timeout |-> FALSE]]

\* The body of every *_with_http_info: the kwargs loop, the
\* required-parameter check, and the arguments passed to call_api.
WithHttpInfo(path, rtype, request, kwargs, validation) ==
  IF ~(kwargs \subseteq AllParams) THEN [raised |-> "TypeError"]
  ELSE IF validation /\ request = None THEN [raised |-> "ValueError"]
  ELSE [raised |-> "none",
        args |-> [path     |-> path,
                  rtype    |-> rtype,
                  body     |-> request,
                  async    |-> "async_req" \in kwargs,
                  dataOnly |-> "_return_http_data_only" \in kwargs,
                  preload  |-> "_preload_content" \notin kwargs,
                  timeout  |-> "_request_timeout" \in kwargs]]

\* `op` sets kwargs['_return_http_data_only'] = True whatever the caller
\* passed; its async and sync branches make the same call.
DataOnly(kwargs) == kwargs \cup {"_return_http_data_only"}

events_with_http_info(r, kw, v) ==
  WithHttpInfo("/requester/events", "EventsResponse", r, kw, v)
events(r, kw, v) == events_with_http_info(r, DataOnly(kw), v)
list_with_http_info(r, kw, v) ==
  WithHttpInfo("/requester/list", "ListResponse", r, kw, v)
list(r, kw, v) == list_with_http_info(r, DataOnly(kw), v)
local_events_with_http_info(r, kw, v) ==
  WithHttpInfo("/requester/local_events", "LocalEventsResponse", r, kw, v)
local_events(r, kw, v) == local_events_with_http_info(r, DataOnly(kw), v)
\* Mutant: a misspelt response_type.
ResultsTypo(r, kw, v) ==
  WithHttpInfo("/requester/results", "ResultResponse", r, kw, v)
results_with_http_info(r, kw, v) ==
  WithHttpInfo("/requester/results", "ResultsResponse", r, kw, v)
\* Mutant: the wrapper passes the caller's kwargs through unchanged.
ResultsPassThrough(r, kw, v) == results_with_http_info(r, kw, v)
results(r, kw, v) == results_with_http_info(r, DataOnly(kw), v)
\* Mutant: states copied from results (same request type) and its
\* response_type left unchanged.
StatesCopiedFromResults(r, kw, v) ==
  WithHttpInfo("/requester/states", "ResultsResponse", r, kw, v)
states_with_http_info(r, kw, v) ==
  WithHttpInfo("/requester/states", "StateResponse", r, kw, v)
states(r, kw, v) == states_with_http_info(r, DataOnly(kw), v)
submit_with_http_info(r, kw, v) ==
  WithHttpInfo("/requester/submit", "SubmitResponse", r, kw, v)
submit(r, kw, v) == submit_with_http_info(r, DataOnly(kw), v)

\* Calling method m of JobApi.
Invocation(m, r, kw, v) ==
  CASE m = <<"events", "plain">>             -> events(r, kw, v)
    [] m = <<"events", "with_http_info">>    -> events_with_http_info(r, kw, v)
    [] m = <<"list", "plain">>               -> list(r, kw, v)
    [] m = <<"list", "with_http_info">>      -> list_with_http_info(r, kw, v)
    [] m = <<"local_events", "plain">>       -> local_events(r, kw, v)
    [] m = <<"local_events", "with_http_info">> ->
                                          local_events_with_http_info(r, kw, v)
    [] m = <<"results", "plain">>            -> results(r, kw, v)
    [] m = <<"results", "with_http_info">>   -> results_with_http_info(r, kw, v)
    [] m = <<"states", "plain">>             -> states(r, kw, v)
    [] m = <<"states", "with_http_info">>    -> states_with_http_info(r, kw, v)
    [] m = <<"submit", "plain">>             -> submit(r, kw, v)
    [] m = <<"submit", "with_http_info">>    -> submit_with_http_info(r, kw, v)

-----------------------------------------------------------------------------
(* The transport (ApiClient, modelled from the spec)                      *)

\* A failure raised by the transport: connection error, non-2xx status,
\* decode failure or timeout, propagated unchanged to the caller.
TransportError == [error |-> "TransportError"]

\* What a successful exchange returns, as the generator's ApiClient that
\* this code calls does it (the spec does not describe the option): the
\* decoded response model, or the raw response when preloading is off;
\* alone when _return_http_data_only is truthy, else a (data, status,
\* headers) tuple.

Response(args) ==
  [type  |-> IF args.preload THEN args.rtype ELSE "raw",
   tuple |-> ~args.dataOnly]

VARIABLES
  validation,   \* api_client.client_side_validation
  calls,        \* calls[i]: the i-th invocation (caller, method, arguments)
  status,       \* status[i]: unused, raised, queued, inflight or done
  result,       \* result[i]: what the transport produced for call i
  got,          \* got[i]: what the calling thread received for call i
  wire,         \* the HTTP requests sent, in order, as call ids
  outstanding,  \* ids of requests sent and not yet answered
  queue,        \* the pool's task queue of asynchronous calls
  worker,       \* worker[w]: the call pool thread w is running, or 0
  blocked,      \* blocked[c]: the call thread c waits on, or 0
  cancelled,    \* handles cancelled by some thread
  model,        \* model[c]: the fields of the request model thread c passes
  body          \* body[i]: the request body encoded for call i, or None

vars == <<validation, calls, status, result, got, wire, outstanding, queue,
          worker, blocked, cancelled, model, body>>

Init ==
  /\ validation \in BOOLEAN
  /\ calls = <<>>
  /\ status = [i \in Ids |-> "unused"]
  /\ result = [i \in Ids |-> None]
  /\ got = [i \in Ids |-> None]
  /\ wire = <<>>
  /\ outstanding = {}
  /\ queue = <<>>
  /\ worker = [w \in 1..PoolSize |-> 0]
  /\ blocked = [c \in Callers |-> 0]
  /\ cancelled = {}
  /\ model \in [Callers -> Contents]
  /\ body = [i \in Ids |-> None]

\* The body the transport encodes from the request model object a call
\* passed (body=body_params, the caller's object itself): its fields at the
\* time of encoding; no body for a None request.
Encode(c, r) == IF r = None THEN None ELSE model[c]

IsAsync(i) == calls[i].gate.raised = "none" /\ calls[i].gate.args.async

\* Thread c calls method m: the client's checks run on c's thread; then
\* call_api either raises, queues a pool task, or sends and blocks.
Call(c, m, r, kw) ==
  LET id == Len(calls) + 1
      g  == Invocation(m, r, kw, validation)
  IN /\ blocked[c] = 0
     /\ Len(calls) < MaxCalls
     /\ calls' = Append(calls, [caller |-> c, method |-> m, request |-> r,
                                kwargs |-> kw, gate |-> g, content |-> model[c]])
     /\ \/ /\ g.raised # "none"
           /\ status' = [status EXCEPT ![id] = "raised"]
           /\ got' = [got EXCEPT ![id] = [error |-> g.raised]]
           /\ UNCHANGED <<result, wire, outstanding, queue, blocked, body>>
        \/ /\ g.raised = "none" /\ g.args.async
           /\ status' = [status EXCEPT ![id] = "queued"]
           /\ queue' = Append(queue, id)
           /\ UNCHANGED <<result, got, wire, outstanding, blocked, body>>
        \/ /\ g.raised = "none" /\ ~g.args.async
           /\ status' = [status EXCEPT ![id] = "inflight"]
           /\ wire' = Append(wire, id)
           /\ outstanding' = outstanding \cup {id}
           /\ blocked' = [blocked EXCEPT ![c] = id]
           /\ body' = [body EXCEPT ![id] = Encode(c, r)]
           /\ UNCHANGED <<result, got, queue>>
     /\ UNCHANGED <<validation, worker, cancelled, model>>

\* A free pool thread takes the oldest task and sends its request.
WorkerPick(w) ==
  /\ worker[w] = 0
  /\ queue # <<>>
  /\ LET id == Head(queue) IN
       /\ worker' = [worker EXCEPT ![w] = id]
       /\ queue' = Tail(queue)
       /\ wire' = Append(wire, id)
       /\ outstanding' = outstanding \cup {id}
       /\ status' = [status EXCEPT ![id] = "inflight"]
       /\ body' = [body EXCEPT ![id] = Encode(calls[id].caller, calls[id].request)]
  /\ UNCHANGED <<validation, calls, result, got, blocked, cancelled, model>>

\* The exchange of call id ends with r; a pool thread running it is freed.
Finish(id, r) ==
  /\ outstanding' = outstanding \ {id}
  /\ status' = [status EXCEPT ![id] = "done"]
  /\ result' = [result EXCEPT ![id] = r]
  /\ worker' = [w \in DOMAIN worker |-> IF worker[w] = id THEN 0 ELSE worker[w]]
  /\ UNCHANGED <<validation, calls, got, wire, queue, blocked, cancelled,
                 model, body>>

\* The server answers, or the connection fails or the status is not 2xx.
Respond(id) ==
  /\ id \in outstanding
  /\ \E r \in {Response(calls[id].gate.args), TransportError} : Finish(id, r)

\* The transport gives up on a request sent with a _request_timeout.
Timeout(id) ==
  /\ id \in outstanding
  /\ calls[id].gate.args.timeout
  /\ Finish(id, TransportError)

\* Thread c calls get() on the handle of its asynchronous call id.
Get(c, id) ==
  /\ blocked[c] = 0
  /\ calls[id].caller = c
  /\ IsAsync(id)
  /\ got[id] = None
  /\ blocked' = [blocked EXCEPT ![c] = id]
  /\ UNCHANGED <<validation, calls, status, result, got, wire, outstanding,
                 queue, worker, cancelled, model, body>>

\* A thread cancels a handle before its call completes (a no-op after).
Cancel(c, id) ==
  /\ blocked[c] = 0
  /\ IsAsync(id)
  /\ status[id] # "done"
  /\ id \notin cancelled
  /\ cancelled' = cancelled \cup {id}
  /\ UNCHANGED <<validation, calls, status, result, got, wire, outstanding,
                 queue, worker, blocked, model, body>>

\* The thread blocked on call id resumes: the call is done, or its handle
\* was cancelled and the thread stops waiting.
Return(c) ==
  LET id == blocked[c] IN
  /\ id # 0
  /\ status[id] = "done" \/ id \in cancelled
  /\ got' = [got EXCEPT ![id] = IF id \in cancelled THEN [error |-> "Cancelled"]
                                                     ELSE result[id]]
  /\ blocked' = [blocked EXCEPT ![c] = 0]
  /\ UNCHANGED <<validation, calls, status, result, wire, outstanding, queue,
                 worker, cancelled, model, body>>

\* Thread c, not waiting, sets a field of its request model (the
\* generated models are mutable; the spec calls them immutable only in
\* spirit).
SetRequest(c, t) ==
  /\ blocked[c] = 0
  /\ t # model[c]
  /\ model' = [model EXCEPT ![c] = t]
  /\ UNCHANGED <<validation, calls, status, result, got, wire, outstanding,
                 queue, worker, blocked, cancelled, body>>

Next ==
  \/ \E c \in Callers, m \in Methods, r \in {Request, None}, kw \in KwargSets :
        Call(c, m, r, kw)
  \/ \E w \in 1..PoolSize : WorkerPick(w)
  \/ \E id \in Ids : Respond(id) \/ Timeout(id)
  \/ \E c \in Callers, id \in 1..Len(calls) : Get(c, id) \/ Cancel(c, id)
  \/ \E c \in Callers : Return(c)
  \/ \E c \in Callers, t \in Contents : SetRequest(c, t)

\* Pool threads, the transport's timer and woken threads are scheduled by
\* the OS; the server and the calling program get no fairness.
Fairness ==
  /\ \A w \in 1..PoolSize : WF_vars(WorkerPick(w))
  /\ \A id \in Ids : WF_vars(Timeout(id))
  /\ \A c \in Callers : WF_vars(Return(c))

Spec == Init /\ [][Next]_vars /\ Fairness

-----------------------------------------------------------------------------
(* Properties                                                              *)

\* The response model of each endpoint, as the spec's table lists it.
SpecResponseType ==
  [events |-> "EventsResponse", list |-> "ListResponse",
   local_events |-> "LocalEventsResponse", results |-> "ResultsResponse",
   states |-> "StateResponse", submit |-> "SubmitResponse"]

IsResponse(v) == v # None /\ DOMAIN v = {"type", "tuple"}

ResponseRecords ==
  [type : {SpecResponseType[e] : e \in DOMAIN SpecResponseType} \cup {"raw"},
   tuple : BOOLEAN]

\* Every variable holds values of its intended kind; in particular every
\* response a call produces is of a response type the API declares.
TypeOK ==
  /\ validation \in BOOLEAN
  /\ Len(calls) <= MaxCalls
  /\ \A i \in 1..Len(calls) : calls[i].caller \in Callers
                              /\ calls[i].method \in Methods
  /\ status \in [Ids -> {"unused", "raised", "queued", "inflight", "done"}]
  /\ result \in [Ids -> ResponseRecords \cup {TransportError, None}]
  /\ got \in [Ids -> ResponseRecords \cup {None} \cup
                     [error : {"TransportError", "TypeError", "ValueError",
                               "Cancelled"}]]
  /\ wire \in Seq(Ids) /\ queue \in Seq(Ids)
  /\ outstanding \subseteq Ids /\ cancelled \subseteq Ids
  /\ worker \in [1..PoolSize -> 0..MaxCalls]
  /\ blocked \in [Callers -> 0..MaxCalls]
  /\ model \in [Callers -> Contents]
  /\ body \in [Ids -> Contents \cup {None}]

\* The precondition gate of *_with_http_info (lines 80-92 of each): no
\* request reaches the network for a call that passed an unrecognised
\* keyword argument, nor, while client-side validation is on, for a call
\* whose required request was None; a call that raised sent nothing; and
\* the keyword check comes first, so a call with an unrecognised keyword
\* raises TypeError even when its request is also missing.
PreconditionGate ==
  /\ \A i \in ToSet(wire) :
        /\ Typo \notin calls[i].kwargs
        /\ validation => calls[i].request # None
        /\ status[i] # "raised"
  /\ \A i \in 1..Len(calls) :
        Typo \in calls[i].kwargs => got[i] = [error |-> "TypeError"]

\* What a call returns is of the model its endpoint declares (the path
\* and response_type of lines 119-127 agree with the spec's table), or the
\* raw response when it passed _preload_content=False; and the plain
\* method, whatever options the caller gave, returns the bare model as its
\* docstring says (line 51 forces _return_http_data_only).
ResultMatchesRequest ==
  \A i \in 1..Len(calls) :
     IsResponse(got[i]) =>
        LET m  == calls[i].method
            kw == calls[i].kwargs
        IN  /\ got[i].type = IF "_preload_content" \in kw THEN "raw"
                             ELSE SpecResponseType[m[1]]
            /\ m[2] = "plain" => ~got[i].tuple

\* Every *_with_http_info docstring says the method returns its endpoint's
\* model (":return: EventsResponse", line 69, and likewise for the other
\* five), as spec section 4.1 says of the synchronous path.  The method
\* forwards _return_http_data_only=params.get(...) (line 130), None unless
\* the caller passed it, and the transport then returns a tuple.
WithHttpInfoReturnsModel ==
  \A i \in 1..Len(calls) :
     (IsResponse(got[i]) /\ "_preload_content" \notin calls[i].kwargs)
       => ~got[i].tuple

\* A thread blocked on a request that is on the wire and was sent with a
\* _request_timeout eventually resumes, even if the server never answers:
\* the method forwards the timeout to the transport.
TimeoutBoundsWait ==
  \A c \in Callers :
     (blocked[c] \in outstanding
        /\ "_request_timeout" \in calls[blocked[c]].kwargs)
       ~> blocked[c] = 0

\* A thread waiting on get() for a call made with a _request_timeout
\* eventually resumes, wherever the call is: the spec offers the timeout
\* override as the bound on a call, and the method forwards it to the
\* asynchronous task as well (lines 129 and 132), where it covers the
\* exchange but not the wait for a free pool thread.
TimeoutBoundsHandleWait ==
  \A c \in Callers :
     (blocked[c] # 0 /\ "_request_timeout" \in calls[blocked[c]].kwargs)
       ~> blocked[c] = 0

\* The request sent for a call carries the fields its request model had
\* when the thread made the call: spec section 2 has the method serialize
\* the model before delegating.  The method passes the model object itself
\* (body=body_params, lines 105-107 and 124), and an asynchronous call is
\* encoded only when a pool thread sends it.
SentBodyIsCallTimeRequest ==
  \A i \in ToSet(wire) : calls[i].request # None => body[i] = calls[i].content

\* Spec section 8: a call whose required request is omitted raises
\* MissingRequiredArgument and issues no network request.  The check in
\* *_with_http_info (line 90) runs only when client_side_validation is on.
MissingRequestNeverSent ==
  \A i \in ToSet(wire) : calls[i].request # None

-----------------------------------------------------------------------------
(* Refinement: JobApi implements the resource-client promise              *)

\* The pool, its queue and the blocked threads are hidden; a queued call
\* is one the abstract client has accepted but not yet sent.
Abs == INSTANCE JobApiAbstract WITH
         invocations <- [i \in 1..Len(calls) |->
                           [caller |-> calls[i].caller,
                            method |-> calls[i].method,
                            request |-> calls[i].request,
                            kwargs |-> calls[i].kwargs]],
         phase <- [i \in Ids |-> CASE status[i] = "queued"   -> "accepted"
                                   [] status[i] = "inflight" -> "sent"
                                   [] OTHER                  -> status[i]],
         sent <- wire,
         outcome <- result,
         delivered <- got

\* Every behaviour of the client with its transport, threads and pool is
\* a behaviour the spec allows a resource client: errors only before I/O,
\* one request per accepted call, the endpoint's response or a transport
\* error in the shape the spec fixes, no response through a cancelled
\* handle, each outcome delivered at most once, and no request with a
\* timeout left unanswered forever.
RefinesAbstract == Abs!Spec

=============================================================================
