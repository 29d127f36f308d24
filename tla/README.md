# TLA+ models of the Bacalhau Python API client

This directory holds TLA+ models of the generated Python client in
`src/clients/python/bacalhau_apiclient`. It also holds the TLC configurations
that check them. `PROJECT.json` lists the components, the runs, the mutants,
the map from each definition to the source lines it translates, the findings
and the hazards.

## The system

The repository slice has two source files:

| Component | Source | State | Operations |
|---|---|---|---|
| `JobApi` resource client | `api/job_api.py` | the `api_client` it was built with (shared) | `events`, `list`, `local_events`, `results`, `states`, `submit`, each with an `*_with_http_info` variant |
| `NodeInfo` model | `models/node_info.py` | `_compute_node_info`, `_labels`, `_node_type`, `_peer_info` | `__init__`, four property setters, `to_dict`, `to_str`/`__repr__`, `__eq__`, `__ne__` |
| `ApiClient` transport and `Configuration` | not in `src/` (spec sections 4.1, 5, 6, 7) | `client_side_validation`, a worker pool, in-flight requests | `call_api` (synchronous, or asynchronous with a handle), `get`/cancel on handles, deserialisation |

How the parts interact:

- A caller thread calls `op(request, **kwargs)`.
- `op` sets `kwargs['_return_http_data_only'] = True` and calls
  `op_with_http_info`. Its async and sync branches make the same call.
- `op_with_http_info` does three things, in this order:
  - It raises `TypeError` for any keyword outside `all_params` (lines 81-87).
  - It raises `ValueError` for a `None` request, but only when
    `api_client.client_side_validation` is set (line 90).
  - It calls `api_client.call_api` with the endpoint's path and response
    type, and forwards `async_req`, `_return_http_data_only`,
    `_preload_content` (default `True`) and `_request_timeout`.
- The transport then works on one of two paths:
  - Synchronous: it sends the request on the caller's thread and blocks.
  - Asynchronous: it queues a task on a shared thread pool and returns a
    handle. The handle can be waited on with `get()` or cancelled (spec
    section 5).
- A response is decoded to the endpoint's response model. With
  `_preload_content=False` the raw response is returned instead. The result
  is the bare data, or a `(data, status, headers)` tuple when
  `_return_http_data_only` is falsy.
- Transport failures (connection error, non-2xx status, timeout) reach the
  caller unchanged.

The hard behaviours:

- Several threads share one client and one pool.
- Asynchronous calls wait in a queue.
- A cancel races a completion, and a timeout races a late answer.
- The checks before I/O depend on the configuration.
- On the model side, the structural conversion (`to_dict`) feeds both
  equality and the wire format.

What makes each component correct:

- JobApi:
  - No request leaves for a call that must raise, and an unrecognised
    keyword is reported before a missing request.
  - A call returns its endpoint's declared model, bare as its docstring
    says.
  - The request sent carries the request model as it was at the call.
  - A call with a timeout never blocks its thread forever.
- NodeInfo:
  - `__eq__` is equality of the wire form.
  - `__ne__` is the negation of `__eq__`.
  - `to_dict` uses wire keys, omits unset fields, and round-trips through
    the decoder (spec sections 3, 4.2 and 8).

## Modules

### `JobApi.tla`: the client and the transport

Client side, translated from `job_api.py`:

- `AllParams` is `all_params` without the required request. The request is
  positional, so it never appears in `kwargs`.
- `WithHttpInfo(path, rtype, request, kwargs, validation)` is the shared body
  of every `*_with_http_info`. It returns the raised exception or the
  `call_api` arguments.
- `events_with_http_info`, `list_with_http_info`, and so on each apply
  `WithHttpInfo` with their own path and `response_type`.
- `events`, `list`, and so on apply `DataOnly`, which forces
  `_return_http_data_only`.
- `Invocation(m, ...)` dispatches a method name `<<endpoint, variant>>` to
  one of these twelve definitions.

Abstractions:

- A request model is the value `Request` or `None`. Each thread holds one
  request model object. `model[c]` is the field contents of that object,
  drawn from the constant `Contents`. A call records the contents the
  model had when the call was made.
- A keyword argument is present or absent. Present means the non-default
  value: `async_req=True`, `_return_http_data_only=True`,
  `_preload_content=False`, or a timeout given.
- `Typo` stands for any unrecognised keyword.

Transport side, modelled from the spec (`spec_modelled` in the map):

- `Call(c, m, r, kw)` is thread `c` calling method `m`. It is the whole
  client method plus the synchronous part of `call_api`, split into three
  disjuncts: raise; queue a pool task and return a handle; or send the
  request and block.
- `WorkerPick(w)` is a pool thread taking the oldest task and sending it.
- `Respond(id)` is the server answering or the exchange failing.
- `Timeout(id)` fires only for requests that carry a forwarded
  `_request_timeout`.
- `Get(c, id)` is waiting on a handle, and `Cancel(c, id)` cancels one that
  has not completed (a no-op after completion, spec section 5).
- `Response(args)` is what a successful exchange returns. It follows the
  generator's `ApiClient`, which this code calls and which gives meaning to
  `_return_http_data_only`: the data alone when the option is truthy, and
  otherwise a `(data, status, headers)` tuple. The spec does not describe
  this option, so `Response` is not checked against it.
- `Return(c)` wakes a blocked thread. It gets the result, or `Cancelled`
  when the handle was cancelled.
- `SetRequest(c, t)` is thread `c` calling a setter on its request model.
  The generated models are mutable, and the method passes the object itself
  (`body=body_params`). `Encode` is the transport encoding that object when
  the request is sent: on the caller's thread for a synchronous call, and on
  the pool thread for an asynchronous one. `body[i]` is what was encoded.
- `wire` is the history of sent requests. `got[i]` is what the calling
  thread received for call `i`.

Fairness:

- The following steps are weakly fair, because the OS schedules these
  threads and the transport's timer fires:
  - pool threads (`WorkerPick`);
  - the timer (`Timeout`);
  - a woken thread (`Return`).
- The server gets no fairness: it may stay silent.
- The calling program gets no fairness: it may stop calling.
- `CHECK_DEADLOCK FALSE` is set because a program that has finished its
  calls really does stop.

### `JobApiAbstract.tla`: what a resource client promises

`JobApiAbstract` states the contract of spec sections 4.1, 5 and 7 with no
threads, pool or queue:

- `Invoke` either raises `TypeError` or `ValueError` before any I/O (the spec
  fixes no order between them), or accepts the call, or accepts and sends it
  at once.
- `Send` issues an accepted call's single request.
- `Answer` ends a request with its endpoint's response or with a transport
  error. The response is bare for the plain method and when data only is
  asked for. The spec does not describe the `with_http_info` variant, so
  the shape of its other results is left open here. Finding 6 checks it
  against the docstrings instead. `TimedOut` ends one that
  carries a timeout.
- `Cancel` marks an asynchronous handle that has not completed, and
  `Deliver` hands each outcome, or `Cancelled`, to the caller once.
- `TimedOut` is weakly fair: a request with a timeout does not stay
  unanswered forever.

`JobApi.tla` defines `Abs == INSTANCE JobApiAbstract WITH ...`:

- `invocations` are the calls without the computed `call_api` arguments.
- A `queued` call is `accepted` and an `inflight` call is `sent`.
- `sent`, `outcome` and `delivered` are `wire`, `result` and `got`.
- The pool, the queue and the blocked threads are hidden.
- Steps map as follows:
  - `Call` is `Invoke`.
  - `WorkerPick` is `Send`.
  - `Respond` is `Answer`, and `Timeout` is `TimedOut`.
  - `Cancel` is `Cancel`.
  - `Return` is `Deliver`.
  - `Get` is a stuttering step.

`RefinesAbstract == Abs!Spec` is checked as a `PROPERTY`.

### `NodeInfo.tla`: the model class

- `obj[o]` holds the four attributes of the instance bound to `o`.
- `Init` is `NodeInfo()`.
- `Construct(o, kw)` is `NodeInfo(**kw)`, and `SetAttr(o, a, v)` is a
  property setter.
- An attribute value is one of three things:
  - `None`;
  - a nested model instance `[model |-> t]`, whose own `to_dict` gives
    `[dict |-> t]`;
  - a plain dict `[dict |-> t]`. A caller may pass a dict in place of a
    nested model. `labels` only holds dicts.
- `ToDict` and `ToDictValue` translate `to_dict`. No attribute is list-typed,
  and `labels` holds strings, so the list and dict branches keep their
  values.
- `NodeInfoEq` and `NodeInfoNe` translate `__eq__` and `__ne__`, including
  the `isinstance` check.
- `Deserialize` is the transport's decoder, modelled from spec section 4.2.
  It reads each attribute under its `attribute_map` key.
- `Serialized` is the spec's wire form: the set attributes under their JSON
  keys. It is the reference that `EqIsStructural` compares against.

## Runs

| Run | Checks | Bounds | Result |
|---|---|---|---|
| `jobapi_methods` | `TypeOK`, `PreconditionGate`, `ResultMatchesRequest` | 1 thread, 1 call; all 12 methods; every subset of the 4 options plus a typo; validation on and off; 2 request contents, so a thread may change its model | pass, 44k states |
| `jobapi_concurrent` | `TimeoutBoundsWait` | 2 threads, 2 calls, 1 pool thread; `results` (plain) and `states` (with_http_info); sync/async with and without timeout, `_preload_content=False` | pass, 236k states |
| `jobapi_missing_request` | `MissingRequestNeverSent` | as `jobapi_methods` | violation |
| `jobapi_refinement` | `RefinesAbstract` | as `jobapi_concurrent` | pass, 236k states |
| `jobapi_with_http_info_return` | `WithHttpInfoReturnsModel` | as `jobapi_methods`, 1 request content | violation |
| `jobapi_starvation` | `TimeoutBoundsHandleWait` | as `jobapi_concurrent` | violation |
| `jobapi_request_aliasing` | `SentBodyIsCallTimeRequest` | 1 thread, 1 call, 2 request contents; `FewMethods`, `FewKwargSets` | violation |
| `nodeinfo_eq` | `TypeOK`, `EqIsStructural`, `NeIsNotEq` | 2 instances, 2 content tokens | pass, 141k states |
| `nodeinfo_roundtrip` | `RoundTrip` | 1 instance, 1 token | violation |
| `nodeinfo_unset` | `UnsetOmitted` | 1 instance, 1 token | violation |

Why these bounds are enough:

- The method table is translated per endpoint. One call per behaviour
  therefore covers every endpoint's path, response type and wrapper.
- The concurrency run puts two calls on a one-thread pool. That is enough for
  the following cases:
  - a synchronous call beside an asynchronous one;
  - two asynchronous calls queued behind each other;
  - a cancel before sending, in flight, and after the answer;
  - a timeout racing the answer.
- Larger pools are not checked. The transport gives each task its own
  handle and result, so more pool threads add interleavings of steps that
  the properties here do not relate. The starvation finding needs one
  silent call per pool thread, whatever the pool size.
- `results` and `states` share their request type, which is where a
  copy-paste slip in the generated code would go unnoticed.
- The other `JobApi` runs give request models a single content value, so
  `SetRequest` is disabled there. Their properties do not read the body.
- Two content tokens distinguish equal from unequal nested values. Having the
  model form, the dict form and `None` for each attribute covers every branch
  of `to_dict` that the declared types can reach.

Each property of a passing run has a mutant in `PROJECT.json`. The mutant is
a plausible bug in the definition it replaces, and TLC finds the property
violated under the run's own configuration. The mutants are:

- a dropped validation check;
- a dropped timeout forwarding;
- a misspelt `response_type`;
- `states` copied from `results` with its response type left unchanged;
- the wrapper not forcing `_return_http_data_only`;
- a setter writing the wrong field;
- `__eq__` comparing attributes;
- `__ne__` copied from `__eq__`.

## Findings

1. **Missing request sent when validation is off** (`job_api.py:90`).
   - Spec section 8 says that a call with the required parameter omitted
     raises and issues no request.
   - The code checks only when `client_side_validation` is set. With it off,
     `call_api` POSTs with body `None`.
   - Section 4.1 of the spec makes the check conditional, so the spec
     contradicts itself.
   - Run: `jobapi_missing_request`.
2. **`to_dict` does not use wire keys** (`node_info.py:158`).
   - `to_dict` keys its result by attribute name and never reads
     `attribute_map`.
   - A decoder that reads wire keys recovers nothing, so the round-trip law of
     spec section 8 fails for every instance with a set attribute.
   - Run: `nodeinfo_roundtrip`.
3. **Unset attributes are emitted as `None`** (`node_info.py:173`).
   - `NodeInfo().to_dict()` holds four `None` entries, where spec sections 3
     and 8 say unset fields are omitted.
   - Run: `nodeinfo_unset`.

4. **A timeout does not bound the wait for a pool thread**
   (`job_api.py:132`).
   - The method forwards `_request_timeout` to the asynchronous task, where
     it bounds the HTTP exchange only.
   - Suppose an asynchronous call without a timeout holds the only pool
     thread and its server stays silent. A later call with a timeout is
     then never sent, and a thread in `get()` on its handle waits forever.
   - The spec offers the timeout override as the caller's bound on a call
     and says nothing of the queue.
   - Run: `jobapi_starvation`.

5. **Changing a request model after an asynchronous call changes the
   request sent** (`job_api.py:107`).
   - The method hands `call_api` the caller's model object, not a
     serialized copy.
   - With `async_req` the body is encoded only when a pool thread runs the
     task. A setter called on the model in between changes the request that
     is sent.
   - Spec section 2 says the method serializes the model and then
     delegates. Section 3 calls models immutable after construction in
     spirit.
   - Run: `jobapi_request_aliasing`. The counterexample has four states:
     an asynchronous call, a setter, then the pool thread sending.

6. **`*_with_http_info` does not return the model its docstring
   declares** (`job_api.py:130`).
   - Each `*_with_http_info` forwards
     `_return_http_data_only=params.get(...)`. That is `None` unless the
     caller passed it, so the transport returns a `(data, status, headers)`
     tuple.
   - The docstrings say `:return: EventsResponse` (line 69), and likewise at
     lines 168, 267, 366, 465 and 564. Spec section 4.1 says the
     synchronous path returns the decoded model.
   - Only the plain wrapper, through line 51, returns the declared model.
   - Run: `jobapi_with_http_info_return`.

## Not modelled

- Cancellation is modelled from the spec only. Nothing in `src/` cancels
  a handle, so the project states no property about it apart from what the
  refinement checks.

- An explicit `_preload_content=None`. The code defaults the option only
  when the key is absent, so `None` reaches the transport and gives a raw
  response. The model abstracts each option to present or absent, and the
  spec does not say what `None` should mean. This is listed as a hazard.

- `to_str` and `__repr__`: pprint formatting, which changes no state.
- Header negotiation. Every endpoint selects `application/json` from a
  one-element list.
- Authentication settings, which are empty.
- Body serialisation.
- The transport's `last_response` attribute and its thread pool internals.
  They are not described by the spec, and the transport is outside `src/`.
- The request and response model classes other than `NodeInfo`, which are not
  in this slice.
- The server.

## Plan

Done:

- Sitting 1: the `JobApi` client with the transport, and the `NodeInfo`
  model.
- Sitting 2:
  - the abstract specification and the refinement;
  - the pool-starvation run.
- Sitting 3: request models passed by reference and encoded when sent,
  and the aliasing finding.
- Sitting 5, after a review against the source:
  - Properties that held by the shape of the modelled transport alone were
    removed, along with the large run that checked only them. They were
    one request per call, cancellation and its release of waiters, and the
    per-call response routing.
  - The key-before-request order of the checks was added to
    `PreconditionGate`.
  - `ResultMatchesRequest` no longer asserts the tuple shape, and finding 6
    reports the `with_http_info` return.

What is left, and why it is not planned as a run:

- **Transport faults beyond a failed exchange.** A connection that drops
  after the server has acted is already a `Respond` with `TransportError`.
  The client has no retry and no resend, so a property that it never
  resends would hold by the shape of the code. A run for it would show
  nothing.
- **Liveness of calls without a timeout.** Such a wait ends only if the
  server answers, and nothing in the code makes the server fair. The
  liveness hazard in `PROJECT.json` is covered for calls with a timeout
  only (`TimeoutBoundsWait`).
- **`_preload_content=None`.** The model would need a third value for each
  option, and the outcome is decided in the transport outside `src/`, with
  nothing in the spec to check it against.
