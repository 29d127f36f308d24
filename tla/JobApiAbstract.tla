--------------------------- MODULE JobApiAbstract ---------------------------
(***************************************************************************)
(* What a resource client promises its callers (spec sections 4.1, 5 and  *)
(* 7), with no threads, pool or queue:                                     *)
(*   - an invocation raises before any I/O exactly when it passed an       *)
(*     unrecognised option, or omitted the request while client-side      *)
(*     validation is on (the spec fixes no order between the two errors);  *)
(*   - otherwise it issues exactly one request, now or later;              *)
(*   - a request ends with the response its endpoint declares (bare for  *)
(*     the plain method), or with a transport error;                      *)
(*   - a handle (async_req) can be cancelled before completion, and then  *)
(*     delivers no response;                                               *)
(*   - every outcome is delivered to the caller at most once;              *)
(*   - a request sent with a timeout does not stay unanswered forever.     *)
(***************************************************************************)
EXTENDS Naturals, Sequences

CONSTANTS Callers, Methods, KwargSets, Typo, None, MaxCalls

Request == "request_model"
Ids == 1..MaxCalls

\* The options section 4.1 lists.
RecognisedOptions == {"async_req", "_return_http_data_only",
                      "_preload_content", "_request_timeout"}

\* The response model of each endpoint (the table of section 4.1).
ResponseTypeOf ==
  [events |-> "EventsResponse", list |-> "ListResponse",
   local_events |-> "LocalEventsResponse", results |-> "ResultsResponse",
   states |-> "StateResponse", submit |-> "SubmitResponse"]

\* The errors an invocation may raise before I/O.
Raisable(r, kw, validation) ==
  {e \in {"TypeError", "ValueError"} :
     \/ e = "TypeError" /\ ~(kw \subseteq RecognisedOptions)
     \/ e = "ValueError" /\ validation /\ r = None}

\* The successful outcomes of invocation inv: the endpoint's model, or the
\* raw response when preloading is off; bare for the plain method and
\* when data only is asked for.  The spec does not describe the
\* with_http_info variant, so the shape of its other results is left open.
Expected(inv) ==
  LET bare == inv.method[2] = "plain" \/ "_return_http_data_only" \in inv.kwargs
  IN  [type  : {IF "_preload_content" \in inv.kwargs THEN "raw"
                ELSE ResponseTypeOf[inv.method[1]]},
       tuple : IF bare THEN {FALSE} ELSE BOOLEAN]

Failed(e) == [error |-> e]

VARIABLES
  validation,   \* the client's client_side_validation setting
  invocations,  \* invocations[i]: caller, method, request and kwargs
  phase,        \* phase[i]: unused, raised, accepted, sent or done
  sent,         \* the requests issued, in order
  outcome,      \* outcome[i]: how request i ended
  delivered,    \* delivered[i]: what the caller received for invocation i
  cancelled     \* handles cancelled

avars == <<validation, invocations, phase, sent, outcome, delivered, cancelled>>

Init ==
  /\ validation \in BOOLEAN
  /\ invocations = <<>>
  /\ phase = [i \in Ids |-> "unused"]
  /\ sent = <<>>
  /\ outcome = [i \in Ids |-> None]
  /\ delivered = [i \in Ids |-> None]
  /\ cancelled = {}

Invoke(c, m, r, kw) ==
  LET id  == Len(invocations) + 1
      err == Raisable(r, kw, validation)
  IN /\ id \in Ids
     /\ invocations' = Append(invocations, [caller |-> c, method |-> m,
                                            request |-> r, kwargs |-> kw])
     /\ \/ \E e \in err :
              /\ phase' = [phase EXCEPT ![id] = "raised"]
              /\ delivered' = [delivered EXCEPT ![id] = Failed(e)]
              /\ UNCHANGED sent
        \/ /\ err = {}
           /\ phase' = [phase EXCEPT ![id] = "accepted"]
           /\ UNCHANGED <<sent, delivered>>
        \/ /\ err = {}
           /\ phase' = [phase EXCEPT ![id] = "sent"]
           /\ sent' = Append(sent, id)
           /\ UNCHANGED delivered
     /\ UNCHANGED <<validation, outcome, cancelled>>

Send(i) ==
  /\ phase[i] = "accepted"
  /\ phase' = [phase EXCEPT ![i] = "sent"]
  /\ sent' = Append(sent, i)
  /\ UNCHANGED <<validation, invocations, outcome, delivered, cancelled>>

Complete(i, o) ==
  /\ phase[i] = "sent"
  /\ phase' = [phase EXCEPT ![i] = "done"]
  /\ outcome' = [outcome EXCEPT ![i] = o]
  /\ UNCHANGED <<validation, invocations, sent, delivered, cancelled>>

Answer(i) ==
  /\ phase[i] = "sent"
  /\ \E o \in Expected(invocations[i]) \cup {Failed("TransportError")} : Complete(i, o)

TimedOut(i) ==
  /\ phase[i] = "sent"
  /\ "_request_timeout" \in invocations[i].kwargs
  /\ Complete(i, Failed("TransportError"))

Cancel(i) ==
  /\ phase[i] \in {"accepted", "sent"}
  /\ "async_req" \in invocations[i].kwargs
  /\ i \notin cancelled
  /\ cancelled' = cancelled \cup {i}
  /\ UNCHANGED <<validation, invocations, phase, sent, outcome, delivered>>

Deliver(i) ==
  /\ phase[i] \in {"accepted", "sent", "done"}
  /\ delivered[i] = None
  /\ phase[i] = "done" \/ i \in cancelled
  /\ delivered' = [delivered EXCEPT ![i] = IF i \in cancelled
                                          THEN Failed("Cancelled")
                                          ELSE outcome[i]]
  /\ UNCHANGED <<validation, invocations, phase, sent, outcome, cancelled>>

Next ==
  \/ \E c \in Callers, m \in Methods, r \in {Request, None}, kw \in KwargSets :
        Invoke(c, m, r, kw)
  \/ \E i \in Ids : Send(i) \/ Answer(i) \/ TimedOut(i) \/ Cancel(i)
                    \/ Deliver(i)

Spec == Init /\ [][Next]_avars /\ \A i \in Ids : WF_avars(TimedOut(i))

=============================================================================
