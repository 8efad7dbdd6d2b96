---------------------------- MODULE RestConnector ----------------------------
(***************************************************************************)
(* RESTConnector: an HTTP server on an event loop of its own, whose handlers*)
(* convert a request and store it at once, and the requests that calls send *)
(* from the caller's thread.  A handler that is to answer with an attribute *)
(* update sleeps on the loop until one comes, so nothing else of the server *)
(* runs meanwhile.  Credentials, bodies and methods are the choice between  *)
(* the outcomes they have; each HTTP request that is let in is one reading. *)
(***************************************************************************)
EXTENDS Naturals, FiniteSets

CONSTANTS RsReadings,   \* the requests sent to the server
          RsExpecting,  \* those whose endpoint has responseExpected
          RsAnonymous,  \* those whose endpoint asks for no credentials
          RsMatches,    \* how many serverSideRpc entries match one device call
          RsReplyBound, \* attribute updates waiting in responses_queue
          RsCalls

ASSUME RestAssumption ==
    /\ RsExpecting \cup RsAnonymous \subseteq RsReadings
    /\ RsMatches \in Nat \ {0} /\ RsReplyBound \in Nat

VARIABLES
    rsLife,    \* "new", "running", "stopping", "closed"
    rsServer,  \* of run(): "none" (no loop yet), "starting", "serving", "dead"
    rsRequest, \* of each request: "none", "body" (awaited), "waiting" (get_response), "done"
    rsReplies, \* the size of responses_queue, shared by every endpoint
    rsFate,    \* of each reading, as in ConnectorContract
    rsCall     \* of each call: its kind, the requests it still has to send, what the caller has

rsVars == <<rsLife, rsServer, rsRequest, rsReplies, rsFate, rsCall>>

RsNoCall == [kind |-> "none", left |-> 0, caller |-> "none"]

RestInit ==
    /\ rsLife = "new" /\ rsServer = "none" /\ rsReplies = 0
    /\ rsRequest = [r \in RsReadings |-> "none"] /\ rsFate = [r \in RsReadings |-> "unread"]
    /\ rsCall = [q \in RsCalls |-> RsNoCall]

\* get_response sleeps in the event loop's thread.
RsBlocked == \E r \in RsReadings : rsRequest[r] = "waiting"
RsServes == rsServer = "serving" /\ ~RsBlocked

-----------------------------------------------------------------------------
RsOpen == rsLife = "new" /\ rsLife' = "running"
          /\ UNCHANGED <<rsServer, rsRequest, rsReplies, rsFate, rsCall>>

\* run: the loop is made, then __run_server, which may raise and end the thread.
RsRun ==
    /\ rsLife = "running"
    /\ \/ rsServer = "none" /\ rsServer' = "starting"
       \/ rsServer = "starting" /\ rsServer' \in {"serving", "dead"}
    /\ UNCHANGED <<rsLife, rsRequest, rsReplies, rsFate, rsCall>>

(* close: before run() has made the loop it raises and changes nothing that    *)
(* the thread looks at; the server then starts as if it had not been called.   *)
RsStop ==
    /\ rsLife = "running" /\ rsServer # "none" /\ rsLife' = "stopping"
    /\ UNCHANGED <<rsServer, rsRequest, rsReplies, rsFate, rsCall>>

(* The loop stops where it is: while it starts, run() dies without a cleanup;  *)
(* then stop_server gives up, or cancels, the requests still in progress.      *)
RsEnd ==
    /\ rsLife = "stopping" /\ ~RsBlocked
    /\ IF \E r \in RsReadings : rsRequest[r] = "body"
       THEN /\ rsRequest' = [r \in RsReadings |->
                               IF rsRequest[r] = "body" THEN "done" ELSE rsRequest[r]]
            /\ rsFate' = [r \in RsReadings |->
                            IF rsRequest[r] = "body" THEN "lost" ELSE rsFate[r]]
            /\ rsServer' = "dead" /\ UNCHANGED rsLife
       ELSE rsLife' = "closed" /\ rsServer' = "dead" /\ UNCHANGED <<rsRequest, rsFate>>
    /\ UNCHANGED <<rsReplies, rsCall>>

-----------------------------------------------------------------------------
(* BasicDataHandler.__call__ up to its first await: 401, or the body is read.  *)
(* AnonymousDataHandler has no credentials to look at.                         *)
RsReceive(r) ==
    /\ RsServes /\ rsLife \in {"running", "stopping"} /\ rsRequest[r] = "none"
    /\ \/ /\ r \notin RsAnonymous
          /\ rsRequest' = [rsRequest EXCEPT ![r] = "done"] /\ UNCHANGED rsFate
       \/ /\ rsRequest' = [rsRequest EXCEPT ![r] = "body"]
          /\ rsFate' = [rsFate EXCEPT ![r] = "held"]
    /\ UNCHANGED <<rsLife, rsServer, rsReplies, rsCall>>

\* _convert_data_from_request: a body that cannot be read raises out of the handler.
RsNoBody(r) ==
    /\ RsServes /\ rsRequest[r] = "body"
    /\ rsRequest' = [rsRequest EXCEPT ![r] = "done"] /\ rsFate' = [rsFate EXCEPT ![r] = "lost"]
    /\ UNCHANGED <<rsLife, rsServer, rsReplies, rsCall>>

\* JsonRESTUplinkConverter.convert keeps what it could convert, if anything.
RsConversions == {"points", "empty"}

(* The rest of the handler: refused (415, 405) or failed (500), the request    *)
(* is not stored; one without data points is not, but still gets a response.   *)
RsHandle(r) ==
    /\ RsServes /\ rsRequest[r] = "body"
    /\ \E c \in RsConversions \cup {"refused"} :
         /\ rsFate' = [rsFate EXCEPT ![r] = IF c = "points" THEN "stored" ELSE "lost"]
         /\ rsRequest' = [rsRequest EXCEPT ![r] =
                            IF c # "refused" /\ r \in RsExpecting THEN "waiting" ELSE "done"]
    /\ UNCHANGED <<rsLife, rsServer, rsReplies, rsCall>>

(* get_response: the first update in the shared queue, whichever request it    *)
(* was meant for, or 408 after the timeout.                                    *)
RsRespond(r) ==
    /\ rsRequest[r] = "waiting" /\ rsRequest' = [rsRequest EXCEPT ![r] = "done"]
    /\ rsReplies' \in IF rsReplies > 0 THEN {rsReplies - 1} ELSE {rsReplies}
    /\ UNCHANGED <<rsLife, rsServer, rsFate, rsCall>>

\* on_attributes_update: requests sent from threads of their own, and a response.
RsAttributeUpdate ==
    /\ rsLife # "new" /\ rsReplies < RsReplyBound /\ rsReplies' = rsReplies + 1
    /\ UNCHANGED <<rsLife, rsServer, rsRequest, rsFate, rsCall>>

-----------------------------------------------------------------------------
(* server_side_rpc_handler: a reserved call sends one request; a device call   *)
(* one for every entry that matches.                                           *)
RsAsk(q, kind) ==
    /\ rsLife # "new" /\ rsCall[q].caller = "none"
    /\ \E n \in IF kind = "reserved" THEN {1} ELSE 0 .. RsMatches :
         rsCall' = [rsCall EXCEPT ![q] = [kind |-> kind, left |-> n, caller |-> "open"]]
    /\ UNCHANGED <<rsLife, rsServer, rsRequest, rsReplies, rsFate>>

\* __send_request, whatever comes of it, and the reply that is only logged.
RsSend(q) ==
    /\ rsCall[q].caller = "open" /\ rsCall[q].left > 0
    /\ rsCall' = [rsCall EXCEPT ![q].left = @ - 1]
    /\ UNCHANGED <<rsLife, rsServer, rsRequest, rsReplies, rsFate>>

(* It returns None in any case, which the gateway takes for an error: after    *)
(* the last request, or when one cannot be parsed, converted or formed.        *)
RsReturn(q) ==
    /\ rsCall[q].caller = "open" /\ rsCall' = [rsCall EXCEPT ![q].caller = "error"]
    /\ UNCHANGED <<rsLife, rsServer, rsRequest, rsReplies, rsFate>>

RsAllSent(q) == rsCall[q].left = 0 /\ RsReturn(q)
RsUnformed(q) == rsCall[q].left > 0 /\ RsReturn(q)

RsCaller(q) == RsSend(q) \/ RsAllSent(q) \/ RsUnformed(q)

RestNext ==
    \/ RsOpen \/ RsRun \/ RsStop \/ RsEnd \/ RsAttributeUpdate
    \/ \E r \in RsReadings : RsReceive(r) \/ RsNoBody(r) \/ RsHandle(r) \/ RsRespond(r)
    \/ \E q \in RsCalls : RsCaller(q) \/ \E kind \in {"reserved", "device"} : RsAsk(q, kind)

RestSpec == RestInit /\ [][RestNext]_rsVars

-----------------------------------------------------------------------------
\* The shapes of the state; at most one request waits on the loop.
RestTypeOK ==
    /\ rsLife \in {"new", "running", "stopping", "closed"}
    /\ rsServer \in {"none", "starting", "serving", "dead"}
    /\ rsRequest \in [RsReadings -> {"none", "body", "waiting", "done"}]
    /\ Cardinality({r \in RsReadings : rsRequest[r] = "waiting"}) <= 1
    /\ rsReplies \in 0 .. RsReplyBound
    /\ rsFate \in [RsReadings -> {"unread", "held", "stored", "lost"}]
    /\ rsCall \in [RsCalls -> [kind : {"none", "reserved", "device"}, left : 0 .. RsMatches,
                               caller : {"none", "open", "error"}]]
=============================================================================
