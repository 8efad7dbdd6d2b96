--------------------------- MODULE RequestConnector ---------------------------
(***************************************************************************)
(* RequestConnector: a thread that starts a daemon thread for every HTTP    *)
(* request that is due and stores one converted answer per round, while     *)
(* calls from the gateway send requests of their own.  Nobody joins the     *)
(* threads of the requests: they outlive close() by as long as their answer *)
(* takes.  An answer of an endpoint, with whatever its sub requests add, is *)
(* one reading; whether the clock finds a request due is its own choice.    *)
(***************************************************************************)
EXTENDS Naturals, Sequences, FiniteSets

CONSTANTS RqEndpoints,   \* the configured requests
          RqNoConverter, \* those whose custom converter was not found
          RqThreads,     \* how many requests are under way at once
          RqQueueBound,  \* the size of __convert_queue
          RqMatches,     \* how many attribute updates match at most
          RqReadings, RqCalls

ASSUME RequestAssumption ==
    RqNoConverter \subseteq RqEndpoints /\ {RqQueueBound, RqMatches} \subseteq Nat \ {0}

VARIABLES
    rqLife,    \* "new", "running", "stopping" (__stopped is set), "closed"
    rqRound,   \* where run() is: "requests", "data", "ended"
    rqDue,     \* the endpoints whose next_time has passed
    rqThread,  \* of each thread: its step, its endpoint and the answer it holds
    rqQueue,   \* __convert_queue
    rqFate,    \* of each reading, as in ConnectorContract
    rqCall     \* of each call: its kind, the request's thread, what the caller has

rqVars == <<rqLife, rqRound, rqDue, rqThread, rqQueue, rqFate, rqCall>>

RqIdle == [pc |-> "none", endpoint |-> "none", reading |-> "none"]
RqNoCall == [kind |-> "none", left |-> 0, task |-> "none", caller |-> "none"]
RqKinds == {"reserved", "device", "connector", "attribute"}

RequestInit ==
    /\ rqLife = "new" /\ rqRound = "requests" /\ rqDue = RqEndpoints
    /\ rqThread = [t \in RqThreads |-> RqIdle] /\ rqQueue = <<>>
    /\ rqFate = [r \in RqReadings |-> "unread"] /\ rqCall = [q \in RqCalls |-> RqNoCall]

\* next_time passes, which only a running loop looks at.
RqLater(e) == rqLife = "running" /\ e \notin rqDue /\ rqDue' = rqDue \cup {e}
              /\ UNCHANGED <<rqLife, rqRound, rqThread, rqQueue, rqFate, rqCall>>

-----------------------------------------------------------------------------
\* open and close: neither waits for a thread.
RqOpen == rqLife = "new" /\ rqLife' = "running"
          /\ UNCHANGED <<rqRound, rqDue, rqThread, rqQueue, rqFate, rqCall>>

RqStop == rqLife = "running" /\ rqLife' = "stopping"
          /\ UNCHANGED <<rqRound, rqDue, rqThread, rqQueue, rqFate, rqCall>>

(* run, the first half of a round.  next_time is moved on by the new thread,   *)
(* so an endpoint whose thread has not begun is due, and started, once more.   *)
RqSweep ==
    /\ rqLife = "running" /\ rqRound = "requests" /\ rqRound' = "data"
    /\ \E chosen \in [rqDue -> {t \in RqThreads : rqThread[t] = RqIdle}] :
         /\ \A d, e \in rqDue : chosen[d] = chosen[e] => d = e
         /\ rqThread' = [t \in RqThreads |->
              IF \E e \in rqDue : chosen[e] = t
              THEN [pc |-> "born", reading |-> "none",
                    endpoint |-> CHOOSE e \in rqDue : chosen[e] = t]
              ELSE rqThread[t]]
    /\ UNCHANGED <<rqLife, rqDue, rqQueue, rqFate, rqCall>>

(* __process_data, the second half: one answer, unless it has no data points.  *)
RqProcess ==
    /\ rqRound = "data" /\ rqRound' = "requests"
    /\ IF rqQueue = <<>> THEN UNCHANGED <<rqQueue, rqFate>>
       ELSE LET item == Head(rqQueue) IN
            /\ rqQueue' = Tail(rqQueue)
            /\ rqFate' = [rqFate EXCEPT ![item.reading] =
                            IF item.converted = "points" THEN "stored" ELSE "lost"]
    /\ UNCHANGED <<rqLife, rqDue, rqThread, rqCall>>

RqRunEnds ==
    /\ rqLife = "stopping" /\ rqRound = "requests" /\ rqRound' = "ended"
    /\ UNCHANGED <<rqLife, rqDue, rqThread, rqQueue, rqFate, rqCall>>

-----------------------------------------------------------------------------
\* __send_request, in its thread, before the request goes out.
RqBegin(t) ==
    LET e == rqThread[t].endpoint IN
    /\ rqThread[t].pc = "born" /\ rqDue' = rqDue \ {e}
    /\ rqThread' = [rqThread EXCEPT ![t] =
                      IF e \in RqNoConverter THEN RqIdle ELSE [@ EXCEPT !.pc = "sending"]]
    /\ UNCHANGED <<rqLife, rqRound, rqQueue, rqFate, rqCall>>

(* __execute_request raised (timeout, no connection) or the answer was not ok: *)
(* the thread ends; so it does, without a word, when the queue is full.        *)
RqNoAnswer(t) ==
    /\ rqThread[t].pc = "sending"
    /\ rqThread' = [rqThread EXCEPT ![t] = RqIdle]
    /\ UNCHANGED <<rqLife, rqRound, rqDue, rqQueue, rqFate, rqCall>>

RqAnswer(t, r) ==
    /\ rqThread[t].pc = "sending" /\ rqFate[r] = "unread" /\ Len(rqQueue) < RqQueueBound
    /\ rqFate' = [rqFate EXCEPT ![r] = "held"]
    /\ rqThread' = [rqThread EXCEPT ![t].reading = r, ![t].pc = "sub"]
    /\ UNCHANGED <<rqLife, rqRound, rqDue, rqQueue, rqCall>>

(* __process_sub_requests, none or several: one that fails is skipped; one     *)
(* that cannot be processed, or merged, ends the thread and loses the reading. *)
RqSubRequest(t) ==
    LET r == rqThread[t].reading IN
    /\ rqThread[t].pc = "sub"
    /\ \/ rqThread' = [rqThread EXCEPT ![t].pc = "convert"] /\ UNCHANGED rqFate
       \/ rqThread' = [rqThread EXCEPT ![t] = RqIdle] /\ rqFate' = [rqFate EXCEPT ![r] = "lost"]
    /\ UNCHANGED <<rqLife, rqRound, rqDue, rqQueue, rqCall>>

(* JsonRequestUplinkConverter.convert raises on what is not JSON, and keeps    *)
(* what it could convert before any other exception.                           *)
RqConversions == {"points", "empty", "raised"}

(* __convert_data: put() waits for room, which others may have taken since.    *)
RqConvert(t) ==
    LET r == rqThread[t].reading IN
    /\ rqThread[t].pc = "convert" /\ rqThread' = [rqThread EXCEPT ![t] = RqIdle]
    /\ \E c \in RqConversions :
         \/ /\ c # "raised" /\ Len(rqQueue) < RqQueueBound
            /\ rqQueue' = Append(rqQueue, [reading |-> r, converted |-> c]) /\ UNCHANGED rqFate
         \/ /\ c = "raised" /\ rqLife # "closed"
            /\ rqFate' = [rqFate EXCEPT ![r] = "lost"] /\ UNCHANGED rqQueue
    /\ UNCHANGED <<rqLife, rqRound, rqDue, rqCall>>

(* Nothing of the connector runs any more; a thread that still waits for room  *)
(* in the queue waits for good, for nobody takes from it.                      *)
RqEnd ==
    /\ rqLife = "stopping" /\ rqRound = "ended" /\ rqLife' = "closed"
    /\ \A t \in RqThreads : rqThread[t].pc = "none"
         \/ (rqThread[t].pc = "convert" /\ Len(rqQueue) = RqQueueBound)
    /\ UNCHANGED <<rqRound, rqDue, rqThread, rqQueue, rqFate, rqCall>>

-----------------------------------------------------------------------------
(* server_side_rpc_handler and on_attributes_update, on the caller's thread;   *)
(* `left` requests match: at most one of a call, any number of an update.      *)
RqAsk(q, kind) ==
    /\ rqLife # "new" /\ rqCall[q].caller = "none"
    /\ \E n \in CASE kind = "attribute" -> 0 .. RqMatches
                  [] kind = "device" -> {0, 1}
                  [] OTHER -> {1} :
         rqCall' = [rqCall EXCEPT ![q] =
                      [kind |-> kind, left |-> n, task |-> "none", caller |-> "open"]]
    /\ UNCHANGED <<rqLife, rqRound, rqDue, rqThread, rqQueue, rqFate>>

RqReturns(q, told) ==
    /\ rqCall[q].caller = "open" /\ rqCall' = [rqCall EXCEPT ![q].caller = told]
    /\ UNCHANGED <<rqLife, rqRound, rqDue, rqThread, rqQueue, rqFate>>

\* __process_device_rpc without a match; an update after its last one.
RqNoMatch(q) == rqCall[q].task = "none" /\ rqCall[q].left = 0 /\ RqReturns(q, "error")

\* __parse_reserved_rpc_params, __format_rpc_reqeust
RqBadParams(q) == rqCall[q].kind \in {"reserved", "connector"} /\ rqCall[q].task = "none"
                  /\ RqReturns(q, "error")

\* The converter raises or returns None.
RqNotConverted(q) == rqCall[q].task = "none" /\ rqCall[q].left > 0 /\ RqReturns(q, "error")

\* __prepare_and_execute_rpc, __execute_rpc: the thread is started.
RqExecute(q) ==
    /\ rqCall[q].caller = "open" /\ rqCall[q].task = "none" /\ rqCall[q].left > 0
    /\ rqCall' = [rqCall EXCEPT ![q].task = "sending", ![q].left = @ - 1]
    /\ UNCHANGED <<rqLife, rqRound, rqDue, rqThread, rqQueue, rqFate>>

\* The call's thread: an answer of any status is put into its queue.
RqSent(q) ==
    /\ rqCall[q].task = "sending"
    /\ \E outcome \in {"answer", "nothing"} : rqCall' = [rqCall EXCEPT ![q].task = outcome]
    /\ UNCHANGED <<rqLife, rqRound, rqDue, rqThread, rqQueue, rqFate>>

(* What the gateway makes of it: only connector calls return what became of    *)
(* the request; the others return None, which _find_response_error takes for   *)
(* a failure.                                                                  *)
RqTold(success, kind) == IF success /\ kind = "connector" THEN "ok" ELSE "error"

\* __execute_rpc after the join; the expression for the value may not match.
RqJoined(q) ==
    /\ rqCall[q].kind # "attribute" /\ rqCall[q].task \in {"answer", "nothing"}
    /\ \E success \in IF rqCall[q].task = "answer" THEN BOOLEAN ELSE {FALSE} :
         RqReturns(q, RqTold(success, rqCall[q].kind))

\* The thread goes on alone, and may still change the device.
RqTimeout(q) == rqCall[q].kind # "attribute" /\ rqCall[q].task = "sending"
                /\ RqReturns(q, "error")

\* The join of an update has no timeout; its response is logged.
RqNextUpdate(q) ==
    /\ rqCall[q].kind = "attribute" /\ rqCall[q].task \in {"answer", "nothing"}
    /\ rqCall' = [rqCall EXCEPT ![q].task = "none"]
    /\ UNCHANGED <<rqLife, rqRound, rqDue, rqThread, rqQueue, rqFate>>

RqCaller(q) == RqNoMatch(q) \/ RqBadParams(q) \/ RqNotConverted(q) \/ RqExecute(q)
               \/ RqJoined(q) \/ RqTimeout(q) \/ RqNextUpdate(q)

RqSender(t) == RqBegin(t) \/ RqNoAnswer(t) \/ (\E r \in RqReadings : RqAnswer(t, r))
               \/ RqSubRequest(t) \/ RqConvert(t)

RequestNext ==
    \/ RqOpen \/ RqStop \/ RqSweep \/ RqProcess \/ RqRunEnds \/ RqEnd
    \/ \E e \in RqEndpoints : RqLater(e)
    \/ \E t \in RqThreads : RqSender(t)
    \/ \E q \in RqCalls : RqCaller(q) \/ RqSent(q) \/ \E kind \in RqKinds : RqAsk(q, kind)

-----------------------------------------------------------------------------
\* The shapes of the state.
RequestTypeOK ==
    /\ rqLife \in {"new", "running", "stopping", "closed"}
    /\ rqRound \in {"requests", "data", "ended"} /\ rqDue \subseteq RqEndpoints
    /\ rqThread \in [RqThreads -> [pc : {"none", "born", "sending", "sub", "convert"},
                                   endpoint : RqEndpoints \cup {"none"},
                                   reading : RqReadings \cup {"none"}]]
    /\ rqQueue \in Seq([reading : RqReadings, converted : {"points", "empty"}])
    /\ Len(rqQueue) <= RqQueueBound
    /\ rqFate \in [RqReadings -> {"unread", "held", "stored", "lost"}]
    /\ rqCall \in [RqCalls -> [kind : RqKinds \cup {"none"}, left : 0 .. RqMatches,
                               task : {"none", "sending", "answer", "nothing"},
                               caller : {"none", "open", "ok", "error"}]]
=============================================================================
