---------------------------- MODULE MqttConnector ----------------------------
(***************************************************************************)
(* The MQTT connector (connectors/mqtt): the client's network thread with  *)
(* the callbacks, the connector's own thread that connects and manages the *)
(* converter workers, the On Message thread that routes what arrived, and  *)
(* the RPC threads of the gateway.  The callbacks run one after another on *)
(* the network thread, so a message is delivered only between callbacks.   *)
(***************************************************************************)
EXTENDS Naturals, Sequences, SequencesExt, FiniteSets

CONSTANTS MqTopics,     \* the topic filters of the mapping, in a sequence
          MqBroken,     \* of these, those whose converter may fail to load
          MqWildcard,   \* of these, those with a wildcard: the pattern leaves out an empty
                        \* level of + and the parent level of #, or nearly all topics if
                        \* the subscription is shared and its filter used as it is
          MqUnmatched,  \* of these, those that begin with a $ and are neither $aws nor
                        \* shared ($SYS/...): the pattern matches no topic of theirs
          MqInvalid,    \* of these, shared subscriptions whose filter is no regular
                        \* expression ($share/g/+/x)
          MqRequests,   \* of "connect", "disconnect", "attributes", the configured requests
          MqWorkers, MqPerWorker, \* maxNumberOfWorkers, maxMessageNumberPerWorker
          MqQueueBound, \* maxMessageQueue
          MqReadings, MqCalls

ASSUME MqttAssumption ==
    /\ MqTopics \in Seq(STRING) /\ MqTopics # <<>> /\ MqReadings # {}
    /\ MqBroken \cup MqWildcard \cup MqUnmatched \cup MqInvalid \subseteq Range(MqTopics)
    /\ MqRequests \subseteq {"connect", "disconnect", "attributes"} \ Range(MqTopics)
    /\ MqPerWorker \in Nat \ {0} /\ MqQueueBound \in Nat \ {0} /\ MqWorkers # {}

VARIABLES mqLife,     \* as in ConnectorContract
          mqMain,     \* run: "loop", "connect" (in __connect), "ended"
          mqNet,      \* "down", "setup" (in _on_connect), "up"
          mqTodo,     \* the mapping entries _on_connect has still to set up
          mqMapped,   \* the topics in __mapping_sub_topics
          mqSubs,     \* the topics the broker delivers on this connection
          mqInbox,    \* _on_message_queue
          mqReader,   \* the On Message thread: what it does and the message in hand
          mqQueue,    \* __msg_queue
          mqWork,     \* the converter workers and their batches
          mqDevice,   \* the device that requests connect and disconnect is registered
          mqFate, mqCall,
          mqMissed    \* a message of the current connection did not find its topic mapped

mqRouting == <<mqTodo, mqMapped, mqSubs>>
mqVars == <<mqLife, mqMain, mqNet, mqRouting, mqInbox, mqReader, mqQueue, mqWork,
            mqDevice, mqFate, mqCall, mqMissed>>

MqAllTopics == Range(MqTopics) \cup MqRequests
\* old: of a former connection; odd: the pattern of its filter does not match its topic
MqMessages == [topic : MqAllTopics, reading : MqReadings, old : BOOLEAN, odd : BOOLEAN]
MqNoMessage == [topic |-> CHOOSE t \in MqAllTopics : TRUE,
                reading |-> CHOOSE r \in MqReadings : TRUE, old |-> TRUE, odd |-> FALSE]
MqNoReader == [at |-> "idle", message |-> MqNoMessage]
MqFree == [on |-> FALSE, stopped |-> FALSE, batch |-> <<>>]

MqttTypeOK ==
    /\ mqLife \in {"new", "running", "stopping", "closed"}
    /\ mqMain \in {"loop", "connect", "ended"} /\ mqNet \in {"down", "setup", "up"}
    /\ mqTodo \in Seq(Range(MqTopics)) /\ mqMapped \subseteq Range(MqTopics)
    /\ mqSubs \subseteq MqAllTopics /\ mqInbox \in Seq(MqMessages)
    /\ mqReader \in [at : {"idle", "matched", "dead", "error"}, message : MqMessages]
    /\ mqQueue \in Seq(MqReadings) /\ Len(mqQueue) <= MqQueueBound
    /\ mqWork \in [MqWorkers -> [on : BOOLEAN, stopped : BOOLEAN, batch : Seq(MqReadings)]]
    /\ mqDevice \in BOOLEAN /\ mqMissed \in BOOLEAN
    /\ mqFate \in [MqReadings -> {"unread", "held", "stored", "lost"}]
    /\ mqCall \in [MqCalls -> {"none", "publishing", "waiting", "returned"}]

MqttInit ==
    /\ mqLife = "new" /\ mqMain = "loop" /\ mqNet = "down" /\ mqTodo = <<>>
    /\ mqMapped = {} /\ mqSubs = {} /\ mqInbox = <<>> /\ mqReader = MqNoReader
    /\ mqQueue = <<>> /\ mqWork = [w \in MqWorkers |-> MqFree] /\ mqDevice = FALSE
    /\ mqFate = [r \in MqReadings |-> "unread"] /\ mqCall = [q \in MqCalls |-> "none"]
    /\ mqMissed = FALSE

MqUnread == {r \in MqReadings : mqFate[r] = "unread"}
MqFinish(r, f) == mqFate' = [mqFate EXCEPT ![r] = f]

-----------------------------------------------------------------------------
(* The connector's thread.                                                    *)
MqOpen ==
    /\ mqLife = "new" /\ mqLife' = "running" /\ mqMain' = "connect"
    /\ UNCHANGED <<mqNet, mqRouting, mqInbox, mqReader, mqQueue, mqWork, mqDevice, mqFate,
                   mqCall, mqMissed>>

\* run sees a lost connection; the client's thread may have restored it meanwhile.
MqReconnect ==
    /\ mqLife = "running" /\ mqMain = "loop" /\ mqNet = "down" /\ mqMain' = "connect"
    /\ UNCHANGED <<mqLife, mqNet, mqRouting, mqInbox, mqReader, mqQueue, mqWork, mqDevice,
                   mqFate, mqCall, mqMissed>>

\* __connect leaves its loop; while it sleeps between attempts no thread is managed.
MqConnectDone ==
    /\ mqMain = "connect" /\ mqNet # "down" /\ mqMain' = "loop"
    /\ UNCHANGED <<mqLife, mqNet, mqRouting, mqInbox, mqReader, mqQueue, mqWork, mqDevice,
                   mqFate, mqCall, mqMissed>>

MqRunning == {w \in MqWorkers : mqWork[w].on /\ ~mqWork[w].stopped}

\* round(qsize / max, 0): a half is rounded to the even neighbour.
MqNeeded ==
    LET whole == Len(mqQueue) \div MqPerWorker
        rest == 2 * (Len(mqQueue) % MqPerWorker)
    IN IF rest > MqPerWorker \/ (rest = MqPerWorker /\ whole % 2 = 1) THEN whole + 1 ELSE whole

(* __threads_manager: a first worker, another while more are needed than run, *)
(* one less while fewer are; a worker told to stop still ends its batch.      *)
MqManageThreads ==
    /\ mqLife = "running" /\ mqMain = "loop"
    /\ LET count == IF MqRunning = {} THEN 1 ELSE Cardinality(MqRunning)
           more == MqNeeded > count /\ count < Cardinality(MqWorkers)
       IN \/ /\ MqRunning = {} \/ more
             /\ \E new \in SUBSET {w \in MqWorkers : ~mqWork[w].on} :
                  /\ Cardinality(new) = count - Cardinality(MqRunning) + (IF more THEN 1 ELSE 0)
                  /\ mqWork' = [w \in MqWorkers |-> [mqWork[w] EXCEPT !.on = @ \/ w \in new]]
          \/ /\ MqNeeded < count /\ count > 1
             /\ \E w \in MqRunning : mqWork' = [mqWork EXCEPT ![w].stopped = TRUE]
    /\ UNCHANGED <<mqLife, mqMain, mqNet, mqRouting, mqInbox, mqReader, mqQueue, mqDevice,
                   mqFate, mqCall, mqMissed>>

-----------------------------------------------------------------------------
(* The network thread.                                                        *)

(* _on_connect begins with an empty mapping, under the On Message thread that *)
(* still has messages of the last connection to route.                        *)
MqOnConnect ==
    /\ mqMain \in {"connect", "loop"} /\ mqLife \in {"running", "stopping"} /\ mqNet = "down"
    /\ mqLife = "stopping" => mqMain = "connect"
    /\ mqNet' = "setup" /\ mqTodo' = MqTopics /\ mqMapped' = {} /\ mqSubs' = {}
    /\ mqInbox' = [i \in DOMAIN mqInbox |-> [mqInbox[i] EXCEPT !.old = TRUE]]
    /\ mqReader' = [mqReader EXCEPT !.message.old = @ \/ mqReader.at = "matched"]
    /\ UNCHANGED <<mqLife, mqMain, mqQueue, mqWork, mqDevice, mqFate, mqCall, mqMissed>>

\* The subscription is sent before the converter is looked for.
MqSetupSubscribedFirst ==
    /\ mqNet = "setup" /\ mqTodo # <<>> /\ mqTodo' = Tail(mqTodo)
    /\ mqSubs' = mqSubs \cup {Head(mqTodo)}
    /\ \/ Head(mqTodo) \in MqBroken /\ UNCHANGED mqMapped
       \/ mqMapped' = mqMapped \cup {Head(mqTodo)}
    /\ UNCHANGED <<mqLife, mqMain, mqNet, mqInbox, mqReader, mqQueue, mqWork, mqDevice,
                   mqFate, mqCall, mqMissed>>

\* One entry of the mapping: converter, pattern, then the subscription.
MqSetupTopic ==
    /\ mqNet = "setup" /\ mqTodo # <<>> /\ mqTodo' = Tail(mqTodo)
    /\ \/ Head(mqTodo) \in MqBroken /\ UNCHANGED <<mqMapped, mqSubs>>
       \/ mqMapped' = mqMapped \cup {Head(mqTodo)} /\ mqSubs' = mqSubs \cup {Head(mqTodo)}
    /\ UNCHANGED <<mqLife, mqMain, mqNet, mqInbox, mqReader, mqQueue, mqWork, mqDevice,
                   mqFate, mqCall, mqMissed>>

\* __setup_request_subscriptions; the broker may refuse any of them (_on_subscribe).
MqSetupEnds ==
    /\ mqNet = "setup" /\ mqTodo = <<>> /\ mqNet' = "up"
    /\ \E refused \in SUBSET (mqSubs \cup MqRequests) :
         mqSubs' = (mqSubs \cup MqRequests) \ refused
    /\ UNCHANGED <<mqLife, mqMain, mqTodo, mqMapped, mqInbox, mqReader, mqQueue, mqWork,
                   mqDevice, mqFate, mqCall, mqMissed>>

MqDisconnected ==
    /\ mqNet = "up" /\ mqLife \in {"running", "stopping"} /\ mqNet' = "down"
    /\ UNCHANGED <<mqLife, mqMain, mqRouting, mqInbox, mqReader, mqQueue, mqWork, mqDevice,
                   mqFate, mqCall, mqMissed>>

\* The topics that match a filter are those its pattern matches, and odd ones.
MqOdd(t) == CASE t \in MqUnmatched -> {TRUE}
              [] t \in MqWildcard \ MqUnmatched -> BOOLEAN
              [] OTHER -> {FALSE}

\* A message is delivered for one filter: no topic matches two of them.
MqOnMessage ==
    /\ mqNet = "up" /\ mqLife \in {"running", "stopping"}
    /\ MqUnread # {}
    /\ LET r == CHOOSE r \in MqUnread : TRUE IN
       /\ MqFinish(r, "held")
       /\ \E t \in mqSubs : \E odd \in MqOdd(t) :
            mqInbox' = Append(mqInbox, [topic |-> t, reading |-> r, old |-> FALSE, odd |-> odd])
    /\ UNCHANGED <<mqLife, mqMain, mqNet, mqRouting, mqReader, mqQueue, mqWork, mqDevice,
                   mqCall, mqMissed>>

-----------------------------------------------------------------------------
(* The On Message thread, _process_on_message.                                *)
\* A filter that starts with $, but not with $aws, is used without its first
\* two levels and without being made a pattern.
MqMatches(m) == m.topic \in mqMapped /\ ~m.odd

MqRouterOnly == UNCHANGED <<mqLife, mqMain, mqNet, mqRouting, mqWork, mqCall>>

\* A request in which no device name is found changes nothing.
MqProcessConnect == {mqDevice, TRUE}
MqProcessDisconnect == {mqDevice, FALSE}

\* The topics of requests are their own patterns; a request for attributes is passed over.
MqRequested(t) == CASE t = "connect" -> MqProcessConnect
                    [] t = "disconnect" -> MqProcessDisconnect
                    [] OTHER -> {mqDevice}

(* All patterns are matched, one by one: the thread dies of one that is no   *)
(* regular expression, or when the mapping grows under it; it finds one, or   *)
(* goes on to the requests.  A request carries no reading, and a message that *)
(* is not one either is passed over.                                          *)
MqMatch ==
    /\ mqLife = "running" /\ mqReader.at = "idle" /\ mqInbox # <<>>
    /\ mqInbox' = Tail(mqInbox)
    /\ LET m == Head(mqInbox)
           valid == mqMapped \cap MqInvalid = {}
       IN
       \/ /\ ~valid /\ MqFinish(m.reading, "lost")
          /\ mqReader' = [at |-> "error", message |-> m] /\ UNCHANGED <<mqDevice, mqMissed>>
       \/ /\ valid /\ MqMatches(m) /\ mqReader' = [at |-> "matched", message |-> m]
          /\ UNCHANGED <<mqFate, mqDevice, mqMissed>>
       \/ /\ mqNet = "setup" /\ Cardinality(mqMapped) > 1 /\ MqFinish(m.reading, "lost")
          /\ mqReader' = [at |-> "dead", message |-> m] /\ UNCHANGED <<mqDevice, mqMissed>>
       \/ /\ valid /\ ~MqMatches(m) /\ MqFinish(m.reading, "lost")
          /\ mqDevice' \in MqRequested(m.topic)
          /\ mqMissed' = (mqMissed \/ (~m.old /\ ~m.odd /\ m.topic \notin MqRequests))
          /\ UNCHANGED mqReader
    /\ UNCHANGED mqQueue /\ MqRouterOnly

(* The converters of the pattern are looked up in the mapping of now: the     *)
(* thread dies if the pattern is gone.  A full queue loses the message.       *)
MqRoute ==
    /\ mqReader.at = "matched"
    /\ LET m == mqReader.message IN
       \/ /\ m.topic \in mqMapped /\ Len(mqQueue) < MqQueueBound
          /\ mqQueue' = Append(mqQueue, m.reading) /\ mqReader' = MqNoReader
          /\ UNCHANGED mqFate
       \/ /\ m.topic \in mqMapped /\ MqFinish(m.reading, "lost") /\ mqReader' = MqNoReader
          /\ UNCHANGED mqQueue
       \/ /\ m.topic \notin mqMapped /\ MqFinish(m.reading, "lost")
          /\ mqReader' = [at |-> "dead", message |-> m] /\ UNCHANGED mqQueue
    /\ UNCHANGED <<mqInbox, mqDevice, mqMissed>> /\ MqRouterOnly

-----------------------------------------------------------------------------
(* ConverterWorker.run                                                        *)
MqWorkerOnly == UNCHANGED <<mqLife, mqMain, mqNet, mqRouting, mqInbox, mqReader, mqDevice,
                            mqCall, mqMissed>>

MqTakeBatch(w) ==
    /\ w \in MqRunning /\ mqWork[w].batch = <<>> /\ mqQueue # <<>>
    /\ \E n \in 1..Len(mqQueue) :
         /\ mqWork' = [mqWork EXCEPT ![w].batch = SubSeq(mqQueue, 1, n)]
         /\ mqQueue' = SubSeq(mqQueue, n + 1, Len(mqQueue))
    /\ UNCHANGED mqFate /\ MqWorkerOnly

\* What a converter could not read is left out; with nothing read nothing is stored.
MqConvertItem(w) ==
    LET batch == mqWork[w].batch IN
    /\ batch # <<>> /\ mqWork' = [mqWork EXCEPT ![w].batch = Tail(batch)]
    /\ \E f \in {"stored", "lost"} : MqFinish(Head(batch), f)
    /\ UNCHANGED mqQueue /\ MqWorkerOnly

\* An exception loses the rest of the batch.
MqBatchFails(w) ==
    LET batch == mqWork[w].batch IN
    /\ batch # <<>> /\ mqWork' = [mqWork EXCEPT ![w].batch = <<>>]
    /\ mqFate' = [r \in MqReadings |-> IF r \in Range(batch) THEN "lost" ELSE mqFate[r]]
    /\ UNCHANGED mqQueue /\ MqWorkerOnly

MqWorkerEnds(w) ==
    /\ mqWork[w].on /\ mqWork[w].stopped /\ mqWork[w].batch = <<>>
    /\ mqWork' = [mqWork EXCEPT ![w] = MqFree]
    /\ UNCHANGED <<mqQueue, mqFate>> /\ MqWorkerOnly

MqWorker(w) == MqConvertItem(w) \/ MqBatchFails(w) \/ MqWorkerEnds(w)

-----------------------------------------------------------------------------
(* close: the client is disconnected and its thread joined, the workers are   *)
(* told to stop.  A __connect that is past its check connects once more and   *)
(* starts the network thread again.                                           *)
MqClose ==
    /\ mqLife = "running" /\ mqLife' = "stopping"
    /\ mqNet' = IF mqNet = "setup" THEN "setup" ELSE "down"
    /\ mqWork' = [w \in MqWorkers |-> [mqWork[w] EXCEPT !.stopped = mqWork[w].on]]
    /\ UNCHANGED <<mqMain, mqRouting, mqInbox, mqReader, mqQueue, mqDevice, mqFate, mqCall,
                   mqMissed>>

MqMainEnds ==
    /\ mqLife = "stopping" /\ mqMain # "ended" /\ mqMain' = "ended"
    /\ UNCHANGED <<mqLife, mqNet, mqRouting, mqInbox, mqReader, mqQueue, mqWork, mqDevice,
                   mqFate, mqCall, mqMissed>>

MqEnd ==
    /\ mqLife = "stopping" /\ mqMain = "ended" /\ mqReader.at # "matched"
    /\ \A w \in MqWorkers : ~mqWork[w].on
    /\ mqLife' = "closed" /\ mqInbox' = <<>> /\ mqQueue' = <<>>
    /\ UNCHANGED <<mqMain, mqNet, mqRouting, mqReader, mqWork, mqDevice, mqFate, mqCall,
                   mqMissed>>

-----------------------------------------------------------------------------
(* server_side_rpc_handler and on_attributes_update, on the gateway's threads. *)
MqCallOnly == UNCHANGED <<mqLife, mqMain, mqNet, mqRouting, mqInbox, mqReader, mqQueue,
                          mqWork, mqDevice, mqFate, mqMissed>>

\* A request that no handler is configured for, or that cannot be taken apart.
MqUnhandled(q) ==
    /\ mqLife # "new" /\ mqCall[q] = "none" /\ mqCall' = [mqCall EXCEPT ![q] = "returned"]
    /\ MqCallOnly

\* A request with no answer to expect is published, or given up without a connection.
MqOneWay(q) ==
    /\ mqLife # "new" /\ mqCall[q] = "none"
    /\ mqCall' = [mqCall EXCEPT ![q] = IF mqNet = "down" THEN "returned" ELSE "publishing"]
    /\ MqCallOnly

\* One that expects an answer waits for is_rpc_in_progress, which the gateway always denies.
MqTwoWay(q) ==
    /\ mqLife # "new" /\ mqCall[q] = "none" /\ mqCall' = [mqCall EXCEPT ![q] = "waiting"]
    /\ MqCallOnly

\* The attributes that match a filter are published; the waits for each are one wait here.
MqAttributeUpdate(q) ==
    /\ mqLife # "new" /\ mqCall[q] = "none"
    /\ \/ mqCall' = [mqCall EXCEPT ![q] = "returned"]
       \/ mqNet # "down" /\ mqCall' = [mqCall EXCEPT ![q] = "publishing"]
    /\ MqCallOnly

\* wait_for_publish has no timeout: nothing makes it return while there is no client thread.
MqPublished(q) ==
    /\ mqCall[q] = "publishing" /\ mqNet = "up"
    /\ mqCall' = [mqCall EXCEPT ![q] = "returned"] /\ MqCallOnly

MqRequest(q) == MqUnhandled(q) \/ MqOneWay(q) \/ MqTwoWay(q) \/ MqAttributeUpdate(q)

MqttNext ==
    \/ MqOpen \/ MqReconnect \/ MqConnectDone \/ MqManageThreads
    \/ MqOnConnect \/ MqSetupTopic \/ MqSetupEnds \/ MqDisconnected \/ MqOnMessage
    \/ MqMatch \/ MqRoute \/ MqClose \/ MqMainEnds \/ MqEnd
    \/ \E w \in MqWorkers : MqTakeBatch(w) \/ MqWorker(w)
    \/ \E q \in MqCalls : MqRequest(q) \/ MqPublished(q)

MqttSpec == MqttInit /\ [][MqttNext]_mqVars

-----------------------------------------------------------------------------
(* Rebuilding the mapping from empty at every connection hurts only what was  *)
(* queued before it: a message of the current connection whose topic its       *)
(* filter's pattern matches is not passed over because the filter is not       *)
(* mapped (a topic is mapped before it is subscribed), and the rebuilding ends *)
(* the On Message thread only over a message of a former connection.  It does  *)
(* not say that every current message is routed: a message that such a pattern *)
(* does not match is passed over, and when the thread has ended, over a stale  *)
(* message or because of a pattern that is no regular expression ("error"),    *)
(* nothing starts it again and all later messages stay in its queue.           *)
CurrentTopicsAreMapped ==
    ~mqMissed /\ (mqReader.at = "dead" => mqReader.message.old)

=============================================================================
