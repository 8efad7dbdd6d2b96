--------------------------- MODULE OpcuaConnector ---------------------------
(***************************************************************************)
(* The OPC-UA connector (connectors/opcua): one task that recreates the    *)
(* client, connects, scans for the configured nodes and polls them, a pool *)
(* of threads that converts what was polled, a thread that converts what   *)
(* the subscriptions bring, and the RPC threads of the gateway.            *)
(***************************************************************************)
EXTENDS Naturals, Sequences, SequencesExt, FiniteSets

CONSTANTS UaOrder,         \* the configured nodes, device by device
          UaDeviceOf,      \* the device each node is configured for
          UaByPath,        \* the nodes configured by a path; the others by their identifier
          UaWorkers,       \* the threads of the pool; the code has 8
          MaxNodesPerRead, \* __max_nodes_per_read, 100 or what the server says
          UaReadings, UaCalls

UaNodes == Range(UaOrder)
UaDevices == {UaDeviceOf[n] : n \in UaNodes}

ASSUME OpcuaAssumption ==
    /\ UaOrder \in Seq(UaNodes) /\ UaOrder # <<>> /\ UaReadings # {}
    /\ UaDeviceOf \in [UaNodes -> STRING] /\ UaByPath \subseteq UaNodes
    /\ MaxNodesPerRead \in Nat \ {0}
    /\ \A i, j \in DOMAIN UaOrder : UaOrder[i] = UaOrder[j] => i = j
    /\ \A i, j, k \in DOMAIN UaOrder :
         i <= j /\ j <= k /\ UaDeviceOf[UaOrder[i]] = UaDeviceOf[UaOrder[k]]
         => UaDeviceOf[UaOrder[j]] = UaDeviceOf[UaOrder[i]]

VARIABLES uaLife,      \* as in ConnectorContract
          uaMode,      \* "poll" or "subscribe" (enableSubscriptions)
          uaMain,      \* where start_client is
          uaRecreate,  \* __client_recreation_required
          uaKnown,     \* __device_nodes is not empty
          uaFound,     \* the nodes in the lists device.nodes of __device_nodes
          uaScan,      \* the place in UaOrder of the scan
          uaLeft,      \* the nodes of the lists that a poll has not read yet
          uaSubs,      \* nodes_data_change_subscriptions: "none", "off" (without a
                       \* subscription), "ok", "refused" (the server sends nothing)
          uaQueue,     \* __data_to_convert
          uaJobs,      \* the conversion each pool thread is at
          uaEvents,    \* __sub_data_to_convert
          uaFate, uaCall,
          uaMisfiled   \* a value of a first batch went to another node's key although
                       \* the conversion had found every list as it was polled

uaClient == <<uaMode, uaMain, uaRecreate, uaKnown, uaFound, uaScan, uaLeft, uaSubs>>
uaData == <<uaQueue, uaJobs, uaEvents, uaFate, uaMisfiled>>
uaVars == <<uaLife, uaClient, uaData, uaCall>>

\* A read batch: its nodes (their values are in the order of the lists), the lists
\* it was polled from, and whether it was the first of its poll.
UaBatches == [reading : UaReadings, nodes : SUBSET UaNodes, polled : SUBSET UaNodes,
              first : BOOLEAN]
UaNoBatch == [reading |-> CHOOSE r \in UaReadings : TRUE, nodes |-> {}, polled |-> {},
              first |-> TRUE]

\* A conversion: the devices it has still to go through; of the next one whether its
\* slice of the values is cut, from where and up to where; whether every list that a
\* slice was cut by was the polled one; the lists it keeps once a new client has come.
UaIdle == [busy |-> FALSE, batch |-> UaNoBatch, todo |-> {}, sliced |-> FALSE,
           from |-> 0, upto |-> 0, same |-> TRUE, live |-> TRUE, kept |-> {}]
UaNoCall == [caller |-> "none", kind |-> "read", task |-> "none", result |-> "none",
             applied |-> FALSE]

OpcuaTypeOK ==
    /\ uaLife \in {"new", "running", "stopping", "closed"} /\ uaMode \in {"poll", "subscribe"}
    /\ uaMain \in {"top", "reconnect", "connect", "scan", "device", "nodes", "loop",
                   "poll", "ended"}
    /\ uaRecreate \in BOOLEAN /\ uaKnown \in BOOLEAN /\ uaMisfiled \in BOOLEAN
    /\ uaFound \subseteq UaNodes /\ uaScan \in 0..Len(UaOrder)
    /\ uaLeft \subseteq UaNodes /\ uaSubs \in [UaNodes -> {"none", "off", "ok", "refused"}]
    /\ uaQueue \in Seq(UaBatches) /\ uaEvents \in Seq(UaReadings \X UaNodes)
    /\ uaJobs \in [UaWorkers ->
         [busy : BOOLEAN, batch : UaBatches, todo : SUBSET UaDevices, sliced : BOOLEAN,
          from : Nat, upto : Nat, same : BOOLEAN, live : BOOLEAN, kept : SUBSET UaNodes]]
    /\ uaFate \in [UaReadings -> {"unread", "held", "stored", "lost"}]
    /\ uaCall \in [UaCalls ->
         [caller : {"none", "open", "ok", "error"}, kind : {"read", "write", "update"},
          task : {"none", "lookup", "running", "ended", "cancelled"},
          result : {"none", "ok", "error"}, applied : BOOLEAN]]

OpcuaInit ==
    /\ uaLife = "new" /\ uaMode \in {"poll", "subscribe"} /\ uaMain = "top"
    /\ uaRecreate = TRUE /\ uaKnown = FALSE /\ uaFound = {} /\ uaScan = 0
    /\ uaLeft = {} /\ uaSubs = [n \in UaNodes |-> "none"]
    /\ uaQueue = <<>> /\ uaJobs = [w \in UaWorkers |-> UaIdle] /\ uaEvents = <<>>
    /\ uaFate = [r \in UaReadings |-> "unread"] /\ uaCall = [q \in UaCalls |-> UaNoCall]
    /\ uaMisfiled = FALSE

UaUnread == {r \in UaReadings : uaFate[r] = "unread"}
UaNextReading == CHOOSE r \in UaUnread : TRUE

\* Lists are in the order of the configuration: a node of S stands at the place that
\* is the number of nodes of S before it.
UaPlace(n) == CHOOSE i \in DOMAIN UaOrder : UaOrder[i] = n
UaRank(S, n) == Cardinality({m \in S : UaPlace(m) < UaPlace(n)})
UaListed(found, d) == {n \in found : UaDeviceOf[n] = d}

-----------------------------------------------------------------------------
(* start_client                                                               *)
UaOpen ==
    /\ uaLife = "new" /\ uaLife' = "running" /\ UNCHANGED <<uaClient, uaData, uaCall>>

(* A new client forgets the devices; a conversion under way keeps the list of  *)
(* devices it began with.                                                      *)
UaForget ==
    /\ uaKnown' = FALSE /\ uaFound' = {} /\ uaSubs' = [n \in UaNodes |-> "none"]
    /\ uaJobs' = [w \in UaWorkers |->
         IF uaJobs[w].busy /\ uaJobs[w].live
         THEN [uaJobs[w] EXCEPT !.live = FALSE, !.kept = uaFound] ELSE uaJobs[w]]

UaRemember == UNCHANGED <<uaKnown, uaFound, uaSubs, uaJobs>>

\* With subscriptions and devices, the new client connects before it forgets them.
UaNewClient ==
    /\ uaLife = "running" /\ uaMain = "top"
    /\ \/ uaRecreate /\ uaMode = "subscribe" /\ uaKnown /\ uaMain' = "reconnect"
            /\ UaRemember /\ UNCHANGED uaRecreate
       \/ uaRecreate /\ ~(uaMode = "subscribe" /\ uaKnown) /\ uaMain' = "connect"
            /\ UaForget /\ uaRecreate' = FALSE
       \/ ~uaRecreate /\ uaMain' = "connect" /\ UaRemember /\ UNCHANGED uaRecreate
    /\ UNCHANGED <<uaLife, uaMode, uaScan, uaLeft, uaQueue, uaEvents, uaFate,
                   uaMisfiled, uaCall>>

\* disconnect_if_connected; __connected may still stand from an earlier connection.
UaDisconnect == uaRecreate' \in {uaRecreate, uaRecreate \/ uaMode = "subscribe"}

UaConnect ==
    /\ uaLife = "running" /\ uaMain \in {"connect", "reconnect"}
    /\ \/ /\ uaMain' = IF uaMode = "subscribe" THEN "scan" ELSE "loop"
          /\ IF uaMain = "reconnect" THEN UaForget /\ uaRecreate' = FALSE
             ELSE UaRemember /\ UNCHANGED uaRecreate
       \/ uaMain' = "top" /\ UaDisconnect /\ UaRemember
    /\ UNCHANGED <<uaLife, uaMode, uaScan, uaLeft, uaQueue, uaEvents, uaFate,
                   uaMisfiled, uaCall>>

UaQuietData == UNCHANGED <<uaLife, uaMode, uaData, uaCall>>

(* The loop of a connected client: a new client is asked for, the scan is due  *)
(* or the poll.                                                                *)
UaLeaveLoop ==
    /\ uaLife = "running" /\ uaMain = "loop" /\ uaRecreate /\ uaMain' = "top" /\ UaDisconnect
    /\ UNCHANGED <<uaKnown, uaFound, uaSubs, uaScan, uaLeft>> /\ UaQuietData

UaScanDue ==
    /\ uaLife = "running" /\ uaMain = "loop" /\ ~uaRecreate /\ uaMain' = "scan"
    /\ UNCHANGED <<uaKnown, uaFound, uaSubs, uaRecreate, uaScan, uaLeft>> /\ UaQuietData

UaPollDue ==
    /\ uaLife = "running" /\ uaMain = "loop" /\ ~uaRecreate
    /\ uaMode = "poll" /\ uaFound # {} /\ uaMain' = "poll"
    /\ uaLeft' = uaFound
    /\ UNCHANGED <<uaKnown, uaFound, uaSubs, uaRecreate, uaScan>> /\ UaQuietData

\* The monitor loop or a status change, and the renewal of the channel.
UaLost ==
    /\ uaLife = "running" /\ uaMain \in {"scan", "device", "nodes", "loop", "poll"}
    /\ uaRecreate' = TRUE
    /\ UNCHANGED <<uaMain, uaKnown, uaFound, uaScan, uaLeft, uaSubs>> /\ UaQuietData

\* A scan raises; only a lost connection asks for a new client.
UaFails ==
    /\ uaLife = "running" /\ uaMain \in {"scan", "device", "nodes"} /\ uaMain' = "top"
    /\ uaScan' = 0
    /\ \/ uaRecreate' = TRUE
       \/ UaDisconnect
       \/ UNCHANGED uaRecreate
    /\ UNCHANGED <<uaKnown, uaFound, uaLeft, uaSubs>> /\ UaQuietData

\* A search of the server's tree, or of the cache of earlier ones, finds n or not.
UaSearch(found, n) == {found, found \cup {n}}

\* A node that is not found any more; one with an identifier keeps its subscription.
UaUnsubscribe(n) == IF n \in UaByPath /\ uaSubs[n] # "none"
                    THEN [uaSubs EXCEPT ![n] = "off"] ELSE uaSubs

(* subscription_watchlog found a device silent for too long: its subscription  *)
(* is deleted, but a node with an identifier still counts as subscribed.       *)
UaExpired(subs, d) ==
    [m \in UaNodes |->
        IF UaDeviceOf[m] # d \/ subs[m] \in {"none", "off"} THEN subs[m]
        ELSE IF m \in UaByPath THEN "off" ELSE "refused"]

\* The entries of d without a subscription are subscribed together.
UaSubscribe(subs, found, d, answer) ==
    [m \in UaNodes |->
        IF UaDeviceOf[m] = d /\ (subs[m] = "off" \/ (subs[m] = "none" /\ m \in found))
        THEN answer ELSE subs[m]]

(* _create_new_devices adds the devices it finds and had not; a device it has  *)
(* not found has an empty list, and the devices stand as they are configured.  *)
UaCreateDevices ==
    /\ uaLife = "running" /\ uaMain = "scan"
    /\ uaKnown' \in {uaKnown, TRUE} /\ uaMain' = IF uaKnown' THEN "device" ELSE "loop"
    /\ UNCHANGED <<uaRecreate, uaFound, uaScan, uaLeft, uaSubs>> /\ UaQuietData

(* _load_devices_nodes: the list of a device becomes empty, and then grows     *)
(* node by node while the pool threads read it.                                *)
UaScanDevice ==
    /\ uaLife = "running" /\ uaMain = "device" /\ uaMain' = "nodes"
    /\ uaFound' = uaFound \ UaListed(uaFound, UaDeviceOf[UaOrder[uaScan + 1]])
    /\ UNCHANGED <<uaRecreate, uaKnown, uaScan, uaLeft, uaSubs>> /\ UaQuietData

UaScanNode ==
    LET n == UaOrder[uaScan + 1]
        d == UaDeviceOf[n]
        last == uaScan + 1 = Len(UaOrder)
        whole == last \/ UaDeviceOf[UaOrder[uaScan + 2]] # d
    IN /\ uaLife = "running" /\ uaMain = "nodes" /\ uaFound' \in UaSearch(uaFound, n)
       /\ \/ uaMode = "poll" /\ UNCHANGED uaSubs
          \/ /\ uaMode = "subscribe"
             /\ \E subs \in IF n \in uaFound' THEN {uaSubs, UaExpired(uaSubs, d)}
                             ELSE {uaSubs, UaUnsubscribe(n)} :
                  uaSubs' \in IF ~whole THEN {subs} ELSE
                    {subs} \cup {UaSubscribe(subs, uaFound', d, a) : a \in {"ok", "refused"}}
       /\ uaScan' = IF last THEN 0 ELSE uaScan + 1
       /\ uaMain' = IF last THEN "loop" ELSE IF whole THEN "device" ELSE "nodes"
       /\ UNCHANGED <<uaRecreate, uaKnown, uaLeft>> /\ UaQuietData

\* __poll_nodes reads at most MaxNodesPerRead nodes at a time; a batch may fail.
UaPollBatch ==
    LET batch == {n \in uaLeft : UaRank(uaLeft, n) < MaxNodesPerRead}
    IN /\ uaLife = "running" /\ uaMain = "poll"
       /\ uaLeft' = uaLeft \ batch
       /\ uaMain' = IF uaLeft' = {} THEN "loop" ELSE "poll"
       /\ \/ UNCHANGED <<uaQueue, uaFate>>
          \/ /\ UaUnread # {} /\ uaFate' = [uaFate EXCEPT ![UaNextReading] = "held"]
             /\ uaQueue' = Append(uaQueue,
                    [reading |-> UaNextReading, nodes |-> batch, polled |-> uaFound,
                     first |-> uaLeft = uaFound])
       /\ UNCHANGED <<uaLife, uaMode, uaRecreate, uaKnown, uaFound, uaScan, uaSubs,
                      uaJobs, uaEvents, uaMisfiled, uaCall>>

-----------------------------------------------------------------------------
\* __thread_pool_executor_processor gives the next batch to a thread of the pool.
UaSubmit(w) ==
    /\ uaLife = "running" /\ ~uaJobs[w].busy /\ uaQueue # <<>>
    /\ uaQueue' = Tail(uaQueue)
    /\ uaJobs' = [uaJobs EXCEPT ![w] = [UaIdle EXCEPT !.busy = TRUE, !.batch = Head(uaQueue),
                     !.todo = UaDevices]]
    /\ UNCHANGED <<uaLife, uaClient, uaEvents, uaFate, uaMisfiled, uaCall>>

UaNextDevice(job) ==
    UaDeviceOf[CHOOSE n \in UaNodes :
        /\ UaDeviceOf[n] \in job.todo
        /\ \A m \in UaNodes : UaPlace(m) < UaPlace(n) => UaDeviceOf[m] \notin job.todo]

UaListNow(job) == UaListed(IF job.live THEN uaFound ELSE job.kept, UaNextDevice(job))
UaAsPolled(job) == UaListNow(job) = UaListed(job.batch.polled, UaNextDevice(job))

UaWorkerOnly == UNCHANGED <<uaLife, uaClient, uaQueue, uaEvents, uaCall>>

\* The count of nodes starts again for every device.
UaCutSliceFromStart(w) ==
    LET job == uaJobs[w] IN
    /\ job.busy /\ job.todo # {} /\ ~job.sliced
    /\ uaJobs' = [uaJobs EXCEPT ![w].sliced = TRUE, ![w].from = 0,
                    ![w].upto = Cardinality(UaListNow(job)),
                    ![w].same = @ /\ UaAsPolled(job)]
    /\ UNCHANGED <<uaFate, uaMisfiled>> /\ UaWorkerOnly

(* __convert_retrieved_data cuts every batch up from the first device on, by   *)
(* the lengths that the lists have when it comes to them.                      *)
UaCutSlice(w) ==
    LET job == uaJobs[w] IN
    /\ job.busy /\ job.todo # {} /\ ~job.sliced
    /\ uaJobs' = [uaJobs EXCEPT ![w].sliced = TRUE, ![w].from = job.upto,
                    ![w].upto = job.upto + Cardinality(UaListNow(job)),
                    ![w].same = @ /\ UaAsPolled(job)]
    /\ UNCHANGED <<uaFate, uaMisfiled>> /\ UaWorkerOnly

\* The k-th value of the slice goes to the key of the k-th node of the list, unless
\* one of the two ends before.
UaFiled(job, m, n) ==
    LET place == job.from + UaRank(UaListNow(job), n)
    IN UaRank(job.batch.nodes, m) = place /\ place < job.upto

(* ... and then reads the list of the device once more for the keys.           *)
UaConvertDevice(w) ==
    LET job == uaJobs[w] IN
    /\ job.busy /\ job.sliced
    /\ uaJobs' = [uaJobs EXCEPT ![w].todo = @ \ {UaNextDevice(job)}, ![w].sliced = FALSE]
    /\ uaMisfiled' = (uaMisfiled \/ (job.batch.first /\ job.same /\ UaAsPolled(job)
          /\ \E m \in job.batch.nodes, n \in UaListNow(job) : m # n /\ UaFiled(job, m, n)))
    /\ UNCHANGED uaFate /\ UaWorkerOnly

\* The devices are done, or one raised and the rest of the batch is given up.
UaJobEnds(w) ==
    /\ uaJobs[w].busy /\ uaJobs' = [uaJobs EXCEPT ![w] = UaIdle]
    /\ \E f \in {"stored", "lost"} :
         /\ f = "stored" => uaJobs[w].todo = {}
         /\ uaFate' = [uaFate EXCEPT ![uaJobs[w].batch.reading] = f]
    /\ UNCHANGED uaMisfiled /\ UaWorkerOnly

UaWorker(w) == UaCutSlice(w) \/ UaConvertDevice(w) \/ UaJobEnds(w)

(* A notification of the server, and the thread that converts them in batches: *)
(* a node no device lists any more is passed over.                             *)
UaDataChange ==
    /\ uaLife = "running" /\ uaMain \in {"scan", "device", "nodes", "loop"}
    /\ UaUnread # {} /\ uaFate' = [uaFate EXCEPT ![UaNextReading] = "held"]
    /\ \E n \in UaNodes :
         uaSubs[n] = "ok" /\ uaEvents' = Append(uaEvents, <<UaNextReading, n>>)
    /\ UNCHANGED <<uaLife, uaClient, uaQueue, uaJobs, uaMisfiled, uaCall>>

UaConvertSubData ==
    /\ uaLife = "running" /\ uaEvents # <<>>
    /\ \E k \in 1..Len(uaEvents) :
         LET batch == Range(SubSeq(uaEvents, 1, k))
             known == {e[1] : e \in {e \in batch : uaSubs[e[2]] # "none"}}
         IN \E stored \in SUBSET known :
              /\ uaEvents' = SubSeq(uaEvents, k + 1, Len(uaEvents))
              /\ uaFate' = [r \in UaReadings |->
                    IF r \in stored THEN "stored"
                    ELSE IF \E e \in batch : e[1] = r THEN "lost" ELSE uaFate[r]]
    /\ UNCHANGED <<uaLife, uaClient, uaQueue, uaJobs, uaMisfiled, uaCall>>

-----------------------------------------------------------------------------
UaStop ==
    /\ uaLife = "running" /\ uaLife' = "stopping"
    /\ UNCHANGED <<uaClient, uaData, uaCall>>

\* The main task sees the flag, or is cancelled after 5 s with the RPC tasks; the
\* lists do not change again.
UaMainEnd ==
    /\ uaLife = "stopping" /\ uaMain # "ended" /\ uaMain' = "ended"
    /\ uaScan' = 0 /\ uaLeft' = {} /\ UaForget /\ uaRecreate' = TRUE
    /\ \E reached \in SUBSET {q \in UaCalls : uaCall[q].task = "running"} :
         uaCall' = [q \in UaCalls |-> IF q \in reached
                                      THEN [uaCall[q] EXCEPT !.task = "cancelled"]
                                      ELSE uaCall[q]]
    /\ UNCHANGED <<uaLife, uaMode, uaQueue, uaEvents, uaFate, uaMisfiled>>

UaEnd ==
    /\ uaLife = "stopping" /\ uaMain = "ended" /\ \A w \in UaWorkers : ~uaJobs[w].busy
    /\ uaLife' = "closed" /\ uaQueue' = <<>> /\ uaEvents' = <<>>
    /\ UNCHANGED <<uaClient, uaJobs, uaFate, uaMisfiled, uaCall>>

-----------------------------------------------------------------------------
UaCallOnly == UNCHANGED <<uaLife, uaClient, uaData>>

UaAsk(q) ==
    /\ uaLife # "new" /\ uaCall[q].caller = "none"
    /\ \E k \in {"read", "write", "update"} :
         uaCall' = [uaCall EXCEPT ![q].caller = "open", ![q].kind = k]
    /\ UaCallOnly

\* Content of no known type, or a reserved request that cannot be taken apart.
UaBadRequest(q) ==
    /\ uaCall[q].caller = "open" /\ uaCall[q].task = "none" /\ uaCall[q].kind # "update"
    /\ uaCall' = [uaCall EXCEPT ![q].caller = "error"] /\ UaCallOnly

\* A method of a device: no such device or method, or arguments that do not fit.
UaDeviceRequest(q) ==
    /\ uaCall[q].caller = "open" /\ uaCall[q].task = "none" /\ uaCall[q].kind = "write"
    /\ \/ uaCall' = [uaCall EXCEPT ![q].caller = "error"]
       \/ uaCall' = [uaCall EXCEPT ![q].task = "running"]
    /\ UaCallOnly

\* "get" and "set": the node is named by identifier or by key, or it is looked for.
UaReservedRequest(q) ==
    /\ uaCall[q].caller = "open" /\ uaCall[q].task = "none" /\ uaCall[q].kind # "update"
    /\ \/ uaCall' = [uaCall EXCEPT ![q].caller = "error"]
       \/ \E t \in {"running", "lookup"} : uaCall' = [uaCall EXCEPT ![q].task = t]
    /\ UaCallOnly

\* Every attribute of an update that is mapped to a node; the outcome is only logged.
UaAttributeUpdate(q) ==
    /\ uaCall[q].caller = "open" /\ uaCall[q].task = "none" /\ uaCall[q].kind = "update"
    /\ \/ uaCall' = [uaCall EXCEPT ![q].caller = "ok"]
       \/ \E t \in {"running", "lookup"} : uaCall' = [uaCall EXCEPT ![q].task = t]
    /\ UaCallOnly

(* find_full_node_path is a task of its own, with its own timeout.  Without a  *)
(* node an update is passed over, and a request fails in its own task.         *)
UaFindPath(q) ==
    /\ uaCall[q].caller = "open" /\ uaCall[q].task = "lookup"
    /\ \/ uaMain # "ended" /\ uaCall' = [uaCall EXCEPT ![q].task = "running"]
       \/ uaCall[q].kind = "update" /\ uaCall' = [uaCall EXCEPT ![q].task = "none",
                                                              ![q].caller = "ok"]
       \/ uaCall[q].kind # "update" /\ uaCall' = [uaCall EXCEPT ![q].task = "ended",
                                                              ![q].result = "error"]
    /\ UaCallOnly

\* __read_value, __write_value, __call_method: every exception becomes an error.
UaTask(q) ==
    /\ uaLife \in {"running", "stopping"} /\ uaMain # "ended" /\ uaCall[q].task = "running"
    /\ \/ uaCall' = [uaCall EXCEPT ![q].task = "ended", ![q].result = "ok",
                                   ![q].applied = uaCall[q].kind # "read"]
       \/ \E reached \in BOOLEAN :
            uaCall' = [uaCall EXCEPT ![q].task = "ended", ![q].result = "error",
                                     ![q].applied = reached /\ uaCall[q].kind # "read"]
    /\ UaCallOnly

\* Of a cancelled task result() raises, past every handler of the connector.
UaAnswer(q) ==
    /\ uaCall[q].caller = "open" /\ uaCall[q].task \in {"ended", "cancelled"}
    /\ uaCall' = [uaCall EXCEPT ![q].result = "none",
          ![q].caller = IF uaCall[q].task = "ended" THEN uaCall[q].result ELSE "error"]
    /\ UaCallOnly

UaTimeout(q) ==
    /\ uaCall[q].caller = "open" /\ uaCall[q].task = "running"
    /\ \E reached \in BOOLEAN :
         uaCall' = [uaCall EXCEPT ![q].caller = "error", ![q].task = "ended",
                                  ![q].applied = reached /\ uaCall[q].kind # "read"]
    /\ UaCallOnly

UaCaller(q) == \/ UaBadRequest(q) \/ UaDeviceRequest(q) \/ UaReservedRequest(q)
               \/ UaAttributeUpdate(q) \/ UaFindPath(q) \/ UaAnswer(q) \/ UaTimeout(q)

OpcuaNext ==
    \/ UaOpen \/ UaNewClient \/ UaConnect \/ UaLost \/ UaFails
    \/ UaLeaveLoop \/ UaScanDue \/ UaPollDue
    \/ UaCreateDevices \/ UaScanDevice \/ UaScanNode \/ UaPollBatch
    \/ UaDataChange \/ UaConvertSubData
    \/ UaStop \/ UaMainEnd \/ UaEnd
    \/ \E w \in UaWorkers : UaSubmit(w) \/ UaWorker(w)
    \/ \E q \in UaCalls : UaAsk(q) \/ UaCaller(q) \/ UaTask(q)

=============================================================================
