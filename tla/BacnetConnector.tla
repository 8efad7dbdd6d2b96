--------------------------- MODULE BacnetConnector ---------------------------
(***************************************************************************)
(* The BACnet connector (connectors/bacnet): the tasks of its event loop   *)
(* that add the devices which announce themselves, discover their objects, *)
(* poll them, convert and save, the one task through which every answer to *)
(* every request passes (Application.confirmation_handler), and the RPC    *)
(* threads of the gateway.                                                 *)
(***************************************************************************)
EXTENDS Naturals, Sequences, SequencesExt, FiniteSets

CONSTANTS BnDevices,    \* the devices that answer a Who-Is
          BnMatches,    \* how often find_self_in_config lists each: twice when its
                        \* configuration matches by deviceId and by address
          BnObjectsOf,  \* the objects of each device
          BnPolls, BnRescans, \* the tasks of these kinds that may run at one time
          BnQueueBound, \* the code's queues hold 1000000
          BnReadings, BnCalls

ASSUME BacnetAssumption ==
    /\ BnMatches \in [BnDevices -> 0..2] /\ DOMAIN BnObjectsOf = BnDevices
    /\ \A d \in BnDevices : BnObjectsOf[d] # {}   \* a device's own object is in its list
    /\ BnQueueBound \in Nat \ {0} /\ IsFiniteSet(BnCalls)
    /\ BnPolls \cup BnRescans \cup BnCalls \subseteq STRING \ {"add", "orphan"}
    /\ BnPolls \cap BnRescans = {} /\ BnCalls \cap (BnPolls \cup BnRescans) = {}

BnUnits == {u \in BnDevices \X (1..2) : u[2] <= BnMatches[u[1]]} \* the Device objects
BnObjects == UNION {BnObjectsOf[d] : d \in BnDevices}
BnNoUnit == <<CHOOSE d \in BnDevices : TRUE, 1>>
BnScans == {"add"} \cup BnRescans                \* the tasks that discover objects
BnWho == BnScans \cup BnPolls \cup BnCalls       \* who may have a request under way

VARIABLES bnLife,   \* as in ConnectorContract
          bnApp,    \* __application has been made and its tasks gathered
          bnIams,   \* __indication_queue
          bnOn,     \* the Device objects in Devices, with their poll timers
          bnScan,   \* the discoveries; "add" is the one of indication_callback
          bnConfig, \* the objects in each device.config
          bnFailed, \* failed_to_read_indexes
          bnTimers, \* the devices whose rescan timer runs
          bnQueue,  \* __process_device_queue
          bnReq,    \* the request of each task: "none", "sent", "answered", "ok", "failed"
          bnConf,   \* __confirmation_queue: whose request, and whether it was carried out
          bnOrphans, \* given up requests whose answer is still to come
          bnDeaf,   \* confirmation_handler has returned
          bnCut,    \* a caller gave up a request that was under way
          bnInbox, bnOutbox, bnFate, bnCall

bnField == <<bnIams, bnOn, bnScan, bnConfig, bnFailed, bnTimers>>
bnWire == <<bnReq, bnConf, bnOrphans, bnDeaf, bnCut>>
bnPipeline == <<bnInbox, bnOutbox, bnFate>>
bnVars == <<bnLife, bnApp, bnField, bnQueue, bnWire, bnPipeline, bnCall>>

BnNoScan == [at |-> "idle", unit |-> BnNoUnit, base |-> {}, todo |-> {}, found |-> {}]
\* What a caller asks for; "method" is a method configured for the device.
BnKinds == {"read", "write", "method", "update"}
BnNoCall == [caller |-> "none", kind |-> "read", task |-> "none", applied |-> FALSE]

BacnetTypeOK ==
    /\ bnLife \in {"new", "running", "stopping", "closed"}
    /\ bnApp \in BOOLEAN
    /\ bnIams \in Seq(BnDevices) /\ bnOn \subseteq BnUnits /\ bnTimers \subseteq bnOn
    /\ bnScan \in [BnScans ->
         [at : {"idle", "name", "whole", "length", "ids", "names"},
          unit : BnUnits \cup {BnNoUnit}, base : SUBSET BnObjects,
          todo : SUBSET BnObjects, found : SUBSET BnObjects]]
    /\ bnConfig \in [BnUnits -> SUBSET BnObjects] /\ bnFailed \in [BnUnits -> SUBSET BnObjects]
    /\ bnQueue \in Seq(BnUnits) /\ Len(bnQueue) <= BnQueueBound
    /\ bnReq \in [BnWho -> {"none", "sent", "answered", "ok", "failed"}]
    /\ bnConf \in Seq((BnWho \cup {"orphan"}) \X BOOLEAN)
    /\ bnOrphans \in 0..Cardinality(BnCalls) /\ bnDeaf \in BOOLEAN /\ bnCut \in BOOLEAN
    /\ bnInbox \in Seq(BnReadings) /\ bnOutbox \in Seq(BnReadings)
    /\ bnFate \in [BnReadings -> {"unread", "held", "stored", "lost"}]
    /\ bnCall \in [BnCalls -> [caller : {"none", "open", "ok", "error"},
                               kind : BnKinds,
                               task : {"none", "lookup", "request", "cancelled"},
                               applied : BOOLEAN]]

BacnetInit ==
    /\ bnLife = "new" /\ bnApp = FALSE /\ bnIams = <<>> /\ bnOn = {} /\ bnTimers = {}
    /\ bnScan = [t \in BnScans |-> BnNoScan]
    /\ bnConfig = [u \in BnUnits |-> {}] /\ bnFailed = [u \in BnUnits |-> {}]
    /\ bnQueue = <<>> /\ bnReq = [w \in BnWho |-> "none"] /\ bnConf = <<>>
    /\ bnOrphans = 0 /\ bnDeaf = FALSE /\ bnCut = FALSE
    /\ bnInbox = <<>> /\ bnOutbox = <<>> /\ bnFate = [r \in BnReadings |-> "unread"]
    /\ bnCall = [q \in BnCalls |-> BnNoCall]

BnRuns == bnApp /\ bnLife = "running"
BnLoopRuns == bnApp /\ bnLife \in {"running", "stopping"}

\* A task sends its next request, or goes on without one.
BnSend(w) == bnReq' = [bnReq EXCEPT ![w] = "sent"]
BnSendNone(w) == bnReq' = [bnReq EXCEPT ![w] = "none"]
BnOver(w) == bnReq[w] \in {"ok", "failed"}

-----------------------------------------------------------------------------
(* The wire.  The stack answers every request it was given, with an abort of   *)
(* its own when the device stays silent (bacpypes3), and it still passes on    *)
(* the answer to a request whose task has been cancelled.                      *)
BnWireOnly == UNCHANGED <<bnLife, bnApp, bnField, bnQueue, bnPipeline>>

BnAnswered(w) ==
    /\ BnRuns /\ bnReq[w] = "sent" /\ bnReq' = [bnReq EXCEPT ![w] = "answered"]
    /\ \E good, reached \in BOOLEAN :
         /\ good => reached
         /\ bnConf' = Append(bnConf, <<w, good>>)
         /\ bnCall' = IF w \in BnCalls
                      THEN [bnCall EXCEPT ![w].applied = /\ reached /\ bnCall[w].task = "request"
                                                         /\ bnCall[w].kind # "read"]
                      ELSE bnCall
    /\ UNCHANGED <<bnOrphans, bnDeaf, bnCut>> /\ BnWireOnly

BnOrphanAnswered ==
    /\ BnRuns /\ bnOrphans > 0 /\ bnOrphans' = bnOrphans - 1
    /\ \E good \in BOOLEAN : bnConf' = Append(bnConf, <<"orphan", good>>)
    /\ UNCHANGED <<bnReq, bnDeaf, bnCut, bnCall>> /\ BnWireOnly

\* The handler returns at every answer that is no acknowledgement.
BnConfirmUntilError ==
    /\ BnRuns /\ ~bnDeaf /\ bnConf # <<>> /\ bnConf' = Tail(bnConf)
    /\ LET w == Head(bnConf)[1]
           good == Head(bnConf)[2]
       IN IF w = "orphan" \/ ~good
          THEN bnDeaf' = TRUE /\ UNCHANGED bnReq
          ELSE bnReq' = [bnReq EXCEPT ![w] = "ok"] /\ UNCHANGED bnDeaf
    /\ UNCHANGED <<bnOrphans, bnCut, bnCall>> /\ BnWireOnly

(* confirmation_handler: an answer that no request waits for makes it return,  *)
(* and nothing starts it again.                                                *)
BnConfirm ==
    /\ BnRuns /\ ~bnDeaf /\ bnConf # <<>> /\ bnConf' = Tail(bnConf)
    /\ LET w == Head(bnConf)[1] IN
       IF w = "orphan"
       THEN bnDeaf' = TRUE /\ UNCHANGED bnReq
       ELSE /\ bnReq' = [bnReq EXCEPT ![w] = IF Head(bnConf)[2] THEN "ok" ELSE "failed"]
            /\ UNCHANGED bnDeaf
    /\ UNCHANGED <<bnOrphans, bnCut, bnCall>> /\ BnWireOnly

-----------------------------------------------------------------------------
\* open, run, __start: with an application section that is not valid run() only returns.
BnOpen ==
    /\ bnLife = "new" /\ bnLife' = "running" /\ bnApp' \in BOOLEAN
    /\ UNCHANGED <<bnField, bnQueue, bnWire, bnPipeline, bnCall>>

BnFieldOnly ==
    UNCHANGED <<bnLife, bnApp, bnQueue, bnConf, bnOrphans, bnDeaf, bnCut, bnPipeline, bnCall>>

\* __discover_devices asks on and on; a device announces itself, also unasked.
BnIAm(d) ==
    /\ BnRuns /\ Len(bnIams) < BnQueueBound /\ bnIams' = Append(bnIams, d)
    /\ UNCHANGED <<bnOn, bnScan, bnConfig, bnFailed, bnTimers, bnReq>> /\ BnFieldOnly

\* __add_device up to its first await: the name and the router are asked for, or not.
BnAddUnit(u) ==
    /\ bnScan' = [bnScan EXCEPT !["add"] = [BnNoScan EXCEPT !.at = "name", !.unit = u]]
    /\ bnReq' \in {[bnReq EXCEPT !["add"] = s] : s \in {"sent", "failed"}}

(* indication_callback: a device that is known only becomes active again; the  *)
(* others wait until the one before them has been added and discovered.        *)
BnIndication ==
    /\ BnRuns /\ bnScan["add"].at = "idle" /\ bnIams # <<>>
    /\ bnIams' = Tail(bnIams)
    /\ LET u == <<Head(bnIams), 1>> IN
       IF u \in bnOn \/ u \notin BnUnits THEN UNCHANGED <<bnScan, bnReq>> ELSE BnAddUnit(u)
    /\ UNCHANGED <<bnOn, bnConfig, bnFailed, bnTimers>> /\ BnFieldOnly

(* The end of one __add_device: its rescan timer starts, and the same device   *)
(* is added again when its configuration was listed twice.                     *)
BnAdded(u) ==
    /\ bnTimers' = bnTimers \cup {u}
    /\ IF <<u[1], u[2] + 1>> \in BnUnits THEN BnAddUnit(<<u[1], u[2] + 1>>)
       ELSE bnScan' = [bnScan EXCEPT !["add"] = BnNoScan] /\ BnSendNone("add")

BnDiscovered(t, u) ==
    \/ t = "add" /\ BnAdded(u)
    \/ t # "add" /\ bnScan' = [bnScan EXCEPT ![t] = BnNoScan] /\ BnSendNone(t)
                 /\ UNCHANGED bnTimers

\* get_device_objects: a device with segmentation is asked for its whole object list.
BnListObjects ==
    /\ bnScan' \in {[bnScan EXCEPT !["add"].at = a] : a \in {"whole", "length"}}
    /\ BnSend("add")

(* Devices.add and the gateway's add_device; the objects are listed in the     *)
(* configuration, or a wildcard asks for their discovery.                      *)
BnRegister ==
    LET u == bnScan["add"].unit IN
    /\ BnLoopRuns /\ bnScan["add"].at = "name" /\ BnOver("add") /\ bnOn' = bnOn \cup {u}
    /\ \/ bnConfig' = [bnConfig EXCEPT ![u] = BnObjectsOf[u[1]]] /\ BnAdded(u)
       \/ BnListObjects /\ UNCHANGED <<bnConfig, bnTimers>>
    /\ UNCHANGED <<bnIams, bnFailed>> /\ BnFieldOnly

\* The rescan timer finds objects that could not be read (need_to_rescan).
BnRescan(t) ==
    /\ BnRuns /\ bnScan[t].at = "idle"
    /\ \E u \in bnTimers :
         /\ bnFailed[u] # {}
         /\ bnScan' = [bnScan EXCEPT ![t] = [at |-> "ids", unit |-> u, base |-> bnConfig[u],
                                             todo |-> bnFailed[u], found |-> {}]]
    /\ BnSend(t) /\ UNCHANGED <<bnIams, bnOn, bnConfig, bnFailed, bnTimers>> /\ BnFieldOnly

BnScanWhole ==
    LET u == bnScan["add"].unit IN
    /\ BnLoopRuns /\ bnScan["add"].at = "whole" /\ BnOver("add")
    /\ IF bnReq["add"] = "failed" THEN BnAdded(u)
       ELSE /\ BnSend("add") /\ UNCHANGED bnTimers
            /\ bnScan' = [bnScan EXCEPT !["add"].at = "names", !["add"].found = BnObjectsOf[u[1]]]
    /\ UNCHANGED <<bnIams, bnOn, bnConfig, bnFailed>> /\ BnFieldOnly

\* Without segmentation, first the length of the list.
BnScanLength ==
    LET u == bnScan["add"].unit IN
    /\ BnLoopRuns /\ bnScan["add"].at = "length" /\ BnOver("add")
    /\ IF bnReq["add"] = "failed" THEN BnAdded(u)
       ELSE /\ BnSend("add") /\ UNCHANGED bnTimers
            /\ bnScan' = [bnScan EXCEPT !["add"].at = "ids", !["add"].todo = BnObjectsOf[u[1]]]
    /\ UNCHANGED <<bnIams, bnOn, bnConfig, bnFailed>> /\ BnFieldOnly

(* One index of the object list.  A failure is noted at once, the successes    *)
(* after the last index; with none the discovery is over.                      *)
BnScanIndex(t) ==
    LET s == bnScan[t]
        i == CHOOSE i \in s.todo : TRUE
        left == s.todo \ {i}
        found == IF bnReq[t] = "ok" THEN s.found \cup {i} ELSE s.found
        failed == IF bnReq[t] = "ok" THEN bnFailed[s.unit] ELSE bnFailed[s.unit] \cup {i}
    IN /\ BnLoopRuns /\ s.at = "ids" /\ BnOver(t)
       /\ bnFailed' = [bnFailed EXCEPT ![s.unit] = IF left = {} THEN failed \ found ELSE failed]
       /\ IF left = {} /\ found = {} THEN BnDiscovered(t, s.unit)
          ELSE /\ BnSend(t) /\ UNCHANGED bnTimers
               /\ bnScan' = [bnScan EXCEPT ![t].todo = left, ![t].found = found,
                                           ![t].at = IF left = {} THEN "names" ELSE "ids"]
       /\ UNCHANGED <<bnIams, bnOn, bnConfig>> /\ BnFieldOnly

(* The names of what was found, then the new configuration, made from the one  *)
(* of the start.  Objects whose names cannot be read are in no list any more.  *)
BnScanNames(t) ==
    LET s == bnScan[t] IN
    /\ BnLoopRuns /\ s.at = "names" /\ BnOver(t)
    /\ bnConfig' = [bnConfig EXCEPT ![s.unit] =
                      IF bnReq[t] = "ok" THEN s.base \cup s.found ELSE s.base]
    /\ BnDiscovered(t, s.unit)
    /\ UNCHANGED <<bnIams, bnOn, bnFailed>> /\ BnFieldOnly

-----------------------------------------------------------------------------
\* Device.run: a device with nothing to read is not polled.
BnPollTimer(u) ==
    /\ BnRuns /\ u \in bnOn /\ bnConfig[u] # {} /\ Len(bnQueue) < BnQueueBound
    /\ bnQueue' = Append(bnQueue, u)
    /\ UNCHANGED <<bnLife, bnApp, bnField, bnWire, bnPipeline, bnCall>>

BnTakePoll(p) ==
    /\ BnRuns /\ bnQueue # <<>> /\ bnReq[p] = "none"
    /\ bnQueue' = Tail(bnQueue) /\ BnSend(p)
    /\ UNCHANGED <<bnLife, bnApp, bnField, bnConf, bnOrphans, bnDeaf, bnCut, bnPipeline, bnCall>>

\* What read_multiple_objects makes of an answer: the values of an acknowledgement.
BnResults(p) ==
    LET unread == {r \in BnReadings : bnFate[r] = "unread"} IN
    IF bnReq[p] = "failed" \/ unread = {} THEN <<>> ELSE <<CHOOSE r \in unread : TRUE>>

\* ObjectIterator.get_next: the objects are asked for in portions of its limit.
BnNextPortion(p) == BnSendNone(p) \/ (BnRuns /\ BnSend(p))

BnPollStep(p) ==
    /\ BnLoopRuns /\ BnOver(p) /\ BnNextPortion(p)
    /\ bnInbox' = bnInbox \o BnResults(p)
    /\ bnFate' = [r \in BnReadings |-> IF r \in Range(BnResults(p)) THEN "held" ELSE bnFate[r]]
    /\ UNCHANGED <<bnLife, bnApp, bnField, bnQueue, bnConf, bnOrphans, bnDeaf, bnCut, bnOutbox,
                   bnCall>>

\* AsyncBACnetUplinkConverter.convert leaves out each item that it cannot convert.
BnConverted(r) == {<<>>, <<r>>}

BnConvert ==
    /\ BnRuns /\ bnInbox # <<>> /\ bnInbox' = Tail(bnInbox)
    /\ \E data \in BnConverted(Head(bnInbox)) :
         /\ bnOutbox' = bnOutbox \o data
         /\ bnFate' = [bnFate EXCEPT ![Head(bnInbox)] = IF data = <<>> THEN "lost" ELSE @]
    /\ UNCHANGED <<bnLife, bnApp, bnField, bnQueue, bnWire, bnCall>>

BnSave ==
    /\ BnRuns /\ bnOutbox # <<>> /\ bnOutbox' = Tail(bnOutbox)
    /\ bnFate' = [bnFate EXCEPT ![Head(bnOutbox)] = "stored"]
    /\ UNCHANGED <<bnLife, bnApp, bnField, bnQueue, bnWire, bnInbox, bnCall>>

-----------------------------------------------------------------------------
\* close: the flags, the application closed, every task cancelled five seconds later.
BnStop ==
    /\ bnLife = "running" /\ bnLife' = "stopping"
    /\ UNCHANGED <<bnApp, bnField, bnQueue, bnWire, bnPipeline, bnCall>>

BnEnd ==
    /\ bnLife = "stopping" /\ bnLife' = "closed"
    /\ bnIams' = <<>> /\ bnQueue' = <<>> /\ bnConf' = <<>> /\ bnOrphans' = 0
    /\ bnScan' = [t \in BnScans |-> BnNoScan] /\ bnReq' = [w \in BnWho |-> "none"]
    /\ bnInbox' = <<>> /\ bnOutbox' = <<>>
    /\ bnCall' = [q \in BnCalls |-> IF bnCall[q].task \in {"lookup", "request"}
                                    THEN [bnCall[q] EXCEPT !.task = "cancelled"] ELSE bnCall[q]]
    /\ UNCHANGED <<bnApp, bnOn, bnConfig, bnFailed, bnTimers, bnDeaf, bnCut, bnFate>>

-----------------------------------------------------------------------------
(* server_side_rpc_handler and on_attributes_update, on the gateway's threads. *)
BnCallOnly == UNCHANGED <<bnLife, bnApp, bnField, bnQueue, bnPipeline>>

BnAsk(q) ==
    /\ bnLife # "new" /\ bnCall[q].caller = "none"
    /\ \E k \in BnKinds :
         bnCall' = [bnCall EXCEPT ![q].caller = "open", ![q].kind = k]
    /\ UNCHANGED bnWire /\ BnCallOnly

BnUnasked(q, kinds) ==
    bnCall[q].caller = "open" /\ bnCall[q].task = "none" /\ bnCall[q].kind \in kinds

\* The look-up of the device is a task too; there is none, or the look-up timed out.
BnNoDevice(q) ==
    /\ BnUnasked(q, BnKinds)
    /\ bnCall' = [bnCall EXCEPT ![q].caller = "error"] /\ UNCHANGED bnWire /\ BnCallOnly

\* A method of another name than those configured, or of a type that there is not.
BnBadRequest(q) ==
    /\ BnRuns /\ bnOn # {} /\ BnUnasked(q, {"read", "write", "method"})
    /\ bnCall' = [bnCall EXCEPT ![q].caller = "error"] /\ UNCHANGED bnWire /\ BnCallOnly

BnNewTask(q) ==
    bnCall' \in {[bnCall EXCEPT ![q].task = t] :
                    t \in {"request"} \cup (IF bnCall[q].kind = "read" THEN {} ELSE {"lookup"})}

\* A configured method, perhaps with an object or a priority that there is not.
BnDeviceRequest(q) ==
    /\ BnRuns /\ bnOn # {} /\ BnUnasked(q, {"method"})
    /\ \/ BnNewTask(q) /\ BnSend(q)
       \/ bnCall' = [bnCall EXCEPT ![q].caller = "error"] /\ UNCHANGED bnReq
    /\ UNCHANGED <<bnConf, bnOrphans, bnDeaf, bnCut>> /\ BnCallOnly

\* "get" and "set": parameters that fit no schema are refused, or raise.
BnReservedRequest(q) ==
    /\ BnRuns /\ bnOn # {} /\ BnUnasked(q, {"read", "write"})
    /\ \/ BnNewTask(q) /\ BnSend(q)
       \/ bnCall' = [bnCall EXCEPT ![q].caller = "error"] /\ UNCHANGED bnReq
    /\ UNCHANGED <<bnConf, bnOrphans, bnDeaf, bnCut>> /\ BnCallOnly

\* An update of an attribute that is mapped to a property, or of one that is not.
BnAttributeUpdate(q) ==
    /\ BnRuns /\ bnOn # {} /\ BnUnasked(q, {"update"})
    /\ \/ BnNewTask(q) /\ BnSend(q)
       \/ bnCall' = [bnCall EXCEPT ![q].caller = "ok"] /\ UNCHANGED bnReq
    /\ UNCHANGED <<bnConf, bnOrphans, bnDeaf, bnCut>> /\ BnCallOnly

\* A weekly schedule is written in the type of the value that it refers to.
BnLookedUp(q) ==
    /\ BnLoopRuns /\ bnCall[q].task = "lookup" /\ bnReq[q] = "ok" /\ BnSend(q)
    /\ bnCall' = [bnCall EXCEPT ![q].task = "request"]
    /\ UNCHANGED <<bnConf, bnOrphans, bnDeaf, bnCut>> /\ BnCallOnly

(* Of a configured method server_side_rpc_handler returns nothing, which is an *)
(* error to the caller whatever became of the request.                         *)
BnReply(q) ==
    /\ bnCall[q].caller = "open" /\ BnOver(q)
    /\ bnCall[q].task = "lookup" => bnReq[q] = "failed"
    /\ bnCall' = [bnCall EXCEPT ![q].caller =
                     IF bnReq[q] = "ok" /\ bnCall[q].kind # "method" THEN "ok" ELSE "error",
                                ![q].task = "none"]
    /\ BnSendNone(q) /\ UNCHANGED <<bnConf, bnOrphans, bnDeaf, bnCut>> /\ BnCallOnly

\* Of a cancelled task result() raises, past every handler of the connector.
BnCancelled(q) ==
    /\ bnCall[q].caller = "open" /\ bnCall[q].task = "cancelled"
    /\ bnCall' = [bnCall EXCEPT ![q].caller = "error", ![q].task = "none"]
    /\ UNCHANGED bnWire /\ BnCallOnly

(* __wait_task_with_timeout cancels the task, and with it the request is taken *)
(* out of those that wait; its answer, come or still to come, is nobody's.     *)
BnTimeout(q) ==
    /\ bnCall[q].caller = "open" /\ bnCall[q].task \in {"lookup", "request"}
    /\ bnCall' = [bnCall EXCEPT ![q].caller = "error", ![q].task = "none"]
    /\ bnOrphans' = IF bnReq[q] = "sent" THEN bnOrphans + 1 ELSE bnOrphans
    /\ bnConf' = [i \in DOMAIN bnConf |->
                    IF bnConf[i][1] = q THEN <<"orphan", TRUE>> ELSE bnConf[i]]
    /\ BnSendNone(q) /\ bnCut' = (bnCut \/ bnReq[q] \in {"sent", "answered"})
    /\ UNCHANGED bnDeaf /\ BnCallOnly

BnRequest(q) == \/ BnBadRequest(q) \/ BnNoDevice(q) \/ BnDeviceRequest(q)
                \/ BnReservedRequest(q) \/ BnAttributeUpdate(q)
BnCaller(q) == BnRequest(q) \/ BnReply(q) \/ BnCancelled(q) \/ BnTimeout(q)

BacnetNext ==
    \/ BnOpen \/ BnOrphanAnswered \/ BnConfirm \/ BnIndication \/ BnRegister
    \/ BnScanWhole \/ BnScanLength \/ BnConvert \/ BnSave \/ BnStop \/ BnEnd
    \/ \E w \in BnWho : BnAnswered(w)
    \/ \E d \in BnDevices : BnIAm(d)
    \/ \E t \in BnScans : BnScanIndex(t) \/ BnScanNames(t)
    \/ \E t \in BnRescans : BnRescan(t)
    \/ \E u \in BnUnits : BnPollTimer(u)
    \/ \E p \in BnPolls : BnTakePoll(p) \/ BnPollStep(p)
    \/ \E q \in BnCalls : BnAsk(q) \/ BnCaller(q) \/ BnLookedUp(q)

-----------------------------------------------------------------------------
(* Every request of a poll, a discovery or an addition comes to an end while   *)
(* the connector runs, unless a caller has ever given up a request under way:  *)
(* its late answer makes confirmation_handler return, and from then on every   *)
(* poll waits for good although its device answers.                            *)
RequestsConclude ==
    \A w \in BnScans \cup BnPolls :
        bnReq[w] = "sent" ~> (bnReq[w] \in {"ok", "failed", "none"} \/ bnCut
                              \/ bnLife # "running")

=============================================================================
