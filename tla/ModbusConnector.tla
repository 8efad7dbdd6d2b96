--------------------------- MODULE ModbusConnector ---------------------------
(***************************************************************************)
(* The Modbus connector (connectors/modbus): the event loop's pollers,     *)
(* converter and saver, the masters that slaves share, and the RPC threads *)
(* of the gateway, whose tasks run on the same loop and reconnect the same *)
(* masters.  A step is the code between two awaits of one task.            *)
(***************************************************************************)
EXTENDS Naturals, Sequences, SequencesExt, FiniteSets

CONSTANTS MbSlaves, MbSerial, \* the configured devices, and those on a serial line
          MbMasterOf,         \* the client each of them shares (__get_master)
          ConnectAttempts,    \* connection_attempt, at least 2
          MbReadings, MbCalls,
          MbQueueBound        \* the code's process_device_requests holds 100000

ASSUME ModbusAssumption ==
    /\ IsFiniteSet(MbSlaves) /\ MbSerial \subseteq MbSlaves /\ MbMasterOf \in [MbSlaves -> STRING]
    /\ ConnectAttempts \in Nat /\ ConnectAttempts >= 2 /\ MbQueueBound \in Nat \ {0}

MbMasters == {MbMasterOf[s] : s \in MbSlaves}

VARIABLES mbLife,     \* "new", "running", "stopping" (__stopped), "closed" (thread ended)
          mbShut,     \* slaves whose close() has run
          mbQueue,    \* process_device_requests
          mbActive,   \* _active_polls
          mbPoll,     \* where each slave's poll is
          mbUp,       \* master.connected()
          mbTries,    \* connection_attempt_count
          mbDevices,  \* the devices registered with the gateway
          mbInbox,    \* __data_to_convert
          mbOutbox,   \* __data_to_save, one set of readings per converted batch
          mbFate,     \* where each reading is, as in ConnectorContract
          mbCall      \* the RPC threads and their tasks

mbPolling == <<mbQueue, mbActive, mbPoll>>
mbPipeline == <<mbInbox, mbOutbox, mbFate>>
mbVars == <<mbLife, mbShut, mbPolling, mbUp, mbTries, mbDevices, mbPipeline, mbCall>>

MbNoCall == [caller |-> "none", kind |-> "read", slave |-> CHOOSE s \in MbSlaves : TRUE,
             task |-> "none", result |-> "none", applied |-> FALSE, why |-> "none"]

ModbusTypeOK ==
    /\ mbLife \in {"new", "running", "stopping", "closed"}
    /\ mbShut \subseteq MbSlaves /\ mbDevices \subseteq MbSlaves
    /\ mbQueue \in Seq(MbSlaves) /\ Len(mbQueue) <= MbQueueBound
    /\ mbActive \subseteq MbMasters
    /\ mbPoll \in [MbSlaves -> {"idle", "connect", "connecting", "read", "pause"}]
    /\ mbUp \in [MbMasters -> BOOLEAN]
    /\ mbTries \in [MbSlaves -> 0..ConnectAttempts]
    /\ mbInbox \in Seq(MbSlaves \X MbReadings) /\ mbOutbox \in Seq(SUBSET MbReadings)
    /\ mbFate \in [MbReadings -> {"unread", "held", "stored", "lost"}]
    /\ mbCall \in [MbCalls ->
         [caller : {"none", "open", "ok", "error"}, kind : {"read", "write", "update"},
          slave : MbSlaves \cup {MbNoCall.slave},
          task : {"none", "connect", "connecting", "wire", "ended"},
          result : {"none", "ok", "error"}, applied : BOOLEAN,
          why : {"none", "unconverted", "offline", "refused"}]]

ModbusInit ==
    /\ mbLife = "new" /\ mbShut = {} /\ mbQueue = <<>> /\ mbActive = {}
    /\ mbPoll = [s \in MbSlaves |-> "idle"]
    /\ mbUp = [m \in MbMasters |-> FALSE] /\ mbTries = [s \in MbSlaves |-> 0]
    /\ mbDevices = {} /\ mbInbox = <<>> /\ mbOutbox = <<>>
    /\ mbFate = [r \in MbReadings |-> "unread"] /\ mbCall = [q \in MbCalls |-> MbNoCall]

MbLoopRuns == mbLife \in {"running", "stopping"}

\* The requests of a master are served while its client is connected.
MbServed(s) == mbUp[MbMasterOf[s]]

-----------------------------------------------------------------------------
\* The attempts are not counted: a bound that no longer binds.
MbConnectUnbounded(s, outcome) ==
    IF mbUp[MbMasterOf[s]]
    THEN outcome = "up" /\ mbTries' = [mbTries EXCEPT ![s] = 0]
    ELSE outcome = "attempt" /\ mbTries' = [mbTries EXCEPT ![s] = @ + 1]

(* Slave.connect, shared by polls and RPC tasks.  Whether the attempt is due  *)
(* and whether the pause after the last one is over are the clock's choices;  *)
(* a call makes at most one attempt, for cur_time is not read again.          *)
MbConnectStart(s, outcome) ==
    LET m == MbMasterOf[s] IN
    \/ mbUp[m] /\ outcome = "up" /\ mbTries' = [mbTries EXCEPT ![s] = 0]
    \/ /\ ~mbUp[m]
       /\ \E cooled, due \in BOOLEAN :
            LET tries == IF mbTries[s] >= ConnectAttempts /\ cooled THEN 0 ELSE mbTries[s]
                attempt == due /\ tries < ConnectAttempts /\ s \notin mbShut
            IN /\ outcome = (IF attempt THEN "attempt" ELSE "no")
               /\ mbTries' = [mbTries EXCEPT ![s] = IF attempt THEN tries + 1 ELSE tries]

(* The end of the attempt: the last one allowed answers False even when it    *)
(* has connected the master.                                                  *)
MbConnectEnd(s, connected) ==
    LET m == MbMasterOf[s] IN
    \E up \in {b \in BOOLEAN : mbUp[m] => b} :
        /\ mbUp' = [mbUp EXCEPT ![m] = up]
        /\ connected = (up /\ mbTries[s] # ConnectAttempts)
        /\ mbTries' = [mbTries EXCEPT ![s] = IF connected THEN 0 ELSE @]

\* The client drops a dead connection, or restores it by itself (pymodbus).
MbLink(m) ==
    /\ MbLoopRuns /\ mbUp' = [mbUp EXCEPT ![m] = ~@]
    /\ UNCHANGED <<mbLife, mbShut, mbPolling, mbTries, mbDevices, mbPipeline, mbCall>>

-----------------------------------------------------------------------------
\* open, run: the slaves are added, the masters made, the loops gathered.
MbOpen ==
    /\ mbLife = "new" /\ mbLife' = "running"
    /\ UNCHANGED <<mbShut, mbPolling, mbUp, mbTries, mbDevices, mbPipeline, mbCall>>

MbTimer(s) ==
    /\ mbLife = "running" /\ s \notin mbShut /\ Len(mbQueue) < MbQueueBound
    /\ mbQueue' = Append(mbQueue, s)
    /\ UNCHANGED <<mbLife, mbShut, mbActive, mbPoll, mbUp, mbTries, mbDevices, mbPipeline,
                   mbCall>>

(* __process_requests awaits a serial poll itself, so that a serial line that *)
(* is slow to answer holds back every other device.                           *)
MbTakeRequest ==
    /\ mbLife = "running" /\ mbQueue # <<>>
    /\ \A s \in MbSerial : mbPoll[s] = "idle"
    /\ mbQueue' = Tail(mbQueue)
    /\ LET s == Head(mbQueue)
           m == MbMasterOf[s]
       IN IF m \in mbActive
          THEN UNCHANGED <<mbActive, mbPoll>>
          ELSE mbActive' = mbActive \cup {m} /\ mbPoll' = [mbPoll EXCEPT ![s] = "connect"]
    /\ UNCHANGED <<mbLife, mbShut, mbUp, mbTries, mbDevices, mbPipeline, mbCall>>

MbPollEnds(s) ==
    mbPoll' = [mbPoll EXCEPT ![s] = "idle"] /\ mbActive' = mbActive \ {MbMasterOf[s]}

MbRegister(s) == mbDevices' = IF mbUp'[MbMasterOf[s]] THEN mbDevices \cup {s} ELSE mbDevices
MbDeregister(s) == mbDevices' = mbDevices \ {s}

MbPollConnect(s) ==
    /\ MbLoopRuns
    /\ \/ /\ mbPoll[s] = "connect" /\ UNCHANGED mbUp
          /\ \E outcome \in {"up", "attempt", "no"} :
               /\ MbConnectStart(s, outcome)
               /\ \/ outcome = "up" /\ MbRegister(s) /\ UNCHANGED mbActive
                       /\ mbPoll' = [mbPoll EXCEPT ![s] = "read"]
                  \/ outcome = "attempt" /\ UNCHANGED <<mbDevices, mbActive>>
                       /\ mbPoll' = [mbPoll EXCEPT ![s] = "connecting"]
                  \/ outcome = "no" /\ MbDeregister(s) /\ MbPollEnds(s)
       \/ /\ mbPoll[s] = "connecting"
          /\ \E connected \in BOOLEAN :
               /\ MbConnectEnd(s, connected)
               /\ \/ connected /\ MbRegister(s) /\ UNCHANGED mbActive
                       /\ mbPoll' = [mbPoll EXCEPT ![s] = "read"]
                  \/ ~connected /\ MbDeregister(s) /\ MbPollEnds(s)
    /\ UNCHANGED <<mbLife, mbShut, mbQueue, mbPipeline, mbCall>>

\* The registers that answered; a timed-out or refused one only leaves a gap.
MbReadData(s) ==
    /\ MbServed(s)
    /\ \E r \in MbReadings :
         /\ mbFate[r] = "unread" /\ mbFate' = [mbFate EXCEPT ![r] = "held"]
         /\ mbInbox' = Append(mbInbox, <<s, r>>)
    /\ MbPollEnds(s) /\ UNCHANGED <<mbUp, mbDevices, mbOutbox>>

MbReadNothing(s) == MbPollEnds(s) /\ UNCHANGED <<mbUp, mbDevices, mbPipeline>>

\* The read raises: a lost connection pauses the poll, with its master still taken.
MbReadFails(s) ==
    /\ MbDeregister(s) /\ UNCHANGED mbPipeline
    /\ \/ UNCHANGED mbUp /\ UNCHANGED mbActive /\ mbPoll' = [mbPoll EXCEPT ![s] = "pause"]
       \/ /\ MbPollEnds(s)
          /\ mbUp' \in {mbUp, [mbUp EXCEPT ![MbMasterOf[s]] = s \in MbSerial /\ @]}

MbPollRead(s) ==
    /\ MbLoopRuns /\ mbPoll[s] = "read"
    /\ MbReadData(s) \/ MbReadNothing(s) \/ MbReadFails(s)
    /\ UNCHANGED <<mbLife, mbShut, mbQueue, mbTries, mbCall>>

MbPollResume(s) ==
    /\ MbLoopRuns /\ mbPoll[s] = "pause" /\ MbPollEnds(s)
    /\ UNCHANGED <<mbLife, mbShut, mbQueue, mbUp, mbTries, mbDevices, mbPipeline, mbCall>>

\* The converter decodes what it can of a device's answers, perhaps nothing; it raises
\* on registers that do not fit their type.
MbDecoded(groups) == SUBSET groups

(* __convert_data: a batch of what has arrived, a group per device.  A group   *)
(* with nothing decoded is dropped, and an exception drops its own group and   *)
(* all the groups after it.                                                    *)
MbConvert ==
    /\ mbLife = "running" /\ mbInbox # <<>>
    /\ \E n \in 1..Len(mbInbox) : \E kept \in MbDecoded(MbSlaves) :
         LET batch == Range(SubSeq(mbInbox, 1, n))
             group(s) == {r \in MbReadings : <<s, r>> \in batch}
             groups == {group(s) : s \in kept} \ {{}}
         IN /\ mbInbox' = SubSeq(mbInbox, n + 1, Len(mbInbox))
            /\ mbOutbox' = mbOutbox \o SetToSeq(groups)
            /\ mbFate' = [r \in MbReadings |->
                            IF (\E s \in MbSlaves : r \in group(s)) /\ r \notin UNION groups
                            THEN "lost" ELSE mbFate[r]]
    /\ UNCHANGED <<mbLife, mbShut, mbPolling, mbUp, mbTries, mbDevices, mbCall>>

\* The batch stays queued while it is stored: an early peek instead of a get.
MbSaveTwice ==
    /\ mbLife = "running" /\ mbOutbox # <<>>
    /\ mbOutbox' = IF \E r \in Head(mbOutbox) : mbFate[r] = "stored"
                   THEN Tail(mbOutbox) ELSE mbOutbox
    /\ mbFate' = [r \in MbReadings |->
                    IF r \notin Head(mbOutbox) THEN mbFate[r]
                    ELSE IF mbFate[r] = "stored" THEN "held" ELSE "stored"]
    /\ UNCHANGED <<mbLife, mbShut, mbPolling, mbUp, mbTries, mbDevices, mbInbox, mbCall>>

MbSave ==
    /\ mbLife = "running" /\ mbOutbox # <<>> /\ mbOutbox' = Tail(mbOutbox)
    /\ mbFate' = [r \in MbReadings |-> IF r \in Head(mbOutbox) THEN "stored" ELSE mbFate[r]]
    /\ UNCHANGED <<mbLife, mbShut, mbPolling, mbUp, mbTries, mbDevices, mbInbox, mbCall>>

-----------------------------------------------------------------------------
\* close: the flag, then each slave, then the tasks are cancelled and the thread ends.
MbStop ==
    /\ mbLife = "running" /\ mbLife' = "stopping"
    /\ UNCHANGED <<mbShut, mbPolling, mbUp, mbTries, mbDevices, mbPipeline, mbCall>>

MbCloseSlave(s) ==
    /\ mbLife = "stopping" /\ s \notin mbShut /\ mbShut' = mbShut \cup {s}
    /\ mbUp' = [mbUp EXCEPT ![MbMasterOf[s]] = FALSE]
    /\ UNCHANGED <<mbLife, mbPolling, mbTries, mbDevices, mbPipeline, mbCall>>

\* What the loop still had to do is gone with it; a master may stay connected.
MbEnd ==
    /\ mbLife = "stopping" /\ mbLife' = "closed" /\ mbShut' = MbSlaves
    /\ mbQueue' = <<>> /\ mbActive' = {} /\ mbInbox' = <<>> /\ mbOutbox' = <<>>
    /\ mbPoll' = [s \in MbSlaves |-> "idle"] /\ mbTries' = [s \in MbSlaves |-> 0]
    /\ UNCHANGED <<mbUp, mbDevices, mbFate, mbCall>>

-----------------------------------------------------------------------------
(* server_side_rpc_handler and on_attributes_update, on a thread of their      *)
(* caller: it makes a task for the loop and waits for it, for its timeout or   *)
(* for the connector to stop.  An update is a write that nobody is told of.    *)
MbCallOnly == UNCHANGED <<mbLife, mbShut, mbPolling, mbUp, mbTries, mbDevices, mbPipeline>>

MbAsk(q) ==
    /\ mbLife # "new" /\ mbCall[q].caller = "none"
    /\ \E s \in MbSlaves, k \in {"read", "write", "update"} :
         mbCall' = [mbCall EXCEPT ![q].caller = "open", ![q].kind = k, ![q].slave = s]
    /\ MbCallOnly

\* A request that is no string of the reserved schema, or of no known type.
MbBadRequest(q) ==
    /\ mbCall[q].caller = "open" /\ mbCall[q].task = "none" /\ mbCall[q].kind # "update"
    /\ mbCall' = [mbCall EXCEPT ![q].caller = "error"] /\ MbCallOnly

\* "get" and "set", for a device of the connector or for none.
MbReservedRequest(q) ==
    /\ mbCall[q].caller = "open" /\ mbCall[q].task = "none" /\ mbCall[q].kind # "update"
    /\ \/ mbCall' = [mbCall EXCEPT ![q].task = "connect"]
       \/ mbCall' = [mbCall EXCEPT ![q].caller = "error"]
    /\ MbCallOnly

\* A method of the device's configuration, which may lack it.
MbDeviceRequest(q) ==
    /\ mbCall[q].caller = "open" /\ mbCall[q].task = "none" /\ mbCall[q].kind # "update"
    /\ \/ mbCall' = [mbCall EXCEPT ![q].task = "connect"]
       \/ mbCall' = [mbCall EXCEPT ![q].caller = "error"]
    /\ MbCallOnly

\* A request that brings its own connection: the master is connected first, or given up.
MbNoDeviceRequest(q) ==
    /\ MbLoopRuns /\ mbCall[q].caller = "open" /\ mbCall[q].task = "none"
    /\ mbCall[q].kind # "update"
    /\ \/ /\ mbUp' = [mbUp EXCEPT ![MbMasterOf[mbCall[q].slave]] = TRUE]
          /\ mbCall' = [mbCall EXCEPT ![q].task = "connect"]
       \/ mbCall' = [mbCall EXCEPT ![q].caller = "error"] /\ UNCHANGED mbUp
    /\ UNCHANGED <<mbLife, mbShut, mbPolling, mbTries, mbDevices, mbPipeline>>

\* An update of an attribute that is mapped to a register, or of one that is not.
MbAttributeUpdate(q) ==
    /\ mbCall[q].caller = "open" /\ mbCall[q].task = "none" /\ mbCall[q].kind = "update"
    /\ \/ mbCall' = [mbCall EXCEPT ![q].task = "connect"]
       \/ mbCall' = [mbCall EXCEPT ![q].caller = "ok"]
    /\ MbCallOnly

\* Nothing was converted for a write, or the conversion raised.
MbConversionEnds(q) ==
    /\ MbLoopRuns /\ mbCall[q].task = "connect" /\ mbCall[q].kind # "read"
    /\ \/ mbCall' = [mbCall EXCEPT ![q].task = "ended", ![q].result = "ok",
                                   ![q].why = "unconverted"]
       \/ mbCall' = [mbCall EXCEPT ![q].task = "ended", ![q].result = "error"]
    /\ MbCallOnly

\* A device that cannot be reached leaves the response empty, and that is no error.
MbCallConnect(q) ==
    LET s == mbCall[q].slave
        next(outcome) == CASE outcome = "up" -> [mbCall EXCEPT ![q].task = "wire"]
                           [] outcome = "attempt" -> [mbCall EXCEPT ![q].task = "connecting"]
                           [] outcome = "no" -> [mbCall EXCEPT ![q].task = "ended",
                                                   ![q].result = "ok", ![q].why = "offline"]
    IN /\ MbLoopRuns
       /\ \/ /\ mbCall[q].task = "connect" /\ UNCHANGED mbUp
             /\ \E outcome \in {"up", "attempt", "no"} :
                  MbConnectStart(s, outcome) /\ mbCall' = next(outcome)
          \/ /\ mbCall[q].task = "connecting"
             /\ \E connected \in BOOLEAN :
                  /\ MbConnectEnd(s, connected)
                  /\ mbCall' = next(IF connected THEN "up" ELSE "no")
       /\ UNCHANGED <<mbLife, mbShut, mbPolling, mbDevices, mbPipeline>>

\* The device answers: with its data, with the write done, or with an exception code.
MbDeviceAnswers(q) ==
    /\ MbLoopRuns /\ mbCall[q].task = "wire" /\ MbServed(mbCall[q].slave)
    /\ \/ mbCall' = [mbCall EXCEPT ![q].task = "ended", ![q].result = "ok",
                                   ![q].applied = mbCall[q].kind # "read"]
       \/ mbCall' = [mbCall EXCEPT ![q].task = "ended", ![q].why = "refused",
                       ![q].result = IF mbCall[q].kind = "read" THEN "error" ELSE "ok"]
    /\ MbCallOnly

\* __write hands its exception back in a future that nobody looks at.
MbWireFailsQuietly(q) ==
    /\ MbLoopRuns /\ mbCall[q].task = "wire"
    /\ mbCall' = [mbCall EXCEPT ![q].task = "ended", ![q].result = "ok"] /\ MbCallOnly

\* The request raises; a write may have reached the device all the same.
MbWireFails(q) ==
    /\ MbLoopRuns /\ mbCall[q].task = "wire"
    /\ \E reached \in BOOLEAN :
         mbCall' = [mbCall EXCEPT ![q].task = "ended", ![q].result = "error",
                                  ![q].applied = reached /\ mbCall[q].kind # "read"]
    /\ MbCallOnly

MbAnswer(q) ==
    /\ mbCall[q].caller = "open" /\ mbCall[q].task = "ended"
    /\ mbCall' = [mbCall EXCEPT ![q].caller = mbCall[q].result, ![q].result = "none"]
    /\ MbCallOnly

(* The timeout cancels the task; a request on the wire cannot be taken back.   *)
MbTimeout(q) ==
    /\ mbCall[q].caller = "open" /\ mbCall[q].task \in {"connect", "connecting", "wire"}
    /\ \E reached \in BOOLEAN :
         mbCall' = [mbCall EXCEPT ![q].caller = "error", ![q].task = "ended",
                       ![q].applied = reached /\ mbCall[q].task = "wire"
                                              /\ mbCall[q].kind # "read"]
    /\ MbCallOnly

\* Once the connector stops, a caller leaves with no result; its task may go on.
MbAbandon(q) ==
    /\ mbLife \in {"stopping", "closed"} /\ mbCall[q].caller = "open"
    /\ mbCall[q].task \in {"connect", "connecting", "wire"}
    /\ mbCall' = [mbCall EXCEPT ![q].caller = "error"] /\ MbCallOnly

MbRequest(q) == \/ MbBadRequest(q) \/ MbReservedRequest(q) \/ MbDeviceRequest(q)
                \/ MbNoDeviceRequest(q) \/ MbAttributeUpdate(q)
MbCaller(q) == MbRequest(q) \/ MbAnswer(q) \/ MbTimeout(q) \/ MbAbandon(q)

ModbusNext ==
    \/ MbOpen \/ MbTakeRequest \/ MbConvert \/ MbSave \/ MbStop \/ MbEnd
    \/ \E m \in MbMasters : MbLink(m)
    \/ \E s \in MbSlaves : \/ MbTimer(s) \/ MbPollConnect(s) \/ MbPollRead(s)
                           \/ MbPollResume(s) \/ MbCloseSlave(s)
    \/ \E q \in MbCalls : \/ MbAsk(q) \/ MbCaller(q) \/ MbConversionEnds(q)
                          \/ MbCallConnect(q) \/ MbDeviceAnswers(q) \/ MbWireFails(q)

-----------------------------------------------------------------------------
(* A range of addresses: __get_address_ranges cuts count registers into        *)
(* requests of at most perRequest, the answers are put end to end without the  *)
(* invalid ones, and a value is labelled by its place in what is left.         *)
MbAddressRanges(count, perRequest) ==
    [k \in 1..((count + perRequest - 1) \div perRequest) |->
        {a \in 0..(count - 1) : (k - 1) * perRequest <= a /\ a < k * perRequest}]

MbWideRange(chunks, valid, objects) ==
    LET left == UNION {chunks[k] : k \in valid}
        place(a) == Cardinality({b \in left : b < a})
    IN {<<place(a), a>> : a \in {a \in left : place(a) % objects = 0}}

=============================================================================
