---------------------------- MODULE MCConnectors ----------------------------
(***************************************************************************)
(* The field connectors in one run.  They share nothing but the gateway,   *)
(* which each meets through ConnectorContract, so a behaviour picks one    *)
(* connector and follows it, with calls or without: the behaviours with    *)
(* calls keep what the calls do not meet small.                            *)
(***************************************************************************)
EXTENDS ModbusConnector, OpcuaConnector, MqttConnector, BacnetConnector,
        RequestConnector, RestConnector

VARIABLE focus \* the connector that steps, and what it is followed for

ModbusMasters == [s \in {"s1", "s2"} |-> IF s = "s1" THEN "m1" ELSE "m2"]
OpcuaOrder == <<"n1", "n2", "n3">>
OpcuaDevices == [n \in {"n1", "n2", "n3"} |-> IF n = "n3" THEN "d2" ELSE "d1"]
MqttTopics == <<"t1", "broken", "system">>
BacnetMatches == [d \in {"d1", "d2", "d3"} |-> IF d = "d1" THEN 2 ELSE 1]
BacnetObjects == [d \in {"d1", "d2", "d3"} |-> IF d = "d3" THEN {"o1", "o2"} ELSE {"o1"}]

connectorVars == <<mbVars, uaVars, mqVars, bnVars, rqVars, rsVars, focus>>

InModbus == focus \in {"modbus", "modbus readings", "modbus calls"}
InOpcua == focus \in {"opcua", "opcua calls"}
InMqtt == focus \in {"mqtt", "mqtt requests", "mqtt calls"}
InBacnet == focus \in {"bacnet", "bacnet objects", "bacnet calls"}
InRequest == focus \in {"request", "request calls"}
InRest == focus = "rest"

ConnectorsInit ==
    /\ focus \in {"modbus", "modbus readings", "modbus calls", "opcua", "opcua calls",
                  "mqtt", "mqtt requests", "mqtt calls", "bacnet", "bacnet objects",
                  "bacnet calls", "request", "request calls", "rest"}
    /\ ModbusInit /\ OpcuaInit /\ MqttInit /\ BacnetInit
    /\ RequestInit /\ RestInit
    /\ focus # "opcua" => uaMode = "poll"

ConnectorsNext ==
    /\ UNCHANGED focus
    /\ \/ InModbus /\ ModbusNext
       \/ ~InModbus /\ UNCHANGED mbVars
    /\ focus = "modbus" => mbCall' = mbCall /\ mbFate' = mbFate
    /\ focus = "modbus readings" =>
         /\ mbCall' = mbCall
         /\ \A d \in MbSlaves : mbPoll'[d] \notin {"connecting", "pause"}
         /\ mbQueue' # <<>> => \A m \in MbMasters : mbUp'[m]
         /\ mbLife' = "running" => \A m \in MbMasters : mbUp[m] => mbUp'[m]
         /\ mbLife' = "stopping" => mbShut' = {}
    /\ focus = "modbus calls" =>
         /\ mbFate' = mbFate /\ Range(mbQueue') \subseteq {"s1"}
         /\ \A q \in MbCalls : mbCall'[q].slave = "s1"
         /\ ~mbUp'["m2"] /\ (mbLife' = "stopping" => mbShut' \subseteq {"s1"})
    /\ \/ InOpcua /\ OpcuaNext
       \/ ~InOpcua /\ UNCHANGED uaVars
    /\ focus = "opcua" => uaCall' = uaCall /\ (uaMode = "poll" => uaFate'["r2"] = "unread")
    /\ focus = "opcua" /\ uaMode = "subscribe" => "n2" \notin uaFound'
    /\ focus = "opcua" /\ uaMode = "poll" =>
         /\ uaMain = "loop" /\ uaMain' = "poll"
              => {"n1", "n3"} \subseteq uaFound /\ uaFate["r1"] = "unread"
         /\ uaFate["r1"] \in {"stored", "lost"} => uaMain' \in {uaMain, "ended"}
         /\ uaQueue # <<>> \/ ~uaJobs["w1"].live
              => uaMain' = "ended" \/ (uaMain' = uaMain /\ uaRecreate' = uaRecreate)
    /\ focus = "opcua calls" => uaMain' \in {"top", "connect", "ended"}
    /\ \/ InMqtt /\ MqttNext
       \/ ~InMqtt /\ UNCHANGED mqVars
    /\ focus = "mqtt" =>
         /\ mqCall' = mqCall /\ mqSubs' \cap MqRequests \subseteq {"connect"}
         /\ mqReader'.at # "error" /\ \A i \in DOMAIN mqInbox' : ~mqInbox'[i].odd
         /\ mqNet' = "up" => "system" \notin mqSubs'
    /\ focus = "mqtt requests" =>
         mqCall' = mqCall /\ mqFate'["r2"] = "unread" /\ mqWork' = mqWork
    /\ focus = "mqtt calls" => mqFate' = mqFate /\ mqSubs' \cap MqRequests = {}
    /\ \/ InBacnet /\ BacnetNext
       \/ ~InBacnet /\ UNCHANGED bnVars
    /\ focus = "bacnet" => bnCall' = bnCall /\ Range(bnIams') \subseteq {"d1"}
    /\ focus = "bacnet objects" => bnCall' = bnCall /\ Range(bnIams') \subseteq {"d3"}
    /\ focus = "bacnet calls" => Range(bnIams') \subseteq {"d2"}
    /\ \/ InRequest /\ RequestNext
       \/ ~InRequest /\ UNCHANGED rqVars
    /\ focus = "request" => rqCall' = rqCall
    /\ focus = "request calls" => rqFate' = rqFate /\ rqThread' = rqThread
    /\ \/ InRest /\ RestNext
       \/ ~InRest /\ UNCHANGED rsVars

(* The fairness that the connectors' threads justify, owed only while they are *)
(* the ones that step: a loop sees its stop flag, a thread ends the item it    *)
(* holds, a caller does not wait longer than its timeout, the BACnet stack     *)
(* answers or aborts each request, and the handler of its answers runs.        *)
ConnectorsFairness ==
    /\ WF_mbVars(InModbus /\ MbEnd)
    /\ \A q \in MbCalls : WF_mbVars(InModbus /\ MbCaller(q))
    /\ WF_uaVars(InOpcua /\ UaMainEnd) /\ WF_uaVars(InOpcua /\ UaEnd)
    /\ \A w \in UaWorkers : WF_uaVars(InOpcua /\ UaWorker(w))
    /\ \A q \in UaCalls : WF_uaVars(InOpcua /\ UaCaller(q))
    /\ WF_mqVars(InMqtt /\ MqRoute) /\ WF_mqVars(InMqtt /\ MqMainEnds)
    /\ WF_mqVars(InMqtt /\ MqEnd)
    /\ \A w \in MqWorkers : WF_mqVars(InMqtt /\ MqWorker(w))
    /\ WF_bnVars(InBacnet /\ BnEnd) /\ WF_bnVars(InBacnet /\ BnConfirm)
    /\ \A q \in BnCalls : WF_bnVars(InBacnet /\ BnCaller(q))
    /\ \A w \in BnWho : WF_bnVars(InBacnet /\ BnAnswered(w))
    /\ WF_rqVars(InRequest /\ (RqProcess \/ RqRunEnds)) /\ WF_rqVars(InRequest /\ RqEnd)
    /\ \A t \in RqThreads : WF_rqVars(InRequest /\ RqSender(t))
    /\ \A q \in RqCalls : WF_rqVars(InRequest /\ RqCaller(q)) /\ WF_rqVars(InRequest /\ RqSent(q))
    /\ WF_rsVars(InRest /\ RsEnd)
    /\ \A r \in RsReadings : WF_rsVars(InRest /\ RsRespond(r))
    /\ \A q \in RsCalls : WF_rsVars(InRest /\ RsCaller(q))

ConnectorsSpec == ConnectorsInit /\ [][ConnectorsNext]_connectorVars /\ ConnectorsFairness

-----------------------------------------------------------------------------
\* The shapes of the state, of the connector that steps.
TypesOK ==
    /\ InModbus => ModbusTypeOK
    /\ InOpcua => OpcuaTypeOK
    /\ InMqtt => MqttTypeOK
    /\ InBacnet => BacnetTypeOK
    /\ InRequest => RequestTypeOK
    /\ InRest => RestTypeOK

Asked(caller) == IF caller \in {"ok", "error"} THEN "answered" ELSE caller
Asks(calls) == [q \in DOMAIN calls |-> Asked(calls[q].caller)]

\* The connector that steps, as the gateway sees it.
Life == CASE InModbus -> mbLife [] InOpcua -> uaLife [] InMqtt -> mqLife
          [] InBacnet -> bnLife [] InRequest -> rqLife [] InRest -> rsLife

Fates == CASE InModbus -> mbFate [] InOpcua -> uaFate [] InMqtt -> mqFate
           [] InBacnet -> bnFate [] InRequest -> rqFate [] InRest -> rsFate

\* An MQTT call may wait for good, so its calls are left out of the contract.
Calling == CASE InModbus -> Asks(mbCall) [] InOpcua -> Asks(uaCall) [] InMqtt -> <<>>
             [] InBacnet -> Asks(bnCall) [] InRequest -> Asks(rqCall) [] InRest -> Asks(rsCall)

AllReadings == MbReadings \cup UaReadings \cup MqReadings \cup BnReadings
               \cup RqReadings \cup RsReadings
AllCalls == MbCalls \cup UaCalls \cup BnCalls \cup RqCalls \cup RsCalls

\* A reading or a call that is not of this connector is never taken or made.
Contract == INSTANCE ConnectorContract
    WITH Readings <- AllReadings, Calls <- AllCalls, life <- Life,
         fate <- [r \in AllReadings |-> IF r \in DOMAIN Fates THEN Fates[r] ELSE "unread"],
         call <- [q \in AllCalls |-> IF q \in DOMAIN Calling THEN Calling[q] ELSE "none"]

(* Each connector is what the gateway takes it for: it is opened and closed    *)
(* once, hands a reading to storage at most once and none after its threads    *)
(* have ended, answers every RPC (MQTT excepted) and ends when it is closed,   *)
(* whatever its pollers, workers, reconnections and callers do meanwhile.      *)
ConnectorsImplementContract == Contract!ContractSpec

(* A write that the caller is told was accepted has reached the device, with   *)
(* its timeouts, reconnections and a close in between.  Modbus has three       *)
(* exceptions, all of them answers without an error although nothing was       *)
(* written: no connection, no converted value, and the device's refusal.       *)
AcceptedMeansWritten ==
    /\ \A q \in MbCalls : mbCall[q].kind = "write" /\ mbCall[q].caller = "ok"
         => mbCall[q].applied \/ mbCall[q].why # "none"
    /\ \A q \in UaCalls : uaCall[q].kind = "write" /\ uaCall[q].caller = "ok"
         => uaCall[q].applied
    /\ \A q \in BnCalls : bnCall[q].kind = "write" /\ bnCall[q].caller = "ok"
         => bnCall[q].applied

(* A value is stored under the key of the node or register it was read from.   *)
(* An OPC-UA batch is cut up by the lists of nodes at the time of conversion,  *)
(* while a scan empties and refills them.  What is promised is little: of the  *)
(* first batch of a poll a value goes to its own key as long as each list was  *)
(* the polled one when it was counted, and this one also when it was filed by. *)
(* Not promised, and wrong in the code: a list that was short when a pool      *)
(* thread came to it, and every later batch of the same poll.  A wide range    *)
(* of Modbus registers keeps its addresses up to the first request that was    *)
(* answered with an error.                                                     *)
ValuesKeepTheirKey ==
    /\ ~uaMisfiled
    /\ focus = "modbus calls" /\ mbLife = "new" =>
         \A count \in 1..5, perRequest \in 1..3, objects \in 1..2 :
           LET chunks == MbAddressRanges(count, perRequest) IN
           \A valid \in SUBSET DOMAIN chunks :
             \A x \in MbWideRange(chunks, valid, objects) :
               x[1] = x[2] \/ \E k \in DOMAIN chunks \ valid : \E a \in chunks[k] : a <= x[1]

=============================================================================
