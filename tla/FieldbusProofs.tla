---------------------------- MODULE FieldbusProofs ----------------------------
(***************************************************************************)
(* Proofs for the Modbus, the OPC-UA and the BACnet connector, as those of *)
(* ConnectorProofs; that a write which is answered as accepted has reached *)
(* the device; and that all six connectors keep the contract.              *)
(***************************************************************************)
EXTENDS ConnectorProofs, WellFoundedInduction

-----------------------------------------------------------------------------
(* The calls of the Modbus connector.                                          *)
MbCallType ==
    [caller : {"none", "open", "ok", "error"}, kind : {"read", "write", "update"},
     slave : MbSlaves \cup {MbNoCall.slave},
     task : {"none", "connect", "connecting", "wire", "ended"},
     result : {"none", "ok", "error"}, applied : BOOLEAN,
     why : {"none", "unconverted", "offline", "refused"}]

(* A Modbus call has no result before its task has ended, and a write whose    *)
(* result or whose answer is good has reached the device or has an excuse.     *)
MbSound(c) ==
    /\ c.caller = "none" => c.task = "none"
    /\ c.task # "ended" => c.result = "none"
    /\ c.task = "ended" /\ c.caller = "open" => c.result # "none"
    /\ c.caller = "ok" /\ c.kind = "write" => c.task = "ended"
    /\ c.kind = "write" /\ (c.result = "ok" \/ c.caller = "ok") => c.applied \/ c.why # "none"

MbCallInv == mbCall \in [MbCalls -> MbCallType] /\ \A q \in MbCalls : MbSound(mbCall[q])

(* No call was made yet.                                                       *)
LEMMA MbCallInit == ModbusInit => MbCallInv
  BY DEF ModbusInit, MbCallInv, MbCallType, MbNoCall, MbSound

(* A step that moves one call on.                                              *)
LEMMA MbCallMoves ==
  ASSUME MbCallInv, NEW q \in MbCalls, NEW c \in MbCallType, MbSound(c),
         mbCall' = [mbCall EXCEPT ![q] = c]
  PROVE  MbCallInv'
  BY DEF MbCallInv

(* The caller's own steps.                                                     *)
LEMMA MbCallerKeeps ==
  ASSUME MbCallInv, NEW q \in MbCalls, MbAsk(q) \/ MbCaller(q)
  PROVE  MbCallInv'
  <1> DEFINE c == mbCall[q]
  <1>0. c \in MbCallType /\ MbSound(c) /\ mbCall \in [MbCalls -> MbCallType]
    BY DEF MbCallInv
  <1>1. CASE MbAsk(q)
    <2>1. PICK s \in MbSlaves, k \in {"read", "write", "update"} :
            mbCall' = [mbCall EXCEPT ![q].caller = "open", ![q].kind = k, ![q].slave = s]
      BY <1>1, Zenon DEF MbAsk
    <2>2. c.caller = "none" BY <1>1 DEF MbAsk
    <2> DEFINE d == [c EXCEPT !.caller = "open", !.kind = k, !.slave = s]
    <2>3. d \in MbCallType /\ MbSound(d)
      BY <1>0, <2>1, <2>2 DEF MbCallType, MbSound
    <2>4. mbCall' = [mbCall EXCEPT ![q] = d]
      BY <1>0, <2>1
    <2> QED BY <2>4, <2>3, MbCallMoves
  <1>2. CASE MbRequest(q)
    <2>1. c.caller = "open" /\ c.task = "none"
      BY <1>2 DEF MbRequest, MbBadRequest, MbReservedRequest, MbDeviceRequest, MbNoDeviceRequest,
                  MbAttributeUpdate
    <2>2. CASE mbCall' = [mbCall EXCEPT ![q].task = "connect"]
      <3> DEFINE d == [c EXCEPT !.task = "connect"]
      <3>1. d \in MbCallType /\ MbSound(d)
        BY <1>0, <2>1 DEF MbCallType, MbSound
      <3> QED BY <1>0, <2>2, <3>1, MbCallMoves
    <2>3. CASE mbCall' = [mbCall EXCEPT ![q].caller = "error"]
      <3> DEFINE d == [c EXCEPT !.caller = "error"]
      <3>1. d \in MbCallType /\ MbSound(d)
        BY <1>0, <2>1 DEF MbCallType, MbSound
      <3> QED BY <1>0, <2>3, <3>1, MbCallMoves
    <2>4. CASE mbCall' = [mbCall EXCEPT ![q].caller = "ok"] /\ c.kind = "update"
      <3> DEFINE d == [c EXCEPT !.caller = "ok"]
      <3>1. d \in MbCallType /\ MbSound(d)
        BY <1>0, <2>1, <2>4 DEF MbCallType, MbSound
      <3> QED BY <1>0, <2>4, <3>1, MbCallMoves
    <2> QED BY <1>2, <2>2, <2>3, <2>4
        DEF MbRequest, MbBadRequest, MbReservedRequest, MbDeviceRequest, MbNoDeviceRequest,
            MbAttributeUpdate
  <1>3. CASE MbAnswer(q)
    <2> DEFINE d == [c EXCEPT !.caller = c.result, !.result = "none"]
    <2>1. c.caller = "open" /\ c.task = "ended" /\ mbCall' = [mbCall EXCEPT ![q] = d]
      BY <1>0, <1>3 DEF MbAnswer
    <2>2. d \in MbCallType /\ MbSound(d)
      BY <1>0, <2>1 DEF MbCallType, MbSound
    <2> QED BY <2>1, <2>2, MbCallMoves
  <1>4. CASE MbTimeout(q)
    <2>1. PICK reached \in BOOLEAN :
            mbCall' = [mbCall EXCEPT ![q].caller = "error", ![q].task = "ended",
                         ![q].applied = reached /\ c.task = "wire" /\ c.kind # "read"]
      BY <1>4, Zenon DEF MbTimeout
    <2> DEFINE d == [c EXCEPT !.caller = "error", !.task = "ended",
                              !.applied = reached /\ c.task = "wire" /\ c.kind # "read"]
    <2>2. c.task # "ended" BY <1>4 DEF MbTimeout
    <2>3. d \in MbCallType /\ MbSound(d)
      BY <1>0, <2>2 DEF MbCallType, MbSound
    <2>4. mbCall' = [mbCall EXCEPT ![q] = d]
      BY <1>0, <2>1
    <2> QED BY <2>4, <2>3, MbCallMoves
  <1>5. CASE MbAbandon(q)
    <2> DEFINE d == [c EXCEPT !.caller = "error"]
    <2>1. c.caller = "open" /\ c.task # "ended" /\ mbCall' = [mbCall EXCEPT ![q] = d]
      BY <1>0, <1>5 DEF MbAbandon
    <2>2. d \in MbCallType /\ MbSound(d)
      BY <1>0, <2>1 DEF MbCallType, MbSound
    <2> QED BY <2>1, <2>2, MbCallMoves
  <1> QED BY <1>1, <1>2, <1>3, <1>4, <1>5 DEF MbCaller

(* The steps of its task.                                                      *)
LEMMA MbTaskKeeps ==
  ASSUME MbCallInv, NEW q \in MbCalls,
         MbConversionEnds(q) \/ MbCallConnect(q) \/ MbDeviceAnswers(q) \/ MbWireFails(q)
  PROVE  MbCallInv'
  <1> DEFINE c == mbCall[q]
  <1>0. c \in MbCallType /\ MbSound(c) /\ mbCall \in [MbCalls -> MbCallType]
    BY DEF MbCallInv
  <1>a. c.task \in {"connect", "connecting", "wire"}
    BY DEF MbConversionEnds, MbCallConnect, MbDeviceAnswers, MbWireFails
  <1>b. c.caller # "ok" \/ c.kind # "write"
    BY <1>0, <1>a DEF MbSound
  <1>1. ASSUME NEW t \in {"connecting", "wire"}, mbCall' = [mbCall EXCEPT ![q].task = t]
        PROVE MbCallInv'
    <2> DEFINE d == [c EXCEPT !.task = t]
    <2>1. d \in MbCallType /\ MbSound(d)
      BY <1>0, <1>1, <1>a DEF MbCallType, MbSound
    <2> QED BY <1>0, <1>1, <2>1, MbCallMoves
  <1>2. ASSUME NEW w \in {"unconverted", "offline", "refused"}, NEW x \in {"ok", "error"},
               mbCall' = [mbCall EXCEPT ![q].task = "ended", ![q].result = x, ![q].why = w]
        PROVE MbCallInv'
    <2> DEFINE d == [c EXCEPT !.task = "ended", !.result = x, !.why = w]
    <2>1. d \in MbCallType /\ MbSound(d)
      BY <1>0, <1>2, <1>a DEF MbCallType, MbSound
    <2>2. mbCall' = [mbCall EXCEPT ![q] = d]
      BY <1>0, <1>2
    <2> QED BY <2>2, <2>1, MbCallMoves
  <1>3. ASSUME NEW a \in BOOLEAN, NEW x \in {"ok", "error"},
               x = "ok" => a = (c.kind # "read"),
               mbCall' = [mbCall EXCEPT ![q].task = "ended", ![q].result = x, ![q].applied = a]
        PROVE MbCallInv'
    <2> DEFINE d == [c EXCEPT !.task = "ended", !.result = x, !.applied = a]
    <2>1. d \in MbCallType /\ MbSound(d)
      BY <1>0, <1>3, <1>a, <1>b DEF MbCallType, MbSound
    <2>2. mbCall' = [mbCall EXCEPT ![q] = d]
      BY <1>0, <1>3
    <2> QED BY <2>2, <2>1, MbCallMoves
  <1>4. CASE MbConversionEnds(q)
    <2>1. CASE mbCall' = [mbCall EXCEPT ![q].task = "ended", ![q].result = "error"]
      <3> DEFINE d == [c EXCEPT !.task = "ended", !.result = "error"]
      <3>1. d \in MbCallType /\ MbSound(d)
        BY <1>0, <1>a, <1>b DEF MbCallType, MbSound
      <3> QED BY <1>0, <2>1, <3>1, MbCallMoves
    <2> QED BY <1>2, <1>4, <2>1 DEF MbConversionEnds
  <1>5. CASE MbCallConnect(q)
    <2>1. \/ mbCall' = [mbCall EXCEPT ![q].task = "wire"]
          \/ mbCall' = [mbCall EXCEPT ![q].task = "connecting"]
          \/ mbCall' = [mbCall EXCEPT ![q].task = "ended", ![q].result = "ok", ![q].why = "offline"]
      BY <1>5 DEF MbCallConnect
    <2> QED BY <2>1, <1>1, <1>2
  <1>6. CASE MbDeviceAnswers(q)
    <2>1. CASE mbCall' = [mbCall EXCEPT ![q].task = "ended", ![q].result = "ok",
                                        ![q].applied = c.kind # "read"]
      BY <1>3, <2>1
    <2>2. CASE mbCall' = [mbCall EXCEPT ![q].task = "ended", ![q].why = "refused",
                            ![q].result = IF c.kind = "read" THEN "error" ELSE "ok"]
      <3> DEFINE x == IF c.kind = "read" THEN "error" ELSE "ok"
      <3>1. x \in {"ok", "error"} OBVIOUS
      <3>2. mbCall' = [mbCall EXCEPT ![q].task = "ended", ![q].result = x, ![q].why = "refused"]
        BY <1>0, <2>2
      <3> HIDE DEF x
      <3> QED BY <1>2, <3>1, <3>2
    <2> QED BY <1>6, <2>1, <2>2 DEF MbDeviceAnswers
  <1>7. CASE MbWireFails(q)
    <2>1. PICK reached \in BOOLEAN :
            mbCall' = [mbCall EXCEPT ![q].task = "ended", ![q].result = "error",
                                     ![q].applied = reached /\ c.kind # "read"]
      BY <1>7 DEF MbWireFails
    <2>2. (reached /\ c.kind # "read") \in BOOLEAN OBVIOUS
    <2> DEFINE a == reached /\ c.kind # "read"
    <2>3. mbCall' = [mbCall EXCEPT ![q].task = "ended", ![q].result = "error", ![q].applied = a]
          /\ a \in BOOLEAN
      BY <2>1
    <2> HIDE DEF a
    <2> QED BY <1>3, <2>3
  <1> QED BY <1>4, <1>5, <1>6, <1>7

(* Every step of the connector.                                                *)
LEMMA MbCallStep == MbCallInv /\ [ModbusNext]_mbVars => MbCallInv'
  <1> SUFFICES ASSUME MbCallInv, [ModbusNext]_mbVars PROVE MbCallInv'
    OBVIOUS
  <1>1. ASSUME UNCHANGED mbCall PROVE MbCallInv'
    BY <1>1 DEF MbCallInv
  <1>2. CASE MbOpen \/ MbTakeRequest \/ MbConvert \/ MbSave \/ MbStop \/ MbEnd
    BY <1>1, <1>2 DEF MbOpen, MbTakeRequest, MbConvert, MbSave, MbStop, MbEnd
  <1>3. ASSUME NEW m \in MbMasters, MbLink(m) PROVE MbCallInv'
    BY <1>1, <1>3 DEF MbLink
  <1>4. ASSUME NEW s \in MbSlaves, \/ MbTimer(s) \/ MbPollConnect(s) \/ MbPollRead(s)
                                   \/ MbPollResume(s) \/ MbCloseSlave(s)
        PROVE MbCallInv'
    BY <1>1, <1>4 DEF MbTimer, MbPollConnect, MbPollRead, MbPollResume, MbCloseSlave
  <1>5. CASE UNCHANGED mbVars
    BY <1>1, <1>5 DEF mbVars
  <1> QED BY <1>2, <1>3, <1>4, <1>5, MbCallerKeeps, MbTaskKeeps DEF ModbusNext

-----------------------------------------------------------------------------
(* The Modbus connector as the gateway sees it.                                *)
MbGateway == INSTANCE ConnectorContract
    WITH Readings <- MbReadings, Calls <- MbCalls, life <- mbLife, fate <- mbFate,
         call <- Asks(mbCall)

MbGatewaySafety == MbGateway!ContractInit /\ [][MbGateway!ContractNext]_(MbGateway!contractVars)


MbPipeTypes ==
    /\ mbFate \in [MbReadings -> FateType]
    /\ mbInbox \in Seq(MbSlaves \X MbReadings) /\ mbOutbox \in Seq(SUBSET MbReadings)

(* A reading on its way is held, and at one place only: once in the inbox or   *)
(* in one batch of the outbox.                                                 *)
MbPipeInv ==
    /\ MbPipeTypes
    /\ \A i \in DOMAIN mbInbox : mbFate[mbInbox[i][2]] = "held"
    /\ \A i, j \in DOMAIN mbInbox : mbInbox[i][2] = mbInbox[j][2] => i = j
    /\ \A i \in DOMAIN mbOutbox : \A r \in mbOutbox[i] : mbFate[r] = "held"
    /\ \A i, j \in DOMAIN mbOutbox : \A r \in mbOutbox[i] \cap mbOutbox[j] : i = j
    /\ \A i \in DOMAIN mbInbox, j \in DOMAIN mbOutbox : mbInbox[i][2] \notin mbOutbox[j]

(* Nothing was read yet.                                                       *)
LEMMA MbPipeInit == ModbusInit => MbPipeInv
  BY DEF ModbusInit, MbPipeInv, MbPipeTypes, FateType

(* What waits in the inbox.                                                    *)
LEMMA MbInboxItem ==
  ASSUME MbPipeTypes, NEW i \in DOMAIN mbInbox
  PROVE  mbInbox[i] \in MbSlaves \X MbReadings /\ mbInbox[i] = <<mbInbox[i][1], mbInbox[i][2]>>
         /\ mbInbox[i][2] \in MbReadings /\ mbInbox[i][1] \in MbSlaves
  <1>1. mbInbox[i] \in MbSlaves \X MbReadings
    BY DEF MbPipeTypes
  <1> QED BY <1>1

(* A settled or taken reading is what the contract says.                       *)
LEMMA MbSettles ==
  ASSUME MbPipeTypes, mbLife \in {"running", "stopping"}, UNCHANGED <<mbLife, mbCall>>,
         mbFate' \in [MbReadings -> FateType],
         \A r \in MbReadings : \/ mbFate'[r] = mbFate[r]
                               \/ mbFate[r] = "held" /\ mbFate'[r] \in {"stored", "lost"}
  PROVE  [MbGateway!ContractNext]_(MbGateway!contractVars)
  <1>1. CASE mbFate' = mbFate
    BY <1>1 DEF MbGateway!contractVars
  <1>2. CASE mbFate' # mbFate
    <2>1. MbGateway!Settle
      BY <1>2 DEF MbGateway!Settle, MbGateway!Alive, FateType
    <2> QED BY <2>1 DEF MbGateway!ContractNext
  <1> QED BY <1>1, <1>2

(* A poll brings one reading, which was not read before.                       *)
LEMMA MbReadDataStep ==
  ASSUME MbPipeInv, NEW s \in MbSlaves, MbPollRead(s)
  PROVE  MbPipeInv' /\ [MbGateway!ContractNext]_(MbGateway!contractVars)
  <1>0. MbPipeTypes /\ UNCHANGED <<mbLife, mbCall>> /\ mbLife \in {"running", "stopping"}
    BY DEF MbPipeInv, MbPollRead, MbLoopRuns
  <1>1. CASE MbReadNothing(s) \/ MbReadFails(s)
    <2>1. UNCHANGED <<mbInbox, mbOutbox, mbFate>>
      BY <1>1 DEF MbReadNothing, MbReadFails, mbPipeline
    <2> QED BY <1>0, <2>1 DEF MbPipeInv, MbPipeTypes, MbGateway!contractVars
  <1>2. CASE MbReadData(s)
    <2>1. PICK r \in MbReadings :
         /\ mbFate[r] = "unread" /\ mbFate' = [mbFate EXCEPT ![r] = "held"]
         /\ mbInbox' = Append(mbInbox, <<s, r>>)
      BY <1>2 DEF MbReadData
    <2>2. UNCHANGED mbOutbox
      BY <1>2 DEF MbReadData
    <2>3. /\ mbFate' \in [MbReadings -> FateType] /\ mbFate'[r] = "held"
          /\ \A x \in MbReadings : mbFate[x] = "held" => mbFate'[x] = "held" /\ x # r
      BY <1>0, <2>1 DEF MbPipeTypes, FateType
    <2>4. /\ mbInbox' \in Seq(MbSlaves \X MbReadings) /\ Len(mbInbox) + 1 \notin DOMAIN mbInbox
          /\ \A i \in DOMAIN mbInbox' : \/ i \in DOMAIN mbInbox /\ mbInbox'[i] = mbInbox[i]
                                        \/ i = Len(mbInbox) + 1 /\ mbInbox'[i] = <<s, r>>
      <3>1. mbInbox \in Seq(MbSlaves \X MbReadings) /\ <<s, r>> \in MbSlaves \X MbReadings
        BY <1>0 DEF MbPipeTypes
      <3> QED BY <2>1, <3>1, AppendParts
    <2>5. ASSUME NEW i \in DOMAIN mbInbox'
          PROVE  \/ i \in DOMAIN mbInbox /\ mbInbox'[i][2] = mbInbox[i][2]
                    /\ mbInbox[i][2] \in MbReadings /\ mbInbox[i][2] # r
                    /\ mbFate'[mbInbox[i][2]] = "held"
                 \/ i = Len(mbInbox) + 1 /\ mbInbox'[i][2] = r
      BY <1>0, <2>3, <2>4, MbInboxItem DEF MbPipeInv
    <2>6. MbPipeTypes'
      BY <1>0, <2>2, <2>3, <2>4 DEF MbPipeTypes
    <2>7. \A j \in DOMAIN mbOutbox : \A x \in mbOutbox[j] : x # r /\ mbFate'[x] = "held"
      <3>1. \A j \in DOMAIN mbOutbox : mbOutbox[j] \subseteq MbReadings
        BY <1>0 DEF MbPipeTypes
      <3> QED BY <2>3, <3>1 DEF MbPipeInv
    <2>8. MbPipeInv'
      <3>1. \A i \in DOMAIN mbInbox' : mbFate'[mbInbox'[i][2]] = "held"
        BY <2>3, <2>5
      <3>2. \A i, j \in DOMAIN mbInbox' : mbInbox'[i][2] = mbInbox'[j][2] => i = j
        BY <2>5 DEF MbPipeInv
      <3>3. \A i \in DOMAIN mbInbox', j \in DOMAIN mbOutbox : mbInbox'[i][2] \notin mbOutbox[j]
        BY <2>5, <2>7 DEF MbPipeInv
      <3> QED BY <2>2, <2>6, <2>7, <3>1, <3>2, <3>3 DEF MbPipeInv
    <2>9. MbGateway!Take(r)
      BY <1>0, <2>1 DEF MbGateway!Take, MbGateway!Alive
    <2> QED BY <2>8, <2>9 DEF MbGateway!ContractNext
  <1> QED BY <1>1, <1>2 DEF MbPollRead

(* The saver stores one batch; its readings were held and are nowhere else.    *)
LEMMA MbSaveStep ==
  ASSUME MbPipeInv, MbSave
  PROVE  MbPipeInv' /\ [MbGateway!ContractNext]_(MbGateway!contractVars)
  <1>0. /\ MbPipeTypes /\ UNCHANGED <<mbLife, mbCall, mbInbox>> /\ mbLife = "running"
        /\ mbOutbox # <<>> /\ mbOutbox' = Tail(mbOutbox)
        /\ mbFate' = [r \in MbReadings |-> IF r \in Head(mbOutbox) THEN "stored" ELSE mbFate[r]]
    BY DEF MbPipeInv, MbSave
  <1>1. /\ mbOutbox' \in Seq(SUBSET MbReadings) /\ 1 \in DOMAIN mbOutbox
        /\ Head(mbOutbox) = mbOutbox[1] /\ mbOutbox[1] \subseteq MbReadings
        /\ \A i \in DOMAIN mbOutbox' : /\ i \in Nat /\ i + 1 \in DOMAIN mbOutbox /\ i + 1 # 1
                                       /\ mbOutbox'[i] = mbOutbox[i + 1]
    <2>1. mbOutbox \in Seq(SUBSET MbReadings) BY <1>0 DEF MbPipeTypes
    <2> QED BY <1>0, <2>1, TailParts
  <1>2. /\ mbFate' \in [MbReadings -> FateType]
        /\ \A r \in MbReadings : mbFate'[r] = IF r \in mbOutbox[1] THEN "stored" ELSE mbFate[r]
    BY <1>0, <1>1 DEF MbPipeTypes, FateType
  <1>3. ASSUME NEW i \in DOMAIN mbOutbox', NEW r \in mbOutbox'[i]
        PROVE  r \notin mbOutbox[1] /\ r \in MbReadings /\ mbFate'[r] = "held"
    <2>1. r \in mbOutbox[i + 1] /\ i + 1 \in DOMAIN mbOutbox /\ i + 1 # 1
      BY <1>1
    <2>2. r \notin mbOutbox[1]
      BY <1>1, <2>1 DEF MbPipeInv
    <2>3. r \in MbReadings
      <3>1. mbOutbox[i + 1] \subseteq MbReadings BY <1>0, <2>1 DEF MbPipeTypes
      <3> QED BY <2>1, <3>1
    <2>4. mbFate[r] = "held"
      BY <2>1 DEF MbPipeInv
    <2> QED BY <1>2, <2>2, <2>3, <2>4
  <1>4. ASSUME NEW i \in DOMAIN mbInbox
        PROVE  mbFate'[mbInbox[i][2]] = "held"
    <2>1. mbInbox[i][2] \in MbReadings BY <1>0, MbInboxItem
    <2>2. mbInbox[i][2] \notin mbOutbox[1] /\ mbFate[mbInbox[i][2]] = "held"
      BY <1>1 DEF MbPipeInv
    <2> QED BY <1>2, <2>1, <2>2
  <1>5. \A i, j \in DOMAIN mbOutbox' : \A r \in mbOutbox'[i] \cap mbOutbox'[j] : i = j
    <2> SUFFICES ASSUME NEW i \in DOMAIN mbOutbox', NEW j \in DOMAIN mbOutbox',
                        NEW r \in mbOutbox'[i] \cap mbOutbox'[j]
                 PROVE i = j
      OBVIOUS
    <2>1. /\ i \in Nat /\ i + 1 \in DOMAIN mbOutbox /\ r \in mbOutbox[i + 1]
          /\ j \in Nat /\ j + 1 \in DOMAIN mbOutbox /\ r \in mbOutbox[j + 1]
      BY <1>1
    <2>2. i + 1 = j + 1 BY <2>1 DEF MbPipeInv
    <2> QED BY <2>1, <2>2
  <1>6. \A i \in DOMAIN mbInbox, j \in DOMAIN mbOutbox' : mbInbox[i][2] \notin mbOutbox'[j]
    BY <1>1 DEF MbPipeInv
  <1>7. MbPipeTypes'
    BY <1>0, <1>1, <1>2 DEF MbPipeTypes
  <1>8. MbPipeInv'
    BY <1>0, <1>3, <1>4, <1>5, <1>6, <1>7 DEF MbPipeInv
  <1>9. \A r \in MbReadings : \/ mbFate'[r] = mbFate[r]
                              \/ mbFate[r] = "held" /\ mbFate'[r] \in {"stored", "lost"}
    BY <1>1, <1>2 DEF MbPipeInv
  <1> QED BY <1>0, <1>2, <1>8, <1>9, MbSettles

(* The groups of a batch, and their order in the outbox.                       *)
MbGroup(batch, s) == {r \in MbReadings : <<s, r>> \in batch}
MbGroups(batch, kept) == {MbGroup(batch, s) : s \in kept} \ {{}}

(* The groups of finitely many devices, queued one by one.                     *)
LEMMA MbGroupsQueued ==
  ASSUME NEW batch, NEW kept \in SUBSET MbSlaves
  PROVE  LET q == SetToSeq(MbGroups(batch, kept)) IN
         /\ q \in Seq(SUBSET MbReadings)
         /\ \A i \in DOMAIN q : \E s \in kept : q[i] = MbGroup(batch, s)
         /\ \A i, j \in DOMAIN q : q[i] = q[j] => i = j
         /\ \A i \in DOMAIN q : q[i] \in MbGroups(batch, kept)
  <1> DEFINE all == {MbGroup(batch, s) : s \in kept}
             f == [s \in kept |-> MbGroup(batch, s)]
  <1>1. IsFiniteSet(kept)
    BY FS_Subset, ModbusAssumption
  <1>2. f \in Surjection(kept, all)
    BY DEF Surjection
  <1>3. IsFiniteSet(all)
    BY <1>1, <1>2, FS_Surjection
  <1>4. IsFiniteSet(MbGroups(batch, kept))
    BY <1>3, FS_Difference DEF MbGroups
  <1> DEFINE S == MbGroups(batch, kept)
             q == SetToSeq(S)
  <1>5. q \in Seq(S) /\ \A i, j \in DOMAIN q : q[i] = q[j] => i = j
    BY <1>4, InSomeOrder
  <1>6. S \subseteq SUBSET MbReadings /\ \A g \in S : \E s \in kept : g = MbGroup(batch, s)
    BY DEF MbGroups, MbGroup
  <1> HIDE DEF S, q
  <1>7. \A i \in DOMAIN q : q[i] \in S
    BY <1>5
  <1>8. q \in Seq(SUBSET MbReadings)
    BY <1>5, <1>6
  <1> QED BY <1>5, <1>6, <1>7, <1>8 DEF S, q

(* The converter moves what it decodes of a batch to the outbox and loses the  *)
(* rest of the batch.                                                          *)
LEMMA MbConvertStep ==
  ASSUME MbPipeInv, MbConvert
  PROVE  MbPipeInv' /\ [MbGateway!ContractNext]_(MbGateway!contractVars)
  <1>0. MbPipeTypes /\ UNCHANGED <<mbLife, mbCall>> /\ mbLife = "running"
    BY DEF MbPipeInv, MbConvert
  <1>1. PICK n \in 1..Len(mbInbox), kept \in MbDecoded(MbSlaves) :
         LET batch == Range(SubSeq(mbInbox, 1, n)) IN
         /\ mbInbox' = SubSeq(mbInbox, n + 1, Len(mbInbox))
         /\ mbOutbox' = mbOutbox \o SetToSeq(MbGroups(batch, kept))
         /\ mbFate' = [r \in MbReadings |->
                         IF (\E s \in MbSlaves : r \in MbGroup(batch, s))
                            /\ r \notin UNION MbGroups(batch, kept)
                         THEN "lost" ELSE mbFate[r]]
    BY Zenon DEF MbConvert, MbGroup, MbGroups
  <1> DEFINE batch == Range(SubSeq(mbInbox, 1, n))
             groups == MbGroups(batch, kept)
             q == SetToSeq(groups)
  <1>2. kept \in SUBSET MbSlaves BY DEF MbDecoded
  <1>3. /\ SubSeq(mbInbox, 1, n) \in Seq(MbSlaves \X MbReadings)
        /\ mbInbox' \in Seq(MbSlaves \X MbReadings) /\ n \in Nat
        /\ \A i \in DOMAIN SubSeq(mbInbox, 1, n) :
             /\ i \in Nat /\ i <= n /\ i \in DOMAIN mbInbox /\ SubSeq(mbInbox, 1, n)[i] = mbInbox[i]
        /\ \A i \in DOMAIN mbInbox' :
             /\ i \in Nat /\ i + n \in DOMAIN mbInbox /\ i + n > n /\ mbInbox'[i] = mbInbox[i + n]
    <2>1. mbInbox \in Seq(MbSlaves \X MbReadings) BY <1>0 DEF MbPipeTypes
    <2>2. n \in Nat OBVIOUS
    <2> QED BY <1>1, <2>1, <2>2, SplitParts
  <1>4. ASSUME NEW s, NEW r, r \in MbGroup(batch, s)
        PROVE  \E i \in DOMAIN mbInbox : i \in Nat /\ i <= n /\ mbInbox[i] = <<s, r>>
    <2>1. <<s, r>> \in batch BY <1>4 DEF MbGroup
    <2>2. PICK i \in DOMAIN SubSeq(mbInbox, 1, n) : <<s, r>> = SubSeq(mbInbox, 1, n)[i]
      BY <2>1 DEF Range
    <2> QED BY <1>3, <2>2
  <1>5. /\ q \in Seq(SUBSET MbReadings)
        /\ \A i \in DOMAIN q : \E s \in kept : q[i] = MbGroup(batch, s)
        /\ \A i, j \in DOMAIN q : q[i] = q[j] => i = j
        /\ \A i \in DOMAIN q : q[i] \in groups
    BY <1>2, MbGroupsQueued
  <1>6. /\ mbOutbox' \in Seq(SUBSET MbReadings) /\ Len(mbOutbox) \in Nat
        /\ \A i \in DOMAIN mbOutbox' :
              \/ i \in DOMAIN mbOutbox /\ mbOutbox'[i] = mbOutbox[i]
              \/ /\ i \notin DOMAIN mbOutbox /\ i \in Nat /\ i - Len(mbOutbox) \in DOMAIN q
                 /\ mbOutbox'[i] = q[i - Len(mbOutbox)]
    <2>1. mbOutbox \in Seq(SUBSET MbReadings) /\ mbOutbox' = mbOutbox \o q
      BY <1>0, <1>1 DEF MbPipeTypes
    <2> HIDE DEF q
    <2> QED BY <1>5, <2>1, ConcatParts
  <1>7. /\ mbFate' \in [MbReadings -> FateType]
        /\ \A r \in MbReadings : mbFate'[r] =
             IF (\E s \in MbSlaves : r \in MbGroup(batch, s)) /\ r \notin UNION groups
             THEN "lost" ELSE mbFate[r]
    BY <1>0, <1>1 DEF MbPipeTypes, FateType
  <1> HIDE DEF batch, groups, q
  <1>8. ASSUME NEW r \in MbReadings, NEW s, r \in MbGroup(batch, s)
        PROVE mbFate[r] = "held"
    <2>1. PICK i \in DOMAIN mbInbox : mbInbox[i] = <<s, r>> BY <1>4, <1>8
    <2> QED BY <2>1 DEF MbPipeInv
  <1>9. \A r \in MbReadings : \/ mbFate'[r] = mbFate[r]
                              \/ mbFate[r] = "held" /\ mbFate'[r] \in {"stored", "lost"}
    BY <1>7, <1>8
  <1>10. ASSUME NEW i \in DOMAIN mbInbox'
         PROVE /\ mbInbox'[i][2] \in MbReadings /\ mbFate'[mbInbox'[i][2]] = "held"
               /\ \A s : mbInbox'[i][2] \notin MbGroup(batch, s)
    <2>1. i \in Nat /\ i + n \in DOMAIN mbInbox /\ i + n > n /\ mbInbox'[i] = mbInbox[i + n]
      BY <1>3
    <2>2. mbInbox'[i][2] \in MbReadings /\ mbFate[mbInbox'[i][2]] = "held"
      BY <1>0, <2>1, MbInboxItem DEF MbPipeInv
    <2>3. ASSUME NEW s, mbInbox'[i][2] \in MbGroup(batch, s) PROVE FALSE
      <3>1. PICK k \in DOMAIN mbInbox :
              k \in Nat /\ k <= n /\ mbInbox[k] = <<s, mbInbox'[i][2]>>
        BY <1>4, <2>3
      <3>2. mbInbox[k][2] = mbInbox[i + n][2] BY <2>1, <3>1
      <3>3. k = i + n BY <2>1, <3>1, <3>2 DEF MbPipeInv
      <3> QED BY <1>3, <2>1, <3>1, <3>3
    <2> QED BY <1>7, <2>2, <2>3
  <1>11. ASSUME NEW i \in DOMAIN mbOutbox, NEW r \in mbOutbox[i]
         PROVE  /\ r \in MbReadings /\ mbFate'[r] = "held"
                /\ \A s : r \notin MbGroup(batch, s)
    <2>1. r \in MbReadings /\ mbFate[r] = "held"
      <3>1. mbOutbox[i] \subseteq MbReadings BY <1>0 DEF MbPipeTypes
      <3> QED BY <3>1 DEF MbPipeInv
    <2>2. ASSUME NEW s, r \in MbGroup(batch, s) PROVE FALSE
      <3>1. PICK k \in DOMAIN mbInbox : mbInbox[k] = <<s, r>> BY <1>4, <2>2
      <3>2. mbInbox[k][2] = r BY <3>1
      <3> QED BY <3>1, <3>2 DEF MbPipeInv
    <2> QED BY <1>7, <2>1, <2>2
  <1>12. ASSUME NEW i \in DOMAIN q, NEW r \in q[i]
         PROVE  /\ r \in MbReadings /\ mbFate'[r] = "held" /\ r \in UNION groups
                /\ \E s \in kept : q[i] = MbGroup(batch, s) /\ r \in MbGroup(batch, s)
    <2>1. PICK s \in kept : q[i] = MbGroup(batch, s) BY <1>5
    <2>2. r \in MbReadings BY <2>1 DEF MbGroup
    <2>3. r \in UNION groups BY <1>5
    <2>4. mbFate[r] = "held" BY <1>8, <2>1, <2>2
    <2> QED BY <1>7, <2>1, <2>2, <2>3, <2>4
  <1>13. ASSUME NEW i \in DOMAIN q, NEW j \in DOMAIN q, NEW r \in q[i] \cap q[j] PROVE i = j
    <2>1. PICK s \in kept : q[i] = MbGroup(batch, s) /\ r \in MbGroup(batch, s) BY <1>12
    <2>2. PICK t \in kept : q[j] = MbGroup(batch, t) /\ r \in MbGroup(batch, t) BY <1>12
    <2>3. PICK k \in DOMAIN mbInbox : mbInbox[k] = <<s, r>> BY <1>4, <2>1
    <2>4. PICK l \in DOMAIN mbInbox : mbInbox[l] = <<t, r>> BY <1>4, <2>2
    <2>5. k = l
      <3>1. mbInbox[k][2] = mbInbox[l][2] BY <2>3, <2>4
      <3> QED BY <3>1 DEF MbPipeInv
    <2>6. s = t BY <2>3, <2>4, <2>5
    <2> QED BY <1>5, <2>1, <2>2, <2>6
  <1>14. MbPipeTypes'
    BY <1>3, <1>6, <1>7 DEF MbPipeTypes
  <1>15. \A i, j \in DOMAIN mbInbox' : mbInbox'[i][2] = mbInbox'[j][2] => i = j
    <2> SUFFICES ASSUME NEW i \in DOMAIN mbInbox', NEW j \in DOMAIN mbInbox',
                        mbInbox'[i][2] = mbInbox'[j][2]
                 PROVE i = j
      OBVIOUS
    <2>1. /\ i \in Nat /\ i + n \in DOMAIN mbInbox /\ mbInbox'[i] = mbInbox[i + n]
          /\ j \in Nat /\ j + n \in DOMAIN mbInbox /\ mbInbox'[j] = mbInbox[j + n]
      BY <1>3
    <2>2. i + n = j + n BY <2>1 DEF MbPipeInv
    <2>3. i \in Nat /\ j \in Nat /\ n \in Nat BY <1>3
    <2> QED BY <2>2, <2>3
  <1>16. \A i \in DOMAIN mbOutbox' : \A r \in mbOutbox'[i] : mbFate'[r] = "held"
    BY <1>6, <1>11, <1>12
  <1>17. \A i, j \in DOMAIN mbOutbox' : \A r \in mbOutbox'[i] \cap mbOutbox'[j] : i = j
    <2> SUFFICES ASSUME NEW i \in DOMAIN mbOutbox', NEW j \in DOMAIN mbOutbox',
                        NEW r \in mbOutbox'[i] \cap mbOutbox'[j]
                 PROVE i = j
      OBVIOUS
    <2> DEFINE N == Len(mbOutbox)
               Old(k) == k \in DOMAIN mbOutbox /\ mbOutbox'[k] = mbOutbox[k]
               New(k) == k \in Nat /\ k - N \in DOMAIN q /\ mbOutbox'[k] = q[k - N]
    <2>1. (Old(i) \/ New(i)) /\ (Old(j) \/ New(j)) /\ N \in Nat BY <1>6
    <2>2. CASE Old(i) /\ Old(j) BY <2>2 DEF MbPipeInv
    <2>3. CASE Old(i) /\ New(j)
      <3>1. r \in mbOutbox[i] /\ i \in DOMAIN mbOutbox /\ j - N \in DOMAIN q /\ r \in q[j - N]
        BY <2>3
      <3> QED BY <1>11, <1>12, <3>1
    <2>4. CASE New(i) /\ Old(j)
      <3>1. r \in mbOutbox[j] /\ j \in DOMAIN mbOutbox /\ i - N \in DOMAIN q /\ r \in q[i - N]
        BY <2>4
      <3> QED BY <1>11, <1>12, <3>1
    <2>5. CASE New(i) /\ New(j)
      <3>1. i - N \in DOMAIN q /\ j - N \in DOMAIN q /\ r \in q[i - N] \cap q[j - N] BY <2>5
      <3>2. i - N = j - N BY <1>13, <3>1
      <3> QED BY <2>1, <2>5, <3>2
    <2> QED BY <2>1, <2>2, <2>3, <2>4, <2>5
  <1>18. \A i \in DOMAIN mbInbox', j \in DOMAIN mbOutbox' : mbInbox'[i][2] \notin mbOutbox'[j]
    <2> SUFFICES ASSUME NEW i \in DOMAIN mbInbox', NEW j \in DOMAIN mbOutbox',
                        mbInbox'[i][2] \in mbOutbox'[j]
                 PROVE FALSE
      OBVIOUS
    <2>1. CASE j \in DOMAIN mbOutbox /\ mbOutbox'[j] = mbOutbox[j]
      BY <1>3, <2>1 DEF MbPipeInv
    <2>2. CASE j - Len(mbOutbox) \in DOMAIN q /\ mbOutbox'[j] = q[j - Len(mbOutbox)]
      BY <1>10, <1>12, <2>2
    <2> QED BY <1>6, <2>1, <2>2
  <1>19. MbPipeInv'
    BY <1>10, <1>14, <1>15, <1>16, <1>17, <1>18 DEF MbPipeInv
  <1> QED BY <1>0, <1>7, <1>9, <1>19, MbSettles

(* A step of a call is seen only when the call is made and when it returns.    *)
LEMMA MbCallSteps ==
  ASSUME MbCallInv, NEW q \in MbCalls,
         \/ MbAsk(q) \/ MbCaller(q) \/ MbConversionEnds(q) \/ MbCallConnect(q)
         \/ MbDeviceAnswers(q) \/ MbWireFails(q)
  PROVE  /\ UNCHANGED <<mbLife, mbPipeline>>
         /\ \A p \in MbCalls : p # q => mbCall'[p].caller = mbCall[p].caller
         /\ DOMAIN mbCall = MbCalls /\ DOMAIN mbCall' = MbCalls
         /\ \/ mbCall'[q].caller = mbCall[q].caller
            \/ mbLife # "new" /\ mbCall[q].caller = "none" /\ mbCall'[q].caller = "open"
            \/ mbCall[q].caller = "open" /\ mbCall'[q].caller \in {"ok", "error"}
  <1>0. mbCall \in [MbCalls -> MbCallType] /\ mbCall[q] \in MbCallType /\ MbSound(mbCall[q])
    BY DEF MbCallInv
  <1>1. UNCHANGED <<mbLife, mbPipeline>>
    <2>1. CASE MbNoDeviceRequest(q) \/ MbCallConnect(q)
      BY <2>1, Zenon DEF MbNoDeviceRequest, MbCallConnect
    <2>2. CASE ~(MbNoDeviceRequest(q) \/ MbCallConnect(q))
      <3>1. MbCallOnly
        BY <2>2, Zenon
        DEF MbAsk, MbCaller, MbRequest, MbBadRequest, MbReservedRequest, MbDeviceRequest,
            MbAttributeUpdate, MbAnswer, MbTimeout, MbAbandon, MbConversionEnds, MbDeviceAnswers,
            MbWireFails
      <3> QED BY <3>1 DEF MbCallOnly
    <2> QED BY <2>1, <2>2
  <1> DEFINE Goal == /\ \A p \in MbCalls : p # q => mbCall'[p].caller = mbCall[p].caller
                     /\ DOMAIN mbCall' = MbCalls
                     /\ \/ mbCall'[q].caller = mbCall[q].caller
                        \/ mbLife # "new" /\ mbCall[q].caller = "none" /\ mbCall'[q].caller = "open"
                        \/ mbCall[q].caller = "open" /\ mbCall'[q].caller \in {"ok", "error"}
  <1> SUFFICES Goal
    BY <1>0, <1>1
  <1>2. CASE MbAsk(q)
    <2>1. PICK s \in MbSlaves, k \in {"read", "write", "update"} :
            mbCall' = [mbCall EXCEPT ![q].caller = "open", ![q].kind = k, ![q].slave = s]
      BY <1>2, Zenon DEF MbAsk
    <2>2. mbLife # "new" /\ mbCall[q].caller = "none"
      BY <1>2 DEF MbAsk
    <2> QED BY <1>0, <2>1, <2>2 DEF MbCallType
  <1>3. CASE MbRequest(q)
    BY <1>0, <1>3 DEF MbRequest, MbBadRequest, MbReservedRequest, MbDeviceRequest,
           MbNoDeviceRequest, MbAttributeUpdate, MbCallType
  <1>4. CASE MbAnswer(q)
    <2>1. mbCall[q].result \in {"ok", "error"} /\ mbCall[q].caller = "open"
      BY <1>0, <1>4 DEF MbAnswer, MbSound, MbCallType
    <2> QED BY <1>0, <1>4, <2>1 DEF MbAnswer, MbCallType
  <1>5. CASE MbTimeout(q)
    BY <1>0, <1>5 DEF MbTimeout, MbCallType
  <1>6. CASE MbAbandon(q)
    BY <1>0, <1>6 DEF MbAbandon, MbCallType
  <1>7. CASE MbConversionEnds(q)
    BY <1>0, <1>7 DEF MbConversionEnds, MbCallType
  <1>8. CASE MbCallConnect(q)
    <2>1. \/ mbCall' = [mbCall EXCEPT ![q].task = "wire"]
          \/ mbCall' = [mbCall EXCEPT ![q].task = "connecting"]
          \/ mbCall' = [mbCall EXCEPT ![q].task = "ended", ![q].result = "ok", ![q].why = "offline"]
      BY <1>8 DEF MbCallConnect
    <2> QED BY <1>0, <2>1 DEF MbCallType
  <1>9. CASE MbDeviceAnswers(q)
    BY <1>0, <1>9 DEF MbDeviceAnswers, MbCallType
  <1>10. CASE MbWireFails(q)
    <2>1. PICK a : mbCall' = [mbCall EXCEPT ![q].task = "ended", ![q].result = "error",
                                            ![q].applied = a]
      BY <1>10, Zenon DEF MbWireFails
    <2> QED BY <1>0, <2>1 DEF MbCallType
  <1> QED BY <1>2, <1>3, <1>4, <1>5, <1>6, <1>7, <1>8, <1>9, <1>10 DEF MbCaller

(* Every step keeps the pipeline's invariant and is a step of the contract.    *)
LEMMA MbStep ==
  ASSUME MbCallInv, MbPipeInv, [ModbusNext]_mbVars
  PROVE  MbPipeInv' /\ [MbGateway!ContractNext]_(MbGateway!contractVars)
  <1>1. ASSUME UNCHANGED mbPipeline PROVE MbPipeInv'
    BY <1>1 DEF mbPipeline, MbPipeInv, MbPipeTypes
  <1>2. ASSUME UNCHANGED <<mbLife, mbPipeline, mbCall>>
        PROVE MbPipeInv' /\ [MbGateway!ContractNext]_(MbGateway!contractVars)
    BY <1>1, <1>2 DEF mbPipeline, MbGateway!contractVars
  <1>3. CASE UNCHANGED mbVars
    BY <1>2, <1>3 DEF mbVars
  <1>4. CASE MbOpen
    BY <1>1, <1>4 DEF MbOpen, MbGateway!Open, MbGateway!ContractNext, mbPipeline
  <1>5. CASE MbStop
    BY <1>1, <1>5 DEF MbStop, MbGateway!Close, MbGateway!ContractNext, mbPipeline
  <1>6. CASE MbEnd
    <2>1. MbPipeInv' BY <1>6 DEF MbEnd, MbPipeInv, MbPipeTypes
    <2>2. MbGateway!ThreadsEnd BY <1>6 DEF MbEnd, MbGateway!ThreadsEnd
    <2> QED BY <2>1, <2>2 DEF MbGateway!ContractNext
  <1>7. CASE MbTakeRequest
    BY <1>2, <1>7 DEF MbTakeRequest
  <1>8. ASSUME NEW m \in MbMasters, MbLink(m)
        PROVE MbPipeInv' /\ [MbGateway!ContractNext]_(MbGateway!contractVars)
    BY <1>2, <1>8 DEF MbLink
  <1>9. ASSUME NEW s \in MbSlaves, MbTimer(s) \/ MbPollConnect(s) \/ MbPollResume(s) \/ MbCloseSlave(s)
        PROVE MbPipeInv' /\ [MbGateway!ContractNext]_(MbGateway!contractVars)
    BY <1>2, <1>9 DEF MbTimer, MbPollConnect, MbPollResume, MbCloseSlave
  <1>10. ASSUME NEW q \in MbCalls,
                \/ MbAsk(q) \/ MbCaller(q) \/ MbConversionEnds(q) \/ MbCallConnect(q)
                \/ MbDeviceAnswers(q) \/ MbWireFails(q)
         PROVE MbPipeInv' /\ [MbGateway!ContractNext]_(MbGateway!contractVars)
    <2>0. /\ UNCHANGED <<mbLife, mbPipeline>>
          /\ \A p \in MbCalls : p # q => mbCall'[p].caller = mbCall[p].caller
          /\ DOMAIN mbCall = MbCalls /\ DOMAIN mbCall' = MbCalls
          /\ \/ mbCall'[q].caller = mbCall[q].caller
             \/ mbLife # "new" /\ mbCall[q].caller = "none" /\ mbCall'[q].caller = "open"
             \/ mbCall[q].caller = "open" /\ mbCall'[q].caller \in {"ok", "error"}
      BY <1>10, MbCallSteps
    <2>1. CASE mbCall'[q].caller = mbCall[q].caller
      <3>1. Asks(mbCall') = Asks(mbCall) BY <2>0, <2>1, AsksStay
      <3> QED BY <1>1, <2>0, <3>1 DEF mbPipeline, MbGateway!contractVars, Asks
    <2>2. CASE mbLife # "new" /\ mbCall[q].caller = "none" /\ mbCall'[q].caller = "open"
      <3>1. Asks(mbCall)[q] = "none" /\ Asks(mbCall') = [Asks(mbCall) EXCEPT ![q] = "open"]
        BY <2>0, <2>2, AsksOpen
      <3>2. MbGateway!Ask(q) BY <2>0, <2>2, <3>1 DEF mbPipeline, MbGateway!Ask, Asks
      <3> QED BY <1>1, <2>0, <3>2 DEF MbGateway!ContractNext
    <2>3. CASE mbCall[q].caller = "open" /\ mbCall'[q].caller \in {"ok", "error"}
      <3>1. Asks(mbCall)[q] = "open" /\ Asks(mbCall') = [Asks(mbCall) EXCEPT ![q] = "answered"]
        BY <2>0, <2>3, AsksEnd
      <3>2. MbGateway!Answer(q) BY <2>0, <3>1 DEF mbPipeline, MbGateway!Answer, Asks
      <3> QED BY <1>1, <2>0, <3>2 DEF MbGateway!ContractNext
    <2> QED BY <2>0, <2>1, <2>2, <2>3
  <1> QED BY <1>3, <1>4, <1>5, <1>6, <1>7, <1>8, <1>9, <1>10, MbReadDataStep, MbSaveStep,
             MbConvertStep
      DEF ModbusNext

(* To the gateway the Modbus connector is a connector: opened and closed once, *)
(* each reading stored at most once and none after its loop has ended, each    *)
(* call made and answered once (modbus_connector.py).                          *)
THEOREM ModbusRefinesContract == ModbusInit /\ [][ModbusNext]_mbVars => MbGatewaySafety
  <1>1. ModbusInit => MbGateway!ContractInit
    BY DEF ModbusInit, MbNoCall, Asks, Asked, MbGateway!ContractInit
  <1>2. MbCallInv /\ MbPipeInv /\ [ModbusNext]_mbVars
          => MbPipeInv' /\ [MbGateway!ContractNext]_(MbGateway!contractVars)
    BY MbStep
  <1> QED BY <1>1, <1>2, MbCallInit, MbCallStep, MbPipeInit, PTL DEF MbGatewaySafety

-----------------------------------------------------------------------------
(* The calls of the OPC-UA connector.                                          *)
UaCallType ==
    [caller : {"none", "open", "ok", "error"}, kind : {"read", "write", "update"},
     task : {"none", "lookup", "running", "ended", "cancelled"},
     result : {"none", "ok", "error"}, applied : BOOLEAN]

(* As for Modbus, without an excuse.                                           *)
UaSound(c) ==
    /\ c.caller = "none" => c.task = "none"
    /\ c.task # "ended" => c.result = "none"
    /\ c.task = "ended" /\ c.caller = "open" => c.result # "none"
    /\ c.caller = "ok" /\ c.kind = "write" => c.task = "ended"
    /\ c.kind = "write" /\ (c.result = "ok" \/ c.caller = "ok") => c.applied

UaCallInv == uaCall \in [UaCalls -> UaCallType] /\ \A q \in UaCalls : UaSound(uaCall[q])

(* No call was made yet.                                                       *)
LEMMA UaCallInit == OpcuaInit => UaCallInv
  BY DEF OpcuaInit, UaCallInv, UaCallType, UaNoCall, UaSound

(* A step that moves one call on.                                              *)
LEMMA UaCallMoves ==
  ASSUME UaCallInv, NEW q \in UaCalls, NEW c \in UaCallType, UaSound(c),
         uaCall' = [uaCall EXCEPT ![q] = c]
  PROVE  UaCallInv'
  BY DEF UaCallInv

(* The steps that only start a task or only answer.                            *)
LEMMA UaRequestKeeps ==
  ASSUME UaCallInv, NEW q \in UaCalls,
         \/ UaAsk(q) \/ UaBadRequest(q) \/ UaDeviceRequest(q) \/ UaReservedRequest(q)
         \/ UaAttributeUpdate(q)
  PROVE  UaCallInv'
  <1> DEFINE c == uaCall[q]
  <1>0. c \in UaCallType /\ UaSound(c) /\ uaCall \in [UaCalls -> UaCallType]
    BY DEF UaCallInv
  <1>1. CASE UaAsk(q)
    <2>1. PICK k \in {"read", "write", "update"} :
            uaCall' = [uaCall EXCEPT ![q].caller = "open", ![q].kind = k]
      BY <1>1, Zenon DEF UaAsk
    <2>2. c.caller = "none" BY <1>1 DEF UaAsk
    <2> DEFINE d == [c EXCEPT !.caller = "open", !.kind = k]
    <2>3. d \in UaCallType /\ UaSound(d)
      BY <1>0, <2>1, <2>2 DEF UaCallType, UaSound
    <2>4. uaCall' = [uaCall EXCEPT ![q] = d]
      BY <1>0, <2>1
    <2> QED BY <2>4, <2>3, UaCallMoves
  <1>2. ASSUME c.caller = "open", c.task = "none", NEW t \in {"running", "lookup"},
               uaCall' = [uaCall EXCEPT ![q].task = t]
        PROVE UaCallInv'
    <2> DEFINE d == [c EXCEPT !.task = t]
    <2>1. d \in UaCallType /\ UaSound(d)
      BY <1>0, <1>2 DEF UaCallType, UaSound
    <2> QED BY <1>0, <1>2, <2>1, UaCallMoves
  <1>3. ASSUME c.caller = "open", c.task = "none", NEW told \in {"ok", "error"},
               told = "ok" => c.kind = "update", uaCall' = [uaCall EXCEPT ![q].caller = told]
        PROVE UaCallInv'
    <2> DEFINE d == [c EXCEPT !.caller = told]
    <2>1. d \in UaCallType /\ UaSound(d)
      BY <1>0, <1>3 DEF UaCallType, UaSound
    <2> QED BY <1>0, <1>3, <2>1, UaCallMoves
  <1>4. CASE UaBadRequest(q)
    BY <1>3, <1>4 DEF UaBadRequest
  <1>5. CASE UaDeviceRequest(q)
    BY <1>2, <1>3, <1>5 DEF UaDeviceRequest
  <1>6. CASE UaReservedRequest(q)
    BY <1>2, <1>3, <1>6 DEF UaReservedRequest
  <1>7. CASE UaAttributeUpdate(q)
    BY <1>2, <1>3, <1>7 DEF UaAttributeUpdate
  <1> QED BY <1>1, <1>4, <1>5, <1>6, <1>7

(* The task, its look-up and what the caller makes of them.                    *)
LEMMA UaTaskKeeps ==
  ASSUME UaCallInv, NEW q \in UaCalls,
         UaFindPath(q) \/ UaTask(q) \/ UaAnswer(q) \/ UaTimeout(q)
  PROVE  UaCallInv'
  <1> DEFINE c == uaCall[q]
  <1>0. c \in UaCallType /\ UaSound(c) /\ uaCall \in [UaCalls -> UaCallType]
    BY DEF UaCallInv
  <1>1. CASE UaFindPath(q)
    <2>1. c.caller = "open" /\ c.task = "lookup"
      BY <1>1 DEF UaFindPath
    <2>2. CASE uaCall' = [uaCall EXCEPT ![q].task = "running"]
      <3> DEFINE d == [c EXCEPT !.task = "running"]
      <3>1. d \in UaCallType /\ UaSound(d)
        BY <1>0, <2>1 DEF UaCallType, UaSound
      <3> QED BY <1>0, <2>2, <3>1, UaCallMoves
    <2>3. CASE c.kind = "update" /\ uaCall' = [uaCall EXCEPT ![q].task = "none", ![q].caller = "ok"]
      <3> DEFINE d == [c EXCEPT !.task = "none", !.caller = "ok"]
      <3>1. d \in UaCallType /\ UaSound(d)
        BY <1>0, <2>1, <2>3 DEF UaCallType, UaSound
      <3> QED BY <1>0, <2>3, <3>1, UaCallMoves
    <2>4. CASE uaCall' = [uaCall EXCEPT ![q].task = "ended", ![q].result = "error"]
      <3> DEFINE d == [c EXCEPT !.task = "ended", !.result = "error"]
      <3>1. d \in UaCallType /\ UaSound(d)
        BY <1>0, <2>1 DEF UaCallType, UaSound
      <3> QED BY <1>0, <2>4, <3>1, UaCallMoves
    <2> QED BY <1>1, <2>2, <2>3, <2>4 DEF UaFindPath
  <1>2. CASE UaTask(q)
    <2>1. c.task = "running" BY <1>2 DEF UaTask
    <2>2. ASSUME NEW x \in {"ok", "error"}, NEW a \in BOOLEAN, x = "ok" => a = (c.kind # "read"),
                 uaCall' = [uaCall EXCEPT ![q].task = "ended", ![q].result = x, ![q].applied = a]
          PROVE UaCallInv'
      <3> DEFINE d == [c EXCEPT !.task = "ended", !.result = x, !.applied = a]
      <3>1. d \in UaCallType /\ UaSound(d)
        BY <1>0, <2>1, <2>2 DEF UaCallType, UaSound
      <3>2. uaCall' = [uaCall EXCEPT ![q] = d]
        BY <1>0, <2>2
      <3> QED BY <3>1, <3>2, UaCallMoves
    <2>3. CASE uaCall' = [uaCall EXCEPT ![q].task = "ended", ![q].result = "ok",
                                        ![q].applied = c.kind # "read"]
      BY <2>2, <2>3
    <2>4. ASSUME NEW reached \in BOOLEAN,
                 uaCall' = [uaCall EXCEPT ![q].task = "ended", ![q].result = "error",
                                          ![q].applied = reached /\ c.kind # "read"]
          PROVE UaCallInv'
      <3> DEFINE a == reached /\ c.kind # "read"
      <3>1. /\ uaCall' = [uaCall EXCEPT ![q].task = "ended", ![q].result = "error", ![q].applied = a]
            /\ a \in BOOLEAN
        BY <2>4
      <3> HIDE DEF a
      <3> QED BY <2>2, <3>1
    <2> QED BY <1>2, <2>3, <2>4, Zenon DEF UaTask
  <1>3. CASE UaAnswer(q)
    <2> DEFINE told == IF c.task = "ended" THEN c.result ELSE "error"
               d == [c EXCEPT !.result = "none", !.caller = told]
    <2>1. c.caller = "open" /\ c.task \in {"ended", "cancelled"}
      BY <1>3 DEF UaAnswer
    <2>2. uaCall' = [uaCall EXCEPT ![q] = d]
      BY <1>0, <1>3 DEF UaAnswer
    <2>3. d \in UaCallType /\ UaSound(d)
      BY <1>0, <2>1 DEF UaCallType, UaSound
    <2> QED BY <2>2, <2>3, UaCallMoves
  <1>4. CASE UaTimeout(q)
    <2>1. PICK reached \in BOOLEAN :
            uaCall' = [uaCall EXCEPT ![q].caller = "error", ![q].task = "ended",
                                     ![q].applied = reached /\ c.kind # "read"]
      BY <1>4, Zenon DEF UaTimeout
    <2> DEFINE d == [c EXCEPT !.caller = "error", !.task = "ended",
                              !.applied = reached /\ c.kind # "read"]
    <2>2. c.task = "running" BY <1>4 DEF UaTimeout
    <2>3. d \in UaCallType /\ UaSound(d)
      BY <1>0, <2>2 DEF UaCallType, UaSound
    <2>4. uaCall' = [uaCall EXCEPT ![q] = d]
      BY <1>0, <2>1
    <2> QED BY <2>3, <2>4, UaCallMoves
  <1> QED BY <1>1, <1>2, <1>3, <1>4

(* The end of the main task cancels tasks that run.                            *)
LEMMA UaCancelKeeps == UaCallInv /\ UaMainEnd => UaCallInv'
  <1> SUFFICES ASSUME UaCallInv, UaMainEnd PROVE UaCallInv'
    OBVIOUS
  <1>1. PICK reached \in SUBSET {q \in UaCalls : uaCall[q].task = "running"} :
          uaCall' = [q \in UaCalls |-> IF q \in reached
                                       THEN [uaCall[q] EXCEPT !.task = "cancelled"]
                                       ELSE uaCall[q]]
    BY Zenon DEF UaMainEnd
  <1>2. ASSUME NEW q \in UaCalls PROVE uaCall'[q] \in UaCallType /\ UaSound(uaCall'[q])
    <2>1. uaCall[q] \in UaCallType /\ UaSound(uaCall[q])
      BY DEF UaCallInv
    <2>2. CASE q \in reached
      <3>1. uaCall[q].task = "running" /\ uaCall'[q] = [uaCall[q] EXCEPT !.task = "cancelled"]
        BY <1>1, <2>2
      <3> QED BY <2>1, <3>1 DEF UaCallType, UaSound
    <2>3. CASE q \notin reached
      BY <1>1, <2>1, <2>3
    <2> QED BY <2>2, <2>3
  <1>3. uaCall' = [q \in UaCalls |-> uaCall'[q]]
    BY <1>1
  <1> QED BY <1>2, <1>3 DEF UaCallInv

(* Every step of the connector.                                                *)
LEMMA UaCallStep == UaCallInv /\ [OpcuaNext]_uaVars => UaCallInv'
  <1> SUFFICES ASSUME UaCallInv, [OpcuaNext]_uaVars PROVE UaCallInv'
    OBVIOUS
  <1>1. ASSUME UNCHANGED uaCall PROVE UaCallInv'
    BY <1>1 DEF UaCallInv
  <1>2. CASE \/ UaOpen \/ UaNewClient \/ UaConnect \/ UaLost \/ UaFails
             \/ UaLeaveLoop \/ UaScanDue \/ UaPollDue
             \/ UaCreateDevices \/ UaScanDevice \/ UaScanNode
    BY <1>1, <1>2 DEF UaOpen, UaNewClient, UaConnect, UaLost, UaFails, UaLeaveLoop, UaScanDue,
                      UaPollDue, UaCreateDevices, UaScanDevice, UaScanNode, UaQuietData
  <1>3. CASE \/ UaPollBatch \/ UaDataChange \/ UaConvertSubData \/ UaStop \/ UaEnd
    BY <1>1, <1>3 DEF UaPollBatch, UaDataChange, UaConvertSubData, UaStop, UaEnd
  <1>4. ASSUME NEW w \in UaWorkers, UaSubmit(w) \/ UaWorker(w) PROVE UaCallInv'
    BY <1>1, <1>4 DEF UaSubmit, UaWorker, UaCutSlice, UaConvertDevice, UaJobEnds, UaWorkerOnly
  <1>5. CASE UNCHANGED uaVars
    BY <1>1, <1>5 DEF uaVars
  <1> QED BY <1>2, <1>3, <1>4, <1>5, UaCancelKeeps, UaRequestKeeps, UaTaskKeeps
      DEF OpcuaNext, UaCaller

-----------------------------------------------------------------------------
(* The OPC-UA connector as the gateway sees it.                                *)
UaGateway == INSTANCE ConnectorContract
    WITH Readings <- UaReadings, Calls <- UaCalls, life <- uaLife, fate <- uaFate,
         call <- Asks(uaCall)

UaGatewaySafety == UaGateway!ContractInit /\ [][UaGateway!ContractNext]_(UaGateway!contractVars)

UaJobShape(job) ==
    /\ {"busy", "batch", "todo", "sliced", "from", "upto", "same", "live", "kept"} \subseteq DOMAIN job
    /\ "reading" \in DOMAIN job.batch /\ job.busy \in BOOLEAN

UaPipeTypes ==
    /\ uaFate \in [UaReadings -> FateType] /\ uaEvents \in Seq(UaReadings \X UaNodes)
    /\ (\E B : uaQueue \in Seq(B))
    /\ \A i \in DOMAIN uaQueue : "reading" \in DOMAIN uaQueue[i]
    /\ DOMAIN uaJobs = UaWorkers /\ \A w \in UaWorkers : UaJobShape(uaJobs[w])

(* The reading of a batch that waits or is being converted, or of an event.    *)
UaQueued(i) == uaQueue[i].reading
UaInWork(w) == uaJobs[w].batch.reading
UaNotified(i) == uaEvents[i][1]

UaHeld(r) == r \in UaReadings /\ uaFate[r] = "held"

(* A reading on its way is held, and at one place only: in one batch of the    *)
(* queue, in the job of one thread of the pool or in one event.                *)
UaPipeInv ==
    /\ UaPipeTypes
    /\ \A i \in DOMAIN uaQueue : UaHeld(UaQueued(i))
    /\ \A w \in UaWorkers : uaJobs[w].busy => UaHeld(UaInWork(w))
    /\ \A i \in DOMAIN uaEvents : UaHeld(UaNotified(i))
    /\ \A i, j \in DOMAIN uaQueue : UaQueued(i) = UaQueued(j) => i = j
    /\ \A v, w \in UaWorkers : uaJobs[v].busy /\ uaJobs[w].busy /\ UaInWork(v) = UaInWork(w) => v = w
    /\ \A i, j \in DOMAIN uaEvents : UaNotified(i) = UaNotified(j) => i = j
    /\ \A i \in DOMAIN uaQueue, w \in UaWorkers : uaJobs[w].busy => UaQueued(i) # UaInWork(w)
    /\ \A i \in DOMAIN uaQueue, j \in DOMAIN uaEvents : UaQueued(i) # UaNotified(j)
    /\ \A w \in UaWorkers, i \in DOMAIN uaEvents : uaJobs[w].busy => UaInWork(w) # UaNotified(i)
    /\ \A w \in UaWorkers : uaJobs[w].busy => uaLife \in {"running", "stopping"}

(* Nothing was read yet.                                                       *)
LEMMA UaPipeInit == OpcuaInit => UaPipeInv
  <1> SUFFICES ASSUME OpcuaInit PROVE UaPipeInv
    OBVIOUS
  <1>1. UaJobShape(UaIdle) /\ UaIdle.busy = FALSE
    BY DEF UaJobShape, UaIdle, UaNoBatch
  <1>2. uaQueue = <<>> /\ uaEvents = <<>> /\ uaJobs = [w \in UaWorkers |-> UaIdle]
        /\ uaFate = [r \in UaReadings |-> "unread"]
    BY DEF OpcuaInit
  <1>3. UaPipeTypes
    <2>1. uaQueue \in Seq({}) /\ uaEvents \in Seq(UaReadings \X UaNodes) BY <1>2
    <2> QED BY <1>1, <1>2, <2>1 DEF UaPipeTypes, FateType
  <1> QED BY <1>1, <1>2, <1>3 DEF UaPipeInv

(* What was read is given its end.                                             *)
LEMMA UaSettles ==
  ASSUME UaPipeTypes, uaLife \in {"running", "stopping"}, UNCHANGED <<uaLife, uaCall>>,
         uaFate' \in [UaReadings -> FateType],
         \A r \in UaReadings : \/ uaFate'[r] = uaFate[r]
                               \/ uaFate[r] = "held" /\ uaFate'[r] \in {"stored", "lost"}
  PROVE  [UaGateway!ContractNext]_(UaGateway!contractVars)
  <1>1. CASE uaFate' = uaFate
    BY <1>1 DEF UaGateway!contractVars
  <1>2. CASE uaFate' # uaFate
    <2>1. UaGateway!Settle
      BY <1>2 DEF UaGateway!Settle, UaGateway!Alive, FateType
    <2> QED BY <2>1 DEF UaGateway!ContractNext
  <1> QED BY <1>1, <1>2

(* The next reading is one that was not read before, and at no place.          *)
LEMMA UaTakes ==
  ASSUME UaPipeInv, UaUnread # {}, uaFate' = [uaFate EXCEPT ![UaNextReading] = "held"]
  PROVE  /\ UaNextReading \in UaReadings /\ uaFate[UaNextReading] = "unread"
         /\ uaFate' \in [UaReadings -> FateType] /\ uaFate'[UaNextReading] = "held"
         /\ \A r : UaHeld(r) => UaHeld(r)' /\ r # UaNextReading
  <1>1. UaNextReading \in UaUnread BY DEF UaNextReading
  <1> DEFINE r == UaNextReading
  <1>2. r \in UaReadings /\ uaFate[r] = "unread" BY <1>1 DEF UaUnread
  <1>3. uaFate \in [UaReadings -> FateType] BY DEF UaPipeInv, UaPipeTypes
  <1> HIDE DEF r
  <1>4. uaFate' = [uaFate EXCEPT ![r] = "held"] BY DEF r
  <1>5. /\ uaFate' \in [UaReadings -> FateType] /\ uaFate'[r] = "held"
        /\ \A x : UaHeld(x) => UaHeld(x)' /\ x # r
    BY <1>2, <1>3, <1>4 DEF FateType, UaHeld
  <1> QED BY <1>2, <1>5 DEF r

(* A step that changes jobs under way, and moves no batch.                     *)
LEMMA UaRelabels ==
  ASSUME UaPipeInv, UNCHANGED <<uaLife, uaFate, uaEvents, uaQueue>>, DOMAIN uaJobs' = UaWorkers,
         \A w \in UaWorkers : /\ UaJobShape(uaJobs'[w])
                              /\ uaJobs'[w].busy = uaJobs[w].busy /\ UaInWork(w)' = UaInWork(w)
  PROVE  UaPipeInv'
  <1>1. UaPipeTypes' BY DEF UaPipeInv, UaPipeTypes
  <1>2. \A i : UaQueued(i)' = UaQueued(i) /\ UaNotified(i)' = UaNotified(i)
    BY DEF UaQueued, UaNotified
  <1> QED BY <1>1, <1>2 DEF UaPipeInv, UaHeld

(* The steps of start_client that forget the devices, or do not, move nothing. *)
LEMMA UaClientKeeps ==
  ASSUME UaPipeInv, UNCHANGED <<uaLife, uaFate, uaEvents, uaQueue>>, UaForget \/ UNCHANGED uaJobs
  PROVE  UaPipeInv'
  <1>1. DOMAIN uaJobs = UaWorkers /\ \A w \in UaWorkers : UaJobShape(uaJobs[w])
    BY DEF UaPipeInv, UaPipeTypes
  <1>2. /\ DOMAIN uaJobs' = UaWorkers
        /\ \A w \in UaWorkers :
             \/ uaJobs'[w] = uaJobs[w]
             \/ uaJobs'[w] = [uaJobs[w] EXCEPT !.live = FALSE, !.kept = uaFound]
    BY <1>1, Zenon DEF UaForget
  <1>3. ASSUME NEW w \in UaWorkers
        PROVE /\ UaJobShape(uaJobs'[w]) /\ uaJobs'[w].busy = uaJobs[w].busy
              /\ uaJobs'[w].batch.reading = uaJobs[w].batch.reading
    <2>1. CASE uaJobs'[w] = uaJobs[w] BY <1>1, <2>1
    <2>2. CASE uaJobs'[w] = [uaJobs[w] EXCEPT !.live = FALSE, !.kept = uaFound]
      BY <1>1, <2>2 DEF UaJobShape
    <2> QED BY <1>2, <2>1, <2>2
  <1> QED BY <1>2, <1>3, UaRelabels DEF UaInWork

(* The steps of start_client.                                                  *)
LEMMA UaClientStep ==
  ASSUME UaPipeInv, UaNewClient \/ UaConnect
  PROVE  UaPipeInv' /\ [UaGateway!ContractNext]_(UaGateway!contractVars)
  <1>0. UNCHANGED <<uaLife, uaFate, uaEvents, uaQueue, uaCall>>
    BY DEF UaNewClient, UaConnect
  <1>1. UaForget \/ UNCHANGED uaJobs
    BY Zenon DEF UaNewClient, UaConnect, UaRemember
  <1>2. UaPipeInv' BY <1>0, <1>1, UaClientKeeps
  <1> QED BY <1>0, <1>2 DEF UaGateway!contractVars

(* A poll reads a batch, which waits for a thread of the pool.                 *)
LEMMA UaPollStep ==
  ASSUME UaPipeInv, UaPollBatch
  PROVE  UaPipeInv' /\ [UaGateway!ContractNext]_(UaGateway!contractVars)
  <1>0. UaPipeTypes /\ UNCHANGED <<uaLife, uaJobs, uaEvents, uaCall>> /\ uaLife = "running"
    BY DEF UaPipeInv, UaPollBatch
  <1>1. CASE UNCHANGED <<uaQueue, uaFate>>
    BY <1>0, <1>1 DEF UaPipeInv, UaPipeTypes, UaQueued, UaInWork, UaNotified, UaHeld,
                      UaGateway!contractVars
  <1>2. CASE ~UNCHANGED <<uaQueue, uaFate>>
    <2> DEFINE r == UaNextReading
    <2>1. /\ UaUnread # {} /\ uaFate' = [uaFate EXCEPT ![UaNextReading] = "held"]
          /\ \E nodes, polled, first :
               uaQueue' = Append(uaQueue, [reading |-> UaNextReading, nodes |-> nodes,
                                           polled |-> polled, first |-> first])
      <3>1. /\ UaUnread # {} /\ uaFate' = [uaFate EXCEPT ![UaNextReading] = "held"]
            /\ uaQueue' = Append(uaQueue,
                   [reading |-> UaNextReading,
                    nodes |-> {n \in uaLeft : UaRank(uaLeft, n) < MaxNodesPerRead},
                    polled |-> uaFound, first |-> uaLeft = uaFound])
        BY <1>2 DEF UaPollBatch
      <3> QED BY <3>1, Zenon
    <2>2. PICK b : /\ uaQueue' = Append(uaQueue, b) /\ "reading" \in DOMAIN b
                   /\ b.reading = r
      <3>1. PICK nodes, polled, first :
              uaQueue' = Append(uaQueue, [reading |-> r, nodes |-> nodes,
                                          polled |-> polled, first |-> first])
        BY <2>1
      <3> QED BY <3>1
    <2>3. /\ r \in UaReadings /\ uaFate[r] = "unread"
          /\ uaFate' \in [UaReadings -> FateType] /\ uaFate'[r] = "held"
          /\ \A x : UaHeld(x) => UaHeld(x)' /\ x # r
      BY <2>1, UaTakes
    <2>4. PICK B : uaQueue \in Seq(B) BY <1>0 DEF UaPipeTypes
    <2>5. uaQueue \in Seq(B \cup {b}) BY <2>4
    <2>6. /\ uaQueue' \in Seq(B \cup {b}) /\ Len(uaQueue) + 1 \notin DOMAIN uaQueue
          /\ \A i \in DOMAIN uaQueue' : \/ i \in DOMAIN uaQueue /\ uaQueue'[i] = uaQueue[i]
                                        \/ i = Len(uaQueue) + 1 /\ uaQueue'[i] = b
      BY <2>2, <2>5, AppendParts
    <2> HIDE DEF r
    <2>7. \A i \in DOMAIN uaQueue' : \/ i \in DOMAIN uaQueue /\ UaQueued(i)' = UaQueued(i)
                                     \/ i = Len(uaQueue) + 1 /\ UaQueued(i)' = r
      BY <2>2, <2>6 DEF UaQueued
    <2>8. /\ \A w \in UaWorkers : UaInWork(w)' = UaInWork(w) /\ uaJobs'[w].busy = uaJobs[w].busy
          /\ \A i \in DOMAIN uaEvents : UaNotified(i)' = UaNotified(i)
      BY <1>0 DEF UaInWork, UaNotified
    <2>9. UaPipeTypes' BY <1>0, <2>2, <2>3, <2>6 DEF UaPipeTypes
    <2>10. \A i \in DOMAIN uaQueue' : UaHeld(UaQueued(i))'
      BY <2>3, <2>7 DEF UaPipeInv, UaHeld
    <2>11. (\A w \in UaWorkers : uaJobs[w].busy => UaHeld(UaInWork(w))' /\ UaInWork(w) # r)
           /\ \A i \in DOMAIN uaEvents : UaHeld(UaNotified(i))' /\ UaNotified(i) # r
      BY <2>3, <2>8 DEF UaPipeInv, UaHeld
    <2>12. \A i, j \in DOMAIN uaQueue' : UaQueued(i)' = UaQueued(j)' => i = j
      BY <2>3, <2>6, <2>7 DEF UaPipeInv
    <2>13. /\ \A i \in DOMAIN uaQueue', w \in UaWorkers : uaJobs[w].busy => UaQueued(i)' # UaInWork(w)
           /\ \A i \in DOMAIN uaQueue', j \in DOMAIN uaEvents : UaQueued(i)' # UaNotified(j)
      BY <2>7, <2>11 DEF UaPipeInv
    <2>14. UaPipeInv'
      BY <1>0, <2>8, <2>9, <2>10, <2>11, <2>12, <2>13 DEF UaPipeInv
    <2>15. UaGateway!Take(r)
      BY <1>0, <2>1, <2>3 DEF UaGateway!Take, UaGateway!Alive, r
    <2> QED BY <2>3, <2>14, <2>15 DEF UaGateway!ContractNext
  <1> QED BY <1>1, <1>2

(* A subscription brings an event.                                             *)
LEMMA UaEventStep ==
  ASSUME UaPipeInv, UaDataChange
  PROVE  UaPipeInv' /\ [UaGateway!ContractNext]_(UaGateway!contractVars)
  <1> DEFINE r == UaNextReading
  <1>0. UaPipeTypes /\ UNCHANGED <<uaLife, uaJobs, uaQueue, uaCall>> /\ uaLife = "running"
    BY DEF UaPipeInv, UaDataChange
  <1>1. UaUnread # {} /\ uaFate' = [uaFate EXCEPT ![UaNextReading] = "held"]
    BY DEF UaDataChange
  <1>2. PICK n \in UaNodes : uaEvents' = Append(uaEvents, <<r, n>>)
    BY DEF UaDataChange
  <1>3. /\ r \in UaReadings /\ uaFate[r] = "unread"
        /\ uaFate' \in [UaReadings -> FateType] /\ uaFate'[r] = "held"
        /\ \A x : UaHeld(x) => UaHeld(x)' /\ x # r
    BY <1>1, UaTakes
  <1> HIDE DEF r
  <1>4. /\ uaEvents' \in Seq(UaReadings \X UaNodes) /\ Len(uaEvents) + 1 \notin DOMAIN uaEvents
        /\ \A i \in DOMAIN uaEvents' : \/ i \in DOMAIN uaEvents /\ uaEvents'[i] = uaEvents[i]
                                       \/ i = Len(uaEvents) + 1 /\ uaEvents'[i] = <<r, n>>
    <2>1. uaEvents \in Seq(UaReadings \X UaNodes) /\ <<r, n>> \in UaReadings \X UaNodes
      BY <1>0, <1>3 DEF UaPipeTypes
    <2> QED BY <1>2, <2>1, AppendParts
  <1>5. \A i \in DOMAIN uaEvents' : \/ i \in DOMAIN uaEvents /\ UaNotified(i)' = UaNotified(i)
                                    \/ i = Len(uaEvents) + 1 /\ UaNotified(i)' = r
    BY <1>4 DEF UaNotified
  <1>6. /\ \A w \in UaWorkers : UaInWork(w)' = UaInWork(w) /\ uaJobs'[w].busy = uaJobs[w].busy
        /\ \A i \in DOMAIN uaQueue : UaQueued(i)' = UaQueued(i)
    BY <1>0 DEF UaInWork, UaQueued
  <1>7. UaPipeTypes' BY <1>0, <1>3, <1>4 DEF UaPipeTypes
  <1>8. \A i \in DOMAIN uaEvents' : UaHeld(UaNotified(i))'
    BY <1>3, <1>5 DEF UaPipeInv, UaHeld
  <1>9. (\A w \in UaWorkers : uaJobs[w].busy => UaHeld(UaInWork(w))' /\ UaInWork(w) # r)
        /\ \A i \in DOMAIN uaQueue : UaHeld(UaQueued(i))' /\ UaQueued(i) # r
    BY <1>3, <1>6 DEF UaPipeInv, UaHeld
  <1>10. \A i, j \in DOMAIN uaEvents' : UaNotified(i)' = UaNotified(j)' => i = j
    BY <1>3, <1>4, <1>5 DEF UaPipeInv
  <1>11. /\ \A i \in DOMAIN uaEvents', w \in UaWorkers : uaJobs[w].busy => UaInWork(w) # UaNotified(i)'
         /\ \A j \in DOMAIN uaQueue, i \in DOMAIN uaEvents' : UaQueued(j) # UaNotified(i)'
    BY <1>5, <1>9 DEF UaPipeInv
  <1>12. UaPipeInv'
    BY <1>0, <1>6, <1>7, <1>8, <1>9, <1>10, <1>11 DEF UaPipeInv
  <1>13. UaGateway!Take(r)
    BY <1>0, <1>1, <1>3 DEF UaGateway!Take, UaGateway!Alive, r
  <1> QED BY <1>3, <1>12, <1>13 DEF UaGateway!ContractNext

(* A thread of the pool takes the first batch.                                 *)
LEMMA UaSubmitStep ==
  ASSUME UaPipeInv, NEW w \in UaWorkers, UaSubmit(w)
  PROVE  UaPipeInv' /\ [UaGateway!ContractNext]_(UaGateway!contractVars)
  <1> DEFINE b == uaQueue[1]
             r == UaQueued(1)
  <1>0. /\ UaPipeTypes /\ UNCHANGED <<uaLife, uaEvents, uaFate, uaCall>> /\ uaLife = "running"
        /\ uaQueue # <<>> /\ uaQueue' = Tail(uaQueue) /\ DOMAIN uaJobs = UaWorkers
        /\ \E todo : uaJobs' = [uaJobs EXCEPT ![w] = [UaIdle EXCEPT !.busy = TRUE,
                                                     !.batch = Head(uaQueue), !.todo = todo]]
    BY Zenon DEF UaPipeInv, UaSubmit, UaPipeTypes
  <1>1. PICK B : uaQueue \in Seq(B) BY <1>0 DEF UaPipeTypes
  <1>2. /\ uaQueue' \in Seq(B) /\ 1 \in DOMAIN uaQueue /\ Head(uaQueue) = b
        /\ \A i \in DOMAIN uaQueue' : /\ i \in Nat /\ i + 1 \in DOMAIN uaQueue /\ i + 1 # 1
                                      /\ uaQueue'[i] = uaQueue[i + 1]
    BY <1>0, <1>1, TailParts
  <1>3. "reading" \in DOMAIN b /\ r = b.reading
    BY <1>0, <1>2 DEF UaPipeTypes, UaQueued
  <1>4. PICK todo : uaJobs' = [uaJobs EXCEPT ![w] = [UaIdle EXCEPT !.busy = TRUE,
                                                    !.batch = Head(uaQueue), !.todo = todo]]
    BY <1>0, Zenon
  <1> DEFINE d == [UaIdle EXCEPT !.busy = TRUE, !.batch = b, !.todo = todo]
  <1>5. uaJobs' = [uaJobs EXCEPT ![w] = d] BY <1>2, <1>4
  <1>6. UaJobShape(d) /\ d.busy = TRUE /\ d.batch.reading = r
    BY <1>3 DEF UaJobShape, UaIdle, UaNoBatch
  <1> HIDE DEF d, b, r
  <1>7. /\ DOMAIN uaJobs' = UaWorkers /\ uaJobs'[w] = d
        /\ \A v \in UaWorkers : v # w => uaJobs'[v] = uaJobs[v]
    BY <1>0, <1>5
  <1>8. UaPipeTypes'
    <2>1. \A i \in DOMAIN uaQueue' : "reading" \in DOMAIN uaQueue'[i]
      BY <1>0, <1>2 DEF UaPipeTypes
    <2>2. \A v \in UaWorkers : UaJobShape(uaJobs'[v])
      BY <1>0, <1>6, <1>7 DEF UaPipeTypes
    <2> QED BY <1>0, <1>2, <1>7, <2>1, <2>2 DEF UaPipeTypes
  <1>9. /\ UaInWork(w)' = r /\ uaJobs'[w].busy = TRUE
        /\ \A v \in UaWorkers : v # w => UaInWork(v)' = UaInWork(v) /\ uaJobs'[v].busy = uaJobs[v].busy
        /\ \A i \in DOMAIN uaQueue' : UaQueued(i)' = UaQueued(i + 1)
        /\ \A i \in DOMAIN uaEvents : UaNotified(i)' = UaNotified(i)
    BY <1>0, <1>2, <1>6, <1>7 DEF UaInWork, UaQueued, UaNotified
  <1>10. UaHeld(r) /\ \A x : UaHeld(x)' <=> UaHeld(x)
    BY <1>0, <1>2 DEF UaPipeInv, UaHeld, r
  <1>11. /\ \A v \in UaWorkers : uaJobs[v].busy => UaInWork(v) # r
         /\ \A i \in DOMAIN uaQueue' : UaQueued(i)' # r /\ UaHeld(UaQueued(i)')
         /\ \A i \in DOMAIN uaEvents : UaNotified(i) # r /\ UaHeld(UaNotified(i))
    BY <1>2, <1>9 DEF UaPipeInv, r
  <1>12. \A i, j \in DOMAIN uaQueue' : UaQueued(i)' = UaQueued(j)' => i = j
    <2> SUFFICES ASSUME NEW i \in DOMAIN uaQueue', NEW j \in DOMAIN uaQueue',
                        UaQueued(i)' = UaQueued(j)'
                 PROVE i = j
      OBVIOUS
    <2>1. i \in Nat /\ j \in Nat BY <1>2
    <2>2. i + 1 = j + 1 BY <1>2, <1>9 DEF UaPipeInv
    <2> QED BY <2>1, <2>2
  <1>13. \A v \in UaWorkers : uaJobs'[v].busy =>
           /\ UaHeld(UaInWork(v)') /\ uaLife \in {"running", "stopping"}
           /\ \A i \in DOMAIN uaQueue' : UaQueued(i)' # UaInWork(v)'
           /\ \A i \in DOMAIN uaEvents : UaInWork(v)' # UaNotified(i)
    BY <1>0, <1>2, <1>9, <1>10, <1>11 DEF UaPipeInv
  <1>14. \A u, v \in UaWorkers :
           uaJobs'[u].busy /\ uaJobs'[v].busy /\ UaInWork(u)' = UaInWork(v)' => u = v
    BY <1>9, <1>11 DEF UaPipeInv
  <1>15. \A i \in DOMAIN uaQueue', j \in DOMAIN uaEvents : UaQueued(i)' # UaNotified(j)
    BY <1>2, <1>9 DEF UaPipeInv
  <1>16. UaPipeInv'
    BY <1>0, <1>8, <1>9, <1>10, <1>11, <1>12, <1>13, <1>14, <1>15 DEF UaPipeInv
  <1> QED BY <1>0, <1>16 DEF UaGateway!contractVars

(* It cuts the batch up and files it, one device after the other ...           *)
LEMMA UaConvertStep ==
  ASSUME UaPipeInv, NEW w \in UaWorkers, UaCutSlice(w) \/ UaConvertDevice(w)
  PROVE  UaPipeInv' /\ [UaGateway!ContractNext]_(UaGateway!contractVars)
  <1>0. /\ UaPipeTypes /\ DOMAIN uaJobs = UaWorkers /\ UaJobShape(uaJobs[w])
        /\ UNCHANGED <<uaLife, uaQueue, uaEvents, uaFate, uaCall>>
    BY DEF UaPipeInv, UaPipeTypes, UaCutSlice, UaConvertDevice, UaWorkerOnly
  <1>1. PICK todo, sliced, from, upto, same :
          uaJobs' = [uaJobs EXCEPT ![w] = [uaJobs[w] EXCEPT !.todo = todo, !.sliced = sliced,
                                             !.from = from, !.upto = upto, !.same = same]]
    <2>1. CASE UaCutSlice(w)
      <3> DEFINE d == [uaJobs[w] EXCEPT !.sliced = TRUE, !.from = uaJobs[w].upto,
                         !.upto = uaJobs[w].upto + Cardinality(UaListNow(uaJobs[w])),
                         !.same = @ /\ UaAsPolled(uaJobs[w])]
      <3>1. uaJobs' = [uaJobs EXCEPT ![w] = d] BY <1>0, <2>1, Zenon DEF UaCutSlice
      <3>2. d = [uaJobs[w] EXCEPT !.todo = uaJobs[w].todo, !.sliced = TRUE,
                   !.from = uaJobs[w].upto,
                   !.upto = uaJobs[w].upto + Cardinality(UaListNow(uaJobs[w])),
                   !.same = uaJobs[w].same /\ UaAsPolled(uaJobs[w])]
        BY <1>0 DEF UaJobShape
      <3> QED BY <3>1, <3>2
    <2>2. CASE UaConvertDevice(w)
      <3> DEFINE d == [uaJobs[w] EXCEPT !.todo = @ \ {UaNextDevice(uaJobs[w])}, !.sliced = FALSE]
      <3>1. uaJobs' = [uaJobs EXCEPT ![w] = d] BY <1>0, <2>2, Zenon DEF UaConvertDevice
      <3>2. d = [uaJobs[w] EXCEPT !.todo = uaJobs[w].todo \ {UaNextDevice(uaJobs[w])},
                   !.sliced = FALSE, !.from = uaJobs[w].from, !.upto = uaJobs[w].upto,
                   !.same = uaJobs[w].same]
        BY <1>0 DEF UaJobShape
      <3> HIDE DEF d
      <3>3. uaJobs' = [uaJobs EXCEPT ![w] =
                [uaJobs[w] EXCEPT !.todo = uaJobs[w].todo \ {UaNextDevice(uaJobs[w])},
                   !.sliced = FALSE, !.from = uaJobs[w].from, !.upto = uaJobs[w].upto,
                   !.same = uaJobs[w].same]]
        BY <3>1, <3>2
      <3> QED BY <3>3, Zenon
    <2> QED BY <2>1, <2>2
  <1> DEFINE d == [uaJobs[w] EXCEPT !.todo = todo, !.sliced = sliced, !.from = from,
                     !.upto = upto, !.same = same]
  <1>2. UaJobShape(d) /\ d.busy = uaJobs[w].busy /\ d.batch.reading = uaJobs[w].batch.reading
    BY <1>0 DEF UaJobShape
  <1>3. uaJobs' = [uaJobs EXCEPT ![w] = d] BY <1>1
  <1> HIDE DEF d
  <1>4. /\ DOMAIN uaJobs' = UaWorkers
        /\ \A v \in UaWorkers : /\ UaJobShape(uaJobs'[v]) /\ uaJobs'[v].busy = uaJobs[v].busy
                                /\ UaInWork(v)' = UaInWork(v)
    BY <1>0, <1>2, <1>3 DEF UaPipeTypes, UaInWork
  <1>5. UaPipeInv' BY <1>0, <1>4, UaRelabels
  <1> QED BY <1>0, <1>5 DEF UaGateway!contractVars

(* ... and stores it, or loses it.                                             *)
LEMMA UaJobEndsStep ==
  ASSUME UaPipeInv, NEW w \in UaWorkers, UaJobEnds(w)
  PROVE  UaPipeInv' /\ [UaGateway!ContractNext]_(UaGateway!contractVars)
  <1> DEFINE r == UaInWork(w)
  <1>0. /\ UaPipeTypes /\ DOMAIN uaJobs = UaWorkers /\ uaJobs[w].busy
        /\ uaJobs' = [uaJobs EXCEPT ![w] = UaIdle] /\ uaFate \in [UaReadings -> FateType]
        /\ UNCHANGED <<uaLife, uaQueue, uaEvents, uaCall>>
    BY DEF UaPipeInv, UaPipeTypes, UaJobEnds, UaWorkerOnly
  <1>1. PICK f \in {"stored", "lost"} : uaFate' = [uaFate EXCEPT ![r] = f]
    BY Zenon DEF UaJobEnds, UaInWork
  <1>2. UaHeld(r) /\ uaLife \in {"running", "stopping"}
    BY <1>0 DEF UaPipeInv
  <1>3. UaJobShape(UaIdle) /\ UaIdle.busy = FALSE
    BY DEF UaJobShape, UaIdle, UaNoBatch
  <1>4. /\ \A i \in DOMAIN uaQueue : UaQueued(i) # r /\ UaHeld(UaQueued(i))
        /\ \A i \in DOMAIN uaEvents : UaNotified(i) # r /\ UaHeld(UaNotified(i))
        /\ \A v \in UaWorkers : uaJobs[v].busy /\ v # w => UaInWork(v) # r /\ UaHeld(UaInWork(v))
    BY <1>0 DEF UaPipeInv
  <1> HIDE DEF r
  <1>5. /\ uaFate' \in [UaReadings -> FateType] /\ uaFate[r] = "held" /\ r \in UaReadings
        /\ \A x \in UaReadings : x # r => uaFate'[x] = uaFate[x]
        /\ \A x : UaHeld(x) /\ x # r => UaHeld(x)'
        /\ uaFate'[r] \in {"stored", "lost"}
    BY <1>0, <1>1, <1>2 DEF FateType, UaHeld
  <1>6. /\ DOMAIN uaJobs' = UaWorkers /\ uaJobs'[w].busy = FALSE
        /\ \A v \in UaWorkers : UaJobShape(uaJobs'[v])
        /\ \A v \in UaWorkers : v # w => uaJobs'[v] = uaJobs[v] /\ UaInWork(v)' = UaInWork(v)
    BY <1>0, <1>3 DEF UaPipeTypes, UaInWork
  <1>7. UaPipeTypes' BY <1>0, <1>5, <1>6 DEF UaPipeTypes
  <1>8. /\ \A i \in DOMAIN uaQueue : UaQueued(i)' = UaQueued(i) /\ UaHeld(UaQueued(i))'
        /\ \A i \in DOMAIN uaEvents : UaNotified(i)' = UaNotified(i) /\ UaHeld(UaNotified(i))'
        /\ \A v \in UaWorkers : uaJobs'[v].busy => UaHeld(UaInWork(v))'
    BY <1>0, <1>4, <1>5, <1>6 DEF UaQueued, UaNotified, UaHeld
  <1>9. UaPipeInv'
    BY <1>0, <1>6, <1>7, <1>8 DEF UaPipeInv
  <1> QED BY <1>0, <1>2, <1>5, <1>9, UaSettles

(* The first events are converted together; the others keep their order.       *)
LEMMA UaEventsLeave ==
  ASSUME UaPipeInv, NEW k \in 1..Len(uaEvents), uaEvents' = SubSeq(uaEvents, k + 1, Len(uaEvents)),
         UNCHANGED <<uaLife, uaQueue, uaJobs>>, uaFate' \in [UaReadings -> FateType],
         \A r \in UaReadings : \/ uaFate'[r] = uaFate[r]
                               \/ \E i \in DOMAIN uaEvents : i <= k /\ r = UaNotified(i)
  PROVE  UaPipeInv'
  <1>0. UaPipeTypes /\ uaEvents \in Seq(UaReadings \X UaNodes)
    BY DEF UaPipeInv, UaPipeTypes
  <1>1. /\ uaEvents' \in Seq(UaReadings \X UaNodes) /\ k \in Nat
        /\ \A i \in DOMAIN uaEvents' : /\ i \in Nat /\ i + k \in DOMAIN uaEvents /\ i + k > k
                                       /\ uaEvents'[i] = uaEvents[i + k]
    <2>1. k \in Nat BY <1>0
    <2> QED BY <1>0, <2>1, SplitParts
  <1>2. \A i \in DOMAIN uaEvents' : UaNotified(i)' = UaNotified(i + k)
    BY <1>1 DEF UaNotified
  <1>3. \A r : UaHeld(r) /\ (\A i \in DOMAIN uaEvents : i <= k => r # UaNotified(i))
          => UaHeld(r)'
    BY DEF UaHeld
  <1>4. DOMAIN uaEvents \subseteq Nat BY <1>0
  <1>5. /\ \A i \in DOMAIN uaQueue : UaQueued(i)' = UaQueued(i) /\ UaHeld(UaQueued(i))'
        /\ \A w \in UaWorkers : /\ UaInWork(w)' = UaInWork(w)
                                /\ uaJobs[w].busy => UaHeld(UaInWork(w))'
    <2>1. /\ \A i \in DOMAIN uaQueue : UaQueued(i)' = UaQueued(i)
          /\ \A w \in UaWorkers : UaInWork(w)' = UaInWork(w)
      BY DEF UaQueued, UaInWork
    <2>2. /\ \A i \in DOMAIN uaQueue : uaFate'[UaQueued(i)] = "held" /\ UaQueued(i) \in UaReadings
          /\ \A w \in UaWorkers : uaJobs[w].busy =>
               uaFate'[UaInWork(w)] = "held" /\ UaInWork(w) \in UaReadings
      BY <1>3 DEF UaPipeInv, UaHeld
    <2> QED BY <2>1, <2>2 DEF UaHeld
  <1>6. \A i \in DOMAIN uaEvents' : UaHeld(UaNotified(i))'
    <2> SUFFICES ASSUME NEW i \in DOMAIN uaEvents'
                 PROVE UaNotified(i + k) \in UaReadings /\ uaFate'[UaNotified(i + k)] = "held"
      BY <1>2 DEF UaHeld
    <2>1. i + k \in DOMAIN uaEvents /\ i + k > k /\ i + k \in Nat /\ k \in Nat BY <1>1
    <2>2. \A j \in DOMAIN uaEvents : j <= k => UaNotified(i + k) # UaNotified(j)
      BY <1>4, <2>1 DEF UaPipeInv
    <2> QED BY <1>3, <2>1, <2>2 DEF UaPipeInv, UaHeld
  <1>7. \A i, j \in DOMAIN uaEvents' : UaNotified(i)' = UaNotified(j)' => i = j
    <2> SUFFICES ASSUME NEW i \in DOMAIN uaEvents', NEW j \in DOMAIN uaEvents',
                        UaNotified(i)' = UaNotified(j)'
                 PROVE i = j
      OBVIOUS
    <2>1. i \in Nat /\ j \in Nat /\ k \in Nat BY <1>1
    <2>2. i + k = j + k BY <1>1, <1>2 DEF UaPipeInv
    <2> QED BY <2>1, <2>2
  <1>8. /\ \A i \in DOMAIN uaQueue, j \in DOMAIN uaEvents' : UaQueued(i) # UaNotified(j)'
        /\ \A w \in UaWorkers, i \in DOMAIN uaEvents' : uaJobs[w].busy => UaInWork(w) # UaNotified(i)'
    BY <1>1, <1>2 DEF UaPipeInv
  <1>9. UaPipeTypes' BY <1>0, <1>1 DEF UaPipeTypes
  <1> QED BY <1>5, <1>6, <1>7, <1>8, <1>9 DEF UaPipeInv

(* Some of the first events are stored, the others lost.                       *)
LEMMA UaEventsStep ==
  ASSUME UaPipeInv, UaConvertSubData
  PROVE  UaPipeInv' /\ [UaGateway!ContractNext]_(UaGateway!contractVars)
  <1>0. /\ UaPipeTypes /\ uaEvents \in Seq(UaReadings \X UaNodes) /\ uaLife = "running"
        /\ uaFate \in [UaReadings -> FateType] /\ UNCHANGED <<uaLife, uaQueue, uaJobs, uaCall>>
    BY DEF UaPipeInv, UaPipeTypes, UaConvertSubData
  <1>1. PICK k \in 1..Len(uaEvents) :
          /\ uaEvents' = SubSeq(uaEvents, k + 1, Len(uaEvents))
          /\ \E stored \in SUBSET {e[1] : e \in {e \in Range(SubSeq(uaEvents, 1, k)) :
                                                   uaSubs[e[2]] # "none"}} :
               uaFate' = [r \in UaReadings |->
                    IF r \in stored THEN "stored"
                    ELSE IF \E e \in Range(SubSeq(uaEvents, 1, k)) : e[1] = r THEN "lost"
                    ELSE uaFate[r]]
    BY Zenon DEF UaConvertSubData
  <1> DEFINE batch == Range(SubSeq(uaEvents, 1, k))
  <1>2. PICK stored : /\ stored \subseteq {e[1] : e \in {e \in batch : uaSubs[e[2]] # "none"}}
                      /\ uaFate' = [r \in UaReadings |->
                           IF r \in stored THEN "stored"
                           ELSE IF \E e \in batch : e[1] = r THEN "lost" ELSE uaFate[r]]
    BY <1>1
  <1>3. \A e \in batch : \E i \in DOMAIN uaEvents : i <= k /\ e[1] = UaNotified(i)
    <2>1. \A i \in DOMAIN SubSeq(uaEvents, 1, k) :
            i <= k /\ i \in DOMAIN uaEvents /\ SubSeq(uaEvents, 1, k)[i] = uaEvents[i]
      BY <1>0, SplitParts
    <2>2. \A e \in batch : \E i \in DOMAIN SubSeq(uaEvents, 1, k) : e = SubSeq(uaEvents, 1, k)[i]
      BY DEF Range
    <2> QED BY <2>1, <2>2 DEF UaNotified
  <1>4. \A r \in stored : \E e \in batch : e[1] = r
    BY <1>2
  <1> HIDE DEF batch
  <1>5. uaFate' \in [UaReadings -> FateType]
    BY <1>0, <1>2 DEF FateType
  <1>6. \A r \in UaReadings :
          \/ uaFate'[r] = uaFate[r]
          \/ uaFate'[r] \in {"stored", "lost"} /\ \E i \in DOMAIN uaEvents : i <= k /\ r = UaNotified(i)
    BY <1>2, <1>3, <1>4
  <1>7. UaPipeInv'
    BY <1>0, <1>1, <1>5, <1>6, UaEventsLeave
  <1>8. \A r \in UaReadings : \/ uaFate'[r] = uaFate[r]
                              \/ uaFate[r] = "held" /\ uaFate'[r] \in {"stored", "lost"}
    BY <1>6 DEF UaPipeInv, UaHeld
  <1> QED BY <1>0, <1>5, <1>7, <1>8, UaSettles

(* A step of a call is seen only when the call is made and when it returns.    *)
LEMMA UaCallSteps ==
  ASSUME UaCallInv, NEW q \in UaCalls, UaAsk(q) \/ UaCaller(q) \/ UaTask(q)
  PROVE  /\ UaCallOnly /\ DOMAIN uaCall = UaCalls /\ DOMAIN uaCall' = UaCalls
         /\ \A p \in UaCalls : p # q => uaCall'[p].caller = uaCall[p].caller
         /\ \/ uaCall'[q].caller = uaCall[q].caller
            \/ uaLife # "new" /\ uaCall[q].caller = "none" /\ uaCall'[q].caller = "open"
            \/ uaCall[q].caller = "open" /\ uaCall'[q].caller \in {"ok", "error"}
  <1>0. uaCall \in [UaCalls -> UaCallType] /\ uaCall[q] \in UaCallType /\ UaSound(uaCall[q])
    BY DEF UaCallInv
  <1>1. UaCallOnly
    BY Zenon DEF UaAsk, UaCaller, UaBadRequest, UaDeviceRequest, UaReservedRequest,
                 UaAttributeUpdate, UaFindPath, UaAnswer, UaTimeout, UaTask
  <1> DEFINE Goal == /\ \A p \in UaCalls : p # q => uaCall'[p].caller = uaCall[p].caller
                     /\ DOMAIN uaCall' = UaCalls
                     /\ \/ uaCall'[q].caller = uaCall[q].caller
                        \/ uaLife # "new" /\ uaCall[q].caller = "none" /\ uaCall'[q].caller = "open"
                        \/ uaCall[q].caller = "open" /\ uaCall'[q].caller \in {"ok", "error"}
  <1> SUFFICES Goal
    BY <1>0, <1>1
  <1>2. CASE UaAsk(q)
    <2>1. PICK k \in {"read", "write", "update"} :
            uaCall' = [uaCall EXCEPT ![q].caller = "open", ![q].kind = k]
      BY <1>2, Zenon DEF UaAsk
    <2>2. uaLife # "new" /\ uaCall[q].caller = "none"
      BY <1>2 DEF UaAsk
    <2> QED BY <1>0, <2>1, <2>2 DEF UaCallType
  <1>3. CASE UaBadRequest(q) \/ UaDeviceRequest(q) \/ UaReservedRequest(q) \/ UaAttributeUpdate(q)
    BY <1>0, <1>3 DEF UaBadRequest, UaDeviceRequest, UaReservedRequest, UaAttributeUpdate, UaCallType
  <1>4. CASE UaFindPath(q)
    BY <1>0, <1>4 DEF UaFindPath, UaCallType
  <1>5. CASE UaAnswer(q)
    <2>1. uaCall[q].caller = "open" /\ \E told \in {"ok", "error"} :
            uaCall' = [uaCall EXCEPT ![q].result = "none", ![q].caller = told]
      BY <1>0, <1>5 DEF UaAnswer, UaSound, UaCallType
    <2> QED BY <1>0, <2>1 DEF UaCallType
  <1>6. CASE UaTimeout(q)
    <2>1. PICK a : uaCall' = [uaCall EXCEPT ![q].caller = "error", ![q].task = "ended",
                                            ![q].applied = a]
      BY <1>6, Zenon DEF UaTimeout
    <2>2. uaCall[q].caller = "open" BY <1>6 DEF UaTimeout
    <2> QED BY <1>0, <2>1, <2>2 DEF UaCallType
  <1>7. CASE UaTask(q)
    <2>1. PICK res, a : uaCall' = [uaCall EXCEPT ![q].task = "ended", ![q].result = res,
                                                 ![q].applied = a]
      BY <1>7, Zenon DEF UaTask
    <2> QED BY <1>0, <2>1 DEF UaCallType
  <1> QED BY <1>2, <1>3, <1>4, <1>5, <1>6, <1>7 DEF UaCaller

(* The end of the main task cancels what calls wait for, unseen by them.       *)
LEMMA UaMainEndStep ==
  ASSUME UaCallInv, UaPipeInv, UaMainEnd
  PROVE  UaPipeInv' /\ [UaGateway!ContractNext]_(UaGateway!contractVars)
  <1>0. UNCHANGED <<uaLife, uaQueue, uaEvents, uaFate>> /\ UaForget
    BY DEF UaMainEnd
  <1>1. UaPipeInv' BY <1>0, UaClientKeeps
  <1>2. uaCall \in [UaCalls -> UaCallType] BY DEF UaCallInv
  <1>3. PICK reached : uaCall' = [q \in UaCalls |-> IF q \in reached
                                                    THEN [uaCall[q] EXCEPT !.task = "cancelled"]
                                                    ELSE uaCall[q]]
    BY Zenon DEF UaMainEnd
  <1>4. DOMAIN uaCall' = DOMAIN uaCall /\ \A p \in DOMAIN uaCall : uaCall'[p].caller = uaCall[p].caller
    BY <1>2, <1>3 DEF UaCallType
  <1>5. Asks(uaCall') = Asks(uaCall) BY <1>4, AsksStay
  <1> QED BY <1>0, <1>1, <1>5 DEF UaGateway!contractVars, Asks

(* Every step keeps the pipeline's invariant and is a step of the contract.    *)
LEMMA UaStep ==
  ASSUME UaCallInv, UaPipeInv, [OpcuaNext]_uaVars
  PROVE  UaPipeInv' /\ [UaGateway!ContractNext]_(UaGateway!contractVars)
  <1> DEFINE Goal == UaPipeInv' /\ [UaGateway!ContractNext]_(UaGateway!contractVars)
  <1> SUFFICES Goal
    OBVIOUS
  <1>1. ASSUME UNCHANGED <<uaQueue, uaJobs, uaEvents, uaFate>>,
               uaLife \in {"running", "stopping"} => uaLife' \in {"running", "stopping"}
        PROVE UaPipeInv'
    <2>1. UaPipeTypes' BY <1>1 DEF UaPipeInv, UaPipeTypes
    <2>2. /\ \A i : UaQueued(i)' = UaQueued(i) /\ UaNotified(i)' = UaNotified(i)
          /\ \A w : UaInWork(w)' = UaInWork(w)
          /\ \A r : UaHeld(r)' <=> UaHeld(r)
      BY <1>1 DEF UaQueued, UaNotified, UaInWork, UaHeld
    <2>3. /\ \A i \in DOMAIN uaQueue : UaHeld(UaQueued(i))'
          /\ \A w \in UaWorkers : uaJobs[w].busy => UaHeld(UaInWork(w))'
          /\ \A i \in DOMAIN uaEvents : UaHeld(UaNotified(i))'
      BY <1>1, <2>2 DEF UaPipeInv, UaHeld
    <2> QED BY <1>1, <2>1, <2>2, <2>3 DEF UaPipeInv
  <1>2. ASSUME UNCHANGED <<uaLife, uaQueue, uaJobs, uaEvents, uaFate, uaCall>> PROVE Goal
    BY <1>1, <1>2 DEF UaGateway!contractVars
  <1>3. CASE UNCHANGED uaVars
    BY <1>2, <1>3 DEF uaVars, uaData
  <1>4. CASE UaOpen
    BY <1>1, <1>4 DEF UaOpen, UaGateway!Open, UaGateway!ContractNext, uaData
  <1>5. CASE UaStop
    BY <1>1, <1>5 DEF UaStop, UaGateway!Close, UaGateway!ContractNext, uaData
  <1>6. CASE UaEnd
    <2>1. UaPipeInv'
      <3>1. /\ uaQueue' = <<>> /\ uaEvents' = <<>> /\ UNCHANGED <<uaJobs, uaFate>>
            /\ \A w \in UaWorkers : ~uaJobs[w].busy
        BY <1>6 DEF UaEnd
      <3>2. uaQueue' \in Seq({}) /\ uaEvents' \in Seq(UaReadings \X UaNodes) BY <3>1
      <3>3. UaPipeTypes' BY <3>1, <3>2 DEF UaPipeInv, UaPipeTypes
      <3> QED BY <3>1, <3>3 DEF UaPipeInv
    <2>2. UaGateway!ThreadsEnd BY <1>6 DEF UaEnd, UaGateway!ThreadsEnd
    <2> QED BY <2>1, <2>2 DEF UaGateway!ContractNext
  <1>7. CASE \/ UaLost \/ UaFails \/ UaLeaveLoop \/ UaScanDue \/ UaPollDue
             \/ UaCreateDevices \/ UaScanDevice \/ UaScanNode
    BY <1>2, <1>7 DEF UaLost, UaFails, UaLeaveLoop, UaScanDue, UaPollDue, UaCreateDevices,
                      UaScanDevice, UaScanNode, UaQuietData, uaData
  <1>8. CASE UaNewClient \/ UaConnect BY <1>8, UaClientStep
  <1>9. CASE UaPollBatch BY <1>9, UaPollStep
  <1>10. CASE UaDataChange BY <1>10, UaEventStep
  <1>11. CASE UaConvertSubData BY <1>11, UaEventsStep
  <1>12. CASE UaMainEnd BY <1>12, UaMainEndStep
  <1>13. ASSUME NEW w \in UaWorkers, UaSubmit(w) \/ UaWorker(w) PROVE Goal
    BY <1>13, UaSubmitStep, UaConvertStep, UaJobEndsStep DEF UaWorker
  <1>14. ASSUME NEW q \in UaCalls, UaAsk(q) \/ UaCaller(q) \/ UaTask(q) PROVE Goal
    <2>0. /\ UaCallOnly /\ DOMAIN uaCall = UaCalls /\ DOMAIN uaCall' = UaCalls
          /\ \A p \in UaCalls : p # q => uaCall'[p].caller = uaCall[p].caller
          /\ \/ uaCall'[q].caller = uaCall[q].caller
             \/ uaLife # "new" /\ uaCall[q].caller = "none" /\ uaCall'[q].caller = "open"
             \/ uaCall[q].caller = "open" /\ uaCall'[q].caller \in {"ok", "error"}
      BY <1>14, UaCallSteps
    <2>1. UNCHANGED <<uaLife, uaFate>> /\ UaPipeInv'
      BY <1>1, <2>0 DEF UaCallOnly, uaData
    <2>2. CASE uaCall'[q].caller = uaCall[q].caller
      <3>1. Asks(uaCall') = Asks(uaCall) BY <2>0, <2>2, AsksStay
      <3> QED BY <2>1, <3>1 DEF UaGateway!contractVars, Asks
    <2>3. CASE uaLife # "new" /\ uaCall[q].caller = "none" /\ uaCall'[q].caller = "open"
      <3>1. Asks(uaCall)[q] = "none" /\ Asks(uaCall') = [Asks(uaCall) EXCEPT ![q] = "open"]
        BY <2>0, <2>3, AsksOpen
      <3>2. UaGateway!Ask(q) BY <2>1, <2>3, <3>1 DEF UaGateway!Ask, Asks
      <3> QED BY <2>1, <3>2 DEF UaGateway!ContractNext
    <2>4. CASE uaCall[q].caller = "open" /\ uaCall'[q].caller \in {"ok", "error"}
      <3>1. Asks(uaCall)[q] = "open" /\ Asks(uaCall') = [Asks(uaCall) EXCEPT ![q] = "answered"]
        BY <2>0, <2>4, AsksEnd
      <3>2. UaGateway!Answer(q) BY <2>1, <3>1 DEF UaGateway!Answer, Asks
      <3> QED BY <2>1, <3>2 DEF UaGateway!ContractNext
    <2> QED BY <2>0, <2>2, <2>3, <2>4
  <1> HIDE DEF Goal
  <1> QED BY <1>3, <1>4, <1>5, <1>6, <1>7, <1>8, <1>9, <1>10, <1>11, <1>12, <1>13, <1>14
      DEF OpcuaNext

(* To the gateway the OPC-UA connector is a connector: opened and closed once, *)
(* each batch and each event stored at most once and none after its loop and   *)
(* its pool have ended, each call made and answered once (opcua_connector.py). *)
THEOREM OpcuaRefinesContract == OpcuaInit /\ [][OpcuaNext]_uaVars => UaGatewaySafety
  <1>1. OpcuaInit => UaGateway!ContractInit
    BY DEF OpcuaInit, UaNoCall, Asks, Asked, UaGateway!ContractInit
  <1>2. UaCallInv /\ UaPipeInv /\ [OpcuaNext]_uaVars
          => UaPipeInv' /\ [UaGateway!ContractNext]_(UaGateway!contractVars)
    BY UaStep
  <1> QED BY <1>1, <1>2, UaCallInit, UaCallStep, UaPipeInit, PTL DEF UaGatewaySafety

-----------------------------------------------------------------------------
(* The calls of the BACnet connector.                                          *)
BnCallType ==
    [caller : {"none", "open", "ok", "error"}, kind : BnKinds,
     task : {"none", "lookup", "request", "cancelled"}, applied : BOOLEAN]
BnReqType == {"none", "sent", "answered", "ok", "failed"}
BnAnswers == (BnWho \cup {"orphan"}) \X BOOLEAN

BnWireTypes ==
    /\ bnCall \in [BnCalls -> BnCallType] /\ bnReq \in [BnWho -> BnReqType]
    /\ bnConf \in Seq(BnAnswers)
    /\ DOMAIN bnScan = BnScans /\ \A t \in BnScans : "at" \in DOMAIN bnScan[t]

(* A call has a request under way only while its caller waits; a write whose   *)
(* own request (not its look-up) went well has reached the device.             *)
BnWritten(c) == c.task = "request" /\ c.kind = "write" => c.applied
BnSound(c, req) ==
    /\ req # "none" => c.caller = "open" /\ c.task \in {"lookup", "request"}
    /\ req = "ok" => BnWritten(c)
    /\ c.caller = "ok" /\ c.kind = "write" => c.applied

(* An answer that waits to be confirmed is the only one to a request that is   *)
(* answered, and says of a write what became of it.                            *)
BnConfInv ==
    /\ \A i \in DOMAIN bnConf : bnConf[i][1] # "orphan" => bnReq[bnConf[i][1]] = "answered"
    /\ \A i, j \in DOMAIN bnConf : bnConf[i][1] = bnConf[j][1] /\ bnConf[i][1] # "orphan" => i = j
    /\ \A i \in DOMAIN bnConf : bnConf[i][1] \in BnCalls /\ bnConf[i][2] = TRUE
         => BnWritten(bnCall[bnConf[i][1]])

BnCallInv ==
    /\ BnWireTypes /\ BnConfInv
    /\ \A q \in BnCalls : BnSound(bnCall[q], bnReq[q])
    /\ \A t \in BnScans : bnScan[t].at = "idle" => bnReq[t] = "none"

(* The names of the tasks.                                                     *)
LEMMA BnNames ==
    /\ "orphan" \notin BnWho /\ "add" \in BnScans
    /\ BnScans \subseteq BnWho /\ BnPolls \subseteq BnWho /\ BnCalls \subseteq BnWho
    /\ BnCalls \cap (BnScans \cup BnPolls) = {} /\ BnScans \cap BnPolls = {}
    /\ "add" \notin BnRescans
  BY BacnetAssumption DEF BnWho, BnScans

(* Nothing was asked yet.                                                      *)
LEMMA BnCallInit == BacnetInit => BnCallInv
  <1> SUFFICES ASSUME BacnetInit PROVE BnCallInv
    OBVIOUS
  <1>1. BnWireTypes
    BY DEF BacnetInit, BnWireTypes, BnCallType, BnReqType, BnNoCall, BnKinds, BnNoScan
  <1>2. BnConfInv
    BY DEF BacnetInit, BnConfInv
  <1>3. \A q \in BnCalls : BnSound(bnCall[q], bnReq[q])
    BY BnNames DEF BacnetInit, BnNoCall, BnSound
  <1>4. \A t \in BnScans : bnScan[t].at = "idle" => bnReq[t] = "none"
    BY BnNames DEF BacnetInit
  <1> QED BY <1>1, <1>2, <1>3, <1>4 DEF BnCallInv

(* An answer that waits is somebody's.                                         *)
LEMMA BnAnswerOf ==
  ASSUME BnWireTypes, NEW i \in DOMAIN bnConf
  PROVE  /\ bnConf[i] \in BnAnswers /\ bnConf[i][1] \in BnWho \cup {"orphan"}
         /\ bnConf[i][2] \in BOOLEAN
  <1>1. bnConf[i] \in BnAnswers
    BY DEF BnWireTypes
  <1> QED BY <1>1 DEF BnAnswers

(* A discovery or a poll whose answer is not waiting goes on to another        *)
(* request, or to none.                                                        *)
LEMMA BnTaskMoves ==
  ASSUME BnCallInv, NEW w \in BnScans \cup BnPolls, NEW s \in BnReqType, bnReq[w] # "answered",
         bnReq' = [bnReq EXCEPT ![w] = s], UNCHANGED <<bnConf, bnCall>>, DOMAIN bnScan' = BnScans,
         \A t \in BnScans : "at" \in DOMAIN bnScan'[t],
         \A t \in BnScans : t # w /\ bnScan'[t].at = "idle" => bnScan[t].at = "idle",
         w \in BnScans /\ bnScan'[w].at = "idle" => s = "none"
  PROVE  BnCallInv'
  <1>0. BnWireTypes /\ BnConfInv /\ w \in BnWho /\ w \notin BnCalls
    BY BnNames DEF BnCallInv
  <1>1. bnReq' \in [BnWho -> BnReqType] /\ \A v \in BnWho : v # w => bnReq'[v] = bnReq[v]
    BY <1>0 DEF BnWireTypes
  <1>2. BnWireTypes'
    BY <1>0, <1>1 DEF BnWireTypes
  <1>3. BnConfInv'
    <2>1. ASSUME NEW i \in DOMAIN bnConf, bnConf[i][1] # "orphan"
          PROVE bnReq'[bnConf[i][1]] = "answered"
      <3>1. bnConf[i][1] \in BnWho BY <1>0, <2>1, BnAnswerOf
      <3>2. bnReq[bnConf[i][1]] = "answered" BY <1>0, <2>1 DEF BnConfInv
      <3> QED BY <1>1, <3>1, <3>2
    <2> QED BY <1>0, <2>1 DEF BnConfInv
  <1>4. \A q \in BnCalls : BnSound(bnCall[q], bnReq[q])'
    BY <1>0, <1>1, BnNames DEF BnCallInv
  <1>5. ASSUME NEW t \in BnScans, bnScan'[t].at = "idle" PROVE bnReq'[t] = "none"
    <2>1. CASE t = w
      BY <1>0, <1>5, <2>1 DEF BnWireTypes
    <2>2. CASE t # w
      BY <1>1, <1>5, <2>2, BnNames DEF BnCallInv
    <2> QED BY <2>1, <2>2
  <1> QED BY <1>2, <1>3, <1>4, <1>5 DEF BnCallInv

(* A call moves on, its request with it, unless its answer waits.              *)
LEMMA BnCallMoves ==
  ASSUME BnCallInv, NEW q \in BnCalls, NEW c \in BnCallType, NEW s \in BnReqType,
         bnReq[q] # "answered", BnSound(c, s),
         bnReq' = [bnReq EXCEPT ![q] = s], bnCall' = [bnCall EXCEPT ![q] = c],
         UNCHANGED <<bnConf, bnScan>>
  PROVE  BnCallInv'
  <1>0. BnWireTypes /\ BnConfInv /\ q \in BnWho /\ q \notin BnScans
    BY BnNames DEF BnCallInv
  <1>1. /\ bnReq' \in [BnWho -> BnReqType] /\ \A v \in BnWho : v # q => bnReq'[v] = bnReq[v]
        /\ bnCall' \in [BnCalls -> BnCallType] /\ \A v \in BnCalls : v # q => bnCall'[v] = bnCall[v]
        /\ bnCall'[q] = c /\ bnReq'[q] = s
    BY <1>0 DEF BnWireTypes
  <1>2. BnWireTypes'
    BY <1>0, <1>1 DEF BnWireTypes
  <1>3. BnConfInv'
    <2>1. ASSUME NEW i \in DOMAIN bnConf, bnConf[i][1] # "orphan"
          PROVE bnReq'[bnConf[i][1]] = "answered" /\ bnConf[i][1] # q
      <3>1. bnConf[i][1] \in BnWho BY <1>0, <2>1, BnAnswerOf
      <3>2. bnReq[bnConf[i][1]] = "answered" BY <1>0, <2>1 DEF BnConfInv
      <3> QED BY <1>1, <3>1, <3>2
    <2>2. ASSUME NEW i \in DOMAIN bnConf, bnConf[i][1] \in BnCalls, bnConf[i][2] = TRUE
          PROVE BnWritten(bnCall'[bnConf[i][1]])
      <3>1. bnConf[i][1] # "orphan" BY <2>2, BnNames
      <3>2. bnCall'[bnConf[i][1]] = bnCall[bnConf[i][1]] BY <1>1, <2>1, <2>2, <3>1
      <3> QED BY <1>0, <2>2, <3>2 DEF BnConfInv
    <2> QED BY <1>0, <2>1, <2>2 DEF BnConfInv
  <1>4. ASSUME NEW p \in BnCalls PROVE BnSound(bnCall'[p], bnReq'[p])
    <2>1. CASE p = q
      BY <1>1, <2>1
    <2>2. CASE p # q
      BY <1>1, <2>2, BnNames DEF BnCallInv
    <2> QED BY <2>1, <2>2
  <1>5. \A t \in BnScans : bnScan'[t].at = "idle" => bnReq'[t] = "none"
    BY <1>0, <1>1, BnNames DEF BnCallInv
  <1> QED BY <1>2, <1>3, <1>4, <1>5 DEF BnCallInv

(* The scan of one task changes, with its request.                             *)
LEMMA BnScanMoves ==
  ASSUME BnCallInv, NEW t \in BnScans, NEW s \in BnReqType, bnReq[t] # "answered",
         NEW x, bnScan' = [bnScan EXCEPT ![t] = x], "at" \in DOMAIN x, x.at = "idle" => s = "none",
         bnReq' = [bnReq EXCEPT ![t] = s], UNCHANGED <<bnConf, bnCall>>
  PROVE  BnCallInv'
  <1>1. DOMAIN bnScan = BnScans /\ \A u \in BnScans : "at" \in DOMAIN bnScan[u]
    BY DEF BnCallInv, BnWireTypes
  <1>2. DOMAIN bnScan' = BnScans /\ \A u \in BnScans : bnScan'[u] = IF u = t THEN x ELSE bnScan[u]
    BY <1>1
  <1>3. \A u \in BnScans : "at" \in DOMAIN bnScan'[u]
    BY <1>1, <1>2
  <1>4. /\ \A u \in BnScans : u # t /\ bnScan'[u].at = "idle" => bnScan[u].at = "idle"
        /\ t \in BnScans /\ bnScan'[t].at = "idle" => s = "none"
    BY <1>2
  <1>5. t \in BnScans \cup BnPolls OBVIOUS
  <1> QED BY <1>2, <1>3, <1>4, <1>5, BnTaskMoves

(* The next unit of a device is added, or the addition is over.                *)
LEMMA BnAddedKeeps ==
  ASSUME BnCallInv, bnReq["add"] # "answered", UNCHANGED <<bnConf, bnCall>>,
         \/ \E u : BnAddUnit(u)
         \/ \E u : BnAdded(u)
         \/ BnListObjects
         \/ bnScan' = [bnScan EXCEPT !["add"] = BnNoScan] /\ BnSendNone("add")
  PROVE  BnCallInv'
  <1>0. "add" \in BnScans /\ "at" \in DOMAIN bnScan["add"]
    BY BnNames DEF BnCallInv, BnWireTypes
  <1>1. ASSUME NEW u, BnAddUnit(u) PROVE BnCallInv'
    <2> DEFINE x == [BnNoScan EXCEPT !.at = "name", !.unit = u]
    <2>1. "at" \in DOMAIN x /\ x.at = "name"
      BY DEF BnNoScan
    <2>2. bnScan' = [bnScan EXCEPT !["add"] = x]
      BY <1>1, Zenon DEF BnAddUnit
    <2>a. bnReq' \in {[bnReq EXCEPT !["add"] = s] : s \in {"sent", "failed"}}
      BY <1>1, Zenon DEF BnAddUnit
    <2>3. PICK s \in {"sent", "failed"} : bnReq' = [bnReq EXCEPT !["add"] = s]
      BY <2>a
    <2>4. s \in BnReqType BY DEF BnReqType
    <2> HIDE DEF x
    <2> QED BY <1>0, <2>1, <2>2, <2>3, <2>4, BnScanMoves
  <1>2. CASE bnScan' = [bnScan EXCEPT !["add"] = BnNoScan] /\ BnSendNone("add")
    <2>1. "at" \in DOMAIN BnNoScan BY DEF BnNoScan
    <2>2. bnReq' = [bnReq EXCEPT !["add"] = "none"] /\ "none" \in BnReqType
      BY <1>2 DEF BnSendNone, BnReqType
    <2> QED BY <1>0, <1>2, <2>1, <2>2, BnScanMoves
  <1>3. ASSUME NEW u, BnAdded(u) PROVE BnCallInv'
    BY <1>1, <1>2, <1>3 DEF BnAdded
  <1>4. CASE BnListObjects
    <2>1. PICK a \in {"whole", "length"} : bnScan' = [bnScan EXCEPT !["add"].at = a]
      BY <1>4 DEF BnListObjects
    <2> DEFINE x == [bnScan["add"] EXCEPT !.at = a]
    <2>2. "at" \in DOMAIN x /\ x.at = a /\ bnScan' = [bnScan EXCEPT !["add"] = x]
      BY <1>0, <2>1
    <2>3. bnReq' = [bnReq EXCEPT !["add"] = "sent"] /\ "sent" \in BnReqType
      BY <1>4 DEF BnListObjects, BnSend, BnReqType
    <2> HIDE DEF x
    <2> QED BY <1>0, <2>1, <2>2, <2>3, BnScanMoves
  <1> QED BY <1>1, <1>2, <1>3, <1>4

(* The additions and discoveries.                                              *)
LEMMA BnDiscoveryKeeps ==
  ASSUME BnCallInv,
         \/ BnIndication \/ BnRegister \/ BnScanWhole \/ BnScanLength
         \/ \E t \in BnScans : BnScanIndex(t) \/ BnScanNames(t)
         \/ \E t \in BnRescans : BnRescan(t)
  PROVE  BnCallInv'
  <1>d. BnFieldOnly
    BY Zenon DEF BnIndication, BnRegister, BnScanWhole, BnScanLength, BnScanIndex, BnScanNames, BnRescan
  <1>e. "add" \in BnScans /\ \A t \in BnScans : "at" \in DOMAIN bnScan[t]
    BY BnNames DEF BnCallInv, BnWireTypes
  <1>0. /\ UNCHANGED <<bnConf, bnCall>>
        /\ "add" \in BnScans /\ \A t \in BnScans : "at" \in DOMAIN bnScan[t]
        /\ "sent" \in BnReqType /\ "none" \in BnReqType /\ BnRescans \subseteq BnScans
    BY <1>d, <1>e DEF BnFieldOnly, BnReqType, BnScans
  <1>a. ASSUME NEW t \in BnScans, BnOver(t) PROVE bnReq[t] # "answered"
    BY <1>a DEF BnOver
  <1>b. ASSUME NEW t \in BnScans, bnScan[t].at = "idle" PROVE bnReq[t] = "none"
    BY <1>b DEF BnCallInv
  <1>c. ASSUME NEW t \in BnScans, NEW u, BnOver(t), BnDiscovered(t, u) PROVE BnCallInv'
    <2>1. CASE t = "add" /\ BnAdded(u)
      BY <1>0, <1>a, <1>c, <2>1, BnAddedKeeps
    <2>2. CASE bnScan' = [bnScan EXCEPT ![t] = BnNoScan] /\ BnSendNone(t)
      <3>1. "at" \in DOMAIN BnNoScan BY DEF BnNoScan
      <3>2. bnReq' = [bnReq EXCEPT ![t] = "none"] BY <2>2 DEF BnSendNone
      <3> QED BY <1>0, <1>a, <1>c, <2>2, <3>1, <3>2, BnScanMoves
    <2> QED BY <1>c, <2>1, <2>2 DEF BnDiscovered
  <1>1. CASE BnIndication
    <2>1. CASE UNCHANGED <<bnScan, bnReq>>
      BY <1>0, <2>1 DEF BnCallInv, BnWireTypes, BnConfInv
    <2>2. ASSUME NEW u, BnAddUnit(u) PROVE BnCallInv'
      BY <1>0, <1>1, <1>b, <2>2, BnAddedKeeps DEF BnIndication
    <2> QED BY <1>1, <2>1, <2>2 DEF BnIndication
  <1>2. CASE BnRegister
    <2>1. BnOver("add") /\ ((\E u : BnAdded(u)) \/ BnListObjects)
      BY <1>2 DEF BnRegister
    <2> QED BY <1>0, <1>a, <2>1, BnAddedKeeps
  <1>3. ASSUME NEW x, "at" \in DOMAIN x, x.at \in {"names", "ids"}, NEW t \in BnScans, BnOver(t),
               BnSend(t), bnScan' = [bnScan EXCEPT ![t] = x]
        PROVE BnCallInv'
    <2>1. bnReq' = [bnReq EXCEPT ![t] = "sent"] BY <1>3 DEF BnSend
    <2> QED BY <1>0, <1>a, <1>3, <2>1, BnScanMoves
  <1>4. CASE BnScanWhole
    <2>1. BnOver("add") BY <1>4 DEF BnScanWhole
    <2>2. CASE \E u : BnAdded(u)
      BY <1>0, <1>a, <2>1, <2>2, BnAddedKeeps
    <2>3. ASSUME NEW f, BnSend("add"),
                 bnScan' = [bnScan EXCEPT !["add"].at = "names", !["add"].found = f]
          PROVE BnCallInv'
      <3> DEFINE x == [bnScan["add"] EXCEPT !.at = "names", !.found = f]
      <3>1. "at" \in DOMAIN x /\ x.at = "names" /\ bnScan' = [bnScan EXCEPT !["add"] = x]
        BY <1>0, <2>3
      <3> HIDE DEF x
      <3> QED BY <1>0, <1>3, <2>1, <2>3, <3>1
    <2> QED BY <1>4, <2>2, <2>3 DEF BnScanWhole
  <1>5. CASE BnScanLength
    <2>1. BnOver("add") BY <1>5 DEF BnScanLength
    <2>2. CASE \E u : BnAdded(u)
      BY <1>0, <1>a, <2>1, <2>2, BnAddedKeeps
    <2>3. ASSUME NEW f, BnSend("add"),
                 bnScan' = [bnScan EXCEPT !["add"].at = "ids", !["add"].todo = f]
          PROVE BnCallInv'
      <3> DEFINE x == [bnScan["add"] EXCEPT !.at = "ids", !.todo = f]
      <3>1. "at" \in DOMAIN x /\ x.at = "ids" /\ bnScan' = [bnScan EXCEPT !["add"] = x]
        BY <1>0, <2>3
      <3> HIDE DEF x
      <3> QED BY <1>0, <1>3, <2>1, <2>3, <3>1
    <2> QED BY <1>5, <2>2, <2>3 DEF BnScanLength
  <1>6. ASSUME NEW t \in BnScans, BnScanIndex(t) PROVE BnCallInv'
    <2>1. BnOver(t) BY <1>6, Zenon DEF BnScanIndex
    <2>2. CASE \E u : BnDiscovered(t, u)
      BY <1>c, <2>1, <2>2
    <2> DEFINE s == bnScan[t]
               i == CHOOSE i \in s.todo : TRUE
               left == s.todo \ {i}
               found == IF bnReq[t] = "ok" THEN s.found \cup {i} ELSE s.found
               a == IF left = {} THEN "names" ELSE "ids"
    <2>3. \/ BnDiscovered(t, s.unit)
          \/ BnSend(t) /\ bnScan' = [bnScan EXCEPT ![t].todo = left, ![t].found = found, ![t].at = a]
      BY <1>6, Zenon DEF BnScanIndex
    <2>4. a \in {"names", "ids"} OBVIOUS
    <2> HIDE DEF a, found, left
    <2>5. CASE BnDiscovered(t, s.unit)
      BY <2>2, <2>5
    <2>6. CASE BnSend(t) /\ bnScan' = [bnScan EXCEPT ![t].todo = left, ![t].found = found, ![t].at = a]
      <3> DEFINE x == [bnScan[t] EXCEPT !.todo = left, !.found = found, !.at = a]
      <3>1. "at" \in DOMAIN x /\ x.at = a /\ bnScan' = [bnScan EXCEPT ![t] = x]
        BY <1>0, <2>6
      <3> HIDE DEF x
      <3> QED BY <1>3, <2>1, <2>4, <2>6, <3>1
    <2> QED BY <2>3, <2>5, <2>6
  <1>7. ASSUME NEW t \in BnScans, BnScanNames(t) PROVE BnCallInv'
    BY <1>c, <1>7 DEF BnScanNames
  <1>8. ASSUME NEW t \in BnRescans, BnRescan(t) PROVE BnCallInv'
    <2>1. PICK u \in bnTimers :
            bnScan' = [bnScan EXCEPT ![t] = [at |-> "ids", unit |-> u, base |-> bnConfig[u],
                                             todo |-> bnFailed[u], found |-> {}]]
      BY <1>8 DEF BnRescan
    <2>2. bnReq[t] = "none" /\ t \in BnScans
      BY <1>0, <1>b, <1>8 DEF BnRescan
    <2> DEFINE x == [at |-> "ids", unit |-> u, base |-> bnConfig[u],
                     todo |-> bnFailed[u], found |-> {}]
    <2>3. "at" \in DOMAIN x /\ x.at = "ids" /\ bnScan' = [bnScan EXCEPT ![t] = x]
      BY <2>1
    <2>4. bnReq' = [bnReq EXCEPT ![t] = "sent"] BY <1>8 DEF BnRescan, BnSend
    <2> HIDE DEF x
    <2> QED BY <1>0, <2>2, <2>3, <2>4, BnScanMoves
  <1> QED BY <1>1, <1>2, <1>4, <1>5, <1>6, <1>7, <1>8

(* The polls.                                                                  *)
LEMMA BnPollKeeps ==
  ASSUME BnCallInv, NEW p \in BnPolls, BnTakePoll(p) \/ BnPollStep(p)
  PROVE  BnCallInv'
  <1>0. /\ UNCHANGED <<bnConf, bnCall, bnScan>> /\ bnReq[p] # "answered"
        /\ DOMAIN bnScan = BnScans /\ (\A t \in BnScans : "at" \in DOMAIN bnScan[t])
        /\ p \in BnScans \cup BnPolls /\ p \notin BnScans
    BY BnNames DEF BnCallInv, BnWireTypes, BnTakePoll, BnPollStep, BnOver, bnField
  <1>1. PICK s \in {"sent", "none"} : bnReq' = [bnReq EXCEPT ![p] = s]
    BY DEF BnTakePoll, BnPollStep, BnNextPortion, BnSend, BnSendNone
  <1>2. s \in BnReqType BY DEF BnReqType
  <1> QED BY <1>0, <1>1, <1>2, BnTaskMoves

(* The requests of calls, and what their callers make of them.                 *)
LEMMA BnCallerKeeps ==
  ASSUME BnCallInv, NEW q \in BnCalls,
         BnAsk(q) \/ BnRequest(q) \/ BnLookedUp(q) \/ BnReply(q) \/ BnCancelled(q)
  PROVE  BnCallInv'
  <1> DEFINE c == bnCall[q]
  <1>0. /\ c \in BnCallType /\ bnCall \in [BnCalls -> BnCallType] /\ bnReq \in [BnWho -> BnReqType]
        /\ BnSound(c, bnReq[q]) /\ q \in BnWho /\ bnReq[q] \in BnReqType
    BY BnNames DEF BnCallInv, BnWireTypes
  <1>a. UNCHANGED <<bnConf, bnScan>>
    BY DEF BnAsk, BnRequest, BnBadRequest, BnNoDevice, BnDeviceRequest, BnReservedRequest,
           BnAttributeUpdate, BnLookedUp, BnReply, BnCancelled, BnCallOnly, bnWire, bnField
  <1>b. /\ c.caller # "open" => bnReq[q] = "none"
        /\ c.task \in {"none", "cancelled"} => bnReq[q] = "none"
    BY <1>0 DEF BnSound
  <1>c. UNCHANGED bnReq => bnReq' = [bnReq EXCEPT ![q] = bnReq[q]]
    BY <1>0
  <1>d. {"sent", "none"} \subseteq BnReqType
    BY DEF BnReqType
  <1>1. CASE BnAsk(q)
    <2>1. PICK k \in BnKinds :
            bnCall' = [bnCall EXCEPT ![q].caller = "open", ![q].kind = k]
      BY <1>1, Zenon DEF BnAsk
    <2> DEFINE d == [c EXCEPT !.caller = "open", !.kind = k]
    <2>2. bnReq[q] = "none" /\ UNCHANGED bnReq
      BY <1>1, <1>b DEF BnAsk, bnWire
    <2>3. d \in BnCallType /\ BnSound(d, "none")
      BY <1>0 DEF BnCallType, BnSound
    <2>4. bnCall' = [bnCall EXCEPT ![q] = d]
      BY <1>0, <2>1
    <2> QED BY <1>a, <1>c, <1>d, <2>2, <2>3, <2>4, BnCallMoves
  <1>2. CASE BnRequest(q)
    <2>1. c.caller = "open" /\ c.task = "none" /\ bnReq[q] = "none"
      BY <1>2, <1>b DEF BnRequest, BnBadRequest, BnNoDevice, BnDeviceRequest, BnReservedRequest,
                        BnAttributeUpdate, BnUnasked
    <2>2. ASSUME NEW told \in {"ok", "error"}, bnCall' = [bnCall EXCEPT ![q].caller = told],
                 told = "ok" => c.kind = "update", UNCHANGED bnReq
          PROVE BnCallInv'
      <3> DEFINE d == [c EXCEPT !.caller = told]
      <3>1. d \in BnCallType /\ BnSound(d, "none")
        BY <1>0, <2>1, <2>2 DEF BnCallType, BnSound
      <3>2. bnCall' = [bnCall EXCEPT ![q] = d]
        BY <1>0, <2>2
      <3> QED BY <1>a, <1>c, <1>d, <2>1, <2>2, <3>1, <3>2, BnCallMoves
    <2>3. ASSUME BnNewTask(q), BnSend(q) PROVE BnCallInv'
      <3>1. PICK t \in {"request", "lookup"} : bnCall' = [bnCall EXCEPT ![q].task = t]
        BY <2>3 DEF BnNewTask
      <3> DEFINE d == [c EXCEPT !.task = t]
      <3>2. d \in BnCallType /\ BnSound(d, "sent")
        BY <1>0, <2>1 DEF BnCallType, BnSound
      <3>3. bnCall' = [bnCall EXCEPT ![q] = d]
        BY <1>0, <3>1
      <3>4. bnReq' = [bnReq EXCEPT ![q] = "sent"]
        BY <2>3 DEF BnSend
      <3> QED BY <1>a, <1>d, <2>1, <3>2, <3>3, <3>4, BnCallMoves
    <2>4. CASE BnBadRequest(q) \/ BnNoDevice(q)
      BY <2>2, <2>4 DEF BnBadRequest, BnNoDevice, bnWire
    <2>5. CASE BnDeviceRequest(q) \/ BnReservedRequest(q)
      BY <2>2, <2>3, <2>5 DEF BnDeviceRequest, BnReservedRequest
    <2>6. CASE BnAttributeUpdate(q)
      BY <2>2, <2>3, <2>6 DEF BnAttributeUpdate, BnUnasked
    <2> QED BY <1>2, <2>4, <2>5, <2>6 DEF BnRequest
  <1>3. CASE BnLookedUp(q)
    <2> DEFINE d == [c EXCEPT !.task = "request"]
    <2>1. c.task = "lookup" /\ bnReq[q] = "ok" /\ bnReq' = [bnReq EXCEPT ![q] = "sent"]
      BY <1>3 DEF BnLookedUp, BnSend
    <2>2. d \in BnCallType /\ BnSound(d, "sent")
      BY <1>0, <2>1 DEF BnCallType, BnSound
    <2>3. bnCall' = [bnCall EXCEPT ![q] = d]
      BY <1>0, <1>3 DEF BnLookedUp
    <2> QED BY <1>a, <1>d, <2>1, <2>2, <2>3, BnCallMoves
  <1>4. CASE BnReply(q)
    <2> DEFINE told == IF bnReq[q] = "ok" /\ bnCall[q].kind # "method" THEN "ok" ELSE "error"
               d == [c EXCEPT !.caller = told, !.task = "none"]
    <2>1. /\ BnOver(q) /\ (c.task = "lookup" => bnReq[q] = "failed")
          /\ bnReq' = [bnReq EXCEPT ![q] = "none"]
          /\ bnCall' = [bnCall EXCEPT ![q].caller = told, ![q].task = "none"]
      BY <1>4, Zenon DEF BnReply, BnSendNone
    <2>2. bnReq[q] # "answered" /\ (bnReq[q] = "ok" => c.task = "request")
      BY <1>0, <2>1 DEF BnOver, BnSound
    <2>3. d \in BnCallType /\ BnSound(d, "none")
      BY <1>0, <2>2 DEF BnCallType, BnSound, BnWritten
    <2>4. bnCall' = [bnCall EXCEPT ![q] = d]
      BY <1>0, <2>1
    <2> QED BY <1>a, <1>d, <2>1, <2>2, <2>3, <2>4, BnCallMoves
  <1>5. CASE BnCancelled(q)
    <2> DEFINE d == [c EXCEPT !.caller = "error", !.task = "none"]
    <2>1. bnReq[q] = "none" /\ UNCHANGED bnReq
      BY <1>5, <1>b DEF BnCancelled, bnWire
    <2>2. d \in BnCallType /\ BnSound(d, "none")
      BY <1>0 DEF BnCallType, BnSound
    <2>3. bnCall' = [bnCall EXCEPT ![q] = d]
      BY <1>0, <1>5 DEF BnCancelled
    <2> QED BY <1>a, <1>c, <1>d, <2>1, <2>2, <2>3, BnCallMoves
  <1> QED BY <1>1, <1>2, <1>3, <1>4, <1>5

(* The stack answers a request: the answer is put behind those that wait.      *)
LEMMA BnAnsweredKeeps ==
  ASSUME BnCallInv, NEW w \in BnWho, BnAnswered(w)
  PROVE  BnCallInv'
  <1>0. BnWireTypes /\ BnConfInv /\ w # "orphan" /\ bnReq[w] = "sent" /\ UNCHANGED bnScan
    BY BnNames DEF BnCallInv, BnAnswered, BnWireOnly, bnField
  <1>1. PICK good \in BOOLEAN, reached \in BOOLEAN :
         /\ good => reached
         /\ bnConf' = Append(bnConf, <<w, good>>)
         /\ bnCall' = IF w \in BnCalls
                      THEN [bnCall EXCEPT ![w].applied = /\ reached /\ bnCall[w].task = "request"
                                                         /\ bnCall[w].kind # "read"]
                      ELSE bnCall
    BY Zenon DEF BnAnswered
  <1> DEFINE a == reached /\ bnCall[w].task = "request" /\ bnCall[w].kind # "read"
  <1>2. /\ bnReq' \in [BnWho -> BnReqType] /\ bnReq'[w] = "answered"
        /\ \A v \in BnWho : v # w => bnReq'[v] = bnReq[v]
    BY <1>0 DEF BnAnswered, BnWireTypes, BnReqType
  <1>3. /\ bnCall' \in [BnCalls -> BnCallType]
        /\ \A v \in BnCalls : v # w => bnCall'[v] = bnCall[v]
        /\ w \in BnCalls => bnCall'[w] = [bnCall[w] EXCEPT !.applied = a]
    <2>1. a \in BOOLEAN /\ bnCall \in [BnCalls -> BnCallType]
      BY <1>0 DEF BnWireTypes
    <2>2. bnCall' = IF w \in BnCalls THEN [bnCall EXCEPT ![w].applied = a] ELSE bnCall
      BY <1>1
    <2> HIDE DEF a
    <2> QED BY <2>1, <2>2 DEF BnCallType
  <1>4. /\ bnConf \in Seq(BnAnswers) /\ <<w, good>> \in BnAnswers
        /\ Len(bnConf) \in Nat /\ DOMAIN bnConf = 1..Len(bnConf)
        /\ bnConf' \in Seq(BnAnswers) /\ DOMAIN bnConf' = 1..(Len(bnConf) + 1)
        /\ \A i \in 1..(Len(bnConf) + 1) :
             bnConf'[i] = IF i = Len(bnConf) + 1 THEN <<w, good>> ELSE bnConf[i]
    <2>1. bnConf \in Seq(BnAnswers) /\ <<w, good>> \in BnAnswers
      BY <1>0 DEF BnWireTypes, BnAnswers
    <2> HIDE DEF BnConfInv
    <2> QED BY <1>1, <2>1
  <1>5. \A i \in DOMAIN bnConf : bnConf[i][1] # w
    BY <1>0 DEF BnConfInv
  <1>6. ASSUME NEW i \in DOMAIN bnConf'
        PROVE  \/ i \in DOMAIN bnConf /\ bnConf'[i] = bnConf[i]
               \/ i = Len(bnConf) + 1 /\ bnConf'[i] = <<w, good>>
    BY <1>4
  <1>7. BnWireTypes'
    BY <1>0, <1>2, <1>3, <1>4 DEF BnWireTypes
  <1>8. ASSUME NEW q \in BnCalls PROVE BnSound(bnCall'[q], bnReq'[q])
    <2>1. BnSound(bnCall[q], bnReq[q]) /\ bnCall[q] \in BnCallType /\ q \in BnWho
      BY <1>0, BnNames DEF BnCallInv, BnWireTypes
    <2>2. CASE q = w
      <3>1. bnCall[q].caller = "open" /\ bnCall[q].task \in {"lookup", "request"}
        BY <1>0, <2>1, <2>2 DEF BnSound
      <3>2. bnCall'[q].caller = "open" /\ bnCall'[q].task = bnCall[q].task
        BY <1>3, <2>1, <2>2, <3>1 DEF BnCallType
      <3> QED BY <1>2, <2>2, <3>1, <3>2 DEF BnSound
    <2>3. CASE q # w
      BY <1>2, <1>3, <2>1, <2>3
    <2> QED BY <2>2, <2>3
  <1>9. BnConfInv'
    <2>1. ASSUME NEW i \in DOMAIN bnConf', bnConf'[i][1] # "orphan"
          PROVE bnReq'[bnConf'[i][1]] = "answered"
      <3>1. CASE i \in DOMAIN bnConf /\ bnConf'[i] = bnConf[i]
        <4>1. bnConf[i][1] \in BnWho BY <1>0, <2>1, <3>1, BnAnswerOf
        <4>2. bnReq[bnConf[i][1]] = "answered" BY <1>0, <2>1, <3>1 DEF BnConfInv
        <4> QED BY <1>2, <1>5, <3>1, <4>1, <4>2
      <3>2. CASE bnConf'[i] = <<w, good>>
        BY <1>2, <3>2
      <3> QED BY <1>6, <3>1, <3>2
    <2>2. ASSUME NEW i \in DOMAIN bnConf', NEW j \in DOMAIN bnConf',
                 bnConf'[i][1] = bnConf'[j][1], bnConf'[i][1] # "orphan"
          PROVE i = j
      <3>1. CASE i \in DOMAIN bnConf /\ bnConf'[i] = bnConf[i]
                 /\ j \in DOMAIN bnConf /\ bnConf'[j] = bnConf[j]
        BY <1>0, <2>2, <3>1 DEF BnConfInv
      <3>2. CASE i \in DOMAIN bnConf /\ bnConf'[i] = bnConf[i] /\ bnConf'[j] = <<w, good>>
        BY <1>5, <2>2, <3>2
      <3>3. CASE j \in DOMAIN bnConf /\ bnConf'[j] = bnConf[j] /\ bnConf'[i] = <<w, good>>
        BY <1>5, <2>2, <3>3
      <3> QED BY <1>6, <3>1, <3>2, <3>3
    <2>3. ASSUME NEW i \in DOMAIN bnConf', bnConf'[i][1] \in BnCalls, bnConf'[i][2] = TRUE
          PROVE BnWritten(bnCall'[bnConf'[i][1]])
      <3>1. CASE i \in DOMAIN bnConf /\ bnConf'[i] = bnConf[i]
        BY <1>0, <1>3, <1>5, <2>3, <3>1 DEF BnConfInv
      <3>2. CASE bnConf'[i] = <<w, good>>
        <4>1. w \in BnCalls /\ good BY <2>3, <3>2
        <4>2. bnCall[w] \in BnCallType BY <1>0, <4>1 DEF BnWireTypes
        <4>3. bnCall'[w].applied = a /\ bnCall'[w].task = bnCall[w].task
              /\ bnCall'[w].kind = bnCall[w].kind
          BY <1>3, <4>1, <4>2 DEF BnCallType
        <4>4. bnCall[w].task = "request" /\ bnCall[w].kind = "write" => a
          BY <1>1, <4>1
        <4>5. bnConf'[i][1] = w BY <3>2
        <4> HIDE DEF a
        <4> QED BY <4>3, <4>4, <4>5 DEF BnWritten
      <3> QED BY <1>6, <3>1, <3>2
    <2> QED BY <2>1, <2>2, <2>3 DEF BnConfInv
  <1>10. \A t \in BnScans : bnScan'[t].at = "idle" => bnReq'[t] = "none"
    BY <1>0, <1>2, BnNames DEF BnCallInv
  <1> QED BY <1>7, <1>8, <1>9, <1>10 DEF BnCallInv

(* So is the answer to a request that was given up.                            *)
LEMMA BnOrphanKeeps == BnCallInv /\ BnOrphanAnswered => BnCallInv'
  <1> SUFFICES ASSUME BnCallInv, BnOrphanAnswered PROVE BnCallInv'
    OBVIOUS
  <1>0. BnWireTypes /\ BnConfInv /\ UNCHANGED <<bnReq, bnCall, bnScan>>
    BY DEF BnCallInv, BnOrphanAnswered, BnWireOnly, bnField
  <1>1. PICK good \in BOOLEAN : bnConf' = Append(bnConf, <<"orphan", good>>)
    BY DEF BnOrphanAnswered
  <1>2. bnConf \in Seq(BnAnswers) /\ <<"orphan", good>> \in BnAnswers
    BY <1>0 DEF BnWireTypes, BnAnswers
  <1>3. bnConf' \in Seq(BnAnswers) BY <1>1, <1>2
  <1>4. ASSUME NEW i \in DOMAIN bnConf'
        PROVE (i \in DOMAIN bnConf /\ bnConf'[i] = bnConf[i]) \/ bnConf'[i][1] = "orphan"
    BY <1>1, <1>2
  <1>5. BnWireTypes' BY <1>0, <1>3 DEF BnWireTypes
  <1>6. BnConfInv' BY <1>0, <1>4, BnNames DEF BnConfInv
  <1> QED BY <1>0, <1>5, <1>6 DEF BnCallInv

(* confirmation_handler takes the first answer out.                            *)
LEMMA BnConfirmKeeps == BnCallInv /\ BnConfirm => BnCallInv'
  <1> SUFFICES ASSUME BnCallInv, BnConfirm PROVE BnCallInv'
    OBVIOUS
  <1>0. BnWireTypes /\ BnConfInv /\ UNCHANGED <<bnCall, bnScan>> /\ bnConf # <<>>
        /\ bnConf' = Tail(bnConf) /\ bnConf \in Seq(BnAnswers)
    BY DEF BnCallInv, BnConfirm, BnWireOnly, bnField, BnWireTypes
  <1>1. /\ Len(bnConf) \in Nat /\ DOMAIN bnConf = 1..Len(bnConf) /\ 1 \in DOMAIN bnConf
        /\ Head(bnConf) = bnConf[1] /\ bnConf' \in Seq(BnAnswers)
        /\ \A i \in DOMAIN bnConf' : i \in Nat /\ i + 1 \in DOMAIN bnConf /\ bnConf'[i] = bnConf[i + 1]
    <2> HIDE DEF BnConfInv, BnWireTypes
    <2> QED BY <1>0
  <1> DEFINE w == bnConf[1][1]
             s == IF bnConf[1][2] THEN "ok" ELSE "failed"
  <1>2. w \in BnWho \cup {"orphan"} /\ bnConf[1][2] \in BOOLEAN /\ s \in BnReqType
    BY <1>0, <1>1, BnAnswerOf DEF BnReqType
  <1>3. \/ w = "orphan" /\ UNCHANGED bnReq
        \/ w # "orphan" /\ bnReq' = [bnReq EXCEPT ![w] = s]
    BY <1>1 DEF BnConfirm
  <1>4. ASSUME NEW i \in DOMAIN bnConf', bnConf'[i][1] # "orphan" PROVE bnConf'[i][1] # w
    <2>1. i \in Nat /\ i + 1 \in DOMAIN bnConf /\ bnConf[i + 1][1] # "orphan" /\ i + 1 # 1
          /\ bnConf'[i] = bnConf[i + 1]
      BY <1>1, <1>4
    <2> QED BY <1>0, <1>1, <2>1 DEF BnConfInv
  <1>5. bnReq' \in [BnWho -> BnReqType] /\ \A v \in BnWho : v # w => bnReq'[v] = bnReq[v]
    BY <1>0, <1>2, <1>3 DEF BnWireTypes
  <1>6. BnWireTypes'
    BY <1>0, <1>1, <1>5 DEF BnWireTypes
  <1>7. BnConfInv'
    <2>1. ASSUME NEW i \in DOMAIN bnConf', bnConf'[i][1] # "orphan"
          PROVE bnReq'[bnConf'[i][1]] = "answered"
      <3>1. i + 1 \in DOMAIN bnConf /\ bnConf'[i] = bnConf[i + 1] BY <1>1
      <3>2. bnConf'[i][1] \in BnWho /\ bnReq[bnConf'[i][1]] = "answered"
        BY <1>0, <2>1, <3>1, BnAnswerOf DEF BnConfInv
      <3> QED BY <1>4, <1>5, <2>1, <3>2
    <2>2. ASSUME NEW i \in DOMAIN bnConf', NEW j \in DOMAIN bnConf',
                 bnConf'[i][1] = bnConf'[j][1], bnConf'[i][1] # "orphan"
          PROVE i = j
      <3>1. /\ i + 1 \in DOMAIN bnConf /\ bnConf'[i] = bnConf[i + 1] /\ i \in Nat
            /\ j + 1 \in DOMAIN bnConf /\ bnConf'[j] = bnConf[j + 1] /\ j \in Nat
        BY <1>1
      <3>2. i + 1 = j + 1 BY <1>0, <2>2, <3>1 DEF BnConfInv
      <3> QED BY <3>1, <3>2
    <2>3. ASSUME NEW i \in DOMAIN bnConf', bnConf'[i][1] \in BnCalls, bnConf'[i][2] = TRUE
          PROVE BnWritten(bnCall'[bnConf'[i][1]])
      <3>1. i + 1 \in DOMAIN bnConf /\ bnConf'[i] = bnConf[i + 1] BY <1>1
      <3> QED BY <1>0, <2>3, <3>1 DEF BnConfInv
    <2> QED BY <2>1, <2>2, <2>3 DEF BnConfInv
  <1>8. ASSUME NEW q \in BnCalls PROVE BnSound(bnCall'[q], bnReq'[q])
    <2>1. BnSound(bnCall[q], bnReq[q]) /\ q \in BnWho /\ q # "orphan"
      BY BnNames DEF BnCallInv
    <2>2. CASE q # w
      BY <1>0, <1>5, <2>1, <2>2
    <2>3. CASE q = w
      <3>1. bnReq[q] = "answered" BY <1>0, <1>1, <2>1, <2>3 DEF BnConfInv
      <3>2. bnReq'[q] = s BY <1>0, <1>3, <2>1, <2>3 DEF BnWireTypes
      <3>3. bnConf[1][2] = TRUE => BnWritten(bnCall[q])
        BY <1>0, <1>1, <2>3 DEF BnConfInv
      <3>4. s = "ok" => BnWritten(bnCall[q])
        BY <1>2, <3>3
      <3> QED BY <1>0, <2>1, <3>1, <3>2, <3>4 DEF BnSound
    <2> QED BY <2>2, <2>3
  <1>9. ASSUME NEW t \in BnScans, bnScan'[t].at = "idle" PROVE bnReq'[t] = "none"
    <2>1. bnReq[t] = "none" /\ t \in BnWho /\ t # "orphan" BY <1>0, <1>9, BnNames DEF BnCallInv
    <2>2. t # w BY <1>0, <1>1, <2>1 DEF BnConfInv
    <2> QED BY <1>5, <2>1, <2>2
  <1> QED BY <1>6, <1>7, <1>8, <1>9 DEF BnCallInv

(* A caller that gives up takes its request with it; its answer, if it waits,  *)
(* is nobody's.                                                                *)
LEMMA BnTimeoutKeeps ==
  ASSUME BnCallInv, NEW q \in BnCalls, BnTimeout(q)
  PROVE  BnCallInv'
  <1> DEFINE c == bnCall[q]
             d == [c EXCEPT !.caller = "error", !.task = "none"]
  <1>0. /\ BnWireTypes /\ BnConfInv /\ UNCHANGED bnScan /\ bnConf \in Seq(BnAnswers)
        /\ q \in BnWho /\ q # "orphan" /\ q \notin BnScans /\ c \in BnCallType
    BY BnNames DEF BnCallInv, BnTimeout, BnCallOnly, bnField, BnWireTypes
  <1>1. /\ bnCall' = [bnCall EXCEPT ![q].caller = "error", ![q].task = "none"]
        /\ bnReq' = [bnReq EXCEPT ![q] = "none"]
        /\ bnConf' = [i \in DOMAIN bnConf |->
                        IF bnConf[i][1] = q THEN <<"orphan", TRUE>> ELSE bnConf[i]]
    BY DEF BnTimeout, BnSendNone
  <1>2. /\ bnReq' \in [BnWho -> BnReqType] /\ bnReq'[q] = "none"
        /\ \A v \in BnWho : v # q => bnReq'[v] = bnReq[v]
    BY <1>0, <1>1 DEF BnWireTypes, BnReqType
  <1>3. /\ bnCall' \in [BnCalls -> BnCallType] /\ bnCall'[q] = d
        /\ \A v \in BnCalls : v # q => bnCall'[v] = bnCall[v]
    BY <1>0, <1>1 DEF BnWireTypes, BnCallType
  <1>4. /\ bnConf' \in Seq(BnAnswers) /\ DOMAIN bnConf' = DOMAIN bnConf
        /\ \A i \in DOMAIN bnConf : bnConf'[i] =
              IF bnConf[i][1] = q THEN <<"orphan", TRUE>> ELSE bnConf[i]
    <2>1. <<"orphan", TRUE>> \in BnAnswers BY DEF BnAnswers
    <2>2. \A i \in DOMAIN bnConf : bnConf[i] \in BnAnswers BY <1>0
    <2>3. /\ Len(bnConf) \in Nat /\ DOMAIN bnConf = 1..Len(bnConf)
      BY <1>0
    <2>4. bnConf' \in [1..Len(bnConf) -> BnAnswers]
      BY <1>1, <2>1, <2>2, <2>3
    <2>5. bnConf' \in Seq(BnAnswers)
      BY <2>3, <2>4
    <2> QED BY <1>1, <2>5
  <1>5. ASSUME NEW i \in DOMAIN bnConf', bnConf'[i][1] # "orphan"
        PROVE  i \in DOMAIN bnConf /\ bnConf'[i] = bnConf[i] /\ bnConf[i][1] # q
    <2>1. i \in DOMAIN bnConf BY <1>4
    <2>2. bnConf[i][1] # q
      <3>1. bnConf[i][1] = q => bnConf'[i] = <<"orphan", TRUE>> BY <1>4, <2>1
      <3>2. <<"orphan", TRUE>>[1] = "orphan" OBVIOUS
      <3> QED BY <1>5, <3>1, <3>2
    <2> QED BY <1>4, <2>1, <2>2
  <1>6. BnWireTypes'
    BY <1>0, <1>2, <1>3, <1>4 DEF BnWireTypes
  <1>7. BnConfInv'
    <2>1. ASSUME NEW i \in DOMAIN bnConf', bnConf'[i][1] # "orphan"
          PROVE bnReq'[bnConf'[i][1]] = "answered"
      <3>1. bnConf[i][1] \in BnWho BY <1>0, <1>5, <2>1, BnAnswerOf
      <3>2. bnReq[bnConf[i][1]] = "answered" BY <1>0, <1>5, <2>1 DEF BnConfInv
      <3> QED BY <1>2, <1>5, <2>1, <3>1, <3>2
    <2>2. ASSUME NEW i \in DOMAIN bnConf', NEW j \in DOMAIN bnConf',
                 bnConf'[i][1] = bnConf'[j][1], bnConf'[i][1] # "orphan"
          PROVE i = j
      BY <1>0, <1>5, <2>2 DEF BnConfInv
    <2>3. ASSUME NEW i \in DOMAIN bnConf', bnConf'[i][1] \in BnCalls, bnConf'[i][2] = TRUE
          PROVE BnWritten(bnCall'[bnConf'[i][1]])
      <3>1. bnConf'[i][1] # "orphan" BY <2>3, BnNames
      <3> QED BY <1>0, <1>3, <1>5, <2>3, <3>1 DEF BnConfInv
    <2> QED BY <2>1, <2>2, <2>3 DEF BnConfInv
  <1>8. ASSUME NEW p \in BnCalls PROVE BnSound(bnCall'[p], bnReq'[p])
    <2>1. BnSound(d, "none") BY <1>0 DEF BnSound, BnCallType
    <2>2. CASE p = q
      BY <1>2, <1>3, <2>1, <2>2
    <2>3. CASE p # q
      BY <1>2, <1>3, <2>3, BnNames DEF BnCallInv
    <2> QED BY <2>2, <2>3
  <1>9. \A t \in BnScans : bnScan'[t].at = "idle" => bnReq'[t] = "none"
    BY <1>0, <1>2, BnNames DEF BnCallInv
  <1> QED BY <1>6, <1>7, <1>8, <1>9 DEF BnCallInv

(* The end of the loop cancels every task and drops every request.             *)
LEMMA BnEndKeeps == BnCallInv /\ BnEnd => BnCallInv'
  <1> SUFFICES ASSUME BnCallInv, BnEnd PROVE BnCallInv'
    OBVIOUS
  <1>0. BnWireTypes BY DEF BnCallInv
  <1>1. /\ bnConf' = <<>> /\ bnScan' = [t \in BnScans |-> BnNoScan]
        /\ bnReq' = [w \in BnWho |-> "none"]
        /\ bnCall' = [q \in BnCalls |-> IF bnCall[q].task \in {"lookup", "request"}
                                        THEN [bnCall[q] EXCEPT !.task = "cancelled"] ELSE bnCall[q]]
    BY DEF BnEnd
  <1>2. ASSUME NEW q \in BnCalls PROVE bnCall'[q] \in BnCallType /\ BnSound(bnCall'[q], "none")
    <2>1. bnCall[q] \in BnCallType /\ BnSound(bnCall[q], bnReq[q])
      BY <1>0 DEF BnCallInv, BnWireTypes
    <2>2. CASE bnCall[q].task \in {"lookup", "request"}
      <3>1. bnCall'[q] = [bnCall[q] EXCEPT !.task = "cancelled"] BY <1>1, <2>2
      <3> QED BY <2>1, <3>1 DEF BnCallType, BnSound
    <2>3. CASE bnCall[q].task \notin {"lookup", "request"}
      <3>1. bnCall'[q] = bnCall[q] BY <1>1, <2>3
      <3> QED BY <2>1, <3>1 DEF BnSound
    <2> QED BY <2>2, <2>3
  <1>3. bnCall' \in [BnCalls -> BnCallType]
    BY <1>1, <1>2
  <1>4. BnWireTypes'
    <2>1. "at" \in DOMAIN BnNoScan BY DEF BnNoScan
    <2>2. bnConf' \in Seq(BnAnswers) BY <1>1
    <2>3. bnReq' \in [BnWho -> BnReqType] BY <1>1 DEF BnReqType
    <2>4. DOMAIN bnScan' = BnScans /\ \A t \in BnScans : bnScan'[t] = BnNoScan BY <1>1
    <2>5. \A t \in BnScans : "at" \in DOMAIN bnScan'[t] BY <2>1, <2>4
    <2> QED BY <1>3, <2>2, <2>3, <2>4, <2>5 DEF BnWireTypes
  <1>5. BnConfInv'
    BY <1>1 DEF BnConfInv
  <1>6. \A q \in BnCalls : BnSound(bnCall'[q], bnReq'[q])
    BY <1>1, <1>2, BnNames
  <1>7. \A t \in BnScans : bnScan'[t].at = "idle" => bnReq'[t] = "none"
    BY <1>1, BnNames
  <1> QED BY <1>4, <1>5, <1>6, <1>7 DEF BnCallInv

(* Every step of the connector.                                                *)
LEMMA BnCallStep == BnCallInv /\ [BacnetNext]_bnVars => BnCallInv'
  <1> SUFFICES ASSUME BnCallInv, [BacnetNext]_bnVars PROVE BnCallInv'
    OBVIOUS
  <1>1. ASSUME UNCHANGED <<bnReq, bnConf, bnCall, bnScan>> PROVE BnCallInv'
    BY <1>1 DEF BnCallInv, BnWireTypes, BnConfInv
  <1>2. CASE BnOpen \/ BnConvert \/ BnSave \/ BnStop
    BY <1>1, <1>2 DEF BnOpen, BnConvert, BnSave, BnStop, bnWire, bnField
  <1>3. ASSUME NEW d \in BnDevices, BnIAm(d) PROVE BnCallInv'
    BY <1>1, <1>3 DEF BnIAm, BnFieldOnly
  <1>4. ASSUME NEW u \in BnUnits, BnPollTimer(u) PROVE BnCallInv'
    BY <1>1, <1>4 DEF BnPollTimer, bnWire, bnField
  <1>5. CASE UNCHANGED bnVars
    BY <1>1, <1>5 DEF bnVars, bnWire, bnField
  <1>6. CASE \/ BnIndication \/ BnRegister \/ BnScanWhole \/ BnScanLength
             \/ (\E t \in BnScans : BnScanIndex(t) \/ BnScanNames(t))
             \/ \E t \in BnRescans : BnRescan(t)
    BY <1>6, BnDiscoveryKeeps
  <1> QED BY <1>2, <1>3, <1>4, <1>5, <1>6, BnPollKeeps, BnCallerKeeps, BnAnsweredKeeps,
             BnOrphanKeeps, BnConfirmKeeps, BnTimeoutKeeps, BnEndKeeps
      DEF BacnetNext, BnCaller

-----------------------------------------------------------------------------
(* The BACnet connector as the gateway sees it.                                *)
BnGateway == INSTANCE ConnectorContract
    WITH Readings <- BnReadings, Calls <- BnCalls, life <- bnLife, fate <- bnFate,
         call <- Asks(bnCall)

BnGatewaySafety == BnGateway!ContractInit /\ [][BnGateway!ContractNext]_(BnGateway!contractVars)

BnPipeTypes ==
    /\ bnFate \in [BnReadings -> FateType]
    /\ bnInbox \in Seq(BnReadings) /\ bnOutbox \in Seq(BnReadings)

(* A reading on its way is held, and at one place of one queue.                *)
BnPipeInv ==
    /\ BnPipeTypes
    /\ \A i \in DOMAIN bnInbox : bnFate[bnInbox[i]] = "held"
    /\ \A i \in DOMAIN bnOutbox : bnFate[bnOutbox[i]] = "held"
    /\ \A i, j \in DOMAIN bnInbox : bnInbox[i] = bnInbox[j] => i = j
    /\ \A i, j \in DOMAIN bnOutbox : bnOutbox[i] = bnOutbox[j] => i = j
    /\ \A i \in DOMAIN bnInbox, j \in DOMAIN bnOutbox : bnInbox[i] # bnOutbox[j]

(* Nothing was read yet.                                                       *)
LEMMA BnPipeInit == BacnetInit => BnPipeInv
  BY DEF BacnetInit, BnPipeInv, BnPipeTypes, FateType

(* A settled reading is what the contract says.                                *)
LEMMA BnSettles ==
  ASSUME BnPipeTypes, bnLife \in {"running", "stopping"}, UNCHANGED <<bnLife, bnCall>>,
         NEW r \in BnReadings, NEW f \in {"stored", "lost"},
         bnFate' = [bnFate EXCEPT ![r] = f], bnFate[r] = "held"
  PROVE  [BnGateway!ContractNext]_(BnGateway!contractVars)
  <1>1. bnFate' # bnFate /\ bnFate' \in [BnReadings -> FateType]
    BY DEF BnPipeTypes, FateType
  <1>2. BnGateway!Settle
    BY <1>1 DEF BnGateway!Settle, BnGateway!Alive, FateType, BnPipeTypes
  <1> QED BY <1>2 DEF BnGateway!ContractNext

(* What an answered poll brings is one reading that was not read before.       *)
LEMMA BnPollTakes ==
  ASSUME BnPipeInv, NEW p \in BnPolls, BnPollStep(p)
  PROVE  BnPipeInv' /\ [BnGateway!ContractNext]_(BnGateway!contractVars)
  <1>0. /\ BnPipeTypes /\ bnLife \in {"running", "stopping"}
        /\ UNCHANGED <<bnLife, bnCall, bnOutbox>>
        /\ bnInbox' = bnInbox \o BnResults(p)
        /\ bnFate' = [r \in BnReadings |-> IF r \in Range(BnResults(p)) THEN "held" ELSE bnFate[r]]
    BY DEF BnPipeInv, BnPollStep, BnLoopRuns
  <1>1. CASE BnResults(p) = <<>>
    <2>1. Range(<<>>) = {} BY DEF Range
    <2>2. bnInbox' = bnInbox /\ bnFate' = bnFate
      BY <1>0, <1>1, <2>1 DEF BnPipeTypes
    <2> QED BY <1>0, <2>2 DEF BnPipeInv, BnPipeTypes, BnGateway!contractVars
  <1>2. CASE BnResults(p) # <<>>
    <2>1. PICK r \in BnReadings : BnResults(p) = <<r>> /\ bnFate[r] = "unread"
      BY <1>2 DEF BnResults
    <2>2. Range(<<r>>) = {r} BY DEF Range
    <2>3. bnFate' = [bnFate EXCEPT ![r] = "held"]
      BY <1>0, <2>1, <2>2 DEF BnPipeTypes
    <2>4. bnInbox' = Append(bnInbox, r)
      BY <1>0, <2>1 DEF BnPipeTypes
    <2>5. /\ bnInbox' \in Seq(BnReadings) /\ Len(bnInbox) + 1 \notin DOMAIN bnInbox
          /\ \A i \in DOMAIN bnInbox' : \/ i \in DOMAIN bnInbox /\ bnInbox'[i] = bnInbox[i]
                                        \/ i = Len(bnInbox) + 1 /\ bnInbox'[i] = r
      <3>1. bnInbox \in Seq(BnReadings) BY <1>0 DEF BnPipeTypes
      <3> QED BY <2>4, <3>1, AppendParts
    <2>6. /\ bnFate' \in [BnReadings -> FateType] /\ bnFate'[r] = "held"
          /\ \A x \in BnReadings : bnFate[x] = "held" => bnFate'[x] = "held" /\ x # r
      BY <1>0, <2>1, <2>3 DEF BnPipeTypes, FateType
    <2>7. /\ \A i \in DOMAIN bnInbox : bnInbox[i] # r /\ bnFate'[bnInbox[i]] = "held"
          /\ \A i \in DOMAIN bnOutbox : bnOutbox[i] # r /\ bnFate'[bnOutbox[i]] = "held"
      <3>1. (\A i \in DOMAIN bnInbox : bnInbox[i] \in BnReadings)
            /\ \A i \in DOMAIN bnOutbox : bnOutbox[i] \in BnReadings
        BY <1>0 DEF BnPipeTypes
      <3> QED BY <2>6, <3>1 DEF BnPipeInv
    <2>8. BnPipeInv'
      <3>1. BnPipeTypes' BY <1>0, <2>5, <2>6 DEF BnPipeTypes
      <3>2. \A i \in DOMAIN bnInbox' : bnFate'[bnInbox'[i]] = "held" BY <2>5, <2>6, <2>7
      <3>3. \A i, j \in DOMAIN bnInbox' : bnInbox'[i] = bnInbox'[j] => i = j
        BY <2>5, <2>7 DEF BnPipeInv
      <3>4. \A i \in DOMAIN bnInbox', j \in DOMAIN bnOutbox : bnInbox'[i] # bnOutbox[j]
        BY <2>5, <2>7 DEF BnPipeInv
      <3> QED BY <1>0, <2>7, <3>1, <3>2, <3>3, <3>4 DEF BnPipeInv
    <2>9. BnGateway!Take(r)
      BY <1>0, <2>1, <2>3 DEF BnGateway!Take, BnGateway!Alive
    <2> QED BY <2>8, <2>9 DEF BnGateway!ContractNext
  <1> QED BY <1>1, <1>2

(* The saver takes the first reading out of its queue and settles it.          *)
LEMMA BnSaveStep ==
  ASSUME BnPipeInv, BnSave
  PROVE  BnPipeInv' /\ [BnGateway!ContractNext]_(BnGateway!contractVars)
  <1>0. /\ BnPipeTypes /\ bnLife = "running" /\ UNCHANGED <<bnLife, bnCall, bnInbox>>
        /\ bnOutbox # <<>> /\ bnOutbox' = Tail(bnOutbox)
        /\ bnFate' = [bnFate EXCEPT ![Head(bnOutbox)] = "stored"]
    BY DEF BnPipeInv, BnSave, BnRuns
  <1> DEFINE r == bnOutbox[1]
  <1>1. /\ bnOutbox' \in Seq(BnReadings) /\ 1 \in DOMAIN bnOutbox /\ Head(bnOutbox) = r
        /\ r \in BnReadings
        /\ \A i \in DOMAIN bnOutbox' : /\ i \in Nat /\ i + 1 \in DOMAIN bnOutbox /\ i + 1 # 1
                                       /\ bnOutbox'[i] = bnOutbox[i + 1]
    <2>1. bnOutbox \in Seq(BnReadings) BY <1>0 DEF BnPipeTypes
    <2> QED BY <1>0, <2>1, TailParts
  <1>2. bnFate[r] = "held" /\ \A i \in DOMAIN bnInbox : bnInbox[i] # r
    BY <1>1 DEF BnPipeInv
  <1>3. \A i \in DOMAIN bnOutbox' : bnOutbox'[i] # r
    BY <1>1 DEF BnPipeInv
  <1>4. bnFate' = [bnFate EXCEPT ![r] = "stored"]
    BY <1>0, <1>1
  <1> HIDE DEF r
  <1>5. bnFate' \in [BnReadings -> FateType] /\ \A x \in BnReadings : x # r => bnFate'[x] = bnFate[x]
    BY <1>0, <1>4 DEF BnPipeTypes, FateType
  <1>6. BnPipeTypes' BY <1>0, <1>1, <1>5 DEF BnPipeTypes
  <1>7. (\A i \in DOMAIN bnInbox : bnInbox[i] \in BnReadings)
        /\ \A i \in DOMAIN bnOutbox' : bnOutbox'[i] \in BnReadings
    BY <1>0, <1>6 DEF BnPipeTypes
  <1>8. /\ \A i \in DOMAIN bnInbox : bnFate'[bnInbox[i]] = "held"
        /\ \A i \in DOMAIN bnOutbox' : bnFate'[bnOutbox'[i]] = "held"
    BY <1>1, <1>2, <1>3, <1>5, <1>7 DEF BnPipeInv
  <1>9. \A i, j \in DOMAIN bnOutbox' : bnOutbox'[i] = bnOutbox'[j] => i = j
    <2> SUFFICES ASSUME NEW i \in DOMAIN bnOutbox', NEW j \in DOMAIN bnOutbox',
                        bnOutbox'[i] = bnOutbox'[j]
                 PROVE i = j
      OBVIOUS
    <2>1. i \in Nat /\ j \in Nat BY <1>1
    <2>2. i + 1 = j + 1 BY <1>1 DEF BnPipeInv
    <2> QED BY <2>1, <2>2
  <1>10. BnPipeInv'
    BY <1>0, <1>1, <1>6, <1>8, <1>9 DEF BnPipeInv
  <1> QED BY <1>0, <1>1, <1>2, <1>4, <1>10, BnSettles

(* The converter passes the first reading on, or loses it.                     *)
LEMMA BnConvertStep ==
  ASSUME BnPipeInv, BnConvert
  PROVE  BnPipeInv' /\ [BnGateway!ContractNext]_(BnGateway!contractVars)
  <1>0. /\ BnPipeTypes /\ bnLife = "running" /\ UNCHANGED <<bnLife, bnCall>>
        /\ bnInbox # <<>> /\ bnInbox' = Tail(bnInbox)
    BY DEF BnPipeInv, BnConvert, BnRuns
  <1> DEFINE r == bnInbox[1]
  <1>1. /\ bnInbox' \in Seq(BnReadings) /\ 1 \in DOMAIN bnInbox /\ Head(bnInbox) = r
        /\ r \in BnReadings
        /\ \A i \in DOMAIN bnInbox' : /\ i \in Nat /\ i + 1 \in DOMAIN bnInbox /\ i + 1 # 1
                                      /\ bnInbox'[i] = bnInbox[i + 1]
    <2>1. bnInbox \in Seq(BnReadings) BY <1>0 DEF BnPipeTypes
    <2> QED BY <1>0, <2>1, TailParts
  <1>2. /\ bnFate[r] = "held" /\ (\A i \in DOMAIN bnOutbox : bnOutbox[i] # r)
        /\ \A i \in DOMAIN bnInbox' : bnInbox'[i] # r
    BY <1>1 DEF BnPipeInv
  <1>3. \A i, j \in DOMAIN bnInbox' : bnInbox'[i] = bnInbox'[j] => i = j
    <2> SUFFICES ASSUME NEW i \in DOMAIN bnInbox', NEW j \in DOMAIN bnInbox',
                        bnInbox'[i] = bnInbox'[j]
                 PROVE i = j
      OBVIOUS
    <2>1. i \in Nat /\ j \in Nat BY <1>1
    <2>2. i + 1 = j + 1 BY <1>1 DEF BnPipeInv
    <2> QED BY <2>1, <2>2
  <1>4. \A i \in DOMAIN bnInbox', j \in DOMAIN bnOutbox : bnInbox'[i] # bnOutbox[j]
    BY <1>1 DEF BnPipeInv
  <1>5. PICK data \in BnConverted(Head(bnInbox)) :
          /\ bnOutbox' = bnOutbox \o data
          /\ bnFate' = [bnFate EXCEPT ![Head(bnInbox)] = IF data = <<>> THEN "lost" ELSE @]
    BY Zenon DEF BnConvert
  <1>6. \/ data = <<>> /\ bnOutbox' = bnOutbox /\ bnFate' = [bnFate EXCEPT ![r] = "lost"]
        \/ data # <<>> /\ bnOutbox' = Append(bnOutbox, r) /\ bnFate' = bnFate
    <2>1. data \in {<<>>, <<r>>} BY <1>1 DEF BnConverted
    <2>2. CASE data = <<>>
      BY <1>0, <1>1, <1>5, <2>2 DEF BnPipeTypes
    <2>3. CASE data = <<r>>
      <3>1. data # <<>> BY <2>3
      <3>2. bnFate' = bnFate BY <1>0, <1>1, <1>5, <3>1 DEF BnPipeTypes
      <3>3. bnOutbox' = Append(bnOutbox, r) BY <1>0, <1>1, <1>5, <2>3 DEF BnPipeTypes
      <3> QED BY <3>1, <3>2, <3>3
    <2> QED BY <2>1, <2>2, <2>3
  <1> HIDE DEF r
  <1>7. /\ \A i \in DOMAIN bnInbox' : bnInbox'[i] \in BnReadings /\ bnFate[bnInbox'[i]] = "held"
        /\ \A i \in DOMAIN bnOutbox : bnOutbox[i] \in BnReadings /\ bnFate[bnOutbox[i]] = "held"
    <2>1. (\A i \in DOMAIN bnInbox' : bnInbox'[i] \in BnReadings)
          /\ \A i \in DOMAIN bnOutbox : bnOutbox[i] \in BnReadings
      BY <1>0, <1>1 DEF BnPipeTypes
    <2> QED BY <1>1, <2>1 DEF BnPipeInv
  <1>8. CASE bnOutbox' = bnOutbox /\ bnFate' = [bnFate EXCEPT ![r] = "lost"]
    <2>1. bnFate' \in [BnReadings -> FateType] /\ \A x \in BnReadings : x # r => bnFate'[x] = bnFate[x]
      BY <1>0, <1>8 DEF BnPipeTypes, FateType
    <2>2. BnPipeTypes' BY <1>0, <1>1, <1>8, <2>1 DEF BnPipeTypes
    <2>3. /\ \A i \in DOMAIN bnInbox' : bnFate'[bnInbox'[i]] = "held"
          /\ \A i \in DOMAIN bnOutbox : bnFate'[bnOutbox[i]] = "held"
      BY <1>2, <1>7, <2>1
    <2>4. BnPipeInv'
      BY <1>3, <1>4, <1>8, <2>2, <2>3 DEF BnPipeInv
    <2> QED BY <1>0, <1>1, <1>2, <1>8, <2>4, BnSettles
  <1>9. CASE bnOutbox' = Append(bnOutbox, r) /\ bnFate' = bnFate
    <2>1. /\ bnOutbox' \in Seq(BnReadings) /\ Len(bnOutbox) + 1 \notin DOMAIN bnOutbox
          /\ \A i \in DOMAIN bnOutbox' : \/ i \in DOMAIN bnOutbox /\ bnOutbox'[i] = bnOutbox[i]
                                         \/ i = Len(bnOutbox) + 1 /\ bnOutbox'[i] = r
      <3>1. bnOutbox \in Seq(BnReadings) BY <1>0 DEF BnPipeTypes
      <3> QED BY <1>1, <1>9, <3>1, AppendParts
    <2>2. BnPipeTypes' BY <1>0, <1>1, <1>9, <2>1 DEF BnPipeTypes
    <2>3. \A i \in DOMAIN bnOutbox' : bnFate'[bnOutbox'[i]] = "held"
      BY <1>2, <1>7, <1>9, <2>1
    <2>4. \A i, j \in DOMAIN bnOutbox' : bnOutbox'[i] = bnOutbox'[j] => i = j
      BY <1>2, <2>1 DEF BnPipeInv
    <2>5. \A i \in DOMAIN bnInbox', j \in DOMAIN bnOutbox' : bnInbox'[i] # bnOutbox'[j]
      BY <1>2, <1>4, <2>1
    <2>6. BnPipeInv'
      BY <1>3, <1>7, <1>9, <2>2, <2>3, <2>4, <2>5 DEF BnPipeInv
    <2> QED BY <1>0, <1>9, <2>6 DEF BnGateway!contractVars
  <1> QED BY <1>6, <1>8, <1>9

(* A step of a call is seen only when the call is made and when it returns.    *)
LEMMA BnCallSteps ==
  ASSUME BnCallInv, NEW q \in BnCalls, BnAsk(q) \/ BnCaller(q) \/ BnLookedUp(q)
  PROVE  /\ UNCHANGED <<bnLife, bnPipeline>>
         /\ \A p \in BnCalls : p # q => bnCall'[p].caller = bnCall[p].caller
         /\ DOMAIN bnCall = BnCalls /\ DOMAIN bnCall' = BnCalls
         /\ \/ bnCall'[q].caller = bnCall[q].caller
            \/ bnLife # "new" /\ bnCall[q].caller = "none" /\ bnCall'[q].caller = "open"
            \/ bnCall[q].caller = "open" /\ bnCall'[q].caller \in {"ok", "error"}
  <1>0. bnCall \in [BnCalls -> BnCallType] /\ bnCall[q] \in BnCallType
    BY DEF BnCallInv, BnWireTypes
  <1>1. UNCHANGED <<bnLife, bnPipeline>>
    <2>1. BnCallOnly
      BY Zenon
      DEF BnAsk, BnCaller, BnRequest, BnBadRequest, BnNoDevice, BnDeviceRequest,
          BnReservedRequest, BnAttributeUpdate, BnReply, BnCancelled, BnTimeout, BnLookedUp
    <2> QED BY <2>1 DEF BnCallOnly
  <1> DEFINE Goal == /\ \A p \in BnCalls : p # q => bnCall'[p].caller = bnCall[p].caller
                     /\ DOMAIN bnCall' = BnCalls
                     /\ \/ bnCall'[q].caller = bnCall[q].caller
                        \/ bnLife # "new" /\ bnCall[q].caller = "none" /\ bnCall'[q].caller = "open"
                        \/ bnCall[q].caller = "open" /\ bnCall'[q].caller \in {"ok", "error"}
  <1> SUFFICES Goal
    BY <1>0, <1>1
  <1>2. CASE BnAsk(q)
    <2>1. PICK k \in BnKinds :
            bnCall' = [bnCall EXCEPT ![q].caller = "open", ![q].kind = k]
      BY <1>2, Zenon DEF BnAsk
    <2>2. bnLife # "new" /\ bnCall[q].caller = "none"
      BY <1>2 DEF BnAsk
    <2> QED BY <1>0, <2>1, <2>2 DEF BnCallType
  <1>3. CASE BnRequest(q)
    <2>1. bnCall[q].caller = "open"
      BY <1>3 DEF BnRequest, BnBadRequest, BnNoDevice, BnDeviceRequest, BnReservedRequest,
                  BnAttributeUpdate, BnUnasked
    <2>2. CASE BnNewTask(q)
      <3>1. PICK t : bnCall' = [bnCall EXCEPT ![q].task = t]
        BY <2>2, Zenon DEF BnNewTask
      <3> QED BY <1>0, <3>1 DEF BnCallType
    <2>3. CASE bnCall' = [bnCall EXCEPT ![q].caller = "error"]
      BY <1>0, <2>1, <2>3 DEF BnCallType
    <2>4. CASE bnCall' = [bnCall EXCEPT ![q].caller = "ok"]
      BY <1>0, <2>1, <2>4 DEF BnCallType
    <2> QED BY <1>3, <2>2, <2>3, <2>4
        DEF BnRequest, BnBadRequest, BnNoDevice, BnDeviceRequest, BnReservedRequest,
            BnAttributeUpdate
  <1>4. CASE BnReply(q)
    <2>1. /\ bnCall[q].caller = "open"
          /\ \/ bnCall' = [bnCall EXCEPT ![q].caller = "ok", ![q].task = "none"]
             \/ bnCall' = [bnCall EXCEPT ![q].caller = "error", ![q].task = "none"]
      BY <1>4 DEF BnReply
    <2> QED BY <1>0, <2>1 DEF BnCallType
  <1>5. CASE BnCancelled(q)
    BY <1>0, <1>5 DEF BnCancelled, BnCallType
  <1>6. CASE BnTimeout(q)
    <2>1. /\ bnCall[q].caller = "open"
          /\ bnCall' = [bnCall EXCEPT ![q].caller = "error", ![q].task = "none"]
      BY <1>6 DEF BnTimeout
    <2> QED BY <1>0, <2>1 DEF BnCallType
  <1>7. CASE BnLookedUp(q)
    <2>1. bnCall' = [bnCall EXCEPT ![q].task = "request"]
      BY <1>7 DEF BnLookedUp
    <2> QED BY <1>0, <2>1 DEF BnCallType
  <1> QED BY <1>2, <1>3, <1>4, <1>5, <1>6, <1>7 DEF BnCaller

(* What the wire and the end of the loop do to a call its caller does not see. *)
LEMMA BnUnseen ==
  ASSUME BnCallInv, BnEnd \/ \E w \in BnWho : BnAnswered(w)
  PROVE  Asks(bnCall') = Asks(bnCall)
  <1>0. bnCall \in [BnCalls -> BnCallType] BY DEF BnCallInv, BnWireTypes
  <1>1. DOMAIN bnCall' = DOMAIN bnCall /\ \A p \in DOMAIN bnCall : bnCall'[p].caller = bnCall[p].caller
    <2>1. CASE BnEnd
      <3>1. bnCall' = [q \in BnCalls |-> IF bnCall[q].task \in {"lookup", "request"}
                                         THEN [bnCall[q] EXCEPT !.task = "cancelled"] ELSE bnCall[q]]
        BY <2>1 DEF BnEnd
      <3> QED BY <1>0, <3>1 DEF BnCallType
    <2>2. ASSUME NEW w \in BnWho, BnAnswered(w)
          PROVE  /\ DOMAIN bnCall' = DOMAIN bnCall
                 /\ \A p \in DOMAIN bnCall : bnCall'[p].caller = bnCall[p].caller
      <3>1. CASE w \in BnCalls
        <4>1. PICK good, reached \in BOOLEAN :
                bnCall' = [bnCall EXCEPT ![w].applied = /\ reached /\ bnCall[w].task = "request"
                                                        /\ bnCall[w].kind # "read"]
          BY <2>2, <3>1 DEF BnAnswered
        <4> DEFINE a == reached /\ bnCall[w].task = "request" /\ bnCall[w].kind # "read"
        <4>2. bnCall' = [bnCall EXCEPT ![w].applied = a]
          BY <4>1
        <4> HIDE DEF a
        <4> QED BY <1>0, <4>2 DEF BnCallType
      <3>2. CASE w \notin BnCalls
        <4>1. bnCall' = bnCall BY <2>2, <3>2 DEF BnAnswered
        <4> QED BY <4>1
      <3> QED BY <3>1, <3>2
    <2> QED BY <2>1, <2>2
  <1> QED BY <1>1, AsksStay

(* Every step keeps the pipeline's invariant and is a step of the contract.    *)
LEMMA BnStep ==
  ASSUME BnCallInv, BnPipeInv, [BacnetNext]_bnVars
  PROVE  BnPipeInv' /\ [BnGateway!ContractNext]_(BnGateway!contractVars)
  <1> DEFINE Goal == BnPipeInv' /\ [BnGateway!ContractNext]_(BnGateway!contractVars)
  <1> SUFFICES Goal
    OBVIOUS
  <1>1. ASSUME UNCHANGED bnPipeline PROVE BnPipeInv'
    BY <1>1 DEF bnPipeline, BnPipeInv, BnPipeTypes
  <1>2. ASSUME UNCHANGED <<bnLife, bnPipeline, bnCall>> PROVE Goal
    BY <1>1, <1>2 DEF bnPipeline, BnGateway!contractVars
  <1>3. CASE UNCHANGED bnVars
    BY <1>2, <1>3 DEF bnVars
  <1>4. CASE BnOpen
    BY <1>1, <1>4 DEF BnOpen, BnGateway!Open, BnGateway!ContractNext, bnPipeline
  <1>5. CASE BnStop
    BY <1>1, <1>5 DEF BnStop, BnGateway!Close, BnGateway!ContractNext, bnPipeline
  <1>6. CASE BnEnd
    <2>1. BnPipeInv' BY <1>6 DEF BnEnd, BnPipeInv, BnPipeTypes
    <2>2. Asks(bnCall') = Asks(bnCall) BY <1>6, BnUnseen
    <2>3. BnGateway!ThreadsEnd BY <1>6, <2>2 DEF BnEnd, BnGateway!ThreadsEnd, Asks
    <2> QED BY <2>1, <2>3 DEF BnGateway!ContractNext
  <1>7. CASE BnOrphanAnswered \/ BnConfirm
    <2>1. UNCHANGED <<bnLife, bnPipeline, bnCall>>
      BY <1>7 DEF BnOrphanAnswered, BnConfirm, BnWireOnly
    <2> QED BY <1>2, <2>1
  <1>8. ASSUME NEW w \in BnWho, BnAnswered(w) PROVE Goal
    <2>1. Asks(bnCall') = Asks(bnCall) BY <1>8, BnUnseen
    <2>2. UNCHANGED <<bnLife, bnPipeline>> BY <1>8 DEF BnAnswered, BnWireOnly
    <2> QED BY <1>1, <2>1, <2>2 DEF bnPipeline, BnGateway!contractVars, Asks
  <1>9. CASE BnIndication \/ BnRegister \/ BnScanWhole \/ BnScanLength
    <2>1. BnFieldOnly BY <1>9, Zenon DEF BnIndication, BnRegister, BnScanWhole, BnScanLength
    <2> QED BY <1>2, <2>1 DEF BnFieldOnly
  <1>10. ASSUME NEW d \in BnDevices, BnIAm(d) PROVE Goal
    BY <1>2, <1>10 DEF BnIAm, BnFieldOnly
  <1>11. ASSUME NEW t, BnScanIndex(t) \/ BnScanNames(t) \/ BnRescan(t) PROVE Goal
    <2>1. BnFieldOnly BY <1>11, Zenon DEF BnScanIndex, BnScanNames, BnRescan
    <2> QED BY <1>2, <2>1 DEF BnFieldOnly
  <1>12. ASSUME NEW u \in BnUnits, BnPollTimer(u) PROVE Goal
    BY <1>2, <1>12 DEF BnPollTimer
  <1>13. ASSUME NEW p \in BnPolls, BnTakePoll(p) PROVE Goal
    BY <1>2, <1>13 DEF BnTakePoll
  <1>14. ASSUME NEW q \in BnCalls, BnAsk(q) \/ BnCaller(q) \/ BnLookedUp(q) PROVE Goal
    <2>0. /\ UNCHANGED <<bnLife, bnPipeline>>
          /\ \A p \in BnCalls : p # q => bnCall'[p].caller = bnCall[p].caller
          /\ DOMAIN bnCall = BnCalls /\ DOMAIN bnCall' = BnCalls
          /\ \/ bnCall'[q].caller = bnCall[q].caller
             \/ bnLife # "new" /\ bnCall[q].caller = "none" /\ bnCall'[q].caller = "open"
             \/ bnCall[q].caller = "open" /\ bnCall'[q].caller \in {"ok", "error"}
      BY <1>14, BnCallSteps
    <2>1. CASE bnCall'[q].caller = bnCall[q].caller
      <3>1. Asks(bnCall') = Asks(bnCall) BY <2>0, <2>1, AsksStay
      <3> QED BY <1>1, <2>0, <3>1 DEF bnPipeline, BnGateway!contractVars, Asks
    <2>2. CASE bnLife # "new" /\ bnCall[q].caller = "none" /\ bnCall'[q].caller = "open"
      <3>1. Asks(bnCall)[q] = "none" /\ Asks(bnCall') = [Asks(bnCall) EXCEPT ![q] = "open"]
        BY <2>0, <2>2, AsksOpen
      <3>2. BnGateway!Ask(q) BY <2>0, <2>2, <3>1 DEF bnPipeline, BnGateway!Ask, Asks
      <3> QED BY <1>1, <2>0, <3>2 DEF BnGateway!ContractNext
    <2>3. CASE bnCall[q].caller = "open" /\ bnCall'[q].caller \in {"ok", "error"}
      <3>1. Asks(bnCall)[q] = "open" /\ Asks(bnCall') = [Asks(bnCall) EXCEPT ![q] = "answered"]
        BY <2>0, <2>3, AsksEnd
      <3>2. BnGateway!Answer(q) BY <2>0, <3>1 DEF bnPipeline, BnGateway!Answer, Asks
      <3> QED BY <1>1, <2>0, <3>2 DEF BnGateway!ContractNext
    <2> QED BY <2>0, <2>1, <2>2, <2>3
  <1>15. CASE BnConvert BY <1>15, BnConvertStep
  <1>16. CASE BnSave BY <1>16, BnSaveStep
  <1>17. ASSUME NEW p \in BnPolls, BnPollStep(p) PROVE Goal
    BY <1>17, BnPollTakes
  <1> HIDE DEF Goal
  <1> QED BY <1>3, <1>4, <1>5, <1>6, <1>7, <1>8, <1>9, <1>10, <1>11, <1>12, <1>13, <1>14,
             <1>15, <1>16, <1>17
      DEF BacnetNext

(* To the gateway the BACnet connector is a connector: opened and closed once, *)
(* each reading stored at most once and none after its loop has ended, each    *)
(* call made and answered once (bacnet_connector.py).                          *)
THEOREM BacnetRefinesContract == BacnetInit /\ [][BacnetNext]_bnVars => BnGatewaySafety
  <1>1. BacnetInit => BnGateway!ContractInit
    BY DEF BacnetInit, BnNoCall, Asks, Asked, BnGateway!ContractInit
  <1>2. BnCallInv /\ BnPipeInv /\ [BacnetNext]_bnVars
          => BnPipeInv' /\ [BnGateway!ContractNext]_(BnGateway!contractVars)
    BY BnStep
  <1> QED BY <1>1, <1>2, BnCallInit, BnCallStep, BnPipeInit, PTL DEF BnGatewaySafety

-----------------------------------------------------------------------------
(* That a write which is answered as accepted has reached the device.          *)

(* However reading and writing threads, timeouts, late answers, reconnections  *)
(* and a close interleave, in the three connectors that write to a device, on  *)
(* their own or side by side (server_side_rpc_handler of modbus_connector.py,  *)
(* opcua_connector.py and bacnet_connector.py).                                *)
THEOREM AcceptedWrites ==
  /\ ModbusInit /\ [][ModbusNext]_mbVars
  /\ OpcuaInit /\ [][OpcuaNext]_uaVars
  /\ BacnetInit /\ [][BacnetNext]_bnVars
  => []AcceptedMeansWritten
  <1>1. MbCallInv => \A q \in MbCalls : mbCall[q].kind = "write" /\ mbCall[q].caller = "ok"
                                          => mbCall[q].applied \/ mbCall[q].why # "none"
    BY DEF MbCallInv, MbSound
  <1>2. UaCallInv => \A q \in UaCalls : uaCall[q].kind = "write" /\ uaCall[q].caller = "ok"
                                          => uaCall[q].applied
    BY DEF UaCallInv, UaSound
  <1>3. BnCallInv => \A q \in BnCalls : bnCall[q].kind = "write" /\ bnCall[q].caller = "ok"
                                          => bnCall[q].applied
    BY DEF BnCallInv, BnSound
  <1>4. MbCallInv /\ UaCallInv /\ BnCallInv => AcceptedMeansWritten
    BY <1>1, <1>2, <1>3 DEF AcceptedMeansWritten
  <1> QED BY <1>4, MbCallInit, MbCallStep, UaCallInit, UaCallStep, BnCallInit, BnCallStep, PTL

(* The same of the connectors as the runs follow them.                         *)
THEOREM ConnectorsAcceptedWrites == ConnectorsSpec => []AcceptedMeansWritten
  <1>1. ConnectorsInit => ModbusInit /\ OpcuaInit /\ BacnetInit
    BY DEF ConnectorsInit
  <1>2. [ConnectorsNext]_connectorVars
          => [ModbusNext]_mbVars /\ [OpcuaNext]_uaVars /\ [BacnetNext]_bnVars
    BY DEF ConnectorsNext, connectorVars
  <1> QED BY <1>1, <1>2, AcceptedWrites, PTL DEF ConnectorsSpec

-----------------------------------------------------------------------------
(* The connector that the gateway runs, whichever it is, meets the contract.   *)

(* A step of the contract over given readings and calls, from its values       *)
(* before the step to those after it.                                          *)
IsContractStep(R, C, l, l2, f, f2, c, c2) ==
    \/ l = "new" /\ l2 = "running" /\ f2 = f /\ c2 = c
    \/ l = "running" /\ l2 = "stopping" /\ f2 = f /\ c2 = c
    \/ l = "stopping" /\ l2 = "closed" /\ f2 = f /\ c2 = c
    \/ /\ l \in {"running", "stopping"} /\ f2 # f
       /\ \A r \in R : f2[r] = f[r] \/ (f[r] = "held" /\ f2[r] \in {"stored", "lost"})
       /\ f2 \in [R -> FateType] /\ l2 = l /\ c2 = c
    \/ \E r \in R : /\ l \in {"running", "stopping"} /\ f[r] = "unread"
                    /\ f2 = [f EXCEPT ![r] = "held"] /\ l2 = l /\ c2 = c
    \/ \E q \in C : /\ l # "new" /\ c[q] = "none" /\ c2 = [c EXCEPT ![q] = "open"]
                    /\ l2 = l /\ f2 = f
    \/ \E q \in C : /\ c[q] = "open" /\ c2 = [c EXCEPT ![q] = "answered"]
                    /\ l2 = l /\ f2 = f
    \/ l2 = l /\ f2 = f /\ c2 = c

(* A function continued to a larger set with one value.                        *)
Extend(f, S, v) == [x \in S |-> IF x \in DOMAIN f THEN f[x] ELSE v]

(* What is never read or asked disturbs no step.                               *)
LEMMA StepExtends ==
  ASSUME NEW R, NEW AR, NEW C, NEW AC, R \subseteq AR, C \subseteq AC,
         NEW l, NEW l2, NEW f \in [R -> FateType], NEW f2, NEW c, NEW c2, DOMAIN c = C,
         c = [q \in C |-> c[q]],
         IsContractStep(R, C, l, l2, f, f2, c, c2)
  PROVE  IsContractStep(AR, AC, l, l2, Extend(f, AR, "unread"), Extend(f2, AR, "unread"),
                        Extend(c, AC, "none"), Extend(c2, AC, "none"))
  <1> DEFINE F == Extend(f, AR, "unread")
             F2 == Extend(f2, AR, "unread")
             D == Extend(c, AC, "none")
             D2 == Extend(c2, AC, "none")
  <1>1. ASSUME l \in {"running", "stopping"}, f2 # f, l2 = l, c2 = c, f2 \in [R -> FateType],
               \A r \in R : f2[r] = f[r] \/ (f[r] = "held" /\ f2[r] \in {"stored", "lost"})
        PROVE  IsContractStep(AR, AC, l, l2, F, F2, D, D2)
    <2>1. \A r \in AR : F2[r] = F[r] \/ (F[r] = "held" /\ F2[r] \in {"stored", "lost"})
      BY <1>1 DEF Extend
    <2>2. F2 \in [AR -> FateType]
      BY <1>1 DEF Extend, FateType
    <2>3. F2 # F
      <3>1. PICK r \in R : f2[r] # f[r]
        BY <1>1
      <3>2. F2[r] # F[r]
        BY <1>1, <3>1 DEF Extend
      <3> QED BY <3>2
    <2>4. D2 = D
      BY <1>1
    <2> QED BY <1>1, <2>1, <2>2, <2>3, <2>4 DEF IsContractStep
  <1>2. ASSUME NEW r \in R, l \in {"running", "stopping"}, f[r] = "unread",
               f2 = [f EXCEPT ![r] = "held"], l2 = l, c2 = c
        PROVE  IsContractStep(AR, AC, l, l2, F, F2, D, D2)
    <2>1. r \in AR /\ F[r] = "unread" /\ F2 = [F EXCEPT ![r] = "held"] /\ D2 = D
      BY <1>2 DEF Extend
    <2> QED BY <1>2, <2>1 DEF IsContractStep
  <1>3. ASSUME NEW q \in C, l # "new", c[q] = "none", c2 = [c EXCEPT ![q] = "open"],
               l2 = l, f2 = f
        PROVE  IsContractStep(AR, AC, l, l2, F, F2, D, D2)
    <2>1. q \in AC /\ D[q] = "none" /\ D2 = [D EXCEPT ![q] = "open"] /\ F2 = F
      BY <1>3 DEF Extend
    <2> QED BY <1>3, <2>1 DEF IsContractStep
  <1>4. ASSUME NEW q \in C, c[q] = "open", c2 = [c EXCEPT ![q] = "answered"],
               l2 = l, f2 = f
        PROVE  IsContractStep(AR, AC, l, l2, F, F2, D, D2)
    <2>1. q \in AC /\ D[q] = "open" /\ D2 = [D EXCEPT ![q] = "answered"] /\ F2 = F
      BY <1>4 DEF Extend
    <2> QED BY <1>4, <2>1 DEF IsContractStep
  <1>5. ASSUME f2 = f, c2 = c
        PROVE  F2 = F /\ D2 = D
    BY <1>5
  <1>6. CASE \/ l = "new" /\ l2 = "running" /\ f2 = f /\ c2 = c
             \/ l = "running" /\ l2 = "stopping" /\ f2 = f /\ c2 = c
             \/ l = "stopping" /\ l2 = "closed" /\ f2 = f /\ c2 = c
             \/ l2 = l /\ f2 = f /\ c2 = c
    BY <1>5, <1>6 DEF IsContractStep
  <1> QED BY <1>1, <1>2, <1>3, <1>4, <1>6 DEF IsContractStep

(* The safety half of the contract, for the connector that is followed.        *)
ContractSafety == Contract!ContractInit /\ [][Contract!ContractNext]_(Contract!contractVars)

AllFates == Extend(Fates, AllReadings, "unread")
AllCalling == Extend(Calling, AllCalls, "none")

(* In the words of the contract.                                               *)
LEMMA StepsOfTheContract ==
  ASSUME IsContractStep(AllReadings, AllCalls, Life, Life', AllFates, AllFates',
                        AllCalling, AllCalling')
  PROVE  [Contract!ContractNext]_(Contract!contractVars)
  <1> QED BY DEF IsContractStep, AllFates, AllCalling, Extend, FateType,
             Contract!ContractNext, Contract!contractVars, Contract!Open, Contract!Close,
             Contract!ThreadsEnd, Contract!Settle, Contract!Alive, Contract!Take,
             Contract!Ask, Contract!Answer

(* A Modbus step, over the connector's own readings and calls.                 *)
LEMMA ModbusSteps ==
  ASSUME MbCallInv, MbPipeInv, [ModbusNext]_mbVars
  PROVE  /\ MbPipeInv'
         /\ IsContractStep(MbReadings, MbCalls, mbLife, mbLife', mbFate, mbFate',
                           Asks(mbCall), Asks(mbCall)')
  BY MbStep DEF IsContractStep, FateType,
     MbGateway!ContractNext, MbGateway!contractVars, MbGateway!Open, MbGateway!Close,
     MbGateway!ThreadsEnd, MbGateway!Settle, MbGateway!Alive, MbGateway!Take,
     MbGateway!Ask, MbGateway!Answer

(* An OPC-UA step.                                                             *)
LEMMA OpcuaSteps ==
  ASSUME UaCallInv, UaPipeInv, [OpcuaNext]_uaVars
  PROVE  /\ UaPipeInv'
         /\ IsContractStep(UaReadings, UaCalls, uaLife, uaLife', uaFate, uaFate',
                           Asks(uaCall), Asks(uaCall)')
  BY UaStep DEF IsContractStep, FateType,
     UaGateway!ContractNext, UaGateway!contractVars, UaGateway!Open, UaGateway!Close,
     UaGateway!ThreadsEnd, UaGateway!Settle, UaGateway!Alive, UaGateway!Take,
     UaGateway!Ask, UaGateway!Answer

(* A BACnet step.                                                              *)
LEMMA BacnetSteps ==
  ASSUME BnCallInv, BnPipeInv, [BacnetNext]_bnVars
  PROVE  /\ BnPipeInv'
         /\ IsContractStep(BnReadings, BnCalls, bnLife, bnLife', bnFate, bnFate',
                           Asks(bnCall), Asks(bnCall)')
  BY BnStep DEF IsContractStep, FateType,
     BnGateway!ContractNext, BnGateway!contractVars, BnGateway!Open, BnGateway!Close,
     BnGateway!ThreadsEnd, BnGateway!Settle, BnGateway!Alive, BnGateway!Take,
     BnGateway!Ask, BnGateway!Answer

(* A step of the request connector.                                            *)
LEMMA RequestSteps ==
  ASSUME RqInv, [RequestNext]_rqVars
  PROVE  /\ RqInv'
         /\ IsContractStep(RqReadings, RqCalls, rqLife, rqLife', rqFate, rqFate',
                           Asks(rqCall), Asks(rqCall)')
  BY RqStep DEF IsContractStep, FateType,
     RqGateway!ContractNext, RqGateway!contractVars, RqGateway!Open, RqGateway!Close,
     RqGateway!ThreadsEnd, RqGateway!Settle, RqGateway!Alive, RqGateway!Take,
     RqGateway!Ask, RqGateway!Answer

(* A step of the MQTT connector, whose calls are left out.                     *)
LEMMA MqttSteps ==
  ASSUME MqInv, [MqttNext]_mqVars
  PROVE  /\ MqInv'
         /\ IsContractStep(MqReadings, {}, mqLife, mqLife', mqFate, mqFate', <<>>, <<>>)
  BY MqStep DEF IsContractStep, FateType,
     MqGateway!ContractNext, MqGateway!contractVars, MqGateway!Open, MqGateway!Close,
     MqGateway!ThreadsEnd, MqGateway!Settle, MqGateway!Alive, MqGateway!Take,
     MqGateway!Ask, MqGateway!Answer

(* A step of the REST connector.                                               *)
LEMMA RestSteps ==
  ASSUME RsInv, [RestNext]_rsVars
  PROVE  /\ RsInv'
         /\ IsContractStep(RsReadings, RsCalls, rsLife, rsLife', rsFate, rsFate',
                           Asks(rsCall), Asks(rsCall)')
  <1>1. RsInv'
    BY RsInvStep
  <1>2. RsAsked = Asks(rsCall) /\ RsAsked' = Asks(rsCall)'
    BY <1>1 DEF RsInv, RsTypes, RsAsked, Asks, Asked
  <1>3. [RsGateway!ContractNext]_(RsGateway!contractVars)
    <2>1. CASE UNCHANGED rsVars
      BY <2>1 DEF rsVars, RsAsked, RsGateway!contractVars
    <2>2. CASE RestNext
      BY <2>2, RsLifeRefines, RsHandlerRefines, RsCallRefines DEF RestNext
    <2> QED BY <2>1, <2>2
  <1> QED BY <1>1, <1>2, <1>3 DEF IsContractStep, FateType,
     RsGateway!ContractNext, RsGateway!contractVars, RsGateway!Open, RsGateway!Close,
     RsGateway!ThreadsEnd, RsGateway!Settle, RsGateway!Alive, RsGateway!Take,
     RsGateway!Ask, RsGateway!Answer

-----------------------------------------------------------------------------
(* The types of the Modbus connector, and the places of a wide range.          *)

(* What ModbusTypeOK says beyond the calls and the pipeline.                   *)
MbLoopTypes ==
    /\ mbLife \in {"new", "running", "stopping", "closed"}
    /\ mbShut \subseteq MbSlaves /\ mbDevices \subseteq MbSlaves
    /\ mbQueue \in Seq(MbSlaves) /\ Len(mbQueue) <= MbQueueBound
    /\ mbActive \subseteq MbMasters
    /\ mbPoll \in [MbSlaves -> {"idle", "connect", "connecting", "read", "pause"}]
    /\ mbUp \in [MbMasters -> BOOLEAN]
    /\ mbTries \in [MbSlaves -> 0..ConnectAttempts]

(* Nothing runs yet.                                                           *)
LEMMA MbLoopInit == ModbusInit => MbLoopTypes
  BY ModbusAssumption DEF ModbusInit, MbLoopTypes

(* An attempt is counted only below its bound, whoever makes it.               *)
LEMMA MbTriesBounded ==
  ASSUME MbLoopTypes, NEW s, NEW outcome, MbConnectStart(s, outcome)
  PROVE  mbTries' \in [MbSlaves -> 0..ConnectAttempts]
  <1>0. mbTries \in [MbSlaves -> 0..ConnectAttempts] /\ 0 \in 0..ConnectAttempts
    BY ModbusAssumption DEF MbLoopTypes
  <1>1. PICK n : mbTries' = [mbTries EXCEPT ![s] = n] /\ (s \in MbSlaves => n \in 0..ConnectAttempts)
    <2>1. CASE mbTries' = [mbTries EXCEPT ![s] = 0]
      BY <1>0, <2>1
    <2>2. CASE \E cooled, due \in BOOLEAN :
            LET tries == IF mbTries[s] >= ConnectAttempts /\ cooled THEN 0 ELSE mbTries[s]
                attempt == due /\ tries < ConnectAttempts /\ s \notin mbShut
            IN mbTries' = [mbTries EXCEPT ![s] = IF attempt THEN tries + 1 ELSE tries]
      <3>1. PICK cooled, due \in BOOLEAN :
            LET tries == IF mbTries[s] >= ConnectAttempts /\ cooled THEN 0 ELSE mbTries[s]
                attempt == due /\ tries < ConnectAttempts /\ s \notin mbShut
            IN mbTries' = [mbTries EXCEPT ![s] = IF attempt THEN tries + 1 ELSE tries]
        BY <2>2
      <3> DEFINE tries == IF mbTries[s] >= ConnectAttempts /\ cooled THEN 0 ELSE mbTries[s]
                 attempt == due /\ tries < ConnectAttempts /\ s \notin mbShut
                 n == IF attempt THEN tries + 1 ELSE tries
      <3>2. s \in MbSlaves => n \in 0..ConnectAttempts
        BY <1>0, ModbusAssumption
      <3>3. mbTries' = [mbTries EXCEPT ![s] = n]
        BY <3>1
      <3> QED BY <3>2, <3>3
    <2> QED BY <2>1, <2>2 DEF MbConnectStart
  <1> QED BY <1>0, <1>1

(* What the end of an attempt leaves.                                          *)
LEMMA MbConnectEndTyped ==
  ASSUME MbLoopTypes, NEW s, NEW connected, MbConnectEnd(s, connected)
  PROVE  mbTries' \in [MbSlaves -> 0..ConnectAttempts] /\ mbUp' \in [MbMasters -> BOOLEAN]
  <1>0. mbTries \in [MbSlaves -> 0..ConnectAttempts] /\ 0 \in 0..ConnectAttempts
    BY ModbusAssumption DEF MbLoopTypes
  <1>1. PICK up \in BOOLEAN : mbUp' = [mbUp EXCEPT ![MbMasterOf[s]] = up]
    BY DEF MbConnectEnd
  <1>2. mbTries' = [mbTries EXCEPT ![s] = IF connected THEN 0 ELSE mbTries[s]]
    BY DEF MbConnectEnd
  <1> QED BY <1>0, <1>1, <1>2 DEF MbLoopTypes

(* A poll's steps.                                                             *)
LEMMA MbPollTyped ==
  ASSUME MbLoopTypes, NEW s \in MbSlaves, MbPollConnect(s) \/ MbPollRead(s) \/ MbPollResume(s)
  PROVE  MbLoopTypes'
  <1>0. UNCHANGED <<mbLife, mbShut, mbQueue>>
    BY DEF MbPollConnect, MbPollRead, MbPollResume
  <1>1. mbTries' \in [MbSlaves -> 0..ConnectAttempts]
    <2>1. CASE MbPollConnect(s)
      BY <2>1, MbTriesBounded, MbConnectEndTyped DEF MbPollConnect
    <2>2. CASE MbPollRead(s) \/ MbPollResume(s)
      BY <2>2 DEF MbPollRead, MbPollResume, MbLoopTypes
    <2> QED BY <2>1, <2>2
  <1>2. mbUp' \in [MbMasters -> BOOLEAN]
    <2>1. CASE MbPollConnect(s)
      <3>1. mbUp' = mbUp \/ \E connected : MbConnectEnd(s, connected)
        BY <2>1 DEF MbPollConnect
      <3> QED BY <3>1, MbConnectEndTyped DEF MbLoopTypes
    <2>2. CASE MbPollRead(s)
      <3>1. mbUp' = mbUp \/ mbUp' = [mbUp EXCEPT ![MbMasterOf[s]] = (s \in MbSerial) /\ mbUp[MbMasterOf[s]]]
        BY <2>2 DEF MbPollRead, MbReadData, MbReadNothing, MbReadFails
      <3> QED BY <3>1, Zenon DEF MbLoopTypes
    <2>3. CASE MbPollResume(s)
      BY <2>3 DEF MbPollResume, MbLoopTypes
    <2> QED BY <2>1, <2>2, <2>3
  <1>3. mbPoll' \in [MbSlaves -> {"idle", "connect", "connecting", "read", "pause"}]
    BY DEF MbPollConnect, MbPollRead, MbReadData, MbReadNothing, MbReadFails, MbPollResume, MbPollEnds,
           MbLoopTypes
  <1>4. mbActive' \subseteq MbMasters /\ mbDevices' \subseteq MbSlaves
    BY DEF MbPollConnect, MbPollRead, MbReadData, MbReadNothing, MbReadFails, MbPollResume, MbPollEnds,
           MbRegister, MbDeregister, MbLoopTypes
  <1> QED BY <1>0, <1>1, <1>2, <1>3, <1>4 DEF MbLoopTypes

(* A call's steps, which may connect a master.                                 *)
LEMMA MbCallTyped ==
  ASSUME MbLoopTypes, NEW q \in MbCalls,
         \/ MbAsk(q) \/ MbCaller(q) \/ MbConversionEnds(q)
         \/ MbCallConnect(q) \/ MbDeviceAnswers(q) \/ MbWireFails(q)
  PROVE  MbLoopTypes'
  <1>0. UNCHANGED <<mbLife, mbShut, mbPolling, mbDevices>>
    BY DEF MbCallOnly, MbAsk, MbCaller, MbRequest, MbBadRequest, MbReservedRequest, MbDeviceRequest,
           MbNoDeviceRequest, MbAttributeUpdate, MbAnswer, MbTimeout, MbAbandon,
           MbConversionEnds, MbCallConnect, MbDeviceAnswers, MbWireFails
  <1>1. CASE MbCallConnect(q)
    <2>1. \/ mbUp' = mbUp /\ \E outcome \in {"up", "attempt", "no"} : MbConnectStart(mbCall[q].slave, outcome)
          \/ \E connected \in BOOLEAN : MbConnectEnd(mbCall[q].slave, connected)
      BY <1>1, Zenon DEF MbCallConnect
    <2>2. mbTries' \in [MbSlaves -> 0..ConnectAttempts] /\ mbUp' \in [MbMasters -> BOOLEAN]
      BY <2>1, MbTriesBounded, MbConnectEndTyped DEF MbLoopTypes
    <2> QED BY <1>0, <2>2 DEF MbLoopTypes, mbPolling
  <1>2. CASE ~MbCallConnect(q)
    <2>1. mbTries' = mbTries /\ mbUp' \in {mbUp, [mbUp EXCEPT ![MbMasterOf[mbCall[q].slave]] = TRUE]}
      BY <1>2 DEF MbCallOnly, MbAsk, MbCaller, MbRequest, MbBadRequest, MbReservedRequest, MbDeviceRequest,
           MbNoDeviceRequest, MbAttributeUpdate, MbAnswer, MbTimeout, MbAbandon,
           MbConversionEnds, MbDeviceAnswers, MbWireFails
    <2> QED BY <1>0, <2>1 DEF MbLoopTypes, mbPolling
  <1> QED BY <1>1, <1>2

(* Every step of the connector.                                                *)
LEMMA MbLoopStep == MbLoopTypes /\ [ModbusNext]_mbVars => MbLoopTypes'
  <1> SUFFICES ASSUME MbLoopTypes, [ModbusNext]_mbVars PROVE MbLoopTypes'
    OBVIOUS
  <1>1. CASE MbOpen \/ MbConvert \/ MbSave \/ MbStop
    BY <1>1 DEF MbOpen, MbConvert, MbSave, MbStop, MbLoopTypes, mbPolling
  <1>2. CASE MbTakeRequest
    <2>1. mbQueue' \in Seq(MbSlaves) /\ Len(mbQueue') <= MbQueueBound /\ Head(mbQueue) \in MbSlaves
      BY <1>2, ModbusAssumption DEF MbTakeRequest, MbLoopTypes
    <2>2. mbActive' \subseteq MbMasters
          /\ mbPoll' \in [MbSlaves -> {"idle", "connect", "connecting", "read", "pause"}]
      BY <1>2, <2>1 DEF MbTakeRequest, MbLoopTypes, MbMasters
    <2> QED BY <1>2, <2>1, <2>2 DEF MbTakeRequest, MbLoopTypes
  <1>3. CASE MbEnd
    BY <1>3, ModbusAssumption DEF MbEnd, MbLoopTypes
  <1>4. ASSUME NEW m \in MbMasters, MbLink(m) PROVE MbLoopTypes'
    BY <1>4 DEF MbLink, MbLoopTypes, mbPolling
  <1>5. ASSUME NEW s \in MbSlaves, MbTimer(s) PROVE MbLoopTypes'
    <2>1. mbQueue' \in Seq(MbSlaves) /\ Len(mbQueue') <= MbQueueBound
      BY <1>5, ModbusAssumption DEF MbTimer, MbLoopTypes
    <2> QED BY <1>5, <2>1 DEF MbTimer, MbLoopTypes
  <1>6. ASSUME NEW s \in MbSlaves, MbCloseSlave(s) PROVE MbLoopTypes'
    BY <1>6 DEF MbCloseSlave, MbLoopTypes, mbPolling
  <1>7. CASE UNCHANGED mbVars
    BY <1>7 DEF mbVars, mbPolling, MbLoopTypes
  <1> QED BY <1>1, <1>2, <1>3, <1>4, <1>5, <1>6, <1>7, MbPollTyped, MbCallTyped DEF ModbusNext

(* The invariants give the types.                                              *)
LEMMA MbShaped == MbLoopTypes /\ MbCallInv /\ MbPipeInv => ModbusTypeOK
  BY DEF MbLoopTypes, MbCallInv, MbCallType, MbPipeInv, MbPipeTypes, FateType, ModbusTypeOK

(* Quotients.                                                                  *)
LEMMA Quotient ==
  ASSUME NEW c \in Nat, NEW r \in Nat \ {0}
  PROVE  /\ c \div r \in Nat
         /\ (c \div r) * r <= c /\ c < ((c \div r) + 1) * r
  OBVIOUS

(* Multiples keep their order.                                                 *)
LEMMA MultiplesOrdered ==
  ASSUME NEW m \in Nat, NEW n \in Nat, NEW r \in Nat \ {0}, m * r < n * r
  PROVE  m < n
  OBVIOUS

(* Every register of a range is in one of its requests.                        *)
LEMMA MbEveryRegister ==
  ASSUME NEW count \in Nat, NEW r \in Nat \ {0}, NEW c \in 0..(count - 1)
  PROVE  \E k \in DOMAIN MbAddressRanges(count, r) : c \in MbAddressRanges(count, r)[k]
  <1> DEFINE k == (c \div r) + 1
             q == (count + r - 1) \div r
  <1>1. /\ c \in Nat /\ c < count /\ c \div r \in Nat
        /\ (c \div r) * r <= c /\ c < ((c \div r) + 1) * r
    BY Quotient
  <1>2. count + r - 1 \in Nat /\ q \in Nat /\ count + r - 1 < (q + 1) * r
    <2>1. count + r - 1 \in Nat
      OBVIOUS
    <2> QED BY <2>1, Quotient
  <1>3. c \div r < q
    <2> DEFINE u == c \div r
    <2>1. u \in Nat /\ u * r <= c
      BY <1>1
    <2>2. (q + 1) * r = q * r + r /\ q * r \in Nat /\ u * r \in Nat
      BY <1>2, <2>1
    <2> HIDE DEF u, q
    <2>3. u * r < q * r
      BY <1>1, <1>2, <2>1, <2>2
    <2> QED BY <1>2, <2>1, <2>3, MultiplesOrdered
  <1>4. k \in 1..q /\ (k - 1) * r <= c /\ c < k * r
    <2>1. k - 1 = c \div r /\ k \in Nat /\ k >= 1 /\ k <= q
      BY <1>1, <1>2, <1>3
    <2> QED BY <1>1, <1>2, <2>1
  <1> HIDE DEF k, q
  <1>5. c \in {a \in 0..(count - 1) : (k - 1) * r <= a /\ a < k * r}
    BY <1>4
  <1> QED BY <1>4, <1>5 DEF MbAddressRanges, q

(* A register before which every request was answered has its own place.       *)
LEMMA MbPlaceKept ==
  ASSUME NEW count \in Nat, NEW r \in Nat \ {0}, NEW objects,
         NEW valid \in SUBSET DOMAIN MbAddressRanges(count, r),
         NEW x \in MbWideRange(MbAddressRanges(count, r), valid, objects)
  PROVE  \/ x[1] = x[2]
         \/ \E k \in DOMAIN MbAddressRanges(count, r) \ valid :
              \E a \in MbAddressRanges(count, r)[k] : a <= x[1]
  <1> DEFINE chunks == MbAddressRanges(count, r)
             left == UNION {chunks[k] : k \in valid}
             place(a) == Cardinality({b \in left : b < a})
  <1>1. PICK a \in left : x = <<place(a), a>>
    BY DEF MbWideRange
  <1> DEFINE before == {b \in left : b < a}
             p == Cardinality(before)
  <1>2. left \subseteq 0..(count - 1)
    BY DEF MbAddressRanges
  <1>3. a \in 0..(count - 1) /\ a \in Nat /\ a < count /\ before \subseteq 0..(a - 1)
    BY <1>1, <1>2
  <1>4. x[1] = p /\ x[2] = a
    BY <1>1
  <1> SUFFICES ASSUME p # a, \A k \in DOMAIN chunks \ valid : \A c \in chunks[k] : ~(c <= p)
               PROVE  FALSE
    BY <1>4
  <1>5. IsFiniteSet(0..(a - 1)) /\ Cardinality(0..(a - 1)) = a
    <2>1. 0 \in Int /\ a - 1 \in Int
      BY <1>3
    <2>2. /\ IsFiniteSet(0..(a - 1))
          /\ Cardinality(0..(a - 1)) = IF 0 > a - 1 THEN 0 ELSE (a - 1) - 0 + 1
      BY <2>1, FS_Interval
    <2>3. (IF 0 > a - 1 THEN 0 ELSE (a - 1) - 0 + 1) = a
      BY <1>3
    <2> QED BY <2>2, <2>3
  <1> HIDE DEF left
  <1>6. IsFiniteSet(before) /\ p \in Nat /\ p <= a
    <2>1. before \subseteq 0..(a - 1)
      BY <1>3
    <2> HIDE DEF before
    <2>2. IsFiniteSet(before) /\ Cardinality(before) <= Cardinality(0..(a - 1))
      BY <1>5, <2>1, FS_Subset
    <2>3. Cardinality(before) \in Nat
      BY <2>2, FS_CardinalityType
    <2> QED BY <1>5, <2>2, <2>3 DEF p
  <1>7. p < a
    BY <1>3, <1>6
  <1>8. ASSUME NEW c \in 0..p PROVE c \in before
    <2>1. c \in 0..(count - 1) /\ c <= p /\ c < a
      BY <1>3, <1>6, <1>7
    <2>2. PICK k \in DOMAIN chunks : c \in chunks[k]
      BY <2>1, MbEveryRegister
    <2>3. k \in valid
      BY <2>1, <2>2
    <2>4. c \in left
      BY <2>2, <2>3 DEF left
    <2> QED BY <2>1, <2>4
  <1>9. IsFiniteSet(0..p) /\ Cardinality(0..p) = p + 1
    <2>1. 0 \in Int /\ p \in Int /\ ~(0 > p)
      BY <1>6
    <2> HIDE DEF p
    <2> QED BY <1>6, <2>1, FS_Interval
  <1>10. p + 1 <= p
    <2>1. 0..p \subseteq before
      BY <1>8
    <2> HIDE DEF before
    <2>2. Cardinality(0..p) <= Cardinality(before)
      BY <1>6, <2>1, FS_Subset
    <2> QED BY <1>9, <2>2 DEF p
  <1> QED BY <1>6, <1>10

-----------------------------------------------------------------------------
(* The OPC-UA connector: its types, and that a value stays with its node.  The *)
(* lists of nodes are sets, in the order of the configuration.                 *)

(* A configured node has one place; there are finitely many of them.           *)
LEMMA UaPlaces ==
  /\ \A n \in UaNodes : UaPlace(n) \in DOMAIN UaOrder /\ UaOrder[UaPlace(n)] = n /\ UaPlace(n) \in Nat
  /\ \A m, n \in UaNodes : UaPlace(m) = UaPlace(n) => m = n
  /\ \A i \in DOMAIN UaOrder : UaOrder[i] \in UaNodes /\ UaPlace(UaOrder[i]) = i
  /\ IsFiniteSet(UaNodes) /\ Cardinality(UaNodes) \in Nat /\ Cardinality(UaNodes) <= Len(UaOrder)
  /\ DOMAIN UaOrder = 1 .. Len(UaOrder) /\ Len(UaOrder) \in Nat /\ Len(UaOrder) >= 1
  <1>1. DOMAIN UaOrder = 1 .. Len(UaOrder) /\ Len(UaOrder) \in Nat /\ Len(UaOrder) >= 1
    BY OpcuaAssumption
  <1>2. \A i \in DOMAIN UaOrder : UaOrder[i] \in UaNodes
    BY DEF UaNodes, Range
  <1>3. \A n \in UaNodes : UaPlace(n) \in DOMAIN UaOrder /\ UaOrder[UaPlace(n)] = n
    <2> TAKE n \in UaNodes
    <2>1. \E i \in DOMAIN UaOrder : UaOrder[i] = n
      BY DEF UaNodes, Range
    <2> QED BY <2>1 DEF UaPlace
  <1>4. \A i \in DOMAIN UaOrder : UaPlace(UaOrder[i]) = i
    BY <1>2, <1>3, OpcuaAssumption
  <1>5. IsFiniteSet(UaNodes) /\ Cardinality(UaNodes) <= Len(UaOrder)
    <2>1. UaOrder \in Surjection(1 .. Len(UaOrder), UaNodes)
      <3>1. UaOrder \in [1 .. Len(UaOrder) -> UaNodes]
        BY <1>1, <1>2, OpcuaAssumption
      <3>2. \A n \in UaNodes : \E i \in 1 .. Len(UaOrder) : UaOrder[i] = n
        BY <1>1, <1>3
      <3> QED BY <3>1, <3>2 DEF Surjection
    <2>2. 1 \in Int /\ Len(UaOrder) \in Int /\ ~(1 > Len(UaOrder)) /\ Len(UaOrder) - 1 + 1 = Len(UaOrder)
      BY <1>1
    <2>3. IsFiniteSet(1 .. Len(UaOrder)) /\ Cardinality(1 .. Len(UaOrder)) = Len(UaOrder)
      BY <2>2, FS_Interval
    <2> QED BY <2>1, <2>3, FS_Surjection
  <1>6. Cardinality(UaNodes) \in Nat
    BY <1>5, FS_CardinalityType
  <1>7. \A n \in UaNodes : UaPlace(n) \in Nat
    BY <1>1, <1>3
  <1> QED BY <1>1, <1>2, <1>3, <1>4, <1>5, <1>6, <1>7

(* Ranks follow places.                                                        *)
LEMMA UaRanks ==
  ASSUME NEW S \in SUBSET UaNodes
  PROVE  /\ IsFiniteSet(S) /\ Cardinality(S) \in Nat /\ Cardinality(S) <= Len(UaOrder)
         /\ \A n : UaRank(S, n) \in Nat
         /\ \A m, n \in S : UaPlace(m) < UaPlace(n) => UaRank(S, m) < UaRank(S, n)
         /\ \A m, n \in S : UaRank(S, m) = UaRank(S, n) => m = n
  <1> DEFINE below(n) == {m \in S : UaPlace(m) < UaPlace(n)}
  <1>1. IsFiniteSet(S) /\ Cardinality(S) <= Cardinality(UaNodes)
    BY UaPlaces, FS_Subset
  <1>2. Cardinality(S) \in Nat
    BY <1>1, FS_CardinalityType
  <1>3. \A n : IsFiniteSet(below(n)) /\ Cardinality(below(n)) \in Nat
    <2> TAKE n
    <2>1. below(n) \in SUBSET S
      OBVIOUS
    <2> HIDE DEF below
    <2>2. IsFiniteSet(below(n))
      BY <1>1, <2>1, FS_Subset
    <2> QED BY <2>2, FS_CardinalityType
  <1>4. ASSUME NEW m \in S, NEW n \in S, UaPlace(m) < UaPlace(n)
        PROVE  Cardinality(below(m)) < Cardinality(below(n))
    <2>1. \A k \in S : UaPlace(k) \in Nat
      BY UaPlaces
    <2>2. \A k \in S : UaPlace(k) < UaPlace(m) => UaPlace(k) < UaPlace(n)
      BY <1>4, <2>1
    <2>3. below(m) \in SUBSET below(n)
      BY <2>2, Zenon
    <2>4. m \in below(n) /\ m \notin below(m)
      BY <1>4, <2>1
    <2>5. below(m) # below(n)
      BY <2>4
    <2> HIDE DEF below
    <2>6. Cardinality(below(m)) <= Cardinality(below(n)) /\ Cardinality(below(m)) # Cardinality(below(n))
      BY <1>3, <2>3, <2>5, FS_Subset
    <2> QED BY <1>3, <2>6
  <1>5. \A n : UaRank(S, n) = Cardinality(below(n))
    BY DEF UaRank
  <1> HIDE DEF below
  <1>6. \A m, n \in S : m # n => UaPlace(m) < UaPlace(n) \/ UaPlace(n) < UaPlace(m)
    BY UaPlaces
  <1>7. \A m, n \in S : UaPlace(m) < UaPlace(n) => UaRank(S, m) < UaRank(S, n)
    BY <1>4, <1>5
  <1>8. \A n : UaRank(S, n) \in Nat
    BY <1>3, <1>5
  <1>9. \A m, n \in S : UaRank(S, m) = UaRank(S, n) => m = n
    BY <1>6, <1>7, <1>8
  <1>10. Cardinality(S) <= Len(UaOrder)
    BY <1>1, <1>2, UaPlaces
  <1> QED BY <1>1, <1>2, <1>7, <1>8, <1>9, <1>10

(* A batch that opens a list has the nodes of the list up to some place.       *)
UaOpens(nodes, S) ==
    nodes \subseteq S /\ \A n \in nodes, m \in S : UaPlace(m) < UaPlace(n) => m \in nodes

(* Its nodes have the ranks that they have in the list.                        *)
LEMMA UaOpeningRanks ==
  ASSUME NEW S \in SUBSET UaNodes, NEW nodes, UaOpens(nodes, S), NEW n \in nodes
  PROVE  UaRank(nodes, n) = UaRank(S, n)
  <1>1. {m \in nodes : UaPlace(m) < UaPlace(n)} = {m \in S : UaPlace(m) < UaPlace(n)}
    BY DEF UaOpens
  <1> QED BY <1>1 DEF UaRank

(* The first read of a poll opens the list.                                    *)
LEMMA UaFirstOpens ==
  ASSUME NEW S \in SUBSET UaNodes
  PROVE  UaOpens({n \in S : UaRank(S, n) < MaxNodesPerRead}, S)
  <1> SUFFICES ASSUME NEW n \in S, UaRank(S, n) < MaxNodesPerRead, NEW m \in S, UaPlace(m) < UaPlace(n)
               PROVE  UaRank(S, m) < MaxNodesPerRead
    BY DEF UaOpens
  <1>1. UaRank(S, m) < UaRank(S, n) /\ UaRank(S, m) \in Nat /\ UaRank(S, n) \in Nat
    BY UaRanks
  <1> QED BY <1>1, OpcuaAssumption

(* The next device is that of the first node whose device is still to do.      *)
LEMMA UaNextFirst ==
  ASSUME NEW job, job.todo \subseteq UaDevices, job.todo # {}
  PROVE  \E f \in UaNodes : /\ UaNextDevice(job) = UaDeviceOf[f] /\ UaDeviceOf[f] \in job.todo
                            /\ \A m \in UaNodes : UaPlace(m) < UaPlace(f) => UaDeviceOf[m] \notin job.todo
  <1> DEFINE P == {UaPlace(n) : n \in {n \in UaNodes : UaDeviceOf[n] \in job.todo}}
             First(n) == /\ UaDeviceOf[n] \in job.todo
                         /\ \A m \in UaNodes : UaPlace(m) < UaPlace(n) => UaDeviceOf[m] \notin job.todo
  <1>1. P \in SUBSET Nat /\ P # {}
    <2>1. P \in SUBSET Nat
      BY UaPlaces
    <2>2. \E n \in UaNodes : UaDeviceOf[n] \in job.todo
      BY DEF UaDevices
    <2> QED BY <2>1, <2>2
  <1>2. PICK x \in P : \A y \in P : ~(<<y, x>> \in OpToRel(<, Nat))
    <2> HIDE DEF P
    <2> QED BY <1>1, WFMin, NatLessThanWellFounded, Zenon
  <1>3. \A y \in P : ~(y < x)
    BY <1>1, <1>2 DEF OpToRel
  <1>4. PICK n \in UaNodes : UaDeviceOf[n] \in job.todo /\ x = UaPlace(n)
    OBVIOUS
  <1>5. \A m \in UaNodes : UaPlace(m) < UaPlace(n) => UaDeviceOf[m] \notin job.todo
    BY <1>3, <1>4
  <1>6. First(n)
    BY <1>4, <1>5
  <1>7. First(CHOOSE k \in UaNodes : First(k)) /\ (CHOOSE k \in UaNodes : First(k)) \in UaNodes
    <2> HIDE DEF First
    <2> QED BY <1>6
  <1>8. UaNextDevice(job) = UaDeviceOf[CHOOSE k \in UaNodes : First(k)]
    BY DEF UaNextDevice
  <1> QED BY <1>7, <1>8

(* The nodes of a list whose devices a job has done.  A job is aligned with a  *)
(* list that its batch opens while they stand before the others, and cuts it    *)
(* as it should: a slice begins after them and ends with the next device's.    *)
UaDone(job, S) == {n \in S : UaDeviceOf[n] \notin job.todo}
UaAligned(job, S) ==
    /\ UaOpens(job.batch.nodes, S) /\ job.todo \subseteq UaDevices
    /\ \A m \in UaDone(job, S), n \in S \ UaDone(job, S) : UaPlace(m) < UaPlace(n)
UaCut(job, S) ==
    /\ UaAligned(job, S)
    /\ ~job.sliced => job.upto = Cardinality(UaDone(job, S))
    /\ job.sliced => /\ job.todo # {} /\ job.from = Cardinality(UaDone(job, S))
                     /\ job.upto = Cardinality(UaDone(job, S) \cup UaListed(S, UaNextDevice(job)))

(* The next slice is that of the next device's list.                           *)
LEMMA UaSlice ==
  ASSUME NEW S \in SUBSET UaNodes, NEW job, UaAligned(job, S), job.todo # {}
  PROVE  LET d == UaNextDevice(job)
             listed == UaListed(S, d)
             done == UaDone(job, S)
         IN /\ d \in job.todo
            /\ \A n \in listed : UaRank(S, n) = Cardinality(done) + UaRank(listed, n)
            /\ done \cap listed = {}
            /\ \A m \in done \cup listed, n \in S \ (done \cup listed) : UaPlace(m) < UaPlace(n)
            /\ Cardinality(done) + Cardinality(listed) = Cardinality(done \cup listed)
  <1> DEFINE d == UaNextDevice(job)
             listed == UaListed(S, d)
             done == UaDone(job, S)
  <1>1. PICK f \in UaNodes : /\ d = UaDeviceOf[f] /\ d \in job.todo
                             /\ \A m \in UaNodes : UaPlace(m) < UaPlace(f) => UaDeviceOf[m] \notin job.todo
    BY UaNextFirst DEF UaAligned
  <1>2. listed \in SUBSET UaNodes /\ done \in SUBSET UaNodes /\ listed \subseteq S /\ done \subseteq S
        /\ done \cap listed = {}
    BY <1>1 DEF UaListed, UaDone
  <1>3. ASSUME NEW n \in listed, NEW k \in S \ done, UaPlace(k) <= UaPlace(n)
        PROVE  k \in listed
    <2>1. UaDeviceOf[n] = d /\ UaDeviceOf[k] \in job.todo /\ n \in UaNodes /\ k \in UaNodes
      BY <1>2, <1>3 DEF UaListed, UaDone
    <2>2. UaPlace(f) <= UaPlace(k)
      BY <1>1, <2>1, UaPlaces
    <2>3. /\ UaPlace(f) \in DOMAIN UaOrder /\ UaPlace(k) \in DOMAIN UaOrder /\ UaPlace(n) \in DOMAIN UaOrder
          /\ UaOrder[UaPlace(f)] = f /\ UaOrder[UaPlace(k)] = k /\ UaOrder[UaPlace(n)] = n
      BY <2>1, UaPlaces
    <2>4. UaDeviceOf[k] = UaDeviceOf[f]
      BY <1>1, <1>3, <2>1, <2>2, <2>3, OpcuaAssumption
    <2> QED BY <1>1, <2>4 DEF UaListed
  <1>4. ASSUME NEW n \in listed, NEW m \in done PROVE UaPlace(m) < UaPlace(n)
    <2>1. n \in S \ done
      BY <1>2
    <2> QED BY <2>1 DEF UaAligned
  <1>5. ASSUME NEW n \in listed PROVE UaRank(S, n) = Cardinality(done) + UaRank(listed, n)
    <2> DEFINE lower == {k \in listed : UaPlace(k) < UaPlace(n)}
    <2>1. \A k \in S : UaPlace(k) \in Nat /\ UaPlace(n) \in Nat
      BY <1>2, UaPlaces
    <2>2. {k \in S : UaPlace(k) < UaPlace(n)} = done \cup lower
      BY <1>2, <1>3, <1>4, <2>1
    <2>3. done \cap lower = {} /\ lower \in SUBSET UaNodes
      BY <1>2
    <2>4. IsFiniteSet(done) /\ IsFiniteSet(lower) /\ Cardinality(done) \in Nat /\ Cardinality(lower) \in Nat
      <3> HIDE DEF lower, done
      <3> QED BY <1>2, <2>3, UaRanks
    <2>5. Cardinality(done \cup lower) = Cardinality(done) + Cardinality(lower)
      <3> HIDE DEF lower, done
      <3>1. Cardinality(done \cap lower) = 0
        BY <2>3, FS_EmptySet
      <3>2. Cardinality(done \cup lower) = Cardinality(done) + Cardinality(lower) - Cardinality(done \cap lower)
        BY <2>4, FS_Union
      <3> QED BY <2>4, <3>1, <3>2
    <2>6. UaRank(S, n) = Cardinality(done \cup lower) /\ UaRank(listed, n) = Cardinality(lower)
      BY <2>2 DEF UaRank
    <2> HIDE DEF lower, done, listed
    <2> QED BY <2>5, <2>6
  <1>6. ASSUME NEW m \in done \cup listed, NEW n \in S \ (done \cup listed)
        PROVE  UaPlace(m) < UaPlace(n)
    <2>1. CASE m \in done
      BY <2>1 DEF UaAligned
    <2>2. CASE m \in listed
      <3>1. ~(UaPlace(n) <= UaPlace(m))
        BY <1>3, <2>2
      <3>2. UaPlace(m) \in Nat /\ UaPlace(n) \in Nat
        BY <1>2, UaPlaces
      <3> QED BY <3>1, <3>2
    <2> QED BY <2>1, <2>2
  <1>7. Cardinality(done) + Cardinality(listed) = Cardinality(done \cup listed)
    <2> HIDE DEF done, listed
    <2>1. IsFiniteSet(done) /\ IsFiniteSet(listed) /\ Cardinality(done) \in Nat /\ Cardinality(listed) \in Nat
      BY <1>2, UaRanks
    <2>2. Cardinality(done \cap listed) = 0
      BY <1>2, FS_EmptySet
    <2>3. Cardinality(done \cup listed) = Cardinality(done) + Cardinality(listed) - Cardinality(done \cap listed)
      BY <2>1, FS_Union
    <2> QED BY <2>1, <2>2, <2>3
  <1> QED BY <1>1, <1>2, <1>5, <1>6, <1>7

(* So no value of the batch goes to another node's key.                        *)
LEMMA UaSliceFiled ==
  ASSUME NEW S \in SUBSET UaNodes, NEW job, UaAligned(job, S), job.todo # {},
         NEW m \in job.batch.nodes, NEW n \in UaListed(S, UaNextDevice(job)),
         UaRank(job.batch.nodes, m)
           = Cardinality(UaDone(job, S)) + UaRank(UaListed(S, UaNextDevice(job)), n)
  PROVE  m = n
  <1>1. /\ UaRank(S, n) = Cardinality(UaDone(job, S)) + UaRank(UaListed(S, UaNextDevice(job)), n)
        /\ n \in S
    BY UaSlice DEF UaListed
  <1>2. UaRank(job.batch.nodes, m) = UaRank(S, m) /\ m \in S
    BY UaOpeningRanks DEF UaAligned, UaOpens
  <1> QED BY <1>1, <1>2, UaRanks

-----------------------------------------------------------------------------
UaJobType == [busy : BOOLEAN, batch : UaBatches, todo : SUBSET UaDevices, sliced : BOOLEAN,
              from : Nat, upto : Nat, same : BOOLEAN, live : BOOLEAN, kept : SUBSET UaNodes]
UaSubTypes == [UaNodes -> {"none", "off", "ok", "refused"}]
UaPhases == {"top", "reconnect", "connect", "scan", "device", "nodes", "loop", "poll", "ended"}

(* What OpcuaTypeOK says beyond the calls and the places of the readings.      *)
UaTypes ==
    /\ uaLife \in {"new", "running", "stopping", "closed"} /\ uaMode \in {"poll", "subscribe"}
    /\ uaMain \in UaPhases /\ uaRecreate \in BOOLEAN /\ uaKnown \in BOOLEAN
    /\ uaFound \subseteq UaNodes /\ uaScan \in 0..(Len(UaOrder) - 1)
    /\ uaLeft \subseteq UaNodes /\ uaSubs \in UaSubTypes
    /\ uaQueue \in Seq(UaBatches) /\ uaJobs \in [UaWorkers -> UaJobType]

(* A poll reads the lists of now; its first batch opens them, and is cut in    *)
(* their order by a job that has found them as they were polled.               *)
UaFileInv ==
    /\ uaMisfiled = FALSE
    /\ uaMain = "poll" => uaLeft \subseteq uaFound
    /\ \A i \in DOMAIN uaQueue : uaQueue[i].first => UaOpens(uaQueue[i].nodes, uaQueue[i].polled)
    /\ \A w \in UaWorkers : uaJobs[w].busy /\ uaJobs[w].batch.first /\ uaJobs[w].same
                              => UaCut(uaJobs[w], uaJobs[w].batch.polled)

UaDataInv == UaTypes /\ UaFileInv

(* A job that does nothing, and a batch of none.                               *)
LEMMA UaIdleTyped == /\ UaIdle \in UaJobType /\ UaNoBatch \in UaBatches /\ UaIdle.busy = FALSE
                     /\ UaIdle.sliced = FALSE /\ UaIdle.upto = 0
  <1>1. UaNoBatch \in UaBatches
    BY OpcuaAssumption DEF UaNoBatch, UaBatches
  <1> QED BY <1>1 DEF UaIdle, UaJobType

(* Nothing was read yet.                                                       *)
LEMMA UaDataInit == OpcuaInit => UaDataInv
  <1> SUFFICES ASSUME OpcuaInit PROVE UaDataInv
    OBVIOUS
  <1>1. /\ uaLife = "new" /\ uaMode \in {"poll", "subscribe"} /\ uaMain = "top"
        /\ uaRecreate = TRUE /\ uaKnown = FALSE /\ uaFound = {} /\ uaScan = 0
        /\ uaLeft = {} /\ uaSubs = [n \in UaNodes |-> "none"]
        /\ uaQueue = <<>> /\ uaJobs = [w \in UaWorkers |-> UaIdle] /\ uaMisfiled = FALSE
    BY DEF OpcuaInit
  <1>2. uaScan \in 0..(Len(UaOrder) - 1)
    BY <1>1, UaPlaces
  <1>3. uaJobs \in [UaWorkers -> UaJobType] /\ \A w \in UaWorkers : uaJobs[w].busy = FALSE
    BY <1>1, UaIdleTyped
  <1>4. uaQueue \in Seq(UaBatches) /\ DOMAIN uaQueue = {}
    BY <1>1
  <1>5. uaSubs \in UaSubTypes
    BY <1>1 DEF UaSubTypes
  <1>6. UaTypes
    BY <1>1, <1>2, <1>3, <1>4, <1>5 DEF UaTypes, UaPhases
  <1>7. UaFileInv
    BY <1>1, <1>3, <1>4 DEF UaFileInv
  <1> QED BY <1>6, <1>7 DEF UaDataInv

(* What waits in the queue.                                                    *)
LEMMA UaQueueItem ==
  ASSUME uaQueue \in Seq(UaBatches), NEW i \in DOMAIN uaQueue
  PROVE  uaQueue[i] \in UaBatches
  OBVIOUS

(* A step that leaves the batches and the jobs alone, whatever it does to the  *)
(* lists of nodes.                                                             *)
LEMMA UaDataStays ==
  ASSUME UaDataInv, UNCHANGED <<uaQueue, uaJobs, uaMisfiled>>,
         uaMain' = "poll" => uaLeft' \subseteq uaFound'
  PROVE  UaFileInv'
  BY DEF UaDataInv, UaFileInv

(* A new client forgets the devices: a job goes on by the lists it began with, *)
(* and its cut is that of the lists that were polled.                          *)
LEMMA UaListsForgotten ==
  ASSUME UaDataInv, UaForget
  PROVE  /\ uaKnown' = FALSE /\ uaFound' = {} /\ uaSubs' \in UaSubTypes
         /\ uaJobs' \in [UaWorkers -> UaJobType]
         /\ \A w \in UaWorkers : uaJobs'[w].busy /\ uaJobs'[w].batch.first /\ uaJobs'[w].same
                                   => UaCut(uaJobs'[w], uaJobs'[w].batch.polled)
  <1>1. uaJobs' = [w \in UaWorkers |-> IF uaJobs[w].busy /\ uaJobs[w].live
                     THEN [uaJobs[w] EXCEPT !.live = FALSE, !.kept = uaFound] ELSE uaJobs[w]]
    BY Zenon DEF UaForget
  <1>2. ASSUME NEW w \in UaWorkers
        PROVE  /\ uaJobs'[w] \in UaJobType
               /\ uaJobs'[w].busy /\ uaJobs'[w].batch.first /\ uaJobs'[w].same
                    => UaCut(uaJobs'[w], uaJobs'[w].batch.polled)
    <2>1. uaJobs[w] \in UaJobType /\ uaFound \in SUBSET UaNodes
      BY DEF UaDataInv, UaTypes
    <2>2. uaJobs[w].busy /\ uaJobs[w].batch.first /\ uaJobs[w].same
            => UaCut(uaJobs[w], uaJobs[w].batch.polled)
      BY DEF UaDataInv, UaFileInv
    <2> DEFINE job == uaJobs[w]
               aged == [job EXCEPT !.live = FALSE, !.kept = uaFound]
    <2>3. /\ aged \in UaJobType /\ aged.busy = job.busy /\ aged.batch = job.batch
          /\ aged.todo = job.todo /\ aged.sliced = job.sliced /\ aged.from = job.from
          /\ aged.upto = job.upto /\ aged.same = job.same
      BY <2>1 DEF UaJobType
    <2>4. uaJobs'[w] = job \/ uaJobs'[w] = aged
      BY <1>1, Zenon
    <2> HIDE DEF aged, job
    <2>5. UaNextDevice(aged) = UaNextDevice(job) /\ \A S : UaDone(aged, S) = UaDone(job, S)
      BY <2>3 DEF UaNextDevice, UaDone
    <2>6. \A S : UaCut(job, S) => UaCut(aged, S)
      BY <2>3, <2>5 DEF UaCut, UaAligned
    <2> QED BY <2>1, <2>2, <2>3, <2>4, <2>6 DEF job
  <1>3. uaJobs' \in [UaWorkers -> UaJobType]
    <2>1. DOMAIN uaJobs' = UaWorkers /\ uaJobs' = [w \in UaWorkers |-> uaJobs'[w]]
      BY <1>1
    <2> QED BY <1>2, <2>1, Zenon
  <1>4. uaKnown' = FALSE /\ uaFound' = {} /\ uaSubs' \in UaSubTypes
    BY DEF UaForget, UaSubTypes
  <1> QED BY <1>2, <1>3, <1>4

(* The steps of start_client that leave the batches and the jobs alone.        *)
LEMMA UaQuietFiles ==
  ASSUME UaDataInv,
         \/ UaLost \/ UaFails \/ UaLeaveLoop \/ UaScanDue \/ UaPollDue
         \/ UaCreateDevices \/ UaScanDevice
  PROVE  UaDataInv'
  <1>0. 0 \in 0..(Len(UaOrder) - 1)
    BY UaPlaces
  <1>1. UNCHANGED <<uaLife, uaMode, uaQueue, uaJobs, uaMisfiled, uaSubs>>
    BY DEF UaLost, UaFails, UaLeaveLoop, UaScanDue, UaPollDue, UaCreateDevices, UaScanDevice,
           UaQuietData, uaData
  <1>2. /\ uaRecreate' \in BOOLEAN /\ uaKnown' \in BOOLEAN /\ uaMain' \in UaPhases
        /\ uaScan' \in 0..(Len(UaOrder) - 1) /\ uaLeft' \subseteq UaNodes /\ uaFound' \subseteq UaNodes
    BY <1>0 DEF UaDataInv, UaTypes, UaPhases, UaLost, UaFails, UaLeaveLoop, UaScanDue, UaPollDue,
           UaCreateDevices, UaScanDevice, UaDisconnect
  <1>3. uaMain' = "poll" => uaLeft' \subseteq uaFound'
    BY DEF UaDataInv, UaFileInv, UaLost, UaFails, UaLeaveLoop, UaScanDue, UaPollDue,
           UaCreateDevices, UaScanDevice
  <1>4. UaFileInv'
    BY <1>1, <1>3, UaDataStays
  <1>5. UaTypes'
    BY <1>1, <1>2 DEF UaDataInv, UaTypes
  <1> QED BY <1>4, <1>5 DEF UaDataInv

(* A new client, and its connection.                                           *)
LEMMA UaConnectFiles ==
  ASSUME UaDataInv, UaNewClient \/ UaConnect \/ UaMainEnd
  PROVE  UaDataInv'
  <1>0. 0 \in 0..(Len(UaOrder) - 1)
    BY UaPlaces
  <1>1. /\ UNCHANGED <<uaLife, uaMode, uaQueue, uaMisfiled>> /\ uaMain' # "poll"
        /\ uaRecreate' \in BOOLEAN /\ uaMain' \in UaPhases
        /\ uaScan' \in 0..(Len(UaOrder) - 1) /\ uaLeft' \subseteq UaNodes
    BY <1>0 DEF UaDataInv, UaTypes, UaPhases, UaNewClient, UaConnect, UaMainEnd, UaDisconnect
  <1>2. UNCHANGED <<uaKnown, uaFound, uaSubs, uaJobs>> \/ UaForget
    BY Zenon DEF UaNewClient, UaConnect, UaMainEnd, UaRemember
  <1>3. CASE UNCHANGED <<uaKnown, uaFound, uaSubs, uaJobs>>
    <2>1. UaFileInv'
      BY <1>1, <1>3, UaDataStays
    <2> QED BY <1>1, <1>3, <2>1 DEF UaDataInv, UaTypes
  <1>4. CASE UaForget
    <2>1. UaFileInv'
      BY <1>1, <1>4, UaListsForgotten DEF UaDataInv, UaFileInv
    <2>2. UaTypes'
      BY <1>1, <1>4, UaListsForgotten DEF UaDataInv, UaTypes
    <2> QED BY <2>1, <2>2 DEF UaDataInv
  <1> QED BY <1>2, <1>3, <1>4

(* One node of a scan.                                                         *)
LEMMA UaScanFiles ==
  ASSUME UaDataInv, UaScanNode
  PROVE  UaDataInv'
  <1> DEFINE n == UaOrder[uaScan + 1]
             d == UaDeviceOf[n]
             last == uaScan + 1 = Len(UaOrder)
             whole == last \/ UaDeviceOf[UaOrder[uaScan + 2]] # d
  <1>0. /\ uaScan \in 0..(Len(UaOrder) - 1) /\ uaFound \subseteq UaNodes /\ uaSubs \in UaSubTypes
        /\ UNCHANGED <<uaLife, uaMode, uaRecreate, uaKnown, uaLeft, uaQueue, uaJobs, uaMisfiled>>
    BY DEF UaDataInv, UaTypes, UaScanNode, UaQuietData, uaData
  <1>1. n \in UaNodes
    <2>1. uaScan + 1 \in DOMAIN UaOrder
      BY <1>0, UaPlaces
    <2> QED BY <2>1, UaPlaces
  <1>2. uaScan' \in 0..(Len(UaOrder) - 1) /\ uaMain' \in {"loop", "device", "nodes"}
    <2>1. /\ uaScan' = IF last THEN 0 ELSE uaScan + 1
          /\ uaMain' = IF last THEN "loop" ELSE IF whole THEN "device" ELSE "nodes"
      BY Zenon DEF UaScanNode
    <2>2. Len(UaOrder) \in Nat /\ Len(UaOrder) > 0
      BY UaPlaces
    <2> HIDE DEF whole
    <2>3. uaScan' \in 0..(Len(UaOrder) - 1)
      BY <1>0, <2>1, <2>2
    <2>4. uaMain' \in {"loop", "device", "nodes"}
      BY <2>1
    <2> QED BY <2>3, <2>4
  <1>3. uaFound' \subseteq UaNodes
    <2>1. uaFound' \in UaSearch(uaFound, n)
      BY Zenon DEF UaScanNode
    <2> HIDE DEF n
    <2> QED BY <1>0, <1>1, <2>1 DEF UaSearch
  <1>4. \/ UNCHANGED uaSubs
        \/ \E subs \in {uaSubs, UaExpired(uaSubs, d), UaUnsubscribe(n)} :
             uaSubs' \in {subs} \cup {UaSubscribe(subs, uaFound', d, a) : a \in {"ok", "refused"}}
    <2>1. \/ uaMode = "poll" /\ UNCHANGED uaSubs
          \/ /\ uaMode = "subscribe"
             /\ \E subs \in IF n \in uaFound' THEN {uaSubs, UaExpired(uaSubs, d)}
                             ELSE {uaSubs, UaUnsubscribe(n)} :
                  uaSubs' \in IF ~whole THEN {subs} ELSE
                    {subs} \cup {UaSubscribe(subs, uaFound', d, a) : a \in {"ok", "refused"}}
      BY Zenon DEF UaScanNode
    <2> HIDE DEF n, d, whole
    <2>2. CASE \E subs \in IF n \in uaFound' THEN {uaSubs, UaExpired(uaSubs, d)}
                             ELSE {uaSubs, UaUnsubscribe(n)} :
                  uaSubs' \in IF ~whole THEN {subs} ELSE
                    {subs} \cup {UaSubscribe(subs, uaFound', d, a) : a \in {"ok", "refused"}}
      <3>1. PICK subs \in IF n \in uaFound' THEN {uaSubs, UaExpired(uaSubs, d)}
                             ELSE {uaSubs, UaUnsubscribe(n)} :
                  uaSubs' \in IF ~whole THEN {subs} ELSE
                    {subs} \cup {UaSubscribe(subs, uaFound', d, a) : a \in {"ok", "refused"}}
        BY <2>2, Zenon
      <3> DEFINE T == {UaSubscribe(subs, uaFound', d, a) : a \in {"ok", "refused"}}
      <3> HIDE DEF T
      <3>2. uaSubs' \in {subs} \cup T
        BY <3>1 DEF T
      <3>3. subs \in {uaSubs, UaExpired(uaSubs, d), UaUnsubscribe(n)}
        BY <3>1
      <3> QED BY <3>2, <3>3, Zenon DEF T
    <2> QED BY <2>1, <2>2
  <1>5. uaSubs' \in UaSubTypes
    <2>1. CASE UNCHANGED uaSubs
      BY <1>0, <2>1
    <2>2. CASE ~UNCHANGED uaSubs
      <3>1. PICK subs \in {uaSubs, UaExpired(uaSubs, d), UaUnsubscribe(n)} :
              uaSubs' \in {subs} \cup {UaSubscribe(subs, uaFound', d, a) : a \in {"ok", "refused"}}
        BY <1>4, <2>2
      <3>2. UaExpired(uaSubs, d) \in UaSubTypes
        BY <1>0 DEF UaExpired, UaSubTypes
      <3>3. UaUnsubscribe(n) \in UaSubTypes
        BY <1>0, <1>1 DEF UaUnsubscribe, UaSubTypes
      <3>4. subs \in UaSubTypes
        BY <1>0, <3>1, <3>2, <3>3
      <3>5. \A a \in {"ok", "refused"} : UaSubscribe(subs, uaFound', d, a) \in UaSubTypes
        BY <3>4 DEF UaSubscribe, UaSubTypes
      <3> QED BY <3>1, <3>4, <3>5
    <2> QED BY <2>1, <2>2
  <1>6. UaFileInv'
    BY <1>0, <1>2, UaDataStays
  <1>7. UaTypes'
    BY <1>0, <1>2, <1>3, <1>5 DEF UaDataInv, UaTypes, UaPhases
  <1> QED BY <1>6, <1>7 DEF UaDataInv

(* A poll reads its first batch as it opens the lists.                         *)
LEMMA UaPollFiles ==
  ASSUME UaDataInv, UaPollBatch
  PROVE  UaDataInv'
  <1> DEFINE batch == {n \in uaLeft : UaRank(uaLeft, n) < MaxNodesPerRead}
             b == [reading |-> UaNextReading, nodes |-> batch, polled |-> uaFound,
                   first |-> uaLeft = uaFound]
  <1>0. /\ uaMain = "poll" /\ uaLeft' = uaLeft \ batch /\ uaMain' \in {"loop", "poll"}
        /\ UNCHANGED <<uaLife, uaMode, uaRecreate, uaKnown, uaFound, uaScan, uaSubs, uaJobs, uaMisfiled>>
    BY DEF UaPollBatch
  <1>1. uaQueue' = uaQueue \/ (UaUnread # {} /\ uaQueue' = Append(uaQueue, b))
    BY Zenon DEF UaPollBatch
  <1>2. batch \subseteq uaLeft /\ uaLeft \subseteq UaNodes /\ uaLeft \subseteq uaFound
        /\ uaFound \subseteq UaNodes /\ uaQueue \in Seq(UaBatches)
    BY <1>0 DEF UaDataInv, UaTypes, UaFileInv
  <1>3. UaUnread # {} => b \in UaBatches
    <2>1. UaUnread # {} => UaNextReading \in UaReadings
      BY DEF UaNextReading, UaUnread
    <2> HIDE DEF batch
    <2> QED BY <1>2, <2>1 DEF UaBatches
  <1>4. b.first => UaOpens(b.nodes, b.polled)
    <2>1. ASSUME uaLeft = uaFound PROVE UaOpens(batch, uaFound)
      BY <1>2, <2>1, UaFirstOpens
    <2> HIDE DEF batch
    <2> QED BY <2>1
  <1> HIDE DEF b, batch
  <1>5. /\ uaQueue' \in Seq(UaBatches)
        /\ \A i \in DOMAIN uaQueue' :
             uaQueue'[i].first => UaOpens(uaQueue'[i].nodes, uaQueue'[i].polled)
    <2>1. CASE uaQueue' = uaQueue
      BY <1>2, <2>1 DEF UaDataInv, UaFileInv
    <2>2. CASE UaUnread # {} /\ uaQueue' = Append(uaQueue, b)
      <3>1. /\ uaQueue' \in Seq(UaBatches)
            /\ \A i \in DOMAIN uaQueue' : \/ i \in DOMAIN uaQueue /\ uaQueue'[i] = uaQueue[i]
                                          \/ i = Len(uaQueue) + 1 /\ uaQueue'[i] = b
        BY <1>2, <1>3, <2>2, AppendParts
      <3> QED BY <1>4, <3>1 DEF UaDataInv, UaFileInv
    <2> QED BY <1>1, <2>1, <2>2
  <1>6. uaLeft' \subseteq uaFound /\ uaLeft' \subseteq UaNodes
    BY <1>0, <1>2
  <1>7. UaTypes'
    BY <1>0, <1>5, <1>6 DEF UaDataInv, UaTypes, UaPhases
  <1>8. UaFileInv'
    BY <1>0, <1>5, <1>6 DEF UaDataInv, UaFileInv
  <1> QED BY <1>7, <1>8 DEF UaDataInv

(* A thread of the pool begins with every device to do.                        *)
LEMMA UaSubmitFiles ==
  ASSUME UaDataInv, NEW w \in UaWorkers, UaSubmit(w)
  PROVE  UaDataInv'
  <1> DEFINE b == Head(uaQueue)
             job == [UaIdle EXCEPT !.busy = TRUE, !.batch = b, !.todo = UaDevices]
  <1>0. /\ uaQueue # <<>> /\ uaQueue' = Tail(uaQueue) /\ uaJobs' = [uaJobs EXCEPT ![w] = job]
        /\ UNCHANGED <<uaLife, uaClient, uaMisfiled>>
    BY DEF UaSubmit
  <1>1. uaQueue \in Seq(UaBatches) /\ uaJobs \in [UaWorkers -> UaJobType]
    BY DEF UaDataInv, UaTypes
  <1>2. /\ uaQueue' \in Seq(UaBatches) /\ 1 \in DOMAIN uaQueue /\ b = uaQueue[1] /\ b \in UaBatches
        /\ \A i \in DOMAIN uaQueue' : i + 1 \in DOMAIN uaQueue /\ uaQueue'[i] = uaQueue[i + 1]
    <2>1. /\ uaQueue' \in Seq(UaBatches) /\ 1 \in DOMAIN uaQueue /\ b = uaQueue[1]
          /\ \A i \in DOMAIN uaQueue' : i + 1 \in DOMAIN uaQueue /\ uaQueue'[i] = uaQueue[i + 1]
      BY <1>0, <1>1, TailParts
    <2> QED BY <1>1, <2>1, UaQueueItem
  <1> HIDE DEF b
  <1>3. /\ job \in UaJobType /\ job.sliced = FALSE /\ job.upto = 0 /\ job.batch = b
        /\ job.todo = UaDevices
    BY <1>2, UaIdleTyped DEF UaJobType
  <1> HIDE DEF job
  <1>4. uaJobs' \in [UaWorkers -> UaJobType] /\ uaJobs'[w] = job
        /\ \A v \in UaWorkers : v # w => uaJobs'[v] = uaJobs[v]
    BY <1>0, <1>1, <1>3
  <1>5. UaTypes'
    BY <1>0, <1>2, <1>4 DEF UaDataInv, UaTypes, uaClient
  <1>6. b.first => UaCut(job, b.polled)
    <2>1. b.polled \subseteq UaNodes
      BY <1>2 DEF UaBatches
    <2>2. UaDone(job, b.polled) = {}
      BY <1>3, <2>1 DEF UaDone, UaDevices
    <2>3. job.upto = Cardinality(UaDone(job, b.polled))
      BY <1>3, <2>2, FS_EmptySet
    <2>4. b.first => UaOpens(job.batch.nodes, b.polled)
      BY <1>2, <1>3 DEF UaDataInv, UaFileInv
    <2> QED BY <1>3, <2>2, <2>3, <2>4 DEF UaCut, UaAligned
  <1>7. \A v \in UaWorkers : uaJobs'[v].busy /\ uaJobs'[v].batch.first /\ uaJobs'[v].same
                               => UaCut(uaJobs'[v], uaJobs'[v].batch.polled)
    BY <1>3, <1>4, <1>6 DEF UaDataInv, UaFileInv
  <1>8. \A i \in DOMAIN uaQueue' : uaQueue'[i].first => UaOpens(uaQueue'[i].nodes, uaQueue'[i].polled)
    BY <1>2 DEF UaDataInv, UaFileInv
  <1>9. UaFileInv'
    BY <1>0, <1>7, <1>8 DEF UaDataInv, UaFileInv, uaClient
  <1> QED BY <1>5, <1>9 DEF UaDataInv

(* The list that a job goes by has nodes, and finitely many.                   *)
LEMMA UaListLength ==
  ASSUME UaDataInv, NEW w \in UaWorkers
  PROVE  Cardinality(UaListNow(uaJobs[w])) \in Nat
  <1> DEFINE listed == UaListNow(uaJobs[w])
  <1>1. uaJobs[w] \in UaJobType /\ uaFound \in SUBSET UaNodes
    BY DEF UaDataInv, UaTypes
  <1>2. listed \in SUBSET UaNodes
    BY <1>1 DEF UaListNow, UaListed, UaJobType
  <1> HIDE DEF listed
  <1>3. Cardinality(listed) \in Nat
    BY <1>2, UaRanks
  <1> QED BY <1>3 DEF listed

(* What one job's step changes.                                                *)
LEMMA UaJobFiles ==
  ASSUME UaDataInv, NEW w \in UaWorkers, NEW new \in UaJobType,
         uaJobs' = [uaJobs EXCEPT ![w] = new], UNCHANGED <<uaLife, uaClient, uaQueue>>,
         uaMisfiled' = FALSE,
         new.busy /\ new.batch.first /\ new.same => UaCut(new, new.batch.polled)
  PROVE  UaDataInv'
  <1>1. uaJobs \in [UaWorkers -> UaJobType]
    BY DEF UaDataInv, UaTypes
  <1>2. /\ uaJobs' \in [UaWorkers -> UaJobType] /\ uaJobs'[w] = new
        /\ \A v \in UaWorkers : v # w => uaJobs'[v] = uaJobs[v]
    BY <1>1
  <1>3. UaTypes'
    BY <1>2 DEF UaDataInv, UaTypes, uaClient
  <1>4. \A v \in UaWorkers : uaJobs'[v].busy /\ uaJobs'[v].batch.first /\ uaJobs'[v].same
                               => UaCut(uaJobs'[v], uaJobs'[v].batch.polled)
    BY <1>2 DEF UaDataInv, UaFileInv
  <1>5. UaFileInv'
    BY <1>4 DEF UaDataInv, UaFileInv, uaClient
  <1> QED BY <1>3, <1>5 DEF UaDataInv

(* It cuts the slice of the next device.                                       *)
LEMMA UaCutFiles ==
  ASSUME UaDataInv, NEW w \in UaWorkers, UaCutSlice(w)
  PROVE  UaDataInv'
  <1> DEFINE job == uaJobs[w]
             S == job.batch.polled
             d == UaNextDevice(job)
             now == UaListNow(job)
             end == job.upto + Cardinality(now)
             asPolled == UaAsPolled(job)
             new == [job EXCEPT !.sliced = TRUE, !.from = job.upto, !.upto = end,
                                !.same = job.same /\ asPolled]
  <1>1. job \in UaJobType /\ uaJobs \in [UaWorkers -> UaJobType]
    BY DEF UaDataInv, UaTypes
  <1>2. /\ job.busy /\ job.todo # {} /\ ~job.sliced /\ UNCHANGED <<uaLife, uaClient, uaQueue>>
        /\ uaMisfiled' = FALSE
    BY DEF UaCutSlice, UaWorkerOnly, UaDataInv, UaFileInv
  <1>3. uaJobs' = [uaJobs EXCEPT ![w] = new]
    <2>1. uaJobs' = [uaJobs EXCEPT ![w].sliced = TRUE, ![w].from = job.upto, ![w].upto = end,
                       ![w].same = @ /\ asPolled]
      BY Zenon DEF UaCutSlice
    <2> HIDE DEF end, asPolled
    <2> QED BY <1>1, <2>1
  <1>4. Cardinality(now) \in Nat /\ end \in Nat /\ asPolled \in BOOLEAN
    <2>1. Cardinality(now) \in Nat
      BY UaListLength
    <2>2. job.upto \in Nat
      BY <1>1 DEF UaJobType
    <2>3. asPolled \in BOOLEAN
      BY DEF UaAsPolled
    <2> HIDE DEF now, job, asPolled
    <2> QED BY <2>1, <2>2, <2>3
  <1>5. asPolled => now = UaListed(S, d)
    BY DEF UaAsPolled
  <1> HIDE DEF now, end, asPolled
  <1>6. /\ new \in UaJobType /\ new.busy = job.busy /\ new.batch = job.batch /\ new.todo = job.todo
        /\ new.sliced /\ new.from = job.upto /\ new.upto = end /\ new.same = (job.same /\ asPolled)
    BY <1>1, <1>4 DEF UaJobType
  <1> HIDE DEF new
  <1>7. ASSUME new.busy, new.batch.first, new.same PROVE UaCut(new, new.batch.polled)
    <2>1. UaCut(job, S) /\ now = UaListed(S, d)
      BY <1>5, <1>6, <1>7 DEF UaDataInv, UaFileInv
    <2>2. S \in SUBSET UaNodes
      BY <1>1 DEF UaJobType, UaBatches
    <2>3. UaNextDevice(new) = d /\ UaDone(new, S) = UaDone(job, S)
      BY <1>6 DEF UaNextDevice, UaDone
    <2>4. Cardinality(UaDone(job, S)) + Cardinality(UaListed(S, d))
            = Cardinality(UaDone(job, S) \cup UaListed(S, d))
      <3>1. UaAligned(job, S)
        BY <2>1 DEF UaCut
      <3> HIDE DEF job, S
      <3> QED BY <1>2, <2>2, <3>1, UaSlice DEF d
    <2>5. job.upto = Cardinality(UaDone(job, S)) /\ UaAligned(job, S)
      BY <1>2, <2>1 DEF UaCut
    <2>6. UaAligned(new, S)
      BY <1>6, <2>3, <2>5 DEF UaAligned
    <2> HIDE DEF d
    <2>7. new.from = Cardinality(UaDone(new, S)) /\ new.todo # {}
          /\ new.upto = Cardinality(UaDone(new, S) \cup UaListed(S, UaNextDevice(new)))
      BY <1>2, <1>6, <2>1, <2>3, <2>4, <2>5 DEF end
    <2> QED BY <1>6, <2>6, <2>7 DEF UaCut
  <1> HIDE DEF job
  <1> QED BY <1>2, <1>3, <1>6, <1>7, UaJobFiles

(* It files the values of the slice.                                           *)
LEMMA UaConvertFiles ==
  ASSUME UaDataInv, NEW w \in UaWorkers, UaConvertDevice(w)
  PROVE  UaDataInv'
  <1> DEFINE job == uaJobs[w]
             S == job.batch.polled
             d == UaNextDevice(job)
             now == UaListNow(job)
             new == [job EXCEPT !.todo = job.todo \ {d}, !.sliced = FALSE]
  <1>1. job \in UaJobType /\ uaJobs \in [UaWorkers -> UaJobType] /\ S \in SUBSET UaNodes
    BY DEF UaDataInv, UaTypes, UaJobType, UaBatches
  <1>2. /\ job.busy /\ job.sliced /\ UNCHANGED <<uaLife, uaClient, uaQueue>>
        /\ uaMisfiled' = (job.batch.first /\ job.same /\ UaAsPolled(job)
             /\ \E m \in job.batch.nodes, n \in now : m # n /\ UaFiled(job, m, n))
    BY DEF UaConvertDevice, UaWorkerOnly, UaDataInv, UaFileInv
  <1>3. uaJobs' = [uaJobs EXCEPT ![w] = new]
    <2>1. uaJobs' = [uaJobs EXCEPT ![w].todo = job.todo \ {d}, ![w].sliced = FALSE]
      BY Zenon DEF UaConvertDevice
    <2> HIDE DEF d
    <2> QED BY <1>1, <2>1
  <1>4. UaAsPolled(job) => now = UaListed(S, d)
    BY DEF UaAsPolled
  <1>5. \A m, n : UaFiled(job, m, n) => UaRank(job.batch.nodes, m) = job.from + UaRank(now, n)
    BY DEF UaFiled
  <1> HIDE DEF now, d
  <1>6. /\ new \in UaJobType /\ new.busy = job.busy /\ new.batch = job.batch
        /\ new.todo = job.todo \ {d} /\ ~new.sliced /\ new.upto = job.upto /\ new.same = job.same
    BY <1>1 DEF UaJobType
  <1> HIDE DEF new
  <1>7. ASSUME job.batch.first, job.same
        PROVE  /\ UaAligned(job, S) /\ job.todo # {} /\ job.from = Cardinality(UaDone(job, S))
               /\ job.upto = Cardinality(UaDone(job, S) \cup UaListed(S, d))
    BY <1>2, <1>7 DEF UaDataInv, UaFileInv, UaCut, d
  <1>8. uaMisfiled' = FALSE
    <2>1. ASSUME job.batch.first, job.same, UaAsPolled(job),
                 NEW m \in job.batch.nodes, NEW n \in now, UaFiled(job, m, n)
          PROVE  m = n
      <3>1. UaAligned(job, S) /\ job.todo # {} /\ n \in UaListed(S, d)
        BY <1>4, <1>7, <2>1
      <3>2. UaRank(job.batch.nodes, m) = Cardinality(UaDone(job, S)) + UaRank(UaListed(S, d), n)
        BY <1>4, <1>5, <1>7, <2>1
      <3> HIDE DEF job, S
      <3> QED BY <1>1, <3>1, <3>2, UaSliceFiled DEF d
    <2> HIDE DEF job
    <2> QED BY <1>2, <2>1
  <1>9. ASSUME new.busy, new.batch.first, new.same PROVE UaCut(new, new.batch.polled)
    <2>0. job.batch.first /\ job.same
      BY <1>6, <1>9
    <2>1. /\ UaAligned(job, S) /\ job.todo # {}
          /\ job.upto = Cardinality(UaDone(job, S) \cup UaListed(S, d))
      BY <1>7, <2>0
    <2>2. /\ d \in job.todo
          /\ \A m \in UaDone(job, S) \cup UaListed(S, d),
                n \in S \ (UaDone(job, S) \cup UaListed(S, d)) : UaPlace(m) < UaPlace(n)
      <3> HIDE DEF job, S
      <3> QED BY <1>1, <2>1, UaSlice DEF d
    <2>3. UaDone(new, S) = UaDone(job, S) \cup UaListed(S, d)
      BY <1>6, <2>2 DEF UaDone, UaListed
    <2>4. UaOpens(new.batch.nodes, S) /\ new.todo \subseteq UaDevices
      BY <1>6, <2>1 DEF UaAligned
    <2>5. \A m \in UaDone(new, S), n \in S \ UaDone(new, S) : UaPlace(m) < UaPlace(n)
      BY <2>2, <2>3
    <2>6. new.upto = Cardinality(UaDone(new, S))
      BY <1>6, <2>1, <2>3
    <2>7. new.batch.polled = S /\ ~new.sliced
      BY <1>6
    <2> HIDE DEF S
    <2> QED BY <2>4, <2>5, <2>6, <2>7 DEF UaCut, UaAligned
  <1> HIDE DEF job
  <1> QED BY <1>2, <1>3, <1>6, <1>8, <1>9, UaJobFiles

(* Every step of the connector.                                                *)
LEMMA UaDataStep == UaDataInv /\ [OpcuaNext]_uaVars => UaDataInv'
  <1> SUFFICES ASSUME UaDataInv, [OpcuaNext]_uaVars PROVE UaDataInv'
    OBVIOUS
  <1>1. ASSUME UNCHANGED <<uaClient, uaQueue, uaJobs, uaMisfiled>>,
               uaLife' \in {"new", "running", "stopping", "closed"}
        PROVE  UaDataInv'
    <2>1. UaFileInv'
      <3>1. UNCHANGED <<uaFound, uaMain, uaLeft>>
        BY <1>1 DEF uaClient
      <3> QED BY <1>1, <3>1, UaDataStays DEF UaDataInv, UaFileInv
    <2> QED BY <1>1, <2>1 DEF UaDataInv, UaTypes, uaClient
  <1>2. uaLife \in {"new", "running", "stopping", "closed"}
    BY DEF UaDataInv, UaTypes
  <1>3. CASE UaDataChange \/ UaConvertSubData
    BY <1>1, <1>2, <1>3 DEF UaDataChange, UaConvertSubData
  <1>4. CASE UaEnd
    <2>1. uaQueue' \in Seq(UaBatches) /\ DOMAIN uaQueue' = {} /\ uaLife' = "closed"
          /\ UNCHANGED <<uaClient, uaJobs, uaMisfiled>>
      BY <1>4 DEF UaEnd
    <2>2. UaFileInv'
      BY <2>1 DEF UaDataInv, UaFileInv, uaClient
    <2> QED BY <2>1, <2>2 DEF UaDataInv, UaTypes, uaClient
  <1>5. ASSUME NEW w \in UaWorkers, UaJobEnds(w) PROVE UaDataInv'
    <2>1. UNCHANGED <<uaLife, uaClient, uaQueue, uaMisfiled>> /\ uaJobs' = [uaJobs EXCEPT ![w] = UaIdle]
      BY <1>5 DEF UaJobEnds, UaWorkerOnly
    <2>2. uaJobs' \in [UaWorkers -> UaJobType] /\ uaJobs'[w] = UaIdle
          /\ \A v \in UaWorkers : v # w => uaJobs'[v] = uaJobs[v]
      BY <2>1, UaIdleTyped DEF UaDataInv, UaTypes
    <2>3. UaFileInv'
      BY <2>1, <2>2, UaIdleTyped DEF UaDataInv, UaFileInv, uaClient
    <2> QED BY <2>1, <2>2, <2>3 DEF UaDataInv, UaTypes, uaClient
  <1>6. ASSUME NEW q \in UaCalls, UaAsk(q) \/ UaCaller(q) \/ UaTask(q) PROVE UaDataInv'
    <2>1. UNCHANGED <<uaLife, uaClient, uaData>>
      BY <1>6 DEF UaAsk, UaCaller, UaTask, UaBadRequest, UaDeviceRequest, UaReservedRequest,
             UaAttributeUpdate, UaFindPath, UaAnswer, UaTimeout, UaCallOnly
    <2> QED BY <1>1, <1>2, <2>1 DEF uaData
  <1>7. CASE UNCHANGED uaVars
    BY <1>1, <1>2, <1>7 DEF uaVars, uaData
  <1>8. CASE UaOpen \/ UaStop
    BY <1>1, <1>8 DEF UaOpen, UaStop, uaData
  <1>9. ASSUME NEW w \in UaWorkers, UaSubmit(w) \/ UaWorker(w) PROVE UaDataInv'
    BY <1>5, <1>9, UaSubmitFiles, UaCutFiles, UaConvertFiles DEF UaWorker
  <1>10. CASE UaOpen \/ UaNewClient \/ UaConnect \/ UaLost \/ UaFails \/ UaLeaveLoop
              \/ UaScanDue \/ UaPollDue \/ UaMainEnd
    BY <1>8, <1>10, UaQuietFiles, UaConnectFiles
  <1>11. CASE UaCreateDevices \/ UaScanDevice \/ UaScanNode \/ UaPollBatch
              \/ UaDataChange \/ UaConvertSubData \/ UaStop
    BY <1>4, <1>3, <1>8, <1>11, UaQuietFiles, UaScanFiles, UaPollFiles
  <1> QED BY <1>4, <1>5, <1>6, <1>7, <1>9, <1>10, <1>11 DEF OpcuaNext

(* The invariants give the types.                                              *)
LEMMA UaShaped == UaDataInv /\ UaCallInv /\ UaPipeInv => OpcuaTypeOK
  <1> SUFFICES ASSUME UaDataInv, UaCallInv, UaPipeInv PROVE OpcuaTypeOK
    OBVIOUS
  <1>1. uaScan \in 0..Len(UaOrder)
    BY UaPlaces DEF UaDataInv, UaTypes
  <1> QED BY <1>1 DEF UaDataInv, UaTypes, UaFileInv, UaJobType, UaSubTypes, UaPhases,
             UaCallInv, UaCallType, UaPipeInv, UaPipeTypes, FateType, OpcuaTypeOK

-----------------------------------------------------------------------------
(* The types of the BACnet connector.                                          *)
BnScanType == [at : {"idle", "name", "whole", "length", "ids", "names"},
               unit : BnUnits \cup {BnNoUnit}, base : SUBSET BnObjects,
               todo : SUBSET BnObjects, found : SUBSET BnObjects]

(* A discovery is one of a device's objects, and its device has been added     *)
(* once its name is known; while it asks for indexes one is left.              *)
BnScanSound(s, on) ==
    /\ s.at # "idle" => s.unit \in BnUnits
    /\ s.at \notin {"idle", "name"} => s.unit \in on
    /\ s.at = "ids" => s.todo # {}

BnFieldTypes ==
    /\ bnIams \in Seq(BnDevices) /\ bnOn \subseteq BnUnits /\ bnTimers \subseteq bnOn
    /\ bnScan \in [BnScans -> BnScanType]
    /\ \A t \in BnScans : BnScanSound(bnScan[t], bnOn)
    /\ bnConfig \in [BnUnits -> SUBSET BnObjects] /\ bnFailed \in [BnUnits -> SUBSET BnObjects]

(* The callers that have been told of an error; each may have left a request   *)
(* behind that the stack still answers.                                        *)
BnErrors == {q \in BnCalls : bnCall[q].caller = "error"}

BnLoopTypes ==
    /\ bnLife \in {"new", "running", "stopping", "closed"} /\ bnApp \in BOOLEAN
    /\ bnQueue \in Seq(BnUnits) /\ Len(bnQueue) <= BnQueueBound
    /\ bnOrphans \in Nat /\ bnOrphans <= Cardinality(BnErrors)
    /\ bnDeaf \in BOOLEAN /\ bnCut \in BOOLEAN

BnTypeInv == BnFieldTypes /\ BnLoopTypes

(* Nothing is known yet.                                                       *)
LEMMA BnTypeInit == BacnetInit => BnTypeInv
  <1> SUFFICES ASSUME BacnetInit PROVE BnTypeInv
    OBVIOUS
  <1>1. BnNoScan \in BnScanType /\ \A on : BnScanSound(BnNoScan, on)
    BY DEF BnNoScan, BnScanType, BnScanSound
  <1>2. BnFieldTypes
    BY <1>1 DEF BacnetInit, BnFieldTypes
  <1>3. bnOrphans \in Nat /\ bnOrphans <= Cardinality(BnErrors)
    <2>1. BnErrors \subseteq BnCalls /\ IsFiniteSet(BnCalls)
      BY BacnetAssumption DEF BnErrors
    <2>2. Cardinality(BnErrors) \in Nat
      BY <2>1, FS_Subset, FS_CardinalityType
    <2> QED BY <2>2 DEF BacnetInit
  <1>4. BnLoopTypes
    <2>1. bnQueue \in Seq(BnUnits) /\ Len(bnQueue) = 0
      BY DEF BacnetInit
    <2>2. Len(bnQueue) <= BnQueueBound
      BY <2>1, BacnetAssumption
    <2>3. /\ bnLife \in {"new", "running", "stopping", "closed"} /\ bnApp \in BOOLEAN
          /\ bnDeaf \in BOOLEAN /\ bnCut \in BOOLEAN
      BY DEF BacnetInit
    <2> QED BY <1>3, <2>1, <2>2, <2>3, Zenon DEF BnLoopTypes
  <1> QED BY <1>2, <1>4 DEF BnTypeInv

(* The scan of one task changes; the devices that are known stay known.        *)
LEMMA BnScanTyped ==
  ASSUME BnFieldTypes, NEW t \in BnScans, NEW x \in BnScanType, BnScanSound(x, bnOn'),
         bnScan' = [bnScan EXCEPT ![t] = x], bnOn \subseteq bnOn', bnOn' \subseteq BnUnits,
         bnTimers' \subseteq bnOn', bnIams' \in Seq(BnDevices),
         bnConfig' \in [BnUnits -> SUBSET BnObjects], bnFailed' \in [BnUnits -> SUBSET BnObjects]
  PROVE  BnFieldTypes'
  <1>1. bnScan \in [BnScans -> BnScanType]
    BY DEF BnFieldTypes
  <1>2. bnScan' \in [BnScans -> BnScanType]
    BY <1>1
  <1>3. ASSUME NEW r \in BnScans PROVE BnScanSound(bnScan'[r], bnOn')
    <2>1. CASE r = t
      BY <1>1, <2>1
    <2>2. CASE r # t
      <3>1. bnScan'[r] = bnScan[r] /\ BnScanSound(bnScan[r], bnOn)
        BY <1>1, <2>2 DEF BnFieldTypes
      <3> QED BY <3>1 DEF BnScanSound
    <2> QED BY <2>1, <2>2
  <1> QED BY <1>2, <1>3 DEF BnFieldTypes

(* The next Device object of a device is one that was listed, its scan sound.  *)
LEMMA BnAddTyped ==
  ASSUME BnFieldTypes, bnOn \subseteq bnOn', bnOn' \subseteq BnUnits,
         bnTimers' \subseteq bnOn', bnIams' \in Seq(BnDevices),
         bnConfig' \in [BnUnits -> SUBSET BnObjects], bnFailed' \in [BnUnits -> SUBSET BnObjects],
         \/ \E u \in BnUnits : BnAddUnit(u)
         \/ bnScan' = [bnScan EXCEPT !["add"] = BnNoScan]
  PROVE  BnFieldTypes'
  <1>1. "add" \in BnScans
    BY DEF BnScans
  <1>2. BnNoScan \in BnScanType /\ BnScanSound(BnNoScan, bnOn')
    BY DEF BnNoScan, BnScanType, BnScanSound
  <1>3. CASE bnScan' = [bnScan EXCEPT !["add"] = BnNoScan]
    BY <1>1, <1>2, <1>3, BnScanTyped
  <1>4. ASSUME NEW u \in BnUnits, BnAddUnit(u) PROVE BnFieldTypes'
    <2> DEFINE x == [BnNoScan EXCEPT !.at = "name", !.unit = u]
    <2>1. bnScan' = [bnScan EXCEPT !["add"] = x]
      BY <1>4, Zenon DEF BnAddUnit
    <2>2. x \in BnScanType /\ BnScanSound(x, bnOn')
      BY DEF BnNoScan, BnScanType, BnScanSound
    <2> HIDE DEF x
    <2> QED BY <1>1, <2>1, <2>2, BnScanTyped
  <1> QED BY <1>3, <1>4

(* A discovery ends: the device's rescan timer may start.                      *)
LEMMA BnDiscoveredTyped ==
  ASSUME BnFieldTypes, NEW t \in BnScans, NEW u, u \in bnOn', BnDiscovered(t, u),
         bnOn \subseteq bnOn', bnOn' \subseteq BnUnits, bnIams' \in Seq(BnDevices),
         bnConfig' \in [BnUnits -> SUBSET BnObjects], bnFailed' \in [BnUnits -> SUBSET BnObjects]
  PROVE  BnFieldTypes'
  <1>0. bnTimers \subseteq bnOn
    BY DEF BnFieldTypes
  <1>1. CASE t = "add" /\ BnAdded(u)
    <2>1. bnTimers' \subseteq bnOn'
      BY <1>0, <1>1 DEF BnAdded
    <2>2. \/ \E v \in BnUnits : BnAddUnit(v)
          \/ bnScan' = [bnScan EXCEPT !["add"] = BnNoScan]
      BY <1>1, Zenon DEF BnAdded
    <2> QED BY <2>1, <2>2, BnAddTyped
  <1>2. CASE bnScan' = [bnScan EXCEPT ![t] = BnNoScan] /\ UNCHANGED bnTimers
    <2>1. BnNoScan \in BnScanType /\ BnScanSound(BnNoScan, bnOn')
      BY DEF BnNoScan, BnScanType, BnScanSound
    <2>2. bnTimers' \subseteq bnOn'
      BY <1>0, <1>2
    <2> QED BY <1>2, <2>1, <2>2, BnScanTyped
  <1> QED BY <1>1, <1>2 DEF BnDiscovered

(* What a device has.                                                          *)
LEMMA BnObjectsTyped ==
  ASSUME NEW u \in BnUnits
  PROVE  u[1] \in BnDevices /\ BnObjectsOf[u[1]] \in SUBSET BnObjects /\ BnObjectsOf[u[1]] # {}
  <1>1. u[1] \in BnDevices
    BY DEF BnUnits
  <1> QED BY <1>1, BacnetAssumption DEF BnObjects

(* Every step of the additions and discoveries.                                *)
LEMMA BnFieldStep ==
  ASSUME BnFieldTypes,
         \/ BnIndication \/ BnRegister \/ BnScanWhole \/ BnScanLength
         \/ \E d \in BnDevices : BnIAm(d)
         \/ \E t \in BnScans : BnScanIndex(t) \/ BnScanNames(t)
         \/ \E t \in BnRescans : BnRescan(t)
  PROVE  BnFieldTypes'
  <1>0. /\ bnIams \in Seq(BnDevices) /\ bnOn \subseteq BnUnits /\ bnTimers \subseteq bnOn
        /\ bnScan \in [BnScans -> BnScanType] /\ (\A t \in BnScans : BnScanSound(bnScan[t], bnOn))
        /\ bnConfig \in [BnUnits -> SUBSET BnObjects] /\ bnFailed \in [BnUnits -> SUBSET BnObjects]
        /\ "add" \in BnScans /\ BnRescans \subseteq BnScans
    BY DEF BnFieldTypes, BnScans
  <1>1. ASSUME NEW d \in BnDevices, BnIAm(d) PROVE BnFieldTypes'
    BY <1>0, <1>1 DEF BnIAm, BnFieldTypes
  <1>2. CASE BnIndication
    <2>1. bnIams' \in Seq(BnDevices) /\ UNCHANGED <<bnOn, bnConfig, bnFailed, bnTimers>>
      BY <1>0, <1>2 DEF BnIndication
    <2>2. UNCHANGED bnScan \/ \E u \in BnUnits : BnAddUnit(u)
      BY <1>2, Zenon DEF BnIndication
    <2>3. CASE UNCHANGED bnScan
      BY <1>0, <2>1, <2>3 DEF BnFieldTypes
    <2>4. CASE \E u \in BnUnits : BnAddUnit(u)
      BY <1>0, <2>1, <2>4, BnAddTyped
    <2> QED BY <2>2, <2>3, <2>4
  <1>3. CASE BnRegister
    <2> DEFINE u == bnScan["add"].unit
    <2>1. u \in BnUnits /\ BnObjectsOf[u[1]] \in SUBSET BnObjects
      <3>1. bnScan["add"].at = "name"
        BY <1>3 DEF BnRegister
      <3>2. u \in BnUnits
        BY <1>0, <3>1 DEF BnScanSound
      <3> QED BY <3>2, BnObjectsTyped
    <2>2. bnOn' = bnOn \cup {u} /\ UNCHANGED <<bnIams, bnFailed>>
      BY <1>3, Zenon DEF BnRegister
    <2>3. \/ bnConfig' = [bnConfig EXCEPT ![u] = BnObjectsOf[u[1]]] /\ BnAdded(u)
          \/ BnListObjects /\ UNCHANGED <<bnConfig, bnTimers>>
      BY <1>3, Zenon DEF BnRegister
    <2>4. CASE bnConfig' = [bnConfig EXCEPT ![u] = BnObjectsOf[u[1]]] /\ BnAdded(u)
      <3>1. bnConfig' \in [BnUnits -> SUBSET BnObjects]
        BY <1>0, <2>1, <2>4
      <3>2. BnDiscovered("add", u)
        BY <2>4, Zenon DEF BnDiscovered
      <3>3. u \in bnOn' /\ bnOn \subseteq bnOn' /\ bnOn' \subseteq BnUnits
        BY <1>0, <2>1, <2>2
      <3> HIDE DEF u
      <3> QED BY <1>0, <2>2, <3>1, <3>2, <3>3, BnDiscoveredTyped
    <2>5. CASE BnListObjects /\ UNCHANGED <<bnConfig, bnTimers>>
      <3>1. PICK a \in {"whole", "length"} : bnScan' = [bnScan EXCEPT !["add"].at = a]
        BY <2>5 DEF BnListObjects
      <3> DEFINE x == [bnScan["add"] EXCEPT !.at = a]
      <3>2. bnScan["add"] \in BnScanType
        BY <1>0
      <3>3. x \in BnScanType /\ x.at = a /\ x.unit = u
        BY <3>2 DEF BnScanType
      <3>4. BnScanSound(x, bnOn')
        BY <2>1, <2>2, <3>3 DEF BnScanSound
      <3>5. bnScan' = [bnScan EXCEPT !["add"] = x]
        BY <3>1
      <3>6. u \in bnOn' /\ bnOn \subseteq bnOn' /\ bnOn' \subseteq BnUnits
        BY <1>0, <2>1, <2>2
      <3>7. /\ bnTimers' \subseteq bnOn' /\ bnIams' \in Seq(BnDevices)
            /\ bnConfig' \in [BnUnits -> SUBSET BnObjects] /\ bnFailed' \in [BnUnits -> SUBSET BnObjects]
        BY <1>0, <2>2, <2>5, <3>6
      <3> HIDE DEF x, u
      <3> QED BY <1>0, <3>3, <3>4, <3>5, <3>6, <3>7, BnScanTyped
    <2> QED BY <2>3, <2>4, <2>5
  <1>4. CASE BnScanWhole
    <2> DEFINE u == bnScan["add"].unit
    <2>1. u \in BnUnits /\ u \in bnOn /\ BnObjectsOf[u[1]] \in SUBSET BnObjects
      <3>1. bnScan["add"].at = "whole"
        BY <1>4 DEF BnScanWhole
      <3>2. u \in bnOn
        BY <1>0, <3>1 DEF BnScanSound
      <3> QED BY <1>0, <3>2, BnObjectsTyped
    <2>2. UNCHANGED <<bnIams, bnOn, bnConfig, bnFailed>>
      BY <1>4, Zenon DEF BnScanWhole
    <2>3. \/ BnAdded(u)
          \/ UNCHANGED bnTimers
             /\ bnScan' = [bnScan EXCEPT !["add"].at = "names", !["add"].found = BnObjectsOf[u[1]]]
      BY <1>4, Zenon DEF BnScanWhole
    <2>4. CASE BnAdded(u)
      <3>1. BnDiscovered("add", u)
        BY <2>4, Zenon DEF BnDiscovered
      <3>2. u \in bnOn' /\ bnOn \subseteq bnOn' /\ bnOn' \subseteq BnUnits
        BY <1>0, <2>1, <2>2
      <3> HIDE DEF u
      <3> QED BY <1>0, <2>2, <3>1, <3>2, BnDiscoveredTyped
    <2>5. CASE UNCHANGED bnTimers
             /\ bnScan' = [bnScan EXCEPT !["add"].at = "names", !["add"].found = BnObjectsOf[u[1]]]
      <3> DEFINE x == [bnScan["add"] EXCEPT !.at = "names", !.found = BnObjectsOf[u[1]]]
      <3>2. bnScan["add"] \in BnScanType
        BY <1>0
      <3>3. x \in BnScanType /\ x.at = "names" /\ x.unit = u
        BY <2>1, <3>2 DEF BnScanType
      <3>4. BnScanSound(x, bnOn')
        BY <2>1, <2>2, <3>3 DEF BnScanSound
      <3>5. bnScan' = [bnScan EXCEPT !["add"] = x]
        BY <1>0, <2>5
      <3> HIDE DEF x, u
      <3> QED BY <1>0, <2>2, <2>5, <3>3, <3>4, <3>5, BnScanTyped
    <2> QED BY <2>3, <2>4, <2>5
  <1>5. CASE BnScanLength
    <2> DEFINE u == bnScan["add"].unit
    <2>1. /\ u \in BnUnits /\ u \in bnOn
          /\ BnObjectsOf[u[1]] \in SUBSET BnObjects /\ BnObjectsOf[u[1]] # {}
      <3>1. bnScan["add"].at = "length"
        BY <1>5 DEF BnScanLength
      <3>2. u \in bnOn
        BY <1>0, <3>1 DEF BnScanSound
      <3> QED BY <1>0, <3>2, BnObjectsTyped
    <2>2. UNCHANGED <<bnIams, bnOn, bnConfig, bnFailed>>
      BY <1>5, Zenon DEF BnScanLength
    <2>3. \/ BnAdded(u)
          \/ UNCHANGED bnTimers
             /\ bnScan' = [bnScan EXCEPT !["add"].at = "ids", !["add"].todo = BnObjectsOf[u[1]]]
      BY <1>5, Zenon DEF BnScanLength
    <2>4. CASE BnAdded(u)
      <3>1. BnDiscovered("add", u)
        BY <2>4, Zenon DEF BnDiscovered
      <3>2. u \in bnOn' /\ bnOn \subseteq bnOn' /\ bnOn' \subseteq BnUnits
        BY <1>0, <2>1, <2>2
      <3> HIDE DEF u
      <3> QED BY <1>0, <2>2, <3>1, <3>2, BnDiscoveredTyped
    <2>5. CASE UNCHANGED bnTimers
             /\ bnScan' = [bnScan EXCEPT !["add"].at = "ids", !["add"].todo = BnObjectsOf[u[1]]]
      <3> DEFINE x == [bnScan["add"] EXCEPT !.at = "ids", !.todo = BnObjectsOf[u[1]]]
      <3>2. bnScan["add"] \in BnScanType
        BY <1>0
      <3>3. x \in BnScanType /\ x.at = "ids" /\ x.unit = u /\ x.todo = BnObjectsOf[u[1]]
        BY <2>1, <3>2 DEF BnScanType
      <3>4. BnScanSound(x, bnOn')
        BY <2>1, <2>2, <3>3 DEF BnScanSound
      <3>5. bnScan' = [bnScan EXCEPT !["add"] = x]
        BY <1>0, <2>5
      <3> HIDE DEF x, u
      <3> QED BY <1>0, <2>2, <2>5, <3>3, <3>4, <3>5, BnScanTyped
    <2> QED BY <2>3, <2>4, <2>5
  <1>6. ASSUME NEW t \in BnScans, BnScanIndex(t) PROVE BnFieldTypes'
    <2> DEFINE s == bnScan[t]
               i == CHOOSE i \in s.todo : TRUE
               left == s.todo \ {i}
               found == IF bnReq[t] = "ok" THEN s.found \cup {i} ELSE s.found
               failed == IF bnReq[t] = "ok" THEN bnFailed[s.unit] ELSE bnFailed[s.unit] \cup {i}
               f == IF left = {} THEN failed \ found ELSE failed
               a == IF left = {} THEN "names" ELSE "ids"
    <2>1. s \in BnScanType /\ s.at = "ids" /\ s.unit \in bnOn /\ s.unit \in BnUnits /\ i \in s.todo
      <3>1. s \in BnScanType /\ BnScanSound(s, bnOn)
        BY <1>0
      <3>2. s.at = "ids"
        BY <1>6, Zenon DEF BnScanIndex
      <3>3. s.todo # {} /\ s.unit \in bnOn
        BY <3>1, <3>2 DEF BnScanSound
      <3> QED BY <1>0, <3>1, <3>2, <3>3
    <2>2. UNCHANGED <<bnIams, bnOn, bnConfig>> /\ bnFailed' = [bnFailed EXCEPT ![s.unit] = f]
      BY <1>6, Zenon DEF BnScanIndex
    <2>3. \/ BnDiscovered(t, s.unit)
          \/ UNCHANGED bnTimers
             /\ bnScan' = [bnScan EXCEPT ![t].todo = left, ![t].found = found, ![t].at = a]
      BY <1>6, Zenon DEF BnScanIndex
    <2>4. /\ left \in SUBSET BnObjects /\ found \in SUBSET BnObjects /\ f \in SUBSET BnObjects
          /\ a \in {"names", "ids"} /\ (a = "ids" => left # {})
      BY <1>0, <2>1 DEF BnScanType
    <2> HIDE DEF i, left, found, failed, f, a
    <2>5. bnFailed' \in [BnUnits -> SUBSET BnObjects]
      BY <1>0, <2>1, <2>2, <2>4
    <2>6. CASE BnDiscovered(t, s.unit)
      <3> HIDE DEF s
      <3> QED BY <1>0, <2>1, <2>2, <2>5, <2>6, BnDiscoveredTyped
    <2>7. CASE UNCHANGED bnTimers
             /\ bnScan' = [bnScan EXCEPT ![t].todo = left, ![t].found = found, ![t].at = a]
      <3> DEFINE x == [s EXCEPT !.todo = left, !.found = found, !.at = a]
      <3>1. x \in BnScanType /\ x.at = a /\ x.unit = s.unit /\ x.todo = left
        BY <2>1, <2>4 DEF BnScanType
      <3>2. BnScanSound(x, bnOn')
        BY <2>1, <2>2, <2>4, <3>1 DEF BnScanSound
      <3>3. bnScan' = [bnScan EXCEPT ![t] = x]
        BY <1>0, <2>7
      <3> HIDE DEF x, s
      <3> QED BY <1>0, <2>2, <2>5, <2>7, <3>1, <3>2, <3>3, BnScanTyped
    <2> QED BY <2>3, <2>6, <2>7
  <1>7. ASSUME NEW t \in BnScans, BnScanNames(t) PROVE BnFieldTypes'
    <2> DEFINE s == bnScan[t]
               c == IF bnReq[t] = "ok" THEN s.base \cup s.found ELSE s.base
    <2>1. s \in BnScanType /\ s.unit \in bnOn /\ s.unit \in BnUnits
      <3>1. s.at = "names" /\ s \in BnScanType /\ BnScanSound(s, bnOn)
        BY <1>0, <1>7 DEF BnScanNames
      <3>2. s.unit \in bnOn
        BY <3>1 DEF BnScanSound
      <3> QED BY <1>0, <3>1, <3>2
    <2>2. /\ UNCHANGED <<bnIams, bnOn, bnFailed>> /\ BnDiscovered(t, s.unit)
          /\ bnConfig' = [bnConfig EXCEPT ![s.unit] = c]
      BY <1>7, Zenon DEF BnScanNames
    <2>3. c \in SUBSET BnObjects
      BY <2>1 DEF BnScanType
    <2> HIDE DEF c
    <2>4. bnConfig' \in [BnUnits -> SUBSET BnObjects]
      BY <1>0, <2>1, <2>2, <2>3
    <2> HIDE DEF s
    <2> QED BY <1>0, <2>1, <2>2, <2>4, BnDiscoveredTyped
  <1>8. ASSUME NEW t \in BnRescans, BnRescan(t) PROVE BnFieldTypes'
    <2>1. PICK u \in bnTimers :
            /\ bnFailed[u] # {}
            /\ bnScan' = [bnScan EXCEPT ![t] = [at |-> "ids", unit |-> u, base |-> bnConfig[u],
                                                todo |-> bnFailed[u], found |-> {}]]
      BY <1>8 DEF BnRescan
    <2>2. UNCHANGED <<bnIams, bnOn, bnConfig, bnFailed, bnTimers>>
      BY <1>8 DEF BnRescan
    <2> DEFINE x == [at |-> "ids", unit |-> u, base |-> bnConfig[u],
                     todo |-> bnFailed[u], found |-> {}]
    <2>3. u \in BnUnits /\ u \in bnOn
      BY <1>0
    <2>4. x \in BnScanType
      BY <1>0, <2>3 DEF BnScanType
    <2>5. BnScanSound(x, bnOn')
      BY <2>1, <2>2, <2>3 DEF BnScanSound
    <2>6. bnScan' = [bnScan EXCEPT ![t] = x]
      BY <2>1
    <2> HIDE DEF x
    <2> QED BY <1>0, <2>2, <2>4, <2>5, <2>6, BnScanTyped
  <1> QED BY <1>1, <1>2, <1>3, <1>4, <1>5, <1>6, <1>7, <1>8

(* A caller that was told of an error stays so.                                *)
LEMMA BnErrorsStay ==
  ASSUME BnWireTypes, [BacnetNext]_bnVars
  PROVE  BnErrors \subseteq BnErrors'
  <1>0. bnCall \in [BnCalls -> BnCallType]
    BY DEF BnWireTypes
  <1> SUFFICES ASSUME NEW q \in BnCalls, bnCall[q].caller = "error"
               PROVE  bnCall'[q].caller = "error"
    BY DEF BnErrors
  <1>1. CASE UNCHANGED bnCall
    BY <1>1
  <1>2. ASSUME NEW w \in BnWho, BnAnswered(w) PROVE bnCall'[q].caller = "error"
    <2>1. PICK good \in BOOLEAN, reached \in BOOLEAN :
             bnCall' = IF w \in BnCalls
                       THEN [bnCall EXCEPT ![w].applied = /\ reached /\ bnCall[w].task = "request"
                                                          /\ bnCall[w].kind # "read"]
                       ELSE bnCall
      BY <1>2 DEF BnAnswered
    <2> QED BY <1>0, <2>1 DEF BnCallType
  <1>3. CASE BnEnd
    <2>1. bnCall'[q] = IF bnCall[q].task \in {"lookup", "request"}
                       THEN [bnCall[q] EXCEPT !.task = "cancelled"] ELSE bnCall[q]
      BY <1>3 DEF BnEnd
    <2>2. bnCall[q] \in BnCallType
      BY <1>0
    <2> QED BY <2>1, <2>2 DEF BnCallType
  <1>4. ASSUME NEW p \in BnCalls, BnAsk(p) PROVE bnCall'[q].caller = "error"
    <2>1. PICK k \in BnKinds :
            bnCall' = [bnCall EXCEPT ![p].caller = "open", ![p].kind = k]
      BY <1>4, Zenon DEF BnAsk
    <2>2. p # q
      BY <1>4 DEF BnAsk
    <2> QED BY <1>0, <2>1, <2>2
  <1>5. ASSUME NEW p \in BnCalls, BnRequest(p) PROVE bnCall'[q].caller = "error"
    <2>1. p # q
      BY <1>5 DEF BnRequest, BnBadRequest, BnNoDevice, BnDeviceRequest, BnReservedRequest,
                  BnAttributeUpdate, BnUnasked
    <2>2. \/ \E x : bnCall' = [bnCall EXCEPT ![p].caller = x]
          \/ \E x : bnCall' = [bnCall EXCEPT ![p].task = x]
      BY <1>5 DEF BnRequest, BnBadRequest, BnNoDevice, BnDeviceRequest, BnReservedRequest,
                  BnAttributeUpdate, BnNewTask
    <2> QED BY <1>0, <2>1, <2>2
  <1>6. ASSUME NEW p \in BnCalls, BnReply(p) \/ BnCancelled(p) \/ BnTimeout(p)
        PROVE bnCall'[q].caller = "error"
    <2>1. p # q
      BY <1>6 DEF BnReply, BnCancelled, BnTimeout
    <2>2. \E x : bnCall' = [bnCall EXCEPT ![p].caller = x, ![p].task = "none"]
      BY <1>6 DEF BnReply, BnCancelled, BnTimeout
    <2> QED BY <1>0, <2>1, <2>2
  <1>7. ASSUME NEW p \in BnCalls, BnLookedUp(p) PROVE bnCall'[q].caller = "error"
    <2>1. bnCall' = [bnCall EXCEPT ![p].task = "request"]
      BY <1>7 DEF BnLookedUp
    <2>2. bnCall[p] \in BnCallType /\ bnCall[q] \in BnCallType
      BY <1>0
    <2> QED BY <1>0, <2>1, <2>2 DEF BnCallType
  <1>8. \/ UNCHANGED bnCall \/ BnEnd \/ \E w \in BnWho : BnAnswered(w)
        \/ \E p \in BnCalls : BnAsk(p) \/ BnRequest(p) \/ BnReply(p) \/ BnCancelled(p)
                              \/ BnTimeout(p) \/ BnLookedUp(p)
    <2>1. CASE BnOpen \/ BnOrphanAnswered \/ BnConfirm \/ BnConvert \/ BnSave \/ BnStop
      BY <2>1 DEF BnOpen, BnOrphanAnswered, BnConfirm, BnConvert, BnSave, BnStop
    <2>2. CASE \/ BnIndication \/ BnRegister \/ BnScanWhole \/ BnScanLength
               \/ (\E d \in BnDevices : BnIAm(d))
               \/ (\E t \in BnScans : BnScanIndex(t) \/ BnScanNames(t))
               \/ \E t \in BnRescans : BnRescan(t)
      <3>1. BnFieldOnly
        BY <2>2, Zenon DEF BnIAm, BnIndication, BnRegister, BnScanWhole, BnScanLength,
                           BnScanIndex, BnScanNames, BnRescan
      <3> QED BY <3>1 DEF BnFieldOnly
    <2>3. CASE (\E u \in BnUnits : BnPollTimer(u)) \/ \E p \in BnPolls : BnTakePoll(p) \/ BnPollStep(p)
      BY <2>3 DEF BnPollTimer, BnTakePoll, BnPollStep
    <2>4. CASE UNCHANGED bnVars
      BY <2>4 DEF bnVars
    <2> QED BY <2>1, <2>2, <2>3, <2>4 DEF BacnetNext, BnCaller
  <1> QED BY <1>1, <1>2, <1>3, <1>4, <1>5, <1>6, <1>7, <1>8

(* So no more late answers are waited for than there are callers in error.     *)
LEMMA BnOrphansBounded ==
  ASSUME BnCallInv, bnOrphans \in Nat, bnOrphans <= Cardinality(BnErrors), [BacnetNext]_bnVars
  PROVE  bnOrphans' \in Nat /\ bnOrphans' <= Cardinality(BnErrors')
  <1>1. /\ IsFiniteSet(BnErrors) /\ IsFiniteSet(BnErrors') /\ Cardinality(BnErrors) \in Nat
        /\ Cardinality(BnErrors') \in Nat /\ Cardinality(BnErrors) <= Cardinality(BnErrors')
    <2>1. BnErrors' \subseteq BnCalls /\ IsFiniteSet(BnCalls)
      BY BacnetAssumption DEF BnErrors
    <2>2. IsFiniteSet(BnErrors')
      BY <2>1, FS_Subset
    <2>3. BnErrors \subseteq BnErrors'
      BY BnErrorsStay DEF BnCallInv
    <2> HIDE DEF BnErrors
    <2> QED BY <2>2, <2>3, FS_Subset, FS_CardinalityType
  <1>2. CASE UNCHANGED bnOrphans
    BY <1>1, <1>2
  <1>3. CASE BnOrphanAnswered
    <2>1. bnOrphans > 0 /\ bnOrphans' = bnOrphans - 1
      BY <1>3 DEF BnOrphanAnswered
    <2> QED BY <1>1, <2>1
  <1>4. CASE BnEnd
    <2>1. bnOrphans' = 0
      BY <1>4 DEF BnEnd
    <2> QED BY <1>1, <2>1
  <1>5. ASSUME NEW q \in BnCalls, BnTimeout(q)
        PROVE bnOrphans' \in Nat /\ bnOrphans' <= Cardinality(BnErrors')
    <2>1. bnOrphans' \in {bnOrphans, bnOrphans + 1} /\ q \notin BnErrors
      BY <1>5 DEF BnTimeout, BnErrors
    <2>2. q \in BnErrors'
      <3>1. bnCall' = [bnCall EXCEPT ![q].caller = "error", ![q].task = "none"]
        BY <1>5 DEF BnTimeout
      <3>2. bnCall \in [BnCalls -> BnCallType]
        BY DEF BnCallInv, BnWireTypes
      <3>3. bnCall[q] \in BnCallType
        BY <3>2
      <3>4. bnCall'[q].caller = "error"
        BY <3>1, <3>2, <3>3 DEF BnCallType
      <3> QED BY <3>4 DEF BnErrors
    <2>3. BnErrors \cup {q} \subseteq BnErrors'
      BY <2>2, BnErrorsStay DEF BnCallInv
    <2> HIDE DEF BnErrors
    <2>4. Cardinality(BnErrors \cup {q}) = Cardinality(BnErrors) + 1
      BY <1>1, <2>1, FS_AddElement
    <2>5. Cardinality(BnErrors \cup {q}) <= Cardinality(BnErrors')
      BY <1>1, <2>3, FS_Subset
    <2> QED BY <1>1, <2>1, <2>4, <2>5
  <1>6. UNCHANGED bnOrphans \/ BnOrphanAnswered \/ BnEnd \/ \E q \in BnCalls : BnTimeout(q)
    <2>1. CASE BnOpen \/ BnConfirm \/ BnConvert \/ BnSave \/ BnStop
      BY <2>1 DEF BnOpen, BnConfirm, BnConvert, BnSave, BnStop, bnWire
    <2>2. CASE \/ BnIndication \/ BnRegister \/ BnScanWhole \/ BnScanLength
               \/ (\E d \in BnDevices : BnIAm(d))
               \/ (\E t \in BnScans : BnScanIndex(t) \/ BnScanNames(t))
               \/ \E t \in BnRescans : BnRescan(t)
      <3>1. BnFieldOnly
        BY <2>2, Zenon DEF BnIAm, BnIndication, BnRegister, BnScanWhole, BnScanLength,
                           BnScanIndex, BnScanNames, BnRescan
      <3> QED BY <3>1 DEF BnFieldOnly
    <2>3. CASE (\E u \in BnUnits : BnPollTimer(u)) \/ \E p \in BnPolls : BnTakePoll(p) \/ BnPollStep(p)
      BY <2>3 DEF BnPollTimer, BnTakePoll, BnPollStep, bnWire
    <2>4. CASE UNCHANGED bnVars
      BY <2>4 DEF bnVars, bnWire
    <2>5. CASE \E w \in BnWho : BnAnswered(w)
      BY <2>5 DEF BnAnswered
    <2>6. CASE \E q \in BnCalls : BnAsk(q) \/ BnReply(q) \/ BnCancelled(q) \/ BnLookedUp(q)
      BY <2>6 DEF BnAsk, BnReply, BnCancelled, BnLookedUp, bnWire
    <2>7. CASE \E q \in BnCalls : BnRequest(q)
      BY <2>7 DEF BnRequest, BnBadRequest, BnNoDevice, BnDeviceRequest, BnReservedRequest,
                  BnAttributeUpdate, bnWire
    <2> QED BY <2>1, <2>2, <2>3, <2>4, <2>5, <2>6, <2>7 DEF BacnetNext, BnCaller
  <1> QED BY <1>2, <1>3, <1>4, <1>5, <1>6

(* The rest of the state in every step.                                        *)
LEMMA BnLoopStep ==
  ASSUME BnCallInv, BnLoopTypes, [BacnetNext]_bnVars
  PROVE  BnLoopTypes'
  <1>1. bnOrphans' \in Nat /\ bnOrphans' <= Cardinality(BnErrors')
    BY BnOrphansBounded DEF BnLoopTypes
  <1>2. /\ bnLife \in {"new", "running", "stopping", "closed"} /\ bnApp \in BOOLEAN
        /\ bnQueue \in Seq(BnUnits) /\ Len(bnQueue) <= BnQueueBound
        /\ bnDeaf \in BOOLEAN /\ bnCut \in BOOLEAN
    BY DEF BnLoopTypes
  <1> DEFINE Typed ==
        /\ bnLife' \in {"new", "running", "stopping", "closed"} /\ bnApp' \in BOOLEAN
        /\ bnQueue' \in Seq(BnUnits) /\ Len(bnQueue') <= BnQueueBound
        /\ bnDeaf' \in BOOLEAN /\ bnCut' \in BOOLEAN
  <1>3. ASSUME UNCHANGED <<bnLife, bnApp, bnQueue, bnDeaf, bnCut>> PROVE Typed
    BY <1>2, <1>3
  <1>4. ASSUME BnOpen \/ BnStop PROVE Typed
    BY <1>2, <1>4 DEF BnOpen, BnStop, bnWire
  <1>5. ASSUME BnEnd PROVE Typed
    <2>1. bnQueue' = <<>> /\ bnLife' = "closed" /\ UNCHANGED <<bnApp, bnDeaf, bnCut>>
      BY <1>5 DEF BnEnd
    <2>2. Len(<<>>) <= BnQueueBound /\ <<>> \in Seq(BnUnits)
      BY BacnetAssumption
    <2> QED BY <1>2, <2>1, <2>2
  <1>6. ASSUME BnConfirm PROVE Typed
    BY <1>2, <1>6 DEF BnConfirm, BnWireOnly
  <1>7. ASSUME NEW u \in BnUnits, BnPollTimer(u) PROVE Typed
    <2>1. bnQueue' = Append(bnQueue, u) /\ Len(bnQueue) < BnQueueBound
          /\ UNCHANGED <<bnLife, bnApp, bnDeaf, bnCut>>
      BY <1>7 DEF BnPollTimer, bnWire
    <2>2. Len(bnQueue') = Len(bnQueue) + 1 /\ bnQueue' \in Seq(BnUnits)
      BY <1>2, <2>1
    <2> QED BY <1>2, <2>1, <2>2, BacnetAssumption
  <1>8. ASSUME NEW p \in BnPolls, BnTakePoll(p) PROVE Typed
    <2>1. bnQueue' = Tail(bnQueue) /\ bnQueue # <<>>
          /\ UNCHANGED <<bnLife, bnApp, bnDeaf, bnCut>>
      BY <1>8 DEF BnTakePoll
    <2>2. bnQueue' \in Seq(BnUnits) /\ Len(bnQueue') = Len(bnQueue) - 1
      BY <1>2, <2>1
    <2> QED BY <1>2, <2>1, <2>2, BacnetAssumption
  <1>9. ASSUME NEW q \in BnCalls, BnTimeout(q) PROVE Typed
    BY <1>2, <1>9 DEF BnTimeout, BnCallOnly
  <1>10. \/ UNCHANGED <<bnLife, bnApp, bnQueue, bnDeaf, bnCut>>
         \/ BnOpen \/ BnStop \/ BnEnd \/ BnConfirm \/ (\E u \in BnUnits : BnPollTimer(u))
         \/ (\E p \in BnPolls : BnTakePoll(p)) \/ \E q \in BnCalls : BnTimeout(q)
    <2>1. CASE BnConvert \/ BnSave
      BY <2>1 DEF BnConvert, BnSave, bnWire
    <2>2. CASE \/ BnIndication \/ BnRegister \/ BnScanWhole \/ BnScanLength
               \/ (\E d \in BnDevices : BnIAm(d))
               \/ (\E t \in BnScans : BnScanIndex(t) \/ BnScanNames(t))
               \/ \E t \in BnRescans : BnRescan(t)
      <3>1. BnFieldOnly
        BY <2>2, Zenon DEF BnIAm, BnIndication, BnRegister, BnScanWhole, BnScanLength,
                           BnScanIndex, BnScanNames, BnRescan
      <3> QED BY <3>1 DEF BnFieldOnly
    <2>3. CASE \E p \in BnPolls : BnPollStep(p)
      BY <2>3 DEF BnPollStep
    <2>4. CASE UNCHANGED bnVars
      BY <2>4 DEF bnVars, bnWire
    <2>5. CASE BnOrphanAnswered \/ \E w \in BnWho : BnAnswered(w)
      BY <2>5 DEF BnAnswered, BnOrphanAnswered, BnWireOnly
    <2>6. CASE \E q \in BnCalls : BnAsk(q) \/ BnReply(q) \/ BnCancelled(q) \/ BnLookedUp(q)
      BY <2>6 DEF BnAsk, BnReply, BnCancelled, BnLookedUp, bnWire, BnCallOnly
    <2>7. CASE \E q \in BnCalls : BnRequest(q)
      BY <2>7 DEF BnRequest, BnBadRequest, BnNoDevice, BnDeviceRequest, BnReservedRequest,
                  BnAttributeUpdate, bnWire, BnCallOnly
    <2> QED BY <2>1, <2>2, <2>3, <2>4, <2>5, <2>6, <2>7 DEF BacnetNext, BnCaller
  <1>11. Typed
    <2> HIDE DEF Typed
    <2> QED BY <1>3, <1>4, <1>5, <1>6, <1>7, <1>8, <1>9, <1>10
  <1> QED BY <1>1, <1>11 DEF BnLoopTypes

(* Every step keeps the types.                                                 *)
LEMMA BnTypeStep ==
  ASSUME BnCallInv, BnTypeInv, [BacnetNext]_bnVars
  PROVE  BnTypeInv'
  <1>1. BnLoopTypes'
    BY BnLoopStep DEF BnTypeInv
  <1>2. CASE \/ BnIndication \/ BnRegister \/ BnScanWhole \/ BnScanLength
             \/ (\E d \in BnDevices : BnIAm(d))
             \/ (\E t \in BnScans : BnScanIndex(t) \/ BnScanNames(t))
             \/ \E t \in BnRescans : BnRescan(t)
    BY <1>1, <1>2, BnFieldStep DEF BnTypeInv
  <1>3. CASE UNCHANGED bnField
    <2>1. BnFieldTypes'
      BY <1>3 DEF BnTypeInv, BnFieldTypes, bnField
    <2> QED BY <1>1, <2>1 DEF BnTypeInv
  <1>4. CASE BnEnd
    <2>1. /\ bnIams' = <<>> /\ bnScan' = [t \in BnScans |-> BnNoScan]
          /\ UNCHANGED <<bnOn, bnConfig, bnFailed, bnTimers>>
      BY <1>4 DEF BnEnd
    <2>2. BnNoScan \in BnScanType /\ BnScanSound(BnNoScan, bnOn')
      BY DEF BnNoScan, BnScanType, BnScanSound
    <2>3. BnFieldTypes'
      BY <2>1, <2>2 DEF BnTypeInv, BnFieldTypes
    <2> QED BY <1>1, <2>3 DEF BnTypeInv
  <1>5. \/ UNCHANGED bnField \/ BnEnd
        \/ BnIndication \/ BnRegister \/ BnScanWhole \/ BnScanLength
        \/ (\E d \in BnDevices : BnIAm(d))
        \/ (\E t \in BnScans : BnScanIndex(t) \/ BnScanNames(t))
        \/ \E t \in BnRescans : BnRescan(t)
    <2>1. CASE BnOpen \/ BnStop \/ BnConvert \/ BnSave
      BY <2>1, Zenon DEF BnOpen, BnStop, BnConvert, BnSave
    <2>2. CASE BnConfirm \/ BnOrphanAnswered \/ \E w \in BnWho : BnAnswered(w)
      <3>1. BnWireOnly
        BY <2>2, Zenon DEF BnConfirm, BnOrphanAnswered, BnAnswered
      <3> QED BY <3>1, Zenon DEF BnWireOnly
    <2>3. CASE \E u \in BnUnits : BnPollTimer(u)
      BY <2>3, Zenon DEF BnPollTimer
    <2>4. CASE \E p \in BnPolls : BnTakePoll(p) \/ BnPollStep(p)
      BY <2>4, Zenon DEF BnTakePoll, BnPollStep
    <2>5. CASE \E q \in BnCalls : BnAsk(q) \/ BnCaller(q) \/ BnLookedUp(q)
      <3>1. BnCallOnly
        BY <2>5, Zenon DEF BnAsk, BnCaller, BnRequest, BnReply, BnCancelled, BnTimeout, BnLookedUp,
             BnBadRequest, BnNoDevice, BnDeviceRequest, BnReservedRequest, BnAttributeUpdate
      <3> QED BY <3>1, Zenon DEF BnCallOnly
    <2>6. CASE UNCHANGED bnVars
      BY <2>6 DEF bnVars
    <2> QED BY <2>1, <2>2, <2>3, <2>4, <2>5, <2>6 DEF BacnetNext
  <1> QED BY <1>2, <1>3, <1>4, <1>5

(* The types that TLC checks.                                                  *)
LEMMA BnShaped ==
  ASSUME BnCallInv, BnPipeInv, BnTypeInv
  PROVE  BacnetTypeOK
  <1>1. bnOrphans \in 0..Cardinality(BnCalls)
    <2>1. BnErrors \subseteq BnCalls /\ IsFiniteSet(BnCalls)
      BY BacnetAssumption DEF BnErrors
    <2> HIDE DEF BnErrors
    <2>2. /\ Cardinality(BnErrors) \in Nat /\ Cardinality(BnCalls) \in Nat
          /\ Cardinality(BnErrors) <= Cardinality(BnCalls)
      BY <2>1, FS_Subset, FS_CardinalityType
    <2>3. bnOrphans \in Nat /\ bnOrphans <= Cardinality(BnErrors)
      BY DEF BnTypeInv, BnLoopTypes
    <2> QED BY <2>2, <2>3
  <1>2. /\ bnIams \in Seq(BnDevices) /\ bnOn \subseteq BnUnits /\ bnTimers \subseteq bnOn
        /\ bnScan \in [BnScans ->
             [at : {"idle", "name", "whole", "length", "ids", "names"},
              unit : BnUnits \cup {BnNoUnit}, base : SUBSET BnObjects,
              todo : SUBSET BnObjects, found : SUBSET BnObjects]]
        /\ bnConfig \in [BnUnits -> SUBSET BnObjects] /\ bnFailed \in [BnUnits -> SUBSET BnObjects]
    BY DEF BnTypeInv, BnFieldTypes, BnScanType
  <1>3. /\ bnReq \in [BnWho -> {"none", "sent", "answered", "ok", "failed"}]
        /\ bnConf \in Seq((BnWho \cup {"orphan"}) \X BOOLEAN)
        /\ bnCall \in [BnCalls -> [caller : {"none", "open", "ok", "error"},
                               kind : BnKinds,
                               task : {"none", "lookup", "request", "cancelled"},
                               applied : BOOLEAN]]
    BY DEF BnCallInv, BnWireTypes, BnReqType, BnAnswers, BnCallType
  <1>4. /\ bnInbox \in Seq(BnReadings) /\ bnOutbox \in Seq(BnReadings)
        /\ bnFate \in [BnReadings -> {"unread", "held", "stored", "lost"}]
    BY DEF BnPipeInv, BnPipeTypes, FateType
  <1>5. /\ bnLife \in {"new", "running", "stopping", "closed"} /\ bnApp \in BOOLEAN
        /\ bnQueue \in Seq(BnUnits) /\ Len(bnQueue) <= BnQueueBound
        /\ bnDeaf \in BOOLEAN /\ bnCut \in BOOLEAN
    BY DEF BnTypeInv, BnLoopTypes
  <1> QED BY <1>1, <1>2, <1>3, <1>4, <1>5, Zenon DEF BacnetTypeOK

-----------------------------------------------------------------------------
(* What a behaviour of the run is followed for.                                *)
Foci == {"modbus", "modbus readings", "modbus calls", "opcua", "opcua calls",
         "mqtt", "mqtt requests", "mqtt calls", "bacnet", "bacnet objects",
         "bacnet calls", "request", "request calls", "rest"}

(* Each connector by itself keeps its invariants.                              *)
ConnectorsInv ==
    /\ focus \in Foci
    /\ MbCallInv /\ MbPipeInv /\ UaCallInv /\ UaPipeInv /\ BnCallInv /\ BnPipeInv
    /\ MqInv /\ RqInv /\ RsInv

(* Nothing was done yet.                                                       *)
LEMMA ConnectorsInvInit == ConnectorsInit => ConnectorsInv
  BY MbCallInit, MbPipeInit, UaCallInit, UaPipeInit, BnCallInit, BnPipeInit,
     MqInvInit, RqInvInit, RsInvInit DEF ConnectorsInit, ConnectorsInv, Foci

(* Every connector takes a step of its own or none.                            *)
LEMMA EachStep ==
  ASSUME [ConnectorsNext]_connectorVars
  PROVE  /\ focus' = focus
         /\ [ModbusNext]_mbVars /\ [OpcuaNext]_uaVars /\ [BacnetNext]_bnVars
         /\ [MqttNext]_mqVars /\ [RequestNext]_rqVars /\ [RestNext]_rsVars
  BY DEF ConnectorsNext, connectorVars

(* Every step.                                                                 *)
LEMMA ConnectorsInvStep == ConnectorsInv /\ [ConnectorsNext]_connectorVars => ConnectorsInv'
  <1> SUFFICES ASSUME ConnectorsInv, [ConnectorsNext]_connectorVars PROVE ConnectorsInv'
    OBVIOUS
  <1>1. (focus \in Foci)'
    BY EachStep DEF ConnectorsInv
  <1>2. MbCallInv' /\ UaCallInv' /\ BnCallInv'
    BY EachStep, MbCallStep, UaCallStep, BnCallStep DEF ConnectorsInv
  <1>3. MbPipeInv' /\ UaPipeInv' /\ BnPipeInv'
    BY EachStep, ModbusSteps, OpcuaSteps, BacnetSteps DEF ConnectorsInv
  <1>4. MqInv' /\ RqInv' /\ RsInv'
    BY EachStep, MqttSteps, RequestSteps, RestSteps DEF ConnectorsInv
  <1> QED BY <1>1, <1>2, <1>3, <1>4 DEF ConnectorsInv

(* While the gateway runs the Modbus connector.                                *)
LEMMA ModbusIsFollowed ==
  ASSUME MbCallInv, MbPipeInv, InModbus, focus' = focus, [ModbusNext]_mbVars
  PROVE  [Contract!ContractNext]_(Contract!contractVars)
  <1>1. /\ Life = mbLife /\ Fates = mbFate /\ Calling = Asks(mbCall)
        /\ Life' = mbLife' /\ Fates' = mbFate' /\ Calling' = Asks(mbCall)'
    BY DEF InModbus, InOpcua, InMqtt, InBacnet, InRequest, InRest, Life, Fates, Calling
  <1>2. mbFate \in [MbReadings -> FateType]
    BY DEF MbPipeInv, MbPipeTypes, MbCallInv, FateType
  <1>3. Asks(mbCall) = [q \in MbCalls |-> Asks(mbCall)[q]]
    BY DEF MbPipeInv, MbPipeTypes, MbCallInv, Asks
  <1>4. MbReadings \subseteq AllReadings /\ MbCalls \subseteq AllCalls
    BY DEF AllReadings, AllCalls
  <1>5. IsContractStep(MbReadings, MbCalls, mbLife, mbLife', mbFate, mbFate', Asks(mbCall), Asks(mbCall)')
    BY ModbusSteps
  <1>6. IsContractStep(AllReadings, AllCalls, Life, Life', AllFates, AllFates', AllCalling, AllCalling')
    BY <1>1, <1>2, <1>3, <1>4, <1>5, StepExtends DEF AllFates, AllCalling
  <1> QED BY <1>6, StepsOfTheContract

(* While the gateway runs the OPC-UA connector.                                *)
LEMMA OpcuaIsFollowed ==
  ASSUME UaCallInv, UaPipeInv, InOpcua, focus' = focus, [OpcuaNext]_uaVars
  PROVE  [Contract!ContractNext]_(Contract!contractVars)
  <1>1. /\ Life = uaLife /\ Fates = uaFate /\ Calling = Asks(uaCall)
        /\ Life' = uaLife' /\ Fates' = uaFate' /\ Calling' = Asks(uaCall)'
    BY DEF InModbus, InOpcua, InMqtt, InBacnet, InRequest, InRest, Life, Fates, Calling
  <1>2. uaFate \in [UaReadings -> FateType]
    BY DEF UaPipeInv, UaPipeTypes, UaCallInv, FateType
  <1>3. Asks(uaCall) = [q \in UaCalls |-> Asks(uaCall)[q]]
    BY DEF UaPipeInv, UaPipeTypes, UaCallInv, Asks
  <1>4. UaReadings \subseteq AllReadings /\ UaCalls \subseteq AllCalls
    BY DEF AllReadings, AllCalls
  <1>5. IsContractStep(UaReadings, UaCalls, uaLife, uaLife', uaFate, uaFate', Asks(uaCall), Asks(uaCall)')
    BY OpcuaSteps
  <1>6. IsContractStep(AllReadings, AllCalls, Life, Life', AllFates, AllFates', AllCalling, AllCalling')
    BY <1>1, <1>2, <1>3, <1>4, <1>5, StepExtends DEF AllFates, AllCalling
  <1> QED BY <1>6, StepsOfTheContract

(* While the gateway runs the MQTT connector.                                  *)
LEMMA MqttIsFollowed ==
  ASSUME MqInv, InMqtt, focus' = focus, [MqttNext]_mqVars
  PROVE  [Contract!ContractNext]_(Contract!contractVars)
  <1>1. /\ Life = mqLife /\ Fates = mqFate /\ Calling = <<>>
        /\ Life' = mqLife' /\ Fates' = mqFate' /\ Calling' = <<>>
    BY DEF InModbus, InOpcua, InMqtt, InBacnet, InRequest, InRest, Life, Fates, Calling
  <1>2. mqFate \in [MqReadings -> FateType]
    BY DEF MqInv, MqPipeInv, MqPipeTypes, FateType
  <1>3. <<>> = [q \in {} |-> <<>>[q]]
    BY DEF MqInv, MqPipeInv, MqPipeTypes, Asks
  <1>4. MqReadings \subseteq AllReadings /\ {} \subseteq AllCalls
    BY DEF AllReadings, AllCalls
  <1>5. IsContractStep(MqReadings, {}, mqLife, mqLife', mqFate, mqFate', <<>>, <<>>)
    BY MqttSteps
  <1>6. IsContractStep(AllReadings, AllCalls, Life, Life', AllFates, AllFates', AllCalling, AllCalling')
    BY <1>1, <1>2, <1>3, <1>4, <1>5, StepExtends DEF AllFates, AllCalling
  <1> QED BY <1>6, StepsOfTheContract

(* While the gateway runs the BACnet connector.                                *)
LEMMA BacnetIsFollowed ==
  ASSUME BnCallInv, BnPipeInv, InBacnet, focus' = focus, [BacnetNext]_bnVars
  PROVE  [Contract!ContractNext]_(Contract!contractVars)
  <1>1. /\ Life = bnLife /\ Fates = bnFate /\ Calling = Asks(bnCall)
        /\ Life' = bnLife' /\ Fates' = bnFate' /\ Calling' = Asks(bnCall)'
    BY DEF InModbus, InOpcua, InMqtt, InBacnet, InRequest, InRest, Life, Fates, Calling
  <1>2. bnFate \in [BnReadings -> FateType]
    BY DEF BnPipeInv, BnPipeTypes, BnCallInv, BnWireTypes, FateType
  <1>3. Asks(bnCall) = [q \in BnCalls |-> Asks(bnCall)[q]]
    BY DEF BnPipeInv, BnPipeTypes, BnCallInv, BnWireTypes, Asks
  <1>4. BnReadings \subseteq AllReadings /\ BnCalls \subseteq AllCalls
    BY DEF AllReadings, AllCalls
  <1>5. IsContractStep(BnReadings, BnCalls, bnLife, bnLife', bnFate, bnFate', Asks(bnCall), Asks(bnCall)')
    BY BacnetSteps
  <1>6. IsContractStep(AllReadings, AllCalls, Life, Life', AllFates, AllFates', AllCalling, AllCalling')
    BY <1>1, <1>2, <1>3, <1>4, <1>5, StepExtends DEF AllFates, AllCalling
  <1> QED BY <1>6, StepsOfTheContract

(* While the gateway runs the request connector.                               *)
LEMMA RequestIsFollowed ==
  ASSUME RqInv, InRequest, focus' = focus, [RequestNext]_rqVars
  PROVE  [Contract!ContractNext]_(Contract!contractVars)
  <1>1. /\ Life = rqLife /\ Fates = rqFate /\ Calling = Asks(rqCall)
        /\ Life' = rqLife' /\ Fates' = rqFate' /\ Calling' = Asks(rqCall)'
    BY DEF InModbus, InOpcua, InMqtt, InBacnet, InRequest, InRest, Life, Fates, Calling
  <1>2. rqFate \in [RqReadings -> FateType]
    BY RqTypes DEF RqInv, FateType
  <1>3. Asks(rqCall) = [q \in RqCalls |-> Asks(rqCall)[q]]
    BY RqTypes DEF RqInv, RqCallType, Asks
  <1>4. RqReadings \subseteq AllReadings /\ RqCalls \subseteq AllCalls
    BY DEF AllReadings, AllCalls
  <1>5. IsContractStep(RqReadings, RqCalls, rqLife, rqLife', rqFate, rqFate', Asks(rqCall), Asks(rqCall)')
    BY RequestSteps
  <1>6. IsContractStep(AllReadings, AllCalls, Life, Life', AllFates, AllFates', AllCalling, AllCalling')
    BY <1>1, <1>2, <1>3, <1>4, <1>5, StepExtends DEF AllFates, AllCalling
  <1> QED BY <1>6, StepsOfTheContract

(* While the gateway runs the REST connector.                                  *)
LEMMA RestIsFollowed ==
  ASSUME RsInv, InRest, focus' = focus, [RestNext]_rsVars
  PROVE  [Contract!ContractNext]_(Contract!contractVars)
  <1>1. /\ Life = rsLife /\ Fates = rsFate /\ Calling = Asks(rsCall)
        /\ Life' = rsLife' /\ Fates' = rsFate' /\ Calling' = Asks(rsCall)'
    BY DEF InModbus, InOpcua, InMqtt, InBacnet, InRequest, InRest, Life, Fates, Calling
  <1>2. rsFate \in [RsReadings -> FateType]
    BY DEF RsInv, RsTypes, FateType
  <1>3. Asks(rsCall) = [q \in RsCalls |-> Asks(rsCall)[q]]
    BY DEF RsInv, RsTypes, Asks
  <1>4. RsReadings \subseteq AllReadings /\ RsCalls \subseteq AllCalls
    BY DEF AllReadings, AllCalls
  <1>5. IsContractStep(RsReadings, RsCalls, rsLife, rsLife', rsFate, rsFate', Asks(rsCall), Asks(rsCall)')
    BY RestSteps
  <1>6. IsContractStep(AllReadings, AllCalls, Life, Life', AllFates, AllFates', AllCalling, AllCalling')
    BY <1>1, <1>2, <1>3, <1>4, <1>5, StepExtends DEF AllFates, AllCalling
  <1> QED BY <1>6, StepsOfTheContract

(* Whichever connector the gateway runs, with whatever threads, reconnections  *)
(* and callers, it is opened and closed once, takes and settles each reading   *)
(* at most once and none after its threads ended, and answers a call once:     *)
(* what novena_gateway.py and rpc_handler.py rely on in connector.py.  It is   *)
(* the safety half of ConnectorsImplementContract.                             *)
THEOREM ConnectorsKeepContract == ConnectorsSpec => ContractSafety
  <1>1. ConnectorsInit => Contract!ContractInit
    <2> SUFFICES ASSUME ConnectorsInit PROVE Contract!ContractInit
      OBVIOUS
    <2>1. Life = "new"
      BY DEF ConnectorsInit, ModbusInit, OpcuaInit, MqttInit, BacnetInit, RequestInit, RestInit,
             InModbus, InOpcua, InMqtt, InBacnet, InRequest, InRest, Life
    <2>2. \A r \in DOMAIN Fates : Fates[r] = "unread"
      BY DEF ConnectorsInit, ModbusInit, OpcuaInit, MqttInit, BacnetInit, RequestInit, RestInit,
             InModbus, InOpcua, InMqtt, InBacnet, InRequest, InRest, Fates
    <2>3. \A q \in DOMAIN Calling : Calling[q] = "none"
      <3>1. /\ \A q \in DOMAIN Asks(mbCall) : Asks(mbCall)[q] = "none"
            /\ \A q \in DOMAIN Asks(uaCall) : Asks(uaCall)[q] = "none"
            /\ \A q \in DOMAIN Asks(bnCall) : Asks(bnCall)[q] = "none"
            /\ \A q \in DOMAIN Asks(rqCall) : Asks(rqCall)[q] = "none"
            /\ \A q \in DOMAIN Asks(rsCall) : Asks(rsCall)[q] = "none"
        BY DEF ConnectorsInit, ModbusInit, OpcuaInit, BacnetInit, RequestInit, RestInit,
               Asks, Asked, MbNoCall, UaNoCall, BnNoCall, RqNoCall, RsNoCall
      <3>2. \/ Calling = Asks(mbCall) \/ Calling = Asks(uaCall) \/ Calling = <<>>
            \/ Calling = Asks(bnCall) \/ Calling = Asks(rqCall) \/ Calling = Asks(rsCall)
        BY DEF ConnectorsInit, InModbus, InOpcua, InMqtt, InBacnet, InRequest, InRest, Calling
      <3> QED BY <3>1, <3>2
    <2> QED BY <2>1, <2>2, <2>3 DEF Contract!ContractInit
  <1>2. ConnectorsInv /\ [ConnectorsNext]_connectorVars
          => [Contract!ContractNext]_(Contract!contractVars)
    <2> SUFFICES ASSUME ConnectorsInv, [ConnectorsNext]_connectorVars
                 PROVE  [Contract!ContractNext]_(Contract!contractVars)
      OBVIOUS
    <2>1. InModbus \/ InOpcua \/ InMqtt \/ InBacnet \/ InRequest \/ InRest
      BY DEF ConnectorsInv, Foci, InModbus, InOpcua, InMqtt, InBacnet, InRequest, InRest
    <2> QED BY <2>1, EachStep, ModbusIsFollowed, OpcuaIsFollowed, MqttIsFollowed,
               BacnetIsFollowed, RequestIsFollowed, RestIsFollowed DEF ConnectorsInv
  <1> QED BY <1>1, <1>2, ConnectorsInvInit, ConnectorsInvStep, PTL
          DEF ConnectorsSpec, ContractSafety

-----------------------------------------------------------------------------
(* The invariant with the types of the six connectors, and with the places of  *)
(* the values that OPC-UA's workers convert.                                   *)
ConnectorsTyped ==
    ConnectorsInv /\ MbLoopTypes /\ UaDataInv /\ MqTypeInv /\ BnTypeInv /\ RsTypeInv

(* Nothing was done yet.                                                       *)
LEMMA ConnectorsTypedInit == ConnectorsInit => ConnectorsTyped
  BY ConnectorsInvInit, MbLoopInit, UaDataInit, MqTypeInit, BnTypeInit, RsTypeInit
     DEF ConnectorsInit, ConnectorsTyped

(* Every step.                                                                 *)
LEMMA ConnectorsTypedStep == ConnectorsTyped /\ [ConnectorsNext]_connectorVars => ConnectorsTyped'
  <1> SUFFICES ASSUME ConnectorsTyped, [ConnectorsNext]_connectorVars PROVE ConnectorsTyped'
    OBVIOUS
  <1>1. ConnectorsInv /\ ConnectorsInv'
    BY ConnectorsInvStep DEF ConnectorsTyped
  <1>2. MbLoopTypes' /\ UaDataInv'
    BY EachStep, MbLoopStep, UaDataStep DEF ConnectorsTyped
  <1>3. MqTypeInv' /\ BnTypeInv' /\ RsTypeInv'
    BY <1>1, EachStep, MqTypeStep, BnTypeStep, RsTypeStep DEF ConnectorsTyped, ConnectorsInv
  <1> QED BY <1>1, <1>2, <1>3 DEF ConnectorsTyped

(* The invariant gives the types, and keeps each value at its place.           *)
LEMMA ConnectorsShaped == ConnectorsTyped => TypesOK /\ ValuesKeepTheirKey
  <1> SUFFICES ASSUME ConnectorsTyped PROVE TypesOK /\ ValuesKeepTheirKey
    OBVIOUS
  <1>1. ModbusTypeOK /\ OpcuaTypeOK /\ MqttTypeOK
    BY MbShaped, UaShaped, MqShaped DEF ConnectorsTyped, ConnectorsInv
  <1>2. BacnetTypeOK /\ RestTypeOK
    BY BnShaped, RsShaped DEF ConnectorsTyped, ConnectorsInv
  <1>3. RequestTypeOK
    BY DEF ConnectorsTyped, ConnectorsInv, RqInv
  <1>4. uaMisfiled = FALSE
    BY DEF ConnectorsTyped, UaDataInv, UaFileInv
  <1>5. ASSUME NEW count \in 1..5, NEW perRequest \in 1..3, NEW objects \in 1..2,
               NEW valid \in SUBSET DOMAIN MbAddressRanges(count, perRequest),
               NEW x \in MbWideRange(MbAddressRanges(count, perRequest), valid, objects)
        PROVE  \/ x[1] = x[2]
               \/ \E k \in DOMAIN MbAddressRanges(count, perRequest) \ valid :
                    \E a \in MbAddressRanges(count, perRequest)[k] : a <= x[1]
    <2>1. count \in Nat /\ perRequest \in Nat \ {0}
      OBVIOUS
    <2> QED BY <1>5, <2>1, MbPlaceKept
  <1>6. ValuesKeepTheirKey
    BY <1>4, <1>5, Zenon DEF ValuesKeepTheirKey
  <1> QED BY <1>1, <1>2, <1>3, <1>6 DEF TypesOK

(* Whichever connector the gateway runs, its state keeps its types: its queues *)
(* and outboxes stay within their bounds, an attempt to connect is counted     *)
(* only below connection_attempt (slave.py), no REST handler waits beside      *)
(* another, a BACnet rescan timer runs only for a device that was added, and   *)
(* no more late BACnet answers are awaited than callers were told of an error. *)
THEOREM ConnectorsKeepTypes == ConnectorsSpec => []TypesOK
  BY ConnectorsTypedInit, ConnectorsTypedStep, ConnectorsShaped, PTL DEF ConnectorsSpec

(* A value is stored under the key of the node or register that it was read    *)
(* from: of the first OPC-UA batch of a poll, as long as the conversion finds  *)
(* every list of nodes that it goes by as it was polled, whatever a rescan or  *)
(* a new client does to the lists before, between and after                    *)
(* (opcua_connector.py, __convert_retrieved_data), and of Modbus registers up  *)
(* to the first request that was answered with an error, for any count and any *)
(* size of request (MbPlaceKept).                                              *)
THEOREM ValuesKept == ConnectorsSpec => []ValuesKeepTheirKey
  BY ConnectorsTypedInit, ConnectorsTypedStep, ConnectorsShaped, PTL DEF ConnectorsSpec

===============================================================================
