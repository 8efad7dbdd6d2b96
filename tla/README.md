# TLA+ verification of the Novena Gateway

The Novena Gateway (`src/novena_gateway`) is an edge runtime: field connectors
poll equipment, an MQTT client carries telemetry to a cloud Hub, and the Hub
sends configurations, commands, claims and updates back. This directory holds a
formal model of the parts where a mistake is expensive and a test is unlikely to
find it: commands that act on equipment, configurations that replace each other,
telemetry that must survive an outage, claims that pass a gateway from one owner
to the next, the services that keep it reachable, and the connectors that read
and write devices. The models are TLA+ modules, checked on small instances by
TLC; the main properties are proved for every value of the constants by TLAPS.

`PROJECT.json` lists the components, the runs, the source lines behind every
definition, the hazards and the theorems.

## 1. Inventory

### Components

| Component | State | Operations | Correct when |
| --- | --- | --- | --- |
| Governed commands: `governed_commands.py` (`DurableCommandJournal`, `GovernedCommandGuard`), `rpc_handler.py` (`_on_rpc_request`, `execute`) | journal in memory and on disk (record per command, highest sequence per device, epoch anchor), control policy in memory and on disk, device locks | `validate`, `install_policy`, `enforce_prerequisites`, `mark_executing`, handler, `mark_terminal`, answer, `reset_for_new_claim`, restart | a command acts at most once and in sequence order, evidence precedes the act, an acknowledged epoch is never undercut |
| Signed configuration: `deployment_setup.py` (`ConfigReplayJournal`, `ConfigEnvelopeGuard`), `remote_config_handler.py` | `config.json`, last-known-good file, replay journal in memory and on disk | verify, four update actions, apply, rollback, record, acknowledge, claim reset | an update is applied once, an older one never replaces a newer one, "success" survives |
| Gateway service: `novena_gateway.py` | configuration, list of open connectors, main thread | `run`, `_start_connectors`, `_stop_connectors`, claim reset, `stop` | the open connectors are those of the configuration, each once |
| Telemetry: `novena_mqtt_publisher.py` (`publish`, `_publish_loop`, `_replay_loop`) | bounded queue, connection flag, replay thread | publish, send, buffer, connect, disconnect, replay, flush | no event vanishes, buffered events are replayed and only then deleted |
| SQLite buffer: `storage/sqlite` | write queue, table `messages`, prepared batch, delete point, list of files | put, insert a batch, prepare, read a pack, delete, count, rotate | a deletion takes only what was published, a rotation loses nothing it has seen |
| Claims: `novena_mqtt_publisher.py` (provisioning, rotation, release, bootstrap) | credentials, claim id, mode, file of the configuration | activate, rotate, release, fall back to bootstrap, clear the buffer | nothing of a former claim is used or sent under the next, the Hub is answered |
| Discovery: `discovery_service.py` | scan lock, cancel event, active scan, book of reports | start, probe, cancel, report | one scan at a time, "complete" means that every target was tried, every scan concludes |
| Network watchdog: `network_watchdog_handler.py` | active uplink, remembered metrics, streak of better checks | check, fail over, restore, stop | the operator's metrics can be restored |
| Remote log: `remote_log_handler.py` | bounded buffer, suppressed duplicates | emit, collect, publish, stop | every record is published or accounted for |
| Attributes, heartbeat, health: `attribute_sync_handler.py`, `connectivity_health_handler.py` | time of the last publish, health report | beat, push, check, feed the systemd watchdog | a gateway that reaches nobody does not count as alive |
| OTA: `ota_security.py`, `rpc_handler.py`, `privileged_helper.py`, `install/upgrade.sh` | artifact, release directories, the link `current`, status file | verify, download, launch, install, validate, switch, roll back | the running release is a whole one |
| Field connectors: `connectors/{modbus,opcua,mqtt,bacnet,request,rest}` | devices, sessions, queues, pending requests | open, poll, convert, store, RPC, close | what the gateway relies on: `ConnectorContract` |
| Other connectors, memory and file event storages, report strategy, statistics, formatting, redaction, clock and hardware checks | | | not modelled |

### Interaction

paho's **network thread** runs every inbound handler one after the other:
configuration updates, policies, command validation, claim changes, `_on_connect`
and `_on_disconnect`. It spawns an **execute thread** per accepted command and an
**RPC thread** per other request. The **main thread** starts the connectors once
and then feeds the systemd watchdog. The **publisher**, **replay** and **database**
threads move telemetry; connectors run loops, workers and requests in **threads of
their own**, and the gateway's RPC threads call into them. Heartbeat, log flusher,
network watchdog and discovery are threads too. Most pairs share state without a
common lock, so what a test exercises one after the other happens here in any order.

### What is hard

- State checked on one thread and used on another: command validation versus the
  device lock, `_connected` versus the queue, a prepared batch versus a deletion,
  the lists of nodes versus the values read with them, the checks of
  `start_guided_scan` versus the thread it starts.
- Files that change one after the other: policy and epoch anchor, configuration
  and journal, claim and former claim's state, release directory and link. The
  process, or the power, may end in between.
- Memory that changes before its file does, and a write that raises.
- Messages that are delivered twice or in another order, requests whose record
  was dropped from a bounded journal, answers that come after their timeout.
- Threads that stop because they see nothing to do just before there is
  something to do, or that never stop because nobody counts their tries.

`PROJECT.json` ("hazards") lists each place with its line and the properties
that would catch it going wrong.

## 2. Modules

| Module | Models |
| --- | --- |
| `GovernedCommands`, `MCGovernedCommands`, `GovernedCommandsProofs` | journal, policy, device locks, execute threads, restarts |
| `RemoteConfig`, `MCRemoteConfig`, `RemoteConfigProofs` | replay journal, apply with rollback, connectors and the three threads that start and stop them |
| `TelemetryBuffer`, `MCTelemetryBuffer`, `TelemetryBufferProofs` | queue, publisher, replay, database thread and table |
| `ClaimLifecycle`, `ClaimLifecycleProofs` | activation, rotation, release, bootstrap, and the claim of every sample and event |
| `SqliteRotation`, `SqliteRotationProofs` | several database files, their size and number limits |
| `NetworkWatchdog` | failover between uplinks, metrics and their restoration |
| `RemoteLog` | bounded log buffer and duplicate suppression |
| `Readiness` | heartbeat, health and the feeding of the systemd watchdog |
| `Discovery` | guided and background scans |
| `OtaUpgrade` | the OTA command and `upgrade.sh` |
| `ServiceProofs` | theorems about watchdog, remote log, updates and discovery, and about the seven services of the run |
| `MCServices` | the seven services above, one per behaviour |
| `ConnectorContract` | abstract specification of a field connector |
| `ModbusConnector`, `OpcuaConnector`, `MqttConnector`, `BacnetConnector`, `RequestConnector`, `RestConnector` | one connector each |
| `ConnectorProofs`, `FieldbusProofs` | theorems about the MQTT, REST and request connectors, and about those of Modbus, OPC-UA and BACnet |
| `MCConnectors` | the six connectors, one per behaviour, and the refinement of `ConnectorContract` |

In each module one action is what one thread does between two points where
another thread, a crash or a failing call can be noticed. Definitions marked
"Mutant" are variants of the definition below them with a plausible bug; each
checked property is refuted by one of them.

### GovernedCommands

`mem` and `disk` are the journal's `_state` and file, `policy` and `policyFile`
the same for the policy, `thr` the execute threads, `lock` the device locks,
`net` the place of the network thread within a handler of several file
operations. `fieldLog` is the sequence of acts on the field, `replies` what the
Hub was told, `acked` the highest acknowledged epoch.

`AcceptCommand`, `ReplayOutcome` and `RejectCommand` are the three ways out of
`_on_rpc_request` for a state-changing command; delivery is free, so commands are duplicated
and reordered at will. `AcquireLock`, `RefusePrerequisites`, `MarkExecuting`,
`FieldAction` or `HandlerRaises`, `MarkTerminal` or `MarkFailed`, `Respond` are
the steps of `execute`. `InstallPolicy` and `RecordEpoch` are the two file
operations of a policy; `BeginReset`, `ResetJournal`, `RemovePolicyFile` those
of a claim reset. `Restart` may find the journal unreadable, which `_load`
treats as empty. `RestorePolicy` is an operator who puts an older policy file
back. Signature, schema, expiry and value limits have no state: they decide
which commands are in `Commands`.

### RemoteConfig

`file`, `lkg` and `gw` are `config.json`, the last-known-good file and
`NovenaGateway._config`; `jmem` and `jdisk` the replay journal. `job` is the
update or reset in progress; `main` and `rpc` the other two threads; `live` and
`orphan` count the open connectors inside and outside `_connectors`, `todo` what
a thread has still to start. A configuration is its list of entries and the
request it came from; the four update actions build the candidate list, of which
`validate_config`, the constant set `Valid`, accepts some (`Candidates`,
`Acceptable`). Nothing keeps two entries from having the same name: an update
replaces one of them, a removal takes all of a name (`Namesakes`), and
`restart_connector` stops every one and starts the first. Backups are
written and never read, and are left out.

### TelemetryBuffer

`caller`, `loop`, `net`, `replay` and `db` are the threads; `queue`,
`writeQueue`, `nextBatch`, `canPrepare`, `point` and `rows` the shared state,
with the names of the code. An event is its number, a row an event with its
AUTOINCREMENT id. `SELECT ... LIMIT` without ORDER BY scans the rowid order, so
`FirstRows` takes the rows of lowest id. `execute_many_write` swallows its
errors and the commit that follows keeps what was inserted, so `DbWriteFails`
keeps any proper prefix of the batch. `can_prepare_new_batch` and the
preparation in `Database.run` are two assignments each, and so two steps.

Scope: one claim of an operational gateway (`ClaimLifecycle` has the others), one
database file below its size limit (`SqliteRotation` has several), rows younger
than the retention time. Insertion and commit are one step: all threads share
one connection, whose uses are serialised by the connector's lock and which
reads its own uncommitted rows. The loss of committed rows at a power failure
(`synchronous=NORMAL`) is not modelled. Counters that only feed diagnostics are
left out.

### ClaimLifecycle

`disk` is the mqtt section of `config.json`, `mem` the publisher's attributes,
`thread` the place of the network thread in a handler of several steps, `site`
the claim whose connectors run and whose journals and policy are in force,
`pipe` the samples and items in memory, `buffer` the events in SQLite, `hub` the
Hub with its broker account. A sample is the claim it was measured under and the
claim it is tagged with. `HandleRelease`, `ReleaseReset`, `ClearClaimBuffer`,
`ReleaseCommit`, `PublishReleaseAck` and `RetireCredentials` are the steps of a
release; `OnProvision`, `RotateFile`, `OnClaimChanged`, `RotateMemory` those of
an activation. `Crash` ends the process at any of them, and `FromDisk` is what
the next one reads. It shows from outside what the claim resets of
`GovernedCommands` and `RemoteConfig` do from inside.

### SqliteRotation

`files` is `_database_files`, `rows` and `peak` the contents and size of each
file, `writer[f]` the thread of the `Database` made for writing to `f`, `readDb`
and `writeDb` the two databases in use. A thread that is stopped with a batch in
its hands spins for good in `execute_many_write` ("spin"). A batch is one event.
`database_has_records` answers False for an empty table and also when its query
fails (`NoRecords(failed)`, `Failing`); what a file still holds when it is rotated
away after such an answer goes to `book.unread`. A failing query that no rotation
follows changes nothing.
The files ever made are numbered in their order, up to twice the number of events
plus two: a bound that no behaviour reached on any instance tried, up to three files, size
limits 1 and 2, six events and two restarts.

### NetworkWatchdog, RemoteLog, Readiness

`CheckNetwork` is one round of `_check_network` for any set of default routes
and healthy uplinks; the privileged helper may fail at each call. `Emit`,
`Collect` and `PublishLogs` follow a log record and the summaries of its
duplicates through buffer, cache and the two threads that flush. Records are
numbered as they are emitted; an entry is the set of the records it stands for, one
or all that a summary counts (the code's number is the size of that set), so that
the property can say where each record is and not only how many there are. `Readiness` has
a clock of main-loop rounds; its link is down, up, silent or refusing.

### Discovery

Every RPC has a thread: `scanCaller` is between the checks of
`start_guided_scan` and its assignments. A scan is a record per thread with the
targets it has yet to try; what a probe finds is a choice.

### OtaUpgrade

`update` is the command, `upgrade[v]` the process of `upgrade.sh` for a version
(it outlives the command and the service), `release` the contents of each
release directory, `current` the link. A manifest is genuine or not, a download
complete, corrupt or failing. `RestartService` may end the script itself: with
`set -e` a failing `systemctl restart` does.

### Connectors

Each connector module has `..Life` (its life as the gateway sees it), `..Fate`
(of each reading: unread, held, stored, lost) and `..Call` (each RPC with its
caller and its task), and the state of its own loops: master connections and
polls (Modbus); scan, batches, subscriptions and pool threads (OPC-UA); topic
mapping, On Message thread and workers (MQTT); requests under way and the one
confirmation task (BACnet); rounds and request threads (Request); server and
handlers (REST). A reading is one unit of data on its way to storage; protocol
encodings are the choice between outcomes the conversion has. The lists of
OPC-UA nodes are sets, in the order of the configuration: a node stands at the
place that is the number of nodes before it (`UaRank`). A scan makes the list of a
device empty (`UaScanDevice`) and adds the nodes it finds again one by one
(`UaScanNode`); pool threads run between any two of these steps. A conversion comes
to one device after the other, counts its list to cut the device's slice out of the
values (`UaCutSlice`), and then reads the list again to file the value at each place
of the slice under the node at that place (`UaConvertDevice`). Devices stand in the
order of the configuration, and one that is not found yet is a device with an empty
list; in the code a device found late stands at the end of `__device_nodes`.
An MQTT message is delivered for one filter; no topic matches two filters. Whether the
pattern made of a filter matches the topic of a message is in the message (`odd`):
never for a filter of `MqUnmatched` (`$SYS/...`, which loses its first two levels),
sometimes for one of `MqWildcard` (`a/#` does not match `a`, `+` no empty level),
else always; a filter of `MqInvalid` (`$share/g/+/x`) makes a pattern that `fullmatch`
rejects with an error. A BACnet call of a method configured for the device ("method")
is an error to its caller even when it was carried out, because
`server_side_rpc_handler` returns None for it.
`MbAddressRanges` and `MbWideRange` are the pure part of the Modbus reads, in the same
way: the addresses of each request, and for each value the number of
addresses before it in what was answered, compared with the address by
`ValuesKeepTheirKey`.

`ConnectorContract` is what `novena_gateway.py` and `rpc_handler.py` rely on: a
connector is opened and closed once, stores each reading at most once and none
after its threads have ended, returns from every RPC, and ends when it is
closed. `MCConnectors` instantiates it with the state of the connector that
steps (`Life`, `Fates`, `Calling`).

`MCServices` and `MCConnectors` choose one component per behaviour by the
variable `focus`: they share no state a property here is about, and so the run
explores the sum of the state spaces. Where calls and polling do not meet, a
connector has a focus for each and the other part is kept small.

## 3. Runs

| Run | Result | What it shows |
| --- | --- | --- |
| `governed_commands` | pass | Two execute threads and one restart, failing write or reset. Every act on the field is in the journal file first (`FieldActionsAreJournaled`); on one device commands act once and in order unless one was accepted while the device had a live thread (`OrderedOnceUnlessRaced`); never two at once (`OneActorPerDevice`). |
| `governed_recovery` | pass | Two of restarts, failing writes and resets, and a change of policy. No command acts in two process runs (`NoRepeatAfterRestart`), answers stay in the journal (`AnswersAreDurable`), acknowledged epochs hold (`AckedEpochHolds`, `StaleEpochNeverAccepted`), every thread ends and frees its lock (`EveryThreadEnds`). |
| `governed_exactly_once` | violation | "exactly-once": a duplicate that arrives before the first copy is journaled acts again. |
| `governed_restored_policy` | violation | A restored policy below the epoch anchor is loaded at start-up although the documentation says it is rejected. |
| `remote_config` | pass | Two updates, a journal of one entry, one crash, raising file operation or reset, one restart RPC: `AppliedOnce`, `OlderReplacesOnlyUnrecorded`, `SuccessSurvives`, `OneOutcome`, and connectors that match the configuration when everything is quiet (`Settled`). |
| `remote_config_older` | violation | After a crash between the file and the journal an older update replaces a newer one. |
| `telemetry_buffer` | pass | Two callers, a queue of one, one outage, one refused message, one failing query or end of the process: deletions by id take only rows some pack contained (`DeletedWereOffered`) and only accepted ones unless a late batch was stored (`AcceptedUnlessLate`); each event is somewhere, accepted, or lost in one of the known ways (`NothingVanishes`). |
| `telemetry_replay` | pass | A running replay thread empties the table as long as the connection lasts (`RunningReplayDrains`). |
| `telemetry_deleted` | violation | The late batch: its repeated success deletes a row whose message was refused. |
| `telemetry_outage` | violation | The replay thread ends while the database thread holds the last event; it stays in the table until the next connect. |
| `gateway_services` | pass | The seven services, see below. |
| `field_connectors` | pass | The six connectors, see below. |

`gateway_services`:

- Claims, with one crash, failing write, lost receipt or drop: when the Hub has
  the receipt `reset_complete` nothing of the site is left
  (`ResetCompleteMeansEmpty`); journals and policy of a former claim are in force
  only after a stop inside the activation (`NoInheritedPolicy`); a sample goes out
  under another claim at most once per reset, the one `DataProcessor` held, and
  once per connector thread that outlived its close (`OnlyStragglersCross`); a
  release or an assignment is answered (`HubIsAnswered`).
- Storage rotation, with three files, five events, a restart and failing checks
  that hide one row (`MaxUnread`): an accepted event is stored or replayed, but for
  what the rotation did not see (`LostOnlyUnseen`): rows that a failing
  `database_has_records` denied, events in memory at a restart, and batches in the
  hands of a stopped or abandoned thread. While no check fails, no stored row is
  deleted before its replay. Two threads write only after the number of files had
  reached its maximum (`OneWriterUntilFull`); a full storage that is replayed
  accepts again (`AcceptsAgain`).
- Network watchdog, with two helper faults or restarts, three uplinks and a
  field interface: `MetricsRestorable`.
- Remote log, with a cache of one signature and a buffer of two entries:
  `EveryRecordAccounted`.
- Readiness: a client that rejects every heartbeat does not stay "ready" for
  ever unless unverified reports keep it so (`StallIsNoticed`).
- Discovery, with two guided threads, a periodic one and two RPC threads: a scan
  reported "complete" tried every target or lists an error, unless another start
  overlapped it (`CompleteMeansCovered`); every scan ends and is reported
  (`ScanConcludes`).
- OTA, with two versions, two commands and one power cut: the link names a
  release that was unpacked, installed and validated (`CurrentIsWhole`).

`field_connectors`:

- `ConnectorsImplementContract`: the abstract specification, with its two
  liveness conjuncts, holds for every connector. MQTT calls are left out of it: a
  two-way RPC may wait for good.
- `AcceptedMeansWritten`: a write whose caller was told "accepted" reached the
  device, with three exceptions of Modbus the property names.
- `ValuesKeepTheirKey`: a value is stored under the key of the node or register
  it was read from: for the first OPC-UA batch of a poll, as long as every list the
  conversion counts or files by equals the polled one (nodes of two devices, one of
  them with two nodes and the other with one, two nodes per read, while scans empty
  and refill the lists); and up to the first failed part of a wide register range.
  When a list is short as a pool thread comes to it, or the batch is a later one of
  its poll, the code does file values under other keys (section 5).
- `CurrentTopicsAreMapped`: no message of the current MQTT connection is passed over
  because its filter is not mapped, although the mapping is emptied and rebuilt while
  the On Message thread works, and the rebuilding ends that thread only over a message
  of a former connection. It does not say that every current message is routed: a
  topic may not match the pattern of its own filter, and once the thread has ended,
  over a stale message or an invalid pattern, nothing is routed any more.
- `RequestsConclude`: every BACnet request of a poll or a discovery ends, unless
  a caller ever gave up a request under way.

**Exemptions.** Where the code keeps a promise only under a condition, the
property names the condition by a history variable (`raced`, `lost`, `faulted`,
`interrupted`, `forgotten`, `overlapped`, `late`, `excused`, `unread`, `full`, `orphaned`, `bnCut`) that is set exactly when the
condition arises, and a second run shows that the promise fails without it
where documentation makes it unconditionally.

**Bounds.** Two commands on one device are enough for duplication, reordering
and a race for a lock; a second device adds nothing that shares state with the
first but the journal file, which is written whole. A journal of one entry makes
the second request evict the first, which 500 entries would do after 500
requests. Two updates give every order of revisions; a rollback needs one of
them to fail. Three events with packs and batches of one or two rows give a
full and a partial pack, a row inserted behind a pack, and the three rows the
late batch needs. One disturbance is placed anywhere; two are combined where
recovery from the first matters. Two claims are a former and a present one; two
files beside the one being written are a full and an exhausted one. A connector
has two devices where they share a connection or a batch, and queues of one or two
so that they fill. `MCConnectors` looks at a connector from one side at a time
(`focus`), and restricts the others: with "opcua" a single poll that found a node of
each device is converted, while scans and new clients come and go; with "mqtt" the
patterns match their topics, which they need not with "mqtt requests", where one
reading arrives and the workers rest. One RPC is followed at a time: calls meet each
other only in the queues that polls use as well. The theorems below have no
bound on any of these.

**Fairness.** Weak fairness of the execute threads (`EveryThreadEnds`): the
operating system schedules them and calls to the field have timeouts. Weak
fairness of callers, publisher, replay and database thread and of the rest of
`_on_connect` (`RunningReplayDrains`, `ReplaysAfterOutage`): each is a loop with
sleeps and no unbounded wait for another. Connecting is not assumed to be fair; `ReplaysAfterOutage`
speaks of connections that last. Refusals, outages and failing queries are
finite in a run; an endless series of refusals would leave the pack in the table
for ever, as intended by the code.

Services: weak fairness of the network thread and of the broker's refusal of an
account that is not authorised (`HubIsAnswered`), of the replay and database
threads (`AcceptsAgain`), of the main loop and heartbeat thread
(`StallIsNoticed`), of each scan thread, whose probes have timeouts
(`ScanConcludes`). Connectors: a loop sees its stop flag, a thread ends the item
it holds, a caller waits no longer than its timeout, HTTP requests and the wait
of a REST handler time out, and the BACnet stack answers or aborts each request.
Polling, connecting and the arrival of messages are not assumed to be fair.

## 4. Proofs

All theorems hold for any values of the constants that satisfy the named
assumptions (`ConstantsAssumption`, `ConfigAssumption`, `ClaimAssumption`,
`RotationAssumption`, `DiscoveryAssumption`, `OtaAssumption`,
`WatchdogAssumption`, `RemoteLogAssumption`, and one for each connector) and so for any number of
threads, requests and disturbances. They say that sizes are positive, bounds are
natural, and functions have the types the code gives them. Some say that names
differ: a guided scan is not called like a background one or like the free lock
(`DiscoveryAssumption`), the tasks of the BACnet connector are told apart
(`BacnetAssumption`; in the code they are objects), the topics of an MQTT
configuration from those of its service requests (`MqttAssumption`), the places of
an OPC-UA configuration from each other (`OpcuaAssumption`); and the devices of a Modbus
configuration are finitely many, as are the scans and the calls of the BACnet
connector. Three say what the data is like: the nodes of one device stand together
in an OPC-UA configuration, which lists them device by device; there is at least one
node; and a BACnet device lists at least one object, its own device object.

**GovernedCommands** (`InductiveInv`). The properties are not inductive alone:
that an act is journaled needs that the *thread about to act* is
(`EvidenceInv`), which needs that the record it wrote is in memory and file and
that no reset of its era intervened (`TagsInv`). Order needs that a thread
which has yet to act is ahead of all that acted (`OrderInv`), which holds at
`AcceptCommand` because the journal's sequence covers all acts, and stays
because two live threads on one device are raced (`RaceInv`). No repetition over
restarts is the same argument with process runs (`BootInv`). Durable answers
need that file and memory agree on every command without a failed write
(`AnswerInv`), epochs that policy, file and anchor are at least the
acknowledged one at every step of an installation (`EpochInv`). Theorems:
`TypeCorrectness`, `FieldActionsJournaled`, `RestartsNeverRepeat`,
`OrderedOnce`, `MutualExclusion`, `DurableAnswers`, `EpochsHold`, `StaleEpochs`
(an action property).

**RemoteConfig** (`InductiveInv`). `JobInv` says what the file holds at each
step of an update. `AnchorInv`: whatever was written, and whatever a rollback
would bring back, is at or below the highest revision of both journal copies,
or belongs to the update in progress; so a redelivery or an older update is
refused, whether or not its outcome was evicted. `SuccessInv` carries "success"
from the journal to the file, `OutcomeInv` says that all existing copies of an
outcome agree. `ConnectorInv` is about the three threads that stop and start
connectors: as long as they never overlapped (`OwnInv`), the one at work knows
what is still to stop, still to start and already running, and together that is
the configuration it works for; the others are idle, so at the end it is the
file's. Theorems: `TypeCorrectness`, `RedeliveryIsSafe`,
`OlderConfigurations`, `SuccessesSurvive`, `SingleOutcome`,
`QuietGatewayIsSettled`.

**TelemetryBuffer** (`IInv` in the proof module). A batch omits no row in front
of one of its own (`Front`), and those of its rows that still exist are among
the first `PackSize` (`Early`). So the rows the next deletion would take
(`Doomed`) are among the first ones and were offered (`PointInv`): new rows have
larger ids. A batch read and not yet stored still contains all first rows if
none of it was deleted (`GotInv`). So while no late batch was stored, `Doomed`
is part of the pack in the replay thread's hands (`LateInv`), and that pack is
deleted only if all of it was accepted (`PackInv`). The lemmas about
`FirstRows` rest on the cardinality theorems of `FiniteSetTheorems`. That
nothing vanishes is a second invariant on top (`Somewhere`): the places an event
can be in (`Known`) lose one only where another gains it, and a row that is
deleted was accepted, by `DeletionsAreSafe`. Theorems: `TypeCorrectness`,
`NoBlindDeletion`, `DeletionsAreSafe`, `EventsAreKept`.

**ClaimLifecycle** (`ClaimInv`, `CrossInv`). Which steps of a handler may be
under way depends on the Hub's phase, on the file and on the memory. Once a
release has cleared the site it stays empty (`SiteEmpty`), because the threads
that move samples add neither to queue nor buffer while `_releasing` is set, and
nothing starts a connector; so the receipt the Hub gets is true. A claim enters
the memory only after the former policy is gone, unless the process ended in
between. `OnlyStragglersCross` needs a count: the strays sent, those queued, in
hand or buffered under a wrong tag, and the samples that can still become such
are together at most one per reset and one per late sample (`CrossInv`); each step
moves a sample from one summand to another, a change of claim moves the one in
`DataProcessor`'s hand. The counting rests on lemmas about marked places of a
queue. Theorems: `ClaimTypes`, `ReceiptIsTrue`, `PolicyIsNotInherited`,
`StragglersAreBounded`.

**SqliteRotation** (`RotationInv`). The list of files is in the order they were
made, begins with the read database and ends with the write database, whose
thread runs (`FilesInv`); so a rotation never deletes the file that is written
to, and `remove` takes the first entry. Whatever a thread holds that writes to
another file is one of the events in hand, and so is whatever appears in a file after
it was found empty; a file that is about to be rotated away holds nothing but these and
the rows that a failing check denied (`HandInv`). A second writer is left behind only by the
rotation of a full list (`FullInv`). Theorems: `RotationTypes`, `OneWriter`,
`EventsSurviveRotation`.

**Discovery** (`DiscoveryInv`). A scan inside `scan()` holds the lock, so the
cancel event it sees is its own unless another start overlapped it; the targets
tried and those left are all its targets, an error is listed whenever some are
skipped, and the book of reports keeps the last report of every scan it has.
Theorems: `DiscoveryTypes`, `CompleteIsCovered`.

**NetworkWatchdog** (`MetricsInv`). `MetricsRestorable` speaks of changed metrics
only; the next failover needs that a value remembered for an interface whose
metric is *back* at the operator's (its restoration was counted as failed) is
the operator's as well. That only uplinks are touched rests on `BestIsMember`:
an interface that replaces the current one is a healthy uplink. Theorem:
`MetricsStayRestorable`.

**OtaUpgrade** (`LinkInv`). Each script's place says how far its own release is
(`ScriptInv`), and what it would go back to is whole. A script writes only its
own release, and only before it is whole, because an existing directory is
refused; so no other script, and no link, is hurt. Theorem: `CurrentStaysWhole`,
for any number of scripts at work together and of power cuts.

**RemoteLog** (`Places`). The six places a record can be in are pairwise
disjoint and together are `1 .. emitted`; each step moves sets of records from
one place to others. The lemmas say what an operation on a sequence of sets does to
their union and to their being apart: taking some positions and the remaining ones
(`Picked`), cutting a full deque, removing one entry, appending. Theorem:
`RecordsAccounted`.

**The seven services** (`ServicesKeepTypes`, `ServicesAreSafe`). The run steps one
service per behaviour; every service keeps its own invariant in its steps and in
those of the others, which leave its variables alone. So what was proved of each
specification holds of the one the run checks, and the types of all seven are
`TypesOK`. Besides the invariants above this takes the shapes of the watchdog, of
the release link and of the heartbeat (bounded streaks, clocks and delays).

**MqttConnector** (`RouteInv`). A topic is mapped before it is subscribed
(`SubscribedInv`), so the filter of whatever arrives is mapped (`InboxInv`), and what
was matched is still mapped when it is routed (`ReaderInv`); a reconnection empties
the mapping, and at that moment every waiting message is one of a former
connection. Theorem: `CurrentMessagesFindTheirTopic`.

**The six connectors and `ConnectorContract`.** Each connector's steps are
steps of the contract or change nothing the gateway sees: it is opened and
closed once, takes each reading once, settles it once and only while its threads
live, and answers a call once, after it was made. For a reading this needs to
know where it is. A pipeline invariant says that a reading on its way is *held*
and at one place of one of the queues, batches and hands only (`MqPipeInv`,
`RqPipeInv`, `MbPipeInv`, `UaPipeInv`, `BnPipeInv`; for REST `RsInv`), so a step that
settles one settles no other, and no reading is settled twice. A life invariant
says which threads may be alive in which phase of the connector (`MqLifeInv`,
`RqLifeInv` and so on), so nothing is stored after the close. The lemmas about what
remains of a queue (`TailParts`, `SplitParts`, `OnceTail`, ...) are
stated once. Calls go through the mapping `Asks`; those of MQTT may wait for good
and are left out. Theorems: `ModbusRefinesContract`,
`OpcuaRefinesContract`, `MqttRefinesContract`, `BacnetRefinesContract`,
`RequestRefinesContract`, `RestRefinesContract`, connector by connector and without
the run's restriction to one kind of work at a time; and `ConnectorsKeepContract`,
the safety half of `ConnectorsImplementContract` for the specification of the run:
a connector's step over its own readings and calls is one over all of them
(`StepExtends`).

**Accepted writes** (`MbCallInv`, `UaCallInv`, `BnCallInv`). A task that has a
good result for a write has reached the device, and a caller is told so only by
a task that has ended. In BACnet the result passes through the queue of the one
confirmation task: an answer waiting there is the only one to a request that is marked
as answered, and a request that was given up has none that is still believed
(`BnConfInv`). Theorems: `AcceptedWrites`, for the three connectors side by side,
and `ConnectorsAcceptedWrites`, for the specification of the run.

**Types of the connectors** (`ConnectorsTyped`). What the invariants above leave open
are bounds. An attempt to connect a Modbus master is counted only below its limit
although polls and calls share the counter (`MbTriesBounded`). A BACnet rescan timer runs only
for a device that was added, which needs to be known of the device of each
discovery from its registration on (`BnScanSound`). The late BACnet answers still to
come are at most the callers that were told of an error (`BnOrphansBounded`): a
timeout adds at most one to the first number and exactly one to the second, and an
error is never taken back. At most one REST handler waits, because the server
serves no other while it blocks the loop (`RsOneWaits`). Theorem:
`ConnectorsKeepTypes`.

**Values and keys** (`UaDataInv`, `MbPlaceKept`). The first batch of a poll contains
the nodes that open the lists as they were polled (`UaOpens`): the first ones of them,
in order. A job that converts it and has found every list as it was polled (`same`) has
passed some devices, and its offset is the number of their nodes in the polled lists
(`UaCut`), whatever the lists have become since. So a node's place in the batch is the
offset plus its place in its device's polled list (`UaSlice`), and when the list it is
filed by is that one too, the value goes to its own key (`UaSliceFiled`). This needs the
nodes of one device to stand together. The invariant says nothing of what a scan may
do to the lists: it is by `same` that a job knows them changed. For Modbus, a register that
has lost its address has fewer addresses before it than its number; among those
up to its new place one is missing, and that one was in a request that failed
(`MbPlaceKept`, for any count, size of request and size of object; the run checks
the ranges it can enumerate). Theorem: `ValuesKept`.

**Only model-checked.**

- All liveness (`EveryThreadEnds`, `RunningReplayDrains`, `HubIsAnswered`,
  `AcceptsAgain`, `StallIsNoticed`, `ScanConcludes`, `RequestsConclude`, and the
  two liveness conjuncts of `ConnectorContract`): beyond the prover.

Every invariant that a passing run checks is stated by a theorem. An action property
or an abstract specification is one in its safety part.

## 5. Where code and documentation differ

Each of the five violations is a finding in `PROJECT.json`. The late batch needs the database
thread to be held up for more than half a second between reading a batch and
storing it: unlikely, and a loss of data when it happens. Met while modelling,
without a run of their own:

- The journal raises its highest revision for rolled-back updates too; the
  documentation speaks of the highest *activated* revision.
- Documentation says a rollback restores the last-known-good configuration; the
  code restores the configuration read at the beginning of the update, and the
  last-known-good file is never read.
- Documentation says legacy configuration payloads remain accepted; unsigned
  ones are rejected.
- `ARCHITECTURE.md` says telemetry queues in memory while the broker is
  unreachable; the code writes it to SQLite.
- The condition of the age check in `Database.process` compares a time with twice
  itself, so that rows expire only in the first turn of a database thread.
- `execute_write` and `execute_many_write` never return once the database was
  stopped during the call.
- Claims and storage: a rotation leaves the former writer's thread spinning when
  it holds a batch, and its events are lost. `database_has_records` answers False
  when its query fails (`database.py:207`), and the rotation then deletes a file that
  still holds events (`sqlite_event_storage.py:256`, `:273`).
- Discovery: a background scan clears the cancel event when it begins, so a
  cancellation that comes just before is lost.
- OTA: a failing `systemctl restart` ends `upgrade.sh` before its rollback
  (`install/upgrade.sh:121`); a half-installed release directory makes that
  version refused for good (`:46`).
- Network watchdog: the streak of better checks is not reset by a switch.
- Readiness: a broker that is connected and silent keeps the gateway "ready";
  nothing looks at the result of the wait for an acknowledgement.
- Modbus: a write without a connection, without a converted value or with an
  `ExceptionResponse` counts as accepted; `_cmd_write_device` passes a
  dictionary to the reserved `set`, whose schema rejects it; a serial poll holds
  back all devices; `connect()` answers False at the last allowed attempt even if
  it succeeded; an exception in a converter drops the groups of other devices too.
- OPC-UA: batches after the first are cut up from the first device again
  (`opcua_connector.py:1252`); a scan empties a list (`:999`) and fills it between
  awaits, so a conversion that comes to it meanwhile files the values of all later
  devices under other keys, even when the scan finds the same nodes again; a refused subscription is not tried again; the
  pool is never shut down.
- MQTT connector: a two-way RPC waits for good (`mqtt_connector.py:957`), because
  `is_rpc_in_progress` always answers False; a filter that starts with `$`
  but not with `$aws` loses its first two levels (`:472`): one of `$SYS/...` never
  matches, and one of `$share/g/+/x` leaves a pattern that is none, whose error ends the
  On Message thread at the first message (`:627`); `a/#` does not match `a` and `+`
  no empty level (`tb_utility.py:114`); a change of the mapping under the loop ends
  the thread too, and nothing starts it again; a `__connect` past its check reconnects after
  `close()`.
- BACnet: the RPC of a configured method returns None (`bacnet_connector.py:884`), which
  `_find_response_error` reports as a failure; a late answer ends `confirmation_handler` for good
  (`application.py:102`); a device whose configuration matches by id and by
  address is added twice; an invalid application section leaves a connector that
  looks open and runs nothing.
- Request: an endpoint is started again before its thread has moved `next_time`;
  request threads outlive `close()`. Request and REST RPCs to devices return
  None, which `_find_response_error` reports as a failure although the write
  happened.
- REST: `get_response` blocks the event loop up to its timeout, and the shared
  queue may give an update to another request's answer; `close()` before `run()`
  has made the loop raises, and the server starts nevertheless.
- No caller in this gateway uses `on_attributes_update` or the connector-wide
  RPCs; `send_rpc_reply` only logs.

## 6. Plan

Done: the three cores (commands, configuration, telemetry), then the services
and the connectors, in the order of the damage a mistake would do; the contract
of a connector and its refinement. Next:

1. Abstract specifications of the cores: an at-most-once executor for
   `GovernedCommands`, a versioned register for `RemoteConfig`, a
   store-and-forward channel for `TelemetryBuffer`.
2. Expiry by age and the migration of old tables in the SQLite storage; the
   device registry and device health; the Modbus server.

## 7. Not modelled

Signature and schema checks are functions of the message; they appear as the
set of messages that pass, or as a choice. The connectors for CAN, BLE, ODBC,
SNMP, FTP, sockets, XMPP, OCPP and KNX are inherited from the ThingsBoard IoT
gateway (`docs/upstream_thingsboard_boundary.md`), repeat the loops of the
modelled ones over other protocols and are not shown to implement
`ConnectorContract`. The Modbus server, the BACnet EDE parser, adapters for old
configurations and uplink and downlink converters beyond their outcomes are data
handling. The memory and file storages are not instantiated by the gateway; the
report strategy and statistics only filter samples. Diagnostics RPCs only read;
`set_log_level` and reboot have no state that matters here. The status of every
component is in `PROJECT.json`.

## 8. Running the checks

```
tlc -workers 2 -config GovernedCommands.cfg MCGovernedCommands
tlc -workers 2 -config Services.cfg MCServices
tlc -workers 2 -config Connectors.cfg MCConnectors
tlapm GovernedCommandsProofs.tla      # and the other *Proofs modules
```

A configuration `X*.cfg` belongs to the module `MC...` of the same family. The
two largest runs, services and connectors, take about three minutes each.
