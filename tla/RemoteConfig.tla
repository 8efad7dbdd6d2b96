---------------------------- MODULE RemoteConfig ----------------------------
(***************************************************************************)
(* Signed configuration updates: the replay journal of deployment_setup.py, *)
(* the apply-with-rollback of remote_config_handler.py, and the connectors  *)
(* they stop and start in novena_gateway.py.                                *)
(*                                                                         *)
(* Three threads start and stop connectors without a common lock: the main  *)
(* thread once while the gateway starts, paho's network thread for updates  *)
(* and claim resets, and an RPC thread for restart_all and                  *)
(* restart_connector.  The process may end anywhere between two file        *)
(* operations, and any file operation may raise.                            *)
(***************************************************************************)
EXTENDS Integers, FiniteSets

CONSTANTS
    Definitions,   \* connector entries of a configuration
    Name,          \* [Definitions -> names]
    Required,      \* entries whose failure ends the start-up
    Valid,         \* connector lists validate_config accepts
    InitialLists,  \* connector lists of an installation
    Requests,      \* signed envelopes (each its own idempotency key)
    Revision,      \* [Requests -> Nat]
    Change,        \* [Requests -> [action, list]]
    None,
    JournalLimit,  \* 500 in ConfigReplayJournal.record
    MaxDisturbances, \* bound on crashes, raising file operations and resets
    MaxRestarts    \* bound on restart RPCs

RequestActions == {"full_update", "connector_update", "connector_add",
                   "connector_remove"}

ASSUME ConfigAssumption ==
    /\ Revision \in [Requests -> Nat \ {0}]
    /\ Change \in [Requests -> [action : RequestActions, list : SUBSET Definitions]]
    /\ InitialLists \subseteq SUBSET Definitions /\ Valid \subseteq SUBSET Definitions
    /\ None \notin Requests
    /\ JournalLimit \in Nat \ {0}
    /\ MaxDisturbances \in Nat /\ MaxRestarts \in Nat

VARIABLES
    file,        \* config.json
    lkg,         \* last_known_good_config.json
    gw,          \* NovenaGateway._config
    jmem, jdisk, \* ConfigReplayJournal: _state and its file
    job,         \* where the network thread is in _on_config_update or a reset
    main,        \* the main thread in run(): down, booting, starting, failing, up
    rpc,         \* the RPC thread: idle, or where it is in a restart
    todo,        \* connector entries each thread has still to start
    live,        \* open connectors in _connectors, per entry
    orphan,      \* open connectors that are no longer in _connectors
    \* What an observer sees.
    answers,     \* outcomes sent to the Hub for each request, besides "failed"
    applied,     \* how often a request's configuration was written: 0, 1, 2 or more
    interrupted, \* requests whose processing ended between write and record
    forgotten,   \* requests whose record is missing from the journal file
    overwritten, \* requests replaced by one of a lower revision
    overlapped,  \* two threads were at work on the connectors
    faults, restarts

jobVars  == <<file, lkg, gw, jmem, jdisk, job>>
connVars == <<main, rpc, todo, live, orphan>>
obsVars  == <<answers, applied, interrupted, forgotten, overwritten, overlapped,
              faults, restarts>>
vars == <<jobVars, connVars, obsVars>>

Results == {"success", "rolled_back"}
Actors  == {"main", "config", "rpc"}
Modes   == {"operational", "release_pending"}

\* A configuration: its connector list, the request it came from (for the
\* observer), and mqtt.mode.
Configurations == [list : SUBSET Definitions, req : Requests \cup {None}, mode : Modes]
Journals == [max : Nat, results : [Requests -> Results \cup {"none"}]]

EmptyJournal == [max |-> 0, results |-> [r \in Requests |-> "none"]]
NoJob == [pc |-> "idle", req |-> None, prev |-> None, next |-> None, failed |-> FALSE]

Rev(cfg) == IF cfg.req = None THEN 0 ELSE Revision[cfg.req]
SameName(d, list) == {e \in list : Name[e] = Name[d]}
Undisturbed == faults < MaxDisturbances

Init ==
    \E list \in InitialLists :
        /\ file = [list |-> list, req |-> None, mode |-> "operational"]
        /\ lkg = file /\ gw = file
        /\ jmem = EmptyJournal /\ jdisk = EmptyJournal
        /\ job = NoJob /\ main = "booting" /\ rpc = "idle"
        /\ todo = [a \in Actors |-> {}]
        /\ live = [d \in Definitions |-> 0] /\ orphan = live
        /\ answers = [r \in Requests |-> {}] /\ applied = [r \in Requests |-> 0]
        /\ interrupted = {} /\ forgotten = {} /\ overwritten = {}
        /\ overlapped = FALSE /\ faults = 0 /\ restarts = 0

-----------------------------------------------------------------------------
(* Connectors *)

Busy == {a \in Actors : \/ a = "main" /\ main \in {"booting", "starting", "failing"}
                        \/ a = "config" /\ job.pc # "idle"
                        \/ a = "rpc" /\ rpc # "idle"}

\* Thread a begins to work on the connectors.
Enter(a) == overlapped' = (overlapped \/ Busy \ {a} # {})

\* Mutant: the connectors are dropped without being closed.
CloseNothing == UNCHANGED <<live, orphan>>

\* _stop_connectors: every connector in the list is closed; then the list is
\* cleared, and a connector another thread added in between stays open.
CloseAll == live' = [d \in Definitions |-> 0] /\ UNCHANGED orphan
Clear == /\ orphan' = [d \in Definitions |-> orphan[d] + live[d]]
         /\ live' = [d \in Definitions |-> 0]

\* _start_connectors reads the list once, at its beginning.
ToStart(cfg) == IF cfg.mode = "release_pending" THEN {} ELSE cfg.list

\* One entry is started by thread a, or fails to.
Started(a, d, ok) ==
    /\ d \in todo[a]
    /\ todo' = [todo EXCEPT ![a] = @ \ {d}]
    /\ live' = IF ok THEN [live EXCEPT ![d] = @ + 1] ELSE live
    /\ UNCHANGED orphan

-----------------------------------------------------------------------------
(* The network thread: _on_config_update *)

\* Mutant: the revision is not compared.
UnseenAnyRevision(r) == jmem.results[r] = "none"

\* ConfigEnvelopeGuard.verify, after the envelope's own checks.
Unseen(r) == jmem.results[r] = "none" /\ Revision[r] > jmem.max

\* The entries of the file that have a name of the request's entries.
Namesakes(r) == UNION {SameName(d, file.list) : d \in Change[r].list}

\* The candidate of each _apply_ method, from the file; none if it raises
\* ValueError.  connector_update replaces the first entry of its name: nothing
\* keeps two entries from having the same one.
Candidates(r) ==
    LET new == Change[r].list IN
    CASE Change[r].action = "full_update" -> {new}
      [] Change[r].action = "connector_add" ->
            IF Namesakes(r) = {} THEN {file.list \cup new} ELSE {}
      [] Change[r].action = "connector_remove" ->
            IF Namesakes(r) # {} THEN {file.list \ Namesakes(r)} ELSE {}
      [] OTHER -> {(file.list \ {e}) \cup new : e \in Namesakes(r)}

\* ... and validate_config accepts it.
Acceptable(r) == Candidates(r) \cap Valid

Answer(r, a) == answers' = [answers EXCEPT ![r] = @ \cup {a}]

Receiving(r) == main # "down" /\ job.pc = "idle" /\ gw.mode = "operational"

\* "accepted" is acknowledged; the last-known-good file exists; a backup is made.
AcceptUpdate(r) ==
    /\ Receiving(r) /\ Unseen(r)
    /\ \E list \in Acceptable(r) :
          job' = [pc |-> "write", req |-> r, prev |-> file,
                  next |-> [list |-> list, req |-> r, mode |-> file.mode],
                  failed |-> FALSE]
    /\ Enter("config")
    /\ UNCHANGED <<file, lkg, gw, jmem, jdisk, connVars, answers, applied,
                   interrupted, forgotten, overwritten, faults, restarts>>

\* A recorded request is answered from the journal.
ReplayUpdate(r) ==
    /\ Receiving(r) /\ jmem.results[r] # "none"
    /\ Answer(r, jmem.results[r])
    /\ UNCHANGED <<jobVars, connVars, applied, interrupted, forgotten, overwritten,
                   overlapped, faults, restarts>>

\* A stale or unacceptable one is answered "failed" and not recorded.
RefuseUpdate(r) ==
    /\ Receiving(r) /\ jmem.results[r] = "none"
    /\ Revision[r] <= jmem.max \/ Acceptable(r) = {} \/ Candidates(r) # Acceptable(r)
    /\ UNCHANGED vars

\* "Ignored config update while Gateway release is pending."
IgnoreUpdate ==
    /\ main # "down" /\ job.pc = "idle" /\ gw.mode = "release_pending"
    /\ UNCHANGED vars

\* A file operation raises: the outer except clause answers "failed".
Raise ==
    /\ job.pc \in {"write", "undo", "keep"} /\ Undisturbed
    /\ interrupted' = IF job.pc = "write" THEN interrupted
                      ELSE interrupted \cup {job.req}
    /\ job' = NoJob /\ faults' = faults + 1
    /\ UNCHANGED <<file, lkg, gw, jmem, jdisk, connVars, answers, applied,
                   forgotten, overwritten, overlapped, restarts>>

\* _write_config(new_config)
WriteNew ==
    /\ job.pc = "write"
    /\ file' = job.next
    /\ applied' = [applied EXCEPT ![job.req] = IF @ = 0 THEN 1 ELSE 2]
    /\ overwritten' = IF Rev(file) > Revision[job.req]
                      THEN overwritten \cup {file.req} ELSE overwritten
    /\ job' = [job EXCEPT !.pc = "close"]
    /\ UNCHANGED <<lkg, gw, jmem, jdisk, connVars, answers, interrupted, forgotten,
                   overlapped, faults, restarts>>

\* _stop_connectors, for the update, its rollback and a reset.
ConfigClose ==
    /\ \E p \in {"close", "undo_close", "reset_close"} :
          /\ job.pc = p
          /\ job' = [job EXCEPT !.pc = CASE p = "close" -> "clear"
                                         [] p = "undo_close" -> "undo_clear"
                                         [] OTHER -> "reset_clear"]
    /\ CloseAll
    /\ UNCHANGED <<file, lkg, gw, jmem, jdisk, main, rpc, todo, obsVars>>

\* ... then self._gateway._config = ..., and _start_connectors begins.
ConfigClear ==
    /\ job.pc \in {"clear", "undo_clear", "reset_clear"}
    /\ Clear
    /\ gw' = file
    /\ IF job.pc = "reset_clear"
       THEN job' = [job EXCEPT !.pc = "reset_journal"] /\ UNCHANGED todo
       ELSE /\ job' = [job EXCEPT !.pc = IF @ = "clear" THEN "start" ELSE "restart"]
            /\ todo' = [todo EXCEPT !["config"] = ToStart(file)]
    /\ UNCHANGED <<file, lkg, jmem, jdisk, main, rpc, obsVars>>

ConfigStart(d, ok) ==
    /\ job.pc \in {"start", "restart"}
    /\ Started("config", d, ok)
    /\ job' = [job EXCEPT !.failed = @ \/ ~ok]
    /\ UNCHANGED <<file, lkg, gw, jmem, jdisk, main, rpc, obsVars>>

\* Every connector was tried: keep the new configuration or roll it back.
ConfigDecide ==
    /\ job.pc \in {"start", "restart"} /\ todo["config"] = {}
    /\ job' = [job EXCEPT !.pc = IF @ = "restart" THEN "record"
                                 ELSE IF job.failed THEN "undo" ELSE "keep"]
    /\ UNCHANGED <<file, lkg, gw, jmem, jdisk, connVars, obsVars>>

\* _write_config(rollback_config): the file as it was before this update.
UndoWrite ==
    /\ job.pc = "undo"
    /\ file' = job.prev
    /\ job' = [job EXCEPT !.pc = "undo_close"]
    /\ UNCHANGED <<lkg, gw, jmem, jdisk, connVars, obsVars>>

\* _write_last_known_good(new_config)
KeepNew ==
    /\ job.pc = "keep"
    /\ lkg' = job.next
    /\ job' = [job EXCEPT !.pc = "record"]
    /\ UNCHANGED <<file, gw, jmem, jdisk, connVars, obsVars>>

\* Mutant: the revision of a request is not remembered.
RecordedWithoutMax(r, result) ==
    [jmem EXCEPT !.results = [q \in Requests |-> IF q = r THEN result ELSE @[q]]]

\* Mutant: a rollback is remembered as a success.
RecordedAsSuccess(r, result) ==
    [max |-> Revision[r],
     results |-> [q \in Requests |-> IF q = r THEN "success" ELSE jmem.results[q]]]

\* ConfigReplayJournal.record in memory: the newest JournalLimit requests stay.
Recorded(r, result) ==
    LET all  == {q \in Requests : jmem.results[q] # "none"} \cup {r}
        kept == {q \in all : Cardinality({p \in all : Revision[p] > Revision[q]})
                               < JournalLimit}
    IN [max |-> IF Revision[r] > jmem.max THEN Revision[r] ELSE jmem.max,
        results |-> [q \in Requests |-> IF q \notin kept THEN "none"
                                        ELSE IF q = r THEN result ELSE jmem.results[q]]]

\* Mutant: the journal stays in memory.
RecordInMemory(ok) ==
    /\ job.pc = "record" /\ ok
    /\ LET result == IF job.failed THEN "rolled_back" ELSE "success" IN
       jmem' = Recorded(job.req, result) /\ Answer(job.req, result)
    /\ job' = NoJob
    /\ UNCHANGED <<file, lkg, gw, jdisk, connVars, applied, interrupted, forgotten,
                   overwritten, overlapped, faults, restarts>>

\* record, and the final acknowledgement; a journal that cannot be written
\* turns the answer into "failed".
Record(ok) ==
    /\ job.pc = "record"
    /\ LET result == IF job.failed THEN "rolled_back" ELSE "success" IN
       /\ jmem' = Recorded(job.req, result)
       /\ \/ /\ ok /\ jdisk' = jmem'
             /\ Answer(job.req, result)
             /\ UNCHANGED <<forgotten, faults>>
          \/ /\ ~ok /\ Undisturbed /\ faults' = faults + 1
             /\ forgotten' = forgotten \cup {job.req}
             /\ UNCHANGED <<jdisk, answers>>
    /\ job' = NoJob
    /\ UNCHANGED <<file, lkg, gw, connVars, applied, interrupted, overwritten,
                   overlapped, restarts>>

-----------------------------------------------------------------------------
(* The network thread: a new claim, or a release *)

\* NovenaMQTTPublisher writes a configuration without connectors and calls
\* _reset_field_state_for_new_claim.
BeginReset(m) ==
    /\ main # "down" /\ job.pc = "idle" /\ Undisturbed
    /\ file' = [list |-> {}, req |-> None, mode |-> m]
    /\ job' = [NoJob EXCEPT !.pc = "reset_close"]
    /\ forgotten' = Requests
    /\ faults' = faults + 1
    /\ Enter("config")
    /\ UNCHANGED <<lkg, gw, jmem, jdisk, connVars, answers, applied, interrupted,
                   overwritten, restarts>>

\* reset_for_new_claim: the journal, ...
ResetJournal(ok) ==
    /\ job.pc = "reset_journal"
    /\ jmem' = EmptyJournal
    /\ \/ /\ ok /\ jdisk' = EmptyJournal /\ job' = [job EXCEPT !.pc = "reset_lkg"]
          /\ answers' = [r \in Requests |-> {}] /\ applied' = [r \in Requests |-> 0]
          /\ interrupted' = {} /\ forgotten' = {} /\ overwritten' = {}
          /\ UNCHANGED faults
       \/ /\ ~ok /\ Undisturbed /\ faults' = faults + 1 /\ job' = NoJob
          /\ UNCHANGED <<jdisk, answers, applied, interrupted, forgotten, overwritten>>
    /\ UNCHANGED <<file, lkg, gw, connVars, overlapped, restarts>>

\* ... the last-known-good file (and the backups).
ResetLkg ==
    /\ job.pc = "reset_lkg"
    /\ lkg' = file
    /\ job' = NoJob
    /\ UNCHANGED <<file, gw, jmem, jdisk, connVars, obsVars>>

-----------------------------------------------------------------------------
(* An RPC thread: restart_all and restart_connector *)

RpcRestartAll ==
    /\ main # "down" /\ rpc = "idle" /\ restarts < MaxRestarts
    /\ rpc' = "closing" /\ restarts' = restarts + 1
    /\ CloseAll /\ Enter("rpc")
    /\ UNCHANGED <<jobVars, main, todo, answers, applied, interrupted, forgotten,
                   overwritten, faults>>

RpcClear ==
    /\ rpc = "closing"
    /\ Clear
    /\ rpc' = "starting"
    /\ todo' = [todo EXCEPT !["rpc"] = ToStart(gw)]
    /\ UNCHANGED <<jobVars, main, obsVars>>

\* Mutant: a connector that is not in the list is closed.
RpcRestartAny(d) ==
    /\ main # "down" /\ rpc = "idle" /\ restarts < MaxRestarts
    /\ live' = [live EXCEPT ![d] = @ - 1] /\ UNCHANGED orphan
    /\ rpc' = "removing" /\ restarts' = restarts + 1
    /\ todo' = [todo EXCEPT !["rpc"] = {d}]
    /\ Enter("rpc")
    /\ UNCHANGED <<jobVars, main, answers, applied, interrupted, forgotten,
                   overwritten, faults>>

\* restart_connector closes the connector it found in the list ...
RpcRestartOne(d) ==
    /\ main # "down" /\ rpc = "idle" /\ restarts < MaxRestarts /\ live[d] > 0
    /\ live' = [live EXCEPT ![d] = @ - 1] /\ UNCHANGED orphan
    /\ rpc' = "removing" /\ restarts' = restarts + 1
    /\ todo' = [todo EXCEPT !["rpc"] = {d}]
    /\ Enter("rpc")
    /\ UNCHANGED <<jobVars, main, answers, applied, interrupted, forgotten,
                   overwritten, faults>>

\* ... removes it, which raises when another thread cleared the list, and looks
\* up the first entry of its name in the configuration.
RpcRemove ==
    /\ rpc = "removing"
    /\ \/ /\ rpc' = "starting"
          /\ LET found == UNION {SameName(d, gw.list) : d \in todo["rpc"]} IN
             \/ found = {} /\ todo' = [todo EXCEPT !["rpc"] = {}]
             \/ \E d \in found : todo' = [todo EXCEPT !["rpc"] = {d}]
       \/ overlapped /\ rpc' = "idle" /\ todo' = [todo EXCEPT !["rpc"] = {}]
    /\ UNCHANGED <<jobVars, main, live, orphan, obsVars>>

RpcStart(d, ok) ==
    /\ rpc = "starting"
    /\ Started("rpc", d, ok)
    /\ UNCHANGED <<jobVars, main, rpc, obsVars>>

RpcDone ==
    /\ rpc = "starting" /\ todo["rpc"] = {}
    /\ rpc' = "idle"
    /\ UNCHANGED <<jobVars, main, todo, live, orphan, obsVars>>

-----------------------------------------------------------------------------
(* The main thread and the process *)

\* run() reaches _start_connectors, after the subscriptions.
MainBegin ==
    /\ main = "booting"
    /\ main' = "starting"
    /\ todo' = [todo EXCEPT !["main"] = ToStart(gw)]
    /\ UNCHANGED <<jobVars, rpc, live, orphan, obsVars>>

\* The process ends: what it had in memory is gone.
ProcessEnds ==
    /\ main' = "down" /\ rpc' = "idle"
    /\ todo' = [a \in Actors |-> {}]
    /\ live' = [d \in Definitions |-> 0] /\ orphan' = [d \in Definitions |-> 0]
    /\ interrupted' = IF job.req # None /\ job.pc # "write"
                      THEN interrupted \cup {job.req} ELSE interrupted
    /\ job' = NoJob
    /\ UNCHANGED <<file, lkg, gw, jmem, jdisk, answers, applied, forgotten,
                   overwritten, overlapped, restarts>>

MainStart(d, ok) ==
    /\ main \in {"starting", "failing"}
    /\ Started("main", d, ok)
    /\ main' = IF ~ok /\ d \in Required THEN "failing" ELSE main
    /\ UNCHANGED <<jobVars, rpc, obsVars>>

MainDone ==
    /\ main = "starting" /\ todo["main"] = {}
    /\ main' = "up"
    /\ UNCHANGED <<jobVars, rpc, todo, live, orphan, obsVars>>

\* A required connector failed: stop() and sys.exit(1), once all were tried.
MainExit ==
    /\ main = "failing" /\ todo["main"] = {}
    /\ ProcessEnds /\ UNCHANGED faults

Crash ==
    /\ main # "down" /\ Undisturbed
    /\ faults' = faults + 1
    /\ ProcessEnds

\* systemd starts the process again; an unreadable journal counts as empty.
Boot(readable) ==
    /\ main = "down"
    /\ main' = "booting"
    /\ gw' = file
    /\ jmem' = IF readable THEN jdisk ELSE EmptyJournal
    /\ forgotten' = IF readable THEN forgotten ELSE Requests
    /\ overlapped' = FALSE
    /\ UNCHANGED <<file, lkg, jdisk, job, rpc, todo, live, orphan, answers, applied,
                   interrupted, overwritten, faults, restarts>>

-----------------------------------------------------------------------------
ConfigStep ==
    \/ WriteNew \/ ConfigClose \/ ConfigClear \/ ConfigDecide \/ UndoWrite \/ KeepNew
    \/ \E d \in Definitions, ok \in BOOLEAN : ConfigStart(d, ok)
    \/ \E ok \in BOOLEAN : Record(ok) \/ ResetJournal(ok)
    \/ ResetLkg \/ Raise

Deliver ==
    \/ \E r \in Requests : AcceptUpdate(r) \/ ReplayUpdate(r) \/ RefuseUpdate(r)
    \/ IgnoreUpdate
    \/ \E m \in Modes : BeginReset(m)

RpcThread ==
    \/ RpcRestartAll \/ RpcClear \/ RpcRemove \/ RpcDone
    \/ \E d \in Definitions : RpcRestartOne(d) \/ \E ok \in BOOLEAN : RpcStart(d, ok)

MainThread ==
    \/ MainBegin \/ MainDone \/ MainExit
    \/ \E d \in Definitions, ok \in BOOLEAN : MainStart(d, ok)
    \/ \E readable \in BOOLEAN : Boot(readable)

Next == ConfigStep \/ Deliver \/ RpcThread \/ MainThread \/ Crash

Spec == Init /\ [][Next]_vars

-----------------------------------------------------------------------------
(* Properties *)

JobPcs == {"idle", "write", "close", "clear", "start", "undo", "undo_close",
           "undo_clear", "restart", "keep", "record",
           "reset_close", "reset_clear", "reset_journal", "reset_lkg"}

Jobs == [pc : JobPcs, req : Requests \cup {None},
         prev : Configurations \cup {None}, next : Configurations \cup {None},
         failed : BOOLEAN]

\* Type correctness of the configuration files, the journal and the threads.
TypeOK ==
    /\ file \in Configurations /\ lkg \in Configurations /\ gw \in Configurations
    /\ jmem \in Journals /\ jdisk \in Journals
    /\ job \in Jobs
    /\ main \in {"down", "booting", "starting", "failing", "up"}
    /\ rpc \in {"idle", "closing", "removing", "starting"}
    /\ todo \in [Actors -> SUBSET Definitions]
    /\ live \in [Definitions -> Nat] /\ orphan \in [Definitions -> Nat]
    /\ answers \in [Requests -> SUBSET Results]
    /\ applied \in [Requests -> 0 .. 2]
    /\ interrupted \subseteq Requests /\ forgotten \subseteq Requests
    /\ overwritten \subseteq Requests /\ overlapped \in BOOLEAN
    /\ faults \in Nat /\ restarts \in Nat

\* "That makes a repeated MQTT delivery safe": however often and in whatever
\* order requests are delivered, also when the bounded journal has dropped one,
\* a request is written once; exempt are those whose processing was cut off
\* before the journal had them (verify, ConfigReplayJournal.record).
AppliedOnce ==
    \A r \in Requests \ (interrupted \cup forgotten) : applied[r] <= 1

\* A configuration is replaced by one of a lower revision only when the journal
\* file did not have it (verify's revision check).
OlderReplacesOnlyUnrecorded == overwritten \subseteq interrupted \cup forgotten

\* Once the Hub was told "success", the file never again holds an older
\* revision, crashes and rollbacks of later updates included, unless its record
\* was lost from the journal file (_apply_config_with_rollback, record).
SuccessSurvives ==
    \A r \in Requests \ forgotten :
        "success" \in answers[r] => Rev(file) >= Revision[r]

\* A redelivery never turns "success" into "rolled_back" or back (record's
\* result is what a replay answers).
OneOutcome ==
    \A r \in Requests \ (interrupted \cup forgotten) : ~(Results \subseteq answers[r])

\* When no thread is at work on the connectors, the gateway's configuration is
\* the file's; and unless two threads overlapped, none has slipped out of the
\* list, every open connector is an entry of the configuration, and an entry
\* whose name no other entry has runs at most once
\* (_stop_connectors, _start_connectors, rollback, restart_connector).
Settled ==
    main = "up" /\ Busy = {} =>
        /\ gw = file
        /\ \/ overlapped
           \/ \A d \in Definitions :
                 /\ orphan[d] = 0
                 /\ live[d] > 0 => d \in file.list
                 /\ SameName(d, file.list) = {d} => live[d] <= 1

\* "prevents an older configuration from replacing a newer one"
\* (docs/guided_setup_operations.md).
OlderNeverReplacesNewer == overwritten = {}

-----------------------------------------------------------------------------
(* What makes the invariants inductive *)

Updating == job.pc \in {"write", "close", "clear", "start", "undo", "undo_close",
                        "undo_clear", "restart", "keep", "record"}

\* The request was written by the update in progress.
Written(r) == Updating /\ job.pc # "write" /\ job.req = r

\* Both copies of the journal are at or past the request's revision.
Anchored(r) == Revision[r] <= jmem.max /\ Revision[r] <= jdisk.max

Excused == interrupted \cup forgotten

\* An update in progress: a request the journal does not know, and the file is
\* the new configuration or, once it is undone, the former one.
JobInv ==
    /\ Updating => /\ job.req \in Requests
                   /\ job.prev \in Configurations /\ job.next \in Configurations
                   /\ job.next.req = job.req
                   /\ Revision[job.req] > jmem.max
    /\ ~Updating => job.req = None
    /\ main = "down" => job.pc = "idle"
    /\ job.pc = "write" => file = job.prev
    /\ job.pc \in {"close", "clear", "start", "undo", "keep"} => file = job.next
    /\ job.pc \in {"undo_close", "undo_clear", "restart"} => file = job.prev
    /\ job.pc \in {"undo", "undo_close", "undo_clear", "restart"} => job.failed
    /\ job.pc = "keep" => ~job.failed
    /\ job.pc = "record" => file = IF job.failed THEN job.prev ELSE job.next
    /\ job.pc \in {"reset_close", "reset_clear", "reset_journal"} =>
          forgotten = Requests /\ file.req = None

\* What has been written, and what a rollback would bring back, is anchored.
AnchorInv ==
    /\ \A r \in Requests \ Excused :
          applied[r] # 0 => Written(r) \/ Anchored(r)
    /\ file.req \in Requests \ Excused => Written(file.req) \/ Anchored(file.req)
    /\ Updating /\ job.prev.req \in Requests \ Excused => Anchored(job.prev.req)

\* The request is anchored and no older configuration is, or can come, in force.
InForce(r) ==
    /\ Anchored(r)
    /\ Rev(file) >= Revision[r]
    /\ Updating => Rev(job.prev) >= Revision[r]

SuccessInv ==
    \A r \in Requests \ forgotten :
        \/ "success" \in answers[r]
        \/ jmem.results[r] = "success"
        \/ jdisk.results[r] = "success"
        => InForce(r)

\* Every copy of a request's outcome that exists is the same one.
OutcomeInv ==
    \A r \in Requests \ Excused :
        /\ \A o \in answers[r] : /\ Anchored(r)
                                 /\ jmem.results[r] \in {o, "none"}
                                 /\ jdisk.results[r] \in {o, "none"}
        /\ jmem.results[r] # "none" =>
              Anchored(r) /\ jdisk.results[r] \in {jmem.results[r], "none"}
        /\ jdisk.results[r] # "none" => Anchored(r)

\* The file is ahead of the gateway's configuration only while connectors are
\* being stopped for it.
Reloading == job.pc \in {"close", "clear", "undo_close", "undo_clear",
                         "reset_close", "reset_clear"}

Alone == \A a, b \in Busy : a = b

\* Where no connector is open: before the first is started, and after all were
\* closed.
Silent == \/ main \in {"down", "booting"} \/ rpc = "closing"
          \/ job.pc \in {"clear", "undo_clear", "reset_clear"}

\* The thread is in the part of its work in which it has entries to start.
Starting(a) == \/ a = "main" /\ main \in {"starting", "failing"}
               \/ a = "config" /\ job.pc \in {"start", "restart"}
               \/ a = "rpc" /\ rpc \in {"removing", "starting"}

\* As long as no two threads overlapped, the open connectors and the entries
\* still to be started are entries of the configuration, each of them in one
\* of the two if its name is its own.
OwnInv ==
    /\ Alone
    /\ \A d \in Definitions :
          /\ orphan[d] = 0
          /\ Silent => live[d] = 0
          /\ live[d] > 0 => d \in gw.list
          /\ SameName(d, gw.list) = {d} => live[d] <= 1
    /\ \A a \in Actors : \A d \in todo[a] :
          /\ Starting(a) /\ d \in gw.list
          /\ SameName(d, gw.list) = {d} => live[d] = 0

ConnectorInv ==
    /\ main = "down" => /\ rpc = "idle" /\ \A a \in Actors : todo[a] = {}
                        /\ \A d \in Definitions : live[d] = 0 /\ orphan[d] = 0
    /\ main # "down" /\ ~Reloading => gw = file
    /\ ~overlapped => OwnInv

InductiveInv ==
    /\ TypeOK /\ JobInv /\ AnchorInv /\ AppliedOnce /\ OlderReplacesOnlyUnrecorded
    /\ SuccessInv /\ OutcomeInv /\ OneOutcome /\ ConnectorInv

=============================================================================
