------------------------------ MODULE Discovery ------------------------------
(* Equipment discovery (gateway/discovery_service.py): boot, periodic and      *)
(* guided scans share one scan lock, one cancel event, one active scan id and  *)
(* one book of reports.  Every RPC runs in a thread of its own                 *)
(* (rpc_handler.py), so two requests to start a scan interleave between the    *)
(* checks of start_guided_scan and the assignments that follow them.           *)
EXTENDS Naturals, Sequences, FiniteSets, SequencesExt

CONSTANTS ScanIds,       \* ids the Hub gives to guided scans
          Background,    \* background scans, "boot" and "periodic": one round of each
          Guided,        \* guided scan threads started, at most (a bound)
          SerialTargets, \* serial ports found by a scan
          TcpTargets,    \* Modbus TCP targets of a scan
          ReportCache    \* reports remembered; 20 in the code

ASSUME DiscoveryAssumption ==
    /\ SerialTargets \in Nat /\ TcpTargets \in Nat
    /\ ReportCache \in Nat \ {0}
    /\ IsFiniteSet(ScanIds) /\ IsFiniteSet(Background) /\ ScanIds \cap Background = {}
    /\ (ScanIds \cup Background) \cap {"none", "free"} = {}
    /\ Guided \cap (Background \cup {"none", "free"}) = {}

VARIABLES scan,          \* the scans, one record per thread
          scanLock,      \* the thread that holds _scan_lock, or "free"
          scanCancelled, \* the event _scan_cancelled
          scanStopped,   \* _stopped
          activeScan,    \* _active_scan_id, or "none"
          guidedThread,  \* _guided_scan_thread: the thread started last, or "none"
          scanReports,   \* _reports_by_scan_id in insertion order
          scanCaller,    \* RPC threads past the checks of start_guided_scan
          hubScan,       \* the status the Hub heard last about each scan
          coverage       \* history: the last report covers every target or lists an
                         \* error; another start overlapped the scan

discoveryVars == <<scan, scanLock, scanCancelled, scanStopped, activeScan,
                   guidedThread, scanReports, scanCaller, hubScan, coverage>>

ScanThreads == Background \cup Guided
AllScans == ScanIds \cup Background
ScanCallers == {"rpc1", "rpc2"}
TerminalStatus == {"complete", "cancelled", "error"}

NoScan == [pc |-> "none", id |-> "none", serial |-> 0, tcp |-> 0, open |-> 0,
           found |-> FALSE, errors |-> FALSE, timedOut |-> FALSE]

DiscoveryTypeOK ==
    /\ scan \in [ScanThreads ->
         [pc : {"none", "born", "enumerate", "serial", "tcp", "probe", "report", "raised",
                "unlock", "forget", "ended"},
          id : AllScans \cup {"none"}, serial : 0 .. SerialTargets, tcp : 0 .. TcpTargets,
          open : 0 .. TcpTargets, found : BOOLEAN, errors : BOOLEAN, timedOut : BOOLEAN]]
    /\ scanLock \in ScanThreads \cup {"free"}
    /\ scanCancelled \in BOOLEAN /\ scanStopped \in BOOLEAN
    /\ activeScan \in ScanIds \cup {"none"}
    /\ guidedThread \in Guided \cup {"none"}
    /\ scanReports \in Seq([id : AllScans, status : TerminalStatus \cup {"running"}])
    /\ Len(scanReports) <= ReportCache + Cardinality(AllScans)
    /\ scanCaller \in [ScanCallers -> ScanIds \cup {"none"}]
    /\ hubScan \in [AllScans -> TerminalStatus \cup {"none", "running"}]
    /\ coverage \in [AllScans -> [whole : BOOLEAN, overlapped : BOOLEAN]]

(* __init__ and start: the background threads exist and sleep.               *)
DiscoveryInit ==
    /\ scan = [t \in ScanThreads |-> IF t \in Background
                                     THEN [NoScan EXCEPT !.pc = "born", !.id = t] ELSE NoScan]
    /\ scanLock = "free" /\ scanCancelled = FALSE /\ scanStopped = FALSE
    /\ activeScan = "none" /\ guidedThread = "none" /\ scanReports = <<>>
    /\ scanCaller = [c \in ScanCallers |-> "none"]
    /\ hubScan = [i \in AllScans |-> "none"]
    /\ coverage = [i \in AllScans |-> [whole |-> TRUE, overlapped |-> FALSE]]

Alive(t) == scan[t].pc \notin {"none", "ended"}
Cancelling == scanStopped \/ scanCancelled

----------------------------------------------------------------------------
(* Reports.  A report replaces the one of the same scan in its place.          *)

Book(id, status) ==
    LET entry == [id |-> id, status |-> status]
        i == SelectInSeq(scanReports, LAMBDA r : r.id = id)
    IN  IF i = 0 THEN Append(scanReports, entry) ELSE [scanReports EXCEPT ![i] = entry]

(* _publish_progress: remembered as running, never evicts.                     *)
PublishProgress(id) ==
    /\ scanReports' = Book(id, "running")
    /\ hubScan' = [hubScan EXCEPT ![id] = "running"]

(* _remember_and_publish: the oldest report leaves a book that grows too long. *)
RememberAndPublish(id, status) ==
    LET kept == Book(id, status)
    IN  /\ scanReports' = IF Len(kept) > ReportCache THEN Tail(kept) ELSE kept
        /\ hubScan' = [hubScan EXCEPT ![id] = status]

----------------------------------------------------------------------------
(* Requests.                                                                   *)

(* start_guided_scan, a repeated request: the terminal report is sent again.   *)
ReplayReport(id) ==
    \E i \in 1 .. Len(scanReports) :
        /\ scanReports[i].id = id /\ scanReports[i].status \in TerminalStatus
        /\ hubScan' = [hubScan EXCEPT ![id] = scanReports[i].status]
        /\ UNCHANGED <<scan, scanLock, scanCancelled, scanStopped, activeScan, guidedThread,
                       scanReports, scanCaller, coverage>>

(* start_guided_scan up to the last check; a request that meets a running      *)
(* scan is answered "running" or refused and changes nothing.                  *)
CheckStart(c, id) ==
    /\ scanCaller[c] = "none"
    /\ \A i \in 1 .. Len(scanReports) :
           scanReports[i].id = id => scanReports[i].status \notin TerminalStatus
    /\ scanLock = "free"
    /\ guidedThread # "none" => ~Alive(guidedThread)
    /\ scanCaller' = [scanCaller EXCEPT ![c] = id]
    /\ UNCHANGED <<scan, scanLock, scanCancelled, scanStopped, activeScan, guidedThread,
                   scanReports, hubScan, coverage>>

(* start_guided_scan after the checks: clears the cancel event, takes the      *)
(* active id and starts the thread, whatever happened since the checks.        *)
CommitStart(c) ==
    LET id == scanCaller[c]
        n == CHOOSE g \in Guided : scan[g].pc = "none"
        busy == {t \in ScanThreads : Alive(t) /\ (t \in Guided \/ scan[t].pc # "born")}
    IN  /\ id # "none"
        /\ \E g \in Guided : scan[g].pc = "none"
        /\ scanCancelled' = FALSE
        /\ activeScan' = id
        /\ guidedThread' = n
        /\ scan' = [scan EXCEPT ![n] = [NoScan EXCEPT !.pc = "born", !.id = id]]
        /\ scanCaller' = [scanCaller EXCEPT ![c] = "none"]
        /\ coverage' = [i \in AllScans |->
               IF busy # {} /\ i \in {id} \cup {scan[t].id : t \in busy}
               THEN [coverage[i] EXCEPT !.overlapped = TRUE] ELSE coverage[i]]
        /\ UNCHANGED <<scanLock, scanStopped, scanReports, hubScan>>

(* cancel_current_scan: only the active scan can be cancelled.                 *)
CancelScan(id) ==
    /\ id = activeScan /\ ~scanCancelled
    /\ scanCancelled' = TRUE
    /\ UNCHANGED <<scan, scanLock, scanStopped, activeScan, guidedThread, scanReports,
                   scanCaller, hubScan, coverage>>

StopDiscovery ==
    /\ ~scanStopped
    /\ scanStopped' = TRUE /\ scanCancelled' = TRUE
    /\ UNCHANGED <<scan, scanLock, activeScan, guidedThread, scanReports, scanCaller,
                   hubScan, coverage>>

----------------------------------------------------------------------------
(* One scan, in its thread.                                                    *)

ScanStep(t, rec) == scan' = [scan EXCEPT ![t] = rec]

(* What a scan found is gone with its report.                                  *)
ScanOver(t, pc) == ScanStep(t, [NoScan EXCEPT !.pc = pc, !.id = scan[t].id])

(* _boot_scan and _periodic_scan_loop end without a scan once stopped.         *)
NeverScan(t) ==
    /\ t \in Background /\ scan[t].pc = "born" /\ scanStopped
    /\ ScanOver(t, "ended")
    /\ UNCHANGED <<scanLock, scanCancelled, scanReports, hubScan, activeScan, coverage>>

(* scan, entry: the lock is taken without waiting; a background scan clears    *)
(* the cancel event, a guided one had it cleared by its starter.               *)
EnterScan(t) ==
    /\ scan[t].pc = "born" /\ scanLock = "free"
    /\ t \in Background => ~scanStopped
    /\ scanLock' = t
    /\ scanCancelled' = IF t \in Background THEN FALSE ELSE scanCancelled
    /\ ScanStep(t, [scan[t] EXCEPT !.pc = "enumerate"])
    /\ UNCHANGED <<scanReports, hubScan, activeScan, coverage>>

(* scan raises at once when another scan holds the lock: a background scan     *)
(* only logs it.                                                               *)
BusyScan(t) ==
    /\ scan[t].pc = "born" /\ scanLock # "free"
    /\ t \in Background => ~scanStopped
    /\ ScanOver(t, IF t \in Background THEN "ended" ELSE "raised")
    /\ UNCHANGED <<scanLock, scanCancelled, scanReports, hubScan, activeScan, coverage>>

(* The targets: serial ports found, TCP targets approved or attached (guided)  *)
(* or configured (background, where an empty approved list falls back to them: *)
(* the subnet is never added).                                                 *)
WithTargets(r) == [r EXCEPT !.serial = SerialTargets, !.tcp = TcpTargets]

Enumerate(t) ==
    /\ scan[t].pc = "enumerate"
    /\ ScanStep(t, [WithTargets(scan[t]) EXCEPT !.pc = "serial"])
    /\ PublishProgress(scan[t].id)
    /\ UNCHANGED <<scanLock, scanCancelled, activeScan, coverage>>

(* A refused option (an unavailable port, an unsafe or invalid target) raises; *)
(* the lock is released on the way out.                                        *)
RefuseTargets(t) ==
    /\ scan[t].pc = "enumerate" /\ t \in Guided
    /\ scanLock' = "free"
    /\ ScanOver(t, "raised")
    /\ UNCHANGED <<scanCancelled, scanReports, hubScan, activeScan, coverage>>

(* _scan_rtu_interface over baud rates and slave ids: devices or none; every   *)
(* failure of a client is swallowed.                                           *)
RtuDevices == BOOLEAN

(* The serial loop: a port is skipped as configured (no device), scanned, or   *)
(* raises and is listed as an error.                                           *)
ScanSerial(t) ==
    /\ scan[t].pc = "serial" /\ scan[t].serial > 0 /\ ~Cancelling
    /\ \/ \E found \in RtuDevices :
              ScanStep(t, [scan[t] EXCEPT !.serial = @ - 1, !.found = @ \/ found])
       \/ ScanStep(t, [scan[t] EXCEPT !.serial = @ - 1, !.errors = TRUE])
    /\ PublishProgress(scan[t].id)
    /\ UNCHANGED <<scanLock, scanCancelled, activeScan, coverage>>

LeaveSerial(t) ==
    /\ scan[t].pc = "serial" /\ (scan[t].serial = 0 \/ Cancelling)
    /\ \E configured \in 0 .. scan[t].tcp :
         LET left == scan[t].tcp - configured
         IN  ScanStep(t, [scan[t] EXCEPT !.pc = IF left > 0 THEN "tcp" ELSE "report", !.tcp = left])
    /\ UNCHANGED <<scanLock, scanCancelled, scanReports, hubScan, activeScan, coverage>>

(* _scan_tcp_network, reachability: futures complete one by one.               *)
ReachTarget(t) ==
    /\ scan[t].pc = "tcp" /\ scan[t].tcp > 0 /\ ~Cancelling
    /\ \E reachable \in {0, 1} :
           ScanStep(t, [scan[t] EXCEPT !.tcp = @ - 1, !.open = @ + reachable])
    /\ PublishProgress(scan[t].id)
    /\ UNCHANGED <<scanLock, scanCancelled, activeScan, coverage>>

(* The loop ends when nothing is pending, on cancel, or at the deadline.       *)
LeaveReach(t) ==
    /\ scan[t].pc = "tcp"
    /\ \E late \in {scan[t].tcp > 0 /\ ~Cancelling} :
           ScanStep(t, [scan[t] EXCEPT !.pc = "probe", !.timedOut = late, !.errors = @ \/ late])
    /\ UNCHANGED <<scanLock, scanCancelled, scanReports, hubScan, activeScan, coverage>>

(* _probe_tcp_target: a reachable endpoint is a device, identified or not.     *)
ProbeTarget(t) ==
    /\ scan[t].pc = "probe" /\ scan[t].open > 0 /\ ~Cancelling
    /\ ScanStep(t, [scan[t] EXCEPT !.open = @ - 1, !.found = TRUE])
    /\ PublishProgress(scan[t].id)
    /\ UNCHANGED <<scanLock, scanCancelled, activeScan, coverage>>

LeaveProbe(t) ==
    /\ scan[t].pc = "probe" /\ (scan[t].open = 0 \/ Cancelling)
    /\ ScanStep(t, [scan[t] EXCEPT !.pc = "report"])
    /\ UNCHANGED <<scanLock, scanCancelled, scanReports, hubScan, activeScan, coverage>>

FinalStatusIgnoringCancel(r) == IF r.timedOut /\ ~r.found THEN "error" ELSE "complete"

(* The status of the final report.                                             *)
FinalStatus(r) == CASE Cancelling -> "cancelled"
                    [] ~Cancelling /\ r.timedOut /\ ~r.found -> "error"
                    [] OTHER -> "complete"

ReportScan(t) ==
    LET r == scan[t]
        visited == r.serial = 0 /\ r.tcp = 0 /\ r.open = 0
    IN  /\ r.pc = "report"
        /\ RememberAndPublish(r.id, FinalStatus(r))
        /\ coverage' = [coverage EXCEPT ![r.id].whole = visited \/ r.errors]
        /\ ScanOver(t, "unlock")
        /\ UNCHANGED <<scanLock, scanCancelled, activeScan>>

(* finally: the lock is released; a guided thread then gives up the active id. *)
ReleaseScan(t) ==
    /\ scan[t].pc = "unlock"
    /\ scanLock' = "free"
    /\ ScanOver(t, IF t \in Background THEN "ended" ELSE "forget")
    /\ UNCHANGED <<scanCancelled, scanReports, hubScan, activeScan, coverage>>

ReportFailureQuietly(t) ==
    /\ scan[t].pc = "raised"
    /\ ScanOver(t, "forget")
    /\ UNCHANGED <<scanLock, scanCancelled, activeScan, scanReports, hubScan, coverage>>

(* start_guided_scan.run, except: the failed scan is reported as an error.     *)
ReportFailure(t) ==
    /\ scan[t].pc = "raised"
    /\ RememberAndPublish(scan[t].id, "error")
    /\ coverage' = [coverage EXCEPT ![scan[t].id].whole = TRUE]
    /\ ScanOver(t, "forget")
    /\ UNCHANGED <<scanLock, scanCancelled, activeScan>>

ForgetScan(t) ==
    /\ scan[t].pc = "forget"
    /\ activeScan' = IF activeScan = scan[t].id THEN "none" ELSE activeScan
    /\ ScanOver(t, "ended")
    /\ UNCHANGED <<scanLock, scanCancelled, scanReports, hubScan, coverage>>

ScanThread(t) ==
    /\ \/ NeverScan(t) \/ EnterScan(t) \/ BusyScan(t) \/ Enumerate(t) \/ RefuseTargets(t)
       \/ ScanSerial(t) \/ LeaveSerial(t) \/ ReachTarget(t) \/ LeaveReach(t)
       \/ ProbeTarget(t) \/ LeaveProbe(t) \/ ReportScan(t) \/ ReleaseScan(t)
       \/ ReportFailure(t) \/ ForgetScan(t)
    /\ UNCHANGED <<scanStopped, guidedThread, scanCaller>>

DiscoveryNext ==
    \/ \E t \in ScanThreads : ScanThread(t)
    \/ \E id \in ScanIds : ReplayReport(id) \/ CancelScan(id)
    \/ \E c \in ScanCallers : CommitStart(c) \/ \E id \in ScanIds : CheckStart(c, id)
    \/ StopDiscovery

(* A scan thread that is alive and can step eventually does: every probe has a *)
(* timeout.  Requests are never owed.  The periodic thread wakes, so it too is  *)
(* never blocked for ever.                                                     *)
DiscoveryFairness == \A t \in ScanThreads : WF_discoveryVars(ScanThread(t))

DiscoverySpec == DiscoveryInit /\ [][DiscoveryNext]_discoveryVars /\ DiscoveryFairness

----------------------------------------------------------------------------
(* A report that says "complete" covers every target or lists an error, unless *)
(* a second start_guided_scan passed its checks before the first one's thread  *)
(* existed and then cleared the cancel event of a scan that was already        *)
(* breaking off (scan, the break on _cancelled and the final status).          *)
CompleteMeansCovered ==
    \A id \in AllScans :
        hubScan[id] = "complete" => coverage[id].whole \/ coverage[id].overlapped

(* Every guided scan that was started ends: its threads are gone and the last  *)
(* thing the Hub heard about it is a terminal status, however it failed (the   *)
(* except and finally blocks of start_guided_scan.run and scan).               *)
ScanConcludes ==
    \A id \in ScanIds :
        (\E g \in Guided : scan[g].id = id) ~>
            /\ \A g \in Guided : scan[g].id = id => ~Alive(g)
            /\ hubScan[id] \in TerminalStatus
=============================================================================
