---------------------------- MODULE ServiceProofs ----------------------------
(* The network watchdog, the over-the-air updates, the discovery service, the  *)
(* remote log and readiness; and the sum of all services that MCServices runs. *)
EXTENDS MCServices, ClaimLifecycleProofs, SqliteRotationProofs, SequenceTheorems,
        FiniteSetTheorems, WellFoundedInduction, TLAPS

------------------------------------------------------------------------------
(* That a changed route metric can be written back as long as the process     *)
(* lives, for any list of interfaces, any configured metrics and any number   *)
(* of helper faults.                                                          *)

(* What metrics m and remembered values r say of each other, when the         *)
(* interfaces in o have lost their operator's metric with a dead process.     *)
Known(m, r, o) ==
    /\ m \in [Interfaces -> Nat]
    /\ DOMAIN r \subseteq Interfaces \ FieldInterfaces
    /\ \A i \in DOMAIN r : r[i] \in Nat
    /\ \A i \in FieldInterfaces : m[i] = Metrics[i]
    /\ \A i \in Interfaces \ o : IF i \in DOMAIN r THEN r[i] = Metrics[i] ELSE m[i] = Metrics[i]

(* The inductive invariant: unlike MetricsRestorable it also says that a      *)
(* remembered value is the operator's while the metric is back at it.         *)
MetricsInv == Known(metric, remembered, orphaned)

(* A non-empty set of naturals has a least member, which Min picks.           *)
LEMMA MinIsMember ==
  ASSUME NEW S \in SUBSET Nat, S # {}
  PROVE  Min(S) \in S
  <1>1. PICK x \in S : \A y \in S : ~(<<y, x>> \in OpToRel(<, Nat))
    BY WFMin, NatLessThanWellFounded, Zenon
  <1>2. \A y \in S : <<y, x>> \in Nat \X Nat /\ ~(y < x)
    BY <1>1 DEF OpToRel
  <1>3. ASSUME NEW y \in S PROVE x =< y
    <2>1. x \in Nat /\ y \in Nat /\ ~(y < x)
      BY <1>2
    <2> QED BY <2>1
  <1> QED BY <1>3 DEF Min

(* The preferred interface of a non-empty set is one of the set.              *)
LEMMA BestIsMember ==
  ASSUME NEW s \in SUBSET Interfaces, s # {}
  PROVE  Best(s) \in s
  <1> DEFINE T == {i \in DOMAIN Preference : Preference[i] \in s}
  <1>1. T \in SUBSET Nat
    BY WatchdogAssumption
  <1>2. T # {}
    BY DEF Interfaces
  <1>3. Min(T) \in T
    BY <1>1, <1>2, MinIsMember
  <1> QED BY <1>3 DEF Best

(* Writing remembered metrics back, whichever the helper manages.             *)
LEMMA RestoreKeeps ==
  ASSUME NEW m, NEW r, Known(m, r, orphaned), NEW back \in SUBSET DOMAIN r,
         Restore(back, m, r), UNCHANGED orphaned
  PROVE  MetricsInv'
  <1>1. /\ metric' = [i \in Interfaces |-> IF i \in back THEN r[i] ELSE m[i]]
        /\ remembered' = [j \in DOMAIN r \ back |-> r[j]]
    BY DEF Restore
  <1>2. metric' \in [Interfaces -> Nat]
    BY <1>1 DEF Known
  <1>3. /\ DOMAIN remembered' = DOMAIN r \ back
        /\ \A i \in DOMAIN remembered' : remembered'[i] = r[i]
    BY <1>1
  <1>4. \A i \in FieldInterfaces : metric'[i] = Metrics[i]
    BY <1>1, WatchdogAssumption DEF Known
  <1>5. ASSUME NEW i \in Interfaces \ orphaned
        PROVE IF i \in DOMAIN remembered' THEN remembered'[i] = Metrics[i]
                                          ELSE metric'[i] = Metrics[i]
    BY <1>1, <1>3 DEF Known
  <1> QED BY <1>2, <1>3, <1>4, <1>5 DEF MetricsInv, Known

(* Lowering the metric of an uplink after its present metric was remembered   *)
(* (unless an earlier one was).                                               *)
LEMMA LoweringKeeps ==
  ASSUME MetricsInv, NEW i \in Interfaces \ FieldInterfaces, NEW n \in Nat
  PROVE  Known([metric EXCEPT ![i] = n], Remember(i), orphaned)
  <1>1. /\ DOMAIN Remember(i) = DOMAIN remembered \cup {i}
        /\ \A j \in DOMAIN Remember(i) :
              Remember(i)[j] = IF j \in DOMAIN remembered THEN remembered[j] ELSE metric[j]
    BY DEF Remember
  <1> HIDE DEF Remember
  <1> QED BY <1>1, WatchdogAssumption DEF MetricsInv, Known

(* Every selection of an active interface leaves metrics that are known.      *)
LEMMA SelectionsKnown ==
  ASSUME MetricsInv, NEW routes \in SUBSET Interfaces, NEW healthy \in SUBSET Uplinks(routes),
         NEW present, NEW sel \in Selections(present, Candidate(present, healthy), Uplinks(routes))
  PROVE  /\ Known(sel.metric, sel.remembered, orphaned)
         /\ DOMAIN remembered \subseteq DOMAIN sel.remembered
  <1> DEFINE next == Candidate(present, healthy)
             others == {metric[i] : i \in Uplinks(routes) \ {next}}
  <1>1. CASE sel.metric = metric /\ sel.remembered = remembered
    BY <1>1 DEF MetricsInv
  <1>2. CASE /\ next \notin {NoInterface, present} /\ others # {} /\ Min(others) # 0
             /\ sel.metric = [metric EXCEPT ![next] = Min(others) - 1]
             /\ sel.remembered = Remember(next)
    <2>1. others \in SUBSET Nat
      BY DEF Uplinks, MetricsInv, Known
    <2>2. Min(others) \in Nat
      BY <1>2, <2>1, MinIsMember
    <2>3. Min(others) - 1 \in Nat
      BY <1>2, <2>2
    <2>4. next = Best(healthy) /\ healthy # {}
      BY <1>2 DEF Candidate, Best
    <2>5. next \in Interfaces \ FieldInterfaces
      BY <2>4, BestIsMember DEF Uplinks
    <2>6. DOMAIN remembered \subseteq DOMAIN Remember(next)
      BY DEF Remember
    <2> HIDE DEF next, others
    <2> QED BY <1>2, <2>3, <2>5, <2>6, LoweringKeeps
  <1> QED BY <1>1, <1>2 DEF Selections

(* Every check, stop, restoration and restart keeps the invariant.            *)
LEMMA MetricsStep == MetricsInv /\ [WatchdogNext]_watchdogVars => MetricsInv'
  <1> SUFFICES ASSUME MetricsInv, [WatchdogNext]_watchdogVars PROVE MetricsInv'
    OBVIOUS
  <1>1. CASE Check
    <2>0. PICK routes \in SUBSET Interfaces : \E healthy \in SUBSET Uplinks(routes) :
             CheckNetwork(routes, healthy)
      BY <1>1 DEF Check
    <2>1. PICK healthy \in SUBSET Uplinks(routes) : CheckNetwork(routes, healthy)
      BY <2>0
    <2> DEFINE present == IF active = NoInterface THEN LowestMetric(Uplinks(routes)) ELSE active
    <2>2. PICK sel \in Selections(present, Candidate(present, healthy), Uplinks(routes)) :
            \E back \in SUBSET Restorable(Uplinks(routes), sel.active) :
               Restore(back, sel.metric, sel.remembered)
      BY <2>1 DEF CheckNetwork
    <2>3. PICK back \in SUBSET Restorable(Uplinks(routes), sel.active) :
             Restore(back, sel.metric, sel.remembered)
      BY <2>2
    <2> HIDE DEF present
    <2>4. /\ Known(sel.metric, sel.remembered, orphaned)
          /\ DOMAIN remembered \subseteq DOMAIN sel.remembered
      BY SelectionsKnown
    <2>5. back \in SUBSET DOMAIN sel.remembered
      BY <2>3, <2>4 DEF Restorable
    <2>6. UNCHANGED orphaned
      BY <2>1 DEF CheckNetwork
    <2> QED BY <2>3, <2>4, <2>5, <2>6, RestoreKeeps
  <1>2. CASE StopWatchdog
    BY <1>2 DEF StopWatchdog, MetricsInv, Known
  <1>3. CASE RestoreMetrics
    <2>1. PICK back \in SUBSET DOMAIN remembered : Restore(back, metric, remembered)
      BY <1>3 DEF RestoreMetrics
    <2> QED BY <1>3, <2>1, RestoreKeeps DEF RestoreMetrics, MetricsInv
  <1>4. CASE WatchdogRestart
    <2>1. DOMAIN remembered' = {}
      BY <1>4 DEF WatchdogRestart
    <2> QED BY <1>4, <2>1 DEF WatchdogRestart, MetricsInv, Known
  <1>5. CASE UNCHANGED watchdogVars
    BY <1>5 DEF watchdogVars, MetricsInv, Known
  <1> QED BY <1>1, <1>2, <1>3, <1>4, <1>5 DEF WatchdogNext

(* A failover, a refused change or a failed restoration never loses the       *)
(* operator's metric of an uplink while the process lives, and no field       *)
(* interface's metric is ever changed (NetworkWatchdogHandler).               *)
THEOREM MetricsStayRestorable == WatchdogSpec => []MetricsRestorable
  <1>1. WatchdogInit => MetricsInv
    <2>1. DOMAIN <<>> = {} OBVIOUS
    <2> QED BY <2>1, WatchdogAssumption DEF WatchdogInit, MetricsInv, Known
  <1>2. MetricsInv => MetricsRestorable
    BY DEF MetricsInv, Known, MetricsRestorable
  <1> QED BY <1>1, <1>2, MetricsStep, PTL DEF WatchdogSpec

------------------------------------------------------------------------------
(* That the link `current' always names a whole release, for any number of     *)
(* versions, commands, scripts at work at the same time and power cuts.        *)

(* What each script has done to its own release, and what it would go back to. *)
ScriptInv(v) ==
    /\ upgrade[v].pc = "install" => release[v] = "unpacked"
    /\ upgrade[v].pc = "validate" => release[v] = "installed"
    /\ upgrade[v].pc \in {"swap", "restart", "health"} => Whole(v)
    /\ upgrade[v].backup \in AllReleases /\ Whole(upgrade[v].backup)

ScriptType == [pc : {"idle", "extract", "install", "validate", "swap", "restart", "health"},
               backup : AllReleases]
ReleaseType == {"absent", "unpacked", "installed", "valid", "broken"}

(* The inductive invariant.  A release that was whole stays so: only its own   *)
(* script changes it, and only before it is.                                   *)
LinkInv ==
    /\ upgrade \in [Versions -> ScriptType]
    /\ release \in [AllReleases -> ReleaseType]
    /\ current \in AllReleases
    /\ Whole(Factory) /\ CurrentIsWhole
    /\ \A v \in Versions : ScriptInv(v)

(* The factory release is whole and no script is at work.                      *)
LEMMA LinkInit == OtaInit => LinkInv
  BY OtaAssumption
  DEF OtaInit, LinkInv, ScriptInv, ScriptType, ReleaseType, Whole, CurrentIsWhole, NoScript,
      AllReleases

(* A step that leaves releases and link alone and only starts, ends or moves   *)
(* scripts in ways that keep ScriptInv.                                        *)
LEMMA ScriptsOnly ==
  ASSUME LinkInv, UNCHANGED <<release, current>>, upgrade' \in [Versions -> ScriptType],
         \A v \in Versions : upgrade'[v] \in {upgrade[v], NoScript} \/ ScriptInv(v)'
  PROVE  LinkInv'
  <1>1. ASSUME NEW v \in Versions PROVE ScriptInv(v)'
    <2>1. CASE upgrade'[v] = upgrade[v]
      BY <2>1 DEF LinkInv, ScriptInv, Whole
    <2>2. CASE upgrade'[v] = NoScript
      BY <2>2 DEF LinkInv, ScriptInv, Whole, NoScript, AllReleases
    <2> QED BY <2>1, <2>2
  <1> QED BY <1>1 DEF LinkInv, CurrentIsWhole, Whole

(* A script writes its own release, which is not whole yet.                    *)
LEMMA OwnRelease ==
  ASSUME LinkInv, NEW v \in Versions, ~Whole(v), NEW r \in ReleaseType, NEW pc,
         pc \in {"install", "validate", "swap"},
         release' = [release EXCEPT ![v] = r], UNCHANGED current,
         upgrade' = [upgrade EXCEPT ![v].pc = pc],
         pc = "install" => r = "unpacked",
         pc = "validate" => r = "installed",
         pc = "swap" => r \in {"valid", "broken"}
  PROVE  LinkInv'
  <1>1. upgrade' \in [Versions -> ScriptType]
    BY DEF LinkInv, ScriptType
  <1>2. release' \in [AllReleases -> ReleaseType]
    BY DEF LinkInv, AllReleases
  <1>3. \A w \in AllReleases : Whole(w) => Whole(w)' /\ w # v
    BY DEF LinkInv, Whole, AllReleases
  <1>4. ASSUME NEW w \in Versions PROVE ScriptInv(w)'
    <2>1. upgrade[w].backup \in AllReleases /\ Whole(upgrade[w].backup)
      BY DEF LinkInv, ScriptInv
    <2>2. upgrade'[w].backup = upgrade[w].backup
      BY DEF LinkInv, ScriptType
    <2>3. upgrade'[w].backup \in AllReleases /\ Whole(upgrade[w].backup)'
      BY <2>1, <2>2, <1>3
    <2>4. CASE w = v
      BY <2>2, <2>3, <2>4 DEF LinkInv, ScriptInv, ScriptType, Whole, AllReleases
    <2>5. CASE w # v
      BY <2>2, <2>3, <2>5, <1>3 DEF LinkInv, ScriptInv, ScriptType, Whole, AllReleases
    <2> QED BY <2>4, <2>5
  <1>5. Whole(Factory)' /\ CurrentIsWhole'
    BY <1>3 DEF LinkInv, CurrentIsWhole, Whole, AllReleases
  <1> QED BY <1>1, <1>2, <1>4, <1>5 DEF LinkInv

(* Every step of commands, scripts, service and power keeps the invariant.     *)
LEMMA LinkStep == LinkInv /\ [OtaNext]_otaVars => LinkInv'
  <1> SUFFICES ASSUME LinkInv, [OtaNext]_otaVars PROVE LinkInv'
    OBVIOUS
  <1>0. \A v \in Versions : upgrade[v] \in ScriptType /\ NoScript \in ScriptType
    BY DEF LinkInv, NoScript, ScriptType, AllReleases
  <1>1. ASSUME NEW v \in Versions, ReceiveUpdate(v) PROVE LinkInv'
    BY <1>1, ScriptsOnly DEF ReceiveUpdate, LinkInv
  <1>2. ASSUME NEW v \in Versions, Unpack(v) PROVE LinkInv'
    <2>1. CASE release[v] # "absent" /\ ScriptEnds(v, "failed") /\ UNCHANGED release
      BY <1>0, <1>2, <2>1, ScriptsOnly DEF Unpack, ScriptEnds, LinkInv
    <2>2. CASE release[v] = "absent" /\ release' = [release EXCEPT ![v] = "unpacked"]
               /\ ScriptStep(v, "install")
      <3>1. ~Whole(v) BY <2>2 DEF Whole
      <3>2. "unpacked" \in ReleaseType BY DEF ReleaseType
      <3> QED BY <1>2, <2>2, <3>1, <3>2, OwnRelease DEF Unpack, ScriptStep
    <2>3. CASE UNCHANGED release /\ ScriptEnds(v, "failed")
      BY <1>0, <1>2, <2>3, ScriptsOnly DEF Unpack, ScriptEnds, LinkInv
    <2>4. CASE UNCHANGED release /\ ScriptDies(v)
      BY <1>0, <1>2, <2>4, ScriptsOnly DEF Unpack, ScriptDies, LinkInv
    <2> QED BY <1>2, <2>1, <2>2, <2>3, <2>4 DEF Unpack
  <1>3. ASSUME NEW v \in Versions, InstallDependencies(v) PROVE LinkInv'
    <2>1. CASE release' = [release EXCEPT ![v] = "installed"] /\ ScriptStep(v, "validate")
      <3>1. ~Whole(v) BY <1>3 DEF InstallDependencies, LinkInv, ScriptInv, Whole
      <3>2. "installed" \in ReleaseType BY DEF ReleaseType
      <3> QED BY <1>3, <2>1, <3>1, <3>2, OwnRelease DEF InstallDependencies, ScriptStep
    <2>2. CASE UNCHANGED release /\ ScriptDies(v)
      BY <1>0, <1>3, <2>2, ScriptsOnly DEF InstallDependencies, ScriptDies, LinkInv
    <2> QED BY <1>3, <2>1, <2>2 DEF InstallDependencies
  <1>4. ASSUME NEW v \in Versions, ValidateCandidate(v) PROVE LinkInv'
    <2>1. ASSUME NEW r \in {"valid", "broken"}, release' = [release EXCEPT ![v] = r],
                 ScriptStep(v, "swap")
          PROVE LinkInv'
      <3>1. ~Whole(v) BY <1>4 DEF ValidateCandidate, LinkInv, ScriptInv, Whole
      <3>2. r \in ReleaseType BY DEF ReleaseType
      <3> QED BY <1>4, <2>1, <3>1, <3>2, OwnRelease DEF ValidateCandidate, ScriptStep
    <2>2. CASE UNCHANGED release /\ ScriptEnds(v, "failed")
      BY <1>0, <1>4, <2>2, ScriptsOnly DEF ValidateCandidate, ScriptEnds, LinkInv
    <2> QED BY <1>4, <2>1, <2>2 DEF ValidateCandidate
  <1>5. ASSUME NEW v \in Versions, SwapLink(v) PROVE LinkInv'
    <2>1. Whole(v) /\ v \in AllReleases
      BY <1>5 DEF SwapLink, LinkInv, ScriptInv, AllReleases
    <2>2. upgrade' \in [Versions -> ScriptType]
      BY <1>5 DEF SwapLink, ScriptStep, LinkInv, ScriptType
    <2>3. \A w \in Versions : ScriptInv(w)'
      BY <1>5, <2>1 DEF SwapLink, ScriptStep, LinkInv, ScriptInv, ScriptType, Whole
    <2> QED BY <1>5, <2>1, <2>2, <2>3 DEF SwapLink, LinkInv, CurrentIsWhole, Whole
  <1>6. ASSUME NEW v \in Versions, RestartService(v) PROVE LinkInv'
    <2>1. CASE ScriptStep(v, "health")
      <3>1. upgrade' \in [Versions -> ScriptType]
        BY <2>1 DEF ScriptStep, LinkInv, ScriptType
      <3>2. \A w \in Versions : upgrade'[w] = upgrade[w] \/ ScriptInv(w)'
        BY <1>6, <2>1 DEF RestartService, ScriptStep, LinkInv, ScriptInv, ScriptType, Whole
      <3> QED BY <1>6, <3>1, <3>2, ScriptsOnly DEF RestartService
    <2>2. CASE upgrade' = [w \in Versions |-> NoScript]
      BY <1>0, <1>6, <2>2, ScriptsOnly DEF RestartService
    <2>3. CASE upgrade' = [upgrade EXCEPT ![v] = NoScript]
      BY <1>0, <1>6, <2>3, ScriptsOnly DEF RestartService, LinkInv
    <2> QED BY <1>6, <2>1, <2>2, <2>3 DEF RestartService
  <1>7. ASSUME NEW v \in Versions, HealthyAfterwards(v) PROVE LinkInv'
    <2>1. CASE UNCHANGED current
      BY <1>0, <1>7, <2>1, ScriptsOnly DEF HealthyAfterwards, ScriptEnds, LinkInv
    <2>2. CASE current' = upgrade[v].backup
      <3>1. upgrade' \in [Versions -> ScriptType] /\ UNCHANGED release
            /\ \A w \in Versions : upgrade'[w] \in {upgrade[w], NoScript}
        BY <1>0, <1>7 DEF HealthyAfterwards, ScriptEnds, LinkInv
      <3>2. current' \in AllReleases /\ CurrentIsWhole'
        BY <2>2, <3>1 DEF LinkInv, ScriptInv, CurrentIsWhole, Whole
      <3>3. \A w \in Versions : ScriptInv(w)'
        BY <3>1 DEF LinkInv, ScriptInv, Whole, NoScript, AllReleases
      <3> QED BY <3>1, <3>2, <3>3 DEF LinkInv, Whole
    <2> QED BY <1>7, <2>1, <2>2 DEF HealthyAfterwards
  <1>8. CASE VerifyManifest \/ Download \/ CheckArtifact \/ ServiceFails \/ SyncStatus
    BY <1>8, ScriptsOnly
    DEF VerifyManifest, Download, CheckArtifact, ServiceFails, SyncStatus, LinkInv
  <1>9. CASE LaunchUpgrade
    <2>1. CASE UNCHANGED upgrade
      BY <1>9, <2>1, ScriptsOnly DEF LaunchUpgrade, LinkInv
    <2>2. CASE upgrade' # upgrade
      <3> DEFINE v == update.version
      <3>1. upgrade' = [upgrade EXCEPT ![v] = [pc |-> "extract", backup |-> current]]
        BY <1>9, <2>2 DEF LaunchUpgrade
      <3>2. upgrade' \in [Versions -> ScriptType]
        BY <3>1 DEF LinkInv, ScriptType
      <3>3. \A w \in Versions : upgrade'[w] = upgrade[w] \/ ScriptInv(w)'
        BY <1>9, <3>1 DEF LaunchUpgrade, LinkInv, ScriptInv, CurrentIsWhole, Whole
      <3> QED BY <1>9, <3>2, <3>3, ScriptsOnly DEF LaunchUpgrade
    <2> QED BY <2>1, <2>2
  <1>10. CASE PowerCut
    BY <1>0, <1>10, ScriptsOnly DEF PowerCut
  <1>11. CASE UNCHANGED otaVars
    BY <1>11, ScriptsOnly DEF otaVars, LinkInv
  <1> QED
    BY <1>1, <1>2, <1>3, <1>4, <1>5, <1>6, <1>7, <1>8, <1>9, <1>10, <1>11 DEF OtaNext

(* Whatever is cut short, the link names a release that was unpacked from a    *)
(* checked artifact, installed and validated (upgrade.sh, set -e and the       *)
(* refusal of an existing directory).                                          *)
THEOREM CurrentStaysWhole == OtaSpec => []CurrentIsWhole
  <1>1. LinkInv => CurrentIsWhole
    BY DEF LinkInv
  <1> QED BY <1>1, LinkInit, LinkStep, PTL DEF OtaSpec

------------------------------------------------------------------------------
(* That a scan announced as complete covered all its targets, for any scan     *)
(* ids, any number of background and guided scans, any numbers of targets and  *)
(* any size of the report book.                                                *)

ScanRecords ==
    [pc : {"none", "born", "enumerate", "serial", "tcp", "probe", "report", "raised",
           "unlock", "forget", "ended"},
     id : AllScans \cup {"none"}, serial : 0 .. SerialTargets, tcp : 0 .. TcpTargets,
     open : 0 .. TcpTargets, found : BOOLEAN, errors : BOOLEAN, timedOut : BOOLEAN]
Reports == [id : AllScans, status : TerminalStatus \cup {"running"}]
Coverages == [whole : BOOLEAN, overlapped : BOOLEAN]

\* The shapes of what a scan works on.
DiscoveryShapes ==
    /\ scan \in [ScanThreads -> ScanRecords] /\ scanLock \in ScanThreads \cup {"free"}
    /\ scanCancelled \in BOOLEAN /\ scanStopped \in BOOLEAN
    /\ activeScan \in ScanIds \cup {"none"} /\ guidedThread \in Guided \cup {"none"}
    /\ scanReports \in Seq(Reports) /\ scanCaller \in [ScanCallers -> ScanIds \cup {"none"}]
    /\ hubScan \in [AllScans -> TerminalStatus \cup {"none", "running"}]
    /\ coverage \in [AllScans -> Coverages]

\* A thread inside scan() between the lock and its release.
Inside(t) == scan[t].pc \in {"enumerate", "serial", "tcp", "probe", "report", "unlock"}

\* A scan that broke off before its last target and has no error to list.
BrokenOff(r) ==
    /\ ~r.errors
    /\ \/ r.pc \in {"tcp", "probe", "report"} /\ r.serial > 0
       \/ r.pc \in {"probe", "report"} /\ r.tcp > 0
       \/ r.pc = "report" /\ r.open > 0

\* One scan at a time is inside scan(): the one that holds the lock.
LockInv == \A t \in ScanThreads : Inside(t) => scanLock = t

\* No target was reached before the serial loop is over, and none twice.
Reaching(r) == /\ r.pc \in {"born", "enumerate", "serial"} => r.open = 0
               /\ r.tcp + r.open <= TcpTargets
ReachInv == \A t \in ScanThreads : Reaching(scan[t])

\* A scan breaks off only when it is cancelled, and that is still to be seen
\* when it reports, unless another start cleared the event.
CancelInv ==
    \A t \in ScanThreads :
        BrokenOff(scan[t]) => Cancelling \/ coverage[scan[t].id].overlapped

\* At most one report of each scan is remembered, and one that says
\* "complete" is as true as what the Hub heard.
BookInv ==
    /\ \A i, j \in 1 .. Len(scanReports) : scanReports[i].id = scanReports[j].id => i = j
    /\ \A i \in 1 .. Len(scanReports) : scanReports[i].status = "complete" =>
           coverage[scanReports[i].id].whole \/ coverage[scanReports[i].id].overlapped

\* A thread that was started knows its scan.
IdInv == \A t \in ScanThreads : scan[t].pc # "none" => scan[t].id \in AllScans

\* A thread that is over with its scan.
Over(pc, id) == [NoScan EXCEPT !.pc = pc, !.id = id]

\* A report of this scan that says "complete" is covered or excused.
Sound(c) == c.whole \/ c.overlapped

ThreadInv == IdInv /\ LockInv /\ ReachInv /\ CancelInv
DiscoveryInv == DiscoveryShapes /\ ThreadInv /\ BookInv /\ CompleteMeansCovered

-----------------------------------------------------------------------------
(***************************************************************************)
(* The book of reports.                                                    *)
(***************************************************************************)

\* A report takes the place of the scan's former one, or is the newest.
LEMMA BookFacts ==
    ASSUME DiscoveryShapes, BookInv, NEW id \in AllScans,
           NEW status \in TerminalStatus \cup {"running"}
    PROVE  /\ Book(id, status) \in Seq(Reports)
           /\ Len(Book(id, status)) >= 1
           /\ \A i, j \in 1 .. Len(Book(id, status)) :
                  Book(id, status)[i].id = Book(id, status)[j].id => i = j
           /\ \A i \in 1 .. Len(Book(id, status)) :
                  \/ Book(id, status)[i] = [id |-> id, status |-> status]
                  \/ /\ Book(id, status)[i].id # id
                     /\ \E j \in 1 .. Len(scanReports) : Book(id, status)[i] = scanReports[j]
<1> DEFINE entry == [id |-> id, status |-> status]
           n == Len(scanReports)
           I == {i \in 1 .. n : scanReports[i].id = id}
<1>1. /\ scanReports \in Seq(Reports) /\ n \in Nat
      /\ \A i \in 1 .. n : scanReports[i] \in Reports
  BY DEF DiscoveryShapes
<1>2. entry \in Reports /\ entry.id = id
  BY DEF Reports
<1>3. \A i, j \in 1 .. n : scanReports[i].id = scanReports[j].id => i = j
  BY DEF BookInv
<1> HIDE DEF entry
<1>4. CASE I = {}
  <2>1. SelectInSeq(scanReports, LAMBDA r : r.id = id) = 0
    BY <1>4 DEF SelectInSeq
  <2>2. Book(id, status) = Append(scanReports, entry)
    BY <2>1 DEF Book, entry
  <2> DEFINE b == Append(scanReports, entry)
  <2>3. /\ b \in Seq(Reports) /\ Len(b) = n + 1 /\ b[n + 1] = entry
        /\ \A i \in 1 .. n : b[i] = scanReports[i] /\ b[i].id # id
    BY <1>1, <1>2, <1>4
  <2>4. \A i \in 1 .. n + 1 : i \in 1 .. n \/ i = n + 1
    BY <1>1
  <2> HIDE DEF b, n
  <2>5. \A i, j \in 1 .. n + 1 : b[i].id = b[j].id => i = j
    BY <1>2, <1>3, <2>3, <2>4
  <2>6. Len(b) >= 1
    BY <1>1, <2>3
  <2>7. \A i \in 1 .. n + 1 : b[i] = entry
            \/ (b[i].id # id /\ \E j \in 1 .. n : b[i] = scanReports[j])
    BY <2>3, <2>4
  <2> QED BY <2>2, <2>3, <2>5, <2>6, <2>7 DEF b, entry, n
<1>5. CASE I # {}
  <2>1. PICK k \in 1 .. n : scanReports[k].id = id
    BY <1>5
  <2>2. k \in Nat /\ I = {k}
    BY <1>1, <1>3, <2>1
  <2>3. Min(I) = k
    BY <2>2 DEF Min
  <2>4. SelectInSeq(scanReports, LAMBDA r : r.id = id) = k /\ k # 0
    BY <1>5, <2>1, <2>3 DEF SelectInSeq
  <2>5. Book(id, status) = [scanReports EXCEPT ![k] = entry]
    BY <2>4 DEF Book, entry
  <2> DEFINE b == [scanReports EXCEPT ![k] = entry]
  <2>6. /\ b \in Seq(Reports) /\ Len(b) = n /\ b[k] = entry
        /\ \A i \in 1 .. n : i # k => b[i] = scanReports[i]
    BY <1>1, <1>2, <2>1
  <2> HIDE DEF b
  <2>7. \A i \in 1 .. n : b[i].id = scanReports[i].id
    BY <1>2, <2>1, <2>6
  <2>8. Len(b) >= 1
    BY <1>1, <2>1, <2>6
  <2>9. \A i \in 1 .. n : b[i] = entry
            \/ (b[i].id # id /\ \E j \in 1 .. n : b[i] = scanReports[j])
    BY <1>3, <2>1, <2>6, <2>7
  <2> QED BY <1>3, <2>5, <2>6, <2>7, <2>8, <2>9 DEF b, entry
<1> QED BY <1>4, <1>5

\* What a published report leaves in the book and tells the Hub.
LEMMA ReportKeeps ==
    ASSUME DiscoveryInv, NEW id \in AllScans, NEW status \in TerminalStatus \cup {"running"},
           (PublishProgress(id) /\ status = "running") \/ RememberAndPublish(id, status),
           coverage' \in [AllScans -> Coverages],
           \A i \in AllScans : i # id /\ Sound(coverage[i]) => Sound(coverage'[i]),
           status = "complete" => Sound(coverage'[id])
    PROVE  /\ scanReports' \in Seq(Reports)
           /\ hubScan' \in [AllScans -> TerminalStatus \cup {"none", "running"}]
           /\ BookInv' /\ CompleteMeansCovered'
<1> DEFINE b == Book(id, status)
           c == scanReports'
<1>0. DiscoveryShapes /\ BookInv /\ CompleteMeansCovered
  BY DEF DiscoveryInv
<1>1. /\ b \in Seq(Reports) /\ Len(b) >= 1
      /\ \A i, j \in 1 .. Len(b) : b[i].id = b[j].id => i = j
      /\ \A i \in 1 .. Len(b) :
             \/ b[i] = [id |-> id, status |-> status]
             \/ b[i].id # id /\ \E j \in 1 .. Len(scanReports) : b[i] = scanReports[j]
  BY <1>0, BookFacts
<1>2. /\ hubScan' = [hubScan EXCEPT ![id] = status]
      /\ (c = b \/ c = Tail(b))
  BY DEF PublishProgress, RememberAndPublish
<1> HIDE DEF b, c
<1>3. /\ hubScan' \in [AllScans -> TerminalStatus \cup {"none", "running"}]
      /\ hubScan'[id] = status /\ \A i \in AllScans : i # id => hubScan'[i] = hubScan[i]
  BY <1>0, <1>2 DEF DiscoveryShapes
<1>4. CompleteMeansCovered'
  <2> SUFFICES ASSUME NEW i \in AllScans, hubScan'[i] = "complete"
               PROVE  Sound(coverage'[i])
    BY DEF CompleteMeansCovered, Sound
  <2>1. CASE i = id
    BY <1>3, <2>1
  <2>2. CASE i # id
    <3>1. Sound(coverage[i])
      BY <1>0, <1>3, <2>2 DEF CompleteMeansCovered, Sound
    <3> QED BY <2>2, <3>1
  <2> QED BY <2>1, <2>2
<1>5. ASSUME NEW i \in 1 .. Len(b), b[i].status = "complete" PROVE Sound(coverage'[b[i].id])
  <2>1. CASE b[i] = [id |-> id, status |-> status]
    BY <1>5, <2>1
  <2>2. CASE b[i].id # id /\ \E j \in 1 .. Len(scanReports) : b[i] = scanReports[j]
    <3>1. PICK j \in 1 .. Len(scanReports) : b[i] = scanReports[j]
      BY <2>2
    <3>2. Sound(coverage[b[i].id])
      BY <1>0, <1>5, <3>1 DEF BookInv, Sound
    <3>3. b[i].id \in AllScans
      <4>1. b[i] \in Reports
        BY <1>1
      <4> QED BY <4>1 DEF Reports
    <3> QED BY <2>2, <3>2, <3>3
  <2> QED BY <1>1, <2>1, <2>2
<1>6. /\ c \in Seq(Reports)
      /\ \A i, j \in 1 .. Len(c) : c[i].id = c[j].id => i = j
      /\ \A i \in 1 .. Len(c) : c[i].status = "complete" => Sound(coverage'[c[i].id])
  <2>1. CASE c = b
    BY <1>1, <1>5, <2>1
  <2>2. CASE c = Tail(b)
    <3>1. /\ c \in Seq(Reports) /\ Len(b) \in Nat /\ Len(c) = Len(b) - 1
          /\ \A i \in 1 .. Len(c) : c[i] = b[i + 1]
      BY <1>1, <2>2
    <3>2. \A i \in 1 .. Len(c) : i \in Nat /\ i + 1 \in 1 .. Len(b)
      BY <3>1
    <3>3. ASSUME NEW i \in 1 .. Len(c), NEW j \in 1 .. Len(c), c[i].id = c[j].id PROVE i = j
      <4>0. /\ i + 1 \in 1 .. Len(b) /\ j + 1 \in 1 .. Len(b)
            /\ b[i + 1].id = b[j + 1].id
        BY <3>1, <3>2, <3>3
      <4>1. i + 1 = j + 1
        BY <1>1, <4>0
      <4>2. i \in Nat /\ j \in Nat
        BY <3>2
      <4> QED BY <4>1, <4>2
    <3>4. ASSUME NEW i \in 1 .. Len(c), c[i].status = "complete" PROVE Sound(coverage'[c[i].id])
      BY <1>5, <3>1, <3>2, <3>4
    <3> QED BY <3>1, <3>3, <3>4
  <2> QED BY <1>2, <2>1, <2>2
<1> QED BY <1>3, <1>4, <1>6 DEF BookInv, Sound, c

\* Nothing is reported, and no scan loses its coverage.
LEMMA QuietKeeps ==
    ASSUME DiscoveryInv, UNCHANGED <<scanReports, hubScan>>,
           coverage' \in [AllScans -> Coverages],
           \A i \in AllScans : Sound(coverage[i]) => Sound(coverage'[i])
    PROVE  /\ scanReports' \in Seq(Reports)
           /\ hubScan' \in [AllScans -> TerminalStatus \cup {"none", "running"}]
           /\ BookInv' /\ CompleteMeansCovered'
<1>1. /\ DiscoveryShapes /\ BookInv /\ CompleteMeansCovered
  BY DEF DiscoveryInv
<1>2. \A i \in 1 .. Len(scanReports) : scanReports[i].id \in AllScans
  <2>1. \A i \in 1 .. Len(scanReports) : scanReports[i] \in Reports
    BY <1>1 DEF DiscoveryShapes
  <2> QED BY <2>1 DEF Reports
<1>3. BookInv'
  BY <1>1, <1>2 DEF BookInv, Sound
<1>4. CompleteMeansCovered'
  BY <1>1 DEF CompleteMeansCovered, Sound
<1> QED BY <1>1, <1>3, <1>4 DEF DiscoveryShapes

-----------------------------------------------------------------------------
(***************************************************************************)
(* The threads.                                                            *)
(***************************************************************************)

\* No scan thread is mistaken for the free lock.
LEMMA ThreadsAreNotFree == "free" \notin ScanThreads
BY DiscoveryAssumption DEF ScanThreads

\* A scan that is over has no target left to account for.
LEMMA OverFacts ==
    ASSUME NEW id \in AllScans,
           NEW pc \in {"born", "raised", "unlock", "forget", "ended"}
    PROVE  /\ Over(pc, id) \in ScanRecords /\ Over(pc, id).pc = pc /\ Over(pc, id).id = id
           /\ Reaching(Over(pc, id)) /\ ~BrokenOff(Over(pc, id))
<1> DEFINE r == Over(pc, id)
<1>1. NoScan \in [pc : {"none"}, id : {"none"}, serial : {0}, tcp : {0}, open : {0},
                  found : {FALSE}, errors : {FALSE}, timedOut : {FALSE}]
  BY DEF NoScan
<1>2. /\ r.pc = pc /\ r.id = id /\ r.serial = 0 /\ r.tcp = 0 /\ r.open = 0
      /\ r \in [pc : {pc}, id : {id}, serial : {0}, tcp : {0}, open : {0},
                found : {FALSE}, errors : {FALSE}, timedOut : {FALSE}]
  BY <1>1 DEF Over
<1>3. 0 \in 0 .. SerialTargets /\ 0 \in 0 .. TcpTargets /\ 0 + 0 <= TcpTargets
  BY DiscoveryAssumption
<1>4. r \in ScanRecords
  BY <1>2, <1>3 DEF ScanRecords
<1>5. ~BrokenOff(r)
  BY <1>2 DEF BrokenOff
<1>6. Reaching(r)
  BY <1>2, <1>3 DEF Reaching
<1> QED BY <1>2, <1>4, <1>5, <1>6

\* One thread takes a step: what it leaves for the others, and itself.
LEMMA ThreadStep ==
    ASSUME DiscoveryInv, NEW t \in ScanThreads, NEW r \in ScanRecords,
           scan' = [scan EXCEPT ![t] = r], r.id \in AllScans,
           r.pc \in {"enumerate", "serial", "tcp", "probe", "report", "unlock"} => scanLock' = t,
           \A u \in ScanThreads : u # t /\ Inside(u) => scanLock' = u,
           Reaching(r),
           BrokenOff(r) => Cancelling' \/ coverage'[r.id].overlapped,
           \A u \in ScanThreads : u # t /\ BrokenOff(scan[u]) =>
               Cancelling' \/ coverage'[scan[u].id].overlapped
    PROVE  scan' \in [ScanThreads -> ScanRecords] /\ ThreadInv'
<1>1. DiscoveryShapes /\ IdInv /\ LockInv /\ ReachInv /\ CancelInv
  BY DEF DiscoveryInv, ThreadInv
<1>2. /\ scan \in [ScanThreads -> ScanRecords] /\ scan' \in [ScanThreads -> ScanRecords]
      /\ scan'[t] = r /\ \A u \in ScanThreads : u # t => scan'[u] = scan[u]
  BY <1>1 DEF DiscoveryShapes
<1>3. IdInv'
  BY <1>1, <1>2 DEF IdInv
<1>4. LockInv'
  BY <1>2 DEF LockInv, Inside
<1>5. ReachInv'
  BY <1>1, <1>2 DEF ReachInv
<1>6. CancelInv'
  <2> SUFFICES ASSUME NEW u \in ScanThreads, BrokenOff(scan'[u])
               PROVE  Cancelling' \/ coverage'[scan'[u].id].overlapped
    BY DEF CancelInv
  <2> QED BY <1>2
<1> QED BY <1>2, <1>3, <1>4, <1>5, <1>6 DEF ThreadInv

\* A thread keeps the lock, and nothing is cleared.
LEMMA ThreadStepInside ==
    ASSUME DiscoveryInv, NEW t \in ScanThreads, NEW r \in ScanRecords,
           scan' = [scan EXCEPT ![t] = r], r.id = scan[t].id, r.id \in AllScans,
           UNCHANGED <<scanLock, scanCancelled, scanStopped>>,
           \A i \in AllScans : coverage'[i].overlapped = coverage[i].overlapped,
           r.pc \in {"enumerate", "serial", "tcp", "probe", "report", "unlock"} => Inside(t),
           Reaching(r),
           BrokenOff(r) => BrokenOff(scan[t]) \/ Cancelling
    PROVE  scan' \in [ScanThreads -> ScanRecords] /\ ThreadInv'
<1>1. DiscoveryShapes /\ IdInv /\ LockInv /\ CancelInv
  BY DEF DiscoveryInv, ThreadInv
<1>2. Cancelling' = Cancelling
  BY DEF Cancelling
<1>3. \A u \in ScanThreads : BrokenOff(scan[u]) => scan[u].id \in AllScans
  BY <1>1 DEF IdInv, BrokenOff
<1>4. \A u \in ScanThreads : BrokenOff(scan[u]) =>
          Cancelling' \/ coverage'[scan[u].id].overlapped
  BY <1>1, <1>2, <1>3 DEF CancelInv
<1>5. BrokenOff(r) => Cancelling' \/ coverage'[r.id].overlapped
  BY <1>2, <1>4
<1>6. \A u \in ScanThreads : Inside(u) => scanLock' = u
  BY <1>1 DEF LockInv
<1> QED BY <1>4, <1>5, <1>6, ThreadStep

\* The invariant from its parts, for the steps of a scan thread.
LEMMA FromParts ==
    ASSUME DiscoveryInv, scan' \in [ScanThreads -> ScanRecords], ThreadInv',
           scanLock' \in ScanThreads \cup {"free"}, scanCancelled' \in BOOLEAN,
           scanStopped' \in BOOLEAN, activeScan' \in ScanIds \cup {"none"},
           guidedThread' \in Guided \cup {"none"},
           scanCaller' \in [ScanCallers -> ScanIds \cup {"none"}],
           coverage' \in [AllScans -> Coverages],
           /\ scanReports' \in Seq(Reports)
           /\ hubScan' \in [AllScans -> TerminalStatus \cup {"none", "running"}]
           /\ BookInv' /\ CompleteMeansCovered'
    PROVE  DiscoveryInv'
BY DEF DiscoveryInv, DiscoveryShapes

-----------------------------------------------------------------------------
(***************************************************************************)
(* Every action keeps the invariant.                                       *)
(***************************************************************************)

\* What was covered stays covered when nothing is noted.
LEMMA CoverageKept ==
    ASSUME DiscoveryInv, UNCHANGED coverage
    PROVE  /\ coverage' \in [AllScans -> Coverages]
           /\ \A i \in AllScans : coverage'[i].overlapped = coverage[i].overlapped
           /\ \A i \in AllScans : Sound(coverage[i]) => Sound(coverage'[i])
BY DEF DiscoveryInv, DiscoveryShapes

\* A thread that ends, fails at the door, or gives up the active id.
LEMMA LeaveKeeps ==
    ASSUME DiscoveryInv, NEW t \in ScanThreads, NeverScan(t) \/ BusyScan(t) \/ ForgetScan(t),
           UNCHANGED <<scanStopped, guidedThread, scanCaller>>
    PROVE  DiscoveryInv'
<1>0. DiscoveryShapes /\ IdInv
  BY DEF DiscoveryInv, ThreadInv
<1>1. PICK pc \in {"raised", "forget", "ended"} : ScanOver(t, pc)
  BY DEF NeverScan, BusyScan, ForgetScan
<1> DEFINE r == Over(pc, scan[t].id)
<1>2. /\ UNCHANGED <<scanLock, scanCancelled, scanReports, hubScan, coverage>>
      /\ scan[t].pc # "none" /\ (activeScan' = activeScan \/ activeScan' = "none")
  BY DEF NeverScan, BusyScan, ForgetScan
<1>3. scan' = [scan EXCEPT ![t] = r] /\ scan[t].id \in AllScans
  BY <1>0, <1>1, <1>2 DEF ScanOver, ScanStep, IdInv, Over
<1>4. /\ r \in ScanRecords /\ r.pc = pc /\ r.id = scan[t].id /\ Reaching(r)
      /\ ~BrokenOff(r)
  BY <1>3, OverFacts
<1> HIDE DEF r
<1>5. scan' \in [ScanThreads -> ScanRecords] /\ ThreadInv'
  BY <1>1, <1>2, <1>3, <1>4, CoverageKept, ThreadStepInside
<1>6. /\ coverage' \in [AllScans -> Coverages] /\ scanReports' \in Seq(Reports)
      /\ hubScan' \in [AllScans -> TerminalStatus \cup {"none", "running"}]
      /\ BookInv' /\ CompleteMeansCovered'
  BY <1>2, CoverageKept, QuietKeeps
<1> QED BY <1>0, <1>2, <1>5, <1>6, FromParts DEF DiscoveryShapes

\* The lock is free, so no scan is inside that a cleared event could mislead.
LEMMA EnterKeeps ==
    ASSUME DiscoveryInv, NEW t \in ScanThreads, EnterScan(t),
           UNCHANGED <<scanStopped, guidedThread, scanCaller>>
    PROVE  DiscoveryInv'
<1> DEFINE r == [scan[t] EXCEPT !.pc = "enumerate"]
<1>0. DiscoveryShapes /\ IdInv /\ LockInv /\ ReachInv
  BY DEF DiscoveryInv, ThreadInv
<1>1. /\ scan[t].pc = "born" /\ scanLock = "free" /\ scanLock' = t
      /\ scanCancelled' = (IF t \in Background THEN FALSE ELSE scanCancelled)
      /\ scan' = [scan EXCEPT ![t] = r]
      /\ UNCHANGED <<scanReports, hubScan, activeScan, coverage>>
  BY DEF EnterScan, ScanStep
<1>2. scan[t] \in ScanRecords /\ scan[t].id \in AllScans
  BY <1>0, <1>1 DEF DiscoveryShapes, IdInv
<1>3. /\ r \in ScanRecords /\ r.pc = "enumerate" /\ r.id = scan[t].id
      /\ r.open = scan[t].open /\ r.tcp = scan[t].tcp
  BY <1>2 DEF ScanRecords
<1>4. ~BrokenOff(r)
  BY <1>3 DEF BrokenOff
<1>5. \A u \in ScanThreads : ~Inside(u) /\ ~BrokenOff(scan[u])
  BY <1>0, <1>1, ThreadsAreNotFree DEF LockInv, BrokenOff, Inside
<1>6. Reaching(r)
  BY <1>0, <1>1, <1>3 DEF ReachInv, Reaching
<1> HIDE DEF r
<1>7. scan' \in [ScanThreads -> ScanRecords] /\ ThreadInv'
  BY <1>1, <1>2, <1>3, <1>4, <1>5, <1>6, ThreadStep
<1>8. /\ coverage' \in [AllScans -> Coverages] /\ scanReports' \in Seq(Reports)
      /\ hubScan' \in [AllScans -> TerminalStatus \cup {"none", "running"}]
      /\ BookInv' /\ CompleteMeansCovered'
  BY <1>1, CoverageKept, QuietKeeps
<1>9. scanCancelled' \in BOOLEAN
  BY <1>0, <1>1 DEF DiscoveryShapes
<1> QED BY <1>0, <1>1, <1>7, <1>8, <1>9, FromParts DEF DiscoveryShapes

\* A step inside a scan: the record r is thread t's next one.
Within(t, r) ==
    /\ r \in ScanRecords /\ scan' = [scan EXCEPT ![t] = r] /\ r.id = scan[t].id
    /\ Reaching(r) /\ (BrokenOff(r) => BrokenOff(scan[t]) \/ Cancelling)

\* The counters of a scan are numbers within its targets.
LEMMA Fields ==
    ASSUME DiscoveryInv, NEW t \in ScanThreads
    PROVE  /\ scan[t] \in ScanRecords /\ Reaching(scan[t])
           /\ scan[t].serial \in Nat /\ scan[t].serial <= SerialTargets
           /\ scan[t].tcp \in Nat /\ scan[t].tcp <= TcpTargets
           /\ scan[t].open \in Nat /\ scan[t].open <= TcpTargets
           /\ SerialTargets \in Nat /\ TcpTargets \in Nat
           /\ scan[t].found \in BOOLEAN /\ scan[t].errors \in BOOLEAN
<1>1. scan[t] \in ScanRecords /\ Reaching(scan[t])
  BY DEF DiscoveryInv, DiscoveryShapes, ThreadInv, ReachInv
<1>2. SerialTargets \in Nat /\ TcpTargets \in Nat
  BY DiscoveryAssumption
<1>3. /\ scan[t].serial \in 0 .. SerialTargets /\ scan[t].tcp \in 0 .. TcpTargets
      /\ scan[t].open \in 0 .. TcpTargets
      /\ scan[t].found \in BOOLEAN /\ scan[t].errors \in BOOLEAN
  BY <1>1 DEF ScanRecords
<1> QED BY <1>1, <1>2, <1>3

\* A scan that holds the lock, step by step: it lists its targets, ...
LEMMA EnumerateWithin ==
    ASSUME DiscoveryInv, NEW t \in ScanThreads, Enumerate(t)
    PROVE  \E r : Within(t, r)
<1> DEFINE r == [scan[t] EXCEPT !.serial = SerialTargets, !.tcp = TcpTargets, !.pc = "serial"]
<1>1. scan[t] \in ScanRecords /\ Reaching(scan[t]) /\ scan[t].pc = "enumerate"
      /\ SerialTargets \in Nat /\ TcpTargets \in Nat
  BY Fields DEF Enumerate
<1>2. SerialTargets \in 0 .. SerialTargets /\ TcpTargets \in 0 .. TcpTargets
      /\ TcpTargets + 0 <= TcpTargets
  BY <1>1
<1>3. /\ r \in ScanRecords /\ r.pc = "serial" /\ r.id = scan[t].id /\ r.open = scan[t].open
      /\ r.tcp = TcpTargets
  BY <1>1, <1>2 DEF ScanRecords
<1>4. scan[t].open = 0
  BY <1>1 DEF Reaching
<1>5. scan' = [scan EXCEPT ![t] = r]
  BY <1>1 DEF Enumerate, ScanStep, WithTargets, ScanRecords
<1> HIDE DEF r
<1>6. Reaching(r) /\ ~BrokenOff(r)
  BY <1>2, <1>3, <1>4 DEF Reaching, BrokenOff
<1> QED BY <1>3, <1>5, <1>6 DEF Within

\* ... tries a serial port, ...
LEMMA ScanSerialWithin ==
    ASSUME DiscoveryInv, NEW t \in ScanThreads, ScanSerial(t)
    PROVE  \E r : Within(t, r)
<1> DEFINE n == scan[t].serial - 1
<1>1. /\ scan[t] \in ScanRecords /\ Reaching(scan[t]) /\ scan[t].pc = "serial"
      /\ scan[t].found \in BOOLEAN
  BY Fields, Zenon DEF ScanSerial
<1>2. n \in 0 .. SerialTargets
  <2>1. /\ scan[t].serial \in Nat /\ scan[t].serial > 0 /\ scan[t].serial <= SerialTargets
        /\ SerialTargets \in Nat
    BY Fields, Zenon DEF ScanSerial
  <2> QED BY <2>1
<1>3. CASE \E f \in RtuDevices : ScanStep(t, [scan[t] EXCEPT !.serial = @ - 1, !.found = @ \/ f])
  <2>1. PICK f \in BOOLEAN : ScanStep(t, [scan[t] EXCEPT !.serial = @ - 1, !.found = @ \/ f])
    BY <1>3, Zenon DEF RtuDevices
  <2> DEFINE b == scan[t].found \/ f
             r == [scan[t] EXCEPT !.serial = n, !.found = b]
  <2>2. scan' = [scan EXCEPT ![t] = r]
    BY <2>1, Zenon DEF ScanStep
  <2>3. b \in BOOLEAN
    BY Zenon
  <2> HIDE DEF b, n
  <2>4. r \in ScanRecords /\ r.id = scan[t].id /\ r.pc = "serial" /\ r.open = scan[t].open
        /\ r.tcp = scan[t].tcp
    BY <1>1, <1>2, <2>3 DEF ScanRecords
  <2> HIDE DEF r
  <2>5. Reaching(r) /\ ~BrokenOff(r)
    BY <1>1, <2>4 DEF Reaching, BrokenOff
  <2> QED BY <2>2, <2>4, <2>5 DEF Within
<1>4. CASE ScanStep(t, [scan[t] EXCEPT !.serial = @ - 1, !.errors = TRUE])
  <2> DEFINE r == [scan[t] EXCEPT !.serial = n, !.errors = TRUE]
  <2>2. scan' = [scan EXCEPT ![t] = r]
    BY <1>4, Zenon DEF ScanStep
  <2> HIDE DEF n
  <2>4. r \in ScanRecords /\ r.id = scan[t].id /\ r.pc = "serial" /\ r.open = scan[t].open
        /\ r.tcp = scan[t].tcp
    BY <1>1, <1>2 DEF ScanRecords
  <2> HIDE DEF r
  <2>5. Reaching(r) /\ ~BrokenOff(r)
    BY <1>1, <2>4 DEF Reaching, BrokenOff
  <2> QED BY <2>2, <2>4, <2>5 DEF Within
<1> QED BY <1>3, <1>4, Zenon DEF ScanSerial

\* ... looks whether a TCP target answers, ...
LEMMA ReachTargetWithin ==
    ASSUME DiscoveryInv, NEW t \in ScanThreads, ReachTarget(t)
    PROVE  \E r : Within(t, r)
<1>1. /\ scan[t] \in ScanRecords /\ Reaching(scan[t]) /\ scan[t].pc = "tcp" /\ scan[t].tcp > 0
      /\ scan[t].tcp \in Nat /\ scan[t].tcp <= TcpTargets /\ scan[t].open \in Nat
      /\ TcpTargets \in Nat /\ scan[t].tcp + scan[t].open <= TcpTargets
  BY Fields DEF ReachTarget, Reaching
<1>2. PICK k \in {0, 1} : ScanStep(t, [scan[t] EXCEPT !.tcp = @ - 1, !.open = @ + k])
  BY DEF ReachTarget
<1> DEFINE n == scan[t].tcp - 1
           o == scan[t].open + k
           r == [scan[t] EXCEPT !.tcp = n, !.open = o]
<1>3. scan' = [scan EXCEPT ![t] = r]
  BY <1>2, Zenon DEF ScanStep
<1>4. n \in 0 .. TcpTargets /\ o \in 0 .. TcpTargets /\ n + o <= TcpTargets
  BY <1>1
<1> HIDE DEF n, o
<1>5. /\ r \in ScanRecords /\ r.id = scan[t].id /\ r.pc = "tcp" /\ r.errors = scan[t].errors
      /\ r.serial = scan[t].serial /\ r.tcp = n /\ r.open = o
  BY <1>1, <1>4 DEF ScanRecords
<1> HIDE DEF r
<1>6. Reaching(r) /\ (BrokenOff(r) => BrokenOff(scan[t]))
  BY <1>1, <1>4, <1>5 DEF Reaching, BrokenOff
<1> QED BY <1>3, <1>5, <1>6 DEF Within

\* ... probes one that did, ...
LEMMA ProbeTargetWithin ==
    ASSUME DiscoveryInv, NEW t \in ScanThreads, ProbeTarget(t)
    PROVE  \E r : Within(t, r)
<1> DEFINE o == scan[t].open - 1
           r == [scan[t] EXCEPT !.open = o, !.found = TRUE]
<1>1. /\ scan[t] \in ScanRecords /\ scan[t].pc = "probe" /\ scan[t].open > 0
      /\ scan[t].tcp \in Nat /\ scan[t].open <= TcpTargets /\ scan[t].open \in Nat
      /\ TcpTargets \in Nat /\ scan[t].tcp + scan[t].open <= TcpTargets
  BY Fields DEF ProbeTarget, Reaching
<1>2. scan' = [scan EXCEPT ![t] = r]
  BY Zenon DEF ProbeTarget, ScanStep
<1>3. o \in 0 .. TcpTargets /\ scan[t].tcp + o <= TcpTargets
  BY <1>1
<1> HIDE DEF o
<1>4. /\ r \in ScanRecords /\ r.id = scan[t].id /\ r.pc = "probe" /\ r.errors = scan[t].errors
      /\ r.serial = scan[t].serial /\ r.tcp = scan[t].tcp /\ r.open = o
  BY <1>1, <1>3 DEF ScanRecords
<1> HIDE DEF r
<1>5. Reaching(r) /\ (BrokenOff(r) => BrokenOff(scan[t]))
  BY <1>1, <1>3, <1>4 DEF Reaching, BrokenOff
<1> QED BY <1>2, <1>4, <1>5 DEF Within

\* The loops that end: a target is left out only when the scan is cancelled
\* or the deadline is listed as an error.
LEMMA LeaveSerialWithin ==
    ASSUME DiscoveryInv, NEW t \in ScanThreads, LeaveSerial(t)
    PROVE  \E r : Within(t, r)
<1>1. /\ scan[t] \in ScanRecords /\ scan[t].pc = "serial"
      /\ scan[t].tcp \in Nat /\ scan[t].tcp <= TcpTargets /\ scan[t].serial \in Nat
      /\ TcpTargets \in Nat /\ scan[t].open = 0
      /\ (scan[t].serial = 0 \/ Cancelling)
  BY Fields DEF LeaveSerial, Reaching
<1>2. PICK c \in 0 .. scan[t].tcp :
        ScanStep(t, [scan[t] EXCEPT !.pc = IF scan[t].tcp - c > 0 THEN "tcp" ELSE "report",
                                    !.tcp = scan[t].tcp - c])
  BY Zenon DEF LeaveSerial
<1> DEFINE n == scan[t].tcp - c
           p == IF n > 0 THEN "tcp" ELSE "report"
           r == [scan[t] EXCEPT !.pc = p, !.tcp = n]
<1>3. scan' = [scan EXCEPT ![t] = r]
  BY <1>2, Zenon DEF ScanStep
<1>4. n \in 0 .. TcpTargets /\ n + 0 <= TcpTargets
  BY <1>1
<1>5. p \in {"tcp", "report"} /\ (p = "report" => ~(n > 0))
  BY Zenon
<1> HIDE DEF n, p
<1>6. /\ r \in ScanRecords /\ r.id = scan[t].id /\ r.pc = p
      /\ r.serial = scan[t].serial /\ r.tcp = n /\ r.open = 0
  BY <1>1, <1>4, <1>5 DEF ScanRecords
<1> HIDE DEF r
<1>7. Reaching(r)
  BY <1>4, <1>5, <1>6 DEF Reaching
<1>8. BrokenOff(r) => Cancelling
  BY <1>1, <1>5, <1>6 DEF BrokenOff
<1> QED BY <1>3, <1>6, <1>7, <1>8 DEF Within

\* ... breaks off while looking, ...
LEMMA LeaveReachWithin ==
    ASSUME DiscoveryInv, NEW t \in ScanThreads, LeaveReach(t)
    PROVE  \E r : Within(t, r)
<1> DEFINE late == scan[t].tcp > 0 /\ ~Cancelling
           e == scan[t].errors \/ late
           r == [scan[t] EXCEPT !.pc = "probe", !.timedOut = late, !.errors = e]
<1>1. /\ scan[t] \in ScanRecords /\ Reaching(scan[t]) /\ scan[t].pc = "tcp"
      /\ scan[t].errors \in BOOLEAN
  BY Fields DEF LeaveReach
<1>2. scan' = [scan EXCEPT ![t] = r]
  BY Zenon DEF LeaveReach, ScanStep
<1>3. late \in BOOLEAN /\ e \in BOOLEAN /\ (scan[t].tcp > 0 => Cancelling \/ e)
      /\ (scan[t].errors => e)
  BY Zenon
<1> HIDE DEF e, late
<1>4. /\ r \in ScanRecords /\ r.id = scan[t].id /\ r.pc = "probe" /\ r.errors = e
      /\ r.serial = scan[t].serial /\ r.tcp = scan[t].tcp /\ r.open = scan[t].open
  BY <1>1, <1>3 DEF ScanRecords
<1> HIDE DEF r
<1>5. Reaching(r)
  BY <1>1, <1>4 DEF Reaching
<1>6. BrokenOff(r) => BrokenOff(scan[t]) \/ Cancelling
  BY <1>1, <1>3, <1>4 DEF BrokenOff
<1> QED BY <1>2, <1>4, <1>5, <1>6 DEF Within

\* ... or while probing.
LEMMA LeaveProbeWithin ==
    ASSUME DiscoveryInv, NEW t \in ScanThreads, LeaveProbe(t)
    PROVE  \E r : Within(t, r)
<1> DEFINE r == [scan[t] EXCEPT !.pc = "report"]
<1>1. /\ scan[t] \in ScanRecords /\ Reaching(scan[t]) /\ scan[t].pc = "probe"
      /\ scan[t].open \in Nat /\ (scan[t].open = 0 \/ Cancelling)
  BY Fields DEF LeaveProbe
<1>2. scan' = [scan EXCEPT ![t] = r]
  BY DEF LeaveProbe, ScanStep
<1>3. /\ r \in ScanRecords /\ r.id = scan[t].id /\ r.pc = "report" /\ r.errors = scan[t].errors
      /\ r.serial = scan[t].serial /\ r.tcp = scan[t].tcp /\ r.open = scan[t].open
  BY <1>1 DEF ScanRecords
<1> HIDE DEF r
<1>4. Reaching(r)
  BY <1>1, <1>3 DEF Reaching
<1>5. BrokenOff(r) => BrokenOff(scan[t]) \/ Cancelling
  BY <1>1, <1>3 DEF BrokenOff
<1> QED BY <1>2, <1>3, <1>4, <1>5 DEF Within

\* Such a step changes the scan's own record only, ...
LEMMA WithinKeeps ==
    ASSUME DiscoveryInv, NEW t \in ScanThreads, NEW r, Within(t, r), Inside(t),
           UNCHANGED <<scanLock, scanCancelled, scanStopped, coverage>>
    PROVE  scan' \in [ScanThreads -> ScanRecords] /\ ThreadInv'
<1>1. scan[t].id \in AllScans
  BY DEF DiscoveryInv, ThreadInv, IdInv, Inside
<1>2. /\ r \in ScanRecords /\ scan' = [scan EXCEPT ![t] = r] /\ r.id = scan[t].id
      /\ Reaching(r) /\ (BrokenOff(r) => BrokenOff(scan[t]) \/ Cancelling)
  BY DEF Within
<1> QED BY <1>1, <1>2, CoverageKept, ThreadStepInside

\* The steps inside a scan that tell the Hub how far it is.
LEMMA ProgressKeeps ==
    ASSUME DiscoveryInv, NEW t \in ScanThreads, NEW r, Within(t, r), Inside(t),
           PublishProgress(scan[t].id),
           UNCHANGED <<scanLock, scanCancelled, scanStopped, activeScan, guidedThread,
                       scanCaller, coverage>>
    PROVE  DiscoveryInv'
<1>0. DiscoveryShapes /\ scan[t].id \in AllScans
  BY DEF DiscoveryInv, ThreadInv, IdInv, Inside
<1>1. scan' \in [ScanThreads -> ScanRecords] /\ ThreadInv'
  BY WithinKeeps
<1>2. /\ coverage' \in [AllScans -> Coverages]
      /\ \A i \in AllScans : Sound(coverage[i]) => Sound(coverage'[i])
  BY CoverageKept
<1>3. "running" \in TerminalStatus \cup {"running"} /\ "running" # "complete"
  OBVIOUS
<1>4. /\ scanReports' \in Seq(Reports)
      /\ hubScan' \in [AllScans -> TerminalStatus \cup {"none", "running"}]
      /\ BookInv' /\ CompleteMeansCovered'
  BY <1>0, <1>2, <1>3, ReportKeeps
<1> QED BY <1>0, <1>1, <1>2, <1>4, FromParts DEF DiscoveryShapes

\* The steps inside a scan that tell nobody.
LEMMA SilentKeeps ==
    ASSUME DiscoveryInv, NEW t \in ScanThreads, NEW r, Within(t, r), Inside(t),
           UNCHANGED <<scanLock, scanCancelled, scanStopped, scanReports, hubScan, activeScan,
                       guidedThread, scanCaller, coverage>>
    PROVE  DiscoveryInv'
<1>0. DiscoveryShapes
  BY DEF DiscoveryInv
<1>1. scan' \in [ScanThreads -> ScanRecords] /\ ThreadInv'
  BY WithinKeeps
<1>2. /\ coverage' \in [AllScans -> Coverages] /\ scanReports' \in Seq(Reports)
      /\ hubScan' \in [AllScans -> TerminalStatus \cup {"none", "running"}]
      /\ BookInv' /\ CompleteMeansCovered'
  BY CoverageKept, QuietKeeps
<1> QED BY <1>0, <1>1, <1>2, FromParts DEF DiscoveryShapes

\* ... and so keeps the invariant.
LEMMA InsideKeeps ==
    ASSUME DiscoveryInv, NEW t \in ScanThreads, UNCHANGED <<scanStopped, guidedThread, scanCaller>>,
           \/ Enumerate(t) \/ ScanSerial(t) \/ ReachTarget(t) \/ ProbeTarget(t)
           \/ LeaveSerial(t) \/ LeaveReach(t) \/ LeaveProbe(t)
    PROVE  DiscoveryInv'
<1>1. CASE Enumerate(t)
  <2>1. /\ Inside(t) /\ PublishProgress(scan[t].id)
        /\ UNCHANGED <<scanLock, scanCancelled, activeScan, coverage>>
    BY <1>1 DEF Enumerate, Inside
  <2>2. PICK r : Within(t, r)
    BY <1>1, EnumerateWithin
  <2> QED BY <2>1, <2>2, ProgressKeeps
<1>2. CASE ScanSerial(t)
  <2>1. /\ Inside(t) /\ PublishProgress(scan[t].id)
        /\ UNCHANGED <<scanLock, scanCancelled, activeScan, coverage>>
    BY <1>2, Zenon DEF ScanSerial, Inside
  <2>2. PICK r : Within(t, r)
    BY <1>2, ScanSerialWithin
  <2> QED BY <2>1, <2>2, ProgressKeeps
<1>3. CASE ReachTarget(t)
  <2>1. /\ Inside(t) /\ PublishProgress(scan[t].id)
        /\ UNCHANGED <<scanLock, scanCancelled, activeScan, coverage>>
    BY <1>3 DEF ReachTarget, Inside
  <2>2. PICK r : Within(t, r)
    BY <1>3, ReachTargetWithin
  <2> QED BY <2>1, <2>2, ProgressKeeps
<1>4. CASE ProbeTarget(t)
  <2>1. /\ Inside(t) /\ PublishProgress(scan[t].id)
        /\ UNCHANGED <<scanLock, scanCancelled, activeScan, coverage>>
    BY <1>4 DEF ProbeTarget, Inside
  <2>2. PICK r : Within(t, r)
    BY <1>4, ProbeTargetWithin
  <2> QED BY <2>1, <2>2, ProgressKeeps
<1>5. CASE LeaveSerial(t)
  <2>1. /\ Inside(t) /\ UNCHANGED <<scanLock, scanCancelled, scanReports, hubScan, activeScan, coverage>>
    BY <1>5, Zenon DEF LeaveSerial, Inside
  <2>2. PICK r : Within(t, r)
    BY <1>5, LeaveSerialWithin
  <2> QED BY <2>1, <2>2, SilentKeeps
<1>6. CASE LeaveReach(t)
  <2>1. /\ Inside(t) /\ UNCHANGED <<scanLock, scanCancelled, scanReports, hubScan, activeScan, coverage>>
    BY <1>6 DEF LeaveReach, Inside
  <2>2. PICK r : Within(t, r)
    BY <1>6, LeaveReachWithin
  <2> QED BY <2>1, <2>2, SilentKeeps
<1>7. CASE LeaveProbe(t)
  <2>1. /\ Inside(t) /\ UNCHANGED <<scanLock, scanCancelled, scanReports, hubScan, activeScan, coverage>>
    BY <1>7 DEF LeaveProbe, Inside
  <2>2. PICK r : Within(t, r)
    BY <1>7, LeaveProbeWithin
  <2> QED BY <2>1, <2>2, SilentKeeps
<1> QED BY <1>1, <1>2, <1>3, <1>4, <1>5, <1>6, <1>7

\* The lock is released by the thread that holds it.
LEMMA UnlockKeeps ==
    ASSUME DiscoveryInv, NEW t \in ScanThreads, RefuseTargets(t) \/ ReleaseScan(t),
           UNCHANGED <<scanStopped, guidedThread, scanCaller>>
    PROVE  DiscoveryInv'
<1>0. DiscoveryShapes /\ IdInv /\ LockInv /\ CancelInv
  BY DEF DiscoveryInv, ThreadInv
<1>1. PICK pc \in {"raised", "forget", "ended"} : ScanOver(t, pc)
  BY DEF RefuseTargets, ReleaseScan
<1> DEFINE r == Over(pc, scan[t].id)
<1>2. /\ Inside(t) /\ scanLock' = "free"
      /\ UNCHANGED <<scanCancelled, scanReports, hubScan, activeScan, coverage>>
  BY DEF RefuseTargets, ReleaseScan, Inside
<1>3. scan' = [scan EXCEPT ![t] = r] /\ scan[t].id \in AllScans
  BY <1>0, <1>1, <1>2 DEF ScanOver, ScanStep, IdInv, Over, Inside
<1>4. /\ r \in ScanRecords /\ r.pc = pc /\ r.id = scan[t].id /\ Reaching(r)
      /\ ~BrokenOff(r)
  BY <1>3, OverFacts
<1>5. \A u \in ScanThreads : u # t => ~Inside(u)
  BY <1>0, <1>2 DEF LockInv
<1>6. \A u \in ScanThreads : u # t => ~BrokenOff(scan[u])
  BY <1>5 DEF Inside, BrokenOff
<1> HIDE DEF r
<1>7. scan' \in [ScanThreads -> ScanRecords] /\ ThreadInv'
  BY <1>1, <1>3, <1>4, <1>5, <1>6, ThreadStep
<1>8. /\ coverage' \in [AllScans -> Coverages] /\ scanReports' \in Seq(Reports)
      /\ hubScan' \in [AllScans -> TerminalStatus \cup {"none", "running"}]
      /\ BookInv' /\ CompleteMeansCovered'
  BY <1>2, CoverageKept, QuietKeeps
<1> QED BY <1>0, <1>2, <1>7, <1>8, FromParts DEF DiscoveryShapes

\* The final report.  One that says "complete" was not cancelled, so either
\* it left nothing out, or it lists an error, or another start overlapped it.
LEMMA ReportScanKeeps ==
    ASSUME DiscoveryInv, NEW t \in ScanThreads, ReportScan(t),
           UNCHANGED <<scanStopped, guidedThread, scanCaller>>
    PROVE  DiscoveryInv'
<1> DEFINE o == scan[t]
           id == o.id
           w == (o.serial = 0 /\ o.tcp = 0 /\ o.open = 0) \/ o.errors
           r == Over("unlock", id)
<1>0. DiscoveryShapes /\ IdInv /\ CancelInv
  BY DEF DiscoveryInv, ThreadInv
<1>1. /\ o.pc = "report" /\ RememberAndPublish(id, FinalStatus(o))
      /\ coverage' = [coverage EXCEPT ![id].whole = w]
      /\ scan' = [scan EXCEPT ![t] = r]
      /\ UNCHANGED <<scanLock, scanCancelled, activeScan>>
  BY Zenon DEF ReportScan, ScanOver, ScanStep, Over
<1>2. id \in AllScans /\ o.errors \in BOOLEAN
      /\ o.serial \in Nat /\ o.tcp \in Nat /\ o.open \in Nat
  BY <1>0, <1>1, Fields DEF IdInv
<1>3. FinalStatus(o) \in TerminalStatus \cup {"running"} /\ (FinalStatus(o) = "complete" => ~Cancelling)
  BY DEF FinalStatus, TerminalStatus
<1>4. w \in BOOLEAN /\ (w \/ BrokenOff(o))
  BY <1>1, <1>2 DEF BrokenOff
<1>5. BrokenOff(o) => Cancelling \/ coverage[id].overlapped
  BY <1>0 DEF CancelInv
<1> HIDE DEF w, id
<1>6. /\ coverage' \in [AllScans -> Coverages] /\ coverage'[id].whole = w
      /\ \A i \in AllScans : coverage'[i].overlapped = coverage[i].overlapped
      /\ \A i \in AllScans : i # id => coverage'[i] = coverage[i]
  <2>1. coverage \in [AllScans -> Coverages] /\ coverage[id] \in Coverages
    BY <1>0, <1>2 DEF DiscoveryShapes
  <2>2. coverage' = [coverage EXCEPT ![id] = [coverage[id] EXCEPT !.whole = w]]
    BY <1>1, <2>1
  <2>3. /\ [coverage[id] EXCEPT !.whole = w] \in Coverages
        /\ [coverage[id] EXCEPT !.whole = w].whole = w
        /\ [coverage[id] EXCEPT !.whole = w].overlapped = coverage[id].overlapped
    BY <1>4, <2>1 DEF Coverages
  <2>4. coverage'[id] = [coverage[id] EXCEPT !.whole = w]
        /\ \A i \in AllScans : i # id => coverage'[i] = coverage[i]
    BY <1>2, <2>1, <2>2
  <2> QED BY <1>2, <2>1, <2>2, <2>3, <2>4
<1>7. FinalStatus(o) = "complete" => Sound(coverage'[id])
  BY <1>2, <1>3, <1>4, <1>5, <1>6 DEF Sound
<1>8. /\ scanReports' \in Seq(Reports)
      /\ hubScan' \in [AllScans -> TerminalStatus \cup {"none", "running"}]
      /\ BookInv' /\ CompleteMeansCovered'
  BY <1>1, <1>2, <1>3, <1>6, <1>7, ReportKeeps DEF Sound
<1>9. r \in ScanRecords /\ r.pc = "unlock" /\ r.id = o.id /\ Reaching(r) /\ ~BrokenOff(r)
  BY <1>2, OverFacts DEF id
<1>10. Inside(t) /\ o.id \in AllScans
  BY <1>1, <1>2 DEF Inside, id
<1> HIDE DEF r
<1>11. scan' \in [ScanThreads -> ScanRecords] /\ ThreadInv'
  BY <1>1, <1>6, <1>9, <1>10, ThreadStepInside
<1> QED BY <1>0, <1>1, <1>6, <1>8, <1>11, FromParts DEF DiscoveryShapes

\* A scan that raised is reported as failed.
LEMMA ReportFailureKeeps ==
    ASSUME DiscoveryInv, NEW t \in ScanThreads, ReportFailure(t),
           UNCHANGED <<scanStopped, guidedThread, scanCaller>>
    PROVE  DiscoveryInv'
<1> DEFINE id == scan[t].id
           r == Over("forget", id)
<1>0. DiscoveryShapes /\ IdInv
  BY DEF DiscoveryInv, ThreadInv
<1>1. /\ scan[t].pc = "raised" /\ RememberAndPublish(id, "error")
      /\ coverage' = [coverage EXCEPT ![id].whole = TRUE]
      /\ scan' = [scan EXCEPT ![t] = r]
      /\ UNCHANGED <<scanLock, scanCancelled, activeScan>>
  BY Zenon DEF ReportFailure, ScanOver, ScanStep, Over
<1>2. id \in AllScans
  BY <1>0, <1>1 DEF IdInv
<1>3. r \in ScanRecords /\ r.pc = "forget" /\ r.id = id /\ Reaching(r) /\ ~BrokenOff(r)
  BY <1>2, OverFacts
<1>4. "error" \in TerminalStatus \cup {"running"} /\ "error" # "complete"
  BY DEF TerminalStatus
<1> HIDE DEF r
<1>5. /\ coverage' \in [AllScans -> Coverages]
      /\ \A i \in AllScans : coverage'[i].overlapped = coverage[i].overlapped
      /\ \A i \in AllScans : i # id => coverage'[i] = coverage[i]
  <2>1. coverage \in [AllScans -> Coverages] /\ coverage[id] \in Coverages
    BY <1>0, <1>2 DEF DiscoveryShapes
  <2>2. coverage' = [coverage EXCEPT ![id] = [coverage[id] EXCEPT !.whole = TRUE]]
    BY <1>1, <2>1
  <2>3. /\ [coverage[id] EXCEPT !.whole = TRUE] \in Coverages
        /\ [coverage[id] EXCEPT !.whole = TRUE].overlapped = coverage[id].overlapped
    BY <2>1 DEF Coverages
  <2> QED BY <1>2, <2>1, <2>2, <2>3
<1>6. /\ scanReports' \in Seq(Reports)
      /\ hubScan' \in [AllScans -> TerminalStatus \cup {"none", "running"}]
      /\ BookInv' /\ CompleteMeansCovered'
  BY <1>1, <1>2, <1>4, <1>5, ReportKeeps
<1>7. scan' \in [ScanThreads -> ScanRecords] /\ ThreadInv'
  BY <1>1, <1>2, <1>3, <1>5, ThreadStepInside
<1> QED BY <1>0, <1>1, <1>5, <1>6, <1>7, FromParts DEF DiscoveryShapes

\* The threads are where they were and no cancel event was cleared.
LEMMA ThreadsKept ==
    ASSUME DiscoveryInv, UNCHANGED <<scan, scanLock, coverage>>, Cancelling => Cancelling'
    PROVE  scan' \in [ScanThreads -> ScanRecords] /\ ThreadInv'
<1>1. DiscoveryShapes /\ IdInv /\ LockInv /\ ReachInv /\ CancelInv
  BY DEF DiscoveryInv, ThreadInv
<1>2. IdInv' /\ LockInv' /\ ReachInv'
  BY <1>1 DEF IdInv, LockInv, Inside, ReachInv, Reaching
<1>3. CancelInv'
  <2> SUFFICES ASSUME NEW t \in ScanThreads, BrokenOff(scan[t])
               PROVE  Cancelling' \/ coverage[scan[t].id].overlapped
    BY DEF CancelInv, BrokenOff
  <2> QED BY <1>1 DEF CancelInv
<1> QED BY <1>1, <1>2, <1>3 DEF ThreadInv, DiscoveryShapes

\* Requests that start nothing, and stop().
LEMMA RequestKeeps ==
    ASSUME DiscoveryInv,
           \/ \E id \in ScanIds : CancelScan(id)
           \/ \E c \in ScanCallers, id \in ScanIds : CheckStart(c, id)
           \/ StopDiscovery \/ UNCHANGED discoveryVars
    PROVE  DiscoveryInv'
<1>0. DiscoveryShapes
  BY DEF DiscoveryInv
<1>1. /\ UNCHANGED <<scan, scanLock, activeScan, guidedThread, scanReports, hubScan, coverage>>
      /\ (Cancelling => Cancelling') /\ scanCancelled' \in BOOLEAN /\ scanStopped' \in BOOLEAN
      /\ scanCaller' \in [ScanCallers -> ScanIds \cup {"none"}]
  <2>1. CASE \E id \in ScanIds : CancelScan(id)
    BY <1>0, <2>1 DEF CancelScan, Cancelling, DiscoveryShapes
  <2>2. CASE \E c \in ScanCallers, id \in ScanIds : CheckStart(c, id)
    <3>1. PICK c \in ScanCallers, id \in ScanIds : CheckStart(c, id)
      BY <2>2
    <3>2. /\ scanCaller' = [scanCaller EXCEPT ![c] = id]
          /\ UNCHANGED <<scan, scanLock, scanCancelled, scanStopped, activeScan, guidedThread,
                         scanReports, hubScan, coverage>>
      BY <3>1, Zenon DEF CheckStart
    <3>3. scanCaller' \in [ScanCallers -> ScanIds \cup {"none"}]
      BY <1>0, <3>2 DEF DiscoveryShapes
    <3> QED BY <1>0, <3>2, <3>3 DEF Cancelling, DiscoveryShapes
  <2>3. CASE StopDiscovery
    BY <1>0, <2>3 DEF StopDiscovery, Cancelling, DiscoveryShapes
  <2>4. CASE UNCHANGED discoveryVars
    BY <1>0, <2>4 DEF discoveryVars, Cancelling, DiscoveryShapes
  <2> QED BY <2>1, <2>2, <2>3, <2>4
<1>2. scan' \in [ScanThreads -> ScanRecords] /\ ThreadInv'
  BY <1>1, ThreadsKept
<1>3. /\ coverage' \in [AllScans -> Coverages] /\ scanReports' \in Seq(Reports)
      /\ hubScan' \in [AllScans -> TerminalStatus \cup {"none", "running"}]
      /\ BookInv' /\ CompleteMeansCovered'
  BY <1>1, CoverageKept, QuietKeeps
<1> QED BY <1>0, <1>1, <1>2, <1>3, FromParts DEF DiscoveryShapes

\* A remembered report is told again, as it was told first.
LEMMA ReplayKeeps ==
    ASSUME DiscoveryInv, NEW id \in ScanIds, ReplayReport(id)
    PROVE  DiscoveryInv'
<1>0. DiscoveryShapes /\ BookInv /\ CompleteMeansCovered /\ id \in AllScans
  BY DEF DiscoveryInv, AllScans
<1>1. PICK i \in 1 .. Len(scanReports) :
        /\ scanReports[i].id = id /\ scanReports[i].status \in TerminalStatus
        /\ hubScan' = [hubScan EXCEPT ![id] = scanReports[i].status]
        /\ UNCHANGED <<scan, scanLock, scanCancelled, scanStopped, activeScan, guidedThread,
                       scanReports, scanCaller, coverage>>
  BY DEF ReplayReport
<1>2. /\ hubScan' \in [AllScans -> TerminalStatus \cup {"none", "running"}]
      /\ hubScan'[id] = scanReports[i].status
      /\ \A j \in AllScans : j # id => hubScan'[j] = hubScan[j]
  BY <1>0, <1>1 DEF DiscoveryShapes
<1>3. scanReports[i].status = "complete" => Sound(coverage[id])
  BY <1>0, <1>1 DEF BookInv, Sound
<1>4. CompleteMeansCovered'
  BY <1>0, <1>1, <1>2, <1>3 DEF CompleteMeansCovered, Sound
<1>5. BookInv'
  BY <1>0, <1>1 DEF BookInv
<1>6. scan' \in [ScanThreads -> ScanRecords] /\ ThreadInv'
  BY <1>1, ThreadsKept DEF Cancelling
<1> QED BY <1>0, <1>1, <1>2, <1>4, <1>5, <1>6, FromParts DEF DiscoveryShapes

\* A start clears the cancel event: every scan that is under way is marked.
LEMMA CommitKeeps ==
    ASSUME DiscoveryInv, NEW c \in ScanCallers, CommitStart(c)
    PROVE  DiscoveryInv'
<1> DEFINE id == scanCaller[c]
           n == CHOOSE g \in Guided : scan[g].pc = "none"
           busy == {t \in ScanThreads : Alive(t) /\ (t \in Guided \/ scan[t].pc # "born")}
           r == Over("born", id)
           hit(i) == busy # {} /\ i \in {id} \cup {scan[t].id : t \in busy}
<1>0. DiscoveryShapes /\ IdInv /\ LockInv
  BY DEF DiscoveryInv, ThreadInv
<1>1. /\ id # "none" /\ \E g \in Guided : scan[g].pc = "none"
      /\ scanCancelled' = FALSE /\ activeScan' = id /\ guidedThread' = n
      /\ scan' = [scan EXCEPT ![n] = r]
      /\ scanCaller' = [scanCaller EXCEPT ![c] = "none"]
      /\ coverage' = [i \in AllScans |-> IF hit(i)
                         THEN [coverage[i] EXCEPT !.overlapped = TRUE] ELSE coverage[i]]
      /\ UNCHANGED <<scanLock, scanStopped, scanReports, hubScan>>
  BY Zenon DEF CommitStart, Over
<1>2. n \in Guided /\ scan[n].pc = "none" /\ n \in ScanThreads
  BY <1>1 DEF ScanThreads
<1>3. id \in ScanIds /\ id \in AllScans
  BY <1>0, <1>1 DEF DiscoveryShapes, AllScans
<1>4. r \in ScanRecords /\ r.pc = "born" /\ r.id = id /\ Reaching(r) /\ ~BrokenOff(r)
  BY <1>3, OverFacts
<1>5. \A u \in ScanThreads : BrokenOff(scan[u]) => hit(scan[u].id) /\ scan[u].id \in AllScans
  <2> SUFFICES ASSUME NEW u \in ScanThreads, BrokenOff(scan[u])
               PROVE  hit(scan[u].id) /\ scan[u].id \in AllScans
    OBVIOUS
  <2>1. scan[u].pc \in {"tcp", "probe", "report"}
    BY DEF BrokenOff
  <2>2. u \in busy
    BY <2>1 DEF Alive
  <2>3. scan[u].id \in {scan[t].id : t \in busy}
    BY <2>2
  <2>4. scan[u].id \in AllScans
    BY <1>0, <2>1 DEF IdInv
  <2> QED BY <2>2, <2>3, <2>4
<1>6. \A i \in AllScans : coverage[i] \in Coverages
  BY <1>0 DEF DiscoveryShapes
<1> HIDE DEF hit, r, n, id
<1>7. /\ coverage' \in [AllScans -> Coverages]
      /\ \A i \in AllScans : hit(i) => coverage'[i].overlapped
      /\ \A i \in AllScans : Sound(coverage[i]) => Sound(coverage'[i])
  <2>1. \A i \in AllScans : /\ [coverage[i] EXCEPT !.overlapped = TRUE] \in Coverages
                            /\ [coverage[i] EXCEPT !.overlapped = TRUE].overlapped
    BY <1>6 DEF Coverages
  <2>2. \A i \in AllScans : coverage'[i] = IF hit(i)
                                THEN [coverage[i] EXCEPT !.overlapped = TRUE] ELSE coverage[i]
    BY <1>1
  <2>3. coverage' \in [AllScans -> Coverages]
    BY <1>1, <1>6, <2>1
  <2> QED BY <2>1, <2>2, <2>3 DEF Sound
<1>8. scan' \in [ScanThreads -> ScanRecords] /\ ThreadInv'
  <2>1. \A u \in ScanThreads : Inside(u) => scanLock' = u
    BY <1>0, <1>1 DEF LockInv
  <2>2. \A u \in ScanThreads : BrokenOff(scan[u]) => coverage'[scan[u].id].overlapped
    BY <1>5, <1>7
  <2> QED BY <1>1, <1>2, <1>3, <1>4, <2>1, <2>2, ThreadStep
<1>9. /\ scanReports' \in Seq(Reports)
      /\ hubScan' \in [AllScans -> TerminalStatus \cup {"none", "running"}]
      /\ BookInv' /\ CompleteMeansCovered'
  BY <1>1, <1>7, QuietKeeps
<1>10. scanCaller' \in [ScanCallers -> ScanIds \cup {"none"}]
  BY <1>0, <1>1 DEF DiscoveryShapes
<1> QED BY <1>0, <1>1, <1>2, <1>3, <1>7, <1>8, <1>9, <1>10, FromParts DEF DiscoveryShapes

\* No scan was asked for yet: the invariant holds ...
LEMMA DiscoveryStarts == DiscoveryInit => DiscoveryInv
<1> SUFFICES ASSUME DiscoveryInit PROVE DiscoveryInv
  OBVIOUS
<1>1. /\ scan = [t \in ScanThreads |-> IF t \in Background THEN Over("born", t) ELSE NoScan]
      /\ scanLock = "free" /\ scanCancelled = FALSE /\ scanStopped = FALSE
      /\ activeScan = "none" /\ guidedThread = "none" /\ scanReports = <<>>
      /\ scanCaller = [c \in ScanCallers |-> "none"]
      /\ hubScan = [i \in AllScans |-> "none"]
      /\ coverage = [i \in AllScans |-> [whole |-> TRUE, overlapped |-> FALSE]]
  BY Zenon DEF DiscoveryInit, Over
<1>2. /\ NoScan.pc = "none" /\ NoScan.tcp = 0 /\ NoScan.open = 0
      /\ NoScan \in ScanRecords
  <2>1. 0 \in 0 .. SerialTargets /\ 0 \in 0 .. TcpTargets
    BY DiscoveryAssumption
  <2> QED BY <2>1 DEF NoScan, ScanRecords
<1>3. \A t \in Background : /\ Over("born", t) \in ScanRecords /\ Over("born", t).pc = "born"
                            /\ Over("born", t).id = t /\ Reaching(Over("born", t))
  BY OverFacts DEF AllScans
<1>4. Reaching(NoScan)
  BY <1>2, DiscoveryAssumption DEF Reaching
<1>5. /\ scan \in [ScanThreads -> ScanRecords]
      /\ \A t \in ScanThreads : /\ Reaching(scan[t]) /\ scan[t].pc \in {"born", "none"}
                                /\ (scan[t].pc # "none" => scan[t].id \in AllScans)
  BY <1>1, <1>2, <1>3, <1>4 DEF AllScans
<1>6. [whole |-> TRUE, overlapped |-> FALSE] \in Coverages
  BY DEF Coverages
<1>7. DiscoveryShapes
  <2>1. coverage \in [AllScans -> Coverages]
    BY <1>1, <1>6
  <2>2. hubScan \in [AllScans -> TerminalStatus \cup {"none", "running"}]
    BY <1>1
  <2>3. scanCaller \in [ScanCallers -> ScanIds \cup {"none"}]
    BY <1>1
  <2>4. scanReports \in Seq(Reports)
    BY <1>1
  <2> QED BY <1>1, <1>5, <2>1, <2>2, <2>3, <2>4 DEF DiscoveryShapes
<1>8. ThreadInv
  BY <1>5 DEF ThreadInv, IdInv, LockInv, ReachInv, CancelInv, Inside, BrokenOff
<1>9. BookInv
  BY <1>1 DEF BookInv
<1>10. CompleteMeansCovered
  BY <1>1 DEF CompleteMeansCovered
<1> QED BY <1>7, <1>8, <1>9, <1>10 DEF DiscoveryInv

-----------------------------------------------------------------------------
(***************************************************************************)
(* Theorems.                                                               *)
(***************************************************************************)

\* ... and every step keeps it.
LEMMA DiscoveryStep == DiscoveryInv /\ [DiscoveryNext]_discoveryVars => DiscoveryInv'
<1> SUFFICES ASSUME DiscoveryInv, [DiscoveryNext]_discoveryVars PROVE DiscoveryInv'
  OBVIOUS
<1>1. ASSUME NEW t \in ScanThreads, ScanThread(t) PROVE DiscoveryInv'
  BY <1>1, LeaveKeeps, EnterKeeps, InsideKeeps, UnlockKeeps, ReportScanKeeps, ReportFailureKeeps
     DEF ScanThread
<1>2. ASSUME NEW id \in ScanIds, ReplayReport(id) \/ CancelScan(id) PROVE DiscoveryInv'
  BY <1>2, ReplayKeeps, RequestKeeps
<1>3. ASSUME NEW c \in ScanCallers, CommitStart(c) \/ \E id \in ScanIds : CheckStart(c, id)
      PROVE  DiscoveryInv'
  BY <1>3, CommitKeeps, RequestKeeps
<1>4. CASE StopDiscovery \/ UNCHANGED discoveryVars
  BY <1>4, RequestKeeps
<1> QED BY <1>1, <1>2, <1>3, <1>4 DEF DiscoveryNext

\* The inductive invariant of discovery: one scan at a time holds the lock,
\* a scan that broke off is still seen as cancelled when it reports or is
\* marked as overlapped, the book holds one report of each scan.
THEOREM DiscoveryInvariant == DiscoverySpec => []DiscoveryInv
<1> QED BY DiscoveryStarts, DiscoveryStep, PTL DEF DiscoverySpec

\* A report that says "complete" covers every target or lists an error,
\* unless two requests to start a scan overlapped (scan, final status).
THEOREM CompleteIsCovered == DiscoverySpec => []CompleteMeansCovered
<1>1. DiscoveryInv => CompleteMeansCovered
  BY DEF DiscoveryInv
<1> QED BY <1>1, DiscoveryInvariant, PTL

\* The shapes, with the bound on the book of reports, which progress reports
\* never evict from: it holds at most one report of each scan.
LEMMA DiscoveryShaped == DiscoveryInv => DiscoveryTypeOK
<1> SUFFICES ASSUME DiscoveryInv PROVE DiscoveryTypeOK
  OBVIOUS
<1> DEFINE s == scanReports
           f == [i \in 1 .. Len(s) |-> s[i].id]
<1>1. /\ DiscoveryShapes /\ s \in Seq(Reports) /\ Len(s) \in Nat
      /\ \A i \in 1 .. Len(s) : s[i] \in Reports
      /\ \A i, j \in 1 .. Len(s) : s[i].id = s[j].id => i = j
  BY DEF DiscoveryInv, DiscoveryShapes, BookInv
<1>2. f \in Injection(1 .. Len(s), AllScans)
  <2>1. \A i \in 1 .. Len(s) : s[i].id \in AllScans
    BY <1>1 DEF Reports
  <2> QED BY <1>1, <2>1 DEF Injection, IsInjective
<1>3. IsFiniteSet(AllScans)
  BY DiscoveryAssumption, FS_Union DEF AllScans
<1>4. IsFiniteSet(1 .. Len(s)) /\ Cardinality(1 .. Len(s)) = Len(s)
  <2>1. \A m \in Nat : IsFiniteSet(1 .. m) /\ Cardinality(1 .. m) = m
    BY FS_Interval
  <2> QED BY <1>1, <2>1
<1> HIDE DEF f
<1>5. Cardinality(1 .. Len(s)) <= Cardinality(AllScans)
  BY <1>2, <1>3, <1>4, FS_Injection
<1>6. Len(s) <= ReportCache + Cardinality(AllScans)
  <2>1. Cardinality(AllScans) \in Nat /\ ReportCache \in Nat
    BY <1>3, FS_CardinalityType, DiscoveryAssumption
  <2>2. Len(s) \in Nat /\ Len(s) <= Cardinality(AllScans)
    BY <1>1, <1>4, <1>5
  <2> QED BY <2>1, <2>2
<1> QED BY <1>1, <1>6 DEF DiscoveryTypeOK, DiscoveryShapes, ScanRecords, Reports, Coverages

\* They hold in every reachable state.
THEOREM DiscoveryTypes == DiscoverySpec => []DiscoveryTypeOK
<1> QED BY DiscoveryShaped, DiscoveryInvariant, PTL

------------------------------------------------------------------------------
(* That every log record is in exactly one place, for any buffer, window and  *)
(* cache and any number of records: the buffer and the cache are sequences    *)
(* of sets of records, and a step only cuts, joins or selects from them.      *)

(* Concatenating sequences of sets: the records of both; none twice when the  *)
(* two share none, and only then.                                             *)
LEMMA RecordsOfConcat ==
  ASSUME NEW T, NEW a \in Seq(T), NEW b \in Seq(T)
  PROVE  /\ Records(a \o b) = Records(a) \cup Records(b)
         /\ Apart(a \o b) <=> (Apart(a) /\ Apart(b) /\ Records(a) \cap Records(b) = {})
  <1>1. /\ Len(a) \in Nat /\ Len(b) \in Nat /\ DOMAIN a = 1 .. Len(a) /\ DOMAIN b = 1 .. Len(b)
        /\ a \o b \in Seq(T) /\ DOMAIN (a \o b) = 1 .. Len(a) + Len(b)
        /\ \A i \in 1 .. Len(a) + Len(b) :
              (a \o b)[i] = IF i <= Len(a) THEN a[i] ELSE b[i - Len(a)]
    BY ConcatProperties, LenProperties
  <1>2. /\ \A i \in DOMAIN a : i \in DOMAIN (a \o b) /\ (a \o b)[i] = a[i]
        /\ \A i \in DOMAIN b : i + Len(a) \in DOMAIN (a \o b) /\ (a \o b)[i + Len(a)] = b[i]
    BY <1>1
  <1>3. \A i \in DOMAIN (a \o b) : \/ i \in DOMAIN a /\ (a \o b)[i] = a[i]
                                   \/ i - Len(a) \in DOMAIN b /\ (a \o b)[i] = b[i - Len(a)]
    BY <1>1
  <1>4. Records(a \o b) = Records(a) \cup Records(b)
    <2>1. ASSUME NEW x \in Records(a \o b) PROVE x \in Records(a) \cup Records(b)
      BY <1>3 DEF Records
    <2>2. ASSUME NEW x \in Records(a) \cup Records(b) PROVE x \in Records(a \o b)
      BY <1>2 DEF Records
    <2> QED BY <2>1, <2>2
  <1>5. ASSUME Apart(a \o b) PROVE Apart(a) /\ Apart(b) /\ Records(a) \cap Records(b) = {}
    <2>1. Apart(a)
      BY <1>2, <1>5 DEF Apart
    <2>2. ASSUME NEW i \in DOMAIN b, NEW j \in DOMAIN b, i # j PROVE b[i] \cap b[j] = {}
      <3>1. i + Len(a) # j + Len(a)
        BY <2>2, <1>1
      <3> QED BY <3>1, <1>2, <1>5 DEF Apart
    <2>3. ASSUME NEW i \in DOMAIN a, NEW j \in DOMAIN b PROVE a[i] \cap b[j] = {}
      <3>1. i # j + Len(a)
        BY <1>1
      <3> QED BY <3>1, <1>2, <1>5 DEF Apart
    <2> QED BY <2>1, <2>2, <2>3 DEF Apart, Records
  <1>6. ASSUME Apart(a), Apart(b), Records(a) \cap Records(b) = {} PROVE Apart(a \o b)
    <2> SUFFICES ASSUME NEW i \in DOMAIN (a \o b), NEW j \in DOMAIN (a \o b), i # j
                 PROVE  (a \o b)[i] \cap (a \o b)[j] = {}
      BY DEF Apart
    <2>1. CASE i \in DOMAIN a /\ j \in DOMAIN a
      BY <2>1, <1>2, <1>6 DEF Apart
    <2>2. CASE i \notin DOMAIN a /\ j \notin DOMAIN a
      <3>1. /\ i - Len(a) \in DOMAIN b /\ (a \o b)[i] = b[i - Len(a)]
            /\ j - Len(a) \in DOMAIN b /\ (a \o b)[j] = b[j - Len(a)]
            /\ i - Len(a) # j - Len(a)
        BY <2>2, <1>1
      <3> QED BY <3>1, <1>6 DEF Apart
    <2>3. ASSUME NEW k \in DOMAIN a, NEW l \in DOMAIN b PROVE a[k] \cap b[l] = {}
      BY <1>6 DEF Records
    <2>4. CASE i \in DOMAIN a /\ j \notin DOMAIN a
      BY <2>3, <2>4, <1>2, <1>3
    <2>5. CASE i \notin DOMAIN a /\ j \in DOMAIN a
      BY <2>3, <2>5, <1>2, <1>3
    <2> QED BY <2>1, <2>2, <2>4, <2>5
  <1> QED BY <1>4, <1>5, <1>6

(* Each position between 1 and its size has one member of a finite set of     *)
(* naturals, and different positions have different members.                  *)
LEMMA PositionsCover ==
  ASSUME NEW S \in SUBSET Nat, IsFiniteSet(S)
  PROVE  /\ Cardinality(S) \in Nat
         /\ \A i \in 1 .. Cardinality(S) : Position(S, i) \in S
         /\ \A i, j \in 1 .. Cardinality(S) : i # j => Position(S, i) # Position(S, j)
         /\ \A k \in S : \E i \in 1 .. Cardinality(S) : Position(S, i) = k
  <1> DEFINE below(j) == {k \in S : k <= j}
             rank == [j \in S |-> Cardinality(below(j))]
             size == Cardinality(S)
  <1>1. size \in Nat
    BY FS_CardinalityType
  <1>2. \A j \in S : IsFiniteSet(below(j)) /\ Cardinality(below(j)) \in Nat /\ Cardinality(below(j)) <= size
    <2> TAKE j \in S
    <2>1. below(j) \in SUBSET S
      OBVIOUS
    <2>2. IsFiniteSet(below(j)) /\ Cardinality(below(j)) <= size
      BY <2>1, FS_Subset
    <2> QED BY <2>2, FS_CardinalityType
  <1>3. \A j \in S : Cardinality(below(j)) \in 1 .. size
    <2> TAKE j \in S
    <2>1. below(j) # {}
      <3>1. j <= j OBVIOUS
      <3> QED BY <3>1
    <2>2. Cardinality(below(j)) # 0
      BY <2>1, <1>2, FS_EmptySet
    <2> QED BY <1>1, <1>2, <2>2
  <1>4. ASSUME NEW j \in S, NEW k \in S, j < k PROVE Cardinality(below(j)) # Cardinality(below(k))
    <2>0. \A n \in S : n <= j => n <= k
      BY <1>4
    <2>1. below(j) \in SUBSET below(k)
      BY <2>0, Zenon
    <2>2. k \in below(k) /\ k \notin below(j)
      BY <1>4
    <2>3. below(k) # below(j)
      BY <2>2
    <2> QED BY <1>2, <2>1, <2>3, FS_Subset
  <1> HIDE DEF below
  <1>5. \A j, k \in S : rank[j] = rank[k] => j = k
    <2>1. \A j, k \in S : j < k \/ k < j \/ j = k
      OBVIOUS
    <2> QED BY <2>1, <1>4
  <1>6. rank \in [S -> 1 .. size]
    BY <1>3
  <1>7. rank \in Injection(S, 1 .. size)
    BY <1>5, <1>6 DEF Injection, IsInjective
  <1>8. IsFiniteSet(1 .. size) /\ Cardinality(1 .. size) = size
    BY <1>1, FS_Interval
  <1>9. rank \in Surjection(S, 1 .. size)
    BY <1>7, <1>8, FS_Injection
  <1>10. \A i \in 1 .. size : \E j \in S : Cardinality(below(j)) = i
    BY <1>9 DEF Surjection
  <1>11. \A i \in 1 .. size : Position(S, i) \in S /\ Cardinality(below(Position(S, i))) = i
    BY <1>10 DEF Position, below
  <1>12. \A i, j \in 1 .. size : i # j => Position(S, i) # Position(S, j)
    BY <1>11
  <1>13. ASSUME NEW k \in S PROVE Position(S, Cardinality(below(k))) = k
    <2>1. Cardinality(below(k)) \in 1 .. size
      BY <1>3
    <2> QED BY <2>1, <1>11, <1>5
  <1> QED BY <1>1, <1>3, <1>11, <1>12, <1>13

(* The positions of a sequence.                                               *)
LEMMA DomainOfSeq ==
  ASSUME NEW T, NEW s \in Seq(T)
  PROVE  /\ Len(s) \in Nat /\ DOMAIN s = 1 .. Len(s) /\ DOMAIN s \subseteq Nat
         /\ IsFiniteSet(DOMAIN s) /\ Cardinality(DOMAIN s) = Len(s)
  <1>1. Len(s) \in Nat /\ DOMAIN s = 1 .. Len(s)
    BY LenProperties
  <1>2. Len(s) \in Int /\ 1 \in Int /\ (IF 1 > Len(s) THEN 0 ELSE Len(s) - 1 + 1) = Len(s)
    BY <1>1
  <1>3. IsFiniteSet(1 .. Len(s)) /\ Cardinality(1 .. Len(s)) = Len(s)
    BY <1>2, FS_Interval
  <1> QED BY <1>1, <1>3

(* A selection of a sequence of sets: the records at the positions, and none  *)
(* twice when there was none twice.                                           *)
LEMMA PickedRecords ==
  ASSUME NEW T, NEW s \in Seq(T), NEW S \in SUBSET (DOMAIN s)
  PROVE  /\ Picked(s, S) \in Seq(T)
         /\ Len(Picked(s, S)) <= Len(s)
         /\ Records(Picked(s, S)) = UNION {s[j] : j \in S}
         /\ Apart(s) => Apart(Picked(s, S))
  <1>1. /\ \A j \in DOMAIN s : s[j] \in T
        /\ DOMAIN s \subseteq Nat /\ IsFiniteSet(DOMAIN s) /\ Cardinality(DOMAIN s) = Len(s)
    BY DomainOfSeq, ElementOfSeq
  <1>3. IsFiniteSet(S) /\ Cardinality(S) <= Len(s)
    BY <1>1, FS_Subset
  <1>4. S \in SUBSET Nat
    BY <1>1
  <1>5. /\ Cardinality(S) \in Nat
        /\ \A i \in 1 .. Cardinality(S) : Position(S, i) \in S
        /\ \A i, j \in 1 .. Cardinality(S) : i # j => Position(S, i) # Position(S, j)
        /\ \A k \in S : \E i \in 1 .. Cardinality(S) : Position(S, i) = k
    BY <1>3, <1>4, PositionsCover
  <1>6. DOMAIN Picked(s, S) = 1 .. Cardinality(S)
        /\ \A i \in 1 .. Cardinality(S) : Picked(s, S)[i] = s[Position(S, i)]
    BY DEF Picked
  <1>7. \A i \in 1 .. Cardinality(S) : s[Position(S, i)] \in T
    BY <1>1, <1>5
  <1>8. Picked(s, S) \in [1 .. Cardinality(S) -> T]
    BY <1>7 DEF Picked
  <1>9. Picked(s, S) \in Seq(T) /\ Len(Picked(s, S)) = Cardinality(S)
    BY <1>5, <1>8
  <1>10. Records(Picked(s, S)) = UNION {s[j] : j \in S}
    <2>1. ASSUME NEW x \in Records(Picked(s, S)) PROVE x \in UNION {s[j] : j \in S}
      <3>1. PICK i \in 1 .. Cardinality(S) : x \in s[Position(S, i)]
        BY <1>6, <2>1 DEF Records
      <3> QED BY <3>1, <1>5
    <2>2. ASSUME NEW x \in UNION {s[j] : j \in S} PROVE x \in Records(Picked(s, S))
      <3>1. PICK j \in S : x \in s[j]
        BY <2>2
      <3>2. PICK i \in 1 .. Cardinality(S) : Position(S, i) = j
        BY <1>5
      <3> QED BY <3>1, <3>2, <1>6 DEF Records
    <2> QED BY <2>1, <2>2
  <1>11. ASSUME Apart(s) PROVE Apart(Picked(s, S))
    BY <1>5, <1>6, <1>11 DEF Apart
  <1> QED BY <1>3, <1>9, <1>10, <1>11

(* Two pieces of a sequence.                                                  *)
LEMMA CutInTwo ==
  ASSUME NEW T, NEW s \in Seq(T), NEW k \in 0 .. Len(s)
  PROVE  /\ SubSeq(s, 1, k) \in Seq(T) /\ SubSeq(s, k + 1, Len(s)) \in Seq(T)
         /\ Len(SubSeq(s, 1, k)) = k /\ Len(SubSeq(s, k + 1, Len(s))) = Len(s) - k
         /\ s = SubSeq(s, 1, k) \o SubSeq(s, k + 1, Len(s))
  <1>1. Len(s) \in Nat /\ \A i \in 1 .. Len(s) : s[i] \in T
    BY LenProperties, ElementOfSeq
  <1>2. /\ \A i \in 1 .. k : s[i] \in T
        /\ \A i \in k + 1 .. Len(s) : s[i] \in T
    BY <1>1
  <1>3. SubSeq(s, 1, k) \in Seq(T) /\ Len(SubSeq(s, 1, k)) = k
    <2>1. /\ SubSeq(s, 1, k) \in Seq(T)
          /\ Len(SubSeq(s, 1, k)) = IF 1 <= k THEN k - 1 + 1 ELSE 0
      BY <1>1, <1>2, SubSeqProperties
    <2> QED BY <2>1, <1>1
  <1>4. SubSeq(s, k + 1, Len(s)) \in Seq(T) /\ Len(SubSeq(s, k + 1, Len(s))) = Len(s) - k
    <2>1. /\ SubSeq(s, k + 1, Len(s)) \in Seq(T)
          /\ Len(SubSeq(s, k + 1, Len(s))) = IF k + 1 <= Len(s) THEN Len(s) - (k + 1) + 1 ELSE 0
      BY <1>1, <1>2, SubSeqProperties
    <2> QED BY <2>1, <1>1
  <1>5. SubSeq(s, 1, k) \o SubSeq(s, k + 1, Len(s)) = s
    <2>1. 1 \in 1 .. Len(s) + 1 /\ k \in 1 - 1 .. Len(s) /\ Len(s) \in k .. Len(s)
      BY <1>1
    <2> QED BY <2>1, ConcatAdjacentSubSeq, SubSeqFull
  <1> QED BY <1>3, <1>4, <1>5

(* The bounded buffer: what does not fit is dropped, and nothing else.        *)
LEMMA AppendedFacts ==
  ASSUME NEW T, logBuffer \in Seq(T), NEW entries \in Seq(T)
  PROVE  /\ Appended(entries).kept \in Seq(T)
         /\ Len(Appended(entries).kept) <= LogBuffer
         /\ Records(Appended(entries).kept) \cup Appended(entries).dropped
              = Records(logBuffer) \cup Records(entries)
         /\ Apart(logBuffer) /\ Apart(entries) /\ Records(logBuffer) \cap Records(entries) = {}
              => /\ Apart(Appended(entries).kept)
                 /\ Records(Appended(entries).kept) \cap Appended(entries).dropped = {}
  <1> DEFINE all == logBuffer \o entries
             cut == IF Len(all) > LogBuffer THEN Len(all) - LogBuffer ELSE 0
             dropped == SubSeq(all, 1, cut)
             kept == SubSeq(all, cut + 1, Len(all))
  <1>1. all \in Seq(T) /\ Len(all) \in Nat
    BY ConcatProperties, LenProperties
  <1>2. cut \in 0 .. Len(all) /\ Len(all) - cut <= LogBuffer
    BY <1>1, RemoteLogAssumption
  <1>3. /\ Records(all) = Records(logBuffer) \cup Records(entries)
        /\ Apart(all) <=> (Apart(logBuffer) /\ Apart(entries)
                             /\ Records(logBuffer) \cap Records(entries) = {})
    BY RecordsOfConcat
  <1>4. Appended(entries).kept = kept /\ Appended(entries).dropped = Records(dropped)
    BY DEF Appended
  <1> HIDE DEF all, cut
  <1>5. /\ dropped \in Seq(T) /\ kept \in Seq(T) /\ Len(kept) = Len(all) - cut
        /\ all = dropped \o kept
    BY <1>1, <1>2, CutInTwo
  <1> HIDE DEF dropped, kept
  <1>6. /\ Records(all) = Records(dropped) \cup Records(kept)
        /\ Apart(all) => Apart(kept) /\ Records(dropped) \cap Records(kept) = {}
    BY <1>5, RecordsOfConcat
  <1> QED BY <1>2, <1>3, <1>4, <1>5, <1>6

(* The counts of a sequence of signatures.                                    *)
LEMMA CountsFacts ==
  ASSUME NEW ds \in Seq(Duplicate)
  PROVE  /\ Counts(ds) \in Seq(Emitted) /\ Len(Counts(ds)) = Len(ds)
         /\ DOMAIN Counts(ds) = DOMAIN ds
         /\ \A i \in DOMAIN ds : Counts(ds)[i] = ds[i].suppressed
  <1>1. Len(ds) \in Nat /\ DOMAIN ds = 1 .. Len(ds) /\ \A i \in DOMAIN ds : ds[i] \in Duplicate
    BY LenProperties, ElementOfSeq
  <1>2. Counts(ds) \in [1 .. Len(ds) -> Emitted]
    BY <1>1 DEF Counts, Duplicate
  <1> QED BY <1>1, <1>2 DEF Counts

(* Counts distribute over concatenation and selection.                        *)
LEMMA CountsOfConcat ==
  ASSUME NEW a \in Seq(Duplicate), NEW b \in Seq(Duplicate)
  PROVE  Counts(a \o b) = Counts(a) \o Counts(b)
  <1>1. /\ a \o b \in Seq(Duplicate) /\ Len(a \o b) = Len(a) + Len(b)
        /\ Len(a) \in Nat /\ Len(b) \in Nat /\ DOMAIN a = 1 .. Len(a) /\ DOMAIN b = 1 .. Len(b)
        /\ DOMAIN (a \o b) = 1 .. Len(a) + Len(b)
        /\ \A i \in 1 .. Len(a) + Len(b) : (a \o b)[i] = IF i <= Len(a) THEN a[i] ELSE b[i - Len(a)]
    BY ConcatProperties, LenProperties
  <1>2. /\ Counts(a) \in Seq(Emitted) /\ Len(Counts(a)) = Len(a)
        /\ Counts(b) \in Seq(Emitted) /\ Len(Counts(b)) = Len(b)
        /\ Counts(a \o b) \in Seq(Emitted) /\ Len(Counts(a \o b)) = Len(a) + Len(b)
    BY <1>1, CountsFacts
  <1>3. /\ Counts(a) \o Counts(b) \in Seq(Emitted)
        /\ Len(Counts(a) \o Counts(b)) = Len(a) + Len(b)
        /\ \A i \in 1 .. Len(a) + Len(b) :
              (Counts(a) \o Counts(b))[i] = IF i <= Len(a) THEN Counts(a)[i] ELSE Counts(b)[i - Len(a)]
    BY <1>2, ConcatProperties
  <1>4. ASSUME NEW i \in 1 .. Len(a) + Len(b)
        PROVE  Counts(a \o b)[i] = (Counts(a) \o Counts(b))[i]
    <2>1. Counts(a \o b)[i] = (a \o b)[i].suppressed
      BY <1>1 DEF Counts
    <2>2. CASE i <= Len(a)
      <3>1. i \in DOMAIN a BY <2>2, <1>1
      <3> QED BY <2>1, <2>2, <3>1, <1>1, <1>3 DEF Counts
    <2>3. CASE i > Len(a)
      <3>1. i - Len(a) \in DOMAIN b /\ ~(i <= Len(a)) BY <2>3, <1>1
      <3>2. (a \o b)[i] = b[i - Len(a)] BY <3>1, <1>1
      <3>3. (Counts(a) \o Counts(b))[i] = Counts(b)[i - Len(a)] BY <3>1, <1>3
      <3>4. Counts(b)[i - Len(a)] = b[i - Len(a)].suppressed BY <3>1 DEF Counts
      <3> QED BY <2>1, <3>2, <3>3, <3>4, Zenon
    <2>4. i <= Len(a) \/ i > Len(a)
      BY LenProperties
    <2> QED BY <2>2, <2>3, <2>4
  <1> QED BY <1>2, <1>3, <1>4, SeqEqual

(* What is counted under the selected signatures.                             *)
LEMMA CountsOfPicked ==
  ASSUME NEW ds \in Seq(Duplicate), NEW S \in SUBSET (DOMAIN ds)
  PROVE  /\ Picked(ds, S) \in Seq(Duplicate) /\ Len(Picked(ds, S)) <= Len(ds)
         /\ Counts(Picked(ds, S)) = Picked(Counts(ds), S)
  <1>1. Picked(ds, S) \in Seq(Duplicate) /\ Len(Picked(ds, S)) <= Len(ds)
    BY PickedRecords
  <1>2. DOMAIN ds \subseteq Nat /\ IsFiniteSet(DOMAIN ds)
    BY DomainOfSeq
  <1>3. S \in SUBSET Nat /\ IsFiniteSet(S)
    BY <1>2, FS_Subset
  <1>4. \A i \in 1 .. Cardinality(S) : Position(S, i) \in DOMAIN ds
    BY <1>3, PositionsCover
  <1> QED BY <1>1, <1>4 DEF Counts, Picked

(* The summaries stand for the records that were counted.                     *)
LEMMA SummariesFacts ==
  ASSUME NEW ds \in Seq(Duplicate)
  PROVE  /\ Summaries(ds) \in Seq(Emitted)
         /\ Records(Summaries(ds)) = Records(Counts(ds))
         /\ Apart(Counts(ds)) => Apart(Summaries(ds))
  <1> DEFINE S == {i \in DOMAIN ds : ds[i].suppressed # {}}
  <1>1. Counts(ds) \in Seq(Emitted) /\ DOMAIN Counts(ds) = DOMAIN ds
        /\ \A i \in DOMAIN ds : Counts(ds)[i] = ds[i].suppressed
    BY CountsFacts
  <1>2. S \in SUBSET (DOMAIN Counts(ds)) /\ Summaries(ds) = Picked(Counts(ds), S)
    BY <1>1 DEF Summaries
  <1>3. UNION {Counts(ds)[j] : j \in S} = Records(Counts(ds))
    BY <1>1 DEF Records
  <1> HIDE DEF S
  <1>4. /\ Picked(Counts(ds), S) \in Seq(Emitted)
        /\ Records(Picked(Counts(ds), S)) = UNION {Counts(ds)[j] : j \in S}
        /\ Apart(Counts(ds)) => Apart(Picked(Counts(ds), S))
    BY <1>1, <1>2, PickedRecords
  <1> QED BY <1>2, <1>3, <1>4

(* Taking out one element, and putting one at the end.                        *)
LEMMA OutAndIn ==
  ASSUME NEW ds \in Seq(Duplicate), NEW i \in DOMAIN ds, NEW d \in Duplicate,
         Apart(Counts(ds)), NEW e, e \cap Records(Counts(ds)) = {},
         d.suppressed \subseteq ds[i].suppressed \cup e
  PROVE  LET new == Append(RemoveAt(ds, i), d) IN
         /\ new \in Seq(Duplicate) /\ Len(new) = Len(ds)
         /\ Apart(Counts(new))
         /\ Records(Counts(new)) = (Records(Counts(ds)) \ ds[i].suppressed) \cup d.suppressed
  <1> DEFINE a == SubSeq(ds, 1, i - 1)
             r == SubSeq(ds, i, Len(ds))
             x == <<ds[i]>>
             c == SubSeq(ds, i + 1, Len(ds))
             new == Append(RemoveAt(ds, i), d)
  <1>1. Len(ds) \in Nat /\ i \in 1 .. Len(ds) /\ ds[i] \in Duplicate
    BY LenProperties, ElementOfSeq
  <1>2. i - 1 \in 0 .. Len(ds) /\ (i - 1) + 1 = i
    BY <1>1
  <1>3. a \in Seq(Duplicate) /\ r \in Seq(Duplicate) /\ Len(a) = i - 1 /\ ds = a \o r
    BY <1>2, CutInTwo
  <1>4. i \in 0 .. Len(ds)
    BY <1>1
  <1>5. c \in Seq(Duplicate) /\ Len(c) = Len(ds) - i
    BY <1>4, CutInTwo
  <1>6. r = x \o c
    BY <1>1, SubSeqRecursiveFirst
  <1>7. x \in Seq(Duplicate) /\ <<d>> \in Seq(Duplicate) /\ Len(<<d>>) = 1
    BY <1>1
  <1> HIDE DEF a, c, x, r
  <1>8. Counts(ds) = Counts(a) \o (Counts(x) \o Counts(c))
    <2>1. Counts(a \o r) = Counts(a) \o Counts(r)
      BY <1>3, CountsOfConcat
    <2>2. Counts(x \o c) = Counts(x) \o Counts(c)
      BY <1>5, <1>7, CountsOfConcat
    <2> QED BY <2>1, <2>2, <1>3, <1>6
  <1>9. new = (a \o c) \o <<d>> /\ a \o c \in Seq(Duplicate)
    <2>1. RemoveAt(ds, i) = a \o c
      BY DEF RemoveAt, a, c
    <2>2. a \o c \in Seq(Duplicate)
      BY <1>3, <1>5, ConcatProperties
    <2>3. Append(a \o c, d) = (a \o c) \o <<d>>
      BY <2>2, AppendIsConcat
    <2> QED BY <2>1, <2>2, <2>3
  <1>10. new \in Seq(Duplicate) /\ Len(new) = Len(ds)
    <2>1. Len(a \o c) = Len(a) + Len(c) /\ Len((a \o c) \o <<d>>) = Len(a \o c) + 1
          /\ (a \o c) \o <<d>> \in Seq(Duplicate)
      BY <1>3, <1>5, <1>7, <1>9, ConcatProperties
    <2> QED BY <2>1, <1>1, <1>3, <1>5, <1>9
  <1>11. Counts(new) = (Counts(a) \o Counts(c)) \o Counts(<<d>>)
    BY <1>3, <1>5, <1>7, <1>9, CountsOfConcat
  <1>12. /\ Counts(a) \in Seq(Emitted) /\ Counts(c) \in Seq(Emitted)
         /\ Counts(x) \in Seq(Emitted) /\ Counts(<<d>>) \in Seq(Emitted)
         /\ Counts(x) \o Counts(c) \in Seq(Emitted) /\ Counts(a) \o Counts(c) \in Seq(Emitted)
    BY <1>3, <1>5, <1>7, CountsFacts, ConcatProperties
  <1>13. /\ Records(Counts(x)) = ds[i].suppressed
         /\ Records(Counts(<<d>>)) = d.suppressed /\ Apart(Counts(<<d>>))
    <2>1. Counts(x) = <<ds[i].suppressed>> /\ Counts(<<d>>) = <<d.suppressed>>
      BY DEF Counts, x
    <2> QED BY <2>1 DEF Records, Apart
  <1>14. /\ Records(Counts(ds)) = Records(Counts(a)) \cup (ds[i].suppressed \cup Records(Counts(c)))
         /\ Apart(Counts(a)) /\ Apart(Counts(c))
         /\ Records(Counts(a)) \cap (ds[i].suppressed \cup Records(Counts(c))) = {}
         /\ ds[i].suppressed \cap Records(Counts(c)) = {}
    <2> DEFINE y == Counts(x) \o Counts(c)
    <2>0. y \in Seq(Emitted)
      BY <1>12
    <2>3. Counts(ds) = Counts(a) \o y
      BY <1>8
    <2>2. /\ Records(y) = Records(Counts(x)) \cup Records(Counts(c))
          /\ Apart(y) => Apart(Counts(c)) /\ Records(Counts(x)) \cap Records(Counts(c)) = {}
      BY <1>12, RecordsOfConcat
    <2> HIDE DEF y
    <2>1. /\ Records(Counts(a) \o y) = Records(Counts(a)) \cup Records(y)
          /\ Apart(Counts(a) \o y) => /\ Apart(Counts(a)) /\ Apart(y)
                                      /\ Records(Counts(a)) \cap Records(y) = {}
      BY <1>12, <2>0, RecordsOfConcat
    <2> QED BY <2>1, <2>2, <2>3, <1>13
  <1>15. /\ Records(Counts(a) \o Counts(c)) = Records(Counts(a)) \cup Records(Counts(c))
         /\ Apart(Counts(a) \o Counts(c))
    BY <1>12, <1>14, RecordsOfConcat
  <1>16. Records(Counts(new)) = (Records(Counts(a)) \cup Records(Counts(c))) \cup d.suppressed
    <2> DEFINE y == Counts(a) \o Counts(c)
               z == Counts(<<d>>)
    <2>1. y \in Seq(Emitted) /\ z \in Seq(Emitted)
      BY <1>12
    <2>2. /\ Counts(new) = y \o z /\ Records(z) = d.suppressed
          /\ Records(y) = Records(Counts(a)) \cup Records(Counts(c))
      BY <1>11, <1>13, <1>15
    <2> HIDE DEF y, z, new
    <2>3. Records(y \o z) = Records(y) \cup Records(z)
      BY <2>1, RecordsOfConcat
    <2> QED BY <2>2, <2>3
  <1>17. (Records(Counts(a)) \cup Records(Counts(c))) \cap d.suppressed = {}
    BY <1>14
  <1>18. Apart(Counts(new))
    <2>1. /\ Apart(Counts(a) \o Counts(c)) /\ Apart(Counts(<<d>>))
          /\ Records(Counts(a) \o Counts(c)) \cap Records(Counts(<<d>>)) = {}
      BY <1>13, <1>15, <1>17
    <2>2. Apart((Counts(a) \o Counts(c)) \o Counts(<<d>>))
      BY <2>1, <1>12, RecordsOfConcat
    <2> QED BY <2>2, <1>11
  <1> HIDE DEF new
  <1>19. Records(Counts(new)) = (Records(Counts(ds)) \ ds[i].suppressed) \cup d.suppressed
    BY <1>14, <1>16
  <1> QED BY <1>10, <1>18, <1>19 DEF new

(* EveryRecordAccounted without the tuple: the six places hold the records    *)
(* emitted, and no two of them the same.                                      *)
SixPlaces(b, f, s, d, p, x, n) ==
    /\ b \cup f \cup s \cup d \cup p \cup x = 1 .. n
    /\ b \cap f = {} /\ b \cap s = {} /\ b \cap d = {} /\ b \cap p = {} /\ b \cap x = {}
    /\ f \cap s = {} /\ f \cap d = {} /\ f \cap p = {} /\ f \cap x = {}
    /\ s \cap d = {} /\ s \cap p = {} /\ s \cap x = {}
    /\ d \cap p = {} /\ d \cap x = {}
    /\ p \cap x = {}

Places ==
    /\ SixPlaces(Records(logBuffer), Records(inFlush["flusher"]), Records(inFlush["stopper"]),
                 Records(Counts(duplicates)), tally.published, tally.dropped, tally.emitted)
    /\ Apart(logBuffer) /\ Apart(Counts(duplicates))
    /\ Apart(inFlush["flusher"]) /\ Apart(inFlush["stopper"])

(* Records and Apart of a tuple of six.                                       *)
LEMMA TupleOfSix ==
  ASSUME NEW b, NEW f, NEW s, NEW d, NEW p, NEW x, NEW n
  PROVE  (Records(<<b, f, s, d, p, x>>) = 1 .. n /\ Apart(<<b, f, s, d, p, x>>))
            <=> SixPlaces(b, f, s, d, p, x, n)
  <1> DEFINE six == <<b, f, s, d, p, x>>
  <1>1. DOMAIN six = 1 .. 6 /\ six[1] = b /\ six[2] = f /\ six[3] = s /\ six[4] = d
        /\ six[5] = p /\ six[6] = x
    OBVIOUS
  <1>2. 1 .. 6 = {1, 2, 3, 4, 5, 6}
    OBVIOUS
  <1> HIDE DEF six
  <1>3. UNION {six[i] : i \in {1, 2, 3, 4, 5, 6}} = b \cup f \cup s \cup d \cup p \cup x
    BY <1>1
  <1>4. Records(six) = b \cup f \cup s \cup d \cup p \cup x
    BY <1>1, <1>2, <1>3 DEF Records
  <1>5. Apart(six) => /\ b \cap f = {} /\ b \cap s = {} /\ b \cap d = {} /\ b \cap p = {}
                      /\ b \cap x = {} /\ f \cap s = {} /\ f \cap d = {} /\ f \cap p = {}
                      /\ f \cap x = {} /\ s \cap d = {} /\ s \cap p = {} /\ s \cap x = {}
                      /\ d \cap p = {} /\ d \cap x = {} /\ p \cap x = {}
    <2> SUFFICES ASSUME Apart(six)
                 PROVE /\ b \cap f = {} /\ b \cap s = {} /\ b \cap d = {} /\ b \cap p = {}
                      /\ b \cap x = {} /\ f \cap s = {} /\ f \cap d = {} /\ f \cap p = {}
                      /\ f \cap x = {} /\ s \cap d = {} /\ s \cap p = {} /\ s \cap x = {}
                      /\ d \cap p = {} /\ d \cap x = {} /\ p \cap x = {}
      OBVIOUS
    <2>1. \A i, j \in {1, 2, 3, 4, 5, 6} : i # j => six[i] \cap six[j] = {}
      BY <1>1, <1>2 DEF Apart
    <2> QED BY <1>1, <2>1
  <1>6. SixPlaces(b, f, s, d, p, x, n) => Apart(six)
    <2>1. SixPlaces(b, f, s, d, p, x, n)
             => \A i, j \in {1, 2, 3, 4, 5, 6} : i # j => six[i] \cap six[j] = {}
      BY <1>1 DEF SixPlaces
    <2> QED BY <1>1, <1>2, <2>1 DEF Apart
  <1> QED BY <1>4, <1>5, <1>6 DEF SixPlaces, six

(* The property the runs check says just this.                                *)
LEMMA AccountedIsPlaces == EveryRecordAccounted <=> Places
  <1>1. LogThreads = {"flusher", "stopper"}
    BY DEF LogThreads
  <1> QED BY <1>1, TupleOfSix DEF EveryRecordAccounted, Shares, Places

(* One more record, with what the entries and the counts then stand for.      *)
LEMMA RecordPutKeeps ==
  ASSUME RemoteLogTypeOK, Places, tally.emitted < MaxEmits,
         NEW entries \in Seq(Emitted), NEW ds \in Seq(Duplicate), Len(ds) <= DuplicateCache,
         Apart(entries), Apart(Counts(ds)), Records(entries) \cap Records(Counts(ds)) = {},
         Records(entries) \cup Records(Counts(ds))
            = Records(Counts(duplicates)) \cup {tally.emitted + 1},
         Put1(entries, ds), UNCHANGED <<inFlush, logClock, logStopped>>
  PROVE  RemoteLogTypeOK' /\ Places'
  <1> DEFINE kept == Appended(entries).kept
             lost == Appended(entries).dropped
             r == tally.emitted + 1
  <1>1. /\ logBuffer' = kept /\ duplicates' = ds
        /\ tally' = [tally EXCEPT !.emitted = @ + 1, !.dropped = @ \cup lost]
        /\ inFlush' = inFlush /\ logClock' = logClock /\ logStopped' = logStopped
    BY DEF Put1
  <1>2. tally \in [emitted : 0 .. MaxEmits, published : Emitted, dropped : Emitted]
        /\ logBuffer \in Seq(Emitted) /\ MaxEmits \in Nat
    BY RemoteLogAssumption DEF RemoteLogTypeOK
  <1>3. /\ tally'.emitted = r /\ tally'.published = tally.published
        /\ tally'.dropped = tally.dropped \cup lost
        /\ r \in 0 .. MaxEmits /\ r \notin 1 .. tally.emitted
        /\ (1 .. tally.emitted) \cup {r} = 1 .. r
    BY <1>1, <1>2
  <1>4. Records(logBuffer) \cap Records(entries) = {}
    <2>1. Records(logBuffer) \subseteq 1 .. tally.emitted
          /\ Records(logBuffer) \cap Records(Counts(duplicates)) = {}
      BY DEF Places, SixPlaces
    <2> QED BY <2>1, <1>3
  <1>5. /\ kept \in Seq(Emitted) /\ Len(kept) <= LogBuffer
        /\ Records(kept) \cup lost = Records(logBuffer) \cup Records(entries)
        /\ Apart(kept) /\ Records(kept) \cap lost = {}
    BY <1>2, <1>4, AppendedFacts DEF Places
  <1> HIDE DEF kept, lost, r
  <1>6. SixPlaces(Records(kept), Records(inFlush["flusher"]), Records(inFlush["stopper"]),
                  Records(Counts(ds)), tally.published, tally.dropped \cup lost, r)
    BY <1>3, <1>5 DEF Places, SixPlaces, r
  <1>7. Places'
    BY <1>1, <1>3, <1>5, <1>6 DEF Places
  <1>8. tally.dropped \cup lost \in Emitted
    <2>1. tally.dropped \cup lost \subseteq 1 .. r /\ 1 .. r \subseteq 1 .. MaxEmits
      BY <1>2, <1>3, <1>6 DEF SixPlaces
    <2> QED BY <2>1 DEF Emitted
  <1>9. tally' \in [emitted : 0 .. MaxEmits, published : Emitted, dropped : Emitted]
    BY <1>1, <1>2, <1>3, <1>8
  <1>10. RemoteLogTypeOK'
    BY <1>1, <1>5, <1>9 DEF RemoteLogTypeOK
  <1> QED BY <1>7, <1>10

(* A record of its own entry.                                                 *)
LEMMA OneEntry ==
  ASSUME RemoteLogTypeOK, tally.emitted < MaxEmits
  PROVE  LET one == <<{tally.emitted + 1}>> IN
         /\ one \in Seq(Emitted) /\ Apart(one) /\ Records(one) = {tally.emitted + 1}
  <1>1. tally.emitted \in 0 .. MaxEmits /\ MaxEmits \in Nat
    BY RemoteLogAssumption DEF RemoteLogTypeOK
  <1>2. {tally.emitted + 1} \in Emitted
    BY <1>1 DEF Emitted
  <1> QED BY <1>2 DEF Apart, Records

(* Records emitted are new to all places.                                     *)
LEMMA NewRecord ==
  ASSUME RemoteLogTypeOK, Places
  PROVE  /\ tally.emitted + 1 \notin Records(Counts(duplicates))
         /\ tally.emitted + 1 \notin Records(logBuffer)
  <1>1. tally.emitted \in 0 .. MaxEmits /\ MaxEmits \in Nat
    BY RemoteLogAssumption DEF RemoteLogTypeOK
  <1>2. tally.emitted + 1 \notin 1 .. tally.emitted
    BY <1>1
  <1> QED BY <1>2 DEF Places, SixPlaces

(* A record that is emitted enters the buffer or is counted, and makes room   *)
(* or takes a summary along, as the cache and the window have it.             *)
LEMMA EmitKeeps ==
  ASSUME RemoteLogTypeOK, Places, NEW sig \in Signatures, Emit(sig)
  PROVE  RemoteLogTypeOK' /\ Places'
  <1> DEFINE record == tally.emitted + 1
             one == <<{record}>>
             known == {i \in DOMAIN duplicates : duplicates[i].sig = sig}
  <1>0. /\ tally.emitted < MaxEmits /\ UNCHANGED <<inFlush, logClock, logStopped>>
        /\ duplicates \in Seq(Duplicate) /\ Len(duplicates) <= DuplicateCache
        /\ Apart(Counts(duplicates))
    BY DEF Emit, RemoteLogTypeOK, Places
  <1>1. one \in Seq(Emitted) /\ Apart(one) /\ Records(one) = {record}
    BY <1>0, OneEntry
  <1>2. record \notin Records(Counts(duplicates))
    BY NewRecord
  <1>3. CASE sig \in Exempt /\ Put1(one, duplicates)
    BY <1>0, <1>1, <1>2, <1>3, RecordPutKeeps
  <1>4. CASE /\ sig \notin Exempt
             /\ LET ds == Append(duplicates, Fresh(sig))
                IN  Put1(Evict(ds) \o one, IF Len(ds) > DuplicateCache THEN Tail(ds) ELSE ds)
    <2> DEFINE ds == Append(duplicates, Fresh(sig))
               out == SubSeq(ds, 1, Len(ds) - DuplicateCache)
               rest == IF Len(ds) > DuplicateCache THEN Tail(ds) ELSE ds
    <2>1. Fresh(sig) \in Duplicate /\ Fresh(sig).suppressed = {}
      BY <1>4 DEF Fresh, Duplicate, RemoteLogTypeOK, Emitted
    <2>2. <<Fresh(sig)>> \in Seq(Duplicate) /\ Len(<<Fresh(sig)>>) = 1
      BY <2>1
    <2>3. /\ ds = duplicates \o <<Fresh(sig)>> /\ ds \in Seq(Duplicate)
          /\ Len(ds) = Len(duplicates) + 1 /\ Len(ds) \in Nat /\ ds # <<>>
      <3>1. ds = duplicates \o <<Fresh(sig)>>
        BY <1>0, AppendIsConcat
      <3>2. /\ duplicates \o <<Fresh(sig)>> \in Seq(Duplicate) /\ Len(duplicates) \in Nat
            /\ Len(duplicates \o <<Fresh(sig)>>) = Len(duplicates) + 1
        BY <1>0, <2>2, ConcatProperties, LenProperties
      <3>3. Len(ds) # 0
        BY <3>1, <3>2
      <3> QED BY <3>1, <3>2, <3>3, EmptySeq
    <2>4. Counts(<<Fresh(sig)>>) = <<{}>>
      BY <2>1 DEF Counts
    <2>5. Records(Counts(<<Fresh(sig)>>)) = {} /\ Apart(Counts(<<Fresh(sig)>>))
          /\ Counts(<<Fresh(sig)>>) \in Seq(Emitted)
      <3>1. Counts(<<Fresh(sig)>>) \in Seq(Emitted)
        BY <2>2, CountsFacts
      <3>2. Records(<<{}>>) = {} /\ Apart(<<{}>>)
        BY DEF Records, Apart
      <3> QED BY <2>4, <3>1, <3>2
    <2>6. Counts(ds) = Counts(duplicates) \o Counts(<<Fresh(sig)>>)
      BY <1>0, <2>2, <2>3, CountsOfConcat
    <2>7. Records(Counts(ds)) = Records(Counts(duplicates)) /\ Apart(Counts(ds))
      <3>1. Counts(duplicates) \in Seq(Emitted)
        BY <1>0, CountsFacts
      <3> DEFINE f == Counts(<<Fresh(sig)>>)
      <3>2. f \in Seq(Emitted) /\ Records(f) = {} /\ Apart(f) /\ Counts(ds) = Counts(duplicates) \o f
        BY <2>5, <2>6
      <3> DEFINE c == Counts(duplicates)
      <3>3. Apart(c) /\ c \in Seq(Emitted)
        BY <1>0, <3>1
      <3> HIDE DEF ds, f, c
      <3>4. Records(c) \cap Records(f) = {}
        BY <3>2
      <3>5. /\ Records(c \o f) = Records(c) \cup Records(f)
            /\ Apart(c \o f)
        BY <3>2, <3>3, <3>4, RecordsOfConcat
      <3>6. Counts(ds) = c \o f
        BY <3>2 DEF c
      <3>7. Records(Counts(ds)) = Records(c) /\ Apart(Counts(ds))
        BY <3>2, <3>5, <3>6
      <3> QED BY <3>7 DEF c
    <2> HIDE DEF ds
    <2>8. /\ out \in Seq(Duplicate) /\ rest \in Seq(Duplicate)
          /\ ds = out \o rest /\ Len(rest) <= DuplicateCache
      <3>0. DuplicateCache \in Nat /\ DuplicateCache > 0 /\ Len(duplicates) \in Nat
        BY <1>0, RemoteLogAssumption, LenProperties
      <3>1. CASE Len(ds) > DuplicateCache
        <4>1. Len(ds) - DuplicateCache = 1 /\ 1 \in 0 .. Len(ds)
          BY <3>0, <3>1, <2>3, <1>0
        <4>2. rest = SubSeq(ds, 1 + 1, Len(ds))
          BY <3>1, <2>3, TailIsSubSeq
        <4>3. /\ out \in Seq(Duplicate) /\ SubSeq(ds, 1 + 1, Len(ds)) \in Seq(Duplicate)
              /\ Len(SubSeq(ds, 1 + 1, Len(ds))) = Len(ds) - 1
              /\ ds = out \o SubSeq(ds, 1 + 1, Len(ds))
          BY <4>1, <2>3, CutInTwo
        <4> HIDE DEF out, rest
        <4> QED BY <4>1, <4>2, <4>3, <3>0, <2>3
      <3>2. CASE ~(Len(ds) > DuplicateCache)
        <4>1. Len(ds) - DuplicateCache < 1 /\ Len(ds) - DuplicateCache \in Int
          BY <3>0, <3>2, <2>3
        <4>2. out = <<>>
          BY <4>1, SubSeqEmpty
        <4>3. rest = ds /\ Len(ds) <= DuplicateCache
          BY <3>0, <3>2, <2>3
        <4>4. out \in Seq(Duplicate) /\ ds = out \o ds
          BY <4>2, <2>3, ConcatEmptySeq, EmptySeq
        <4> QED BY <4>3, <4>4, <2>3
      <3> QED BY <3>1, <3>2
    <2>9. Put1(Summaries(out) \o one, rest)
      BY <1>4 DEF Evict, ds
    <2> HIDE DEF out, rest
    <2>10. Counts(ds) = Counts(out) \o Counts(rest)
           /\ Counts(out) \in Seq(Emitted) /\ Counts(rest) \in Seq(Emitted)
      BY <2>8, CountsOfConcat, CountsFacts
    <2>11. /\ Records(Counts(duplicates)) = Records(Counts(out)) \cup Records(Counts(rest))
           /\ Apart(Counts(out)) /\ Apart(Counts(rest))
           /\ Records(Counts(out)) \cap Records(Counts(rest)) = {}
      BY <2>7, <2>10, RecordsOfConcat
    <2>12. /\ Summaries(out) \in Seq(Emitted) /\ Apart(Summaries(out))
           /\ Records(Summaries(out)) = Records(Counts(out))
      BY <2>8, <2>11, SummariesFacts
    <2>13. /\ Summaries(out) \o one \in Seq(Emitted)
           /\ Apart(Summaries(out) \o one)
           /\ Records(Summaries(out) \o one) = Records(Counts(out)) \cup {record}
      <3>1. Records(Summaries(out)) \cap Records(one) = {}
        BY <1>1, <1>2, <2>11, <2>12
      <3> HIDE DEF one
      <3>2. Summaries(out) \o one \in Seq(Emitted)
        BY <1>1, <2>12, ConcatProperties
      <3>3. /\ Apart(Summaries(out) \o one)
            /\ Records(Summaries(out) \o one) = Records(Summaries(out)) \cup Records(one)
        BY <1>1, <2>12, <3>1, RecordsOfConcat
      <3> QED BY <1>1, <2>12, <3>2, <3>3
    <2> DEFINE entries == Summaries(out) \o one
    <2>14. /\ entries \in Seq(Emitted) /\ Apart(entries) /\ Put1(entries, rest)
           /\ Records(entries) \cap Records(Counts(rest)) = {}
           /\ Records(entries) \cup Records(Counts(rest)) = Records(Counts(duplicates)) \cup {record}
      BY <1>2, <2>9, <2>11, <2>13
    <2> HIDE DEF entries
    <2> QED BY <1>0, <2>8, <2>11, <2>14, RecordPutKeeps
  <1>5. ASSUME sig \notin Exempt, NEW i \in known,
               Put1(<<>>, Append(RemoveAt(duplicates, i),
                                 [duplicates[i] EXCEPT !.suppressed = @ \cup {record}]))
        PROVE  RemoteLogTypeOK' /\ Places'
    <2> DEFINE d == [duplicates[i] EXCEPT !.suppressed = @ \cup {record}]
               ds == Append(RemoveAt(duplicates, i), d)
    <2>1. i \in DOMAIN duplicates /\ duplicates[i] \in Duplicate
      BY <1>0, ElementOfSeq, LenProperties
    <2>2. record \in 1 .. MaxEmits
      BY <1>0, RemoteLogAssumption DEF RemoteLogTypeOK
    <2>3. d \in Duplicate /\ d.suppressed = duplicates[i].suppressed \cup {record}
      BY <2>1, <2>2 DEF Duplicate, Emitted
    <2>4. Counts(duplicates)[i] = duplicates[i].suppressed
          /\ DOMAIN Counts(duplicates) = DOMAIN duplicates
      BY <1>0, <2>1, CountsFacts
    <2>5. duplicates[i].suppressed \subseteq Records(Counts(duplicates))
      BY <2>1, <2>4 DEF Records
    <2>6. /\ ds \in Seq(Duplicate) /\ Len(ds) = Len(duplicates) /\ Apart(Counts(ds))
          /\ Records(Counts(ds)) = Records(Counts(duplicates)) \cup {record}
      <3>1. {record} \cap Records(Counts(duplicates)) = {}
        BY <1>2
      <3>2. d.suppressed \subseteq duplicates[i].suppressed \cup {record}
        BY <2>3
      <3> HIDE DEF d, record
      <3>3. /\ ds \in Seq(Duplicate) /\ Len(ds) = Len(duplicates) /\ Apart(Counts(ds))
            /\ Records(Counts(ds))
                 = (Records(Counts(duplicates)) \ duplicates[i].suppressed) \cup d.suppressed
        BY <1>0, <2>1, <2>3, <3>1, <3>2, OutAndIn
      <3> QED BY <2>3, <2>5, <3>3
    <2>7. <<>> \in Seq(Emitted) /\ Apart(<<>>) /\ Records(<<>>) = {}
      BY EmptySeq DEF Apart, Records
    <2>8. Put1(<<>>, ds)
      BY <1>5
    <2> HIDE DEF ds
    <2> QED BY <1>0, <2>6, <2>7, <2>8, RecordPutKeeps
  <1>6. ASSUME sig \notin Exempt, NEW i \in known,
               Put1(Summaries(<<duplicates[i]>>) \o one,
                    Append(RemoveAt(duplicates, i), Fresh(sig)))
        PROVE  RemoteLogTypeOK' /\ Places'
    <2> DEFINE ds == Append(RemoveAt(duplicates, i), Fresh(sig))
               last == <<duplicates[i]>>
               gone == duplicates[i].suppressed
               entries == Summaries(last) \o one
    <2>1. i \in DOMAIN duplicates /\ duplicates[i] \in Duplicate
      BY <1>0, ElementOfSeq, LenProperties
    <2>2. Fresh(sig) \in Duplicate /\ Fresh(sig).suppressed = {}
      BY <1>6 DEF Fresh, Duplicate, RemoteLogTypeOK, Emitted
    <2>3. Counts(duplicates)[i] = gone /\ DOMAIN Counts(duplicates) = DOMAIN duplicates
      BY <1>0, <2>1, CountsFacts
    <2>4. gone \subseteq Records(Counts(duplicates))
      BY <2>1, <2>3 DEF Records
    <2>5. /\ ds \in Seq(Duplicate) /\ Len(ds) = Len(duplicates) /\ Apart(Counts(ds))
          /\ Records(Counts(ds)) = Records(Counts(duplicates)) \ gone
      <3>1. Fresh(sig).suppressed \subseteq duplicates[i].suppressed \cup {}
            /\ {} \cap Records(Counts(duplicates)) = {}
        BY <2>2
      <3>2. /\ ds \in Seq(Duplicate) /\ Len(ds) = Len(duplicates) /\ Apart(Counts(ds))
            /\ Records(Counts(ds))
                 = (Records(Counts(duplicates)) \ duplicates[i].suppressed) \cup Fresh(sig).suppressed
        BY <1>0, <2>1, <2>2, <3>1, OutAndIn
      <3> QED BY <2>2, <3>2
    <2>6. last \in Seq(Duplicate) /\ Counts(last) = <<gone>>
      BY <2>1 DEF Counts
    <2>7. Records(Counts(last)) = gone /\ Apart(Counts(last))
      <3>1. Records(<<gone>>) = gone /\ Apart(<<gone>>)
        BY DEF Records, Apart
      <3> QED BY <2>6, <3>1
    <2> HIDE DEF last, ds, gone, one
    <2>8. /\ Summaries(last) \in Seq(Emitted) /\ Apart(Summaries(last))
          /\ Records(Summaries(last)) = gone
      BY <2>6, <2>7, SummariesFacts
    <2>9. entries \in Seq(Emitted)
      BY <1>1, <2>8, ConcatProperties
    <2>10. Records(Summaries(last)) \cap Records(one) = {}
      BY <1>1, <1>2, <2>4, <2>8
    <2>11. Apart(entries) /\ Records(entries) = gone \cup {record}
      BY <1>1, <2>8, <2>10, RecordsOfConcat
    <2>12. Put1(entries, ds)
      BY <1>6 DEF last, ds, one
    <2> HIDE DEF entries
    <2>13. /\ Records(entries) \cap Records(Counts(ds)) = {}
           /\ Records(entries) \cup Records(Counts(ds)) = Records(Counts(duplicates)) \cup {record}
      BY <1>2, <2>4, <2>5, <2>11
    <2> QED BY <1>0, <2>5, <2>9, <2>11, <2>12, <2>13, RecordPutKeeps
  <1> QED BY <1>3, <1>4, <1>5, <1>6 DEF Emit

(* A flush takes the buffer and what is due, and the rest stays counted.      *)
LEMMA CollectKeeps ==
  ASSUME RemoteLogTypeOK, Places, NEW t \in LogThreads, Collect(t)
  PROVE  RemoteLogTypeOK' /\ Places'
  <1> DEFINE due == {i \in DOMAIN duplicates : logStopped \/ Expired(duplicates[i])}
             stay == (DOMAIN duplicates) \ due
             out == Picked(duplicates, due)
             rest == Picked(duplicates, stay)
             kept == Appended(Summaries(out)).kept
             lost == Appended(Summaries(out)).dropped
  <1>1. /\ inFlush[t] = <<>> /\ inFlush' = [inFlush EXCEPT ![t] = kept]
        /\ logBuffer' = <<>> /\ duplicates' = rest
        /\ tally' = [tally EXCEPT !.dropped = @ \cup lost]
        /\ logClock' = logClock /\ logStopped' = logStopped
    BY DEF Collect
  <1>2. /\ due \in SUBSET (DOMAIN duplicates) /\ stay \in SUBSET (DOMAIN duplicates)
        /\ due \cup stay = DOMAIN duplicates /\ due \cap stay = {}
    OBVIOUS
  <1> HIDE DEF due, stay
  <1>3. /\ duplicates \in Seq(Duplicate) /\ logBuffer \in Seq(Emitted)
        /\ Len(duplicates) <= DuplicateCache /\ DuplicateCache \in Nat
        /\ inFlush \in [LogThreads -> Seq(Emitted)]
        /\ tally \in [emitted : 0 .. MaxEmits, published : Emitted, dropped : Emitted]
        /\ Len(duplicates) \in Nat
    BY RemoteLogAssumption, LenProperties DEF RemoteLogTypeOK
  <1>4. /\ Counts(duplicates) \in Seq(Emitted) /\ DOMAIN Counts(duplicates) = DOMAIN duplicates
    BY <1>3, CountsFacts
  <1>5. /\ out \in Seq(Duplicate) /\ Counts(out) = Picked(Counts(duplicates), due)
        /\ rest \in Seq(Duplicate) /\ Counts(rest) = Picked(Counts(duplicates), stay)
        /\ Len(rest) <= Len(duplicates)
    BY <1>2, <1>3, CountsOfPicked
  <1> HIDE DEF out, rest
  <1>6. /\ Records(Counts(out)) = UNION {Counts(duplicates)[j] : j \in due}
        /\ Records(Counts(rest)) = UNION {Counts(duplicates)[j] : j \in stay}
        /\ Apart(Counts(out)) /\ Apart(Counts(rest))
    BY <1>2, <1>4, <1>5, PickedRecords DEF Places
  <1>7. Records(Counts(out)) \cup Records(Counts(rest)) = Records(Counts(duplicates))
    BY <1>2, <1>4, <1>6 DEF Records
  <1>8. Records(Counts(out)) \cap Records(Counts(rest)) = {}
    <2>1. \A j \in due : \A k \in stay : Counts(duplicates)[j] \cap Counts(duplicates)[k] = {}
      BY <1>2, <1>4 DEF Places, Apart
    <2> QED BY <2>1, <1>6
  <1>9. /\ Summaries(out) \in Seq(Emitted) /\ Apart(Summaries(out))
        /\ Records(Summaries(out)) = Records(Counts(out))
    BY <1>5, <1>6, SummariesFacts
  <1>10. Records(logBuffer) \cap Records(Summaries(out)) = {}
    BY <1>7, <1>9 DEF Places, SixPlaces
  <1>11. /\ kept \in Seq(Emitted) /\ Apart(kept)
         /\ Records(kept) \cup lost = Records(logBuffer) \cup Records(Counts(out))
         /\ Records(kept) \cap lost = {}
    BY <1>3, <1>9, <1>10, AppendedFacts DEF Places
  <1> HIDE DEF kept, lost
  <1>12. /\ tally'.emitted = tally.emitted /\ tally'.published = tally.published
         /\ tally'.dropped = tally.dropped \cup lost
    BY <1>1, <1>3
  <1>13. Records(<<>>) = {} /\ Apart(<<>>) /\ <<>> \in Seq(Emitted) /\ Len(<<>>) = 0
    BY EmptySeq DEF Records, Apart
  <1>14. Places'
    <2>1. CASE t = "flusher"
      <3>1. inFlush'["flusher"] = kept /\ inFlush'["stopper"] = inFlush["stopper"]
            /\ inFlush["flusher"] = <<>>
        BY <1>1, <1>3, <2>1 DEF LogThreads
      <3>2. SixPlaces({}, Records(kept), Records(inFlush["stopper"]), Records(Counts(rest)),
                      tally.published, tally.dropped \cup lost, tally.emitted)
        BY <1>7, <1>8, <1>11, <1>13, <3>1 DEF Places, SixPlaces
      <3> QED BY <1>1, <1>6, <1>11, <1>12, <1>13, <3>1, <3>2 DEF Places
    <2>2. CASE t = "stopper"
      <3>1. inFlush'["stopper"] = kept /\ inFlush'["flusher"] = inFlush["flusher"]
            /\ inFlush["stopper"] = <<>>
        BY <1>1, <1>3, <2>2 DEF LogThreads
      <3>2. SixPlaces({}, Records(inFlush["flusher"]), Records(kept), Records(Counts(rest)),
                      tally.published, tally.dropped \cup lost, tally.emitted)
        BY <1>7, <1>8, <1>11, <1>13, <3>1 DEF Places, SixPlaces
      <3> QED BY <1>1, <1>6, <1>11, <1>12, <1>13, <3>1, <3>2 DEF Places
    <2> QED BY <2>1, <2>2 DEF LogThreads
  <1>15. tally.dropped \cup lost \in Emitted
    <2>1. lost \subseteq Records(logBuffer) \cup Records(Counts(duplicates))
      BY <1>7, <1>11
    <2>2. lost \subseteq 1 .. tally.emitted /\ 1 .. tally.emitted \subseteq 1 .. MaxEmits
      BY <2>1, <1>3, RemoteLogAssumption DEF Places, SixPlaces
    <2> QED BY <2>2, <1>3 DEF Emitted
  <1>16. tally' \in [emitted : 0 .. MaxEmits, published : Emitted, dropped : Emitted]
    BY <1>1, <1>3, <1>15
  <1>17. RemoteLogTypeOK'
    <2>1. Len(rest) <= DuplicateCache /\ 0 <= LogBuffer
      BY <1>3, <1>5, RemoteLogAssumption, LenProperties
    <2>2. inFlush' \in [LogThreads -> Seq(Emitted)]
      BY <1>1, <1>3, <1>11
    <2> QED BY <1>1, <1>5, <1>13, <1>16, <2>1, <2>2 DEF RemoteLogTypeOK
  <1> QED BY <1>14, <1>17

(* A publish ends its batch, sent or not.                                     *)
LEMMA PublishKeeps ==
  ASSUME RemoteLogTypeOK, Places, NEW t \in LogThreads, PublishLogs(t)
  PROVE  RemoteLogTypeOK' /\ Places'
  <1> DEFINE batch == Records(inFlush[t])
  <1>1. /\ inFlush' = [inFlush EXCEPT ![t] = <<>>] /\ logBuffer' = logBuffer
        /\ duplicates' = duplicates /\ logClock' = logClock /\ logStopped' = logStopped
        /\ tally' \in {[tally EXCEPT !.published = @ \cup batch],
                       [tally EXCEPT !.dropped = @ \cup batch]}
    BY DEF PublishLogs
  <1>2. /\ inFlush \in [LogThreads -> Seq(Emitted)]
        /\ tally \in [emitted : 0 .. MaxEmits, published : Emitted, dropped : Emitted]
    BY DEF RemoteLogTypeOK
  <1>3. Records(<<>>) = {} /\ Apart(<<>>) /\ <<>> \in Seq(Emitted)
    BY EmptySeq DEF Records, Apart
  <1>4. batch \in Emitted
    <2>1. batch \subseteq 1 .. tally.emitted
      BY DEF Places, SixPlaces, LogThreads
    <2>2. 1 .. tally.emitted \subseteq 1 .. MaxEmits
      BY <1>2, RemoteLogAssumption
    <2> QED BY <2>1, <2>2 DEF Emitted
  <1>5. \/ /\ tally'.emitted = tally.emitted /\ tally'.published = tally.published \cup batch
           /\ tally'.dropped = tally.dropped
        \/ /\ tally'.emitted = tally.emitted /\ tally'.published = tally.published
           /\ tally'.dropped = tally.dropped \cup batch
    BY <1>1, <1>2
  <1>6. tally' \in [emitted : 0 .. MaxEmits, published : Emitted, dropped : Emitted]
    BY <1>1, <1>2, <1>4 DEF Emitted
  <1>7. inFlush' \in [LogThreads -> Seq(Emitted)]
    BY <1>1, <1>2, <1>3
  <1>8. RemoteLogTypeOK'
    BY <1>1, <1>6, <1>7 DEF RemoteLogTypeOK
  <1>9. CASE t = "flusher"
    <2>1. inFlush'["flusher"] = <<>> /\ inFlush'["stopper"] = inFlush["stopper"]
          /\ batch = Records(inFlush["flusher"])
      BY <1>1, <1>2, <1>9 DEF LogThreads
    <2> HIDE DEF batch
    <2>2. SixPlaces(Records(logBuffer), {}, Records(inFlush["stopper"]), Records(Counts(duplicates)),
                    tally'.published, tally'.dropped, tally'.emitted)
      BY <1>5, <2>1 DEF Places, SixPlaces
    <2> QED BY <1>1, <1>3, <1>8, <2>1, <2>2 DEF Places
  <1>10. CASE t = "stopper"
    <2>1. inFlush'["stopper"] = <<>> /\ inFlush'["flusher"] = inFlush["flusher"]
          /\ batch = Records(inFlush["stopper"])
      BY <1>1, <1>2, <1>10 DEF LogThreads
    <2> HIDE DEF batch
    <2>2. SixPlaces(Records(logBuffer), Records(inFlush["flusher"]), {}, Records(Counts(duplicates)),
                    tally'.published, tally'.dropped, tally'.emitted)
      BY <1>5, <2>1 DEF Places, SixPlaces
    <2> QED BY <1>1, <1>3, <1>8, <2>1, <2>2 DEF Places
  <1> QED BY <1>9, <1>10 DEF LogThreads

(* Nothing is emitted yet.                                                    *)
LEMMA LogStarts == RemoteLogInit => RemoteLogTypeOK /\ Places
  <1> SUFFICES ASSUME RemoteLogInit PROVE RemoteLogTypeOK /\ Places
    OBVIOUS
  <1>1. /\ Records(<<>>) = {} /\ Apart(<<>>) /\ <<>> \in Seq(Emitted) /\ <<>> \in Seq(Duplicate)
        /\ Len(<<>>) = 0 /\ {} \in Emitted
    BY EmptySeq DEF Records, Apart, Emitted
  <1>2. Counts(<<>>) = <<>>
    BY DEF Counts
  <1>3. 1 .. 0 = {}
    OBVIOUS
  <1>4. /\ tally = [emitted |-> 0, published |-> {}, dropped |-> {}] /\ logBuffer = <<>>
        /\ duplicates = <<>> /\ inFlush = [t \in LogThreads |-> <<>>] /\ logClock = 0
        /\ logStopped = FALSE
    BY DEF RemoteLogInit
  <1>5. /\ 0 \in 0 .. MaxEmits /\ 0 \in 0 .. MaxLogClock /\ 0 <= LogBuffer /\ 0 <= DuplicateCache
    BY RemoteLogAssumption
  <1>6. tally \in [emitted : 0 .. MaxEmits, published : Emitted, dropped : Emitted]
    BY <1>1, <1>4, <1>5
  <1>7. inFlush["flusher"] = <<>> /\ inFlush["stopper"] = <<>>
    BY <1>4 DEF LogThreads
  <1>8. RemoteLogTypeOK
    BY <1>1, <1>4, <1>5, <1>6 DEF RemoteLogTypeOK
  <1>9. Places
    BY <1>1, <1>2, <1>3, <1>4, <1>7 DEF Places, SixPlaces
  <1> QED BY <1>8, <1>9

(* Every step of emitters, flushing threads, stop and clock.                  *)
LEMMA LogStep == RemoteLogTypeOK /\ Places /\ [RemoteLogNext]_logVars
                    => RemoteLogTypeOK' /\ Places'
  <1> SUFFICES ASSUME RemoteLogTypeOK, Places, [RemoteLogNext]_logVars
               PROVE  RemoteLogTypeOK' /\ Places'
    OBVIOUS
  <1>1. ASSUME NEW sig \in Signatures, Emit(sig) PROVE RemoteLogTypeOK' /\ Places'
    BY <1>1, EmitKeeps
  <1>2. ASSUME NEW t \in LogThreads, Collect(t) PROVE RemoteLogTypeOK' /\ Places'
    BY <1>2, CollectKeeps
  <1>3. ASSUME NEW t \in LogThreads, PublishLogs(t) PROVE RemoteLogTypeOK' /\ Places'
    BY <1>3, PublishKeeps
  <1>4. ASSUME UNCHANGED <<logBuffer, duplicates, inFlush, tally>>,
               logClock' \in 0 .. MaxLogClock, logStopped' \in BOOLEAN
        PROVE  RemoteLogTypeOK' /\ Places'
    BY <1>4 DEF RemoteLogTypeOK, Places
  <1>5. CASE StopLog
    BY <1>4, <1>5 DEF StopLog, RemoteLogTypeOK
  <1>6. CASE LogTick
    <2>1. logClock' \in 0 .. MaxLogClock
      BY <1>6, RemoteLogAssumption DEF LogTick, RemoteLogTypeOK
    <2> QED BY <1>4, <1>6, <2>1 DEF LogTick, RemoteLogTypeOK
  <1>7. CASE UNCHANGED logVars
    BY <1>4, <1>7 DEF logVars, RemoteLogTypeOK
  <1> QED BY <1>1, <1>2, <1>3, <1>5, <1>6, <1>7 DEF RemoteLogNext

(* Whatever repeats, is evicted, expires, overflows or fails, and whichever   *)
(* of the two flushing threads takes it, every record emitted is in exactly   *)
(* one place (RemoteLogHandler.emit, _flush and _append_duplicate_summary).   *)
THEOREM RecordsAccounted == RemoteLogSpec => [](RemoteLogTypeOK /\ EveryRecordAccounted)
  <1>1. EveryRecordAccounted <=> Places
    BY AccountedIsPlaces
  <1> QED BY <1>1, LogStarts, LogStep, PTL DEF RemoteLogSpec

------------------------------------------------------------------------------
(* The shapes of the watchdog's state.                                        *)
WatchdogInv == MetricsInv /\ WatchdogTypeOK

(* Of interfaces there is one with the lowest metric.                         *)
LEMMA LowestIsMember ==
  ASSUME MetricsInv, NEW s \in SUBSET Interfaces, s # {}
  PROVE  LowestMetric(s) \in s
  <1> DEFINE M == {metric[i] : i \in s}
  <1>1. M \in SUBSET Nat /\ M # {}
    BY DEF MetricsInv, Known
  <1>2. PICK x \in M : \A y \in M : ~(<<y, x>> \in OpToRel(<, Nat))
    BY <1>1, WFMin, NatLessThanWellFounded, Zenon
  <1>3. \A y \in M : <<y, x>> \in Nat \X Nat /\ ~(y < x)
    BY <1>1, <1>2 DEF OpToRel
  <1>4. ASSUME NEW y \in M PROVE x <= y
    <2>1. x \in Nat /\ y \in Nat /\ ~(y < x)
      BY <1>1, <1>3
    <2> QED BY <2>1
  <1>5. PICK i \in s : metric[i] = x
    OBVIOUS
  <1>6. \E k \in s : \A j \in s : metric[k] <= metric[j]
    BY <1>4, <1>5
  <1> QED BY <1>6 DEF LowestMetric

(* The watchdog starts with the operator's metrics and no active interface.   *)
LEMMA WatchdogStarts == WatchdogInit => WatchdogInv
  <1> SUFFICES ASSUME WatchdogInit PROVE WatchdogInv
    OBVIOUS
  <1>1. DOMAIN <<>> = {} OBVIOUS
  <1> QED BY <1>1, WatchdogAssumption
          DEF WatchdogInit, WatchdogInv, MetricsInv, Known, WatchdogTypeOK

(* The active interface is one of the uplinks, and the streak ends at three.  *)
LEMMA WatchdogStep == WatchdogInv /\ [WatchdogNext]_watchdogVars => WatchdogInv'
  <1> SUFFICES ASSUME WatchdogInv, [WatchdogNext]_watchdogVars PROVE WatchdogInv'
    OBVIOUS
  <1>1. MetricsInv /\ MetricsInv'
    BY MetricsStep DEF WatchdogInv
  <1>2. metric' \in [Interfaces -> Nat] /\ DOMAIN remembered' \subseteq Interfaces
    BY <1>1 DEF MetricsInv, Known
  <1>3. active \in Interfaces \cup {NoInterface} /\ streak \in 0 .. 3
    BY DEF WatchdogInv, WatchdogTypeOK
  <1>4. ASSUME active' \in Interfaces \cup {NoInterface}, streak' \in 0 .. 3 PROVE WatchdogInv'
    BY <1>1, <1>2, <1>4 DEF WatchdogInv, WatchdogTypeOK
  <1>5. CASE Check
    <2>1. PICK routes \in SUBSET Interfaces : \E healthy \in SUBSET Uplinks(routes) :
             CheckNetwork(routes, healthy)
      BY <1>5 DEF Check
    <2>2. PICK healthy \in SUBSET Uplinks(routes) : CheckNetwork(routes, healthy)
      BY <2>1
    <2> DEFINE uplinks == Uplinks(routes)
               present == IF active = NoInterface THEN LowestMetric(uplinks) ELSE active
               next == Candidate(present, healthy)
    <2>3. uplinks \in SUBSET Interfaces /\ healthy \in SUBSET Interfaces
      BY DEF Uplinks
    <2>4. present \in Interfaces \cup {NoInterface}
      BY <1>1, <1>3, <2>3, LowestIsMember DEF LowestMetric
    <2>5. Best(healthy) \in Interfaces \cup {NoInterface}
      BY <2>3, BestIsMember DEF Best
    <2>6. next \in Interfaces \cup {NoInterface}
      BY <2>4, <2>5 DEF Candidate
    <2>7. /\ \E sel \in Selections(present, next, uplinks) : active' = sel.active
          /\ streak' = Min({3, Streak(present, healthy)})
      BY <2>2 DEF CheckNetwork
    <2> HIDE DEF uplinks, present, next
    <2>8. \A sel \in Selections(present, next, uplinks) : sel.active \in {next, present, active}
      BY DEF Selections
    <2>9. active' \in Interfaces \cup {NoInterface}
      BY <1>3, <2>4, <2>6, <2>7, <2>8
    <2>10. Streak(present, healthy) \in 0 .. 4
      BY <1>3 DEF Streak
    <2>11. Min({3, Streak(present, healthy)}) \in 0 .. 3
      <3> DEFINE k == Streak(present, healthy)
      <3> HIDE DEF k
      <3>1. k \in 0 .. 4
        BY <2>10 DEF k
      <3>2. \E x \in {3, k} : \A y \in {3, k} : x <= y
        BY <3>1
      <3>3. Min({3, k}) \in {3, k} /\ Min({3, k}) <= 3
        BY <3>2 DEF Min
      <3>4. Min({3, k}) \in 0 .. 3
        BY <3>1, <3>3
      <3> QED BY <3>4 DEF k
    <2> QED BY <1>4, <2>7, <2>9, <2>11
  <1>6. CASE StopWatchdog \/ RestoreMetrics
    BY <1>3, <1>4, <1>6 DEF StopWatchdog, RestoreMetrics
  <1>7. CASE WatchdogRestart
    <2>1. active' = NoInterface /\ streak' = 0
      BY <1>7 DEF WatchdogRestart
    <2> QED BY <1>4, <2>1
  <1>8. CASE UNCHANGED watchdogVars
    BY <1>3, <1>4, <1>8 DEF watchdogVars
  <1> QED BY <1>5, <1>6, <1>7, <1>8 DEF WatchdogNext

------------------------------------------------------------------------------
(* The shapes of the readiness of the gateway.                                *)
LEMMA ReadinessStarts == ReadinessInit => ReadinessTypeOK
  BY ReadinessAssumption DEF ReadinessInit, ReadinessTypeOK, Never, Links, StaleAfter

(* Ages stop one past their limit.                                            *)
LEMMA ReadinessStep == ReadinessTypeOK /\ [ReadinessNext]_readinessVars => ReadinessTypeOK'
  <1> SUFFICES ASSUME ReadinessTypeOK, [ReadinessNext]_readinessVars PROVE ReadinessTypeOK'
    OBVIOUS
  <1>1. /\ HeartbeatInterval \in Nat /\ WatchdogPeriod \in Nat /\ StaleAfter \in Nat
        /\ HeartbeatInterval > 0 /\ WatchdogPeriod > 0 /\ Never = -1
    BY ReadinessAssumption DEF Never, StaleAfter
  <1>2. /\ link \in Links /\ phase \in {"starting", "ready", "stopping", "exited"}
        /\ age \in Never .. StaleAfter + 1 /\ beat \in Never .. HeartbeatInterval
        /\ fed \in 0 .. WatchdogPeriod
    BY DEF ReadinessTypeOK
  <1>3. Never \in Never .. HeartbeatInterval /\ 0 \in Never .. HeartbeatInterval
        /\ 0 \in Never .. StaleAfter + 1 /\ 0 \in 0 .. WatchdogPeriod
    BY <1>1
  <1>4. CASE StartAttributes
    BY <1>2, <1>3, <1>4 DEF StartAttributes, Published, ReadinessTypeOK
  <1>5. CASE NotifyReady
    BY <1>2, <1>3, <1>5 DEF NotifyReady, ReadinessTypeOK
  <1>6. CASE Heartbeat
    BY <1>2, <1>3, <1>6 DEF Heartbeat, Published, ReadinessTypeOK
  <1>7. CASE MainRound
    <2>1. age' = Older(age, StaleAfter) /\ beat' = Older(beat, HeartbeatInterval)
          /\ beat < HeartbeatInterval
      BY <1>7 DEF MainRound
    <2>2. age' \in Never .. StaleAfter + 1
      BY <1>1, <1>2, <2>1 DEF Older
    <2>3. beat' \in Never .. HeartbeatInterval
      BY <1>1, <1>2, <2>1 DEF Older
    <2>4. fed' \in 0 .. WatchdogPeriod
      <3>1. fed' \in {0, fed} \/ (fed' = fed + 1 /\ ~(fed >= WatchdogPeriod))
        BY <1>7 DEF MainRound
      <3> QED BY <1>1, <1>2, <3>1
    <2>5. phase' \in {phase, "stopping"} /\ link' = link
      BY <1>7 DEF MainRound
    <2> QED BY <1>2, <2>2, <2>3, <2>4, <2>5 DEF ReadinessTypeOK
  <1>8. CASE StopAttributes
    BY <1>2, <1>3, <1>8 DEF StopAttributes, Published, ReadinessTypeOK
  <1>9. CASE ProcessExit \/ StopRequested \/ LinkChanges \/ HealthCheck
    BY <1>2, <1>9 DEF ProcessExit, StopRequested, LinkChanges, HealthCheck, ReadinessTypeOK
  <1>10. CASE OtherReport
    BY <1>2, <1>3, <1>10 DEF OtherReport, Published, ReadinessTypeOK
  <1>11. CASE UNCHANGED readinessVars
    BY <1>2, <1>11 DEF readinessVars, ReadinessTypeOK
  <1> QED BY <1>4, <1>5, <1>6, <1>7, <1>8, <1>9, <1>10, <1>11 DEF ReadinessNext, ProcessSteps

------------------------------------------------------------------------------
(* The shapes of an update.                                                   *)
OtaInv == LinkInv /\ OtaTypeOK

(* No update is at work.                                                      *)
LEMMA OtaStarts == OtaInit => OtaInv
  <1>1. OtaInit => LinkInv
    BY LinkInit
  <1>2. OtaInit => OtaTypeOK
    BY OtaAssumption DEF OtaInit, OtaTypeOK, NoUpdate, NoScript, AllReleases, Statuses
  <1> QED BY <1>1, <1>2 DEF OtaInv

(* Commands, scripts and the service name only releases there are.            *)
LEMMA OtaStep == OtaInv /\ [OtaNext]_otaVars => OtaInv'
  <1> SUFFICES ASSUME OtaInv, [OtaNext]_otaVars PROVE OtaInv'
    OBVIOUS
  <1> DEFINE Commands == [pc : {"idle", "manifest", "download", "check", "launch"},
                          version : AllReleases]
             Artifacts == [Versions -> {"absent", "genuine", "corrupt"}]
             Rest == /\ update \in Commands /\ artifact \in Artifacts
                     /\ service \in AllReleases \cup {"down"}
                     /\ otaStatus \in Statuses /\ statusFile \in Statuses
                     /\ updatesLeft \in 0 .. MaxUpdates /\ powerLeft \in 0 .. PowerCuts
  <1>1. LinkInv /\ LinkInv'
    BY LinkStep DEF OtaInv
  <1>2. Rest
    BY DEF OtaInv, OtaTypeOK
  <1>3. Rest' => OtaInv'
    BY <1>1 DEF OtaInv, OtaTypeOK, LinkInv, ScriptType, ReleaseType
  <1>4. NoUpdate \in Commands /\ {"failed", "success", "rolled_back", "verified", "restarting",
        "downloading"} \subseteq Statuses
    BY DEF NoUpdate, AllReleases, Statuses
  <1>5. current \in AllReleases /\ current' \in AllReleases
    BY <1>1 DEF LinkInv
  <1>6. MaxUpdates \in Nat /\ PowerCuts \in Nat
    BY OtaAssumption
  <1>7. \A pc \in {"idle", "manifest", "download", "check", "launch"} :
           [update EXCEPT !.pc = pc] \in Commands
    BY <1>2
  <1> SUFFICES Rest'
    BY <1>3
  <1> USE <1>2, <1>4
  <1>8. ASSUME NEW v \in Versions, ReceiveUpdate(v) PROVE Rest'
    BY <1>6, <1>8 DEF ReceiveUpdate, AllReleases
  <1>9. ASSUME NEW v \in Versions, Unpack(v) \/ InstallDependencies(v) \/ ValidateCandidate(v)
        PROVE Rest'
    BY <1>9 DEF Unpack, InstallDependencies, ValidateCandidate, ScriptEnds, ScriptDies, Hold
  <1>10. ASSUME NEW v \in Versions, SwapLink(v) PROVE Rest'
    BY <1>10 DEF SwapLink, Hold
  <1>11. ASSUME NEW v \in Versions, RestartService(v) PROVE Rest'
    BY <1>5, <1>11 DEF RestartService
  <1>12. ASSUME NEW v \in Versions, HealthyAfterwards(v) PROVE Rest'
    <2>1. upgrade[v].backup \in AllReleases
      BY <1>1 DEF LinkInv, ScriptType
    <2> QED BY <1>12, <2>1 DEF HealthyAfterwards, ScriptEnds
  <1>13. CASE VerifyManifest
    BY <1>7, <1>13 DEF VerifyManifest, CommandEnds, CommandStep
  <1>14. CASE Download
    <2>1. artifact' \in Artifacts
      BY <1>14 DEF Download
    <2>2. update' \in Commands
      BY <1>7, <1>14 DEF Download, CommandStep
    <2> QED BY <1>14, <2>1, <2>2 DEF Download
  <1>15. CASE CheckArtifact
    <2>1. artifact' \in Artifacts
      BY <1>15 DEF CheckArtifact
    <2>2. update' \in Commands /\ otaStatus' \in Statuses
      BY <1>7, <1>15 DEF CheckArtifact, CommandStep, CommandEnds
    <2> QED BY <1>15, <2>1, <2>2 DEF CheckArtifact
  <1>16. CASE LaunchUpgrade
    BY <1>16 DEF LaunchUpgrade, CommandEnds
  <1>17. CASE ServiceFails \/ SyncStatus
    BY <1>17 DEF ServiceFails, SyncStatus
  <1>18. CASE PowerCut
    <2>1. artifact' \in Artifacts
      BY <1>18 DEF PowerCut
    <2>2. powerLeft' \in 0 .. PowerCuts
      BY <1>6, <1>18 DEF PowerCut
    <2> QED BY <1>5, <1>18, <2>1, <2>2 DEF PowerCut
  <1>19. CASE UNCHANGED otaVars
    BY <1>19 DEF otaVars
  <1> QED
    BY <1>8, <1>9, <1>10, <1>11, <1>12, <1>13, <1>14, <1>15, <1>16, <1>17, <1>18, <1>19
    DEF OtaNext

------------------------------------------------------------------------------
(* The services in one behaviour, as MCServices runs them: the one in focus   *)
(* steps, the others keep their state.                                        *)

Services == {"claim", "rotation", "watchdog", "log", "readiness", "discovery", "ota"}

LogInv == RemoteLogTypeOK /\ Places

(* The invariants of all services.                                            *)
ServicesInv ==
    /\ focus \in Services
    /\ ClaimInv /\ CrossInv /\ RotationInv /\ WatchdogInv /\ LogInv /\ ReadinessTypeOK
    /\ DiscoveryInv /\ OtaInv

(* They hold when the services start.                                         *)
LEMMA ServicesStart == ServicesInit => ServicesInv
  <1> SUFFICES ASSUME ServicesInit PROVE ServicesInv
    OBVIOUS
  <1>1. /\ focus \in Services /\ ClaimInit /\ RotationInit /\ WatchdogInit /\ RemoteLogInit
        /\ ReadinessInit /\ DiscoveryInit /\ OtaInit
    BY DEF ServicesInit, Services
  <1> QED BY <1>1, ClaimInitial, CrossInitial, RotationStarts, WatchdogStarts, LogStarts,
             ReadinessStarts, DiscoveryStarts, OtaStarts DEF ServicesInv, LogInv

(* A step of the sum is a step, or none, of each service.                     *)
LEMMA EachServiceSteps ==
  ASSUME [ServicesNext]_serviceVars
  PROVE  /\ focus' = focus
         /\ [ClaimNext]_claimVars /\ [RotationNext]_rotationVars /\ [WatchdogNext]_watchdogVars
         /\ [RemoteLogNext]_logVars /\ [ReadinessNext]_readinessVars
         /\ [DiscoveryNext]_discoveryVars /\ [OtaNext]_otaVars
  <1>1. CASE ServicesNext
    BY <1>1 DEF ServicesNext
  <1>2. CASE UNCHANGED serviceVars
    BY <1>2 DEF serviceVars
  <1> QED BY <1>1, <1>2

(* Every step keeps them all.                                                 *)
LEMMA ServicesStep == ServicesInv /\ [ServicesNext]_serviceVars => ServicesInv'
  <1> SUFFICES ASSUME ServicesInv, [ServicesNext]_serviceVars PROVE ServicesInv'
    OBVIOUS
  <1>1. /\ focus' = focus
        /\ [ClaimNext]_claimVars /\ [RotationNext]_rotationVars /\ [WatchdogNext]_watchdogVars
        /\ [RemoteLogNext]_logVars /\ [ReadinessNext]_readinessVars
        /\ [DiscoveryNext]_discoveryVars /\ [OtaNext]_otaVars
    BY EachServiceSteps
  <1>2. ClaimInv' /\ CrossInv'
    BY <1>1, ClaimStep, CrossStep DEF ServicesInv
  <1>3. RotationInv' /\ WatchdogInv' /\ LogInv'
    BY <1>1, RotationStep, WatchdogStep, LogStep DEF ServicesInv, LogInv
  <1>4. ReadinessTypeOK' /\ DiscoveryInv' /\ OtaInv'
    BY <1>1, ReadinessStep, DiscoveryStep, OtaStep DEF ServicesInv
  <1> QED BY <1>1, <1>2, <1>3, <1>4 DEF ServicesInv

(* Every service keeps the shapes of its state (the buffers of the remote log *)
(* within maxlen, the duplicate cache within its size, the book of scan       *)
(* reports within its bound, the queues of the publisher within theirs).      *)
THEOREM ServicesKeepTypes == ServicesSpec => []TypesOK
  <1>1. ServicesInv => TypesOK
    <2>1. ClaimInv => ClaimTypeOK
      BY ShapesAreTypes DEF ClaimInv
    <2>2. RotationInv => RotationTypeOK
      BY RotationShaped
    <2>3. DiscoveryInv => DiscoveryTypeOK
      BY DiscoveryShaped
    <2> QED BY <2>1, <2>2, <2>3 DEF ServicesInv, TypesOK, WatchdogInv, LogInv, OtaInv
  <1> QED BY <1>1, ServicesStart, ServicesStep, PTL DEF ServicesSpec

(* What the run of the services checks of each holds of their sum, for every  *)
(* value of the constants: the receipt reset_complete is true, no policy is   *)
(* inherited, samples cross only with stragglers, accepted events survive     *)
(* rotation, one thread writes, metrics can be restored, records are all      *)
(* accounted for, a complete scan covered its targets and the link names a    *)
(* whole release.                                                             *)
ServicesSafe ==
    /\ ResetCompleteMeansEmpty /\ NoInheritedPolicy /\ OnlyStragglersCross
    /\ LostOnlyUnseen /\ OneWriterUntilFull
    /\ MetricsRestorable /\ EveryRecordAccounted /\ CompleteMeansCovered /\ CurrentIsWhole

(* They hold together in every reachable state.                               *)
THEOREM ServicesAreSafe == ServicesSpec => []ServicesSafe
  <1>1. ServicesInv => ServicesSafe
    <2> SUFFICES ASSUME ServicesInv PROVE ServicesSafe
      OBVIOUS
    <2>1. ResetCompleteMeansEmpty /\ NoInheritedPolicy
      BY DEF ServicesInv, ClaimInv, PhaseInv, ReleaseInv, PolicyInv, SiteEmpty,
             ResetCompleteMeansEmpty
    <2>2. OnlyStragglersCross
      BY CrossBounds DEF ServicesInv
    <2>3. LostOnlyUnseen /\ OneWriterUntilFull
      BY DEF ServicesInv, RotationInv, FullInv
    <2>4. MetricsRestorable
      BY DEF ServicesInv, WatchdogInv, MetricsInv, Known, MetricsRestorable
    <2>5. EveryRecordAccounted
      BY AccountedIsPlaces DEF ServicesInv, LogInv
    <2>6. CompleteMeansCovered /\ CurrentIsWhole
      BY DEF ServicesInv, DiscoveryInv, OtaInv, LinkInv
    <2> QED BY <2>1, <2>2, <2>3, <2>4, <2>5, <2>6 DEF ServicesSafe
  <1> QED BY <1>1, ServicesStart, ServicesStep, PTL DEF ServicesSpec
==============================================================================
