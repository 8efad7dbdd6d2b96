--------------------------- MODULE NetworkWatchdog ---------------------------
(***************************************************************************)
(* NetworkWatchdogHandler: every few seconds it looks at the uplinks and,  *)
(* when the active one is not healthy any more (or a better one has been   *)
(* for three checks), lowers the route metric of another so that the       *)
(* kernel prefers it.  The metric an operator configured is remembered and *)
(* written back when the interface is no longer the active one, and when   *)
(* the gateway stops.                                                      *)
(*                                                                         *)
(* Pings, link states, default routes and the privileged helper are        *)
(* external: any outcome.  A NetworkManager profile that has changed or    *)
(* cannot be read counts as a helper that fails.                           *)
(***************************************************************************)
EXTENDS Integers, Sequences, FiniteSets, FiniteSetsExt

CONSTANTS Preference,      \* the interfaces, the preferred one first
          FieldInterfaces, \* those whose configured role is "field"
          Metrics,         \* the operator's metric of each interface
          HelperFaults     \* how often a metric change or a stop goes wrong

Interfaces == {Preference[i] : i \in DOMAIN Preference}

ASSUME WatchdogAssumption ==
    /\ Preference \in Seq(STRING) /\ FieldInterfaces \subseteq Interfaces /\ HelperFaults \in Nat
    /\ Metrics \in [Interfaces -> Nat]

NoInterface == "none"

VARIABLES
    metric,      \* the route metrics in force
    active,      \* active_interface
    remembered,  \* _original_metrics
    streak,      \* _consecutive_preferred_successes
    watchdog,    \* "running", "restoring" or "stopped"
    helperLeft,  \* faults that may still happen
    orphaned     \* history: interfaces with a changed metric when a process died

watchdogVars == <<metric, active, remembered, streak, watchdog, helperLeft, orphaned>>

WatchdogInit ==
    /\ metric = Metrics /\ active = NoInterface /\ remembered = <<>>
    /\ streak = 0 /\ watchdog = "running" /\ helperLeft = HelperFaults /\ orphaned = {}

----------------------------------------------------------------------------
Uplinks(routes) == routes \ FieldInterfaces

\* the first of a set of interfaces in the order of preference
Best(s) == IF s = {} THEN NoInterface
           ELSE Preference[Min({i \in DOMAIN Preference : Preference[i] \in s})]

\* the interface whose default route the kernel uses
LowestMetric(s) == IF s = {} THEN NoInterface
                   ELSE CHOOSE i \in s : \A j \in s : metric[i] <= metric[j]

Streak(current, healthy) ==
    IF current \in healthy /\ Best(healthy) # current THEN streak + 1 ELSE 0

Candidate(current, healthy) ==
    IF current \notin healthy \/ Streak(current, healthy) >= 3 THEN Best(healthy) ELSE current

\* mutant: the metric read now is taken for the operator's
RememberLatest(i) == [j \in DOMAIN remembered \cup {i} |-> IF j = i THEN metric[i] ELSE remembered[j]]

\* _original_metrics.setdefault
Remember(i) == [j \in DOMAIN remembered \cup {i} |->
                   IF j \in DOMAIN remembered THEN remembered[j] ELSE metric[i]]

\* metrics to write back: uplinks that are remembered and not selected; the
\* helper may fail for some of them
Restorable(uplinks, selected) == (DOMAIN remembered \cap uplinks) \ {selected}

\* the end of _check_network: those in `back` are written back
Restore(back, m, r) ==
    /\ metric' = [i \in Interfaces |-> IF i \in back THEN r[i] ELSE m[i]]
    /\ remembered' = [j \in DOMAIN r \ back |-> r[j]]

\* the interface that is to be active, what the helper may then have done,
\* and how many of its calls failed
Selections(current, next, uplinks) ==
    LET others == {metric[i] : i \in uplinks \ {next}}
        keep == IF active = NoInterface THEN current ELSE active
        unchanged(i, n) == [active |-> i, metric |-> metric, remembered |-> remembered, failed |-> n]
    IN  IF next \in {NoInterface, current} \/ others = {} \/ metric[next] < Min(others)
        THEN {unchanged(next, 0)}
        ELSE IF Min(others) = 0 THEN {unchanged(keep, 0)}
        ELSE {[active |-> next, metric |-> [metric EXCEPT ![next] = Min(others) - 1],
               remembered |-> Remember(next), failed |-> 0],
              unchanged(keep, 1)}

\* _check_network with the default routes and the healthy uplinks it found
CheckNetwork(routes, healthy) ==
    LET uplinks == Uplinks(routes)
        current == IF active = NoInterface THEN LowestMetric(uplinks) ELSE active
    IN  /\ watchdog = "running"
        /\ streak' = Min({3, Streak(current, healthy)})
        /\ \E sel \in Selections(current, Candidate(current, healthy), uplinks) :
           \E back \in SUBSET Restorable(uplinks, sel.active) :
              /\ active' = sel.active
              /\ Restore(back, sel.metric, sel.remembered)
              /\ helperLeft' = helperLeft - sel.failed - Cardinality(Restorable(uplinks, sel.active) \ back)
        /\ helperLeft' >= 0
        /\ UNCHANGED <<watchdog, orphaned>>

Check == \E routes \in SUBSET Interfaces : \E healthy \in SUBSET Uplinks(routes) :
            CheckNetwork(routes, healthy)

\* stop(): _restore_metrics once the thread has ended; if it does not end
\* within 30 seconds the metrics are left to it
StopWatchdog ==
    /\ watchdog = "running"
    /\ \/ watchdog' = "restoring" /\ UNCHANGED helperLeft
       \/ watchdog' = "stopped" /\ helperLeft > 0 /\ helperLeft' = helperLeft - 1
    /\ UNCHANGED <<metric, active, remembered, streak, orphaned>>

RestoreMetrics ==
    /\ watchdog = "restoring" /\ watchdog' = "stopped"
    /\ \E back \in SUBSET DOMAIN remembered :
          /\ Restore(back, metric, remembered)
          /\ helperLeft' = helperLeft - Cardinality(DOMAIN remembered \ back)
          /\ helperLeft' >= 0
    /\ UNCHANGED <<active, streak, orphaned>>

\* a new process starts, after a stop or after a crash
WatchdogRestart ==
    /\ helperLeft > 0 /\ helperLeft' = helperLeft - 1
    /\ orphaned' = orphaned \cup DOMAIN remembered
    /\ watchdog' = "running" /\ active' = NoInterface /\ remembered' = <<>> /\ streak' = 0
    /\ UNCHANGED metric

WatchdogNext == Check \/ StopWatchdog \/ RestoreMetrics \/ WatchdogRestart

WatchdogSpec == WatchdogInit /\ [][WatchdogNext]_watchdogVars
----------------------------------------------------------------------------
(* Properties.                                                             *)

\* The shapes of the state.
WatchdogTypeOK ==
    /\ metric \in [Interfaces -> Nat] /\ active \in Interfaces \cup {NoInterface}
    /\ DOMAIN remembered \subseteq Interfaces /\ streak \in 0 .. 3

\* Whatever failovers, refused metric changes and failed restorations came
\* before, a metric that is not the operator's can still be written back (it
\* is remembered, with the operator's value), unless the process that knew
\* it has died; and the metric of a field interface is never touched.
MetricsRestorable ==
    \A i \in Interfaces : metric[i] # Metrics[i] =>
        /\ i \notin FieldInterfaces
        /\ i \in orphaned \/ (i \in DOMAIN remembered /\ remembered[i] = Metrics[i])
=============================================================================
