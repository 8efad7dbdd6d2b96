------------------------------ MODULE Readiness ------------------------------
(***************************************************************************)
(* Whether the gateway counts as alive: AttributeSyncHandler's heartbeat,  *)
(* which the main loop of NovenaGateway.run() watches before it feeds the  *)
(* systemd watchdog, and the reports of ConnectivityHealthHandler.         *)
(*                                                                         *)
(* A tick is one round of the main loop.  The link is down (the publisher  *)
(* queues), up, silent (connected, but no acknowledgement comes: the wait  *)
(* for it ends after 5 seconds and nothing looks at its result) or         *)
(* refusing (still taken for connected, but the MQTT client rejects the    *)
(* message).  Of the attributes only the status and the health report are  *)
(* kept.                                                                   *)
(***************************************************************************)
EXTENDS Integers

CONSTANTS HeartbeatInterval,  \* ticks between heartbeats
          WatchdogPeriod      \* ticks between two WATCHDOG=1

ASSUME ReadinessAssumption == {HeartbeatInterval, WatchdogPeriod} \subseteq Nat \ {0}

StaleAfter == 2 * HeartbeatInterval + 1    \* the bound in healthy()
Links == {"down", "up", "silent", "refusing"}
Never == -1

VARIABLES
    link,        \* the MQTT connection
    phase,       \* of run(): "starting", "ready", "stopping", "exited"
    age,         \* ticks since _last_publish, or Never
    beat,        \* ticks since the heartbeat thread last woke, or Never: no thread
    fed,         \* ticks since the systemd watchdog was last fed
    health,      \* _last_health
    lastWord     \* the last attributes that left: whose, and the status in them

readinessVars == <<link, phase, age, beat, fed, health, lastWord>>

UnknownHealth == [checked |-> FALSE, reachable |-> FALSE, mqtt |-> FALSE]

ReadinessInit ==
    /\ link \in Links /\ phase = "starting" /\ age = Never /\ beat = Never /\ fed = 0
    /\ health = UnknownHealth /\ lastWord = [by |-> "nobody", status |-> "offline"]

----------------------------------------------------------------------------
\* _publish_attributes: publish_now when connected and to be verified, which
\* fails when the client rejects the message; queued otherwise
Rejected(verify) == verify /\ link = "refusing"

Published(by, status) ==
    /\ age' = 0
    /\ lastWord' = [by |-> by, status |-> status]

\* AttributeSyncHandler.start: without the first report the start fails
StartAttributes ==
    /\ phase = "starting" /\ beat = Never
    /\ \/ ~Rejected(TRUE) /\ Published("start", "online") /\ beat' = 0 /\ UNCHANGED phase
       \/ Rejected(TRUE) /\ phase' = "exited" /\ UNCHANGED <<age, beat, lastWord>>
    /\ UNCHANGED <<link, fed, health>>

\* mutant: any heartbeat thread will do
HealthyThread == beat # Never

Healthy == beat # Never /\ age # Never /\ age <= StaleAfter

\* the end of run()'s preparations
NotifyReady ==
    /\ phase = "starting" /\ beat # Never
    /\ phase' = IF Healthy THEN "ready" ELSE "exited"
    /\ fed' = 0 /\ UNCHANGED <<link, age, beat, health, lastWord>>

Heartbeat ==
    /\ phase = "ready" /\ beat >= HeartbeatInterval /\ beat' = 0
    /\ \/ ~Rejected(TRUE) /\ Published("heartbeat", "online")
       \/ Rejected(TRUE) /\ UNCHANGED <<age, lastWord>>     \* logged
    /\ UNCHANGED <<link, phase, fed, health>>

\* an attribute push of the Hub, or a change the network watchdog reports:
\* not verified, in whatever phase the subscription still exists
OtherReport ==
    /\ phase \in {"ready", "stopping"} /\ link # "down"
    /\ Published("other", "online")
    /\ UNCHANGED <<link, phase, beat, fed, health>>

\* run_check and _publish_health, with what the probes found
HealthCheck ==
    /\ phase = "ready"
    /\ \E route, dns, tcp \in BOOLEAN :
          health' = [checked |-> TRUE, mqtt |-> link # "down",
                     reachable |-> route /\ ((dns /\ tcp) \/ link # "down")]
    /\ UNCHANGED <<link, phase, age, beat, fed, lastWord>>

Older(n, limit) == IF n = Never \/ n > limit THEN n ELSE n + 1

\* one round of the main loop
MainRound ==
    /\ phase = "ready" /\ beat < HeartbeatInterval
    /\ age' = Older(age, StaleAfter) /\ beat' = Older(beat, HeartbeatInterval)
    /\ IF Healthy THEN /\ fed' = IF fed >= WatchdogPeriod THEN 0 ELSE fed + 1
                       /\ UNCHANGED phase
                  ELSE phase' = "stopping" /\ UNCHANGED fed
    /\ UNCHANGED <<link, health, lastWord>>

\* a signal, or the heartbeat found missing: stop() reports offline
StopRequested ==
    /\ phase = "ready" /\ phase' = "stopping"
    /\ UNCHANGED <<link, age, beat, fed, health, lastWord>>

StopAttributes ==
    /\ phase = "stopping" /\ beat # Never
    /\ beat' = Never /\ Published("stop", "offline")
    /\ UNCHANGED <<link, phase, fed, health>>

ProcessExit ==
    /\ phase = "stopping" /\ beat = Never /\ phase' = "exited"
    /\ UNCHANGED <<link, age, beat, fed, health, lastWord>>

LinkChanges == link' \in Links \ {link} /\ UNCHANGED <<phase, age, beat, fed, health, lastWord>>

ProcessSteps == StartAttributes \/ NotifyReady \/ Heartbeat \/ MainRound \/ StopAttributes \/ ProcessExit

ReadinessNext == ProcessSteps \/ OtherReport \/ HealthCheck \/ StopRequested \/ LinkChanges

ReadinessSpec == ReadinessInit /\ [][ReadinessNext]_readinessVars

\* the main loop and the heartbeat thread are scheduled
ReadinessFairness == WF_readinessVars(ProcessSteps)
----------------------------------------------------------------------------
(* Properties.                                                             *)

\* The shapes of the state.
ReadinessTypeOK ==
    /\ link \in Links /\ phase \in {"starting", "ready", "stopping", "exited"}
    /\ age \in Never .. StaleAfter + 1 /\ beat \in Never .. HeartbeatInterval
    /\ fed \in 0 .. WatchdogPeriod

\* A gateway whose MQTT client rejects every heartbeat does not stay "ready"
\* for ever, fed to the systemd watchdog: it ends and is restarted.  The only thing that keeps it alive is an unverified report
\* (attribute push, network watchdog) that refreshes _last_publish again
\* and again.
StallIsNoticed ==
    <>[](link = "refusing" /\ phase = "ready") => []<>(age = 0 /\ lastWord.by = "other")
=============================================================================
