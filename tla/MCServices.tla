----------------------------- MODULE MCServices -----------------------------
(***************************************************************************)
(* The services around the command, configuration and telemetry cores, in  *)
(* one run.  They share no state that a property here is about, so a       *)
(* behaviour picks one service and follows it; the run explores the sum    *)
(* of the state spaces and not their product.                              *)
(***************************************************************************)
EXTENDS ClaimLifecycle, SqliteRotation, NetworkWatchdog, RemoteLog, Readiness,
        Discovery, OtaUpgrade

VARIABLE focus \* the service that steps

InterfaceOrder == <<"eth1", "eth0", "wlan0", "wwan0">>
ProfileMetrics == [i \in {"eth0", "eth1", "wlan0", "wwan0"} |->
                      CASE i = "eth1" -> 0 [] i = "eth0" -> 1 [] i = "wlan0" -> 2 [] i = "wwan0" -> 3]

serviceVars == <<claimVars, rotationVars, watchdogVars, logVars, readinessVars,
                 discoveryVars, otaVars, focus>>

ServicesInit ==
    /\ focus \in {"claim", "rotation", "watchdog", "log", "readiness", "discovery", "ota"}
    /\ ClaimInit /\ RotationInit /\ WatchdogInit /\ RemoteLogInit /\ ReadinessInit
    /\ DiscoveryInit /\ OtaInit
    /\ focus # "claim" => hub.claim = None
    /\ focus # "readiness" => link = "up"

ServicesNext ==
    /\ UNCHANGED focus
    /\ \/ focus = "claim" /\ ClaimNext
       \/ focus # "claim" /\ UNCHANGED claimVars
    /\ \/ focus = "rotation" /\ RotationNext
       \/ focus # "rotation" /\ UNCHANGED rotationVars
    /\ \/ focus = "watchdog" /\ WatchdogNext
       \/ focus # "watchdog" /\ UNCHANGED watchdogVars
    /\ \/ focus = "log" /\ RemoteLogNext
       \/ focus # "log" /\ UNCHANGED logVars
    /\ \/ focus = "readiness" /\ ReadinessNext
       \/ focus # "readiness" /\ UNCHANGED readinessVars
    /\ \/ focus = "discovery" /\ DiscoveryNext
       \/ focus # "discovery" /\ UNCHANGED discoveryVars
    /\ \/ focus = "ota" /\ OtaNext
       \/ focus # "ota" /\ UNCHANGED otaVars

\* The fairness of each service, owed only while it is the one that steps.
ServicesFairness ==
    /\ WF_claimVars(focus = "claim" /\ NetworkThread)
    /\ WF_claimVars(focus = "claim" /\ OnDisconnect /\ ~AuthorisedSession)
    /\ WF_rotationVars(focus = "rotation" /\ ReplayThread)
    /\ \A f \in FileId : WF_rotationVars(focus = "rotation" /\ WriterThread(f))
    /\ WF_readinessVars(focus = "readiness" /\ ProcessSteps)
    /\ \A t \in ScanThreads : WF_discoveryVars(focus = "discovery" /\ ScanThread(t))

ServicesSpec == ServicesInit /\ [][ServicesNext]_serviceVars /\ ServicesFairness

\* The shapes of the state, of the service that steps.
TypesOK ==
    /\ focus = "claim" => ClaimTypeOK
    /\ focus = "rotation" => RotationTypeOK
    /\ focus = "watchdog" => WatchdogTypeOK
    /\ focus = "log" => RemoteLogTypeOK
    /\ focus = "readiness" => ReadinessTypeOK
    /\ focus = "discovery" => DiscoveryTypeOK
    /\ focus = "ota" => OtaTypeOK

=============================================================================
