----------------------------- MODULE OtaUpgrade -----------------------------
(* Over-the-air updates: the RPC update_firmware (gateway/rpc_handler.py with  *)
(* gateway/ota_security.py) checks a signed manifest, downloads the artifact   *)
(* and asks the privileged helper to start install/upgrade.sh, which installs  *)
(* the release beside the running one and swaps the `current' link.  The       *)
(* script outlives the command, the service it restarts and, half done, a      *)
(* power cut.                                                                  *)
EXTENDS Naturals, FiniteSets

CONSTANTS Versions,   \* releases offered by OTA
          Factory,    \* the installed release
          MaxUpdates, \* update_firmware commands, at most (a bound)
          PowerCuts   \* power cuts, at most (a bound)

ASSUME OtaAssumption ==
    MaxUpdates \in Nat /\ PowerCuts \in Nat /\ Factory \notin Versions

VARIABLES update,     \* the command: [pc, version, genuine]
          artifact,   \* firmware_<version>.tar.gz in the update directory
          upgrade,    \* upgrade.sh, one process per version: [pc, backup]
          release,    \* what releases/novena-gateway-<version> holds
          current,    \* the release the link `current' names
          service,    \* the release the service process runs, or "down"
          otaStatus,  \* the OTA status the Hub heard last
          statusFile, \* ota_status.json
          updatesLeft, powerLeft

otaVars == <<update, artifact, upgrade, release, current, service, otaStatus, statusFile,
             updatesLeft, powerLeft>>

AllReleases == Versions \cup {Factory}
NoUpdate == [pc |-> "idle", version |-> Factory]
NoScript == [pc |-> "idle", backup |-> Factory]
Statuses == {"none", "downloading", "verified", "restarting", "failed",
             "success", "rolled_back"}

OtaTypeOK ==
    /\ update \in [pc : {"idle", "manifest", "download", "check", "launch"}, version : AllReleases]
    /\ artifact \in [Versions -> {"absent", "genuine", "corrupt"}]
    /\ upgrade \in [Versions -> [pc : {"idle", "extract", "install", "validate", "swap", "restart",
                                       "health"}, backup : AllReleases]]
    /\ release \in [AllReleases -> {"absent", "unpacked", "installed", "valid", "broken"}]
    /\ current \in AllReleases /\ service \in AllReleases \cup {"down"}
    /\ otaStatus \in Statuses /\ statusFile \in Statuses
    /\ updatesLeft \in 0 .. MaxUpdates /\ powerLeft \in 0 .. PowerCuts

OtaInit ==
    /\ update = NoUpdate
    /\ upgrade = [v \in Versions |-> NoScript]
    /\ artifact = [v \in Versions |-> "absent"]
    /\ release = [v \in AllReleases |-> IF v = Factory THEN "valid" ELSE "absent"]
    /\ current = Factory /\ service = Factory
    /\ otaStatus = "none" /\ statusFile = "none"
    /\ updatesLeft = MaxUpdates /\ powerLeft = PowerCuts

----------------------------------------------------------------------------
(* update_firmware.  The device lock of the command's target admits one        *)
(* command at a time; the service must run.                                    *)

CommandStep(pc) == update' = [update EXCEPT !.pc = pc]
CommandEnds(status) == update' = NoUpdate /\ otaStatus' = status

ReceiveUpdate(v) ==
    /\ update.pc = "idle" /\ service # "down" /\ updatesLeft > 0
    /\ updatesLeft' = updatesLeft - 1
    /\ update' = [pc |-> "manifest", version |-> v]
    /\ UNCHANGED <<artifact, upgrade, release, current, service, otaStatus, statusFile, powerLeft>>

(* verify_manifest: key id, signature, version, url, size, channel, validity   *)
(* window and compatibility; the first that fails ends the command.            *)
VerifyManifest ==
    /\ update.pc = "manifest"
    /\ \/ CommandEnds("failed")
       \/ CommandStep("download") /\ otaStatus' = "downloading"
    /\ UNCHANGED <<artifact, upgrade, release, current, service, statusFile, updatesLeft, powerLeft>>

(* The artifact is written as it arrives; a failed download raises, leaves the *)
(* file as it is and publishes no OTA status.                                  *)
Download ==
    /\ update.pc = "download"
    /\ \/ \E content \in {"genuine", "corrupt"} :
            artifact' = [artifact EXCEPT ![update.version] = content] /\ CommandStep("check")
       \/ artifact' = [artifact EXCEPT ![update.version] = "corrupt"] /\ update' = NoUpdate
    /\ UNCHANGED <<upgrade, release, current, service, otaStatus, statusFile, updatesLeft, powerLeft>>

CheckSizeOnly ==
    /\ update.pc = "check"
    /\ CommandStep("launch") /\ otaStatus' = "verified"
    /\ UNCHANGED <<artifact, upgrade, release, current, service, statusFile, updatesLeft, powerLeft>>

(* Size, checksum and archive members: anything wrong removes the file.        *)
CheckArtifact ==
    /\ update.pc = "check"
    /\ IF artifact[update.version] = "genuine"
       THEN CommandStep("launch") /\ otaStatus' = "verified" /\ UNCHANGED artifact
       ELSE CommandEnds("failed") /\ artifact' = [artifact EXCEPT ![update.version] = "absent"]
    /\ UNCHANGED <<upgrade, release, current, service, statusFile, updatesLeft, powerLeft>>

(* "restarting" is published, then the helper starts the script in the         *)
(* background or is not available.  Nothing waits for an earlier script; a     *)
(* second one for the same version dies on the first one's files.              *)
LaunchUpgrade ==
    /\ update.pc = "launch"
    /\ \/ /\ upgrade' = IF upgrade[update.version].pc # "idle" THEN upgrade
                        ELSE [upgrade EXCEPT ![update.version] =
                                  [pc |-> "extract", backup |-> current]]
          /\ CommandEnds("restarting")
       \/ CommandEnds("failed") /\ UNCHANGED upgrade
    /\ UNCHANGED <<artifact, release, current, service, statusFile, updatesLeft, powerLeft>>

----------------------------------------------------------------------------
(* upgrade.sh, under set -e: a command that fails ends the script there.       *)

ScriptStep(v, pc) == upgrade' = [upgrade EXCEPT ![v].pc = pc]
ScriptEnds(v, status) == upgrade' = [upgrade EXCEPT ![v] = NoScript] /\ statusFile' = status
ScriptDies(v) == upgrade' = [upgrade EXCEPT ![v] = NoScript] /\ UNCHANGED statusFile
Hold == UNCHANGED <<update, otaStatus, updatesLeft, powerLeft>>

(* An existing release directory refuses the version; else the archive is      *)
(* checked again, unpacked in a staging directory and moved into place.        *)
Unpack(v) ==
    /\ upgrade[v].pc = "extract"
    /\ \/ /\ release[v] # "absent"
          /\ ScriptEnds(v, "failed") /\ UNCHANGED release
       \/ /\ release[v] = "absent" /\ artifact[v] = "genuine"
          /\ release' = [release EXCEPT ![v] = "unpacked"]
          /\ ScriptStep(v, "install") /\ UNCHANGED statusFile
       \/ /\ release[v] = "absent" /\ artifact[v] = "genuine"
          /\ ScriptEnds(v, "failed") /\ UNCHANGED release
       \/ /\ release[v] = "absent" /\ artifact[v] # "genuine"
          /\ ScriptDies(v) /\ UNCHANGED release
    /\ UNCHANGED <<artifact, current, service>> /\ Hold

(* pip into the release's own vendor directory, or the script dies and leaves  *)
(* the half-installed directory behind.                                        *)
InstallDependencies(v) ==
    /\ upgrade[v].pc = "install"
    /\ \/ /\ release' = [release EXCEPT ![v] = "installed"]
          /\ ScriptStep(v, "validate") /\ UNCHANGED statusFile
       \/ ScriptDies(v) /\ UNCHANGED release
    /\ UNCHANGED <<artifact, current, service>> /\ Hold

ValidateAfterwards(v) ==
    /\ upgrade[v].pc = "validate"
    /\ ScriptStep(v, "swap") /\ UNCHANGED <<statusFile, release>>
    /\ UNCHANGED <<artifact, current, service>> /\ Hold

(* --validate-only against the production configuration.  A candidate that     *)
(* validates may still fail to run ("broken").                                 *)
ValidateCandidate(v) ==
    /\ upgrade[v].pc = "validate"
    /\ \/ \E outcome \in {"valid", "broken"} :
            /\ release' = [release EXCEPT ![v] = outcome]
            /\ ScriptStep(v, "swap") /\ UNCHANGED statusFile
       \/ ScriptEnds(v, "failed") /\ UNCHANGED release
    /\ UNCHANGED <<artifact, current, service>> /\ Hold

SwapLink(v) ==
    /\ upgrade[v].pc = "swap"
    /\ current' = v
    /\ ScriptStep(v, "restart")
    /\ UNCHANGED <<artifact, release, service, statusFile>> /\ Hold

(* systemctl restart: the old process ends with its commands.  A release that  *)
(* does not come up makes systemctl fail, and set -e ends the script with the  *)
(* link swapped.  The script was started from the service and may be stopped   *)
(* with it (systemd's default KillMode), the others likewise.                  *)
RestartService(v) ==
    /\ upgrade[v].pc = "restart"
    /\ update' = NoUpdate
    /\ \/ service' = current /\ ScriptStep(v, "health")
       \/ service' = current /\ upgrade' = [w \in Versions |-> NoScript]
       \/ release[current] = "broken" /\ service' = "down" /\ upgrade' = [upgrade EXCEPT ![v] = NoScript]
    /\ UNCHANGED <<artifact, release, current, statusFile, otaStatus, updatesLeft, powerLeft>>

(* is-active after 8 seconds: success, or the link goes back to the release    *)
(* it named when the script began and the service is restarted.                *)
HealthyAfterwards(v) ==
    LET active == service # "down" /\ release[service] # "broken"
    IN  /\ upgrade[v].pc = "health"
        /\ IF active
           THEN ScriptEnds(v, "success") /\ UNCHANGED <<current, service, update>>
           ELSE /\ current' = upgrade[v].backup /\ service' = upgrade[v].backup
                /\ update' = NoUpdate
                /\ ScriptEnds(v, "rolled_back")
        /\ UNCHANGED <<artifact, release, otaStatus, updatesLeft, powerLeft>>

(* A service that came up and died again; systemd keeps restarting it.         *)
ServiceFails ==
    /\ service # "down" /\ release[service] = "broken"
    /\ service' = "down" /\ update' = NoUpdate
    /\ UNCHANGED <<artifact, upgrade, release, current, otaStatus, statusFile, updatesLeft, powerLeft>>

----------------------------------------------------------------------------
(* AttributeSync publishes the status file with the other attributes.          *)
SyncStatus ==
    /\ service # "down" /\ statusFile # "none" /\ otaStatus # statusFile
    /\ otaStatus' = statusFile
    /\ UNCHANGED <<update, artifact, upgrade, release, current, service, statusFile,
                   updatesLeft, powerLeft>>

(* A power cut ends command and script wherever they are; a download in        *)
(* flight leaves a torn file; at boot systemd starts what the link names.      *)
PowerCut ==
    /\ powerLeft > 0
    /\ powerLeft' = powerLeft - 1
    /\ update' = NoUpdate /\ upgrade' = [v \in Versions |-> NoScript]
    /\ artifact' = IF update.pc = "check" THEN [artifact EXCEPT ![update.version] = "corrupt"]
                   ELSE artifact
    /\ service' = IF release[current] = "broken" THEN "down" ELSE current
    /\ UNCHANGED <<release, current, otaStatus, statusFile, updatesLeft>>

OtaNext ==
    \/ \E v \in Versions :
           \/ ReceiveUpdate(v) \/ Unpack(v) \/ InstallDependencies(v) \/ ValidateCandidate(v)
           \/ SwapLink(v) \/ RestartService(v) \/ HealthyAfterwards(v)
    \/ VerifyManifest \/ Download \/ CheckArtifact \/ LaunchUpgrade
    \/ ServiceFails \/ SyncStatus \/ PowerCut

OtaSpec == OtaInit /\ [][OtaNext]_otaVars

----------------------------------------------------------------------------
(* Whatever is cut short and however often a version is offered again, the     *)
(* link names a release that was unpacked whole from a checked artifact, had   *)
(* its dependencies installed and passed --validate-only: a directory left     *)
(* behind by a script that died is never entered again (the test for           *)
(* NEW_RELEASE_DIR, set -e and the order of upgrade.sh).                       *)
Whole(v) == release[v] \in {"valid", "broken"}
CurrentIsWhole == Whole(current)
=============================================================================
