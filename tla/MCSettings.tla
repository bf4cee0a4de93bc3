----------------------------- MODULE MCSettings -----------------------------
(* Cameras, recording targets, credentials, accounts, the login limiter,    *)
(* camera groups and the host commands, for TLC.  They share no variable; a *)
(* behaviour consists of the steps of one of them.                          *)
EXTENDS CameraConfig, StorageTargets, CredentialRows, Accounts, LoginLimiter,
        CameraGroups, HostOperations

VARIABLE focus

mcVars == <<configVars, targetVars, credentialVars, accountVars, limiterVars,
            groupVars, hostVars, focus>>

\* Targets are interchangeable: this one is there from the start, and has
\* room.  The other one is full when it is there from the start, and has room
\* or not when it is created later.
FirstDisk == CHOOSE d \in Disk : TRUE

\* Each release brings a migration.
Schemas == <<1, 2>>

SettingsInit ==
  /\ focus \in {"camera", "targets", "credentials", "accounts", "limiter",
                "groups", "host"}
  /\ ConfigInit /\ TargetsInit /\ CredentialsInit
  /\ AccountsInit /\ LimiterInit /\ GroupsInit /\ HostInit
  /\ focus # "camera" => row.kind = "none" /\ dev.hw = 1
  /\ dev.hw = 0 => row.kind = "none"
  /\ FirstDisk \in Candidates(disk) \ full /\ Defaults(disk) \subseteq {FirstDisk}
  /\ Cardinality(Candidates(disk)) = 2 => full # {}
  /\ focus # "targets" => full = {} /\ Defaults(disk) = Candidates(disk)
  /\ focus # "host" => active = "sqlite"

SettingsNext ==
  \/ /\ focus = "camera" /\ ConfigNext
     /\ UNCHANGED <<targetVars, credentialVars, accountVars, limiterVars,
                    groupVars, hostVars, focus>>
  \/ /\ focus = "targets" /\ TargetsNext
     /\ UNCHANGED <<configVars, credentialVars, accountVars, limiterVars,
                    groupVars, hostVars, focus>>
  \/ /\ focus = "credentials" /\ CredentialsNext
     /\ UNCHANGED <<configVars, targetVars, accountVars, limiterVars,
                    groupVars, hostVars, focus>>
  \/ /\ focus = "accounts" /\ AccountsNext
     /\ UNCHANGED <<configVars, targetVars, credentialVars, limiterVars,
                    groupVars, hostVars, focus>>
  \/ /\ focus = "limiter" /\ LimiterNext
     /\ UNCHANGED <<configVars, targetVars, credentialVars, accountVars,
                    groupVars, hostVars, focus>>
  \/ /\ focus = "groups" /\ GroupsNext
     /\ UNCHANGED <<configVars, targetVars, credentialVars, accountVars,
                    limiterVars, hostVars, focus>>
  \/ /\ focus = "host" /\ HostNext
     /\ UNCHANGED <<configVars, targetVars, credentialVars, accountVars,
                    limiterVars, groupVars, focus>>

SettingsSpec == SettingsInit /\ [][SettingsNext]_mcVars
=============================================================================
