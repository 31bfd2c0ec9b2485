------------------------------- MODULE Admin -------------------------------
(***************************************************************************)
(* The commands that work on files of their own, with no daemon or beside  *)
(* a running one, as programs (see Steps): tokens, profiles, the doctor,   *)
(* pairing on another host, and the service units.                         *)
(***************************************************************************)
EXTENDS Commands

-----------------------------------------------------------------------------
(* wad token: the store the running daemon verifies its requests against *)

openTokenStore == <<Check>> \o Tokens_Open
parseTokenTTL == <<Check>>
runTokenIssue == <<Check>> \o parseTokenTTL \o openTokenStore \o Tokens_Issue
runTokenRevoke == <<Check>> \o openTokenStore \o Tokens_Revoke
runTokenList == <<Check>> \o openTokenStore \o Tokens_List
runTokenSweep == <<Check>> \o parseTokenTTL \o openTokenStore \o Tokens_Sweep
handleTokenCommand == {runTokenIssue, runTokenRevoke, runTokenList, runTokenSweep}

-----------------------------------------------------------------------------
(* wa profile *)

ValidateProfileName == <<Check>>
listProfilesRaw == <<Look>>
enumerateProfiles == <<Look>>
\* A name from the flag, the environment or the active profile must be valid;
\* without one there must not be several profiles.
ResolveProfile == {ValidateProfileName, <<Check>>}
\* root.go: before every command but those of wa profile.
PersistentPreRunE == Prefixed(<<Check>>, ResolveProfile)

\* Whatever it finds is a status.
probeProfile == <<>>
\* An active profile that is not connected is an error.
runProfileList == listProfilesRaw \o probeProfile \o <<Check>>
atomicWriteClient == <<Put("profiles")>>
profileUseCmd == ValidateProfileName \o <<Look, Check>> \o atomicWriteClient
checkCaseInsensitiveCollision == <<Look>>
\* An allowlist that is there is left as it is.
profileCreateCmd ==
    ValidateProfileName \o checkCaseInsensitiveCollision
    \o Fn(<<Put("profiles"), Enough, Put("allowlist")>>)
\* Not the active one, not the only one, no socket of a daemon, and a yes; then
\* three trees one after the other, with no second look at the socket.
profileRmCmd ==
    ValidateProfileName \o <<Check>> \o enumerateProfiles \o <<Check, Check>>
    \o Fn(<<Enough, Put("profiles"), Put("allowlist"), Put("profiles")>>)
profileShowCmd == ValidateProfileName \o probeProfile
profileCommands == {runProfileList, profileUseCmd, profileCreateCmd, profileRmCmd, profileShowCmd}

-----------------------------------------------------------------------------
(* wa doctor: every check runs, one that fails is the answer *)

checkPairing == callLocal("status")
checkSocket == <<Check>>
checkSchemaVersion == <<Check>>
checkAuditLogSize == <<Check>>
checkOtelExporter == <<Check>>
checkMigrationBackups == <<Check>>
\* These two only warn.
checkLockfile == <<>>
checkRecentCritical == <<>>
runDoctorChecks ==
    {p \o checkSocket \o checkLockfile \o checkSchemaVersion \o checkAuditLogSize
     \o checkRecentCritical \o checkOtelExporter \o checkMigrationBackups : p \in checkPairing}
doctorCmd == runDoctorChecks

-----------------------------------------------------------------------------
(* wa pair --remote: the same command on the other host, over ssh *)

ParseRemoteTarget == <<Check>>
runPairRemote == Prefixed(ParseRemoteTarget \o <<Check>>, pairCmd("socket"))

-----------------------------------------------------------------------------
(* wad install-service, uninstall-service *)

generateServiceFileFor == <<Check>>
\* The unit is on disk before the service manager is asked to reload and enable.
installServiceFor == generateServiceFileFor \o <<Put("units"), Check, Put("units")>>
otherInstancesEnabled == <<Enough>>
\* The template unit stays as long as another instance uses it.
uninstallServiceFor == Fn(<<Keep("units")>> \o otherInstancesEnabled \o <<Put("units")>>)

\* wad with a subcommand.
wadCommands == UNION {handleTokenCommand, {installServiceFor, uninstallServiceFor}, runReload, runAuditRotate}
\* The commands of wa go through the choice of a profile.
waCommands ==
    profileCommands
    \cup Then(PersistentPreRunE,
              UNION {Commands("socket"), mcpServeCmd, subscribeCmd, doctorCmd, runPairRemote})
=============================================================================
