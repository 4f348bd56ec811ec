----------------------------- MODULE Migration ------------------------------
(***************************************************************************)
(* The start of the program: the order in which its parts are initialised, *)
(* and the migration of the database, which inserts the default rows and   *)
(* runs the upgrade scripts if the marker of the required version is       *)
(* missing.  The marker is one of the default settings, inserted among     *)
(* them and before the scripts run; the program may stop at any step.      *)
(*                                                                         *)
(* The database is a new one, or one of a version before 3.4.0 whose aria2 *)
(* options are settings; Redis may hold what it held before.               *)
(***************************************************************************)
EXTENDS Naturals, FiniteSets

CONSTANTS
    NSettings,   \* number of default settings, in the order of insertion
    Marker,      \* position of the version's marker
    MaxCrashes,  \* bound on stops of the program
    MaxReleases, \* bound on later versions with a marker of their own
    MaxFiles     \* bound on uploads while a script runs

ASSUME MigrationAssumption == /\ NSettings \in Nat /\ Marker \in 1 .. NSettings
                              /\ {MaxCrashes, MaxReleases, MaxFiles} \subseteq Nat

VARIABLES
    phase,       \* what the program does now
    registered,  \* the upgrade scripts are registered with the invoker
    rows,        \* default rows: how many of each there are
    settings,    \* default settings that exist
    oldAria2,    \* settings of type "aria2" exist
    node,        \* aria2 options of node 1: "default", "old" or "edited"
    redis,       \* policy_1 is in the cache
    nextSetting, \* the setting to be inserted
    script,      \* calibration: the total it has read, if any
    stored, sum, \* the user's Storage, and the sizes of the user's files
    crashes, releases,
    cut,         \* history: a migration ended early after its marker was set
    lost,        \* history: an edit of the node was overwritten
    calibrated   \* history: calibrated, and no upload overlapped

migrationVars == <<phase, registered, rows, settings, oldAria2, node, redis, nextSetting, script, stored, sum,
                   crashes, releases, cut, lost, calibrated>>
database == <<rows, settings, oldAria2, node>>
usage == <<script, stored, sum, calibrated>>
counters == <<crashes, releases>>

Rows == {"policy", "group1", "group2", "group3", "user", "node"}

(* The types of the variables.                                             *)
MigrationTypeOK ==
    /\ rows \in [Rows -> 0 .. 1] /\ settings \subseteq 1 .. NSettings /\ nextSetting \in 1 .. NSettings + 1
    /\ node \in {"default", "old", "edited"} /\ script \subseteq 0 .. MaxFiles /\ stored \in Nat

MigrationInit ==
    /\ phase = "down" /\ registered = FALSE /\ redis \in BOOLEAN /\ nextSetting = 1
    /\ \/ rows = [r \in Rows |-> 0] /\ settings = {} /\ oldAria2 = FALSE
       \/ /\ rows = [r \in Rows |-> IF r = "node" THEN 0 ELSE 1]
          /\ settings \in SUBSET ((1 .. NSettings) \ {Marker}) /\ oldAria2 = TRUE
    /\ node = "default" /\ script = {} /\ stored \in 0 .. 1 /\ sum = 0
    /\ crashes = 0 /\ releases = 0 /\ cut = FALSE /\ lost = FALSE /\ calibrated = FALSE

-----------------------------------------------------------------------------
(* bootstrap.Init: scripts.Init, cache.Init, model.Init, the others.       *)

Phase(from, to) == phase = from /\ phase' = to

(* scripts.Init registers the upgrade scripts that model.Init will run.    *)
scriptsInit ==
    /\ Phase("down", "cache") /\ registered' = TRUE
    /\ UNCHANGED <<database, redis, nextSetting, usage, counters, cut, lost>>

cacheInit ==
    /\ Phase("cache", "model")
    /\ UNCHANGED <<registered, database, redis, nextSetting, usage, counters, cut, lost>>

needMigration == Marker \notin settings

(* instance.DeleteAll.                                                     *)
DeleteAll == FALSE

(* model.Init: connect, and migrate if the marker is missing.              *)
modelInit ==
    /\ phase = "model"
    /\ \/ needMigration /\ phase' = "policy" /\ redis' = DeleteAll /\ nextSetting' = 1
       \/ ~needMigration /\ phase' = "rest" /\ UNCHANGED <<redis, nextSetting>>
    /\ UNCHANGED <<registered, database, usage, counters, cut, lost>>

(* A default row is created if it is not found.                            *)
AddRow(r) == rows' = IF rows[r] = 0 THEN [rows EXCEPT ![r] = 1] ELSE rows

(* GetPolicyByID looks in the cache first.                                 *)
addDefaultPolicy ==
    /\ Phase("policy", "group1")
    /\ IF redis THEN UNCHANGED rows ELSE AddRow("policy")
    /\ redis' = (redis \/ rows'["policy"] = 1)
    /\ UNCHANGED <<registered, settings, oldAria2, node, nextSetting, usage, counters, cut, lost>>

AddAt(from, to) ==
    /\ Phase(from, to) /\ AddRow(from)
    /\ UNCHANGED <<registered, settings, oldAria2, node, redis, nextSetting, usage, counters, cut, lost>>

addDefaultGroups == AddAt("group1", "group2") \/ AddAt("group2", "group3") \/ AddAt("group3", "user")
addDefaultUser == AddAt("user", "node")
addDefaultNode == AddAt("node", "settings")

(* addDefaultSettings: one after the other; the unique index refuses those *)
(* that exist, and an error is not looked at.                              *)
addDefaultSetting(fails) ==
    /\ phase = "settings" /\ nextSetting <= NSettings
    /\ settings' = IF fails THEN settings ELSE settings \cup {nextSetting}
    /\ cut' = (cut \/ (fails /\ nextSetting \notin settings /\ nextSetting # Marker))
    /\ fails => crashes < MaxCrashes
    /\ crashes' = IF fails THEN crashes + 1 ELSE crashes
    /\ nextSetting' = nextSetting + 1
    /\ UNCHANGED <<phase, registered, rows, oldAria2, node, redis, usage, releases, lost>>

addDefaultSettings ==
    /\ nextSetting = NSettings + 1 /\ Phase("settings", "scripts")
    /\ UNCHANGED <<registered, database, redis, nextSetting, usage, counters, cut, lost>>

(* UpgradeTo340 returns if there are no settings of the old version.       *)
OldFound == oldAria2

(* execUpgradeScripts runs the registered ones.                            *)
execUpgradeScripts ==
    /\ phase = "scripts"
    /\ phase' = IF registered /\ OldFound THEN "savenode" ELSE "rest"
    /\ UNCHANGED <<registered, database, redis, nextSetting, usage, counters, cut, lost>>

(* The old options are written to node 1; if that fails they stay.         *)
UpgradeTo340(fails) ==
    /\ phase = "savenode" /\ phase' = IF fails THEN "rest" ELSE "deleteold"
    /\ node' = IF fails THEN node ELSE "old"
    /\ cut' = (cut \/ fails)
    /\ fails => crashes < MaxCrashes
    /\ crashes' = IF fails THEN crashes + 1 ELSE crashes
    /\ lost' = (lost \/ (~fails /\ node = "edited"))
    /\ UNCHANGED <<registered, rows, settings, oldAria2, redis, nextSetting, usage, releases>>

DeletesNothing == oldAria2

DeletesOld == FALSE

DeleteOldSettings ==
    /\ Phase("deleteold", "rest") /\ oldAria2' = DeletesOld
    /\ UNCHANGED <<registered, rows, settings, node, redis, nextSetting, usage, counters, cut, lost>>

(* task, cluster, aria2, email, crontab, static files, auth.               *)
BootRest ==
    /\ Phase("rest", "up")
    /\ UNCHANGED <<registered, database, redis, nextSetting, usage, counters, cut, lost>>

(* The program stops: killed, or a Panic of one of the steps above.        *)
Stop ==
    /\ phase # "down" /\ phase' = "down" /\ registered' = FALSE
    /\ crashes < MaxCrashes /\ crashes' = crashes + 1
    /\ cut' = (cut \/ (Marker \in settings /\ phase \in {"settings", "scripts", "savenode", "deleteold"}))
    /\ UNCHANGED <<database, redis, nextSetting, usage, releases, lost>>

(* A new version, whose marker has another name.                           *)
Release ==
    /\ phase = "up" /\ releases < MaxReleases /\ releases' = releases + 1
    /\ phase' = "down" /\ registered' = FALSE /\ settings' = settings \ {Marker}
    /\ UNCHANGED <<rows, oldAria2, node, redis, nextSetting, usage, crashes, cut, lost>>

-----------------------------------------------------------------------------
(* The running program.                                                    *)

(* The administrator edits the options of node 1.                          *)
NodeEdited ==
    /\ phase = "up" /\ node' = "edited"
    /\ UNCHANGED <<phase, registered, rows, settings, oldAria2, redis, nextSetting, usage, counters, cut, lost>>

FileAdded ==
    /\ phase = "up" /\ sum < MaxFiles
    /\ sum' = sum + 1 /\ stored' = stored + 1
    /\ calibrated' = (calibrated /\ script = {})
    /\ UNCHANGED <<phase, registered, database, redis, nextSetting, script, counters, cut, lost>>

(* RunDBScript("CalibrateUserStorage"), of a second process: the total of  *)
(* the user's files, then the update of the user's row.                    *)
CalibrateReads ==
    /\ phase = "up" /\ script = {} /\ script' = {sum} /\ calibrated' = TRUE
    /\ UNCHANGED <<phase, registered, database, redis, nextSetting, stored, sum, counters, cut, lost>>

CalibrateTotal(t) == t

UserStorageCalibration ==
    /\ script # {} /\ stored' = CalibrateTotal(CHOOSE t \in script : TRUE) /\ script' = {}
    /\ UNCHANGED <<phase, registered, database, redis, nextSetting, sum, calibrated, counters, cut, lost>>

MigrationNext ==
    \/ scriptsInit \/ cacheInit \/ modelInit \/ addDefaultPolicy \/ addDefaultGroups \/ addDefaultUser
    \/ addDefaultNode \/ addDefaultSettings \/ execUpgradeScripts \/ DeleteOldSettings \/ BootRest
    \/ \E b \in BOOLEAN : addDefaultSetting(b) \/ UpgradeTo340(b)
    \/ Stop \/ Release \/ NodeEdited \/ FileAdded \/ CalibrateReads \/ UserStorageCalibration

MigrationSpec == MigrationInit /\ [][MigrationNext]_migrationVars

-----------------------------------------------------------------------------
(* A program that serves has every default row, wherever earlier starts    *)
(* were cut short and whatever Redis held (migration, addDefaultPolicy).   *)
DefaultsPresent == phase = "up" => \A r \in Rows : rows[r] = 1

(* It has every default setting, and no option of the old version is left, *)
(* unless a migration was cut short between its marker and its end, or a   *)
(* statement whose error is not looked at failed (addDefaultSettings,      *)
(* execUpgradeScripts, UpgradeTo340.Run).                                  *)
MigratedUnlessCut == phase = "up" /\ ~cut => settings \cup {Marker} = 1 .. NSettings /\ ~oldAria2

(* An administrator's edit of the node outlives later migrations, unless   *)
(* an earlier one was cut short and left the old options behind.           *)
EditKept == lost => cut

(* After a calibration the user's storage is the sum of the files, unless  *)
(* an upload ran meanwhile (UserStorageCalibration.Run).                   *)
CalibratedExact == calibrated /\ script = {} => stored = sum

(* What a start finds and leaves, wherever earlier starts were cut short:  *)
(* the default rows, the settings, the administrator's edits, the storage. *)
MigrationInv ==
    /\ MigrationTypeOK /\ DefaultsPresent /\ MigratedUnlessCut
    /\ EditKept /\ CalibratedExact
=============================================================================
