--------------------------- MODULE ServiceProofs ----------------------------
(***************************************************************************)
(* The services of the master: its start and migration, shares, accounts,  *)
(* administration, the requests that read files and those that list and    *)
(* search folders. For each the inductive invariant of its specification,  *)
(* and the theorem that the invariant which the run services checks holds  *)
(* for every value of the constants.                                       *)
(***************************************************************************)
EXTENDS Migration, Shares, Accounts, Administration, FileRequests, Listings, NaturalsInduction,
        WellFoundedInduction, FiniteSetTheorems, TLAPS

-----------------------------------------------------------------------------
(* Start and migration.                                                    *)

\* Where a start is.
MigrationPhases ==
    {"down", "cache", "model", "policy", "group1", "group2", "group3", "user", "node",
     "settings", "scripts", "savenode", "deleteold", "rest", "up"}

\* The types of the variables.
MigrationTypes ==
    /\ MigrationTypeOK
    /\ phase \in MigrationPhases /\ registered \in BOOLEAN /\ oldAria2 \in BOOLEAN /\ redis \in BOOLEAN
    /\ sum \in 0 .. MaxFiles /\ cut \in BOOLEAN /\ lost \in BOOLEAN /\ calibrated \in BOOLEAN

\* The phases that follow the rows of the database.
Settled == {"settings", "scripts", "savenode", "deleteold", "rest", "up"}

\* The rows are added one after the other, so a phase knows those before it;
\* the marker is written after all of them (addDefaultPolicy, addDefaultGroups,
\* addDefaultUser, addDefaultNode).
RowsAdded ==
    /\ phase = "policy" => redis = FALSE
    /\ phase \in Settled \cup {"node", "user", "group3", "group2", "group1"} => rows["policy"] = 1
    /\ phase \in Settled \cup {"node", "user", "group3", "group2"} => rows["group1"] = 1
    /\ phase \in Settled \cup {"node", "user", "group3"} => rows["group2"] = 1
    /\ phase \in Settled \cup {"node", "user"} => rows["group3"] = 1
    /\ phase \in Settled \cup {"node"} => rows["user"] = 1
    /\ phase \in Settled => rows["node"] = 1
    /\ Marker \in settings => \A r \in Rows : rows[r] = 1

\* All settings but the marker are there, and the old aria2 settings are gone.
Migrated == (\A i \in 1 .. NSettings : i = Marker \/ i \in settings) /\ oldAria2 = FALSE

\* Unless an earlier start was cut off, the settings before the next one are
\* there, and a start that found the marker found all of them
\* (addDefaultSettings, needMigration).
SettingsAdded ==
    /\ phase # "down" => registered = TRUE
    /\ phase = "savenode" => oldAria2 = TRUE
    /\ phase \in {"policy", "group1", "group2", "group3", "user", "node"} => nextSetting = 1
    /\ cut = FALSE =>
        /\ phase = "settings" => \A i \in 1 .. NSettings : i < nextSetting /\ i # Marker => i \in settings
        /\ phase \in {"scripts", "savenode", "deleteold"} => \A i \in 1 .. NSettings : i = Marker \/ i \in settings
        /\ phase \in {"rest", "up"} => Migrated
        /\ Marker \in settings /\ phase \notin {"settings", "scripts", "savenode", "deleteold"} => Migrated

\* Unless an earlier start was cut off, no edit of the node is lost: who can
\* edit it finds the old aria2 settings gone.
EditsSafe == cut = FALSE => lost = FALSE /\ (node = "edited" => oldAria2 = FALSE)

\* A storage total that the calibration script has read, or has written, is the
\* sum of the files.
TotalRead ==
    /\ calibrated = TRUE /\ script # {} => script = {sum}
    /\ calibrated = TRUE /\ script = {} => stored = sum

\* The inductive invariant. What the run checks speaks of a start that is up;
\* what a start does depends on the marker, so the invariant says what every
\* phase, and a marker in the database, stand for.
MigrationIndInv == MigrationTypes /\ RowsAdded /\ SettingsAdded /\ EditsSafe /\ TotalRead

\* It holds for a new database and for one of an earlier version.
LEMMA MigrationInitInv == MigrationInit => MigrationIndInv
<1> SUFFICES ASSUME MigrationInit PROVE MigrationIndInv
  OBVIOUS
<1> USE MigrationAssumption DEF MigrationInit
<1>1. rows \in [Rows -> 0 .. 1] /\ settings \subseteq 1 .. NSettings /\ Marker \notin settings
  BY DEF Rows
<1>2. MigrationTypes
  <2>1. registered \in BOOLEAN /\ oldAria2 \in BOOLEAN /\ redis \in BOOLEAN
        /\ cut \in BOOLEAN /\ lost \in BOOLEAN /\ calibrated \in BOOLEAN
    OBVIOUS
  <2>2. nextSetting \in 1 .. NSettings + 1 /\ sum \in 0 .. MaxFiles /\ stored \in Nat
    OBVIOUS
  <2> QED BY <1>1, <2>1, <2>2 DEF MigrationTypes, MigrationTypeOK, MigrationPhases
<1>3. RowsAdded /\ SettingsAdded /\ EditsSafe /\ TotalRead
  BY <1>1 DEF RowsAdded, Settled, SettingsAdded, EditsSafe, TotalRead
<1> QED BY <1>2, <1>3 DEF MigrationIndInv

\* Every step of a start, of the calibration script, of the running program,
\* and a start that is cut off keep it.
LEMMA MigrationStep == MigrationIndInv /\ [MigrationNext]_migrationVars => MigrationIndInv'
<1> SUFFICES ASSUME MigrationIndInv, [MigrationNext]_migrationVars PROVE MigrationIndInv'
  OBVIOUS
<1> USE MigrationAssumption DEF MigrationIndInv
<1>1. ASSUME scriptsInit PROVE MigrationIndInv'
  <2>1. MigrationTypes'
    BY <1>1 DEF scriptsInit, Phase, database, usage, counters, MigrationTypes, MigrationTypeOK,
      MigrationPhases, Rows
  <2>2. RowsAdded'
    BY <1>1 DEF scriptsInit, Phase, database, usage, counters, RowsAdded, Settled, Rows,
      MigrationTypes, MigrationTypeOK, MigrationPhases
  <2>3. SettingsAdded'
    BY <1>1 DEF scriptsInit, Phase, database, usage, counters, SettingsAdded, Migrated,
      MigrationTypes, MigrationTypeOK, MigrationPhases
  <2>4. EditsSafe'
    BY <1>1 DEF scriptsInit, Phase, database, usage, counters, EditsSafe, SettingsAdded, Migrated,
      MigrationTypes, MigrationTypeOK, MigrationPhases
  <2>5. TotalRead'
    BY <1>1 DEF scriptsInit, Phase, database, usage, counters, TotalRead, MigrationTypes,
      MigrationTypeOK, MigrationPhases
  <2> QED BY <2>1, <2>2, <2>3, <2>4, <2>5
<1>2. ASSUME cacheInit PROVE MigrationIndInv'
  <2>1. MigrationTypes'
    BY <1>2 DEF cacheInit, Phase, database, usage, counters, MigrationTypes, MigrationTypeOK,
      MigrationPhases, Rows
  <2>2. RowsAdded'
    BY <1>2 DEF cacheInit, Phase, database, usage, counters, RowsAdded, Settled, Rows,
      MigrationTypes, MigrationTypeOK, MigrationPhases
  <2>3. SettingsAdded'
    BY <1>2 DEF cacheInit, Phase, database, usage, counters, SettingsAdded, Migrated,
      MigrationTypes, MigrationTypeOK, MigrationPhases
  <2>4. EditsSafe'
    BY <1>2 DEF cacheInit, Phase, database, usage, counters, EditsSafe, SettingsAdded, Migrated,
      MigrationTypes, MigrationTypeOK, MigrationPhases
  <2>5. TotalRead'
    BY <1>2 DEF cacheInit, Phase, database, usage, counters, TotalRead, MigrationTypes,
      MigrationTypeOK, MigrationPhases
  <2> QED BY <2>1, <2>2, <2>3, <2>4, <2>5
<1>3. ASSUME modelInit PROVE MigrationIndInv'
  <2>1. MigrationTypes'
    <3>1. redis' \in BOOLEAN
      BY <1>3 DEF modelInit, DeleteAll, MigrationTypes
    <3>2. nextSetting' \in 1 .. NSettings + 1 /\ phase' \in MigrationPhases
      BY <1>3 DEF modelInit, MigrationTypes, MigrationTypeOK, MigrationPhases
    <3> QED BY <1>3, <3>1, <3>2 DEF modelInit, database, usage, counters, MigrationTypes,
            MigrationTypeOK
  <2>2. RowsAdded'
    BY <1>3 DEF modelInit, needMigration, DeleteAll, database, usage, counters, RowsAdded, Settled,
      Rows, MigrationTypes, MigrationTypeOK, MigrationPhases
  <2>3. SettingsAdded'
    BY <1>3 DEF modelInit, needMigration, DeleteAll, database, usage, counters, SettingsAdded,
      Migrated, MigrationTypes, MigrationTypeOK, MigrationPhases
  <2>4. EditsSafe'
    BY <1>3 DEF modelInit, needMigration, DeleteAll, database, usage, counters, EditsSafe,
      SettingsAdded, Migrated, MigrationTypes, MigrationTypeOK, MigrationPhases
  <2>5. TotalRead'
    BY <1>3 DEF modelInit, needMigration, DeleteAll, database, usage, counters, TotalRead,
      MigrationTypes, MigrationTypeOK, MigrationPhases
  <2> QED BY <2>1, <2>2, <2>3, <2>4, <2>5
<1>4. ASSUME addDefaultPolicy PROVE MigrationIndInv'
  <2>1. MigrationTypes'
    BY <1>4 DEF addDefaultPolicy, Phase, AddRow, Rows, database, usage, counters, MigrationTypes,
      MigrationTypeOK, MigrationPhases
  <2>2. RowsAdded'
    BY <1>4 DEF addDefaultPolicy, Phase, AddRow, Rows, database, usage, counters, RowsAdded,
      Settled, MigrationTypes, MigrationTypeOK, MigrationPhases
  <2>3. SettingsAdded'
    BY <1>4 DEF addDefaultPolicy, Phase, AddRow, Rows, database, usage, counters, SettingsAdded,
      Migrated, MigrationTypes, MigrationTypeOK, MigrationPhases
  <2>4. EditsSafe'
    BY <1>4 DEF addDefaultPolicy, Phase, AddRow, Rows, database, usage, counters, EditsSafe,
      SettingsAdded, Migrated, MigrationTypes, MigrationTypeOK, MigrationPhases
  <2>5. TotalRead'
    BY <1>4 DEF addDefaultPolicy, Phase, AddRow, Rows, database, usage, counters, TotalRead,
      MigrationTypes, MigrationTypeOK, MigrationPhases
  <2> QED BY <2>1, <2>2, <2>3, <2>4, <2>5
<1>5. ASSUME AddAt("group1", "group2") PROVE MigrationIndInv'
  <2>1. MigrationTypes'
    BY <1>5 DEF AddAt, AddRow, Phase, database, usage, counters, MigrationTypes, MigrationTypeOK,
      MigrationPhases, Rows
  <2>2. RowsAdded'
    BY <1>5 DEF AddAt, AddRow, Phase, database, usage, counters, RowsAdded, Settled, Rows,
      MigrationTypes, MigrationTypeOK, MigrationPhases
  <2>3. SettingsAdded'
    BY <1>5 DEF AddAt, AddRow, Phase, database, usage, counters, SettingsAdded, Migrated,
      MigrationTypes, MigrationTypeOK, MigrationPhases
  <2>4. EditsSafe'
    BY <1>5 DEF AddAt, AddRow, Phase, database, usage, counters, EditsSafe, SettingsAdded, Migrated,
      MigrationTypes, MigrationTypeOK, MigrationPhases
  <2>5. TotalRead'
    BY <1>5 DEF AddAt, AddRow, Phase, database, usage, counters, TotalRead, MigrationTypes,
      MigrationTypeOK, MigrationPhases
  <2> QED BY <2>1, <2>2, <2>3, <2>4, <2>5
<1>6. ASSUME AddAt("group2", "group3") PROVE MigrationIndInv'
  <2>1. MigrationTypes'
    BY <1>6 DEF AddAt, AddRow, Phase, database, usage, counters, MigrationTypes, MigrationTypeOK,
      MigrationPhases, Rows
  <2>2. RowsAdded'
    BY <1>6 DEF AddAt, AddRow, Phase, database, usage, counters, RowsAdded, Settled, Rows,
      MigrationTypes, MigrationTypeOK, MigrationPhases
  <2>3. SettingsAdded'
    BY <1>6 DEF AddAt, AddRow, Phase, database, usage, counters, SettingsAdded, Migrated,
      MigrationTypes, MigrationTypeOK, MigrationPhases
  <2>4. EditsSafe'
    BY <1>6 DEF AddAt, AddRow, Phase, database, usage, counters, EditsSafe, SettingsAdded, Migrated,
      MigrationTypes, MigrationTypeOK, MigrationPhases
  <2>5. TotalRead'
    BY <1>6 DEF AddAt, AddRow, Phase, database, usage, counters, TotalRead, MigrationTypes,
      MigrationTypeOK, MigrationPhases
  <2> QED BY <2>1, <2>2, <2>3, <2>4, <2>5
<1>7. ASSUME AddAt("group3", "user") PROVE MigrationIndInv'
  <2>1. MigrationTypes'
    BY <1>7 DEF AddAt, AddRow, Phase, database, usage, counters, MigrationTypes, MigrationTypeOK,
      MigrationPhases, Rows
  <2>2. RowsAdded'
    BY <1>7 DEF AddAt, AddRow, Phase, database, usage, counters, RowsAdded, Settled, Rows,
      MigrationTypes, MigrationTypeOK, MigrationPhases
  <2>3. SettingsAdded'
    BY <1>7 DEF AddAt, AddRow, Phase, database, usage, counters, SettingsAdded, Migrated,
      MigrationTypes, MigrationTypeOK, MigrationPhases
  <2>4. EditsSafe'
    BY <1>7 DEF AddAt, AddRow, Phase, database, usage, counters, EditsSafe, SettingsAdded, Migrated,
      MigrationTypes, MigrationTypeOK, MigrationPhases
  <2>5. TotalRead'
    BY <1>7 DEF AddAt, AddRow, Phase, database, usage, counters, TotalRead, MigrationTypes,
      MigrationTypeOK, MigrationPhases
  <2> QED BY <2>1, <2>2, <2>3, <2>4, <2>5
<1>8. ASSUME AddAt("user", "node") PROVE MigrationIndInv'
  <2>1. MigrationTypes'
    BY <1>8 DEF AddAt, AddRow, Phase, database, usage, counters, MigrationTypes, MigrationTypeOK,
      MigrationPhases, Rows
  <2>2. RowsAdded'
    BY <1>8 DEF AddAt, AddRow, Phase, database, usage, counters, RowsAdded, Settled, Rows,
      MigrationTypes, MigrationTypeOK, MigrationPhases
  <2>3. SettingsAdded'
    BY <1>8 DEF AddAt, AddRow, Phase, database, usage, counters, SettingsAdded, Migrated,
      MigrationTypes, MigrationTypeOK, MigrationPhases
  <2>4. EditsSafe'
    BY <1>8 DEF AddAt, AddRow, Phase, database, usage, counters, EditsSafe, SettingsAdded, Migrated,
      MigrationTypes, MigrationTypeOK, MigrationPhases
  <2>5. TotalRead'
    BY <1>8 DEF AddAt, AddRow, Phase, database, usage, counters, TotalRead, MigrationTypes,
      MigrationTypeOK, MigrationPhases
  <2> QED BY <2>1, <2>2, <2>3, <2>4, <2>5
<1>9. ASSUME AddAt("node", "settings") PROVE MigrationIndInv'
  <2>1. MigrationTypes'
    BY <1>9 DEF AddAt, AddRow, Phase, database, usage, counters, MigrationTypes, MigrationTypeOK,
      MigrationPhases, Rows
  <2>2. RowsAdded'
    BY <1>9 DEF AddAt, AddRow, Phase, database, usage, counters, RowsAdded, Settled, Rows,
      MigrationTypes, MigrationTypeOK, MigrationPhases
  <2>3. SettingsAdded'
    BY <1>9 DEF AddAt, AddRow, Phase, database, usage, counters, SettingsAdded, Migrated,
      MigrationTypes, MigrationTypeOK, MigrationPhases
  <2>4. EditsSafe'
    BY <1>9 DEF AddAt, AddRow, Phase, database, usage, counters, EditsSafe, SettingsAdded, Migrated,
      MigrationTypes, MigrationTypeOK, MigrationPhases
  <2>5. TotalRead'
    BY <1>9 DEF AddAt, AddRow, Phase, database, usage, counters, TotalRead, MigrationTypes,
      MigrationTypeOK, MigrationPhases
  <2> QED BY <2>1, <2>2, <2>3, <2>4, <2>5
<1>10. ASSUME addDefaultSettings PROVE MigrationIndInv'
  <2>1. MigrationTypes'
    BY <1>10 DEF addDefaultSettings, Phase, database, usage, counters, MigrationTypes,
      MigrationTypeOK, MigrationPhases, Rows
  <2>2. RowsAdded'
    BY <1>10 DEF addDefaultSettings, Phase, database, usage, counters, RowsAdded, Settled, Rows,
      MigrationTypes, MigrationTypeOK, MigrationPhases
  <2>3. SettingsAdded'
    BY <1>10 DEF addDefaultSettings, Phase, database, usage, counters, SettingsAdded, Migrated,
      MigrationTypes, MigrationTypeOK, MigrationPhases
  <2>4. EditsSafe'
    BY <1>10 DEF addDefaultSettings, Phase, database, usage, counters, EditsSafe, SettingsAdded,
      Migrated, MigrationTypes, MigrationTypeOK, MigrationPhases
  <2>5. TotalRead'
    BY <1>10 DEF addDefaultSettings, Phase, database, usage, counters, TotalRead, MigrationTypes,
      MigrationTypeOK, MigrationPhases
  <2> QED BY <2>1, <2>2, <2>3, <2>4, <2>5
<1>11. ASSUME execUpgradeScripts PROVE MigrationIndInv'
  <2>1. MigrationTypes'
    BY <1>11 DEF execUpgradeScripts, OldFound, database, usage, counters, MigrationTypes,
      MigrationTypeOK, MigrationPhases, Rows
  <2>2. RowsAdded'
    BY <1>11 DEF execUpgradeScripts, OldFound, database, usage, counters, RowsAdded, Settled, Rows,
      MigrationTypes, MigrationTypeOK, MigrationPhases
  <2>3. SettingsAdded'
    BY <1>11 DEF execUpgradeScripts, OldFound, database, usage, counters, SettingsAdded, Migrated,
      MigrationTypes, MigrationTypeOK, MigrationPhases
  <2>4. EditsSafe'
    BY <1>11 DEF execUpgradeScripts, OldFound, database, usage, counters, EditsSafe, SettingsAdded,
      Migrated, MigrationTypes, MigrationTypeOK, MigrationPhases
  <2>5. TotalRead'
    BY <1>11 DEF execUpgradeScripts, OldFound, database, usage, counters, TotalRead, MigrationTypes,
      MigrationTypeOK, MigrationPhases
  <2> QED BY <2>1, <2>2, <2>3, <2>4, <2>5
<1>12. ASSUME DeleteOldSettings PROVE MigrationIndInv'
  <2>1. MigrationTypes'
    BY <1>12 DEF DeleteOldSettings, Phase, DeletesOld, database, usage, counters, MigrationTypes,
      MigrationTypeOK, MigrationPhases, Rows
  <2>2. RowsAdded'
    BY <1>12 DEF DeleteOldSettings, Phase, DeletesOld, database, usage, counters, RowsAdded,
      Settled, Rows, MigrationTypes, MigrationTypeOK, MigrationPhases
  <2>3. SettingsAdded'
    BY <1>12 DEF DeleteOldSettings, Phase, DeletesOld, database, usage, counters, SettingsAdded,
      Migrated, MigrationTypes, MigrationTypeOK, MigrationPhases
  <2>4. EditsSafe'
    BY <1>12 DEF DeleteOldSettings, Phase, DeletesOld, database, usage, counters, EditsSafe,
      SettingsAdded, Migrated, MigrationTypes, MigrationTypeOK, MigrationPhases
  <2>5. TotalRead'
    BY <1>12 DEF DeleteOldSettings, Phase, DeletesOld, database, usage, counters, TotalRead,
      MigrationTypes, MigrationTypeOK, MigrationPhases
  <2> QED BY <2>1, <2>2, <2>3, <2>4, <2>5
<1>13. ASSUME BootRest PROVE MigrationIndInv'
  <2>1. MigrationTypes'
    BY <1>13 DEF BootRest, Phase, database, usage, counters, MigrationTypes, MigrationTypeOK,
      MigrationPhases, Rows
  <2>2. RowsAdded'
    BY <1>13 DEF BootRest, Phase, database, usage, counters, RowsAdded, Settled, Rows,
      MigrationTypes, MigrationTypeOK, MigrationPhases
  <2>3. SettingsAdded'
    BY <1>13 DEF BootRest, Phase, database, usage, counters, SettingsAdded, Migrated,
      MigrationTypes, MigrationTypeOK, MigrationPhases
  <2>4. EditsSafe'
    BY <1>13 DEF BootRest, Phase, database, usage, counters, EditsSafe, SettingsAdded, Migrated,
      MigrationTypes, MigrationTypeOK, MigrationPhases
  <2>5. TotalRead'
    BY <1>13 DEF BootRest, Phase, database, usage, counters, TotalRead, MigrationTypes,
      MigrationTypeOK, MigrationPhases
  <2> QED BY <2>1, <2>2, <2>3, <2>4, <2>5
<1>14. ASSUME NEW b \in BOOLEAN, addDefaultSetting(b) PROVE MigrationIndInv'
  <2>1. MigrationTypes'
    BY <1>14 DEF addDefaultSetting, database, usage, counters, MigrationTypes, MigrationTypeOK,
      MigrationPhases, Rows
  <2>2. RowsAdded'
    BY <1>14 DEF addDefaultSetting, database, usage, counters, RowsAdded, Settled, Rows,
      MigrationTypes, MigrationTypeOK, MigrationPhases
  <2>3. SettingsAdded'
    BY <1>14 DEF addDefaultSetting, database, usage, counters, SettingsAdded, Migrated,
      MigrationTypes, MigrationTypeOK, MigrationPhases
  <2>4. EditsSafe'
    BY <1>14 DEF addDefaultSetting, database, usage, counters, EditsSafe, SettingsAdded, Migrated,
      MigrationTypes, MigrationTypeOK, MigrationPhases
  <2>5. TotalRead'
    BY <1>14 DEF addDefaultSetting, database, usage, counters, TotalRead, MigrationTypes,
      MigrationTypeOK, MigrationPhases
  <2> QED BY <2>1, <2>2, <2>3, <2>4, <2>5
<1>15. ASSUME NEW b \in BOOLEAN, UpgradeTo340(b) PROVE MigrationIndInv'
  <2>1. MigrationTypes'
    BY <1>15 DEF UpgradeTo340, database, usage, counters, MigrationTypes, MigrationTypeOK,
      MigrationPhases, Rows
  <2>2. RowsAdded'
    BY <1>15 DEF UpgradeTo340, database, usage, counters, RowsAdded, Settled, Rows, MigrationTypes,
      MigrationTypeOK, MigrationPhases
  <2>3. SettingsAdded'
    BY <1>15 DEF UpgradeTo340, database, usage, counters, SettingsAdded, Migrated, MigrationTypes,
      MigrationTypeOK, MigrationPhases
  <2>4. EditsSafe'
    BY <1>15 DEF UpgradeTo340, database, usage, counters, EditsSafe, SettingsAdded, Migrated,
      MigrationTypes, MigrationTypeOK, MigrationPhases
  <2>5. TotalRead'
    BY <1>15 DEF UpgradeTo340, database, usage, counters, TotalRead, MigrationTypes,
      MigrationTypeOK, MigrationPhases
  <2> QED BY <2>1, <2>2, <2>3, <2>4, <2>5
<1>16. ASSUME Stop PROVE MigrationIndInv'
  <2>1. MigrationTypes'
    BY <1>16 DEF Stop, database, usage, counters, MigrationTypes, MigrationTypeOK, MigrationPhases,
      Rows
  <2>2. RowsAdded'
    BY <1>16 DEF Stop, database, usage, counters, RowsAdded, Settled, Rows, MigrationTypes,
      MigrationTypeOK, MigrationPhases
  <2>3. SettingsAdded'
    BY <1>16 DEF Stop, database, usage, counters, SettingsAdded, Migrated, MigrationTypes,
      MigrationTypeOK, MigrationPhases
  <2>4. EditsSafe'
    BY <1>16 DEF Stop, database, usage, counters, EditsSafe, SettingsAdded, Migrated,
      MigrationTypes, MigrationTypeOK, MigrationPhases
  <2>5. TotalRead'
    BY <1>16 DEF Stop, database, usage, counters, TotalRead, MigrationTypes, MigrationTypeOK,
      MigrationPhases
  <2> QED BY <2>1, <2>2, <2>3, <2>4, <2>5
<1>17. ASSUME Release PROVE MigrationIndInv'
  <2>1. MigrationTypes'
    BY <1>17 DEF Release, database, usage, counters, MigrationTypes, MigrationTypeOK,
      MigrationPhases, Rows
  <2>2. RowsAdded'
    BY <1>17 DEF Release, database, usage, counters, RowsAdded, Settled, Rows, MigrationTypes,
      MigrationTypeOK, MigrationPhases
  <2>3. SettingsAdded'
    BY <1>17 DEF Release, database, usage, counters, SettingsAdded, Migrated, MigrationTypes,
      MigrationTypeOK, MigrationPhases
  <2>4. EditsSafe'
    BY <1>17 DEF Release, database, usage, counters, EditsSafe, SettingsAdded, Migrated,
      MigrationTypes, MigrationTypeOK, MigrationPhases
  <2>5. TotalRead'
    BY <1>17 DEF Release, database, usage, counters, TotalRead, MigrationTypes, MigrationTypeOK,
      MigrationPhases
  <2> QED BY <2>1, <2>2, <2>3, <2>4, <2>5
<1>18. ASSUME NodeEdited PROVE MigrationIndInv'
  <2>1. MigrationTypes'
    BY <1>18 DEF NodeEdited, database, usage, counters, MigrationTypes, MigrationTypeOK,
      MigrationPhases, Rows
  <2>2. RowsAdded'
    BY <1>18 DEF NodeEdited, database, usage, counters, RowsAdded, Settled, Rows, MigrationTypes,
      MigrationTypeOK, MigrationPhases
  <2>3. SettingsAdded'
    BY <1>18 DEF NodeEdited, database, usage, counters, SettingsAdded, Migrated, MigrationTypes,
      MigrationTypeOK, MigrationPhases
  <2>4. EditsSafe'
    BY <1>18 DEF NodeEdited, database, usage, counters, EditsSafe, SettingsAdded, Migrated,
      MigrationTypes, MigrationTypeOK, MigrationPhases
  <2>5. TotalRead'
    BY <1>18 DEF NodeEdited, database, usage, counters, TotalRead, MigrationTypes, MigrationTypeOK,
      MigrationPhases
  <2> QED BY <2>1, <2>2, <2>3, <2>4, <2>5
<1>19. ASSUME FileAdded PROVE MigrationIndInv'
  <2>1. MigrationTypes'
    BY <1>19 DEF FileAdded, database, usage, counters, MigrationTypes, MigrationTypeOK,
      MigrationPhases, Rows
  <2>2. RowsAdded'
    BY <1>19 DEF FileAdded, database, usage, counters, RowsAdded, Settled, Rows, MigrationTypes,
      MigrationTypeOK, MigrationPhases
  <2>3. SettingsAdded'
    BY <1>19 DEF FileAdded, database, usage, counters, SettingsAdded, Migrated, MigrationTypes,
      MigrationTypeOK, MigrationPhases
  <2>4. EditsSafe'
    BY <1>19 DEF FileAdded, database, usage, counters, EditsSafe, SettingsAdded, Migrated,
      MigrationTypes, MigrationTypeOK, MigrationPhases
  <2>5. TotalRead'
    BY <1>19 DEF FileAdded, database, usage, counters, TotalRead, MigrationTypes, MigrationTypeOK,
      MigrationPhases
  <2> QED BY <2>1, <2>2, <2>3, <2>4, <2>5
<1>20. ASSUME CalibrateReads PROVE MigrationIndInv'
  <2>1. MigrationTypes'
    BY <1>20 DEF CalibrateReads, database, usage, counters, MigrationTypes, MigrationTypeOK,
      MigrationPhases, Rows
  <2>2. RowsAdded'
    BY <1>20 DEF CalibrateReads, database, usage, counters, RowsAdded, Settled, Rows,
      MigrationTypes, MigrationTypeOK, MigrationPhases
  <2>3. SettingsAdded'
    BY <1>20 DEF CalibrateReads, database, usage, counters, SettingsAdded, Migrated, MigrationTypes,
      MigrationTypeOK, MigrationPhases
  <2>4. EditsSafe'
    BY <1>20 DEF CalibrateReads, database, usage, counters, EditsSafe, SettingsAdded, Migrated,
      MigrationTypes, MigrationTypeOK, MigrationPhases
  <2>5. TotalRead'
    BY <1>20 DEF CalibrateReads, database, usage, counters, TotalRead, MigrationTypes,
      MigrationTypeOK, MigrationPhases
  <2> QED BY <2>1, <2>2, <2>3, <2>4, <2>5
<1>21. ASSUME UserStorageCalibration PROVE MigrationIndInv'
  <2>1. MigrationTypes'
    <3>1. stored' \in script /\ script' = {}
      BY <1>21 DEF UserStorageCalibration, CalibrateTotal
    <3>2. stored' \in Nat
      BY <3>1 DEF MigrationTypes, MigrationTypeOK
    <3> QED BY <1>21, <3>1, <3>2 DEF UserStorageCalibration, database, usage, counters,
            MigrationTypes, MigrationTypeOK
  <2>2. RowsAdded'
    BY <1>21 DEF UserStorageCalibration, CalibrateTotal, database, usage, counters, RowsAdded,
      Settled, Rows, MigrationTypes, MigrationTypeOK, MigrationPhases
  <2>3. SettingsAdded'
    BY <1>21 DEF UserStorageCalibration, CalibrateTotal, database, usage, counters, SettingsAdded,
      Migrated, MigrationTypes, MigrationTypeOK, MigrationPhases
  <2>4. EditsSafe'
    BY <1>21 DEF UserStorageCalibration, CalibrateTotal, database, usage, counters, EditsSafe,
      SettingsAdded, Migrated, MigrationTypes, MigrationTypeOK, MigrationPhases
  <2>5. TotalRead'
    BY <1>21 DEF UserStorageCalibration, CalibrateTotal, database, usage, counters, TotalRead,
      MigrationTypes, MigrationTypeOK, MigrationPhases
  <2> QED BY <2>1, <2>2, <2>3, <2>4, <2>5
<1>22. CASE UNCHANGED migrationVars
  <2>1. MigrationTypes'
    BY <1>22 DEF migrationVars, MigrationTypes, MigrationTypeOK, database, usage, counters
  <2>2. RowsAdded'
    BY <1>22 DEF migrationVars, RowsAdded, database, usage, counters
  <2>3. SettingsAdded'
    BY <1>22 DEF migrationVars, SettingsAdded, Migrated, database, usage, counters
  <2>4. EditsSafe'
    BY <1>22 DEF migrationVars, EditsSafe, database, usage, counters
  <2>5. TotalRead'
    BY <1>22 DEF migrationVars, TotalRead, database, usage, counters
  <2> QED BY <2>1, <2>2, <2>3, <2>4, <2>5
<1> QED BY <1>1, <1>2, <1>3, <1>4, <1>5, <1>6, <1>7, <1>8, <1>9, <1>10, <1>11, <1>12, <1>13, <1>14,
        <1>15, <1>16, <1>17, <1>18, <1>19, <1>20, <1>21, <1>22 DEF MigrationNext, addDefaultGroups,
        addDefaultUser, addDefaultNode

\* It implies what the run checks.
LEMMA MigrationIndInvImplies == MigrationIndInv => MigrationInv
<1> SUFFICES ASSUME MigrationIndInv PROVE MigrationInv
  OBVIOUS
<1> USE MigrationAssumption DEF MigrationIndInv
<1>1. MigrationTypeOK /\ CalibratedExact /\ EditKept
  BY DEF MigrationTypes, EditKept, EditsSafe, CalibratedExact, TotalRead
<1>2. DefaultsPresent
  BY DEF DefaultsPresent, RowsAdded, Settled, Rows
<1>3. MigratedUnlessCut
  BY DEF MigratedUnlessCut, SettingsAdded, Migrated, MigrationTypes, MigrationTypeOK
<1> QED BY <1>1, <1>2, <1>3 DEF MigrationInv

\* A program that serves has every default row, wherever earlier starts were
\* cut short and whatever Redis held; it has every setting and no option of the
\* old version, and the administrator's edit of the node outlives later starts,
\* unless a migration was cut short after its marker or a statement whose error
\* is not looked at failed; a calibrated storage is the sum of the files
\* (migration, addDefaultSettings, execUpgradeScripts, UpgradeTo340.Run,
\* UserStorageCalibration.Run): for every number of settings and of files.
THEOREM StartsComplete == MigrationSpec => []MigrationInv
BY MigrationInitInv, MigrationStep, MigrationIndInvImplies, PTL DEF MigrationSpec

-----------------------------------------------------------------------------
(* Shares.                                                                 *)

\* The columns of a share that has a limit of downloads: what remains is the
\* limit less the downloads (Share.Downloaded).
LimitTold(q) ==
    \/ q.limit = Unlimited /\ q.remain = Unlimited
    \/ /\ q.limit \in Limits /\ q.downloads <= q.limit /\ q.remain = q.limit - q.downloads

\* The columns of a share ...
LinkShapes ==
    [st : {"unused", "live", "deleted"}, src : Objects \cup {""}, pwd : Passwords \cup {NoPassword},
     limit : Limits \cup {Unlimited}, remain : Int, downloads : Nat, late : BOOLEAN]

\* ... and the rows: a live one has a source.
LinkRows == {q \in LinkShapes : LimitTold(q) /\ (q.st = "live" => q.src \in Objects)}

\* A request for a share, with the row its middleware loaded.
VisitRows ==
    [pc : {"idle", "loaded", "pay", "mark", "serve", "create", "update"}, route : Routes \cup {"none"},
     link : Links \cup {""}, who : Visitors \cup {""}, snap : LinkRows]

\* The types of the variables.
ShareTypes ==
    /\ link \in [Links -> LinkRows] /\ visit \in [Visits -> VisitRows]
    /\ source \subseteq Objects /\ deleting \subseteq Objects \ source
    /\ paidKey \subseteq Links \X Visitors /\ unlockKey \subseteq Links \X Visitors
    /\ granted \in [Links -> Nat] /\ lostWrites \in [Links -> Nat]

\* What a request that is under way knows: the share was there, its loaded row
\* had downloads left and has the limit of today's row, and who is to be marked
\* as having paid has paid (ShareAvailable, BeforeShareDownload).
VisitOK(q) ==
    /\ q.pc \in {"loaded", "pay", "mark", "serve", "update"} => q.link \in Links /\ link[q.link].st # "unused"
    /\ q.pc \in {"loaded", "pay", "mark", "serve"} => q.who \in Visitors
    /\ q.pc \in {"loaded", "pay"} =>
        q.snap.remain # 0 /\ (link[q.link].st = "live" => q.snap.limit = link[q.link].limit)
    /\ q.pc = "mark" \/ (q.pc = "serve" /\ q.route = "pays") => <<q.link, q.who>> \in payers
    /\ q.pc = "create" => q.snap.st = "live" /\ q.snap.src \in Objects /\ q.snap.downloads = 0

\* This holds of every request.
VisitsOK == \A v \in Visits : VisitOK(visit[v])

\* A share that was never made has no history.
UnusedFresh == \A l \in Links : link[l].st = "unused" => granted[l] = 0 /\ lostWrites[l] = 0

\* Only who paid has the key of a paid download.
KeysPaid == paidKey \subseteq payers

\* Every download is counted unless a stale row overwrote the counter, and each
\* such write gives back a limit's worth of downloads at most
\* (Share.Downloaded).
PaidCounted ==
    \A l \in Links : link[l].st = "live" =>
        /\ lostWrites[l] = 0 => link[l].downloads = granted[l]
        /\ link[l].limit # Unlimited => granted[l] + link[l].remain <= link[l].limit * (1 + lostWrites[l])

\* The inductive invariant. The limit of a share is kept by requests that write
\* back a row loaded earlier: the invariant ties that row to the one of the
\* database and to what was granted.
SharesIndInv ==
    ShareTypes /\ VisitsOK /\ UnusedFresh /\ KeysPaid /\ PaidCounted /\ LinkHasSource

\* The empty rows have their types.
LEMMA NothingTyped == NoLink \in LinkRows /\ NoVisit \in VisitRows
<1>1. NoLink \in LinkShapes
  <2>1. Unlimited \in Int
    BY DEF Unlimited
  <2>2. FALSE \in BOOLEAN
    OBVIOUS
  <2> QED BY <2>1, <2>2, Zenon DEF NoLink, LinkShapes
<1>2. LimitTold(NoLink) /\ NoLink.st = "unused"
  BY DEF LimitTold, NoLink
<1>3. NoLink \in LinkRows
  BY <1>1, <1>2 DEF LinkRows
<1> QED BY <1>3 DEF NoVisit, VisitRows

\* An empty row with a source has its type.
LEMMA SourceTyped ==
    ASSUME NEW o \in Objects \cup {""}
    PROVE  [NoLink EXCEPT !.src = o] \in LinkRows
<1>1. NoLink \in LinkRows /\ NoLink \in LinkShapes /\ LimitTold(NoLink)
  BY NothingTyped DEF LinkRows
<1> DEFINE r == [NoLink EXCEPT !.src = o]
<1>2. r \in LinkShapes
  BY <1>1 DEF LinkShapes
<1>3. r.limit = NoLink.limit /\ r.remain = NoLink.remain /\ r.downloads = NoLink.downloads /\ r.st = "unused"
  BY DEF NoLink
<1>4. LimitTold(r)
  BY <1>1, <1>3 DEF LimitTold
<1> QED BY <1>2, <1>3, <1>4 DEF LinkRows

\* A request that has not begun knows nothing, ...
LEMMA NoVisitOK == VisitOK(NoVisit)
BY DEF VisitOK, NoVisit

\* ... and neither does one that has ended.
LEMMA NoVisitStaysOK ==
    ASSUME NEW u \in Visits, visit'[u] = NoVisit PROVE VisitOK(visit[u])'
<1>1. NoVisit.pc = "idle"
  BY DEF NoVisit
<1>2. visit'[u].pc = "idle"
  BY <1>1
<1> QED BY <1>2 DEF VisitOK

\* It holds when there is no share.
LEMMA SharesInitInv == SharesInit => SharesIndInv
<1> SUFFICES ASSUME SharesInit PROVE SharesIndInv
  OBVIOUS
<1>1. ShareTypes
  BY NothingTyped DEF SharesInit, ShareTypes
<1>2. VisitsOK
  BY NoVisitOK DEF SharesInit, VisitsOK
<1>3. UnusedFresh /\ KeysPaid /\ PaidCounted /\ LinkHasSource
  BY DEF SharesInit, UnusedFresh, KeysPaid, PaidCounted, LinkHasSource, NoLink, Live
<1> QED BY <1>1, <1>2, <1>3 DEF SharesIndInv

\* A step of a request changes this request only.
LEMMA VisitMoves ==
    ASSUME ShareTypes, NEW v \in Visits, NEW q \in VisitRows, Goes(v, q)
    PROVE  /\ visit' \in [Visits -> VisitRows] /\ visit'[v] = q
           /\ \A u \in Visits : u # v => visit'[u] = visit[u]
BY DEF ShareTypes, Goes

\* A step of a request that writes neither a row nor a key keeps the invariant.
LEMMA QuietVisit ==
    ASSUME SharesIndInv, NEW v \in Visits, NEW q \in VisitRows, Goes(v, q), VisitOK(q),
           UNCHANGED <<link, shareRest, shareHistory>>
    PROVE  SharesIndInv'
<1> USE DEF SharesIndInv, shareRest, shareHistory
<1>1. /\ visit' \in [Visits -> VisitRows] /\ visit'[v] = q
      /\ \A u \in Visits : u # v => visit'[u] = visit[u]
  BY VisitMoves
<1>2. ShareTypes'
  BY <1>1 DEF ShareTypes
<1>3. VisitsOK'
  BY <1>1 DEF VisitsOK, VisitOK
<1>4. UnusedFresh' /\ KeysPaid' /\ PaidCounted' /\ LinkHasSource'
  BY DEF UnusedFresh, KeysPaid, PaidCounted, LinkHasSource, Live
<1> QED BY <1>2, <1>3, <1>4

\* Every step of requests for shares, of the owner's changes, of the deletion
\* of sources and of keys that expire keeps it.
LEMMA SharesStep == SharesIndInv /\ [SharesNext]_shareVars => SharesIndInv'
<1> SUFFICES ASSUME SharesIndInv, [SharesNext]_shareVars PROVE SharesIndInv'
  OBVIOUS
<1> USE DEF SharesIndInv, shareRest, shareHistory
<1>0. /\ \A l \in Links : link[l] \in LinkRows
      /\ \A v \in Visits : visit[v] \in VisitRows /\ visit[v].snap \in LinkRows /\ VisitOK(visit[v])
  BY DEF ShareTypes, VisitsOK, VisitRows
<1>1. ASSUME NEW v \in Visits, NEW o \in Objects, NEW p \in Passwords \cup {NoPassword},
             NEW n \in Limits \cup {Unlimited}, ShareCreate(v, o, p, n)
      PROVE  SharesIndInv'
  <2> DEFINE s == [NoLink EXCEPT !.st = "live", !.src = o, !.pwd = p, !.limit = n, !.remain = n]
             q == [NoVisit EXCEPT !.pc = "create", !.snap = s]
  <2>1. s \in LinkRows
    <3>1. NoLink \in LinkShapes
      BY NothingTyped DEF LinkRows
    <3>2. n \in Int /\ (n # Unlimited => n \in Limits /\ n \in Nat)
      BY SharesAssumption DEF Unlimited
    <3>3. s \in LinkShapes
      BY <3>1, <3>2 DEF LinkShapes
    <3>4. s.st = "live" /\ s.src = o /\ s.limit = n /\ s.remain = n /\ s.downloads = 0
      BY DEF NoLink
    <3>5. LimitTold(s)
      BY <3>2, <3>4 DEF LimitTold
    <3> QED BY <3>3, <3>4, <3>5 DEF LinkRows
  <2>2. q \in VisitRows /\ q.pc = "create" /\ q.snap = s
    BY <2>1, NothingTyped DEF VisitRows, NoVisit
  <2>3. s.st = "live" /\ s.src = o /\ s.downloads = 0
    BY DEF NoLink
  <2>4. VisitOK(q)
    BY <2>2, <2>3 DEF VisitOK
  <2>5. Goes(v, q) /\ UNCHANGED <<link, shareRest, shareHistory>>
    BY <1>1 DEF ShareCreate
  <2> QED BY <2>2, <2>4, <2>5, QuietVisit
<1>2. ASSUME NEW v \in Visits, NEW l \in Links, InsertShare(v, l) PROVE SharesIndInv'
  <2> DEFINE r == [visit[v].snap EXCEPT !.late = visit[v].snap.src \notin source]
  <2>1. /\ visit[v].pc = "create" /\ link[l].st = "unused" /\ Goes(v, NoVisit)
        /\ link' = [link EXCEPT ![l] = r]
        /\ UNCHANGED <<shareRest, shareHistory>>
    BY <1>2 DEF InsertShare, VisitEnds
  <2>2. /\ r \in LinkRows /\ r.st = "live" /\ r.downloads = 0 /\ r.src \in Objects
        /\ r.late = (r.src \notin source) /\ LimitTold(r)
    BY <1>0, <2>1, ZenonT(60) DEF VisitOK, LinkRows, LinkShapes, LimitTold
  <2>3. /\ link' \in [Links -> LinkRows] /\ link'[l] = r
        /\ \A k \in Links : k # l => link'[k] = link[k]
    BY <2>1, <2>2 DEF ShareTypes
  <2>4. /\ visit' \in [Visits -> VisitRows] /\ visit'[v] = NoVisit
        /\ \A u \in Visits : u # v => visit'[u] = visit[u]
    BY <2>1, NothingTyped, VisitMoves
  <2>5. ShareTypes'
    BY <2>1, <2>3, <2>4 DEF ShareTypes
  <2>6. VisitsOK'
    <3> SUFFICES ASSUME NEW u \in Visits PROVE VisitOK(visit[u])'
      BY DEF VisitsOK
    <3>1. \A k \in Links : link[k].st # "unused" => link'[k] = link[k]
      BY <2>1, <2>3
    <3>2. CASE u = v
      BY <2>4, <3>2, NoVisitOK, NoVisitStaysOK
    <3>3. CASE u # v
      BY <1>0, <2>1, <2>4, <3>1, <3>3 DEF VisitOK
    <3> QED BY <3>2, <3>3
  <2>7. UnusedFresh' /\ KeysPaid'
    BY <2>1, <2>2, <2>3 DEF UnusedFresh, KeysPaid
  <2>8. PaidCounted'
    <3>1. granted'[l] = 0 /\ lostWrites'[l] = 0
      BY <2>1 DEF UnusedFresh
    <3>2. r.limit # Unlimited => 0 + r.remain <= r.limit * (1 + 0)
      BY <2>2, SharesAssumption DEF LimitTold
    <3> QED BY <2>1, <2>2, <2>3, <3>1, <3>2 DEF PaidCounted
  <2>9. LinkHasSource'
    BY <2>1, <2>2, <2>3 DEF LinkHasSource, Live
  <2> QED BY <2>5, <2>6, <2>7, <2>8, <2>9
<1>3. ASSUME NEW v \in Visits, NEW l \in Links, ShareOwner(v, l) PROVE SharesIndInv'
  <2> DEFINE q == [NoVisit EXCEPT !.pc = "update", !.link = l]
  <2>1. q \in VisitRows /\ q.pc = "update" /\ q.link = l
    BY NothingTyped DEF VisitRows, NoVisit
  <2>2. Goes(v, q) /\ UNCHANGED <<link, shareRest, shareHistory>> /\ link[l].st = "live"
    BY <1>3 DEF ShareOwner, Live
  <2>3. VisitOK(q)
    BY <2>1, <2>2 DEF VisitOK
  <2> QED BY <2>1, <2>2, <2>3, QuietVisit
<1>4. ASSUME NEW v \in Visits, NEW l \in Links, NEW w \in Visitors, NEW r \in Routes, ShareAvailable(v, l, w, r)
      PROVE  SharesIndInv'
  <2> DEFINE s == [link[l] EXCEPT !.pwd = NoPassword]
             q == [pc |-> "loaded", route |-> r, link |-> l, who |-> w, snap |-> s]
  <2>1. s \in LinkRows /\ s.remain = link[l].remain /\ s.limit = link[l].limit
    BY <1>0 DEF LinkRows, LinkShapes, LimitTold
  <2>2. q \in VisitRows
    BY <2>1 DEF VisitRows
  <2>3. Goes(v, q) /\ UNCHANGED <<link, shareRest, shareHistory>> /\ link[l].st = "live" /\ link[l].remain # 0
    BY <1>4 DEF ShareAvailable, Live, IsAvailable
  <2>4. VisitOK(q)
    BY <2>1, <2>3 DEF VisitOK
  <2> QED BY <2>2, <2>3, <2>4, QuietVisit
<1>5. ASSUME NEW v \in Visits, NEW l \in Links, NEW w \in Visitors, NEW p \in Passwords, GetShare(v, l, w, p)
      PROVE  SharesIndInv'
  <2>1. unlockKey' \subseteq Links \X Visitors /\ UNCHANGED <<link, source, deleting, paidKey, visit, shareHistory>>
    BY <1>5 DEF GetShare, ShareTypes
  <2> QED BY <2>1 DEF ShareTypes, VisitsOK, VisitOK, UnusedFresh, KeysPaid, PaidCounted,
          LinkHasSource, Live
<1>6. ASSUME NEW l \in Links, NEW w \in Visitors, Forget(l, w) PROVE SharesIndInv'
  <2>1. paidKey' \subseteq paidKey /\ UNCHANGED <<link, source, deleting, unlockKey, visit, shareHistory>>
    BY <1>6 DEF Forget
  <2> QED BY <2>1 DEF ShareTypes, VisitsOK, VisitOK, UnusedFresh, KeysPaid, PaidCounted,
          LinkHasSource, Live
\* the rows change, keeping counters and limits, or going away
<1>7. ASSUME link' \in [Links -> LinkRows], UNCHANGED <<paidKey, unlockKey, shareHistory>>,
             source' \subseteq Objects, deleting' \subseteq Objects \ source',
             visit' \in [Visits -> VisitRows], \A u \in Visits : visit'[u] \in {visit[u], NoVisit},
             \A k \in Links :
                \/ link'[k].st = "deleted"
                \/ link'[k].st = link[k].st /\ link'[k].limit = link[k].limit
                   /\ link'[k].remain = link[k].remain /\ link'[k].downloads = link[k].downloads,
             LinkHasSource'
      PROVE  SharesIndInv'
  <2>1. ShareTypes'
    BY <1>7 DEF ShareTypes
  <2>2. VisitsOK'
    <3> SUFFICES ASSUME NEW u \in Visits PROVE VisitOK(visit[u])'
      BY DEF VisitsOK
    <3>1. CASE visit'[u] = NoVisit
      BY <3>1, NoVisitStaysOK
    <3>2. CASE visit'[u] = visit[u]
      BY <1>0, <1>7, <3>2 DEF VisitOK
    <3> QED BY <1>7, <3>1, <3>2
  <2>3. UnusedFresh' /\ KeysPaid'
    BY <1>7 DEF UnusedFresh, KeysPaid
  <2>4. PaidCounted'
    BY <1>7 DEF PaidCounted
  <2> QED BY <1>7, <2>1, <2>2, <2>3, <2>4
<1>8. ASSUME NEW v \in Visits, NEW p \in Passwords \cup {NoPassword}, ShareUpdate(v, p) PROVE SharesIndInv'
  <2> DEFINE l == visit[v].link
  <2>1. /\ visit[v].pc = "update" /\ Goes(v, NoVisit) /\ UNCHANGED <<shareRest, shareHistory>>
        /\ link' = IF link[l].st = "live" THEN [link EXCEPT ![l].pwd = p] ELSE link
    BY <1>8 DEF ShareUpdate, VisitEnds, Live
  <2>2. l \in Links
    BY <1>0, <2>1 DEF VisitOK
  <2>3. /\ visit' \in [Visits -> VisitRows] /\ \A u \in Visits : visit'[u] \in {visit[u], NoVisit}
    BY <2>1, NothingTyped, VisitMoves
  <2>4. [link[l] EXCEPT !.pwd = p] \in LinkRows
    BY <1>0, <2>2, ZenonT(60) DEF LinkRows, LinkShapes, LimitTold
  <2>5. /\ link' \in [Links -> LinkRows]
        /\ \A k \in Links : link'[k].st = link[k].st /\ link'[k].limit = link[k].limit
                   /\ link'[k].remain = link[k].remain /\ link'[k].downloads = link[k].downloads
                   /\ link'[k].src = link[k].src /\ link'[k].late = link[k].late
    <3>1. \A k \in Links : link[k] \in LinkShapes
      BY <1>0 DEF LinkRows
    <3>2. link' \in [Links -> LinkRows]
      BY <2>1, <2>2, <2>4 DEF ShareTypes
    <3> QED BY <2>1, <2>2, <3>1, <3>2, ZenonT(60) DEF ShareTypes, LinkShapes
  <2>6. LinkHasSource'
    BY <2>1, <2>5 DEF LinkHasSource, Live
  <2>7. source' \subseteq Objects /\ deleting' \subseteq Objects \ source'
    BY <2>1 DEF ShareTypes
  <2> QED BY <1>7, <2>1, <2>3, <2>5, <2>6, <2>7
<1>9. [NoLink EXCEPT !.st = "deleted"] \in LinkRows /\ [NoLink EXCEPT !.st = "deleted"].st = "deleted"
  BY NothingTyped DEF NoLink, LinkRows, LinkShapes, LimitTold
<1>10. ASSUME NEW l \in Links, ShareDelete(l) PROVE SharesIndInv'
  <2>1. link' = [link EXCEPT ![l] = [NoLink EXCEPT !.st = "deleted"]] /\ UNCHANGED <<shareRest, visit, shareHistory>>
    BY <1>10 DEF ShareDelete
  <2>2. link' \in [Links -> LinkRows] /\ link'[l].st = "deleted" /\ \A k \in Links : k # l => link'[k] = link[k]
    BY <1>9, <2>1 DEF ShareTypes
  <2>3. LinkHasSource'
    BY <2>1, <2>2 DEF LinkHasSource, Live
  <2>4. source' \subseteq Objects /\ deleting' \subseteq Objects \ source' /\ visit' \in [Visits -> VisitRows]
    BY <2>1 DEF ShareTypes
  <2> QED BY <1>7, <2>1, <2>2, <2>3, <2>4
<1>11. ASSUME NEW o \in Objects, DeleteSource(o) PROVE SharesIndInv'
  <2>1. source' = source \ {o} /\ deleting' = deleting \cup {o} /\ UNCHANGED <<link, paidKey, unlockKey, visit, shareHistory>>
    BY <1>11 DEF DeleteSource
  <2>2. LinkHasSource'
    BY <2>1 DEF LinkHasSource, Live
  <2>3. source' \subseteq Objects /\ deleting' \subseteq Objects \ source'
        /\ visit' \in [Visits -> VisitRows] /\ link' \in [Links -> LinkRows]
    BY <2>1 DEF ShareTypes
  <2> QED BY <1>7, <2>1, <2>2, <2>3
<1>12. ASSUME NEW o \in Objects, DeleteShareBySourceIDs(o) PROVE SharesIndInv'
  <2>1. /\ deleting' = deleting \ {o} /\ UNCHANGED <<source, paidKey, unlockKey, visit, shareHistory>>
        /\ link' = [l \in Links |-> IF l \in LinksTo(o) THEN [NoLink EXCEPT !.st = "deleted"] ELSE link[l]]
    BY <1>12 DEF DeleteShareBySourceIDs
  <2>2. /\ link' \in [Links -> LinkRows]
        /\ \A k \in Links : link'[k].st = "deleted" \/ (link'[k] = link[k] /\ k \notin LinksTo(o))
    BY <1>0, <1>9, <2>1
  <2>3. LinkHasSource'
    BY <2>1, <2>2 DEF LinkHasSource, Live, LinksTo
  <2>4. source' \subseteq Objects /\ deleting' \subseteq Objects \ source' /\ visit' \in [Visits -> VisitRows]
    BY <2>1 DEF ShareTypes
  <2> QED BY <1>7, <2>1, <2>2, <2>3, <2>4
<1>13. ASSUME NEW v \in Visits, BeforeShareDownload(v) PROVE SharesIndInv'
  <2> DEFINE q == visit[v]
  <2>1. q.pc = "loaded" /\ UNCHANGED <<link, shareRest, shareHistory>> /\ q \in VisitRows /\ VisitOK(q)
    BY <1>0, <1>13 DEF BeforeShareDownload
  <2>2. CASE Goes(v, [q EXCEPT !.pc = "pay"])
    <3>1. [q EXCEPT !.pc = "pay"] \in VisitRows
      BY <2>1 DEF VisitRows
    <3>2. VisitOK([q EXCEPT !.pc = "pay"])
      BY <2>1 DEF VisitOK, VisitRows
    <3> QED BY <2>1, <2>2, <3>1, <3>2, QuietVisit
  <2>3. CASE (q.route = "pays" => WasDownloadedBy(q)) /\ Goes(v, [q EXCEPT !.pc = "serve", !.snap = Src(q.snap)])
    <3>1. Src(q.snap) \in LinkRows
      <4>1. q.snap.src \in Objects \cup {""}
        BY <1>0 DEF LinkRows, LinkShapes
      <4> QED BY <4>1, SourceTyped DEF Src
    <3>2. [q EXCEPT !.pc = "serve", !.snap = Src(q.snap)] \in VisitRows
      BY <2>1, <3>1 DEF VisitRows
    <3>3. VisitOK([q EXCEPT !.pc = "serve", !.snap = Src(q.snap)])
      BY <2>1, <2>3 DEF VisitOK, VisitRows, WasDownloadedBy, KeysPaid
    <3> QED BY <2>1, <2>3, <3>2, <3>3, QuietVisit
  <2>4. CASE VisitEnds(v)
    BY <2>1, <2>4, NothingTyped, NoVisitOK, QuietVisit DEF VisitEnds
  <2> QED BY <1>13, <2>2, <2>3, <2>4 DEF BeforeShareDownload
<1>14. ASSUME NEW v \in Visits, Downloaded(v) PROVE SharesIndInv'
  <2> DEFINE q == visit[v]
             l == q.link
             s == q.snap
             c == Counters(s)
             q1 == [q EXCEPT !.pc = "mark", !.snap = Src(s)]
             lose == IF Live(l) /\ link[l].downloads # s.downloads THEN 1 ELSE 0
  <2>1. /\ q.pc = "pay" /\ Goes(v, q1)
        /\ link' = IF Live(l) THEN [link EXCEPT ![l].downloads = c.downloads, ![l].remain = c.remain] ELSE link
        /\ granted' = [granted EXCEPT ![l] = granted[l] + 1]
        /\ payers' = payers \cup {<<l, q.who>>}
        /\ lostWrites' = [lostWrites EXCEPT ![l] = lostWrites[l] + lose]
        /\ UNCHANGED shareRest
    BY <1>14 DEF Downloaded
  <2>2. /\ q \in VisitRows /\ s \in LinkRows /\ l \in Links /\ q.who \in Visitors /\ link[l].st # "unused"
        /\ s.remain # 0 /\ (link[l].st = "live" => s.limit = link[l].limit)
    BY <1>0, <2>1 DEF VisitOK
  <2>3. /\ s.downloads \in Nat /\ s.limit \in Limits \cup {Unlimited} /\ s.remain \in Int
        /\ \/ s.limit = Unlimited /\ s.remain = Unlimited
           \/ s.limit \in Limits /\ s.downloads <= s.limit /\ s.remain = s.limit - s.downloads
    BY <2>2 DEF LinkRows, LinkShapes, LimitTold
  <2>4. /\ c.downloads = s.downloads + 1
        /\ s.limit = Unlimited => c.remain = Unlimited
        /\ s.limit # Unlimited => c.remain = s.remain - 1 /\ s.limit \in Nat /\ s.remain > 0
    <3>1. c.downloads = s.downloads + 1 /\ c.remain = IF s.remain > 0 THEN s.remain - 1 ELSE s.remain
      BY DEF Counters
    <3>2. CASE s.limit = Unlimited
      <4>1. s.limit \notin Limits /\ s.remain = Unlimited
        BY <2>3, <3>2, SharesAssumption DEF Unlimited
      <4>2. ~(s.remain > 0)
        BY <4>1 DEF Unlimited
      <4> QED BY <3>1, <3>2, <4>1, <4>2
    <3>3. CASE s.limit # Unlimited
      <4>1. s.limit \in Nat /\ s.downloads <= s.limit /\ s.remain = s.limit - s.downloads
        BY <2>3, <3>3, SharesAssumption
      <4>2. s.remain > 0
        BY <2>2, <2>3, <4>1
      <4> QED BY <3>1, <3>3, <4>1, <4>2
    <3> QED BY <3>2, <3>3
  <2>5. Src(s) \in LinkRows
    <3>1. s.src \in Objects \cup {""}
      BY <2>2 DEF LinkRows, LinkShapes
    <3> QED BY <3>1, SourceTyped DEF Src
  <2>6. q1 \in VisitRows /\ q1.pc = "mark" /\ q1.link = l /\ q1.who = q.who
    BY <2>2, <2>5 DEF VisitRows
  <2>7. /\ visit' \in [Visits -> VisitRows] /\ visit'[v] = q1
        /\ \A u \in Visits : u # v => visit'[u] = visit[u]
    <3> HIDE DEF q1
    <3> QED BY <2>1, <2>6, VisitMoves
  <2>8. /\ link' \in [Links -> LinkRows]
        /\ \A k \in Links : link'[k].st = link[k].st /\ link'[k].limit = link[k].limit
                            /\ link'[k].src = link[k].src /\ link'[k].late = link[k].late
        /\ \A k \in Links : k # l => link'[k] = link[k]
        /\ link[l].st = "live" => link'[l].downloads = s.downloads + 1 /\ link'[l].remain = c.remain
    <3>1. CASE ~Live(l)
      BY <2>1, <3>1 DEF Live, ShareTypes
    <3>2. CASE Live(l)
      <4> DEFINE r == [link[l] EXCEPT !.downloads = c.downloads, !.remain = c.remain]
      <4>1. link' = [link EXCEPT ![l] = r]
        BY <2>1, <2>2, <3>2 DEF ShareTypes
      <4>2. link[l] \in LinkShapes /\ s.limit = link[l].limit
        BY <1>0, <2>2, <3>2 DEF LinkRows, Live
      <4>3. /\ r.downloads = s.downloads + 1 /\ r.remain = c.remain /\ r.limit = link[l].limit /\ r.st = link[l].st
            /\ r.src = link[l].src /\ r.late = link[l].late
        BY <2>4, <4>2 DEF LinkShapes
      <4>4. c.downloads \in Nat /\ c.remain \in Int
        BY <2>3, <2>4 DEF Unlimited
      <4>5. r \in LinkShapes
        BY <4>2, <4>4 DEF LinkShapes
      <4>6. LimitTold(r)
        BY <2>3, <2>4, <4>2, <4>3, SharesAssumption DEF LimitTold, Unlimited
      <4>7. r \in LinkRows
        <5>1. r.st = "live" => r.src \in Objects
          BY <1>0, <2>2, <4>3 DEF LinkRows
        <5> QED BY <4>5, <4>6, <5>1 DEF LinkRows
      <4> HIDE DEF r
      <4> QED BY <2>2, <4>1, <4>3, <4>7 DEF ShareTypes
    <3> QED BY <3>1, <3>2
  <2>9. /\ granted' \in [Links -> Nat] /\ lostWrites' \in [Links -> Nat] /\ lose \in {0, 1}
        /\ granted'[l] = granted[l] + 1 /\ lostWrites'[l] = lostWrites[l] + lose
        /\ \A k \in Links : k # l => granted'[k] = granted[k] /\ lostWrites'[k] = lostWrites[k]
    BY <2>1, <2>2 DEF ShareTypes
  <2>10. ShareTypes'
    BY <2>1, <2>7, <2>8, <2>9 DEF ShareTypes
  <2>11. VisitsOK'
    <3> SUFFICES ASSUME NEW u \in Visits PROVE VisitOK(visit[u])'
      BY DEF VisitsOK
    <3>1. CASE u = v
      <4> HIDE DEF q1
      <4> QED BY <2>1, <2>2, <2>6, <2>7, <2>8, <3>1 DEF VisitOK
    <3>2. CASE u # v
      <4> DEFINE w == visit[u]
      <4>1. VisitOK(w) /\ visit'[u] = w
        BY <2>7, <3>2 DEF VisitsOK
      <4>2. \A k \in Links : link'[k].st = link[k].st /\ link'[k].limit = link[k].limit
        BY <2>8
      <4>3. payers \subseteq payers'
        BY <2>1
      <4> HIDE DEF w
      <4> QED BY <4>1, <4>2, <4>3 DEF VisitOK
    <3> QED BY <3>1, <3>2
  <2>12. UnusedFresh' /\ KeysPaid'
    BY <2>1, <2>2, <2>8, <2>9, ZenonT(60) DEF UnusedFresh, KeysPaid
  <2>13. PaidCounted'
    <3> SUFFICES ASSUME NEW k \in Links, link'[k].st = "live"
                 PROVE  /\ lostWrites'[k] = 0 => link'[k].downloads = granted'[k]
                        /\ link'[k].limit # Unlimited =>
                            granted'[k] + link'[k].remain <= link'[k].limit * (1 + lostWrites'[k])
      BY DEF PaidCounted
    <3>1. CASE k # l
      BY <2>8, <2>9, <3>1 DEF PaidCounted
    <3>2. CASE k = l
      <4>1. link[l].st = "live" /\ Live(l) /\ s.limit = link[l].limit
        BY <2>2, <2>8, <3>2 DEF Live
      <4>2. link[l].downloads \in Nat /\ link[l].remain \in Int /\ granted[l] \in Nat /\ lostWrites[l] \in Nat
        BY <1>0, <2>2 DEF LinkRows, LinkShapes, ShareTypes
      <4>3. lostWrites'[l] = 0 => link'[l].downloads = granted'[l]
        <5>1. lostWrites'[l] = 0 => lostWrites[l] = 0 /\ lose = 0
          BY <2>9, <4>2
        <5>2. lose = 0 => link[l].downloads = s.downloads
          BY <4>1
        <5>3. lostWrites[l] = 0 => link[l].downloads = granted[l]
          BY <2>2, <4>1 DEF PaidCounted
        <5>4. link'[l].downloads = s.downloads + 1 /\ granted'[l] = granted[l] + 1
          BY <2>8, <2>9, <4>1
        <5> HIDE DEF lose, s, l
        <5> QED BY <5>1, <5>2, <5>3, <5>4
      <4>4. ASSUME s.limit # Unlimited
            PROVE  granted'[l] + link'[l].remain <= s.limit * (1 + lostWrites'[l])
        <5>1. /\ granted[l] + link[l].remain <= s.limit * (1 + lostWrites[l])
              /\ link[l].remain = s.limit - link[l].downloads /\ link[l].downloads <= s.limit
          BY <1>0, <2>2, <4>1, <4>4 DEF PaidCounted, LinkRows, LimitTold
        <5>2. granted'[l] + link'[l].remain = granted[l] + s.remain /\ s.limit \in Nat /\ s.remain = s.limit - s.downloads
          BY <2>3, <2>4, <2>8, <2>9, <4>1, <4>2, <4>4, SMTT(30)
        <5>3. CASE lose = 0
          <6>1. link[l].downloads = s.downloads
            BY <4>1, <5>3
          <6> QED BY <2>9, <4>2, <5>1, <5>2, <5>3, <6>1
        <5>4. CASE lose = 1
          <6>1. s.limit * (1 + lostWrites'[l]) = s.limit * (1 + lostWrites[l]) + s.limit
            BY <2>9, <4>2, <5>2, <5>4
          <6>2. s.limit * (1 + lostWrites[l]) \in Int
            BY <4>2, <5>2
          <6> QED BY <2>3, <4>2, <5>1, <5>2, <6>1, <6>2
        <5> QED BY <2>9, <5>3, <5>4
      <4> QED BY <2>8, <3>2, <4>1, <4>3, <4>4
    <3> QED BY <3>1, <3>2
  <2>14. LinkHasSource'
    <3>1. /\ \A k \in Links : link'[k].st = link[k].st /\ link'[k].src = link[k].src /\ link'[k].late = link[k].late
          /\ UNCHANGED <<source, deleting>>
      BY <2>1, <2>8
    <3>2. LinkHasSource
      OBVIOUS
    <3> HIDE DEF SharesIndInv
    <3> QED BY <3>1, <3>2 DEF LinkHasSource, Live
  <2> QED BY <2>10, <2>11, <2>12, <2>13, <2>14
<1>15. ASSUME NEW v \in Visits, DownloadBy(v) PROVE SharesIndInv'
  <2> DEFINE q == visit[v]
             q1 == [q EXCEPT !.pc = "serve"]
  <2>1. /\ q.pc = "mark" /\ Goes(v, q1) /\ paidKey' = paidKey \cup {<<q.link, q.who>>}
        /\ UNCHANGED <<link, source, deleting, unlockKey, shareHistory>>
    BY <1>15 DEF DownloadBy
  <2>2. q \in VisitRows /\ <<q.link, q.who>> \in payers /\ q.link \in Links /\ q.who \in Visitors /\ VisitOK(q)
    BY <1>0, <2>1 DEF VisitOK
  <2>3. q1 \in VisitRows /\ q1.pc = "serve" /\ q1.link = q.link /\ q1.who = q.who
    BY <2>2 DEF VisitRows
  <2>4. /\ visit' \in [Visits -> VisitRows] /\ visit'[v] = q1
        /\ \A u \in Visits : u # v => visit'[u] = visit[u]
    <3> HIDE DEF q1
    <3> QED BY <2>1, <2>3, VisitMoves
  <2>5. ShareTypes'
    BY <2>1, <2>2, <2>4 DEF ShareTypes
  <2>6. VisitsOK'
    <3> SUFFICES ASSUME NEW u \in Visits PROVE VisitOK(visit[u])'
      BY DEF VisitsOK
    <3>1. CASE u = v
      <4> HIDE DEF q1
      <4> QED BY <2>1, <2>2, <2>3, <2>4, <3>1 DEF VisitOK
    <3>2. CASE u # v
      BY <1>0, <2>1, <2>4, <3>2 DEF VisitOK
    <3> QED BY <3>1, <3>2
  <2>7. UnusedFresh' /\ KeysPaid' /\ PaidCounted' /\ LinkHasSource'
    BY <2>1, <2>2 DEF UnusedFresh, KeysPaid, PaidCounted, LinkHasSource, Live
  <2> QED BY <2>5, <2>6, <2>7
<1>16. ASSUME NEW v \in Visits, NEW r \in Routes, Answers(v, r) PROVE SharesIndInv'
  BY <1>16, NothingTyped, NoVisitOK, QuietVisit DEF Answers, VisitEnds
<1>17. CASE UNCHANGED shareVars
  BY <1>17 DEF shareVars, ShareTypes, VisitsOK, VisitOK, UnusedFresh, KeysPaid, PaidCounted,
    LinkHasSource, Live
<1>18. "pays" \in Routes /\ "free" \in Routes
  BY DEF Routes
<1> QED
  BY <1>1, <1>2, <1>3, <1>4, <1>5, <1>6, <1>8, <1>10, <1>11, <1>12, <1>13, <1>14, <1>15, <1>16,
    <1>17, <1>18
  DEF SharesNext, ShareDownloadSession, SharePreviewContent, ShareDocPreview, ListSharedFolder, ShareThumb,
      ArchiveShare, SearchSharedFolder

\* It implies what the run checks.
LEMMA SharesIndInvImplies == SharesIndInv => SharesInv
<1> SUFFICES ASSUME SharesIndInv PROVE SharesInv
  OBVIOUS
<1> USE DEF SharesIndInv
<1>1. \A l \in Links : /\ link[l] \in LinkShapes /\ LimitTold(link[l])
                       /\ link[l].st = "live" => link[l].src \in Objects
  BY DEF ShareTypes, LinkRows
<1>2. ShareTypeOK
  <2>1. ASSUME NEW l \in Links, Live(l)
        PROVE  /\ link[l].src \in Objects /\ link[l].pwd \in Passwords \cup {NoPassword}
               /\ link[l].remain \in 0 .. link[l].limit \/ link[l].remain = Unlimited
               /\ link[l].downloads \in Nat
    <3>1. link[l] \in LinkShapes /\ LimitTold(link[l]) /\ link[l].src \in Objects
      BY <1>1, <2>1 DEF Live
    <3>2. link[l].downloads \in Nat /\ link[l].pwd \in Passwords \cup {NoPassword}
      BY <3>1 DEF LinkShapes
    <3>3. CASE link[l].remain = Unlimited
      BY <3>1, <3>2, <3>3
    <3>4. CASE link[l].remain # Unlimited
      <4>1. link[l].limit \in Nat /\ link[l].downloads <= link[l].limit
            /\ link[l].remain = link[l].limit - link[l].downloads
        BY <3>1, <3>4, SharesAssumption DEF LimitTold
      <4> QED BY <3>1, <3>2, <4>1
    <3> QED BY <3>3, <3>4
  <2>2. \A v \in Visits : visit[v].pc \in {"idle", "loaded", "pay", "mark", "serve", "create", "update"}
    BY DEF ShareTypes, VisitRows
  <2> QED BY <2>1, <2>2 DEF ShareTypeOK, ShareTypes
<1>3. OvershootBounded /\ DownloadsAccounted
  <2>1. ASSUME NEW l \in Links, Live(l), lostWrites[l] = 0, link[l].limit # Unlimited
        PROVE  link[l].remain = link[l].limit - granted[l]
    BY <1>1, <2>1 DEF Live, LimitTold, PaidCounted
  <2> QED BY <2>1 DEF OvershootBounded, DownloadsAccounted, PaidCounted, Live
<1>4. ServedHasPaid
  BY DEF ServedHasPaid, VisitsOK, VisitOK
<1> QED BY <1>2, <1>3, <1>4 DEF SharesInv

\* A share counts every paid download and grants no more than its limit, but
\* for one limit more with every write from an old row; who is served by a
\* paying route has paid for this share; and a share has its source unless the
\* source is being deleted or went while the share was made (ShareAvailable,
\* BeforeShareDownload, Share.Downloaded, WasDownloadedBy, FileSystem.Delete,
\* ShareCreateService.Create): for every set of shares, visitors, requests and
\* limits.
THEOREM SharesHold == SharesSpec => []SharesInv
BY SharesInitInv, SharesStep, SharesIndInvImplies, PTL DEF SharesSpec

-----------------------------------------------------------------------------
(* Accounts.                                                               *)

\* The columns of a user's row.
UserRows ==
    {r \in [Columns -> Nat \cup SUBSET Nat] :
        /\ r["storage"] \in {0, 1} /\ r["authn"] \in SUBSET Nat
        /\ \A c \in Columns \ {"authn"} : r[c] \in Nat}

\* A user's row and status.
AcctRows == [status : {"none", "inactive", "active", "banned"}, row : UserRows]

\* What a handler is about to do.
AccountOps ==
    {"none", "activate", "ban", "theme", "homepage", "FinishRegAuthn", "DeleteWebAuthn",
     "nick", "password", "2fa", "save", "reset"}

\* A handler with the row it loaded.
ActRows ==
    [pc : {"idle", "write", "delete"}, op : AccountOps, user : Users \cup {""}, arg : Nat,
     snap : UserRows, status : {"", "none", "inactive", "active", "banned"}, stale : BOOLEAN]

\* The types of the variables.
AccountTypes ==
    /\ acct \in [Users -> AcctRows] /\ want \in [Users -> UserRows]
    /\ session \in [Users -> {"out", "half", "in"}]
    /\ resetKey \in [Users -> Nat] /\ mails \in [Users -> Nat]
    /\ \A u \in Users : resetKey[u] <= mails[u] /\ mails[u] <= MaxMails
    /\ act \in [Handlers -> ActRows] /\ edits \in 0 .. MaxEdits
    /\ overlapped \in BOOLEAN /\ lateActivation \in BOOLEAN
    /\ decision \in [Users -> {"none", "inactive", "active", "banned"}]
    /\ resets \in [Users -> [1 .. MaxMails -> Nat]]

\* The columns of the loaded row that go into what the handler writes
\* (UpdateOptions marshals them together; Save writes all of them).
UsedColumns(op) ==
    CASE op \in {"theme", "homepage"} -> Options
      [] op \in {"FinishRegAuthn", "DeleteWebAuthn"} -> {"authn"}
      [] op = "save" -> Columns
      [] OTHER -> {}

\* What a handler that is under way knows: unless the row was written since,
\* the columns it uses are those of the row.
HandlerOK(q) ==
    /\ q.pc # "idle" => q.user \in Users
    /\ q.pc = "write" /\ q.op = "activate" => q.status = "inactive"
    /\ q.pc = "delete" => q.op = "reset"
    /\ q.op = "reset" => q.pc # "idle" /\ q.arg # 0 /\ q.arg <= mails[q.user]
    /\ q.pc = "write" /\ ~q.stale =>
        \A c \in UsedColumns(q.op) : q.snap[c] = acct[q.user].row[c]

\* This holds of every handler.
HandlersOK == \A h \in Handlers : HandlerOK(act[h])

\* The handler has checked the secret of this reset mail.
Holds(g, u, m) == act[g].op = "reset" /\ act[g].user = u /\ act[g].arg = m

\* A reset mail is being used by one handler at most, has reset nothing as long
\* as it can, and resets once (UserResetService.Reset).
MailOnce(u, m) ==
    /\ \A g, h \in Handlers : Holds(g, u, m) /\ Holds(h, u, m) => g = h
    /\ \A g \in Handlers : Holds(g, u, m) /\ act[g].pc = "write" => resets[u][m] = 0
    /\ resetKey[u] = m /\ (\A g \in Handlers : ~Holds(g, u, m)) => resets[u][m] = 0
    /\ mails[u] < m => resets[u][m] = 0
    /\ resets[u][m] <= 1

\* This holds of every mail that was not used twice at the same time.
MailsOnce == \A u \in Users, m \in 1 .. MaxMails : <<u, m>> \in racedMails \/ MailOnce(u, m)

\* The inductive invariant. What a user asked for is kept because a handler
\* that writes loaded today's columns: the invariant says so of every handler
\* under way.
AccountsIndInv == AccountTypes /\ HandlersOK /\ SettingsKept /\ BanHolds /\ MailsOnce

-----------------------------------------------------------------------------

\* The columns by name.
LEMMA ColumnNames ==
    /\ Columns = {"theme", "profile_off", "nick", "password", "two_factor", "authn", "storage"}
    /\ Options = {"theme", "profile_off"}
BY DEF Columns, Options

\* The empty rows have their types.
LEMMA BlankTyped == Blank \in UserRows /\ NoAct \in ActRows
<1>1. Blank \in [Columns -> Nat \cup SUBSET Nat] /\ Blank["storage"] = 0 /\ Blank["authn"] = {}
      /\ \A c \in Columns \ {"authn"} : Blank[c] = 0
  BY ColumnNames DEF Blank
<1>2. Blank \in UserRows
  BY <1>1 DEF UserRows
<1>3. FALSE \in BOOLEAN
  OBVIOUS
<1>4. 0 \in Nat
  OBVIOUS
<1>5. "none" \in AccountOps
  BY DEF AccountOps
<1> QED BY <1>2, <1>3, <1>4, <1>5, Zenon DEF NoAct, ActRows

\* A row with one column changed (User.Update).
LEMMA OverOnly ==
    ASSUME NEW r \in UserRows, NEW c \in Columns, NEW v,
           c = "authn" => v \in SUBSET Nat, c # "authn" => v \in Nat, c = "storage" => v \in {0, 1}
    PROVE  /\ Over(Only(c, v), r) \in UserRows
           /\ \A d \in Columns : Over(Only(c, v), r)[d] = IF d = c THEN v ELSE r[d]
<1>1. r \in [Columns -> Nat \cup SUBSET Nat] /\ r["storage"] \in {0, 1} /\ r["authn"] \in SUBSET Nat
      /\ \A d \in Columns \ {"authn"} : r[d] \in Nat
  BY DEF UserRows
<1>2. Over(Only(c, v), r) = [d \in Columns |-> IF d = c THEN v ELSE r[d]]
  BY DEF Over, Only
<1>3. "storage" \in Columns /\ "authn" \in Columns /\ v \in Nat \cup SUBSET Nat
  BY ColumnNames
<1> HIDE DEF Over, Only
<1> QED BY <1>1, <1>2, <1>3 DEF UserRows

\* A row with several columns changed, the storage and the credentials of
\* WebAuthn not among them.
LEMMA OverPlain ==
    ASSUME NEW r \in UserRows, NEW f, DOMAIN f \subseteq Columns \ {"storage", "authn"},
           \A c \in DOMAIN f : f[c] \in Nat
    PROVE  /\ Over(f, r) \in UserRows
           /\ \A c \in Columns : Over(f, r)[c] = IF c \in DOMAIN f THEN f[c] ELSE r[c]
<1>1. r \in [Columns -> Nat \cup SUBSET Nat] /\ r["storage"] \in {0, 1} /\ r["authn"] \in SUBSET Nat
      /\ \A d \in Columns \ {"authn"} : r[d] \in Nat
  BY DEF UserRows
<1>2. "storage" \in Columns /\ "authn" \in Columns
  BY ColumnNames
<1> QED BY <1>1, <1>2 DEF UserRows, Over

\* A row is its columns.
LEMMA SameRow ==
    ASSUME NEW r \in UserRows, NEW w \in UserRows, \A c \in Columns : r[c] = w[c] PROVE r = w
BY DEF UserRows

\* It holds when there is no user.
LEMMA AccountsInitInv == AccountsInit => AccountsIndInv
<1> SUFFICES ASSUME AccountsInit PROVE AccountsIndInv
  OBVIOUS
<1>1. AccountTypes
  <2>1. [status |-> "none", row |-> Blank] \in AcctRows
    BY BlankTyped DEF AcctRows
  <2>2. overlapped \in BOOLEAN /\ lateActivation \in BOOLEAN
    BY DEF AccountsInit
  <2>3. resets \in [Users -> [1 .. MaxMails -> Nat]] /\ edits \in 0 .. MaxEdits
    BY AccountsAssumption DEF AccountsInit
  <2>4. /\ resetKey \in [Users -> Nat] /\ mails \in [Users -> Nat]
        /\ \A u \in Users : resetKey[u] <= mails[u] /\ mails[u] <= MaxMails
    BY AccountsAssumption DEF AccountsInit
  <2> QED BY <2>1, <2>2, <2>3, <2>4, BlankTyped DEF AccountsInit, AccountTypes
<1>2. HandlersOK
  <2>1. HandlerOK(NoAct)
    BY DEF HandlerOK, NoAct
  <2> QED BY <2>1 DEF AccountsInit, HandlersOK
<1>3. SettingsKept /\ BanHolds
  BY DEF AccountsInit, SettingsKept, BanHolds
<1>4. MailsOnce
  <2>1. NoAct.op = "none"
    BY DEF NoAct
  <2> QED BY <2>1 DEF AccountsInit, MailsOnce, MailOnce, Holds
<1> QED BY <1>1, <1>2, <1>3, <1>4 DEF AccountsIndInv

-----------------------------------------------------------------------------

\* A step that uses no reset mail keeps what holds of the mails.
LEMMA MailsQuiet ==
    ASSUME MailsOnce, UNCHANGED <<mails, resets, racedMails>>,
           \A u \in Users : resetKey'[u] = resetKey[u] \/ resetKey'[u] = 0,
           \A g \in Handlers :
              \/ act[g].op # "reset" /\ act'[g].op # "reset"
              \/ /\ act'[g].op = act[g].op /\ act'[g].user = act[g].user
                 /\ act'[g].arg = act[g].arg /\ act'[g].pc = act[g].pc
    PROVE  MailsOnce'
<1> SUFFICES ASSUME NEW u \in Users, NEW m \in 1 .. MaxMails, <<u, m>> \notin racedMails
             PROVE  MailOnce(u, m)'
  BY DEF MailsOnce
<1>1. MailOnce(u, m) /\ m # 0
  BY AccountsAssumption DEF MailsOnce
<1>2. \A g \in Handlers : Holds(g, u, m)' <=> Holds(g, u, m)
  BY DEF Holds
<1>3. \A g \in Handlers : Holds(g, u, m) => act'[g].pc = act[g].pc
  BY DEF Holds
<1> QED BY <1>1, <1>2, <1>3 DEF MailOnce

\* A write to a user's row makes every other handler that has loaded it stale.
LEMMA RowWritten ==
    ASSUME AccountTypes, HandlersOK, NEW u \in Users, NEW H \in SUBSET Handlers, NEW next \in ActRows,
           HandlerOK(next), next.pc # "write",
           act' = [g \in Handlers |-> IF g \in H THEN next
                                       ELSE IF act[g].pc # "idle" /\ act[g].user = u
                                            THEN [act[g] EXCEPT !.stale = TRUE] ELSE act[g]],
           \A k \in Users : k # u => acct'[k] = acct[k], UNCHANGED mails
    PROVE  act' \in [Handlers -> ActRows] /\ HandlersOK'
<1>1. \A g \in Handlers : act[g] \in ActRows /\ HandlerOK(act[g])
  BY DEF AccountTypes, HandlersOK
<1>2. \A g \in Handlers : [act[g] EXCEPT !.stale = TRUE] \in ActRows
  BY <1>1 DEF ActRows
<1>3. act' \in [Handlers -> ActRows]
  BY <1>1, <1>2
<1>4. ASSUME NEW g \in Handlers PROVE HandlerOK(act[g])'
  <2>1. CASE g \in H
    <3>1. act'[g] = next
      BY <2>1
    <3> QED BY <3>1 DEF HandlerOK
  <2>2. CASE g \notin H /\ act[g].pc # "idle" /\ act[g].user = u
    <3>1. act'[g] = [act[g] EXCEPT !.stale = TRUE]
      BY <2>2
    <3>2. /\ act'[g].pc = act[g].pc /\ act'[g].op = act[g].op /\ act'[g].user = act[g].user
          /\ act'[g].arg = act[g].arg /\ act'[g].status = act[g].status
      BY <1>1, <3>1, ZenonT(60) DEF ActRows
    <3>3. act'[g].stale
      BY <1>1, <3>1 DEF ActRows
    <3> QED BY <1>1, <3>2, <3>3 DEF HandlerOK
  <2>3. CASE g \notin H /\ ~(act[g].pc # "idle" /\ act[g].user = u)
    <3>1. act'[g] = act[g]
      BY <2>3
    <3>2. act[g].pc = "write" => acct'[act[g].user] = acct[act[g].user]
      BY <1>1, <2>3 DEF HandlerOK
    <3> QED BY <1>1, <3>1, <3>2 DEF HandlerOK
  <2> QED BY <2>1, <2>2, <2>3
<1> QED BY <1>3, <1>4 DEF HandlersOK

\* An update of columns keeps the row what its user asked for, unless it is
\* excepted.
LEMMA UpdateKeeps ==
    ASSUME AccountTypes, SettingsKept, BanHolds, NEW u \in Users, NEW vals, NEW meant, NEW exc \in BOOLEAN,
           Update(u, vals, meant, exc), UNCHANGED <<decision, lateActivation>>,
           Over(vals, acct[u].row) \in UserRows, Over(meant, want[u]) \in UserRows,
           ~overlapped /\ ~exc => Over(vals, acct[u].row) = Over(meant, want[u])
    PROVE  /\ acct' \in [Users -> AcctRows] /\ want' \in [Users -> UserRows] /\ overlapped' \in BOOLEAN
           /\ SettingsKept' /\ BanHolds'
           /\ \A k \in Users : k # u => acct'[k] = acct[k]
<1> DEFINE r == Over(vals, acct[u].row)
           w == Over(meant, want[u])
<1>1. acct' = [acct EXCEPT ![u].row = r] /\ overlapped' = (overlapped \/ exc)
      /\ want' = [want EXCEPT ![u] = IF overlapped' THEN acct'[u].row ELSE w]
  BY DEF Update
<1> HIDE DEF r, w
<1>2. r \in UserRows /\ w \in UserRows /\ (~overlapped /\ ~exc => r = w)
  BY DEF r, w
<1>3. acct \in [Users -> AcctRows] /\ want \in [Users -> UserRows] /\ overlapped \in BOOLEAN
  BY DEF AccountTypes
<1>4. overlapped' \in BOOLEAN
  BY <1>1, <1>3
<1>5. /\ acct' \in [Users -> AcctRows] /\ acct'[u].row = r /\ acct'[u].status = acct[u].status
      /\ \A k \in Users : k # u => acct'[k] = acct[k]
  BY <1>1, <1>2, <1>3 DEF AcctRows
<1>6. /\ want' \in [Users -> UserRows] /\ (~overlapped' => want'[u] = w)
      /\ \A k \in Users : k # u => want'[k] = want[k]
  BY <1>1, <1>2, <1>3, <1>5
<1>7. SettingsKept'
  BY <1>1, <1>2, <1>3, <1>5, <1>6 DEF SettingsKept
<1>8. BanHolds'
  BY <1>5 DEF BanHolds
<1> QED BY <1>4, <1>5, <1>6, <1>7, <1>8

\* A handler that has not begun knows nothing.
LEMMA NoActOK == HandlerOK(NoAct) /\ NoAct.pc = "idle" /\ NoAct.op = "none"
BY DEF HandlerOK, NoAct

\* What the handlers are after those of H ended, having written the row of u:
\* the others that hold that row hold an old one.
Ended(H, u) ==
    [g \in Handlers |-> IF g \in H THEN NoAct
                        ELSE IF act[g].pc # "idle" /\ act[g].user = u
                             THEN [act[g] EXCEPT !.stale = TRUE] ELSE act[g]]

\* A handler that updates columns, and with it ends, keeps the invariant.
LEMMA ColumnsUpdated ==
    ASSUME AccountsIndInv, NEW u \in Users, NEW H \in SUBSET Handlers, \A h \in H : act[h].op # "reset",
           NEW vals, NEW meant, NEW exc \in BOOLEAN,
           act' = Ended(H, u),
           Update(u, vals, meant, exc), UNCHANGED <<Keep, decision>>,
           Over(vals, acct[u].row) \in UserRows, Over(meant, want[u]) \in UserRows,
           ~overlapped /\ ~exc => Over(vals, acct[u].row) = Over(meant, want[u])
    PROVE  AccountsIndInv'
<1> USE DEF AccountsIndInv
<1>1. UNCHANGED <<session, resetKey, mails, edits, lateActivation, resets, racedMails, decision>>
  BY DEF Keep
<1>2. /\ acct' \in [Users -> AcctRows] /\ want' \in [Users -> UserRows] /\ overlapped' \in BOOLEAN
      /\ SettingsKept' /\ BanHolds'
      /\ \A k \in Users : k # u => acct'[k] = acct[k]
  BY <1>1, UpdateKeeps
<1>3. act' \in [Handlers -> ActRows] /\ HandlersOK'
  BY <1>1, <1>2, NoActOK, BlankTyped, RowWritten DEF Ended
<1>4. AccountTypes'
  BY <1>1, <1>2, <1>3 DEF AccountTypes
<1>5. MailsOnce'
  <2>1. \A g \in Handlers : act[g] \in ActRows
    BY DEF AccountTypes
  <2>2. \A g \in Handlers :
              \/ act[g].op # "reset" /\ act'[g].op # "reset"
              \/ /\ act'[g].op = act[g].op /\ act'[g].user = act[g].user
                 /\ act'[g].arg = act[g].arg /\ act'[g].pc = act[g].pc
    BY <2>1, NoActOK DEF ActRows, Ended
  <2> QED BY <1>1, <2>2, MailsQuiet
<1> QED BY <1>2, <1>3, <1>4, <1>5

\* The columns that a handler loads, the others blank, are a row.
LEMMA MixedRow ==
    ASSUME NEW r \in UserRows, NEW cols
    PROVE  [c \in Columns |-> IF c \in cols THEN r[c] ELSE Blank[c]] \in UserRows
<1>1. r \in [Columns -> Nat \cup SUBSET Nat] /\ r["storage"] \in {0, 1} /\ r["authn"] \in SUBSET Nat
      /\ \A d \in Columns \ {"authn"} : r[d] \in Nat
  BY DEF UserRows
<1>2. Blank \in [Columns -> Nat \cup SUBSET Nat] /\ Blank["storage"] \in {0, 1} /\ Blank["authn"] \in SUBSET Nat
      /\ \A d \in Columns \ {"authn"} : Blank[d] \in Nat
  BY BlankTyped DEF UserRows
<1>3. "storage" \in Columns /\ "authn" \in Columns
  BY ColumnNames
<1> QED BY <1>1, <1>2, <1>3 DEF UserRows

\* A handler that loads a row keeps the invariant.
LEMMA LoadKeeps ==
    ASSUME AccountsIndInv, NEW h \in Handlers, NEW u \in Users, NEW op \in AccountOps, NEW cols,
           op # "reset", op = "activate" => acct[u].status = "inactive", UsedColumns(op) \subseteq cols,
           cols \subseteq Columns, Loads(h, op, u, cols)
    PROVE  AccountsIndInv'
<1> USE DEF AccountsIndInv
<1> DEFINE s == [c \in Columns |-> IF c \in cols THEN acct[u].row[c] ELSE Blank[c]]
<1>1. PICK v \in Values : act' = [act EXCEPT ![h] =
            [pc |-> "write", op |-> op, user |-> u, arg |-> v, status |-> acct[u].status, stale |-> FALSE, snap |-> s]]
  BY DEF Loads
<1>2. /\ act[h].pc = "idle" /\ edits' = edits + 1 /\ edits < MaxEdits
      /\ UNCHANGED <<acct, session, resetKey, mails, accountHistory>>
  BY DEF Loads
<1>3. /\ UNCHANGED <<want, overlapped, decision, lateActivation, resets, racedMails>>
  BY <1>2 DEF accountHistory
<1> DEFINE q == [pc |-> "write", op |-> op, user |-> u, arg |-> v, status |-> acct[u].status, stale |-> FALSE, snap |-> s]
<1>4. acct[u] \in AcctRows /\ acct[u].row \in UserRows /\ acct[u].status \in {"", "none", "inactive", "active", "banned"}
  BY DEF AccountTypes, AcctRows
<1>5. s \in UserRows /\ \A c \in UsedColumns(op) : s[c] = acct[u].row[c]
  BY <1>4, MixedRow
<1>6. v \in Nat
  BY AccountsAssumption
<1>7. q \in ActRows
  <2>1. FALSE \in BOOLEAN
    OBVIOUS
  <2> HIDE DEF s
  <2> QED BY <1>4, <1>5, <1>6, <2>1, Zenon DEF ActRows
<1>8. HandlerOK(q)
  BY <1>5 DEF HandlerOK
<1>9. q.op = op
  OBVIOUS
<1> HIDE DEF q
<1>10. /\ act' = [act EXCEPT ![h] = q] /\ act \in [Handlers -> ActRows]
  BY <1>1 DEF AccountTypes, q
<1>11. /\ act' \in [Handlers -> ActRows] /\ act'[h] = q /\ \A g \in Handlers : g # h => act'[g] = act[g]
  BY <1>7, <1>10
<1>12. HandlersOK'
  BY <1>2, <1>8, <1>11 DEF HandlersOK, HandlerOK
<1>13. AccountTypes'
  <2>1. edits' \in 0 .. MaxEdits
    BY <1>2, AccountsAssumption DEF AccountTypes
  <2> QED BY <1>2, <1>3, <1>11, <2>1 DEF AccountTypes
<1>14. SettingsKept' /\ BanHolds'
  BY <1>2, <1>3 DEF SettingsKept, BanHolds
<1>15. MailsOnce'
  <2>1. act[h].op # "reset"
    BY <1>2 DEF HandlersOK, HandlerOK
  <2> QED BY <1>2, <1>3, <1>9, <1>11, <2>1, MailsQuiet
<1> QED BY <1>12, <1>13, <1>14, <1>15

\* A step that changes sessions, or drops a key or a handler, keeps the
\* invariant.
LEMMA OthersKeep ==
    ASSUME AccountsIndInv, UNCHANGED <<acct, mails, edits, accountHistory>>,
           session' \in [Users -> {"out", "half", "in"}],
           resetKey' \in [Users -> Nat], \A u \in Users : resetKey'[u] = resetKey[u] \/ resetKey'[u] = 0,
           act' \in [Handlers -> ActRows],
           \A g \in Handlers : act'[g] = act[g] \/ (act[g].op # "reset" /\ act'[g] = NoAct)
    PROVE  AccountsIndInv'
<1> USE DEF AccountsIndInv
<1>1. /\ UNCHANGED <<want, overlapped, decision, lateActivation, resets, racedMails>>
  BY DEF accountHistory
<1>2. AccountTypes'
  <2>1. ASSUME NEW u \in Users PROVE resetKey'[u] <= mails'[u] /\ mails'[u] <= MaxMails
    <3>1. mails[u] \in Nat /\ resetKey[u] <= mails[u] /\ mails[u] <= MaxMails
      BY DEF AccountTypes
    <3> QED BY <3>1
  <2> QED BY <1>1, <2>1 DEF AccountTypes
<1>3. HandlersOK'
  <2> SUFFICES ASSUME NEW g \in Handlers PROVE HandlerOK(act[g])'
    BY DEF HandlersOK
  <2>1. HandlerOK(act[g]) /\ HandlerOK(NoAct)
    BY NoActOK DEF HandlersOK
  <2> QED BY <2>1 DEF HandlerOK
<1>4. SettingsKept' /\ BanHolds'
  BY <1>1 DEF SettingsKept, BanHolds
<1>5. MailsOnce'
  BY <1>1, NoActOK, MailsQuiet
<1> QED BY <1>2, <1>3, <1>4, <1>5

\* Every step of registration, activation, log-in, reset, the settings of a
\* user and of the administrator's page keeps it.
LEMMA AccountsStep == AccountsIndInv /\ [AccountsNext]_accountVars => AccountsIndInv'
<1> SUFFICES ASSUME AccountsIndInv, [AccountsNext]_accountVars PROVE AccountsIndInv'
  OBVIOUS
<1> USE DEF AccountsIndInv
<1>0. /\ acct \in [Users -> AcctRows] /\ want \in [Users -> UserRows] /\ act \in [Handlers -> ActRows]
      /\ \A u \in Users : acct[u].row \in UserRows /\ want[u] \in UserRows
      /\ \A h \in Handlers : act[h] \in ActRows /\ act[h].snap \in UserRows /\ act[h].arg \in Nat /\ HandlerOK(act[h])
  BY DEF AccountTypes, AcctRows, ActRows, HandlersOK
<1>00. \A h \in Handlers : act[h].stale \in BOOLEAN
  BY <1>0 DEF ActRows
<1>1. ASSUME NEW u \in Users, NEW st \in {"active", "inactive"}, Register(u, st) PROVE AccountsIndInv'
  <2>1. /\ acct[u].status = "none" /\ acct' = [acct EXCEPT ![u].status = st]
        /\ UNCHANGED <<session, resetKey, mails, act, edits, accountHistory>>
    BY <1>1 DEF Register, GetUserByID
  <2>2. UNCHANGED <<want, overlapped, decision, lateActivation, resets, racedMails>>
    BY <2>1 DEF accountHistory
  <2>3. /\ acct' \in [Users -> AcctRows] /\ \A k \in Users : acct'[k].row = acct[k].row
        /\ \A k \in Users : acct'[k].status = acct[k].status \/ k = u
    BY <1>0, <2>1 DEF AcctRows
  <2>4. AccountTypes'
    BY <2>1, <2>2, <2>3 DEF AccountTypes
  <2>5. HandlersOK'
    BY <2>1, <2>3 DEF HandlersOK, HandlerOK
  <2>6. SettingsKept' /\ BanHolds'
    BY <2>1, <2>2, <2>3 DEF SettingsKept, BanHolds
  <2>7. MailsOnce'
    BY <2>1, <2>2, MailsQuiet
  <2> QED BY <2>4, <2>5, <2>6, <2>7
<1>2. ASSUME NEW u \in Users, NEW s \in {"out", "half", "in"}, Enters(u, s) PROVE AccountsIndInv'
  <2>1. session' = [session EXCEPT ![u] = s] /\ UNCHANGED <<acct, resetKey, mails, act, edits, accountHistory>>
    BY <1>2 DEF Enters
  <2>2. session' \in [Users -> {"out", "half", "in"}] /\ resetKey' \in [Users -> Nat]
    BY <2>1 DEF AccountTypes
  <2> QED BY <1>0, <2>1, <2>2, OthersKeep
<1>3. ASSUME NEW u \in Users, Login(u) \/ Login2FA(u) \/ FinishLoginAuthn(u) \/ UserSignOut(u) PROVE AccountsIndInv'
  <2>1. \E s \in {"out", "half", "in"} : Enters(u, s)
    BY <1>3 DEF Login, Login2FA, FinishLoginAuthn, UserSignOut
  <2> QED BY <1>2, <2>1
<1>4. ASSUME NEW u \in Users, NEW c \in Columns, NEW v,
             c = "authn" => v \in SUBSET Nat, c # "authn" => v \in Nat, c = "storage" => v \in {0, 1}
      PROVE  /\ Over(Only(c, v), acct[u].row) \in UserRows /\ Over(Only(c, v), want[u]) \in UserRows
             /\ ~overlapped => Over(Only(c, v), acct[u].row) = Over(Only(c, v), want[u])
  BY <1>0, <1>4, OverOnly DEF SettingsKept
<1>5. ASSUME NEW u \in Users, NEW op \in {"+", "-"}, ChangeStorage(u, op) PROVE AccountsIndInv'
  <2> DEFINE v == Storage(u, op)
  <2>1. /\ acct[u].row["storage"] = IF op = "+" THEN 0 ELSE 1
        /\ act' = Ended({}, u)
        /\ Update(u, Only("storage", v), Only("storage", v), FALSE) /\ UNCHANGED <<Keep, decision>>
    BY <1>5 DEF ChangeStorage, Ended
  <2>2. v \in {0, 1} /\ v \in Nat
    BY <2>1 DEF Storage
  <2>3. "storage" \in Columns
    BY ColumnNames
  <2> HIDE DEF v
  <2>4. /\ Over(Only("storage", v), acct[u].row) \in UserRows /\ Over(Only("storage", v), want[u]) \in UserRows
        /\ ~overlapped => Over(Only("storage", v), acct[u].row) = Over(Only("storage", v), want[u])
    BY <1>4, <2>2, <2>3
  <2>5. FALSE \in BOOLEAN /\ {} \in SUBSET Handlers
    OBVIOUS
  <2> QED BY <2>1, <2>4, <2>5, ColumnsUpdated
<1>6. ASSUME NEW u \in Users, ResetEmail(u) PROVE AccountsIndInv'
  <2>1. /\ mails[u] < MaxMails /\ mails' = [mails EXCEPT ![u] = mails[u] + 1]
        /\ resetKey' = [resetKey EXCEPT ![u] = mails[u] + 1] /\ UNCHANGED <<acct, session, act, edits, accountHistory>>
    BY <1>6 DEF ResetEmail
  <2>2. UNCHANGED <<want, overlapped, decision, lateActivation, resets, racedMails>>
    BY <2>1 DEF accountHistory
  <2>3. mails \in [Users -> Nat] /\ resetKey \in [Users -> Nat] /\ \A k \in Users : resetKey[k] <= mails[k] /\ mails[k] <= MaxMails
    BY DEF AccountTypes
  <2>4. /\ mails' \in [Users -> Nat] /\ resetKey' \in [Users -> Nat]
        /\ mails'[u] = mails[u] + 1 /\ resetKey'[u] = mails[u] + 1
        /\ \A k \in Users : k # u => mails'[k] = mails[k] /\ resetKey'[k] = resetKey[k]
        /\ \A k \in Users : mails[k] <= mails'[k]
    BY <2>1, <2>3
  <2>5. AccountTypes'
    <3>1. \A k \in Users : resetKey'[k] <= mails'[k] /\ mails'[k] <= MaxMails
      BY <2>1, <2>3, <2>4, AccountsAssumption
    <3> QED BY <2>1, <2>2, <2>4, <3>1 DEF AccountTypes
  <2>6. HandlersOK'
    <3> SUFFICES ASSUME NEW h \in Handlers PROVE HandlerOK(act[h])'
      BY DEF HandlersOK
    <3>1. act[h].op = "reset" => act[h].arg <= mails'[act[h].user]
      BY <1>0, <2>3, <2>4 DEF HandlerOK
    <3> QED BY <1>0, <2>1, <3>1 DEF HandlerOK
  <2>7. SettingsKept' /\ BanHolds'
    BY <2>1, <2>2 DEF SettingsKept, BanHolds
  <2>8. MailsOnce'
    <3> SUFFICES ASSUME NEW k \in Users, NEW m \in 1 .. MaxMails, <<k, m>> \notin racedMails
                 PROVE  MailOnce(k, m)'
      BY <2>2 DEF MailsOnce
    <3>1. MailOnce(k, m) /\ \A g \in Handlers : Holds(g, k, m)' <=> Holds(g, k, m)
      BY <2>1 DEF MailsOnce, Holds
    <3>2. mails'[k] < m => mails[k] < m
      BY <2>3, <2>4, AccountsAssumption
    <3>3. resetKey'[k] = m => resetKey[k] = m \/ mails[k] < m
      BY <2>3, <2>4, AccountsAssumption
    <3> QED BY <2>1, <2>2, <3>1, <3>2, <3>3 DEF MailOnce
  <2> QED BY <2>5, <2>6, <2>7, <2>8
<1>7. ASSUME NEW u \in Users, ResetExpires(u) PROVE AccountsIndInv'
  <2>1. resetKey' = [resetKey EXCEPT ![u] = 0] /\ UNCHANGED <<acct, session, mails, act, edits, accountHistory>>
    BY <1>7 DEF ResetExpires
  <2>2. session' \in [Users -> {"out", "half", "in"}] /\ resetKey' \in [Users -> Nat]
        /\ \A k \in Users : resetKey'[k] = resetKey[k] \/ resetKey'[k] = 0
    BY <2>1 DEF AccountTypes
  <2> QED BY <1>0, <2>1, <2>2, OthersKeep
<1>8. ASSUME NEW h \in Handlers, NEW u \in Users, Activate(h, u) \/ Ban(h, u) \/ AddUser(h, u) \/ UpdateOption(h, u)
      PROVE  AccountsIndInv'
  <2>1. \E op \in AccountOps, cols \in SUBSET Columns :
            /\ op # "reset" /\ (op = "activate" => acct[u].status = "inactive")
            /\ UsedColumns(op) \subseteq cols /\ Loads(h, op, u, cols)
    <3>1. CASE Activate(h, u)
      <4>1. "activate" \in AccountOps /\ UsedColumns("activate") = {} /\ {} \in SUBSET Columns
        BY DEF AccountOps, UsedColumns
      <4> QED BY <3>1, <4>1 DEF Activate
    <3>2. CASE Ban(h, u)
      <4>1. "ban" \in AccountOps /\ UsedColumns("ban") = {} /\ {} \in SUBSET Columns
        BY DEF AccountOps, UsedColumns
      <4> QED BY <3>2, <4>1 DEF Ban
    <3>3. CASE AddUser(h, u)
      <4>1. "save" \in AccountOps /\ UsedColumns("save") = Columns /\ Columns \in SUBSET Columns
        BY DEF AccountOps, UsedColumns
      <4> QED BY <3>3, <4>1 DEF AddUser
    <3>4. CASE UpdateOption(h, u)
      <4>1. ASSUME NEW op \in {"theme", "homepage"}
            PROVE  op \in AccountOps /\ UsedColumns(op) = Options /\ op # "reset" /\ op # "activate"
        BY DEF AccountOps, UsedColumns
      <4>2. ASSUME NEW op \in {"FinishRegAuthn", "DeleteWebAuthn"}
            PROVE  op \in AccountOps /\ UsedColumns(op) = {"authn"} /\ op # "reset" /\ op # "activate"
        BY DEF AccountOps, UsedColumns
      <4>3. ASSUME NEW op \in {"nick", "password", "2fa"}
            PROVE  op \in AccountOps /\ UsedColumns(op) = {} /\ op # "reset" /\ op # "activate"
        BY DEF AccountOps, UsedColumns
      <4>4. {} \in SUBSET Columns /\ Options \in SUBSET Columns /\ {"authn"} \in SUBSET Columns
            /\ {"two_factor"} \in SUBSET Columns
        BY ColumnNames
      <4>5. CASE \E op \in {"theme", "homepage"} : Loads(h, op, u, Options)
        BY <4>1, <4>4, <4>5
      <4>6. CASE \E op \in {"FinishRegAuthn", "DeleteWebAuthn"} : Loads(h, op, u, {"authn"})
        BY <4>2, <4>4, <4>6
      <4>7. CASE \E op \in {"nick", "password"} : Loads(h, op, u, {})
        BY <4>3, <4>4, <4>7
      <4>8. CASE Loads(h, "2fa", u, {"two_factor"})
        BY <4>3, <4>4, <4>8
      <4> QED BY <3>4, <4>5, <4>6, <4>7, <4>8 DEF UpdateOption
    <3> QED BY <1>8, <3>1, <3>2, <3>3, <3>4
  <2>2. PICK op \in AccountOps, cols \in SUBSET Columns :
            /\ op # "reset" /\ (op = "activate" => acct[u].status = "inactive")
            /\ UsedColumns(op) \subseteq cols /\ Loads(h, op, u, cols)
    BY <2>1
  <2>3. cols \subseteq Columns
    OBVIOUS
  <2> QED BY <2>2, <2>3, LoadKeeps
\* A handler that ends with an update of some columns.
<1>9. ASSUME NEW h \in Handlers, act[h].pc = "write", act[h].op # "reset", NEW u \in Users, u = act[h].user,
             NEW vals, NEW meant, NEW exc \in BOOLEAN,
             Proceeds(h, u, NoAct), Update(u, vals, meant, exc), UNCHANGED <<Keep, decision>>,
             Over(vals, acct[u].row) \in UserRows, Over(meant, want[u]) \in UserRows,
             ~overlapped /\ ~exc => Over(vals, acct[u].row) = Over(meant, want[u])
      PROVE  AccountsIndInv'
  <2>1. act' = Ended({h}, u)
    BY <1>9 DEF Proceeds, Ended
  <2>2. {h} \in SUBSET Handlers /\ \A g \in {h} : act[g].op # "reset"
    BY <1>9
  <2>3. AccountsIndInv
    OBVIOUS
  <2> HIDE DEF AccountsIndInv
  <2> QED BY <1>9, <2>1, <2>2, <2>3, ColumnsUpdated, ZenonT(60)
<1>10. ASSUME NEW h \in Handlers, act[h].pc = "write", act[h].op # "reset",
              NEW c \in Columns \ {"authn", "storage"}, NEW v \in Nat, UpdateColumn(h, c, v)
       PROVE  AccountsIndInv'
  <2> DEFINE u == act[h].user
  <2>1. u \in Users
    BY <1>0, <1>10 DEF HandlerOK
  <2>2. Proceeds(h, u, NoAct) /\ Update(u, Only(c, v), Only(c, v), FALSE) /\ UNCHANGED <<Keep, decision>>
    BY <1>10 DEF UpdateColumn
  <2>3. /\ Over(Only(c, v), acct[u].row) \in UserRows /\ Over(Only(c, v), want[u]) \in UserRows
        /\ ~overlapped => Over(Only(c, v), acct[u].row) = Over(Only(c, v), want[u])
    BY <1>4, <2>1
  <2>4. FALSE \in BOOLEAN
    OBVIOUS
  <2> QED BY <1>9, <1>10, <2>1, <2>2, <2>3, <2>4
<1>11. ASSUME NEW h \in Handlers, ChangerNick(h) \/ PasswordChange(h) \/ Enable2FA(h) PROVE AccountsIndInv'
  <2>1. "nick" \in Columns \ {"authn", "storage"} /\ "password" \in Columns \ {"authn", "storage"}
        /\ "two_factor" \in Columns \ {"authn", "storage"}
    BY ColumnNames
  <2>2. CASE ChangerNick(h)
    BY <1>0, <1>10, <2>1, <2>2 DEF ChangerNick, Doing
  <2>3. CASE PasswordChange(h)
    BY <1>0, <1>10, <2>1, <2>3 DEF PasswordChange, Doing
  <2>4. CASE Enable2FA(h)
    BY <1>0, <1>10, <2>1, <2>4 DEF Enable2FA, Doing
  <2> QED BY <1>11, <2>2, <2>3, <2>4
\* What a handler that is not stale has loaded is what the user wants.
<1>12. ASSUME NEW h \in Handlers, act[h].pc = "write", ~overlapped, ~act[h].stale
       PROVE  /\ acct[act[h].user].row = want[act[h].user]
              /\ \A c \in UsedColumns(act[h].op) : act[h].snap[c] = acct[act[h].user].row[c]
  BY <1>0, <1>12 DEF SettingsKept, HandlerOK
<1>13. ASSUME NEW h \in Handlers, act[h].pc = "write", act[h].op \in {"theme", "homepage"},
              NEW c \in Options, UpdateOptions(h, c)
       PROVE  AccountsIndInv'
  <2> DEFINE u == act[h].user
             a == act[h].arg
             exc == act[h].stale
             vals == [d \in Options |-> IF d = c THEN a ELSE act[h].snap[d]]
             meant == Only(c, a)
  <2>1. u \in Users /\ a \in Nat /\ act[h].snap \in UserRows /\ act[h].op # "reset"
    BY <1>0, <1>13 DEF HandlerOK
  <2>2. Proceeds(h, u, NoAct) /\ Update(u, vals, meant, exc) /\ UNCHANGED <<Keep, decision>>
    BY <1>13 DEF UpdateOptions
  <2>3. Options \subseteq Columns \ {"storage", "authn"} /\ UsedColumns(act[h].op) = Options
    BY <1>13, ColumnNames DEF UsedColumns
  <2>4. \A d \in Options : act[h].snap[d] \in Nat
    BY <2>1, <2>3 DEF UserRows
  <2>5. DOMAIN vals = Options /\ \A d \in Options : vals[d] = IF d = c THEN a ELSE act[h].snap[d]
    OBVIOUS
  <2>6. \A d \in DOMAIN vals : vals[d] \in Nat
    BY <2>1, <2>4, <2>5
  <2>7. c \in Columns /\ c # "authn" /\ c # "storage"
    BY <2>3
  <2> HIDE DEF vals
  <2>8. /\ Over(vals, acct[u].row) \in UserRows
        /\ \A d \in Columns : Over(vals, acct[u].row)[d] = IF d \in Options THEN vals[d] ELSE acct[u].row[d]
    BY <1>0, <2>1, <2>3, <2>5, <2>6, OverPlain
  <2>9. /\ Over(meant, want[u]) \in UserRows
        /\ \A d \in Columns : Over(meant, want[u])[d] = IF d = c THEN a ELSE want[u][d]
    BY <1>0, <2>1, <2>7, OverOnly
  <2> HIDE DEF meant
  <2>10. ~overlapped /\ ~exc => Over(vals, acct[u].row) = Over(meant, want[u])
    <3> SUFFICES ASSUME ~overlapped, ~exc PROVE Over(vals, acct[u].row) = Over(meant, want[u])
      OBVIOUS
    <3>1. acct[u].row = want[u] /\ \A d \in Options : act[h].snap[d] = acct[u].row[d]
      BY <1>12, <1>13, <2>3
    <3>2. \A d \in Columns : Over(vals, acct[u].row)[d] = Over(meant, want[u])[d]
      BY <2>5, <2>8, <2>9, <3>1
    <3> QED BY <2>8, <2>9, <3>2, SameRow
  <2> QED BY <1>00, <1>9, <1>13, <2>1, <2>2, <2>8, <2>9, <2>10
<1>14. ASSUME NEW h \in Handlers, ThemeChose(h) \/ HomePage(h) PROVE AccountsIndInv'
  BY <1>13, <1>14 DEF ThemeChose, HomePage, Doing, Options
<1>15. ASSUME NEW h \in Handlers, act[h].pc = "write", act[h].op \in {"FinishRegAuthn", "DeleteWebAuthn"},
              NEW keys \in SUBSET Nat, NEW meant \in SUBSET Nat, UpdateAuthn(h, keys, meant),
              act[h].snap["authn"] = want[act[h].user]["authn"] => keys = meant
       PROVE  AccountsIndInv'
  <2> DEFINE u == act[h].user
             exc == act[h].stale
  <2>1. u \in Users /\ act[h].op # "reset" /\ "authn" \in Columns /\ UsedColumns(act[h].op) = {"authn"}
    BY <1>0, <1>15, ColumnNames DEF HandlerOK, UsedColumns
  <2>2. Proceeds(h, u, NoAct) /\ Update(u, Only("authn", keys), Only("authn", meant), exc) /\ UNCHANGED <<Keep, decision>>
    BY <1>15 DEF UpdateAuthn
  <2>3. /\ Over(Only("authn", keys), acct[u].row) \in UserRows
        /\ Over(Only("authn", meant), want[u]) \in UserRows
    BY <1>0, <2>1, OverOnly
  <2>4. ~overlapped /\ ~exc => Over(Only("authn", keys), acct[u].row) = Over(Only("authn", meant), want[u])
    BY <1>12, <1>15, <2>1
  <2> QED BY <1>00, <1>9, <1>15, <2>1, <2>2, <2>3, <2>4
<1>16. ASSUME NEW h \in Handlers, RegisterAuthn(h) \/ RemoveAuthn(h) PROVE AccountsIndInv'
  <2> DEFINE a == act[h].snap["authn"]
             w == want[act[h].user]["authn"]
  <2>1. act[h].pc = "write" /\ act[h].op \in {"FinishRegAuthn", "DeleteWebAuthn"}
    BY <1>16 DEF RegisterAuthn, RemoveAuthn, Doing
  <2>2. a \in SUBSET Nat /\ w \in SUBSET Nat /\ act[h].arg \in Nat
    BY <1>0, <2>1 DEF HandlerOK, UserRows
  <2>3. CASE RegisterAuthn(h)
    <3>1. UpdateAuthn(h, a \cup {act[h].arg}, w \cup {act[h].arg})
      BY <2>3 DEF RegisterAuthn
    <3>2. a \cup {act[h].arg} \in SUBSET Nat /\ w \cup {act[h].arg} \in SUBSET Nat
      BY <2>2
    <3> QED BY <1>15, <2>1, <3>1, <3>2
  <2>4. CASE RemoveAuthn(h)
    <3>1. PICK k \in Values : UpdateAuthn(h, a \ {k}, w \ {k})
      BY <2>4 DEF RemoveAuthn
    <3>2. a \ {k} \in SUBSET Nat /\ w \ {k} \in SUBSET Nat
      BY <2>2
    <3> QED BY <1>15, <2>1, <3>1, <3>2
  <2> QED BY <1>16, <2>3, <2>4
<1>17. ASSUME NEW h \in Handlers, SettingRefused(h) PROVE AccountsIndInv'
  <2>1. /\ act[h].op \in {"password", "2fa"} /\ act' = [act EXCEPT ![h] = NoAct]
        /\ UNCHANGED <<acct, session, resetKey, mails, edits, accountHistory>>
    BY <1>17 DEF SettingRefused
  <2>2. /\ act' \in [Handlers -> ActRows]
        /\ \A g \in Handlers : act'[g] = act[g] \/ (act[g].op # "reset" /\ act'[g] = NoAct)
    BY <1>0, <2>1, BlankTyped
  <2>3. session' \in [Users -> {"out", "half", "in"}] /\ resetKey' \in [Users -> Nat]
    BY <2>1 DEF AccountTypes
  <2> QED BY <2>1, <2>2, <2>3, OthersKeep
<1>18. ASSUME NEW h \in Handlers, SetStatus(h) PROVE AccountsIndInv'
  <2> DEFINE u == act[h].user
             ban == act[h].op = "ban"
             new == IF ban /\ act[h].status = "active" THEN "banned" ELSE "active"
  <2>1. /\ act[h].pc = "write" /\ act[h].op \in {"activate", "ban"} /\ Proceeds(h, u, NoAct)
        /\ acct' = [acct EXCEPT ![u].status = new]
        /\ decision' = IF ban THEN [decision EXCEPT ![u] = new] ELSE decision
        /\ lateActivation' = (lateActivation \/ (~ban /\ acct[u].status # act[h].status))
        /\ UNCHANGED <<session, resetKey, mails, edits, want, overlapped, resets, racedMails>>
    BY <1>18 DEF SetStatus
  <2>2. u \in Users /\ (act[h].op = "activate" => act[h].status = "inactive") /\ new \in {"active", "banned"}
    BY <1>0, <2>1 DEF HandlerOK
  <2>3. /\ acct' \in [Users -> AcctRows] /\ \A k \in Users : acct'[k].row = acct[k].row
        /\ \A k \in Users : k # u => acct'[k] = acct[k]
        /\ acct'[u].status = new
    <3> HIDE DEF new
    <3> QED BY <1>0, <2>1, <2>2 DEF AcctRows
  <2>4. act' = [g \in Handlers |-> IF g \in {h} THEN NoAct
                                    ELSE IF act[g].pc # "idle" /\ act[g].user = u
                                         THEN [act[g] EXCEPT !.stale = TRUE] ELSE act[g]]
    BY <2>1 DEF Proceeds
  <2>5. act' \in [Handlers -> ActRows] /\ HandlersOK'
    <3>1. {h} \in SUBSET Handlers
      OBVIOUS
    <3> QED BY <2>1, <2>2, <2>3, <2>4, <3>1, NoActOK, BlankTyped, RowWritten
  <2>6. lateActivation' \in BOOLEAN
    BY <2>1 DEF AccountTypes
  <2>7. AccountTypes'
    <3>1. decision' \in [Users -> {"none", "inactive", "active", "banned"}]
      BY <2>1, <2>2 DEF AccountTypes
    <3> QED BY <2>1, <2>3, <2>5, <2>6, <3>1 DEF AccountTypes
  <2>8. SettingsKept'
    BY <2>1, <2>3 DEF SettingsKept
  <2>9. BanHolds'
    <3> SUFFICES ASSUME NEW k \in Users, decision'[k] = "banned", ~lateActivation' PROVE acct'[k].status = "banned"
      BY DEF BanHolds
    <3>1. CASE k # u
      <4>1. decision'[k] = decision[k] /\ ~lateActivation
        BY <2>1, <2>2, <3>1 DEF AccountTypes
      <4> QED BY <2>3, <3>1, <4>1 DEF BanHolds
    <3>2. CASE k = u /\ ban
      <4>1. u \in DOMAIN decision => decision'[u] = new
        BY <2>1, <3>2
      <4> QED BY <2>1, <2>3, <3>2, <4>1 DEF AccountTypes
    <3>3. CASE k = u /\ ~ban
      <4>1. decision' = decision /\ ~lateActivation /\ acct[u].status = act[h].status /\ act[h].status = "inactive"
        BY <2>1, <2>2, <3>3
      <4> QED BY <2>2, <3>3, <4>1 DEF BanHolds
    <3> QED BY <3>1, <3>2, <3>3
  <2>10. MailsOnce'
    <3>1. \A g \in Handlers :
              \/ act[g].op # "reset" /\ act'[g].op # "reset"
              \/ /\ act'[g].op = act[g].op /\ act'[g].user = act[g].user
                 /\ act'[g].arg = act[g].arg /\ act'[g].pc = act[g].pc
      BY <1>0, <2>1, <2>4, NoActOK DEF ActRows
    <3> QED BY <2>1, <3>1, MailsQuiet
  <2> QED BY <2>5, <2>7, <2>8, <2>9, <2>10
<1>19. ASSUME NEW h \in Handlers, NEW st \in {"active", "inactive", "banned"}, NEW tfa \in Values \cup {0}, SaveUser(h, st, tfa)
       PROVE  AccountsIndInv'
  <2> DEFINE u == act[h].user
             f == Form(h, tfa)
             r == Saved(h, tfa)
             w == Over(f, want[u])
             exc == act[h].stale
  <2>1. /\ act[h].pc = "write" /\ act[h].op = "save" /\ Proceeds(h, u, NoAct)
        /\ acct' = [acct EXCEPT ![u] = [status |-> st, row |-> r]]
        /\ overlapped' = (overlapped \/ exc)
        /\ want' = [want EXCEPT ![u] = IF overlapped' THEN r ELSE w]
        /\ decision' = [decision EXCEPT ![u] = st]
        /\ UNCHANGED Keep
    BY <1>19 DEF SaveUser, Doing
  <2>2. u \in Users /\ act[h].snap \in UserRows /\ act[h].arg \in Nat /\ tfa \in Nat /\ UsedColumns(act[h].op) = Columns
    BY <1>0, <2>1, AccountsAssumption DEF HandlerOK, UsedColumns
  <2>3. DOMAIN f \subseteq Columns \ {"storage", "authn"} /\ \A c \in DOMAIN f : f[c] \in Nat
    BY <2>2, ColumnNames DEF Form
  <2>4. r \in UserRows /\ w \in UserRows /\ r = Over(f, act[h].snap)
    <3>1. r = Over(f, act[h].snap)
      BY DEF Saved
    <3> HIDE DEF f, r
    <3> QED BY <1>0, <2>2, <2>3, <3>1, OverPlain
  <2>5. ~overlapped /\ ~exc => r = w
    <3> SUFFICES ASSUME ~overlapped, ~exc PROVE r = w
      OBVIOUS
    <3>1. acct[u].row = want[u] /\ \A c \in Columns : act[h].snap[c] = acct[u].row[c]
      BY <1>12, <2>1, <2>2
    <3>2. act[h].snap = want[u]
      BY <1>0, <2>2, <3>1, SameRow
    <3> QED BY <2>4, <3>2
  <2>6. UNCHANGED <<session, resetKey, mails, edits, lateActivation, resets, racedMails>>
    BY <2>1 DEF Keep
  <2> HIDE DEF f, r, w
  <2>7. /\ acct' \in [Users -> AcctRows] /\ acct'[u].row = r /\ acct'[u].status = st
        /\ \A k \in Users : k # u => acct'[k] = acct[k]
    <3>1. [status |-> st, row |-> r] \in AcctRows
      BY <2>4 DEF AcctRows
    <3> QED BY <1>0, <2>1, <2>2, <3>1
  <2>8. /\ want' \in [Users -> UserRows] /\ (~overlapped' => want'[u] = w)
        /\ \A k \in Users : k # u => want'[k] = want[k]
    BY <1>0, <2>1, <2>2, <2>4
  <2>9. overlapped' \in BOOLEAN
    BY <2>1
  <2>10. act' = [g \in Handlers |-> IF g \in {h} THEN NoAct
                                    ELSE IF act[g].pc # "idle" /\ act[g].user = u
                                         THEN [act[g] EXCEPT !.stale = TRUE] ELSE act[g]]
    BY <2>1 DEF Proceeds
  <2>11. act' \in [Handlers -> ActRows] /\ HandlersOK'
    <3>1. {h} \in SUBSET Handlers
      OBVIOUS
    <3> QED BY <2>2, <2>6, <2>7, <2>10, <3>1, NoActOK, BlankTyped, RowWritten
  <2>12. AccountTypes'
    <3>1. decision' \in [Users -> {"none", "inactive", "active", "banned"}]
      BY <2>1, <2>2 DEF AccountTypes
    <3> QED BY <2>6, <2>7, <2>8, <2>9, <2>11, <3>1 DEF AccountTypes
  <2>13. SettingsKept'
    BY <2>1, <2>5, <2>7, <2>8 DEF SettingsKept
  <2>14. BanHolds'
    BY <2>1, <2>2, <2>6, <2>7 DEF BanHolds, AccountTypes
  <2>15. MailsOnce'
    <3>1. \A g \in Handlers :
              \/ act[g].op # "reset" /\ act'[g].op # "reset"
              \/ /\ act'[g].op = act[g].op /\ act'[g].user = act[g].user
                 /\ act'[g].arg = act[g].arg /\ act'[g].pc = act[g].pc
      BY <1>0, <2>1, <2>10, NoActOK DEF ActRows
    <3> QED BY <2>6, <3>1, MailsQuiet
  <2> QED BY <2>11, <2>12, <2>13, <2>14, <2>15
<1>20. ASSUME NEW h \in Handlers, NEW u \in Users, ResetChecks(h, u) PROVE AccountsIndInv'
  <2> DEFINE n == resetKey[u]
             q == [NoAct EXCEPT !.pc = "write", !.op = "reset", !.user = u, !.arg = n]
  <2>1. /\ act[h].pc = "idle" /\ n # 0 /\ edits < MaxEdits /\ edits' = edits + 1 /\ act' = [act EXCEPT ![h] = q]
        /\ racedMails' = racedMails \cup
              {m \in {<<u, n>>} : \E g \in Handlers : act[g].op = "reset" /\ <<act[g].user, act[g].arg>> = m}
        /\ UNCHANGED <<acct, session, resetKey, mails, want, overlapped, decision, lateActivation, resets>>
    BY <1>20 DEF ResetChecks
  <2>2. n \in Nat /\ n <= mails[u] /\ mails[u] \in Nat /\ mails[u] <= MaxMails
    BY DEF AccountTypes
  <2>3. q.pc = "write" /\ q.op = "reset" /\ q.user = u /\ q.arg = n
    BY DEF NoAct
  <2>4. q \in ActRows
    <3>1. "reset" \in AccountOps /\ NoAct \in ActRows
      BY BlankTyped DEF AccountOps
    <3> QED BY <2>2, <3>1 DEF ActRows
  <2>5. HandlerOK(q)
    <3>1. UsedColumns("reset") = {}
      BY DEF UsedColumns
    <3> QED BY <2>1, <2>2, <2>3, <3>1 DEF HandlerOK
  <2> HIDE DEF q
  <2>6. act' \in [Handlers -> ActRows] /\ act'[h] = q /\ \A g \in Handlers : g # h => act'[g] = act[g]
    BY <1>0, <2>1, <2>4
  <2>7. AccountTypes'
    <3>1. edits' \in 0 .. MaxEdits
      BY <2>1, AccountsAssumption DEF AccountTypes
    <3> QED BY <2>1, <2>6, <3>1 DEF AccountTypes
  <2>8. HandlersOK'
    BY <1>0, <2>1, <2>5, <2>6 DEF HandlersOK, HandlerOK
  <2>9. SettingsKept' /\ BanHolds'
    BY <2>1 DEF SettingsKept, BanHolds
  <2>10. MailsOnce'
    <3> SUFFICES ASSUME NEW k \in Users, NEW m \in 1 .. MaxMails, <<k, m>> \notin racedMails'
                 PROVE  MailOnce(k, m)'
      BY DEF MailsOnce
    <3>1. MailOnce(k, m) /\ act[h].op # "reset"
      BY <1>0, <2>1 DEF MailsOnce, HandlerOK
    <3>2. CASE k = u /\ m = n
      <4>1. \A g \in Handlers : ~Holds(g, k, m)
        BY <2>1, <3>2 DEF Holds
      <4>2. resets[k][m] = 0
        BY <3>1, <3>2, <4>1 DEF MailOnce
      <4>3. \A g \in Handlers : Holds(g, k, m)' => g = h
        BY <2>6, <4>1 DEF Holds
      <4>4. Holds(h, k, m)'
        BY <2>3, <2>6, <3>2 DEF Holds
      <4> QED BY <2>1, <4>2, <4>3, <4>4 DEF MailOnce
    <3>3. CASE ~(k = u /\ m = n)
      <4>1. \A g \in Handlers : Holds(g, k, m)' <=> Holds(g, k, m)
        BY <2>3, <2>6, <3>1, <3>3 DEF Holds
      <4>2. \A g \in Handlers : Holds(g, k, m) => act'[g].pc = act[g].pc
        BY <2>6, <3>1 DEF Holds
      <4> QED BY <2>1, <3>1, <4>1, <4>2 DEF MailOnce
    <3> QED BY <3>2, <3>3
  <2> QED BY <2>7, <2>8, <2>9, <2>10
<1>21. ASSUME NEW h \in Handlers, Reset(h) PROVE AccountsIndInv'
  <2> DEFINE u == act[h].user
             n == act[h].arg
             q == [act[h] EXCEPT !.pc = "delete"]
  <2>1. /\ act[h].pc = "write" /\ act[h].op = "reset" /\ Proceeds(h, u, q)
        /\ resets' = [resets EXCEPT ![u][n] = resets[u][n] + 1]
        /\ UNCHANGED <<session, resetKey, mails, edits, decision, lateActivation, racedMails>>
    <3>1. resets' = [resets EXCEPT ![u][n] = @ + 1]
      BY <1>21 DEF Reset
    <3> QED BY <1>21, <3>1 DEF Reset, Doing
  <2>2. PICK v \in Values : Update(u, Only("password", v), Only("password", v), FALSE)
    BY <1>21 DEF Reset
  <2>3. u \in Users /\ n \in Nat /\ n # 0 /\ n <= mails[u] /\ mails[u] \in Nat /\ mails[u] <= MaxMails
    BY <1>0, <2>1 DEF HandlerOK, AccountTypes
  <2>4. n \in 1 .. MaxMails
    BY <2>3, AccountsAssumption
  <2>5. q \in ActRows /\ q.pc = "delete" /\ q.op = "reset" /\ q.user = u /\ q.arg = n
    BY <1>0, <2>1 DEF ActRows
  <2>6. HandlerOK(q)
    BY <2>3, <2>5 DEF HandlerOK
  <2> HIDE DEF q
  <2>7. /\ acct' \in [Users -> AcctRows] /\ want' \in [Users -> UserRows] /\ overlapped' \in BOOLEAN
        /\ SettingsKept' /\ BanHolds'
        /\ \A k \in Users : k # u => acct'[k] = acct[k]
    <3>1. "password" \in Columns /\ v \in Nat /\ FALSE \in BOOLEAN
      BY ColumnNames, AccountsAssumption
    <3>2. /\ Over(Only("password", v), acct[u].row) \in UserRows /\ Over(Only("password", v), want[u]) \in UserRows
          /\ ~overlapped => Over(Only("password", v), acct[u].row) = Over(Only("password", v), want[u])
      BY <1>4, <2>3, <3>1
    <3> QED BY <2>1, <2>2, <2>3, <3>1, <3>2, UpdateKeeps
  <2>8. act' = [g \in Handlers |-> IF g \in {h} THEN q
                                    ELSE IF act[g].pc # "idle" /\ act[g].user = u
                                         THEN [act[g] EXCEPT !.stale = TRUE] ELSE act[g]]
    BY <2>1 DEF Proceeds
  <2>9. act' \in [Handlers -> ActRows] /\ HandlersOK'
    <3>1. {h} \in SUBSET Handlers
      OBVIOUS
    <3> QED BY <2>1, <2>3, <2>5, <2>6, <2>7, <2>8, <3>1, RowWritten
  <2>10. /\ resets' \in [Users -> [1 .. MaxMails -> Nat]] /\ resets'[u][n] = resets[u][n] + 1
         /\ \A k \in Users, m \in 1 .. MaxMails : ~(k = u /\ m = n) => resets'[k][m] = resets[k][m]
    <3>1. resets \in [Users -> [1 .. MaxMails -> Nat]] /\ resets[u] \in [1 .. MaxMails -> Nat] /\ resets[u][n] \in Nat
      BY <2>3, <2>4 DEF AccountTypes
    <3>2. resets' = [resets EXCEPT ![u] = [resets[u] EXCEPT ![n] = resets[u][n] + 1]]
      BY <2>1, <2>3, <3>1
    <3>3. [resets[u] EXCEPT ![n] = resets[u][n] + 1] \in [1 .. MaxMails -> Nat]
      <4>1. resets[u][n] + 1 \in Nat
        BY <3>1
      <4> DEFINE f == resets[u]
                 c == resets[u][n] + 1
      <4>2. f \in [1 .. MaxMails -> Nat] /\ c \in Nat
        BY <3>1, <4>1
      <4> HIDE DEF f, c
      <4>3. [f EXCEPT ![n] = c] \in [1 .. MaxMails -> Nat]
        BY <4>2
      <4> QED BY <4>3 DEF f, c
    <3> QED BY <2>3, <2>4, <3>1, <3>2, <3>3
  <2>11. AccountTypes'
    BY <2>1, <2>7, <2>9, <2>10 DEF AccountTypes
  <2>12. MailsOnce'
    <3> SUFFICES ASSUME NEW k \in Users, NEW m \in 1 .. MaxMails, <<k, m>> \notin racedMails
                 PROVE  MailOnce(k, m)'
      BY <2>1 DEF MailsOnce
    <3>1. MailOnce(k, m)
      BY DEF MailsOnce
    <3>2. \A g \in Handlers : act'[g].op = act[g].op /\ act'[g].user = act[g].user /\ act'[g].arg = act[g].arg
      BY <1>0, <2>1, <2>5, <2>8, ZenonT(60) DEF ActRows
    <3>3. \A g \in Handlers : g # h => act'[g].pc = act[g].pc
      BY <1>0, <2>8 DEF ActRows
    <3>4. \A g \in Handlers : Holds(g, k, m)' <=> Holds(g, k, m)
      BY <3>2 DEF Holds
    <3>5. CASE k = u /\ m = n
      <4>1. Holds(h, k, m)
        BY <2>1, <3>5 DEF Holds
      <4>2. resets[k][m] = 0
        BY <2>1, <3>1, <4>1 DEF MailOnce
      <4>3. resets'[k][m] = 1
        BY <2>10, <3>5, <4>2
      <4>4. act'[h].pc = "delete" /\ \A g \in Handlers : Holds(g, k, m) => g = h
        BY <2>5, <2>8, <3>1, <4>1 DEF MailOnce
      <4>5. ~(mails'[k] < m)
        BY <2>1, <2>3, <3>5
      <4> QED BY <3>4, <4>1, <4>3, <4>4, <4>5 DEF MailOnce
    <3>6. CASE ~(k = u /\ m = n)
      <4>1. resets'[k][m] = resets[k][m] /\ ~Holds(h, k, m)
        BY <2>10, <3>6 DEF Holds
      <4> QED BY <2>1, <3>1, <3>3, <3>4, <4>1 DEF MailOnce
    <3> QED BY <3>5, <3>6
  <2> QED BY <2>7, <2>9, <2>11, <2>12
<1>22. ASSUME NEW h \in Handlers, ResetDeletes(h) PROVE AccountsIndInv'
  <2> DEFINE u == act[h].user
  <2>1. /\ act[h].pc = "delete" /\ act' = [act EXCEPT ![h] = NoAct] /\ resetKey' = [resetKey EXCEPT ![u] = 0]
        /\ UNCHANGED <<acct, session, mails, edits, accountHistory>>
    BY <1>22 DEF ResetDeletes
  <2>2. UNCHANGED <<want, overlapped, decision, lateActivation, resets, racedMails>>
    BY <2>1 DEF accountHistory
  <2>3. u \in Users /\ act[h].op = "reset"
    BY <1>0, <2>1 DEF HandlerOK
  <2>4. /\ act' \in [Handlers -> ActRows] /\ act'[h] = NoAct /\ \A g \in Handlers : g # h => act'[g] = act[g]
    BY <1>0, <2>1, BlankTyped
  <2>5. /\ resetKey' \in [Users -> Nat] /\ resetKey'[u] = 0 /\ \A k \in Users : k # u => resetKey'[k] = resetKey[k]
    BY <2>1, <2>3 DEF AccountTypes
  <2>6. AccountTypes'
    <3>1. ASSUME NEW k \in Users PROVE resetKey'[k] <= mails[k] /\ mails[k] <= MaxMails
      <4>1. mails[k] \in Nat /\ resetKey[k] <= mails[k] /\ mails[k] <= MaxMails
        BY DEF AccountTypes
      <4> QED BY <2>5, <4>1
    <3> QED BY <2>1, <2>2, <2>4, <2>5, <3>1 DEF AccountTypes
  <2>7. HandlersOK'
    <3> SUFFICES ASSUME NEW g \in Handlers PROVE HandlerOK(act[g])'
      BY DEF HandlersOK
    <3>1. CASE g = h
      BY <2>4, <3>1, NoActOK DEF HandlerOK
    <3>2. CASE g # h
      BY <1>0, <2>1, <2>4, <3>2 DEF HandlerOK
    <3> QED BY <3>1, <3>2
  <2>8. SettingsKept' /\ BanHolds'
    BY <2>1, <2>2 DEF SettingsKept, BanHolds
  <2>9. MailsOnce'
    <3> SUFFICES ASSUME NEW k \in Users, NEW m \in 1 .. MaxMails, <<k, m>> \notin racedMails
                 PROVE  MailOnce(k, m)'
      BY <2>2 DEF MailsOnce
    <3>1. MailOnce(k, m) /\ m # 0
      BY AccountsAssumption DEF MailsOnce
    <3>2. \A g \in Handlers : Holds(g, k, m)' => Holds(g, k, m) /\ act'[g].pc = act[g].pc
      BY <2>4, NoActOK DEF Holds
    <3>3. CASE k = u
      BY <2>1, <2>2, <2>5, <3>1, <3>2, <3>3 DEF MailOnce
    <3>4. CASE k # u
      <4>1. \A g \in Handlers : Holds(g, k, m)' <=> Holds(g, k, m)
        BY <2>4, <3>2, <3>4 DEF Holds
      <4> QED BY <2>1, <2>2, <2>5, <3>1, <3>2, <3>4, <4>1 DEF MailOnce
    <3> QED BY <3>3, <3>4
  <2> QED BY <2>6, <2>7, <2>8, <2>9
<1>23. CASE UNCHANGED accountVars
  BY <1>23 DEF accountVars, accountHistory, AccountTypes, HandlersOK, HandlerOK, SettingsKept,
    BanHolds,
               MailsOnce, MailOnce, Holds
<1> QED BY <1>1, <1>3, <1>5, <1>6, <1>7, <1>8, <1>11, <1>14, <1>16, <1>17, <1>18, <1>19, <1>20,
        <1>21, <1>22, <1>23
        DEF AccountsNext

\* It implies what the run checks.
LEMMA AccountsIndInvImplies == AccountsIndInv => AccountsInv
<1> SUFFICES ASSUME AccountsIndInv PROVE AccountsInv
  OBVIOUS
<1> USE DEF AccountsIndInv
<1>1. AccountTypeOK
  <2>1. ASSUME NEW u \in Users
        PROVE  /\ acct[u].status \in {"none", "inactive", "active", "banned"}
               /\ acct[u].row["storage"] \in {0, 1} /\ session[u] \in {"out", "half", "in"}
    BY DEF AccountTypes, AcctRows, UserRows
  <2>2. ASSUME NEW u \in Users PROVE resetKey[u] \in 0 .. mails[u] /\ mails[u] \in 0 .. MaxMails
    BY AccountsAssumption DEF AccountTypes
  <2>3. edits \in 0 .. MaxEdits /\ \A h \in Handlers : act[h].pc \in {"idle", "write", "delete"}
    BY DEF AccountTypes, ActRows
  <2> QED BY <2>1, <2>2, <2>3 DEF AccountTypeOK
<1>2. MailResetsOnce
  BY DEF MailResetsOnce, MailsOnce, MailOnce
<1> QED BY <1>1, <1>2 DEF AccountsInv

\* A user's row is what the user and the administrator asked for last unless
\* two writes overlapped, a ban holds unless an activation that had checked the
\* status before wrote after it, and the secret of a mail resets a password
\* once unless two requests checked it at the same time (User.UpdateOptions,
\* AddUserService.Add, SettingService.Activate, UserService.Ban,
\* UserResetService.Reset): for every set of users, handlers and values.
THEOREM AccountsHold == AccountsSpec => []AccountsInv
BY AccountsInitInv, AccountsStep, AccountsIndInvImplies, PTL DEF AccountsSpec

-----------------------------------------------------------------------------
(* Administration.                                                         *)

\* The rows of groups, ...
GroupRows == [st : {"unused", "row", "deleted"}, list : PolicyLists \cup {<<>>}, late : BOOLEAN]

\* ... of users, ...
MemberRows == [st : {"unused", "row", "deleted"}, group : GroupIDs \cup {""}, late : BOOLEAN]

\* ... and of files.
RecordRows == [st : {"none", "row"}, owner : Members \cup {""}, policy : PolicyIDs \cup {""}, late : BOOLEAN]

\* What an administrator's request may be about.
DeskIDs == GroupIDs \cup PolicyIDs \cup Members \cup Records \cup {""}

\* A request of the administrator's page, or an upload.
DeskRows ==
    [pc : {"off", "deleteGroup", "clear", "deletePolicy", "insert", "cache", "tag", "purge", "deleteUser", "async"},
     id : DeskIDs, who : Members \cup {""}, ver : 0 .. MaxVersions]

\* The types of the variables.
AdminTypes ==
    /\ groupRow \in [GroupIDs -> GroupRows] /\ memberRow \in [Members -> MemberRows]
    /\ fileRow \in [Records -> RecordRows] /\ tagRow \in [Members -> {"none", "row", "late"}]
    /\ policyRow \in [PolicyIDs -> 0 .. MaxVersions] /\ policyCache \in [PolicyIDs -> 0 .. MaxVersions]
    /\ desk \in [Clerks -> DeskRows]

\* A row refers to identifiers, the system's groups and the default policy are
\* always there.
RowsRefer ==
    /\ \A g \in GroupIDs : In(groupRow[g]) => groupRow[g].list \in PolicyLists
    /\ \A g \in SystemGroups : In(groupRow[g])
    /\ policyRow[DefaultPolicy] # 0
    /\ \A m \in Members : In(memberRow[m]) => memberRow[m].group \in GroupIDs
    /\ \A f \in Records : In(fileRow[f]) => fileRow[f].owner \in Members /\ fileRow[f].policy \in PolicyIDs

\* The users of a group were added after the last count of its users.
LateMembers(g) == \A m \in Members : In(memberRow[m]) /\ memberRow[m].group = g => memberRow[m].late

\* The groups whose only policy is this one were changed after the last count.
LateGroups(p) ==
    \A g \in GroupIDs :
        In(groupRow[g]) /\ Len(groupRow[g].list) = 1 /\ groupRow[g].list[1] = p => groupRow[g].late

\* The files of a policy were added after the last count.
LateFiles(p) == \A f \in Records : In(fileRow[f]) /\ fileRow[f].policy = p => fileRow[f].late

\* The files of a user were added after they were listed, or the driver refused
\* to delete them.
LateOf(m) ==
    \A f \in Records : In(fileRow[f]) /\ fileRow[f].owner = m => fileRow[f].late \/ m \in refusedDeletes

\* What a request that is about to delete has checked still holds, but for rows
\* that came later (GroupService.Delete, PolicyService.Delete,
\* UserBatchService.Delete).
DeskOK(q) ==
    /\ q.pc = "deleteGroup" => q.id \in GroupIDs \ SystemGroups /\ LateMembers(q.id)
    /\ q.pc = "deletePolicy" => q.id \in PolicyIDs \ {DefaultPolicy} /\ LateGroups(q.id) /\ LateFiles(q.id)
    /\ q.pc \in {"clear", "cache", "insert"} => q.id \in PolicyIDs
    /\ q.pc \in {"cache", "insert", "tag", "async"} => q.who \in Members
    /\ q.pc \in {"purge", "deleteUser"} => q.id \in Members /\ LateOf(q.id)
    /\ q.pc = "deleteUser" => tagRow[q.id] # "row"
    /\ q.pc = "async" => q.id \in Records

\* This holds of every request.
DesksOK == \A c \in Clerks : DeskOK(desk[c])

\* The inductive invariant. A row is deleted some steps after nothing referred
\* to it: the invariant carries the result of that check to the deletion.
AdminIndInv ==
    /\ AdminTypes /\ RowsRefer /\ DesksOK
    /\ MemberHasGroup /\ GroupHasPolicy /\ FileHasPolicy /\ PolicyCacheFresh /\ NothingOfDeletedUsers

-----------------------------------------------------------------------------

\* The empty rows have their types.
LEMMA EmptyRows ==
    /\ NoGroup \in GroupRows /\ NoMember \in MemberRows /\ NoRecord \in RecordRows /\ Off \in DeskRows
    /\ Off.pc = "off" /\ NoRecord.st = "none"
<1>1. FALSE \in BOOLEAN /\ 0 \in 0 .. MaxVersions
  BY AdministrationAssumption
<1>2. NoGroup \in GroupRows
  BY <1>1, Zenon DEF NoGroup, GroupRows
<1>3. NoMember \in MemberRows
  BY <1>1, Zenon DEF NoMember, MemberRows
<1>4. NoRecord \in RecordRows /\ NoRecord.st = "none"
  BY <1>1, Zenon DEF NoRecord, RecordRows
<1>5. "" \in DeskIDs
  BY DEF DeskIDs
<1>6. Off \in DeskRows /\ Off.pc = "off"
  BY <1>1, <1>5, Zenon DEF Off, DeskRows
<1> QED BY <1>2, <1>3, <1>4, <1>6

\* A list of one policy is that policy.
LEMMA SingleList ==
    ASSUME NEW l \in PolicyLists, Len(l) = 1 PROVE l = <<l[1]>>
BY AdministrationAssumption

\* A request that has not begun has checked nothing.
LEMMA OffOK == DeskOK(Off)
BY EmptyRows DEF DeskOK

\* It holds for the database the migration makes.
LEMMA AdminInitInv == AdminInit => AdminIndInv
<1> SUFFICES ASSUME AdminInit PROVE AdminIndInv
  OBVIOUS
<1>1. \A g \in GroupIDs : groupRow[g] \in GroupRows /\ (In(groupRow[g]) => g \in SystemGroups /\ groupRow[g].list = <<DefaultPolicy>>)
      /\ (g \in SystemGroups => In(groupRow[g]))
  <2> DEFINE s == [NoGroup EXCEPT !.st = "row", !.list = <<DefaultPolicy>>]
  <2>1. s.st = "row" /\ s.list = <<DefaultPolicy>> /\ NoGroup.st = "unused"
    BY DEF NoGroup
  <2>2. s \in GroupRows /\ NoGroup \in GroupRows
    BY EmptyRows, AdministrationAssumption DEF GroupRows
  <2> HIDE DEF s
  <2>3. \A g \in GroupIDs : groupRow[g] = IF g \in SystemGroups THEN s ELSE NoGroup
    BY DEF AdminInit, s
  <2> QED BY <2>1, <2>2, <2>3 DEF In
<1>2. AdminTypes
  <2>1. groupRow \in [GroupIDs -> GroupRows]
    BY <1>1 DEF AdminInit
  <2>2. policyRow \in [PolicyIDs -> 0 .. MaxVersions] /\ policyCache \in [PolicyIDs -> 0 .. MaxVersions]
    BY AdministrationAssumption DEF AdminInit
  <2> QED BY <2>1, <2>2, EmptyRows DEF AdminInit, AdminTypes
<1>3. /\ \A m \in Members : ~In(memberRow[m]) /\ tagRow[m] = "none"
      /\ \A f \in Records : ~In(fileRow[f])
      /\ \A p \in PolicyIDs : policyRow[p] = 1 /\ policyCache[p] = 0
  BY DEF AdminInit, In, NoMember, NoRecord
<1>4. RowsRefer
  BY <1>1, <1>3, AdministrationAssumption DEF RowsRefer
<1>5. DesksOK
  BY OffOK DEF AdminInit, DesksOK
<1>6. MemberHasGroup /\ GroupHasPolicy /\ FileHasPolicy /\ PolicyCacheFresh
  BY <1>1, <1>3, AdministrationAssumption DEF MemberHasGroup, GroupHasPolicy, FileHasPolicy,
    PolicyCacheFresh, Gone
<1>7. NothingOfDeletedUsers
  BY <1>3 DEF NothingOfDeletedUsers, FilesOf
<1> QED BY <1>2, <1>4, <1>5, <1>6, <1>7 DEF AdminIndInv

\* One clerk goes on to q; the others stay where they are.
LEMMA ClerkMoves ==
    ASSUME AdminTypes, NEW c \in Clerks, NEW q \in DeskRows, desk' = [desk EXCEPT ![c] = q]
    PROVE  /\ desk' \in [Clerks -> DeskRows] /\ desk'[c] = q
           /\ \A d \in Clerks : d # c => desk'[d] = desk[d]
BY DEF AdminTypes

\* Only a desk changes, and not to end a clearing of the cache.
LEMMA QuietClerk ==
    ASSUME AdminIndInv, NEW c \in Clerks, NEW q \in DeskRows, desk' = [desk EXCEPT ![c] = q], DeskOK(q),
           desk[c].pc # "clear", UNCHANGED <<adminTables, policyCache, adminHistory>>
    PROVE  AdminIndInv'
<1> USE DEF AdminIndInv
<1>1. /\ desk' \in [Clerks -> DeskRows] /\ desk'[c] = q
      /\ \A d \in Clerks : d # c => desk'[d] = desk[d]
  BY ClerkMoves
<1>2. UNCHANGED <<groupRow, policyRow, memberRow, fileRow, tagRow, policyCache, staleSets, refusedDeletes>>
  BY DEF adminTables, adminHistory
<1>3. AdminTypes' /\ RowsRefer'
  BY <1>1, <1>2 DEF AdminTypes, RowsRefer, In
<1>4. DesksOK'
  BY <1>1, <1>2 DEF DesksOK, DeskOK, LateMembers, LateGroups, LateFiles, LateOf, In
<1>5. MemberHasGroup' /\ GroupHasPolicy' /\ FileHasPolicy' /\ NothingOfDeletedUsers'
  BY <1>2 DEF MemberHasGroup, GroupHasPolicy, FileHasPolicy, NothingOfDeletedUsers, In, Gone,
    FilesOf
<1>6. PolicyCacheFresh'
  <2>1. \A p \in PolicyIDs : AtDesk("clear", p) => AtDesk("clear", p)'
    BY <1>1 DEF AtDesk
  <2> QED BY <1>2, <2>1 DEF PolicyCacheFresh
<1> QED BY <1>3, <1>4, <1>5, <1>6

\* Every step of the administrator's requests, of registrations and of uploads
\* keeps it.
LEMMA AdminStep == AdminIndInv /\ [AdminNext]_adminVars => AdminIndInv'
<1> SUFFICES ASSUME AdminIndInv, [AdminNext]_adminVars PROVE AdminIndInv'
  OBVIOUS
<1> USE DEF AdminIndInv
<1>0. /\ \A c \in Clerks : desk[c] \in DeskRows /\ DeskOK(desk[c])
      /\ \A c \in Clerks : desk[c].id \in DeskIDs /\ desk[c].who \in Members \cup {""}
      /\ 0 \in 0 .. MaxVersions
  <2>1. 0 \in 0 .. MaxVersions
    BY AdministrationAssumption
  <2> QED BY <2>1 DEF AdminTypes, DesksOK, DeskRows
<1>1. ASSUME NEW g \in GroupIDs, NEW list \in PolicyLists, AddGroup(g, list) PROVE AdminIndInv'
  <2> DEFINE late == Gone(list[1]) \/ AtDesk("deletePolicy", list[1])
             r == [st |-> "row", list |-> list, late |-> late]
  <2>1. groupRow' = [groupRow EXCEPT ![g] = r]
        /\ UNCHANGED <<policyRow, memberRow, fileRow, tagRow, policyCache, desk, adminHistory>>
    BY <1>1 DEF AddGroup
  <2>2. UNCHANGED <<staleSets, refusedDeletes>>
    BY <2>1 DEF adminHistory
  <2>3. r \in GroupRows
    <3>1. late \in BOOLEAN
      BY DEF Gone, AtDesk
    <3> HIDE DEF late
    <3> QED BY <3>1, Zenon DEF GroupRows
  <2>4. r.st = "row" /\ r.list = list
    OBVIOUS
  <2>5. r.late <=> Gone(list[1]) \/ AtDesk("deletePolicy", list[1])
    OBVIOUS
  <2> HIDE DEF r, late
  <2>6. groupRow' \in [GroupIDs -> GroupRows] /\ groupRow'[g] = r /\ \A k \in GroupIDs : k # g => groupRow'[k] = groupRow[k]
    BY <2>1, <2>3 DEF AdminTypes
  <2>7. AdminTypes'
    BY <2>1, <2>6 DEF AdminTypes
  <2>8. \A k \in GroupIDs : In(groupRow[k]) => In(groupRow'[k])
    BY <2>4, <2>6 DEF In
  <2>9. RowsRefer'
    BY <2>1, <2>4, <2>6, <2>8, AdministrationAssumption DEF RowsRefer, In
  <2>10. DesksOK'
    <3> SUFFICES ASSUME NEW c \in Clerks PROVE DeskOK(desk[c])'
      BY DEF DesksOK
    <3>1. LateMembers(desk[c].id)' <=> LateMembers(desk[c].id)
      BY <2>1 DEF LateMembers
    <3>2. LateFiles(desk[c].id)' <=> LateFiles(desk[c].id)
      BY <2>1 DEF LateFiles
    <3>3. LateOf(desk[c].id)' <=> LateOf(desk[c].id)
      BY <2>1, <2>2 DEF LateOf
    <3>4. desk[c].pc = "deletePolicy" /\ LateGroups(desk[c].id) => LateGroups(desk[c].id)'
      BY <2>1, <2>4, <2>5, <2>6 DEF LateGroups, AtDesk
    <3> QED BY <1>0, <2>1, <3>1, <3>2, <3>3, <3>4 DEF DeskOK
  <2>11. MemberHasGroup'
    BY <2>1, <2>8 DEF MemberHasGroup, RowsRefer
  <2>12. GroupHasPolicy'
    BY <2>1, <2>4, <2>5, <2>6 DEF GroupHasPolicy, Gone
  <2>13. FileHasPolicy' /\ PolicyCacheFresh' /\ NothingOfDeletedUsers'
    BY <2>1, <2>2 DEF FileHasPolicy, PolicyCacheFresh, NothingOfDeletedUsers, FilesOf, Gone, AtDesk
  <2> QED BY <2>7, <2>9, <2>10, <2>11, <2>12, <2>13
<1>2. ASSUME NEW m \in Members, NEW g \in GroupIDs, AssignGroup(m, g) PROVE AdminIndInv'
  <2> DEFINE late == ~In(groupRow[g]) \/ AtDesk("deleteGroup", g)
             r == [st |-> "row", group |-> g, late |-> late]
  <2>1. memberRow' = [memberRow EXCEPT ![m] = r]
        /\ UNCHANGED <<groupRow, policyRow, fileRow, tagRow, policyCache, desk, adminHistory>>
    BY <1>2 DEF AssignGroup
  <2>2. UNCHANGED <<staleSets, refusedDeletes>>
    BY <2>1 DEF adminHistory
  <2>3. r \in MemberRows
    <3>1. late \in BOOLEAN
      BY DEF In, AtDesk
    <3> HIDE DEF late
    <3> QED BY <3>1, Zenon DEF MemberRows
  <2>4. r.st = "row" /\ r.group = g
    OBVIOUS
  <2>5. r.late <=> ~In(groupRow[g]) \/ AtDesk("deleteGroup", g)
    OBVIOUS
  <2> HIDE DEF r, late
  <2>6. memberRow' \in [Members -> MemberRows] /\ memberRow'[m] = r /\ \A k \in Members : k # m => memberRow'[k] = memberRow[k]
    BY <2>1, <2>3 DEF AdminTypes
  <2>7. AdminTypes'
    BY <2>1, <2>6 DEF AdminTypes
  <2>8. RowsRefer'
    BY <2>1, <2>4, <2>6 DEF RowsRefer, In
  <2>9. DesksOK'
    <3> SUFFICES ASSUME NEW c \in Clerks PROVE DeskOK(desk[c])'
      BY DEF DesksOK
    <3>1. LateGroups(desk[c].id)' <=> LateGroups(desk[c].id)
      BY <2>1 DEF LateGroups
    <3>2. LateFiles(desk[c].id)' <=> LateFiles(desk[c].id)
      BY <2>1 DEF LateFiles
    <3>3. LateOf(desk[c].id)' <=> LateOf(desk[c].id)
      BY <2>1, <2>2 DEF LateOf
    <3>4. desk[c].pc = "deleteGroup" /\ LateMembers(desk[c].id) => LateMembers(desk[c].id)'
      BY <2>1, <2>4, <2>5, <2>6 DEF LateMembers, AtDesk
    <3> QED BY <1>0, <2>1, <3>1, <3>2, <3>3, <3>4 DEF DeskOK
  <2>10. MemberHasGroup'
    BY <2>1, <2>4, <2>5, <2>6 DEF MemberHasGroup
  <2>11. GroupHasPolicy' /\ FileHasPolicy' /\ PolicyCacheFresh'
    BY <2>1, <2>2 DEF GroupHasPolicy, FileHasPolicy, PolicyCacheFresh, Gone, AtDesk
  <2>12. NothingOfDeletedUsers'
    BY <2>1, <2>2, <2>4, <2>6 DEF NothingOfDeletedUsers, FilesOf, In
  <2> QED BY <2>7, <2>8, <2>9, <2>10, <2>11, <2>12
<1>3. ASSUME NEW c \in Clerks, NEW g \in GroupIDs, GroupDelete(c, g) PROVE AdminIndInv'
  <2> DEFINE q == [pc |-> "deleteGroup", id |-> g, who |-> "", ver |-> 0]
  <2>1. /\ desk[c].pc = "off" /\ g \notin SystemGroups /\ UsersOf(g) = {} /\ desk' = [desk EXCEPT ![c] = q]
        /\ UNCHANGED <<adminTables, policyCache, adminHistory>>
    BY <1>3 DEF GroupDelete, Sits, Idle
  <2>2. q \in DeskRows
    BY <1>0 DEF DeskRows, DeskIDs
  <2>3. DeskOK(q)
    BY <2>1 DEF DeskOK, LateMembers, UsersOf
  <2> QED BY <2>1, <2>2, <2>3, QuietClerk
<1>4. ASSUME NEW c \in Clerks, GroupDeleted(c) PROVE AdminIndInv'
  <2> DEFINE g == desk[c].id
             r == [NoGroup EXCEPT !.st = "deleted"]
  <2>1. /\ desk[c].pc = "deleteGroup" /\ desk' = [desk EXCEPT ![c] = Off] /\ groupRow' = [groupRow EXCEPT ![g] = r]
        /\ UNCHANGED <<policyRow, memberRow, fileRow, tagRow, policyCache, staleSets, refusedDeletes>>
    BY <1>4 DEF GroupDeleted, Leaves, adminHistory
  <2>2. g \in GroupIDs \ SystemGroups /\ LateMembers(g)
    BY <1>0, <2>1 DEF DeskOK
  <2>3. r \in GroupRows /\ r.st = "deleted"
    BY EmptyRows DEF GroupRows
  <2> HIDE DEF r
  <2>4. groupRow' \in [GroupIDs -> GroupRows] /\ groupRow'[g] = r /\ \A k \in GroupIDs : k # g => groupRow'[k] = groupRow[k]
    BY <2>1, <2>2, <2>3 DEF AdminTypes
  <2>5. /\ desk' \in [Clerks -> DeskRows] /\ desk'[c] = Off
        /\ \A d \in Clerks : d # c => desk'[d] = desk[d]
    BY <2>1, EmptyRows, ClerkMoves
  <2>6. AdminTypes'
    BY <2>1, <2>4, <2>5 DEF AdminTypes
  <2>7. RowsRefer'
    BY <2>1, <2>2, <2>3, <2>4 DEF RowsRefer, In
  <2>8. DesksOK'
    <3> SUFFICES ASSUME NEW d \in Clerks PROVE DeskOK(desk[d])'
      BY DEF DesksOK
    <3>1. CASE d = c
      BY <2>5, <3>1, EmptyRows DEF DeskOK
    <3>2. CASE d # c
      <4>1. \A p : LateGroups(p) => LateGroups(p)'
        BY <2>1, <2>3, <2>4 DEF LateGroups, In
      <4>2. \A p : LateFiles(p) => LateFiles(p)'
        BY <2>1 DEF LateFiles
      <4>3. \A m : (LateOf(m) => LateOf(m)') /\ (LateMembers(m) => LateMembers(m)')
        BY <2>1 DEF LateOf, LateMembers
      <4> QED BY <1>0, <2>1, <2>5, <3>2, <4>1, <4>2, <4>3 DEF DeskOK
    <3> QED BY <3>1, <3>2
  <2>9. MemberHasGroup'
    BY <2>1, <2>2, <2>4 DEF MemberHasGroup, LateMembers
  <2>10. GroupHasPolicy' /\ FileHasPolicy' /\ NothingOfDeletedUsers'
    BY <2>1, <2>3, <2>4 DEF GroupHasPolicy, FileHasPolicy, NothingOfDeletedUsers, FilesOf, Gone, In
  <2>11. PolicyCacheFresh'
    BY <2>1, <2>5 DEF PolicyCacheFresh, AtDesk
  <2> QED BY <2>6, <2>7, <2>8, <2>9, <2>10, <2>11
<1>5. ASSUME NEW c \in Clerks, NEW p \in PolicyIDs, AddPolicy(c, p) PROVE AdminIndInv'
  <2> DEFINE q == [pc |-> "clear", id |-> p, who |-> "", ver |-> 0]
  <2>1. /\ desk[c].pc = "off" /\ policyRow[p] \in 1 .. MaxVersions - 1 /\ desk' = [desk EXCEPT ![c] = q]
        /\ policyRow' = [policyRow EXCEPT ![p] = policyRow[p] + 1]
        /\ UNCHANGED <<groupRow, memberRow, fileRow, tagRow, policyCache, staleSets, refusedDeletes>>
    BY <1>5 DEF AddPolicy, Sits, Idle, adminHistory
  <2>2. q \in DeskRows /\ q.pc = "clear" /\ q.id = p
    BY <1>0 DEF DeskRows, DeskIDs
  <2> HIDE DEF q
  <2>3. /\ desk' \in [Clerks -> DeskRows] /\ desk'[c] = q
        /\ \A d \in Clerks : d # c => desk'[d] = desk[d]
    BY <2>1, <2>2, ClerkMoves
  <2>4. policyRow[p] + 1 \in 0 .. MaxVersions /\ policyRow[p] + 1 # 0 /\ policyRow[p] # 0
    BY <2>1, AdministrationAssumption
  <2>5. /\ policyRow' \in [PolicyIDs -> 0 .. MaxVersions] /\ policyRow'[p] # 0
        /\ \A k \in PolicyIDs : k # p => policyRow'[k] = policyRow[k]
    BY <2>1, <2>4 DEF AdminTypes
  <2>6. AdminTypes'
    BY <2>1, <2>3, <2>5 DEF AdminTypes
  <2>7. \A k \in PolicyIDs : policyRow[k] # 0 => policyRow'[k] # 0
    BY <2>5
  <2>8. RowsRefer'
    BY <2>1, <2>7, AdministrationAssumption DEF RowsRefer
  <2>9. DesksOK'
    <3> SUFFICES ASSUME NEW d \in Clerks PROVE DeskOK(desk[d])'
      BY DEF DesksOK
    <3>1. CASE d = c
      BY <2>2, <2>3, <3>1 DEF DeskOK
    <3>2. CASE d # c
      BY <1>0, <2>1, <2>3, <3>2 DEF DeskOK, LateGroups, LateFiles, LateOf, LateMembers
    <3> QED BY <3>1, <3>2
  <2>10. MemberHasGroup' /\ NothingOfDeletedUsers'
    BY <2>1 DEF MemberHasGroup, NothingOfDeletedUsers, FilesOf
  <2>11. GroupHasPolicy'
    <3>1. \A g \in GroupIDs : In(groupRow[g]) => groupRow[g].list[1] \in PolicyIDs
      BY AdministrationAssumption DEF RowsRefer
    <3> QED BY <2>1, <2>7, <3>1 DEF GroupHasPolicy, Gone
  <2>12. FileHasPolicy'
    BY <2>1, <2>7 DEF FileHasPolicy, Gone, RowsRefer
  <2>13. PolicyCacheFresh'
    BY <2>1, <2>2, <2>3, <2>5 DEF PolicyCacheFresh, AtDesk
  <2> QED BY <2>6, <2>8, <2>9, <2>10, <2>11, <2>12, <2>13
<1>6. ASSUME NEW c \in Clerks, ClearCache(c) PROVE AdminIndInv'
  <2> DEFINE p == desk[c].id
  <2>1. /\ desk[c].pc = "clear" /\ desk' = [desk EXCEPT ![c] = Off]
        /\ policyCache' = [policyCache EXCEPT ![p] = 0] /\ staleSets' = staleSets \ {p}
        /\ UNCHANGED <<groupRow, policyRow, memberRow, fileRow, tagRow, refusedDeletes>>
    BY <1>6 DEF ClearCache, Leaves, adminTables
  <2>2. p \in PolicyIDs
    BY <1>0, <2>1 DEF DeskOK
  <2>3. /\ desk' \in [Clerks -> DeskRows] /\ desk'[c] = Off
        /\ \A d \in Clerks : d # c => desk'[d] = desk[d]
    BY <2>1, EmptyRows, ClerkMoves
  <2>4. /\ policyCache' \in [PolicyIDs -> 0 .. MaxVersions] /\ policyCache'[p] = 0
        /\ \A k \in PolicyIDs : k # p => policyCache'[k] = policyCache[k]
    BY <1>0, <2>1, <2>2 DEF AdminTypes
  <2>5. AdminTypes' /\ RowsRefer'
    BY <2>1, <2>3, <2>4 DEF AdminTypes, RowsRefer
  <2>6. DesksOK'
    <3> SUFFICES ASSUME NEW d \in Clerks PROVE DeskOK(desk[d])'
      BY DEF DesksOK
    <3>1. CASE d = c
      BY <2>3, <3>1, EmptyRows DEF DeskOK
    <3>2. CASE d # c
      BY <1>0, <2>1, <2>3, <3>2 DEF DeskOK, LateGroups, LateFiles, LateOf, LateMembers
    <3> QED BY <3>1, <3>2
  <2>7. MemberHasGroup' /\ GroupHasPolicy' /\ FileHasPolicy' /\ NothingOfDeletedUsers'
    BY <2>1 DEF MemberHasGroup, GroupHasPolicy, FileHasPolicy, NothingOfDeletedUsers, FilesOf, Gone
  <2>8. PolicyCacheFresh'
    <3> SUFFICES ASSUME NEW k \in PolicyIDs
                 PROVE  policyCache'[k] \in {0, policyRow'[k]} \/ AtDesk("clear", k)' \/ k \in staleSets'
      BY DEF PolicyCacheFresh
    <3>1. CASE k = p
      BY <2>4, <3>1
    <3>2. CASE k # p
      <4>1. AtDesk("clear", k) => AtDesk("clear", k)'
        BY <2>3, <3>2 DEF AtDesk
      <4> QED BY <2>1, <2>4, <3>2, <4>1 DEF PolicyCacheFresh
    <3> QED BY <3>1, <3>2
  <2> QED BY <2>5, <2>6, <2>7, <2>8
<1>7. ASSUME NEW c \in Clerks, NEW p \in PolicyIDs, PolicyDelete(c, p) PROVE AdminIndInv'
  <2> DEFINE q == [pc |-> "deletePolicy", id |-> p, who |-> "", ver |-> 0]
  <2>1. /\ desk[c].pc = "off" /\ p # DefaultPolicy /\ FilesOn(p) = {} /\ GroupsOn(p) = {} /\ desk' = [desk EXCEPT ![c] = q]
        /\ UNCHANGED <<adminTables, policyCache, adminHistory>>
    BY <1>7 DEF PolicyDelete, Sits, Idle
  <2>2. q \in DeskRows
    BY <1>0 DEF DeskRows, DeskIDs
  <2>3. LateFiles(p)
    BY <2>1 DEF LateFiles, FilesOn
  <2>4. LateGroups(p)
    <3> SUFFICES ASSUME NEW g \in GroupIDs, In(groupRow[g]), Len(groupRow[g].list) = 1, groupRow[g].list[1] = p
                 PROVE  FALSE
      BY DEF LateGroups
    <3>1. groupRow[g].list \in PolicyLists
      BY DEF RowsRefer
    <3>2. groupRow[g].list = <<p>>
      BY <3>1, SingleList
    <3> QED BY <2>1, <3>2 DEF GroupsOn
  <2>5. DeskOK(q)
    BY <2>1, <2>3, <2>4 DEF DeskOK
  <2> QED BY <2>1, <2>2, <2>5, QuietClerk
<1>8. ASSUME NEW c \in Clerks, PolicyDeleted(c) PROVE AdminIndInv'
  <2> DEFINE p == desk[c].id
             q == [pc |-> "clear", id |-> p, who |-> "", ver |-> 0]
  <2>1. /\ desk[c].pc = "deletePolicy" /\ desk' = [desk EXCEPT ![c] = q]
        /\ policyRow' = [policyRow EXCEPT ![p] = 0]
        /\ UNCHANGED <<groupRow, memberRow, fileRow, tagRow, policyCache, staleSets, refusedDeletes>>
    BY <1>8 DEF PolicyDeleted, Sits, adminHistory
  <2>2. p \in PolicyIDs \ {DefaultPolicy} /\ LateGroups(p) /\ LateFiles(p)
    BY <1>0, <2>1 DEF DeskOK
  <2>3. q \in DeskRows /\ q.pc = "clear" /\ q.id = p
    BY <1>0, <2>2 DEF DeskRows, DeskIDs
  <2> HIDE DEF q
  <2>4. /\ desk' \in [Clerks -> DeskRows] /\ desk'[c] = q
        /\ \A d \in Clerks : d # c => desk'[d] = desk[d]
    BY <2>1, <2>3, ClerkMoves
  <2>5. /\ policyRow' \in [PolicyIDs -> 0 .. MaxVersions] /\ policyRow'[p] = 0
        /\ \A k \in PolicyIDs : k # p => policyRow'[k] = policyRow[k]
    BY <1>0, <2>1, <2>2 DEF AdminTypes
  <2>6. AdminTypes'
    BY <2>1, <2>4, <2>5 DEF AdminTypes
  <2>7. RowsRefer'
    BY <2>1, <2>2, <2>5, AdministrationAssumption DEF RowsRefer
  <2>8. DesksOK'
    <3> SUFFICES ASSUME NEW d \in Clerks PROVE DeskOK(desk[d])'
      BY DEF DesksOK
    <3>1. CASE d = c
      BY <2>2, <2>3, <2>4, <3>1 DEF DeskOK
    <3>2. CASE d # c
      BY <1>0, <2>1, <2>4, <3>2 DEF DeskOK, LateGroups, LateFiles, LateOf, LateMembers
    <3> QED BY <3>1, <3>2
  <2>9. MemberHasGroup' /\ NothingOfDeletedUsers'
    BY <2>1 DEF MemberHasGroup, NothingOfDeletedUsers, FilesOf
  <2>10. GroupHasPolicy'
    <3>1. \A g \in GroupIDs : In(groupRow[g]) => groupRow[g].list[1] \in PolicyIDs
      BY AdministrationAssumption DEF RowsRefer
    <3> QED BY <2>1, <2>2, <2>5, <3>1 DEF GroupHasPolicy, Gone, LateGroups
  <2>11. FileHasPolicy'
    BY <2>1, <2>2, <2>5 DEF FileHasPolicy, Gone, RowsRefer, LateFiles
  <2>12. PolicyCacheFresh'
    BY <2>1, <2>3, <2>4, <2>5 DEF PolicyCacheFresh, AtDesk
  <2> QED BY <2>6, <2>7, <2>8, <2>9, <2>10, <2>11, <2>12
<1>9. ASSUME NEW c \in Clerks, NEW m \in Members, GetPolicyByID(c, m) PROVE AdminIndInv'
  <2> DEFINE p == GetPolicyID(m)
             q1 == [pc |-> "insert", id |-> p, who |-> m, ver |-> 0]
             q2 == [pc |-> "cache", id |-> p, who |-> m, ver |-> policyRow[p]]
  <2>1. /\ desk[c].pc = "off" /\ In(memberRow[m]) /\ In(groupRow[memberRow[m].group])
        /\ desk' = [desk EXCEPT ![c] = q1] \/ desk' = [desk EXCEPT ![c] = q2]
        /\ UNCHANGED <<adminTables, policyCache, adminHistory>>
    BY <1>9 DEF GetPolicyByID, Sits, Idle
  <2>2. p \in PolicyIDs
    <3>1. groupRow[memberRow[m].group].list \in PolicyLists
      BY <2>1 DEF RowsRefer
    <3> QED BY <3>1, AdministrationAssumption DEF GetPolicyID
  <2>3. policyRow[p] \in 0 .. MaxVersions
    BY <2>2 DEF AdminTypes
  <2> HIDE DEF p
  <2>4. q1 \in DeskRows /\ q2 \in DeskRows
    BY <1>0, <2>2, <2>3 DEF DeskRows, DeskIDs
  <2>5. DeskOK(q1) /\ DeskOK(q2)
    BY <2>2 DEF DeskOK
  <2> HIDE DEF q1, q2
  <2> QED BY <2>1, <2>4, <2>5, QuietClerk
<1>10. ASSUME NEW c \in Clerks, CachePolicy(c) PROVE AdminIndInv'
  <2> DEFINE p == desk[c].id
             q == [pc |-> "insert", id |-> p, who |-> desk[c].who, ver |-> 0]
  <2>1. /\ desk[c].pc = "cache" /\ desk' = [desk EXCEPT ![c] = q]
        /\ policyCache' = [policyCache EXCEPT ![p] = desk[c].ver]
        /\ staleSets' = IF desk[c].ver # policyRow[p] THEN staleSets \cup {p} ELSE staleSets \ {p}
        /\ UNCHANGED <<groupRow, policyRow, memberRow, fileRow, tagRow, refusedDeletes>>
    BY <1>10 DEF CachePolicy, Sits, adminTables
  <2>2. p \in PolicyIDs /\ desk[c].who \in Members /\ desk[c].ver \in 0 .. MaxVersions
    BY <1>0, <2>1 DEF DeskOK, DeskRows
  <2>3. q \in DeskRows /\ q.pc = "insert" /\ q.id = p /\ q.who \in Members
    BY <1>0, <2>2 DEF DeskRows, DeskIDs
  <2> HIDE DEF q
  <2>4. /\ desk' \in [Clerks -> DeskRows] /\ desk'[c] = q
        /\ \A d \in Clerks : d # c => desk'[d] = desk[d]
    BY <2>1, <2>3, ClerkMoves
  <2>5. /\ policyCache' \in [PolicyIDs -> 0 .. MaxVersions] /\ policyCache'[p] = desk[c].ver
        /\ \A k \in PolicyIDs : k # p => policyCache'[k] = policyCache[k]
    BY <2>1, <2>2 DEF AdminTypes
  <2>6. AdminTypes' /\ RowsRefer'
    BY <2>1, <2>4, <2>5 DEF AdminTypes, RowsRefer
  <2>7. DesksOK'
    <3> SUFFICES ASSUME NEW d \in Clerks PROVE DeskOK(desk[d])'
      BY DEF DesksOK
    <3>1. CASE d = c
      BY <2>2, <2>3, <2>4, <3>1 DEF DeskOK
    <3>2. CASE d # c
      BY <1>0, <2>1, <2>4, <3>2 DEF DeskOK, LateGroups, LateFiles, LateOf, LateMembers
    <3> QED BY <3>1, <3>2
  <2>8. MemberHasGroup' /\ GroupHasPolicy' /\ FileHasPolicy' /\ NothingOfDeletedUsers'
    BY <2>1 DEF MemberHasGroup, GroupHasPolicy, FileHasPolicy, NothingOfDeletedUsers, FilesOf, Gone
  <2>9. PolicyCacheFresh'
    <3> SUFFICES ASSUME NEW k \in PolicyIDs
                 PROVE  policyCache'[k] \in {0, policyRow'[k]} \/ AtDesk("clear", k)' \/ k \in staleSets'
      BY DEF PolicyCacheFresh
    <3>1. CASE k = p
      BY <2>1, <2>5, <3>1
    <3>2. CASE k # p
      <4>1. AtDesk("clear", k) => AtDesk("clear", k)'
        BY <2>1, <2>4 DEF AtDesk
      <4> QED BY <2>1, <2>5, <3>2, <4>1 DEF PolicyCacheFresh
    <3> QED BY <3>1, <3>2
  <2> QED BY <2>6, <2>7, <2>8, <2>9
<1>11. ASSUME NEW c \in Clerks, NEW m \in Members, TagAdmitted(c, m) PROVE AdminIndInv'
  <2> DEFINE q == [pc |-> "tag", id |-> "", who |-> m, ver |-> 0]
  <2>1. /\ desk[c].pc = "off" /\ desk' = [desk EXCEPT ![c] = q] /\ UNCHANGED <<adminTables, policyCache, adminHistory>>
    BY <1>11 DEF TagAdmitted, Sits, Idle
  <2>2. q \in DeskRows
    BY <1>0 DEF DeskRows, DeskIDs
  <2>3. DeskOK(q)
    BY DEF DeskOK
  <2> QED BY <2>1, <2>2, <2>3, QuietClerk
<1>12. ASSUME NEW c \in Clerks, NEW f \in Records, FileBatchDelete(c, f) PROVE AdminIndInv'
  <2> DEFINE q == [pc |-> "async", id |-> f, who |-> fileRow[f].owner, ver |-> 0]
  <2>1. /\ desk[c].pc = "off" /\ In(fileRow[f]) /\ desk' = [desk EXCEPT ![c] = q]
        /\ UNCHANGED <<adminTables, policyCache, adminHistory>>
    BY <1>12 DEF FileBatchDelete, Sits, Idle
  <2>2. fileRow[f].owner \in Members
    BY <2>1 DEF RowsRefer
  <2>3. q \in DeskRows
    BY <1>0, <2>2 DEF DeskRows, DeskIDs
  <2>4. DeskOK(q)
    BY <2>2 DEF DeskOK
  <2> QED BY <2>1, <2>3, <2>4, QuietClerk
<1>13. ASSUME NEW c \in Clerks, TagCreate(c) PROVE AdminIndInv'
  <2> DEFINE m == desk[c].who
             t == IF In(memberRow[m]) /\ ~AtDesk("deleteUser", m) THEN "row" ELSE "late"
  <2>1. /\ desk[c].pc = "tag" /\ desk' = [desk EXCEPT ![c] = Off] /\ tagRow' = [tagRow EXCEPT ![m] = t]
        /\ UNCHANGED <<groupRow, policyRow, memberRow, fileRow, policyCache, staleSets, refusedDeletes>>
    BY <1>13 DEF TagCreate, Leaves, adminHistory
  <2>2. m \in Members
    BY <1>0, <2>1 DEF DeskOK
  <2>3. /\ desk' \in [Clerks -> DeskRows] /\ desk'[c] = Off
        /\ \A d \in Clerks : d # c => desk'[d] = desk[d]
    BY <2>1, EmptyRows, ClerkMoves
  <2>4. /\ tagRow' \in [Members -> {"none", "row", "late"}] /\ tagRow'[m] = t
        /\ \A k \in Members : k # m => tagRow'[k] = tagRow[k]
    BY <2>1, <2>2 DEF AdminTypes
  <2>5. AdminTypes' /\ RowsRefer'
    BY <2>1, <2>3, <2>4 DEF AdminTypes, RowsRefer
  <2>6. DesksOK'
    <3> SUFFICES ASSUME NEW d \in Clerks PROVE DeskOK(desk[d])'
      BY DEF DesksOK
    <3>1. CASE d = c
      BY <2>3, <3>1, EmptyRows DEF DeskOK
    <3>2. CASE d # c
      <4>1. desk[d].pc = "deleteUser" /\ tagRow[desk[d].id] # "row" => tagRow'[desk[d].id] # "row"
        BY <1>0, <2>4 DEF AtDesk, DeskOK
      <4> QED BY <1>0, <2>1, <2>3, <3>2, <4>1 DEF DeskOK, LateGroups, LateFiles, LateOf, LateMembers
    <3> QED BY <3>1, <3>2
  <2>7. MemberHasGroup' /\ GroupHasPolicy' /\ FileHasPolicy'
    BY <2>1 DEF MemberHasGroup, GroupHasPolicy, FileHasPolicy, Gone
  <2>8. PolicyCacheFresh'
    BY <2>1, <2>3 DEF PolicyCacheFresh, AtDesk
  <2>9. NothingOfDeletedUsers'
    BY <2>1, <2>4 DEF NothingOfDeletedUsers, FilesOf
  <2> QED BY <2>5, <2>6, <2>7, <2>8, <2>9
\* Files go away, and who keeps some of them is noted.
<1>14. ASSUME NEW c \in Clerks, NEW q \in DeskRows, desk' = [desk EXCEPT ![c] = q], desk[c].pc # "clear",
              NEW F, Drop(F), refusedDeletes \subseteq refusedDeletes', DeskOK(q)',
              UNCHANGED <<groupRow, policyRow, memberRow, tagRow, policyCache, staleSets>>
       PROVE  AdminIndInv'
  <2>1. /\ desk' \in [Clerks -> DeskRows] /\ desk'[c] = q
        /\ \A d \in Clerks : d # c => desk'[d] = desk[d]
    BY <1>14, ClerkMoves
  <2>2. fileRow' \in [Records -> RecordRows] /\ \A f \in Records : In(fileRow'[f]) => fileRow'[f] = fileRow[f] /\ In(fileRow[f])
    BY <1>14, EmptyRows DEF Drop, In, AdminTypes
  <2>3. AdminTypes' /\ RowsRefer'
    BY <1>14, <2>1, <2>2 DEF AdminTypes, RowsRefer
  <2>4. \A k : (LateFiles(k) => LateFiles(k)') /\ (LateOf(k) => LateOf(k)')
    BY <1>14, <2>2 DEF LateFiles, LateOf
  <2>5. \A k : (LateGroups(k) => LateGroups(k)') /\ (LateMembers(k) => LateMembers(k)')
    BY <1>14 DEF LateGroups, LateMembers
  <2>6. DesksOK'
    <3> SUFFICES ASSUME NEW d \in Clerks PROVE DeskOK(desk[d])'
      BY DEF DesksOK
    <3>1. CASE d = c
      BY <1>14, <2>1, <3>1 DEF DeskOK
    <3>2. CASE d # c
      BY <1>0, <1>14, <2>1, <2>4, <2>5, <3>2 DEF DeskOK
    <3> QED BY <3>1, <3>2
  <2>7. MemberHasGroup' /\ GroupHasPolicy'
    BY <1>14 DEF MemberHasGroup, GroupHasPolicy, Gone
  <2>8. FileHasPolicy'
    BY <1>14, <2>2 DEF FileHasPolicy, Gone
  <2>9. PolicyCacheFresh'
    BY <1>14, <2>1 DEF PolicyCacheFresh, AtDesk
  <2>10. NothingOfDeletedUsers'
    BY <1>14, <2>2 DEF NothingOfDeletedUsers, FilesOf
  <2> QED BY <2>3, <2>6, <2>7, <2>8, <2>9, <2>10
<1>15. ASSUME NEW c \in Clerks, NEW m \in Members, UserDelete(c, m) PROVE AdminIndInv'
  <2> DEFINE q == [pc |-> "purge", id |-> m, who |-> "", ver |-> 0]
  <2>1. /\ desk[c].pc = "off" /\ desk' = [desk EXCEPT ![c] = q]
        /\ UNCHANGED <<groupRow, policyRow, memberRow, tagRow, policyCache, staleSets>>
    BY <1>15 DEF UserDelete, Sits, Idle
  <2>2. PICK kept \in SUBSET FilesOf(m) :
            /\ Drop(FilesOf(m) \ kept)
            /\ refusedDeletes' = IF kept = {} THEN refusedDeletes ELSE refusedDeletes \cup {m}
    BY <1>15 DEF UserDelete
  <2>3. q \in DeskRows /\ q.pc = "purge" /\ q.id = m
    BY <1>0 DEF DeskRows, DeskIDs
  <2>4. LateOf(m)'
    <3> SUFFICES ASSUME NEW f \in Records, In(fileRow'[f]), fileRow'[f].owner = m PROVE m \in refusedDeletes'
      BY DEF LateOf
    <3>1. f \notin FilesOf(m) \ kept /\ fileRow'[f] = fileRow[f]
      BY <2>2, EmptyRows DEF Drop, In
    <3>2. f \in FilesOf(m)
      BY <3>1 DEF FilesOf
    <3> QED BY <2>2, <3>1, <3>2
  <2>5. DeskOK(q)'
    BY <2>3, <2>4 DEF DeskOK
  <2>6. refusedDeletes \subseteq refusedDeletes'
    BY <2>2
  <2> HIDE DEF q
  <2> QED BY <1>14, <2>1, <2>2, <2>3, <2>5, <2>6
<1>16. ASSUME NEW c \in Clerks, BatchDeleted(c) PROVE AdminIndInv'
  <2>1. /\ desk[c].pc = "async" /\ desk' = [desk EXCEPT ![c] = Off]
        /\ Drop({desk[c].id}) \/ UNCHANGED fileRow
        /\ UNCHANGED <<groupRow, policyRow, memberRow, tagRow, policyCache, staleSets, refusedDeletes>>
    BY <1>16 DEF BatchDeleted, Leaves, adminHistory
  <2>2. Off \in DeskRows /\ DeskOK(Off) /\ DeskOK(Off)'
    BY EmptyRows DEF DeskOK
  <2>3. CASE Drop({desk[c].id})
    BY <1>14, <2>1, <2>2, <2>3
  <2>4. CASE UNCHANGED fileRow
    BY <2>1, <2>2, <2>4, QuietClerk DEF adminTables, adminHistory
  <2> QED BY <2>1, <2>3, <2>4
<1>17. ASSUME NEW c \in Clerks, NEW f \in Records, InsertFile(c, f) PROVE AdminIndInv'
  <2> DEFINE p == desk[c].id
             m == desk[c].who
             late == Gone(p) \/ AtDesk("deletePolicy", p) \/ ~In(memberRow[m]) \/ AtDesk("purge", m)
                     \/ AtDesk("deleteUser", m)
             r == [st |-> "row", owner |-> m, policy |-> p, late |-> late]
  <2>1. /\ desk[c].pc = "insert" /\ desk' = [desk EXCEPT ![c] = Off] /\ fileRow' = [fileRow EXCEPT ![f] = r]
        /\ UNCHANGED <<groupRow, policyRow, memberRow, tagRow, policyCache, staleSets, refusedDeletes>>
    BY <1>17 DEF InsertFile, Leaves, adminHistory
  <2>2. p \in PolicyIDs /\ m \in Members
    BY <1>0, <2>1 DEF DeskOK
  <2>3. r \in RecordRows
    <3>1. late \in BOOLEAN
      BY DEF Gone, In, AtDesk
    <3> HIDE DEF late, p, m
    <3> QED BY <2>2, <3>1, Zenon DEF RecordRows
  <2>4. r.st = "row" /\ r.owner = m /\ r.policy = p
    OBVIOUS
  <2>5. r.late <=> Gone(p) \/ AtDesk("deletePolicy", p) \/ ~In(memberRow[m]) \/ AtDesk("purge", m) \/ AtDesk("deleteUser", m)
    OBVIOUS
  <2> HIDE DEF r, late
  <2>6. fileRow' \in [Records -> RecordRows] /\ fileRow'[f] = r /\ \A k \in Records : k # f => fileRow'[k] = fileRow[k]
    BY <2>1, <2>3 DEF AdminTypes
  <2>7. /\ desk' \in [Clerks -> DeskRows] /\ desk'[c] = Off
        /\ \A d \in Clerks : d # c => desk'[d] = desk[d]
    BY <2>1, EmptyRows, ClerkMoves
  <2>8. AdminTypes'
    BY <2>1, <2>6, <2>7 DEF AdminTypes
  <2>9. RowsRefer'
    BY <2>1, <2>2, <2>4, <2>6 DEF RowsRefer
  <2>10. DesksOK'
    <3> SUFFICES ASSUME NEW d \in Clerks PROVE DeskOK(desk[d])'
      BY DEF DesksOK
    <3>1. CASE d = c
      BY <2>7, <3>1, EmptyRows DEF DeskOK
    <3>2. CASE d # c
      <4>1. desk[d].pc = "deletePolicy" /\ LateFiles(desk[d].id) => LateFiles(desk[d].id)'
        <5> SUFFICES ASSUME desk[d].pc = "deletePolicy", LateFiles(desk[d].id),
                            NEW k \in Records, In(fileRow'[k]), fileRow'[k].policy = desk[d].id
                     PROVE  fileRow'[k].late
          BY <2>7, <3>2 DEF LateFiles
        <5>1. CASE k = f
          <6>1. AtDesk("deletePolicy", p)
            BY <2>4, <2>6, <5>1 DEF AtDesk
          <6> QED BY <2>5, <2>6, <5>1, <6>1
        <5>2. CASE k # f
          BY <2>6, <5>2 DEF LateFiles
        <5> QED BY <5>1, <5>2
      <4>2. desk[d].pc \in {"purge", "deleteUser"} /\ LateOf(desk[d].id) => LateOf(desk[d].id)'
        BY <2>1, <2>4, <2>5, <2>6 DEF LateOf, AtDesk
      <4>3. \A k : (LateGroups(k) => LateGroups(k)') /\ (LateMembers(k) => LateMembers(k)')
        BY <2>1 DEF LateGroups, LateMembers
      <4> QED BY <1>0, <2>1, <2>7, <3>2, <4>1, <4>2, <4>3 DEF DeskOK
    <3> QED BY <3>1, <3>2
  <2>11. MemberHasGroup' /\ GroupHasPolicy'
    BY <2>1 DEF MemberHasGroup, GroupHasPolicy, Gone
  <2>12. FileHasPolicy'
    BY <2>1, <2>4, <2>5, <2>6 DEF FileHasPolicy, Gone
  <2>13. PolicyCacheFresh'
    BY <2>1, <2>7 DEF PolicyCacheFresh, AtDesk
  <2>14. NothingOfDeletedUsers'
    BY <2>1, <2>4, <2>5, <2>6 DEF NothingOfDeletedUsers, FilesOf
  <2> QED BY <2>8, <2>9, <2>10, <2>11, <2>12, <2>13, <2>14
<1>18. ASSUME NEW c \in Clerks, PurgeRows(c) PROVE AdminIndInv'
  <2> DEFINE m == desk[c].id
             q == [pc |-> "deleteUser", id |-> m, who |-> "", ver |-> 0]
  <2>1. /\ desk[c].pc = "purge" /\ desk' = [desk EXCEPT ![c] = q] /\ tagRow' = [tagRow EXCEPT ![m] = "none"]
        /\ UNCHANGED <<groupRow, policyRow, memberRow, fileRow, policyCache, staleSets, refusedDeletes>>
    BY <1>18 DEF PurgeRows, Sits, adminHistory
  <2>2. m \in Members /\ LateOf(m)
    BY <1>0, <2>1 DEF DeskOK
  <2>3. q \in DeskRows /\ q.pc = "deleteUser" /\ q.id = m
    BY <1>0, <2>2 DEF DeskRows, DeskIDs
  <2> HIDE DEF q
  <2>4. /\ desk' \in [Clerks -> DeskRows] /\ desk'[c] = q
        /\ \A d \in Clerks : d # c => desk'[d] = desk[d]
    BY <2>1, <2>3, ClerkMoves
  <2>5. /\ tagRow' \in [Members -> {"none", "row", "late"}] /\ tagRow'[m] = "none"
        /\ \A k \in Members : k # m => tagRow'[k] = tagRow[k]
    BY <2>1, <2>2 DEF AdminTypes
  <2>6. AdminTypes' /\ RowsRefer'
    BY <2>1, <2>4, <2>5 DEF AdminTypes, RowsRefer
  <2>7. DesksOK'
    <3> SUFFICES ASSUME NEW d \in Clerks PROVE DeskOK(desk[d])'
      BY DEF DesksOK
    <3>1. \A k : (LateFiles(k) => LateFiles(k)') /\ (LateOf(k) => LateOf(k)')
      BY <2>1 DEF LateFiles, LateOf
    <3>2. \A k : (LateGroups(k) => LateGroups(k)') /\ (LateMembers(k) => LateMembers(k)')
      BY <2>1 DEF LateGroups, LateMembers
    <3>3. CASE d = c
      BY <2>2, <2>3, <2>4, <2>5, <3>1, <3>3 DEF DeskOK
    <3>4. CASE d # c
      <4>1. desk[d].pc = "deleteUser" => tagRow'[desk[d].id] # "row"
        BY <1>0, <2>5 DEF DeskOK
      <4> QED BY <1>0, <2>1, <2>4, <3>1, <3>2, <3>4, <4>1 DEF DeskOK
    <3> QED BY <3>3, <3>4
  <2>8. MemberHasGroup' /\ GroupHasPolicy' /\ FileHasPolicy'
    BY <2>1 DEF MemberHasGroup, GroupHasPolicy, FileHasPolicy, Gone
  <2>9. PolicyCacheFresh'
    BY <2>1, <2>4 DEF PolicyCacheFresh, AtDesk
  <2>10. NothingOfDeletedUsers'
    BY <2>1, <2>5 DEF NothingOfDeletedUsers, FilesOf
  <2> QED BY <2>6, <2>7, <2>8, <2>9, <2>10
<1>19. ASSUME NEW c \in Clerks, UserDeleted(c) PROVE AdminIndInv'
  <2> DEFINE m == desk[c].id
             r == [NoMember EXCEPT !.st = "deleted"]
  <2>1. /\ desk[c].pc = "deleteUser" /\ desk' = [desk EXCEPT ![c] = Off] /\ memberRow' = [memberRow EXCEPT ![m] = r]
        /\ UNCHANGED <<groupRow, policyRow, fileRow, tagRow, policyCache, staleSets, refusedDeletes>>
    BY <1>19 DEF UserDeleted, Leaves, adminHistory
  <2>2. m \in Members /\ LateOf(m) /\ tagRow[m] # "row"
    BY <1>0, <2>1 DEF DeskOK
  <2>3. r \in MemberRows /\ r.st = "deleted"
    BY EmptyRows DEF MemberRows
  <2> HIDE DEF r
  <2>4. memberRow' \in [Members -> MemberRows] /\ memberRow'[m] = r /\ \A k \in Members : k # m => memberRow'[k] = memberRow[k]
    BY <2>1, <2>2, <2>3 DEF AdminTypes
  <2>5. /\ desk' \in [Clerks -> DeskRows] /\ desk'[c] = Off
        /\ \A d \in Clerks : d # c => desk'[d] = desk[d]
    BY <2>1, EmptyRows, ClerkMoves
  <2>6. AdminTypes'
    BY <2>1, <2>4, <2>5 DEF AdminTypes
  <2>7. RowsRefer'
    BY <2>1, <2>3, <2>4 DEF RowsRefer, In
  <2>8. DesksOK'
    <3> SUFFICES ASSUME NEW d \in Clerks PROVE DeskOK(desk[d])'
      BY DEF DesksOK
    <3>1. CASE d = c
      BY <2>5, <3>1, EmptyRows DEF DeskOK
    <3>2. CASE d # c
      <4>1. \A k : (LateFiles(k) => LateFiles(k)') /\ (LateOf(k) => LateOf(k)') /\ (LateGroups(k) => LateGroups(k)')
        BY <2>1 DEF LateFiles, LateOf, LateGroups
      <4>2. \A k : LateMembers(k) => LateMembers(k)'
        BY <2>3, <2>4 DEF LateMembers, In
      <4> QED BY <1>0, <2>1, <2>5, <3>2, <4>1, <4>2 DEF DeskOK
    <3> QED BY <3>1, <3>2
  <2>9. MemberHasGroup'
    BY <2>1, <2>3, <2>4 DEF MemberHasGroup, In
  <2>10. GroupHasPolicy' /\ FileHasPolicy'
    BY <2>1 DEF GroupHasPolicy, FileHasPolicy, Gone
  <2>11. PolicyCacheFresh'
    BY <2>1, <2>5 DEF PolicyCacheFresh, AtDesk
  <2>12. NothingOfDeletedUsers'
    BY <2>1, <2>2, <2>4 DEF NothingOfDeletedUsers, FilesOf, LateOf
  <2> QED BY <2>6, <2>7, <2>8, <2>9, <2>10, <2>11, <2>12
<1>20. CASE UNCHANGED adminVars
  <2>1. UNCHANGED <<groupRow, policyRow, memberRow, fileRow, tagRow, policyCache, desk, staleSets, refusedDeletes>>
    BY <1>20 DEF adminVars, adminTables, adminHistory
  <2>2. AdminTypes' /\ RowsRefer' /\ DesksOK'
    BY <2>1 DEF AdminTypes, RowsRefer, DesksOK, DeskOK, LateGroups, LateFiles, LateOf, LateMembers
  <2>3. MemberHasGroup' /\ GroupHasPolicy' /\ FileHasPolicy' /\ NothingOfDeletedUsers' /\ PolicyCacheFresh'
    BY <2>1 DEF MemberHasGroup, GroupHasPolicy, FileHasPolicy, NothingOfDeletedUsers, FilesOf, Gone,
      PolicyCacheFresh, AtDesk
  <2> QED BY <2>2, <2>3
<1> QED BY <1>1, <1>2, <1>3, <1>4, <1>5, <1>6, <1>7, <1>8, <1>9, <1>10, <1>11, <1>12, <1>13, <1>15,
        <1>16, <1>17, <1>18, <1>19, <1>20
        DEF AdminNext

\* It implies what the run checks.
LEMMA AdminIndInvImplies == AdminIndInv => AdminInv
<1> SUFFICES ASSUME AdminIndInv PROVE AdminInv
  OBVIOUS
<1> USE DEF AdminIndInv
<1>1. AdminTypeOK
  BY DEF AdminTypeOK, AdminTypes, RowsRefer
<1> QED BY <1>1 DEF AdminInv

\* A user has its group, a group its only policy, a file its policy, and a
\* deleted user leaves nothing behind, but for rows that came between a check
\* and the end of the deletion after it and files the backend did not delete; a
\* policy in the cache is the one of the database but until its writer has
\* cleared it or after a reader cached the row it had read before
\* (GroupService.Delete, PolicyService.Delete, UserBatchService.Delete,
\* GetPolicyByID): for every set of users, groups, policies and files.
THEOREM ReferencesHold == AdminSpec => []AdminInv
BY AdminInitInv, AdminStep, AdminIndInvImplies, PTL DEF AdminSpec

-----------------------------------------------------------------------------
(* Requests that read files.                                               *)

\* Where a request is.
JobPCs == {"idle", "target", "set", "open", "items", "zip", "link", "insert"}

\* A request that reads files.
JobRows ==
    [pc : JobPCs, kind : {"none", "preview", "session", "get", "source", "download", "archive", "sources"},
     fs : SUBSET FSObjects, doc : SUBSET Docs, ticket : SUBSET Tickets, once : BOOLEAN]

\* The types of the variables; a ticket has one file.
FileTypes ==
    /\ slaveMode \in BOOLEAN /\ pool \subseteq FSObjects /\ docs \subseteq Docs
    /\ target \in [FSObjects -> Seq(Docs)] /\ handler \in [FSObjects -> SUBSET (Docs \cup {"user", "local"})]
    /\ ticket \in [Tickets -> SUBSET Docs] /\ archive \subseteq {"items", "user"}
    /\ \A t \in Tickets : ticket[t] = {} \/ \E d \in Docs : ticket[t] = {d}
    /\ sourceLinks \in [Docs -> 0 .. MaxSourceLinks] /\ job \in [Jobs -> JobRows]
    /\ onceServed \in [Tickets -> Nat]

\* A request has one FileSystem object, whose target is clean until it is set,
\* is the file asked for from then on, and whose handler is that of this file
\* once the policy was reset; on a slave the handler is the local one.
Serving(q, f) ==
    /\ q.fs = {f} /\ q.pc # "idle"
    /\ slaveMode => q.pc \in {"set", "open"} /\ handler[f] = {"local"}
    /\ q.pc \in {"target", "items", "zip", "link", "insert"} => target[f] = <<>>
    /\ q.pc \in {"target", "set", "open", "link", "insert"} => \E d \in Docs : q.doc = {d}
    /\ q.pc \in {"set", "open"} => \E d \in Docs : q.doc = {d} /\ target[f] = <<d>>
    /\ q.pc = "open" /\ ~slaveMode => handler[f] = q.doc

\* A request has not begun, or has an object that is not in the pool.
JobOK(q) == q = NoJob \/ \E f \in FSObjects \ pool : Serving(q, f)

\* This holds of every request.
JobsOK == \A j \in Jobs : JobOK(job[j])

\* Requests do not share objects.
Apart == \A j, k \in Jobs : j # k => job[j].fs \cap job[k].fs = {}

\* An object in the pool has no target (FileSystem.reset).
PoolClean == \A f \in pool : target[f] = <<>>

\* The request has looked the ticket up.
Looking(j, t) == job[j].ticket = {t}

\* One request has looked the ticket up at a time; once it was served, it is
\* gone and nobody has it.
TicketOnce(t) ==
    /\ \A j, k \in Jobs : Looking(j, t) /\ Looking(k, t) => j = k
    /\ onceServed[t] > 0 => ticket[t] = {} /\ \A j \in Jobs : ~Looking(j, t)
    /\ onceServed[t] <= 1

\* This holds of every ticket that was not looked up twice at the same time.
TicketsOnce == \A t \in Tickets : t \in racedTickets \/ TicketOnce(t)

\* The request has found no source link of the file.
Inserting(j, d) == job[j].pc = "insert" /\ job[j].doc = {d}

\* One request is about to insert a link of the file at a time, and there is
\* none then.
LinkOnce(d) ==
    /\ \A j, k \in Jobs : Inserting(j, d) /\ Inserting(k, d) => j = k
    /\ \A j \in Jobs : Inserting(j, d) => sourceLinks[d] = 0
    /\ sourceLinks[d] <= 1

\* This holds of every file for which requests did not look at the same time.
LinksOnce == \A d \in Docs : d \in racedLinks \/ LinkOnce(d)

\* The inductive invariant. A request serves its own file because the object it
\* took was clean: the invariant says what the objects in the pool and in use
\* hold.
FilesIndInv == FileTypes /\ JobsOK /\ Apart /\ PoolClean /\ TicketsOnce /\ LinksOnce

-----------------------------------------------------------------------------

\* The member of a singleton.
LEMMA TheOne == \A x : The({x}) = x
BY DEF The

\* The empty request has its type.
LEMMA NoJobTyped ==
    /\ NoJob \in JobRows /\ NoJob.pc = "idle" /\ NoJob.fs = {} /\ NoJob.ticket = {} /\ NoJob.doc = {}
<1>1. FALSE \in BOOLEAN /\ "idle" \in JobPCs
  BY DEF JobPCs
<1>2. NoJob \in JobRows
  BY <1>1, Zenon DEF NoJob, JobRows
<1> QED BY <1>2 DEF NoJob

\* It holds when the pool is full.
LEMMA FilesInitInv == FileRequestsInit => FilesIndInv
<1> SUFFICES ASSUME FileRequestsInit PROVE FilesIndInv
  OBVIOUS
<1>1. FileTypes
  <2>1. slaveMode \in BOOLEAN
    BY DEF FileRequestsInit
  <2>2. sourceLinks \in [Docs -> 0 .. MaxSourceLinks]
    BY FileRequestsAssumption DEF FileRequestsInit
  <2>3. target \in [FSObjects -> Seq(Docs)] /\ ticket \in [Tickets -> SUBSET Docs] /\ onceServed \in [Tickets -> Nat]
        /\ handler \in [FSObjects -> SUBSET (Docs \cup {"user", "local"})]
    BY DEF FileRequestsInit
  <2> QED BY <2>1, <2>2, <2>3, NoJobTyped DEF FileRequestsInit, FileTypes
<1>2. JobsOK /\ Apart /\ PoolClean
  BY NoJobTyped DEF FileRequestsInit, JobsOK, JobOK, Apart, PoolClean
<1>3. TicketsOnce
  <2>1. \A j \in Jobs, t \in Tickets : ~Looking(j, t)
    BY NoJobTyped DEF FileRequestsInit, Looking
  <2>2. \A t \in Tickets : onceServed[t] = 0
    BY DEF FileRequestsInit
  <2>3. \A t \in Tickets : ~(onceServed[t] > 0) /\ onceServed[t] <= 1
    BY <2>2
  <2> QED BY <2>1, <2>3, Zenon DEF TicketsOnce, TicketOnce
<1>4. LinksOnce
  <2>1. \A j \in Jobs, d \in Docs : ~Inserting(j, d)
    BY NoJobTyped DEF FileRequestsInit, Inserting
  <2>2. \A d \in Docs : sourceLinks[d] = 0
    BY DEF FileRequestsInit
  <2>3. \A d \in Docs : sourceLinks[d] <= 1
    BY <2>2
  <2> QED BY <2>1, <2>2, <2>3, Zenon DEF LinksOnce, LinkOnce
<1> QED BY <1>1, <1>2, <1>3, <1>4 DEF FilesIndInv

\* A step that looks no ticket up and serves none keeps what holds of the
\* tickets.
LEMMA TicketsQuiet ==
    ASSUME TicketsOnce, UNCHANGED onceServed, racedTickets \subseteq racedTickets',
           \A t \in Tickets : ticket'[t] = ticket[t] \/ ticket'[t] = {} \/ onceServed[t] = 0,
           \A k \in Jobs : job'[k].ticket = job[k].ticket \/ job'[k].ticket = {},
           onceServed \in [Tickets -> Nat]
    PROVE  TicketsOnce'
<1> SUFFICES ASSUME NEW t \in Tickets, t \notin racedTickets' PROVE TicketOnce(t)'
  BY DEF TicketsOnce
<1>1. TicketOnce(t)
  BY DEF TicketsOnce
<1>2. \A k \in Jobs : Looking(k, t)' => Looking(k, t)
  BY DEF Looking
<1>3. onceServed'[t] > 0 => ticket'[t] = {}
  BY <1>1 DEF TicketOnce
<1> QED BY <1>1, <1>2, <1>3 DEF TicketOnce

\* A step that inserts no link and finds none missing keeps what holds of the
\* links.
LEMMA LinksQuiet ==
    ASSUME LinksOnce, UNCHANGED sourceLinks, racedLinks \subseteq racedLinks',
           \A k \in Jobs, d \in Docs : Inserting(k, d)' => Inserting(k, d)
    PROVE  LinksOnce'
BY DEF LinksOnce, LinkOnce

\* A step of a request and its object leaves the other requests their objects.
LEMMA JobMoves ==
    ASSUME FilesIndInv, NEW j \in Jobs, NEW f \in FSObjects, NEW q \in JobRows, job' = [job EXCEPT ![j] = q],
           q.fs \subseteq {f}, f \in pool \/ job[j].fs = {f}, UNCHANGED slaveMode,
           pool' \subseteq FSObjects, \A g \in FSObjects : g # f => (g \in pool' <=> g \in pool),
           \A g \in FSObjects : g # f => target'[g] = target[g] /\ handler'[g] = handler[g],
           f \in pool' => target'[f] = <<>>,
           q = NoJob \/ (f \notin pool' /\ Serving(job[j], f)')
    PROVE  /\ job' \in [Jobs -> JobRows] /\ job'[j] = q /\ \A k \in Jobs : k # j => job'[k] = job[k]
           /\ JobsOK' /\ Apart' /\ PoolClean'
<1> USE DEF FilesIndInv
<1>1. job' \in [Jobs -> JobRows] /\ job'[j] = q /\ \A k \in Jobs : k # j => job'[k] = job[k]
  BY DEF FileTypes
<1>2. ASSUME NEW k \in Jobs, k # j PROVE f \notin job[k].fs
  <2>1. CASE job[j].fs = {f}
    BY <1>2, <2>1 DEF Apart
  <2>2. CASE f \in pool
    <3>1. JobOK(job[k])
      BY DEF JobsOK
    <3>2. job[k].fs = {} \/ \E g \in FSObjects \ pool : job[k].fs = {g}
      BY <3>1, NoJobTyped DEF JobOK, Serving
    <3> QED BY <2>2, <3>2
  <2> QED BY <2>1, <2>2
<1>3. ASSUME NEW k \in Jobs, k # j PROVE JobOK(job[k])'
  <2>1. job'[k] = job[k] /\ JobOK(job[k])
    BY <1>1, <1>3 DEF JobsOK
  <2>2. CASE job[k] = NoJob
    BY <2>1, <2>2 DEF JobOK
  <2>3. CASE job[k] # NoJob
    <3>1. PICK g \in FSObjects \ pool : Serving(job[k], g)
      BY <2>1, <2>3 DEF JobOK
    <3>2. g # f
      BY <1>2, <1>3, <3>1 DEF Serving
    <3>3. g \in FSObjects \ pool' /\ target'[g] = target[g] /\ handler'[g] = handler[g]
      BY <3>1, <3>2
    <3>4. Serving(job[k], g)'
      BY <2>1, <3>1, <3>3 DEF Serving
    <3> QED BY <3>3, <3>4 DEF JobOK
  <2> QED BY <2>2, <2>3
<1>4. JobOK(job[j])'
  BY <1>1 DEF JobOK
<1>5. JobsOK'
  BY <1>3, <1>4 DEF JobsOK
<1>6. Apart'
  BY <1>1, <1>2 DEF Apart
<1>7. PoolClean'
  BY DEF PoolClean
<1> QED BY <1>1, <1>5, <1>6, <1>7

\* A request that has begun has an object.
LEMMA HasObject ==
    ASSUME FilesIndInv, NEW j \in Jobs, job[j].pc # "idle"
    PROVE  \E f \in FSObjects : f \notin pool /\ Serving(job[j], f) /\ job[j].fs = {f} /\ FSOf(j) = f
<1>1. PICK f \in FSObjects : f \notin pool /\ Serving(job[j], f)
  BY NoJobTyped DEF FilesIndInv, JobsOK, JobOK
<1>2. job[j].fs = {f}
  BY <1>1 DEF Serving
<1>3. FSOf(j) = f
  BY <1>2, TheOne DEF FSOf
<1> QED BY <1>1, <1>2, <1>3

\* Recycle puts the object back clean.
LEMMA Recycled ==
    ASSUME FilesIndInv, NEW j \in Jobs, job[j].pc # "idle", Recycle(j), UNCHANGED slaveMode
    PROVE  /\ pool' \subseteq FSObjects /\ target' \in [FSObjects -> Seq(Docs)]
           /\ handler' \in [FSObjects -> SUBSET (Docs \cup {"user", "local"})] /\ job' \in [Jobs -> JobRows]
           /\ JobsOK' /\ Apart' /\ PoolClean'
           /\ job'[j] = NoJob /\ \A k \in Jobs : k # j => job'[k] = job[k]
<1>1. PICK f \in FSObjects : job[j].fs = {f} /\ FSOf(j) = f
  BY HasObject
<1> USE DEF FilesIndInv
<1>2. /\ pool' = pool \cup {f} /\ target' = [target EXCEPT ![f] = <<>>] /\ handler' = [handler EXCEPT ![f] = {}]
      /\ job' = [job EXCEPT ![j] = NoJob]
  BY <1>1 DEF Recycle, CleanTargets, Step
<1>3. <<>> \in Seq(Docs) /\ {} \in SUBSET (Docs \cup {"user", "local"})
  OBVIOUS
<1>4. /\ target' \in [FSObjects -> Seq(Docs)] /\ target'[f] = <<>> 
      /\ handler' \in [FSObjects -> SUBSET (Docs \cup {"user", "local"})]
      /\ \A g \in FSObjects : g # f => target'[g] = target[g] /\ handler'[g] = handler[g]
  BY <1>2, <1>3 DEF FileTypes
<1>5. /\ pool' \subseteq FSObjects /\ \A g \in FSObjects : g # f => (g \in pool' <=> g \in pool)
  BY <1>2 DEF FileTypes
<1>6. NoJob \in JobRows /\ NoJob.fs \subseteq {f}
  BY NoJobTyped
<1> HIDE DEF FilesIndInv
<1> QED BY <1>1, <1>2, <1>4, <1>5, <1>6, JobMoves

\* A step that changes requests and objects only, keeps the tickets and the
\* links.
LEMMA StepKeeps ==
    ASSUME FilesIndInv, UNCHANGED sessions, pool' \subseteq FSObjects, target' \in [FSObjects -> Seq(Docs)],
           handler' \in [FSObjects -> SUBSET (Docs \cup {"user", "local"})], job' \in [Jobs -> JobRows],
           JobsOK', Apart', PoolClean',
           \A k \in Jobs : job'[k].ticket = job[k].ticket \/ job'[k].ticket = {},
           \A k \in Jobs : job'[k].pc = "insert" => job'[k] = job[k]
    PROVE  FilesIndInv'
<1> USE DEF FilesIndInv
<1>1. UNCHANGED <<slaveMode, docs, ticket, archive, sourceLinks, onceServed, racedTickets, racedLinks>>
  BY DEF sessions
<1>2. FileTypes'
  BY <1>1 DEF FileTypes
<1>3. TicketsOnce'
  BY <1>1, TicketsQuiet DEF FileTypes
<1>4. LinksOnce'
  <2>1. \A k \in Jobs, d \in Docs : Inserting(k, d)' => Inserting(k, d)
    BY DEF Inserting
  <2> QED BY <1>1, <2>1, LinksQuiet
<1> QED BY <1>2, <1>3, <1>4

\* A request that ends keeps the invariant.
LEMMA RecycleKeeps ==
    ASSUME FilesIndInv, NEW j \in Jobs, job[j].pc # "idle", Recycle(j), UNCHANGED sessions
    PROVE  FilesIndInv'
<1>1. UNCHANGED slaveMode
  BY DEF sessions
<1>2. /\ pool' \subseteq FSObjects /\ target' \in [FSObjects -> Seq(Docs)]
      /\ handler' \in [FSObjects -> SUBSET (Docs \cup {"user", "local"})] /\ job' \in [Jobs -> JobRows]
      /\ JobsOK' /\ Apart' /\ PoolClean'
      /\ job'[j] = NoJob /\ \A k \in Jobs : k # j => job'[k] = job[k]
  BY <1>1, Recycled
<1>3. /\ \A k \in Jobs : job'[k].ticket = job[k].ticket \/ job'[k].ticket = {}
      /\ \A k \in Jobs : job'[k].pc = "insert" => job'[k] = job[k]
  BY <1>2, NoJobTyped
<1> QED BY <1>2, <1>3, StepKeeps

\* A request goes on with its object.
LEMMA GoesOn ==
    ASSUME FilesIndInv, NEW j \in Jobs, NEW f \in FSObjects, NEW q \in JobRows, job' = [job EXCEPT ![j] = q],
           job[j].fs = {f}, f \notin pool, q.fs = {f}, UNCHANGED <<slaveMode, pool>>,
           NEW ts \in Seq(Docs), target' = [target EXCEPT ![f] = ts],
           NEW H \in SUBSET (Docs \cup {"user", "local"}), handler' = [handler EXCEPT ![f] = H],
           Serving(job[j], f)'
    PROVE  /\ pool' \subseteq FSObjects /\ target' \in [FSObjects -> Seq(Docs)]
           /\ handler' \in [FSObjects -> SUBSET (Docs \cup {"user", "local"})] /\ job' \in [Jobs -> JobRows]
           /\ JobsOK' /\ Apart' /\ PoolClean'
           /\ job'[j] = q /\ \A k \in Jobs : k # j => job'[k] = job[k]
<1> USE DEF FilesIndInv
<1>1. /\ target' \in [FSObjects -> Seq(Docs)] /\ handler' \in [FSObjects -> SUBSET (Docs \cup {"user", "local"})]
      /\ \A g \in FSObjects : g # f => target'[g] = target[g] /\ handler'[g] = handler[g]
  BY DEF FileTypes
<1>2. /\ pool' \subseteq FSObjects /\ \A g \in FSObjects : g # f => (g \in pool' <=> g \in pool)
  BY DEF FileTypes
<1>3. f \notin pool' /\ q.fs \subseteq {f}
  OBVIOUS
<1> HIDE DEF FilesIndInv
<1> QED BY <1>1, <1>2, <1>3, JobMoves

\* A request takes an object out of the pool, which is clean, and may set its
\* target at once.
LEMMA Taken ==
    ASSUME FilesIndInv, NEW j \in Jobs, NEW q \in JobRows, NEW H \in SUBSET (Docs \cup {"user", "local"}),
           getEmptyFS(j, q, H), UNCHANGED slaveMode, slaveMode => q.pc = "set" /\ H = {"local"},
           NEW d, (d \in Docs /\ q.doc = {d}) \/ q.pc = "items",
           \/ q.pc \in {"target", "items", "link"} /\ UNCHANGED target
           \/ /\ q.pc = "set"
              /\ \/ target' = [target EXCEPT ![The(job'[j].fs)] = <<d>>]
                 \/ target' = SetTargetFile(The(job'[j].fs), d)
    PROVE  /\ pool' \subseteq FSObjects /\ target' \in [FSObjects -> Seq(Docs)]
           /\ handler' \in [FSObjects -> SUBSET (Docs \cup {"user", "local"})] /\ job' \in [Jobs -> JobRows]
           /\ JobsOK' /\ Apart' /\ PoolClean'
           /\ job'[j].pc = q.pc /\ job'[j].ticket = q.ticket /\ \A k \in Jobs : k # j => job'[k] = job[k]
<1> USE DEF FilesIndInv
<1>1. PICK f \in pool : /\ pool' = pool \ {f} /\ handler' = [handler EXCEPT ![f] = H]
                        /\ job' = [job EXCEPT ![j] = [q EXCEPT !.fs = {f}]]
  BY DEF getEmptyFS, Step
<1> DEFINE r == [q EXCEPT !.fs = {f}]
<1>2. f \in FSObjects /\ f \in pool /\ target[f] = <<>>
  BY <1>1 DEF FileTypes, PoolClean
<1>3. r \in JobRows
  BY <1>2 DEF JobRows
<1>4. r.fs = {f} /\ r.pc = q.pc /\ r.ticket = q.ticket /\ r.doc = q.doc
  BY DEF JobRows
<1> HIDE DEF r
<1>5. job'[j] = r
  BY <1>1 DEF r, FileTypes
<1>6. The(job'[j].fs) = f
  BY <1>4, <1>5, TheOne
<1>7. q.pc = "set" => target' = [target EXCEPT ![f] = <<d>>]
  BY <1>2, <1>6 DEF SetTargetFile, FileTypes
<1>8. q.pc = "set" => d \in Docs /\ <<d>> \in Seq(Docs)
  OBVIOUS
<1>9. /\ target' \in [FSObjects -> Seq(Docs)] /\ \A g \in FSObjects : g # f => target'[g] = target[g]
      /\ target'[f] = IF q.pc = "set" THEN <<d>> ELSE <<>>
  <2>1. CASE q.pc = "set"
    <3>1. target \in [FSObjects -> Seq(Docs)] /\ target' = [target EXCEPT ![f] = <<d>>]
      BY <1>7, <2>1 DEF FileTypes
    <3> DEFINE ts == <<d>>
    <3>2. ts \in Seq(Docs)
      BY <1>8, <2>1
    <3>3. target' = [target EXCEPT ![f] = ts]
      BY <3>1
    <3> HIDE DEF ts
    <3>4. target' \in [FSObjects -> Seq(Docs)] /\ target'[f] = ts /\ \A g \in FSObjects : g # f => target'[g] = target[g]
      BY <1>2, <3>1, <3>2, <3>3
    <3> QED BY <2>1, <3>4 DEF ts
  <2>2. CASE q.pc # "set"
    BY <1>2, <2>2 DEF FileTypes
  <2> QED BY <2>1, <2>2
<1>10. /\ handler' \in [FSObjects -> SUBSET (Docs \cup {"user", "local"})] /\ handler'[f] = H
       /\ \A g \in FSObjects : g # f => handler'[g] = handler[g]
  BY <1>1, <1>2 DEF FileTypes
<1>11. pool' \subseteq FSObjects /\ f \notin pool' /\ \A g \in FSObjects : g # f => (g \in pool' <=> g \in pool)
  BY <1>1 DEF FileTypes
<1>12. Serving(job[j], f)'
  BY <1>4, <1>5, <1>9, <1>10 DEF Serving
<1>13. job' = [job EXCEPT ![j] = r] /\ r.fs \subseteq {f} /\ (f \in pool' => target'[f] = <<>>)
  BY <1>1, <1>4, <1>11 DEF r
<1> HIDE DEF FilesIndInv
<1>14. /\ job' \in [Jobs -> JobRows] /\ \A k \in Jobs : k # j => job'[k] = job[k]
       /\ JobsOK' /\ Apart' /\ PoolClean'
  <2>1. \A g \in FSObjects : g # f => target'[g] = target[g] /\ handler'[g] = handler[g]
    BY <1>9, <1>10
  <2> QED BY <1>2, <1>3, <1>11, <1>12, <1>13, <2>1, JobMoves
<1> QED BY <1>4, <1>5, <1>9, <1>10, <1>11, <1>14

\* Taking an object keeps the invariant.
LEMMA TakeKeeps ==
    ASSUME FilesIndInv, NEW j \in Jobs, NEW q \in JobRows, NEW H \in SUBSET (Docs \cup {"user", "local"}),
           getEmptyFS(j, q, H), UNCHANGED sessions, slaveMode => q.pc = "set" /\ H = {"local"},
           NEW d, (d \in Docs /\ q.doc = {d}) \/ q.pc = "items", q.ticket = {},
           \/ q.pc \in {"target", "items", "link"} /\ UNCHANGED target
           \/ /\ q.pc = "set"
              /\ \/ target' = [target EXCEPT ![The(job'[j].fs)] = <<d>>]
                 \/ target' = SetTargetFile(The(job'[j].fs), d)
    PROVE  FilesIndInv'
<1>1. UNCHANGED slaveMode
  BY DEF sessions
<1>2. /\ pool' \subseteq FSObjects /\ target' \in [FSObjects -> Seq(Docs)]
      /\ handler' \in [FSObjects -> SUBSET (Docs \cup {"user", "local"})] /\ job' \in [Jobs -> JobRows]
      /\ JobsOK' /\ Apart' /\ PoolClean'
      /\ job'[j].pc = q.pc /\ job'[j].ticket = q.ticket /\ \A k \in Jobs : k # j => job'[k] = job[k]
  BY <1>1, Taken
<1>3. /\ \A k \in Jobs : job'[k].ticket = job[k].ticket \/ job'[k].ticket = {}
      /\ \A k \in Jobs : job'[k].pc = "insert" => job'[k] = job[k]
  BY <1>2
<1> QED BY <1>2, <1>3, StepKeeps

\* Going on with an object keeps the invariant.
LEMMA GoKeeps ==
    ASSUME FilesIndInv, NEW j \in Jobs, NEW f \in FSObjects, NEW q \in JobRows, job' = [job EXCEPT ![j] = q],
           job[j].fs = {f}, f \notin pool, q.fs = {f}, UNCHANGED sessions, UNCHANGED pool,
           NEW ts \in Seq(Docs), target' = [target EXCEPT ![f] = ts],
           NEW H \in SUBSET (Docs \cup {"user", "local"}), handler' = [handler EXCEPT ![f] = H],
           Serving(job[j], f)', q.ticket = job[j].ticket, q.pc # "insert"
    PROVE  FilesIndInv'
<1>1. UNCHANGED slaveMode
  BY DEF sessions
<1>2. /\ pool' \subseteq FSObjects /\ target' \in [FSObjects -> Seq(Docs)]
      /\ handler' \in [FSObjects -> SUBSET (Docs \cup {"user", "local"})] /\ job' \in [Jobs -> JobRows]
      /\ JobsOK' /\ Apart' /\ PoolClean'
      /\ job'[j] = q /\ \A k \in Jobs : k # j => job'[k] = job[k]
  BY <1>1, GoesOn
<1>3. /\ \A k \in Jobs : job'[k].ticket = job[k].ticket \/ job'[k].ticket = {}
      /\ \A k \in Jobs : job'[k].pc = "insert" => job'[k] = job[k]
  BY <1>2
<1> QED BY <1>2, <1>3, StepKeeps

\* Setting the target to the file asked for, and the handler to that of its
\* policy, keeps the invariant (SetTargetFile, resetPolicyToFirstFile).
LEMMA Targeted ==
    ASSUME FilesIndInv, NEW j \in Jobs, job[j].pc \in {"target", "set"}, NEW pc \in {"set", "open"},
           job' = [job EXCEPT ![j] = [job[j] EXCEPT !.pc = pc]], UNCHANGED pool, UNCHANGED sessions,
           NEW f \in FSObjects, NEW d \in Docs, job[j].fs = {f}, f \notin pool, Serving(job[j], f), job[j].doc = {d},
           target' = [target EXCEPT ![f] = <<d>>],
           \/ UNCHANGED handler /\ (pc = "open" => slaveMode)
           \/ handler' = [handler EXCEPT ![f] = {d}] /\ ~slaveMode
    PROVE  FilesIndInv'
<1> DEFINE q == [job[j] EXCEPT !.pc = pc]
           ts == <<d>>
           H == IF UNCHANGED handler THEN handler[f] ELSE {d}
<1>1. job[j] \in JobRows /\ job \in [Jobs -> JobRows] /\ handler \in [FSObjects -> SUBSET (Docs \cup {"user", "local"})]
      /\ target \in [FSObjects -> Seq(Docs)]
  BY DEF FilesIndInv, FileTypes
<1>2. q \in JobRows /\ q.fs = {f} /\ q.doc = {d} /\ q.ticket = job[j].ticket /\ q.pc = pc
  BY <1>1 DEF JobRows, JobPCs
<1>3. job' = [job EXCEPT ![j] = q]
  OBVIOUS
<1> HIDE DEF q
<1>4. job'[j] = q
  BY <1>1, <1>3
<1>5. ts \in Seq(Docs) /\ target' = [target EXCEPT ![f] = ts] /\ ts = <<d>>
  OBVIOUS
<1> HIDE DEF ts
<1>6. target'[f] = ts
  BY <1>1, <1>5
<1>7. H \in SUBSET (Docs \cup {"user", "local"}) /\ handler' = [handler EXCEPT ![f] = H] /\ handler'[f] = H
  BY <1>1
<1>8. UNCHANGED slaveMode
  BY DEF sessions
<1>9. /\ slaveMode' => handler'[f] = {"local"}
      /\ pc = "open" /\ ~slaveMode' => handler'[f] = {d}
  BY <1>1, <1>8 DEF Serving
<1> HIDE DEF H
<1>10. Serving(job[j], f)'
  BY <1>2, <1>4, <1>5, <1>6, <1>9 DEF Serving
<1> QED BY <1>2, <1>3, <1>5, <1>7, <1>10, GoKeeps

\* Every step of requests for content, tickets, archives and source links keeps
\* it.
LEMMA FilesStep == FilesIndInv /\ [FileRequestsNext]_fileRequestVars => FilesIndInv'
<1> SUFFICES ASSUME FilesIndInv, [FileRequestsNext]_fileRequestVars PROVE FilesIndInv'
  OBVIOUS
<1>0. \A j \in Jobs : job[j] \in JobRows
  BY DEF FilesIndInv, FileTypes
<1>1. ASSUME NEW j \in Jobs, NEW d \in Docs, NEW k \in {"preview", "session", "get", "source"}, Asks(j, k, d)
      PROVE  FilesIndInv'
  <2> DEFINE q == [NoJob EXCEPT !.pc = "target", !.kind = k, !.doc = {d}]
  <2>1. "target" \in JobPCs /\ {d} \in SUBSET Docs
    BY DEF JobPCs
  <2>2. q \in JobRows /\ q.pc = "target" /\ q.doc = {d} /\ q.ticket = {}
    BY <2>1, NoJobTyped DEF JobRows
  <2>3. /\ ~slaveMode /\ UNCHANGED target /\ UNCHANGED sessions
        /\ getEmptyFS(j, q, {"user"}) \/ getEmptyFS(j, q, {})
    BY <1>1 DEF Asks, NewFileSystemFromContext, NewFileSystem, NewAnonymousFileSystem
  <2>4. {"user"} \in SUBSET (Docs \cup {"user", "local"}) /\ {} \in SUBSET (Docs \cup {"user", "local"})
    OBVIOUS
  <2> HIDE DEF q
  <2> QED BY <2>2, <2>3, <2>4, TakeKeeps
<1>2. ASSUME NEW j \in Jobs, NEW d \in Docs, ServeFile(j, d) \/ SlaveThumb(j, d) PROVE FilesIndInv'
  <2>1. PICK kind \in {"get", "preview"} :
            /\ slaveMode /\ UNCHANGED sessions /\ target' = [target EXCEPT ![The(job'[j].fs)] = <<d>>]
            /\ getEmptyFS(j, [NoJob EXCEPT !.pc = "set", !.kind = kind, !.doc = {d}], {"local"})
    BY <1>2 DEF ServeFile, SlaveThumb, NewAnonymousFileSystem
  <2> DEFINE q == [NoJob EXCEPT !.pc = "set", !.kind = kind, !.doc = {d}]
  <2>2. "set" \in JobPCs /\ {d} \in SUBSET Docs
    BY DEF JobPCs
  <2>3. q \in JobRows /\ q.pc = "set" /\ q.doc = {d} /\ q.ticket = {}
    BY <2>2, NoJobTyped DEF JobRows
  <2>4. {"local"} \in SUBSET (Docs \cup {"user", "local"}) /\ getEmptyFS(j, q, {"local"})
    BY <2>1
  <2> HIDE DEF q
  <2> QED BY <2>1, <2>3, <2>4, TakeKeeps
<1>3. ASSUME NEW j \in Jobs, NEW d \in Docs, handleGetHeadPost(j, d) PROVE FilesIndInv'
  <2> DEFINE q == [NoJob EXCEPT !.pc = "set", !.kind = "preview", !.doc = {d}]
  <2>1. "set" \in JobPCs /\ {d} \in SUBSET Docs
    BY DEF JobPCs
  <2>2. q \in JobRows /\ q.pc = "set" /\ q.doc = {d} /\ q.ticket = {}
    BY <2>1, NoJobTyped DEF JobRows
  <2>3. /\ ~slaveMode /\ UNCHANGED sessions /\ target' = SetTargetFile(The(job'[j].fs), d)
        /\ getEmptyFS(j, q, {"user"})
    BY <1>3 DEF handleGetHeadPost, NewFileSystem
  <2>4. {"user"} \in SUBSET (Docs \cup {"user", "local"})
    OBVIOUS
  <2> HIDE DEF q
  <2> QED BY <2>2, <2>3, <2>4, TakeKeeps
<1>4. ASSUME NEW j \in Jobs, NEW d \in Docs, Sources(j, d) PROVE FilesIndInv'
  <2> DEFINE q == [NoJob EXCEPT !.pc = "link", !.kind = "sources", !.doc = {d}]
  <2>1. "link" \in JobPCs /\ {d} \in SUBSET Docs
    BY DEF JobPCs
  <2>2. q \in JobRows /\ q.pc = "link" /\ q.doc = {d} /\ q.ticket = {}
    BY <2>1, NoJobTyped DEF JobRows
  <2>3. ~slaveMode /\ UNCHANGED sessions /\ UNCHANGED target /\ getEmptyFS(j, q, {"user"})
    BY <1>4 DEF Sources, NewFileSystem
  <2>4. {"user"} \in SUBSET (Docs \cup {"user", "local"})
    OBVIOUS
  <2> HIDE DEF q
  <2> QED BY <2>2, <2>3, <2>4, TakeKeeps
<1>5. ASSUME NEW j \in Jobs, DownloadArchived(j) PROVE FilesIndInv'
  <2> DEFINE q == [NoJob EXCEPT !.pc = "items", !.kind = "archive"]
  <2>1. q \in JobRows /\ q.pc = "items" /\ q.ticket = {}
    BY NoJobTyped DEF JobRows, JobPCs
  <2>2. ~slaveMode /\ UNCHANGED sessions /\ UNCHANGED target /\ getEmptyFS(j, q, {"user"})
    BY <1>5 DEF DownloadArchived, NewFileSystem
  <2>3. {"user"} \in SUBSET (Docs \cup {"user", "local"})
    OBVIOUS
  <2> HIDE DEF q
  <2> QED BY <2>1, <2>2, <2>3, TakeKeeps
<1>6. ASSUME NEW j \in Jobs, job[j].pc = "target", job[j].doc \subseteq docs,
             target' = SetTargetFile(FSOf(j), The(job[j].doc)), Step(j, [job[j] EXCEPT !.pc = "set"]),
             UNCHANGED <<pool, handler>>, UNCHANGED sessions
      PROVE  FilesIndInv'
  <2>1. PICK f \in FSObjects : f \notin pool /\ Serving(job[j], f) /\ job[j].fs = {f} /\ FSOf(j) = f
    BY <1>6, HasObject
  <2>2. PICK d \in Docs : job[j].doc = {d}
    BY <1>6, <2>1 DEF Serving
  <2>3. target[f] = <<>> /\ The(job[j].doc) = d
    BY <1>6, <2>1, <2>2, TheOne DEF Serving
  <2>4. target' = [target EXCEPT ![f] = <<d>>]
    BY <1>6, <2>1, <2>3 DEF SetTargetFile, FilesIndInv, FileTypes
  <2>5. job' = [job EXCEPT ![j] = [job[j] EXCEPT !.pc = "set"]] /\ UNCHANGED pool /\ UNCHANGED handler
    BY <1>6 DEF Step
  <2> QED BY <1>6, <2>1, <2>2, <2>4, <2>5, Targeted
<1>7. ASSUME NEW j \in Jobs, SetTargetShared(j) \/ SetTargetFileByIDs(j) PROVE FilesIndInv'
  <2>1. CASE SetTargetShared(j)
    BY <1>6, <2>1 DEF SetTargetShared
  <2>2. CASE SetTargetFileByIDs(j) /\ Recycle(j)
    BY <2>2, RecycleKeeps DEF SetTargetFileByIDs
  <2>3. CASE SetTargetFileByIDs(j) /\ ~Recycle(j)
    BY <1>6, <2>3 DEF SetTargetFileByIDs
  <2> QED BY <1>7, <2>1, <2>2, <2>3
<1>8. ASSUME NEW j \in Jobs, job[j].pc \in {"target", "set"}, Looks(j) PROVE FilesIndInv'
  <2>1. PICK f \in FSObjects : f \notin pool /\ Serving(job[j], f) /\ job[j].fs = {f} /\ FSOf(j) = f
    BY <1>8, HasObject
  <2>2. UNCHANGED sessions
    BY <1>8 DEF Looks
  <2>3. CASE Recycle(j)
    BY <1>8, <2>2, <2>3, RecycleKeeps
  <2>4. CASE ~Recycle(j)
    <3>1. /\ target' = IF target[f] = <<>> THEN [target EXCEPT ![f] = <<The(job[j].doc)>>] ELSE target
          /\ handler' = resetPolicyToFirstFile(f, target'[f])
          /\ job' = [job EXCEPT ![j] = [job[j] EXCEPT !.pc = "open"]] /\ UNCHANGED pool
      BY <1>8, <2>1, <2>4 DEF Looks, Step
    <3>2. PICK d \in Docs : job[j].doc = {d} /\ (target[f] = <<>> \/ target[f] = <<d>>)
      BY <1>8, <2>1 DEF Serving
    <3>3. The(job[j].doc) = d /\ target \in [FSObjects -> Seq(Docs)]
      BY <3>2, TheOne DEF FilesIndInv, FileTypes
    <3>4. target' = [target EXCEPT ![f] = <<d>>] /\ target'[f] = <<d>>
      BY <3>1, <3>2, <3>3
    <3>5. <<d>>[1] = d
      OBVIOUS
    <3>6. \/ UNCHANGED handler /\ slaveMode
          \/ handler' = [handler EXCEPT ![f] = {d}] /\ ~slaveMode
      BY <3>1, <3>4, <3>5 DEF resetPolicyToFirstFile, DispatchHandler
    <3> QED BY <1>8, <2>1, <2>2, <3>1, <3>2, <3>4, <3>6, Targeted
  <2> QED BY <2>3, <2>4
<1>9. ASSUME NEW j \in Jobs, SignURL(j) PROVE FilesIndInv'
  <2>1. /\ job[j].pc = "set" /\ target' = [target EXCEPT ![FSOf(j)] = <<@[1]>>]
        /\ handler' = resetPolicyToFirstFile(FSOf(j), target'[FSOf(j)])
        /\ job' = [job EXCEPT ![j] = [job[j] EXCEPT !.pc = "open"]]
        /\ UNCHANGED pool /\ UNCHANGED sessions
    BY <1>9 DEF SignURL, Step
  <2>2. PICK f \in FSObjects : f \notin pool /\ Serving(job[j], f) /\ job[j].fs = {f} /\ FSOf(j) = f
    BY <2>1, HasObject
  <2>3. PICK d \in Docs : job[j].doc = {d} /\ target[f] = <<d>>
    BY <2>1, <2>2 DEF Serving
  <2>4. target \in [FSObjects -> Seq(Docs)] /\ <<d>>[1] = d
    BY DEF FilesIndInv, FileTypes
  <2>5. target' = [target EXCEPT ![f] = <<d>>] /\ target'[f] = <<d>>
    BY <2>1, <2>2, <2>3, <2>4
  <2>6. \/ UNCHANGED handler /\ slaveMode
        \/ handler' = [handler EXCEPT ![f] = {d}] /\ ~slaveMode
    BY <2>1, <2>2, <2>4, <2>5 DEF resetPolicyToFirstFile, DispatchHandler
  <2> QED BY <2>1, <2>2, <2>3, <2>5, <2>6, Targeted
<1>10. ASSUME NEW j \in Jobs, PreviewContent(j) \/ GetThumb(j) \/ AnonymousDownload(j) \/ Source(j)
       PROVE  FilesIndInv'
  BY <1>10, RecycleKeeps DEF PreviewContent, Preview, GetThumb, AnonymousDownload, Source, Sends
<1>11. ASSUME NEW j \in Jobs, NEW t \in Tickets, GetDownloadURL(j, t) PROVE FilesIndInv'
  <2>1. /\ job[j].pc = "open" /\ onceServed[t] = 0 /\ Recycle(j) /\ ticket' = LocalSource(j, t)
        /\ UNCHANGED <<slaveMode, docs, archive, sourceLinks, onceServed, racedTickets, racedLinks>>
    BY <1>11 DEF GetDownloadURL
  <2>2. /\ pool' \subseteq FSObjects /\ target' \in [FSObjects -> Seq(Docs)]
        /\ handler' \in [FSObjects -> SUBSET (Docs \cup {"user", "local"})] /\ job' \in [Jobs -> JobRows]
        /\ JobsOK' /\ Apart' /\ PoolClean'
        /\ job'[j] = NoJob /\ \A k \in Jobs : k # j => job'[k] = job[k]
    BY <2>1, Recycled
  <2>3. PICK f \in FSObjects : Serving(job[j], f) /\ FSOf(j) = f
    BY <2>1, HasObject
  <2>4. PICK d \in Docs : target[f] = <<d>>
    BY <2>1, <2>3 DEF Serving
  <2>5. <<d>>[1] = d
    OBVIOUS
  <2>6. ticket' = [ticket EXCEPT ![t] = {d}]
    BY <2>1, <2>3, <2>4, <2>5 DEF LocalSource
  <2>7. /\ ticket' \in [Tickets -> SUBSET Docs] /\ ticket'[t] = {d} /\ \A u \in Tickets : u # t => ticket'[u] = ticket[u]
    BY <2>6 DEF FilesIndInv, FileTypes
  <2> USE DEF FilesIndInv
  <2>8. FileTypes'
    <3>1. \A u \in Tickets : ticket'[u] = {} \/ \E e \in Docs : ticket'[u] = {e}
      BY <2>7 DEF FileTypes
    <3> QED BY <2>1, <2>2, <2>7, <3>1 DEF FileTypes
  <2>9. TicketsOnce'
    <3>1. \A k \in Jobs : job'[k].ticket = job[k].ticket \/ job'[k].ticket = {}
      BY <2>2, NoJobTyped
    <3>2. \A u \in Tickets : ticket'[u] = ticket[u] \/ ticket'[u] = {} \/ onceServed[u] = 0
      BY <2>1, <2>7
    <3> QED BY <2>1, <3>1, <3>2, TicketsQuiet DEF FileTypes
  <2>10. LinksOnce'
    <3>1. \A k \in Jobs, e \in Docs : Inserting(k, e)' => Inserting(k, e)
      BY <2>2, NoJobTyped DEF Inserting
    <3> QED BY <2>1, <3>1, LinksQuiet
  <2> QED BY <2>2, <2>8, <2>9, <2>10
<1>12. ASSUME NEW j \in Jobs, NEW t \in Tickets, NEW once \in BOOLEAN, Download(j, t, once) PROVE FilesIndInv'
  <2>1. PICK d \in ticket[t] :
            /\ NewFileSystemFromContext(j, [NoJob EXCEPT !.pc = "set", !.kind = "download", !.doc = {d},
                                                         !.ticket = {t}, !.once = once])
            /\ target' = [target EXCEPT ![The(job'[j].fs)] = <<d>>]
    BY <1>12 DEF Download
  <2>2. /\ racedTickets' = IF \E k \in Jobs : job[k].ticket = {t} THEN racedTickets \cup {t} ELSE racedTickets
        /\ UNCHANGED <<slaveMode, docs, ticket, archive, sourceLinks, onceServed, racedLinks>>
    BY <1>12 DEF Download
  <2> DEFINE q == [NoJob EXCEPT !.pc = "set", !.kind = "download", !.doc = {d}, !.ticket = {t}, !.once = once]
  <2>3. d \in Docs /\ ticket[t] # {}
    BY <2>1 DEF FilesIndInv, FileTypes
  <2>4. q \in JobRows /\ q.pc = "set" /\ q.doc = {d} /\ q.ticket = {t}
    BY <2>3, NoJobTyped DEF JobRows, JobPCs
  <2>5. ~slaveMode /\ (getEmptyFS(j, q, {"user"}) \/ getEmptyFS(j, q, {}))
    BY <2>1 DEF NewFileSystemFromContext, NewFileSystem, NewAnonymousFileSystem
  <2>6. {"user"} \in SUBSET (Docs \cup {"user", "local"}) /\ {} \in SUBSET (Docs \cup {"user", "local"})
    OBVIOUS
  <2> HIDE DEF q
  <2>7. /\ pool' \subseteq FSObjects /\ target' \in [FSObjects -> Seq(Docs)]
        /\ handler' \in [FSObjects -> SUBSET (Docs \cup {"user", "local"})] /\ job' \in [Jobs -> JobRows]
        /\ JobsOK' /\ Apart' /\ PoolClean'
        /\ job'[j].pc = q.pc /\ job'[j].ticket = q.ticket /\ \A k \in Jobs : k # j => job'[k] = job[k]
    <3>1. /\ UNCHANGED slaveMode /\ (slaveMode => q.pc = "set" /\ {"user"} = {"local"})
          /\ (slaveMode => q.pc = "set" /\ {} = {"local"})
          /\ target' = [target EXCEPT ![The(job'[j].fs)] = <<d>>]
      BY <2>1, <2>2, <2>5
    <3>a. (d \in Docs /\ q.doc = {d}) \/ q.pc = "items"
      BY <2>3, <2>4
    <3>b. \/ q.pc \in {"target", "items", "link"} /\ UNCHANGED target
          \/ /\ q.pc = "set"
             /\ \/ target' = [target EXCEPT ![The(job'[j].fs)] = <<d>>]
                \/ target' = SetTargetFile(The(job'[j].fs), d)
      BY <2>4, <3>1
    <3>2. CASE getEmptyFS(j, q, {"user"})
      <4>1. UNCHANGED slaveMode /\ (slaveMode => q.pc = "set" /\ {"user"} = {"local"})
        BY <3>1
      <4> QED BY <2>4, <2>6, <3>a, <3>b, <3>2, <4>1, Taken, ZenonT(60)
    <3>3. CASE getEmptyFS(j, q, {})
      <4>1. UNCHANGED slaveMode /\ (slaveMode => q.pc = "set" /\ {} = {"local"})
        BY <3>1
      <4> QED BY <2>4, <2>6, <3>a, <3>b, <3>3, <4>1, Taken, ZenonT(60)
    <3> QED BY <2>5, <3>2, <3>3
  <2> USE DEF FilesIndInv
  <2>8. FileTypes'
    BY <2>2, <2>7 DEF FileTypes
  <2>9. ASSUME NEW u \in Tickets, u \notin racedTickets' PROVE TicketOnce(u)'
    <3>1. TicketOnce(u)
      BY <2>2, <2>9 DEF TicketsOnce
    <3>2. \A k \in Jobs : Looking(k, u)' => Looking(k, u) \/ (k = j /\ u = t)
      BY <2>4, <2>7 DEF Looking
    <3>3. u = t => \A k \in Jobs : ~Looking(k, u)
      BY <2>2, <2>9 DEF Looking
    <3>4. onceServed[u] > 0 => u # t
      BY <2>3, <3>1 DEF TicketOnce
    <3>5. (onceServed[u] > 0)' => ticket'[u] = {} /\ \A k \in Jobs : ~Looking(k, u)'
      BY <2>2, <3>1, <3>2, <3>4 DEF TicketOnce
    <3>6. \A k, l \in Jobs : Looking(k, u)' /\ Looking(l, u)' => k = l
      BY <3>1, <3>2, <3>3 DEF TicketOnce
    <3> QED BY <2>2, <3>1, <3>5, <3>6 DEF TicketOnce
  <2>10. LinksOnce'
    <3>1. \A k \in Jobs, e \in Docs : Inserting(k, e)' => Inserting(k, e)
      BY <2>4, <2>7 DEF Inserting
    <3> QED BY <2>2, <3>1, LinksQuiet
  <2> QED BY <2>7, <2>8, <2>9, <2>10 DEF TicketsOnce
<1>13. ASSUME NEW j \in Jobs, DownloadOpens(j) PROVE FilesIndInv'
  <2>1. /\ job[j].pc = "open" /\ Recycle(j)
        /\ UNCHANGED <<slaveMode, docs, archive, sourceLinks, racedTickets, racedLinks>>
    BY <1>13 DEF DownloadOpens
  <2>2. /\ pool' \subseteq FSObjects /\ target' \in [FSObjects -> Seq(Docs)]
        /\ handler' \in [FSObjects -> SUBSET (Docs \cup {"user", "local"})] /\ job' \in [Jobs -> JobRows]
        /\ JobsOK' /\ Apart' /\ PoolClean'
        /\ job'[j] = NoJob /\ \A k \in Jobs : k # j => job'[k] = job[k]
    BY <2>1, Recycled
  <2> USE DEF FilesIndInv
  <2>3. LinksOnce'
    <3>1. \A k \in Jobs, e \in Docs : Inserting(k, e)' => Inserting(k, e)
      BY <2>2, NoJobTyped DEF Inserting
    <3> QED BY <2>1, <3>1, LinksQuiet
  <2>4. \A k \in Jobs, u \in Tickets : Looking(k, u)' => Looking(k, u) /\ k # j
    BY <2>2, NoJobTyped DEF Looking
  <2>5. ASSUME job[j].once = FALSE \/ UNCHANGED <<ticket, onceServed>> PROVE FilesIndInv'
    <3>1. UNCHANGED <<ticket, onceServed>>
      <4>1. CASE UNCHANGED <<ticket, onceServed>>
        BY <4>1
      <4>2. CASE ~UNCHANGED <<ticket, onceServed>>
        <5>1. /\ ticket' = DropTicket(j) /\ job[j].once = FALSE
              /\ onceServed' = [t \in Tickets |->
                                  onceServed[t] + IF {t} = job[j].ticket /\ job[j].once THEN 1 ELSE 0]
          BY <1>13, <2>5, <4>2 DEF DownloadOpens
        <5>2. ticket' = ticket
          BY <5>1 DEF DropTicket
        <5>3. onceServed \in [Tickets -> Nat] 
          BY DEF FileTypes
        <5>4. onceServed' = [t \in Tickets |-> onceServed[t] + 0]
          BY <5>1
        <5>5. onceServed' = onceServed
          BY <5>3, <5>4
        <5> QED BY <5>2, <5>5
      <4> QED BY <4>1, <4>2
    <3>2. FileTypes'
      BY <2>1, <2>2, <3>1 DEF FileTypes
    <3>3. TicketsOnce'
      <4>1. \A k \in Jobs : job'[k].ticket = job[k].ticket \/ job'[k].ticket = {}
        BY <2>2, NoJobTyped
      <4> QED BY <2>1, <3>1, <4>1, TicketsQuiet DEF FileTypes
    <3> QED BY <2>2, <2>3, <3>2, <3>3
  <2>6. ASSUME job[j].once = TRUE, ~UNCHANGED <<ticket, onceServed>> PROVE FilesIndInv'
    <3>1. /\ ticket' = [t \in Tickets |-> IF {t} = job[j].ticket THEN {} ELSE ticket[t]]
          /\ onceServed' = [t \in Tickets |-> onceServed[t] + IF {t} = job[j].ticket THEN 1 ELSE 0]
      BY <1>13, <2>6 DEF DownloadOpens, DropTicket
    <3>2. onceServed \in [Tickets -> Nat] /\ ticket \in [Tickets -> SUBSET Docs]
      BY DEF FileTypes
    <3>3. onceServed' \in [Tickets -> Nat] /\ ticket' \in [Tickets -> SUBSET Docs]
      BY <3>1, <3>2
    <3>4. \A t \in Tickets : ticket'[t] = {} \/ ticket'[t] = ticket[t]
      BY <3>1
    <3>5. FileTypes'
      <4>1. \A u \in Tickets : ticket'[u] = {} \/ \E e \in Docs : ticket'[u] = {e}
        BY <3>4 DEF FileTypes
      <4> QED BY <2>1, <2>2, <3>3, <4>1 DEF FileTypes
    <3>6. ASSUME NEW u \in Tickets, u \notin racedTickets' PROVE TicketOnce(u)'
      <4>1. TicketOnce(u)
        BY <2>1, <3>6 DEF TicketsOnce
      <4>2. \A k, l \in Jobs : Looking(k, u)' /\ Looking(l, u)' => k = l
        BY <2>4, <4>1 DEF TicketOnce
      <4>3. CASE Looking(j, u)
        <5>1. onceServed[u] = 0
          BY <3>2, <4>1, <4>3 DEF TicketOnce
        <5>2. onceServed'[u] = 1 /\ ticket'[u] = {}
          BY <3>1, <4>3, <5>1 DEF Looking
        <5>3. \A k \in Jobs : ~Looking(k, u)'
          BY <2>4, <4>1, <4>3 DEF TicketOnce
        <5> QED BY <4>2, <5>2, <5>3 DEF TicketOnce
      <4>4. CASE ~Looking(j, u)
        <5>1. onceServed'[u] = onceServed[u] /\ ticket'[u] = ticket[u]
          BY <3>1, <3>2, <4>4 DEF Looking
        <5>2. onceServed[u] > 0 => ticket[u] = {} /\ \A k \in Jobs : ~Looking(k, u)'
          BY <2>4, <4>1 DEF TicketOnce
        <5> QED BY <4>1, <4>2, <5>1, <5>2 DEF TicketOnce
      <4> QED BY <4>3, <4>4
    <3> QED BY <2>2, <2>3, <3>5, <3>6 DEF TicketsOnce
  <2>7. job[j].once \in BOOLEAN
    BY <1>0 DEF JobRows
  <2> QED BY <2>5, <2>6, <2>7, Zenon
<1>14. ASSUME NEW t \in Tickets, TicketExpires(t) PROVE FilesIndInv'
  <2> USE DEF FilesIndInv
  <2>1. /\ ticket' = [ticket EXCEPT ![t] = {}]
        /\ UNCHANGED <<slaveMode, pool, target, handler, docs, archive, sourceLinks, job, onceServed, racedTickets, racedLinks>>
    BY <1>14 DEF TicketExpires
  <2>2. ticket' \in [Tickets -> SUBSET Docs] /\ \A u \in Tickets : ticket'[u] = {} \/ ticket'[u] = ticket[u]
    BY <2>1 DEF FileTypes
  <2>3. FileTypes'
    BY <2>1, <2>2 DEF FileTypes
  <2>4. TicketsOnce'
    BY <2>1, <2>2, TicketsQuiet DEF FileTypes
  <2>5. JobsOK' /\ Apart' /\ PoolClean'
    <3>1. UNCHANGED <<slaveMode, pool, target, handler, job>>
      BY <2>1
    <3>2. JobsOK'
      <4>1. ASSUME NEW k \in Jobs PROVE JobOK(job[k])'
        <5>1. JobOK(job[k])
          BY DEF JobsOK
        <5> QED BY <3>1, <5>1 DEF JobOK, Serving
      <4> QED BY <4>1 DEF JobsOK
    <3> QED BY <3>1, <3>2 DEF Apart, PoolClean
  <2>6. LinksOnce'
    BY <2>1 DEF LinksOnce, LinkOnce, Inserting
  <2> QED BY <2>3, <2>4, <2>5, <2>6
<1>15. ASSUME UNCHANGED <<slaveMode, pool, target, handler, ticket, sourceLinks, job, onceServed, racedTickets, racedLinks>>,
              docs' \subseteq docs, archive' \subseteq {"items", "user"}
       PROVE  FilesIndInv'
  <2> USE DEF FilesIndInv
  <2>1. FileTypes'
    BY <1>15 DEF FileTypes
  <2>2. JobsOK' /\ Apart' /\ PoolClean'
    BY <1>15, SMTT(30) DEF JobsOK, JobOK, Serving, Apart, PoolClean
  <2>3. TicketsOnce' /\ LinksOnce'
    BY <1>15 DEF TicketsOnce, TicketOnce, Looking, LinksOnce, LinkOnce, Inserting
  <2> QED BY <2>1, <2>2, <2>3
<1>16. ASSUME (\E j \in Jobs : Archive(j)) \/ ArchiveExpires \/ \E d \in Docs : DocDeleted(d) PROVE FilesIndInv'
  <2>1. archive \subseteq {"items", "user"}
    BY DEF FilesIndInv, FileTypes
  <2> QED BY <1>15, <1>16, <2>1 DEF Archive, ArchiveExpires, DocDeleted
<1>17. ASSUME NEW j \in Jobs, NEW q, q \in JobRows, job[j].pc \in {"items", "zip"}, Step(j, q), UNCHANGED <<pool, target>>,
              q.fs = job[j].fs, q.ticket = job[j].ticket, q.pc = "zip", UNCHANGED sessions,
              UNCHANGED handler \/ \E d \in Docs : handler' = DispatchHandler(FSOf(j), d)
       PROVE  FilesIndInv'
  <2>1. PICK f \in FSObjects : f \notin pool /\ Serving(job[j], f) /\ job[j].fs = {f} /\ FSOf(j) = f
    BY <1>17, HasObject
  <2>2. target \in [FSObjects -> Seq(Docs)] /\ handler \in [FSObjects -> SUBSET (Docs \cup {"user", "local"})]
        /\ job \in [Jobs -> JobRows]
    BY DEF FilesIndInv, FileTypes
  <2>3. target[f] \in Seq(Docs) /\ target' = [target EXCEPT ![f] = target[f]] /\ target'[f] = target[f]
    BY <1>17, <2>2
  <2>4. PICK H \in SUBSET (Docs \cup {"user", "local"}) : handler' = [handler EXCEPT ![f] = H]
    <3>1. CASE UNCHANGED handler
      BY <2>2, <3>1
    <3>2. CASE \E d \in Docs : handler' = DispatchHandler(FSOf(j), d)
      BY <2>1, <3>2 DEF DispatchHandler
    <3> QED BY <1>17, <3>1, <3>2
  <2>5. job' = [job EXCEPT ![j] = q] /\ job'[j] = q /\ UNCHANGED pool /\ q.fs = {f}
    BY <1>17, <2>1, <2>2 DEF Step
  <2>6. ~slaveMode /\ target[f] = <<>> /\ UNCHANGED slaveMode
    BY <1>17, <2>1 DEF Serving, sessions
  <2>7. Serving(job[j], f)'
    BY <1>17, <2>3, <2>5, <2>6 DEF Serving
  <2>8. q \in JobRows /\ q.pc # "insert" /\ q.ticket = job[j].ticket /\ UNCHANGED sessions
    BY <1>17
  <2> QED BY <2>1, <2>3, <2>4, <2>5, <2>7, <2>8, GoKeeps, ZenonT(60)
<1>18. ASSUME NEW j \in Jobs, ArchiveItems(j) PROVE FilesIndInv'
  <2>1. CASE Recycle(j)
    BY <1>18, <2>1, RecycleKeeps DEF ArchiveItems
  <2>2. CASE ~Recycle(j)
    <3> DEFINE q == [job[j] EXCEPT !.pc = "zip"]
    <3>1. job[j].pc = "items" /\ Step(j, q) /\ UNCHANGED <<pool, target, handler>> /\ UNCHANGED sessions
      BY <1>18, <2>2 DEF ArchiveItems
    <3>2. q \in JobRows /\ q.fs = job[j].fs /\ q.ticket = job[j].ticket /\ q.pc = "zip"
      BY <1>0 DEF JobRows, JobPCs
    <3> HIDE DEF q
    <3> QED BY <1>17, <3>1, <3>2
  <2> QED BY <2>1, <2>2
<1>19. ASSUME NEW j \in Jobs, NEW d \in Docs, doCompress(j, d) PROVE FilesIndInv'
  <2> DEFINE q == [job[j] EXCEPT !.doc = {d}]
  <2>1. /\ job[j].pc = "zip" /\ Step(j, q) /\ UNCHANGED <<pool, target>> /\ UNCHANGED sessions
        /\ handler' = DispatchHandler(FSOf(j), d)
    BY <1>19 DEF doCompress
  <2>2. q \in JobRows /\ q.fs = job[j].fs /\ q.ticket = job[j].ticket /\ q.pc = "zip"
    BY <1>0, <2>1 DEF JobRows, JobPCs
  <2> HIDE DEF q
  <2> QED BY <1>17, <2>1, <2>2
<1>20. ASSUME NEW j \in Jobs, Compressed(j) PROVE FilesIndInv'
  <2>1. CASE Recycle(j)
    BY <1>20, <2>1, RecycleKeeps DEF Compressed
  <2>2. CASE ~Recycle(j)
    <3> DEFINE q == [job[j] EXCEPT !.doc = {}]
    <3>1. job[j].pc = "zip" /\ Step(j, q) /\ UNCHANGED <<pool, target, handler>> /\ UNCHANGED sessions
      BY <1>20, <2>2 DEF Compressed
    <3>2. q \in JobRows /\ q.fs = job[j].fs /\ q.ticket = job[j].ticket /\ q.pc = "zip"
      BY <1>0, <3>1 DEF JobRows, JobPCs
    <3> HIDE DEF q
    <3> QED BY <1>17, <3>1, <3>2
  <2> QED BY <2>1, <2>2
<1>21. ASSUME NEW j \in Jobs, CreateOrGetSourceLink(j) PROVE FilesIndInv'
  <2>1. CASE Recycle(j) /\ UNCHANGED racedLinks
    <3>1. UNCHANGED sessions /\ job[j].pc = "link"
      BY <1>21, <2>1 DEF CreateOrGetSourceLink, sessions
    <3> QED BY <2>1, <3>1, RecycleKeeps
  <2>2. CASE ~(Recycle(j) /\ UNCHANGED racedLinks)
    <3> DEFINE q == [job[j] EXCEPT !.pc = "insert"]
    <3>0. job[j].pc = "link"
      BY <1>21 DEF CreateOrGetSourceLink
    <3>1. PICK f \in FSObjects : f \notin pool /\ Serving(job[j], f) /\ job[j].fs = {f} /\ FSOf(j) = f
      BY <3>0, HasObject
    <3>2. PICK d \in Docs : job[j].doc = {d}
      BY <3>0, <3>1 DEF Serving
    <3>3. The(job[j].doc) = d
      BY <3>2, TheOne
    <3>4. /\ ~(sourceLinks[d] > 0) /\ Step(j, q) /\ UNCHANGED <<pool, target, handler>>
          /\ racedLinks' = IF \E k \in Jobs : job[k].pc = "insert" /\ job[k].doc = {d}
                           THEN racedLinks \cup {d} ELSE racedLinks
          /\ UNCHANGED <<slaveMode, docs, ticket, archive, sourceLinks, onceServed, racedTickets>>
      BY <1>21, <2>2, <3>3 DEF CreateOrGetSourceLink, LinkFound
    <3>5. q \in JobRows /\ q.fs = {f} /\ q.ticket = job[j].ticket /\ q.pc = "insert" /\ q.doc = {d}
      BY <1>0, <3>1, <3>2 DEF JobRows, JobPCs
    <3> HIDE DEF q
    <3>6. target \in [FSObjects -> Seq(Docs)] /\ handler \in [FSObjects -> SUBSET (Docs \cup {"user", "local"})]
          /\ job \in [Jobs -> JobRows] /\ sourceLinks \in [Docs -> 0 .. MaxSourceLinks]
      BY DEF FilesIndInv, FileTypes
    <3>7. target[f] \in Seq(Docs) /\ target' = [target EXCEPT ![f] = target[f]] /\ target'[f] = target[f]
          /\ handler[f] \in SUBSET (Docs \cup {"user", "local"}) /\ handler' = [handler EXCEPT ![f] = handler[f]]
      BY <3>4, <3>6
    <3>8. job' = [job EXCEPT ![j] = q] /\ job'[j] = q
      BY <3>4, <3>6 DEF Step
    <3>9. ~slaveMode /\ target[f] = <<>>
      BY <3>0, <3>1 DEF Serving
    <3>10. Serving(job[j], f)'
      BY <3>4, <3>5, <3>7, <3>8, <3>9 DEF Serving
    <3>11. UNCHANGED <<slaveMode, pool>>
      BY <3>4
    <3>12. /\ pool' \subseteq FSObjects /\ target' \in [FSObjects -> Seq(Docs)]
           /\ handler' \in [FSObjects -> SUBSET (Docs \cup {"user", "local"})] /\ job' \in [Jobs -> JobRows]
           /\ JobsOK' /\ Apart' /\ PoolClean'
           /\ job'[j] = q /\ \A k \in Jobs : k # j => job'[k] = job[k]
      BY <3>1, <3>5, <3>7, <3>8, <3>10, <3>11, GoesOn, ZenonT(60)
    <3> USE DEF FilesIndInv
    <3>13. FileTypes'
      BY <3>4, <3>12 DEF FileTypes
    <3>14. TicketsOnce'
      <4>1. \A k \in Jobs : job'[k].ticket = job[k].ticket \/ job'[k].ticket = {}
        BY <3>5, <3>12
      <4> QED BY <3>4, <4>1, TicketsQuiet DEF FileTypes
    <3>15. ASSUME NEW e \in Docs, e \notin racedLinks' PROVE LinkOnce(e)'
      <4>1. LinkOnce(e)
        BY <3>4, <3>15 DEF LinksOnce
      <4>2. \A k \in Jobs : Inserting(k, e)' => Inserting(k, e) \/ (k = j /\ e = d)
        BY <3>5, <3>12 DEF Inserting
      <4>3. e = d => \A k \in Jobs : ~Inserting(k, e)
        BY <3>4, <3>15 DEF Inserting
      <4>4. sourceLinks[d] = 0
        BY <3>4, <3>6
      <4>5. \A k, l \in Jobs : Inserting(k, e)' /\ Inserting(l, e)' => k = l
        BY <4>1, <4>2, <4>3 DEF LinkOnce
      <4>6. \A k \in Jobs : Inserting(k, e)' => sourceLinks'[e] = 0
        BY <3>4, <4>1, <4>2, <4>4 DEF LinkOnce
      <4> QED BY <3>4, <4>1, <4>5, <4>6 DEF LinkOnce
    <3> QED BY <3>12, <3>13, <3>14, <3>15 DEF LinksOnce
  <2> QED BY <2>1, <2>2
<1>22. ASSUME NEW j \in Jobs, InsertSourceLink(j) PROVE FilesIndInv'
  <2>0. job[j].pc = "insert" /\ Recycle(j)
        /\ UNCHANGED <<slaveMode, docs, ticket, archive, onceServed, racedTickets, racedLinks>>
    BY <1>22 DEF InsertSourceLink
  <2>1. PICK f \in FSObjects : Serving(job[j], f)
    BY <2>0, HasObject
  <2>2. PICK d \in Docs : job[j].doc = {d}
    BY <2>0, <2>1 DEF Serving
  <2>3. The(job[j].doc) = d
    BY <2>2, TheOne
  <2>4. sourceLinks[d] < MaxSourceLinks /\ sourceLinks' = [sourceLinks EXCEPT ![d] = sourceLinks[d] + 1]
    BY <1>22, <2>3 DEF InsertSourceLink
  <2>5. /\ pool' \subseteq FSObjects /\ target' \in [FSObjects -> Seq(Docs)]
        /\ handler' \in [FSObjects -> SUBSET (Docs \cup {"user", "local"})] /\ job' \in [Jobs -> JobRows]
        /\ JobsOK' /\ Apart' /\ PoolClean'
        /\ job'[j] = NoJob /\ \A k \in Jobs : k # j => job'[k] = job[k]
    BY <2>0, Recycled
  <2> USE DEF FilesIndInv
  <2>6. sourceLinks \in [Docs -> 0 .. MaxSourceLinks] /\ MaxSourceLinks \in Nat
    BY FileRequestsAssumption DEF FileTypes
  <2>7. /\ sourceLinks' \in [Docs -> 0 .. MaxSourceLinks] /\ sourceLinks'[d] = sourceLinks[d] + 1
        /\ \A e \in Docs : e # d => sourceLinks'[e] = sourceLinks[e]
    BY <2>4, <2>6
  <2>8. FileTypes'
    BY <2>0, <2>5, <2>7 DEF FileTypes
  <2>9. TicketsOnce'
    <3>1. \A k \in Jobs : job'[k].ticket = job[k].ticket \/ job'[k].ticket = {}
      BY <2>5, NoJobTyped
    <3> QED BY <2>0, <3>1, TicketsQuiet DEF FileTypes
  <2>10. ASSUME NEW e \in Docs, e \notin racedLinks' PROVE LinkOnce(e)'
    <3>1. LinkOnce(e)
      BY <2>0, <2>10 DEF LinksOnce
    <3>2. \A k \in Jobs : Inserting(k, e)' => Inserting(k, e) /\ k # j
      BY <2>5, NoJobTyped DEF Inserting
    <3>3. \A k, l \in Jobs : Inserting(k, e)' /\ Inserting(l, e)' => k = l
      BY <3>1, <3>2 DEF LinkOnce
    <3>4. CASE e = d
      <4>1. Inserting(j, d)
        BY <2>0, <2>2 DEF Inserting
      <4>2. sourceLinks[d] = 0
        BY <3>1, <3>4, <4>1 DEF LinkOnce
      <4>3. sourceLinks'[e] <= 1
        BY <2>7, <3>4, <4>2
      <4>4. \A k \in Jobs : ~Inserting(k, e)'
        BY <3>1, <3>2, <3>4, <4>1 DEF LinkOnce
      <4> QED BY <3>3, <4>3, <4>4 DEF LinkOnce
    <3>5. CASE e # d
      <4>1. sourceLinks'[e] = sourceLinks[e]
        BY <2>7, <3>5
      <4> QED BY <3>1, <3>2, <3>3, <4>1 DEF LinkOnce
    <3> QED BY <3>4, <3>5
  <2> QED BY <2>5, <2>8, <2>9, <2>10 DEF LinksOnce
<1>23. CASE UNCHANGED fileRequestVars
  <2>1. UNCHANGED <<slaveMode, pool, target, handler, ticket, sourceLinks, job, onceServed, racedTickets, racedLinks>>
        /\ docs' \subseteq docs /\ archive' = archive
    BY <1>23 DEF fileRequestVars
  <2>2. archive \subseteq {"items", "user"}
    BY DEF FilesIndInv, FileTypes
  <2> QED BY <1>15, <2>1, <2>2
<1>24. CASE FileRequestsNext
  <2>1. ASSUME NEW j \in Jobs, NEW d \in Docs,
               \/ \E k \in ByID \cup {"get"} : Asks(j, k, d)
               \/ ServeFile(j, d) \/ SlaveThumb(j, d) \/ handleGetHeadPost(j, d)
               \/ Sources(j, d) \/ ValidateSourceLink(j, d) \/ doCompress(j, d)
        PROVE  FilesIndInv'
    <3>1. ByID \cup {"get"} \subseteq {"preview", "session", "get", "source"}
      BY DEF ByID
    <3> QED BY <1>1, <1>2, <1>3, <1>4, <1>19, <2>1, <3>1 DEF ValidateSourceLink
  <2>2. ASSUME NEW j \in Jobs, NEW t \in Tickets,
               \/ CreateDownloadSession(j, t) \/ CreateDocPreviewSession(j, t)
               \/ \E b \in BOOLEAN : Download(j, t, b)
        PROVE  FilesIndInv'
    BY <1>11, <1>12, <2>2 DEF CreateDownloadSession, CreateDocPreviewSession
  <2>3. ASSUME NEW j \in Jobs, resetFileIDIfNotExist(j) \/ ResetFileIfNotExist(j) PROVE FilesIndInv'
    BY <1>8, <2>3 DEF resetFileIDIfNotExist, ResetFileIfNotExist
  <2>4. ASSUME NEW j \in Jobs,
               \/ SetTargetShared(j) \/ SetTargetFileByIDs(j)
               \/ resetFileIDIfNotExist(j) \/ ResetFileIfNotExist(j) \/ SignURL(j)
               \/ PreviewContent(j) \/ GetThumb(j) \/ AnonymousDownload(j) \/ Source(j)
               \/ DownloadOpens(j) \/ CreateOrGetSourceLink(j) \/ InsertSourceLink(j)
               \/ Archive(j) \/ DownloadArchived(j) \/ ArchiveItems(j) \/ Compressed(j)
        PROVE  FilesIndInv'
    BY <1>5, <1>7, <1>9, <1>10, <1>13, <1>16, <1>18, <1>20, <1>21, <1>22, <2>3, <2>4
  <2> QED BY <1>14, <1>16, <1>24, <2>1, <2>2, <2>4 DEF FileRequestsNext
<1> QED BY <1>23, <1>24

\* It implies what the run checks.
LEMMA FilesIndInvImplies == FilesIndInv => FileRequestsInv
<1> SUFFICES ASSUME FilesIndInv PROVE FileRequestsInv
  OBVIOUS
<1> USE DEF FilesIndInv
<1>1. FileRequestsTypeOK
  <2>1. \A t \in Tickets : ticket[t] \subseteq Docs /\ Cardinality(ticket[t]) <= 1
    <3>1. \A d : Cardinality({d}) = 1 
      BY FS_Singleton
    <3>2. Cardinality({}) = 0
      BY FS_EmptySet
    <3>3. \A t \in Tickets : ticket[t] = {} \/ \E d \in Docs : ticket[t] = {d}
      BY DEF FileTypes
    <3> QED BY <3>1, <3>2, <3>3
  <2>2. \A j \in Jobs : job[j].fs \subseteq FSObjects \ pool
    BY NoJobTyped DEF JobsOK, JobOK, Serving
  <2> QED BY <2>1, <2>2 DEF FileRequestsTypeOK, FileTypes, Apart
<1>2. ServesOwnTarget
  <2> SUFFICES ASSUME NEW j \in Jobs, job[j].pc = "open"
               PROVE  /\ {target[FSOf(j)][1]} = job[j].doc
                      /\ handler[FSOf(j)] = IF slaveMode THEN {"local"} ELSE job[j].doc
    BY DEF ServesOwnTarget
  <2>1. PICK f \in FSObjects : 
        /\ job[j].fs = {f}
        /\ slaveMode => handler[f] = {"local"}
        /\ \E d \in Docs : job[j].doc = {d} /\ target[f] = <<d>>
        /\ ~slaveMode => handler[f] = job[j].doc
    BY NoJobTyped DEF JobsOK, JobOK, Serving
  <2>2. FSOf(j) = f
    BY <2>1, TheOne DEF FSOf
  <2>3. PICK d \in Docs : job[j].doc = {d} /\ target[f] = <<d>>
    BY <2>1
  <2>4. <<d>>[1] = d
    OBVIOUS
  <2> QED BY <2>1, <2>2, <2>3, <2>4
<1>3. OneTimeOnce
  BY DEF OneTimeOnce, TicketsOnce, TicketOnce, FileTypes
<1>4. OneLinkPerFile
  BY DEF OneLinkPerFile, LinksOnce, LinkOnce, FileTypes
<1> QED BY <1>1, <1>2, <1>3, <1>4 DEF FileRequestsInv

\* A request serves the file it asked for through the driver of that file's
\* policy, whatever the object it took was used for before; a one-time ticket
\* is served once unless it was looked up twice at the same time, and a file
\* has one source link unless two requests looked for one at the same time
\* (FSPool, Recycle, resetFileIDIfNotExist, DownloadService.Download,
\* CreateOrGetSourceLink): for every set of files, objects, requests and
\* tickets.
THEOREM RequestsHold == FileRequestsSpec => []FileRequestsInv
<1>1. FileRequestsSpec => []FilesIndInv
  BY FilesInitInv, FilesStep, PTL DEF FileRequestsSpec
<1> QED BY <1>1, FilesIndInvImplies, PTL

-----------------------------------------------------------------------------
(* Listings, searches, properties, walks and paths: requests of several    *)
(* queries, in a tree that changes between them.                           *)

\* Where every folder and file is, and the records of requests.
Places == [Objs \ {Top} -> Dirs \cup {Outside}]
ReaderRecords ==
    [pc : {"idle", "dirs", "files", "roots", "level", "query", "store", "walk", "walkfiles",
           "up", "done"},
     kind : Kinds \cup {"none"}, root : Dirs, dirs : SUBSET Dirs,
     frontier : SUBSET Dirs, got : SUBSET Objs, twice : SUBSET Dirs, calm : SUBSET Objs,
     seen : SUBSET Objs, shaken : BOOLEAN, touched : BOOLEAN]

\* The types of the variables.
ListingTypes ==
    /\ at \in Places /\ hidden \in SUBSET LeafFiles
    /\ props \in [Dirs -> {{}} \cup {{S} : S \in SUBSET Objs}]
    /\ reader \in [Readers -> ReaderRecords]

\* A folder that has a row; every such folder is below the root.
Present(A, x) == x = Top \/ A[x] # Outside
Rooted(A) == \A x \in Dirs : Present(A, x) => x \in Below(A, {Top})

\* Where an object is looked for: a folder itself, a file in its folder.
Holder(A, z) == IF z \in Dirs THEN z ELSE A[z]

\* The stages of the requests.
StageOK(q) ==
    /\ q.pc = "idle" => q = NoReader
    /\ q.pc # "idle" => q.kind \in Kinds
    /\ q.pc \in {"dirs", "files"} => q.kind = "list"
    /\ q.pc \in {"roots", "level", "query"} => q.kind \in {"search", "props"}
    /\ q.pc = "store" => q.kind = "props"
    /\ q.pc \in {"walk", "walkfiles"} => q.kind = "walk"
    /\ q.pc = "up" => q.kind = "trace"

\* What the history of a request means: everything the tree has had in the
\* scope was seen, and what is calm is in the scope still.
HistoryOK(A, H, q) ==
    q.pc # "idle" =>
    /\ ScopeIn(A, H, q.kind, q.root) \subseteq q.seen
    /\ q.calm \subseteq ScopeIn(A, H, q.kind, q.root)
    /\ q.shaken => q.touched
    /\ ~q.shaken => q.twice = {}
    /\ q.kind # "list" /\ (~q.shaken \/ q.calm # {}) => Present(A, q.root)
    /\ q.kind = "trace" /\ q.shaken => q.calm = {}

\* A listing between its two queries.
ListOK(q) == q.pc = "files" => q.calm \cap Dirs \subseteq q.got /\ q.got \subseteq q.seen

\* The descent level by level: what is calm is in a folder that was found or is
\* below the last level; in a tree that stands still the folders found are a
\* part of the subtree that has the parents of its members, and the last level
\* has none of them.
LevelOK(A, q) ==
    q.pc = "level" =>
    /\ q.frontier \subseteq q.dirs
    /\ \A z \in q.calm : Holder(A, z) \in q.dirs \cup Below(A, q.frontier)
    /\ ~q.shaken => /\ q.root \in q.dirs /\ q.dirs \subseteq Below(A, {q.root})
                    /\ Below(A, {q.root}) \subseteq q.dirs \cup Below(A, q.frontier)
                    /\ \A z \in q.dirs : z = q.root \/ ParentOf(A, z) \in q.dirs \ q.frontier

\* The query for the files, and the answer to be cached.
QueryOK(A, q) ==
    q.pc = "query" =>
    /\ \A z \in q.calm : Holder(A, z) \in q.dirs
    /\ ~q.shaken => q.dirs = Below(A, {q.root})
StoreOK(A, H, q) ==
    q.pc = "store" =>
    /\ q.calm \subseteq q.got
    /\ ~q.shaken => q.got \subseteq q.seen
    /\ ~q.touched => q.got = ScopeIn(A, H, "props", q.root)

\* The walk: what is calm was reported or is below a pending folder; in a tree
\* that stands still no pending folder was reported.
WalkOK(A, q) ==
    q.pc \in {"walk", "walkfiles"} =>
    /\ q.pc = "walkfiles" => q.got # {}
    /\ q.dirs # {} \/ q.got # {} =>
          \A z \in q.calm : \/ z \in q.got \/ Holder(A, z) \in Below(A, q.dirs)
                            \/ z \in LeafFiles /\ q.pc = "walkfiles" /\ A[z] \in q.frontier
    /\ ~q.shaken => /\ q.dirs \cup q.frontier \subseteq Below(A, {q.root})
                    /\ q.got \subseteq q.seen /\ q.dirs \cap q.got = {}
                    /\ \A z \in Dirs \cap (q.dirs \cup q.got) : z = q.root \/ ParentOf(A, z) \in q.got

\* The way up: the folder reached, what was passed and what is left.
Cur(q) == IF q.frontier = {} THEN q.root ELSE CHOOSE x \in q.frontier : TRUE
TraceOK(A, q) ==
    q.pc = "up" /\ ~q.shaken =>
    /\ q.root \in Below(A, {Cur(q)}) /\ q.got \subseteq Above(A, q.root)
    /\ q.calm \subseteq q.got \cup Above(A, Cur(q))

\* An answer.
DoneOK(q) ==
    q.pc = "done" =>
    q.calm \subseteq q.got /\ (q.kind = "list" \/ ~q.shaken => q.got \subseteq q.seen)

\* All that is said of one request.
ReaderOK(A, H, q) ==
    /\ StageOK(q) /\ HistoryOK(A, H, q)
    /\ ListOK(q) /\ LevelOK(A, q) /\ QueryOK(A, q) /\ StoreOK(A, H, q) /\ WalkOK(A, q)
    /\ TraceOK(A, q) /\ DoneOK(q)

\* The inductive invariant.
ListingsHeld ==
    /\ ListingTypes /\ Rooted(at) /\ PropsFresh
    /\ \A r \in Readers : ReaderOK(at, hidden, reader[r])

\* A non-empty set of naturals has a least element: induction over the naturals
\* in the form that the provers can use.
LEMMA LeastNatural ==
    ASSUME NEW S \in SUBSET Nat, S # {}
    PROVE  \E n \in S : \A m \in S : n <= m
<1>1. PICK n \in S : \A m \in S : ~(<<m, n>> \in OpToRel(<, Nat))
  BY NatLessThanWellFounded, WFMin, Zenon
<1>2. ASSUME NEW m \in S PROVE n <= m
  <2>1. n \in Nat /\ m \in Nat
    OBVIOUS
  <2>2. m < n => <<m, n>> \in OpToRel(<, Nat)
    BY <2>1 DEF OpToRel
  <2>3. ~(m < n)
    BY <1>1, <2>2, Zenon
  <2> QED BY <2>1, <2>3
<1> QED BY <1>2

\* Sets of folders that contain the sub-folders of their members, and the
\* folders found after some levels.
ClosedIn(A, S) == ChildDirs(A, S) \subseteq S
AreDepths(A, F, k, g) ==
    g = [n \in 0 .. k |-> IF n = 0 THEN F ELSE g[n - 1] \cup ChildDirs(A, g[n - 1])]
DepthsOf(A, F, k) == CHOOSE g : AreDepths(A, F, k, g)

\* Below looks as many levels deep as there are folders.
LEMMA BelowDepths ==
    ASSUME NEW A, NEW F
    PROVE  Below(A, F) = DepthsOf(A, F, Cardinality(Dirs))[Cardinality(Dirs)]
BY Zenon DEF Below, DepthsOf, AreDepths

\* There are levels, however deep one looks.
LEMMA DepthsExist ==
    ASSUME NEW A, NEW F, NEW k \in Nat
    PROVE  AreDepths(A, F, k, DepthsOf(A, F, k))
<1> DEFINE none == {n \in Nat : ~\E g : AreDepths(A, F, n, g)}
           next(S) == S \cup ChildDirs(A, S)
<1>1. CASE none # {}
  <2>1. PICK n \in none : \A m \in none : n <= m
    <3>1. none \in SUBSET Nat
      OBVIOUS
    <3> HIDE DEF none
    <3> QED BY <1>1, <3>1, LeastNatural
  <2>2. n \in Nat /\ ~\E g : AreDepths(A, F, n, g)
    OBVIOUS
  <2>3. n # 0
    <3>1. AreDepths(A, F, 0, [m \in 0 .. 0 |-> F])
      BY DEF AreDepths
    <3> QED BY <2>2, <3>1
  <2>4. PICK h : AreDepths(A, F, n - 1, h)
    <3>1. n - 1 \in Nat /\ ~(n <= n - 1)
      BY <2>2, <2>3
    <3>2. n - 1 \notin none
      <4> HIDE DEF none
      <4> QED BY <2>1, <3>1
    <3> QED BY <3>1, <3>2
  <2> HIDE DEF next
  <2>5. h = [m \in 0 .. n - 1 |-> IF m = 0 THEN F ELSE next(h[m - 1])]
    BY <2>4, Zenon DEF AreDepths, next
  <2> DEFINE g == [m \in 0 .. n |-> IF m = n THEN next(h[n - 1]) ELSE h[m]]
  <2>6. \A m \in 0 .. n : g[m] = IF m = 0 THEN F ELSE next(g[m - 1])
    <3> SUFFICES ASSUME NEW m \in 0 .. n
                 PROVE  g[m] = IF m = 0 THEN F ELSE next(g[m - 1])
      OBVIOUS
    <3>1. CASE m = n
      <4>1. g[m] = next(h[n - 1]) /\ m - 1 = n - 1 /\ g[n - 1] = h[n - 1]
        BY <2>2, <2>3, <3>1
      <4> QED BY <2>3, <3>1, <4>1
    <3>2. CASE m # n /\ m # 0
      <4>1. m \in 0 .. n - 1 /\ m - 1 \in 0 .. n /\ m - 1 # n
        BY <2>2, <3>2
      <4>2. g[m] = h[m] /\ g[m - 1] = h[m - 1]
        BY <3>2, <4>1
      <4>3. h[m] = next(h[m - 1])
        BY <2>5, <3>2, <4>1
      <4> QED BY <3>2, <4>2, <4>3
    <3>3. CASE m = 0
      <4>1. 0 \in 0 .. n - 1 /\ 0 \in 0 .. n
        BY <2>2, <2>3
      <4>2. h[0] = F
        BY <2>5, <4>1
      <4>3. g[0] = h[0]
        BY <2>3, <4>1
      <4> QED BY <3>3, <4>2, <4>3
    <3> QED BY <3>1, <3>2, <3>3
  <2>7. g = [m \in 0 .. n |-> g[m]]
    OBVIOUS
  <2> HIDE DEF g
  <2>8. g = [m \in 0 .. n |-> IF m = 0 THEN F ELSE next(g[m - 1])]
    BY <2>6, <2>7
  <2>9. AreDepths(A, F, n, g)
    BY <2>8, Zenon DEF AreDepths, next
  <2> QED BY <2>2, <2>9
<1>2. CASE none = {}
  <2>1. \E g : AreDepths(A, F, k, g)
    BY <1>2
  <2> QED BY <2>1, Zenon DEF DepthsOf
<1> QED BY <1>1, <1>2

\* The subtree of F contains the folders of F, contains the sub-folders of
\* its members, and is the least such set.
LEMMA SubtreeLeast ==
    ASSUME NEW A, NEW F \in SUBSET Dirs
    PROVE  /\ F \subseteq Below(A, F) /\ Below(A, F) \subseteq Dirs
           /\ ClosedIn(A, Below(A, F))
           /\ \A S : F \subseteq S /\ ClosedIn(A, S) => Below(A, F) \subseteq S
<1> DEFINE N == Cardinality(Dirs)
           g == DepthsOf(A, F, N)
<1>1. N \in Nat
  BY FS_CardinalityType, ListingsAssumption
<1>2. AreDepths(A, F, N, g)
  BY <1>1, DepthsExist
<1> HIDE DEF g, N
<1>3. /\ g[0] = F
      /\ \A n \in 1 .. N : g[n] = g[n - 1] \cup ChildDirs(A, g[n - 1])
  <2>1. g = [n \in 0 .. N |-> IF n = 0 THEN F ELSE g[n - 1] \cup ChildDirs(A, g[n - 1])]
    BY <1>2, Zenon DEF AreDepths
  <2>2. 0 \in 0 .. N /\ \A n \in 1 .. N : n \in 0 .. N /\ n # 0
    BY <1>1
  <2> QED BY <2>1, <2>2
\* A property of level 0 that every level hands to the next one.
<1>4. \A S : F \subseteq S /\ ClosedIn(A, S) => \A n \in 0 .. N : g[n] \subseteq S
  <2> SUFFICES ASSUME NEW S, F \subseteq S, ClosedIn(A, S),
                      {n \in 0 .. N : ~(g[n] \subseteq S)} # {}
               PROVE  FALSE
    OBVIOUS
  <2>1. PICK n \in {m \in 0 .. N : ~(g[m] \subseteq S)} :
             \A m \in {i \in 0 .. N : ~(g[i] \subseteq S)} : n <= m
    <3>1. {m \in 0 .. N : ~(g[m] \subseteq S)} \in SUBSET Nat
      BY <1>1
    <3> QED BY <3>1, LeastNatural
  <2>2. n \in 1 .. N /\ n - 1 \in 0 .. N /\ ~(n <= n - 1)
    BY <1>1, <1>3, <2>1
  <2>3. g[n - 1] \subseteq S
    BY <2>1, <2>2
  <2>4. ChildDirs(A, g[n - 1]) \subseteq S
    BY <2>3 DEF ClosedIn, ChildDirs
  <2> QED BY <1>3, <2>1, <2>2, <2>3, <2>4
<1>5. \A n \in 0 .. N : F \subseteq g[n] /\ g[n] \subseteq Dirs
  <2>1. F \subseteq Dirs /\ ClosedIn(A, Dirs)
    BY DEF ClosedIn, ChildDirs
  <2>2. \A n \in 0 .. N : g[n] \subseteq Dirs
    BY <1>4, <2>1
  <2> SUFFICES ASSUME {n \in 0 .. N : ~(F \subseteq g[n])} # {} PROVE FALSE
    BY <2>2
  <2>3. PICK n \in {m \in 0 .. N : ~(F \subseteq g[m])} :
             \A m \in {i \in 0 .. N : ~(F \subseteq g[i])} : n <= m
    <3>1. {m \in 0 .. N : ~(F \subseteq g[m])} \in SUBSET Nat
      BY <1>1
    <3> QED BY <3>1, LeastNatural
  <2>4. n \in 1 .. N /\ n - 1 \in 0 .. N /\ ~(n <= n - 1)
    BY <1>1, <1>3, <2>3
  <2>5. F \subseteq g[n - 1]
    BY <2>3, <2>4
  <2> QED BY <1>3, <2>3, <2>4, <2>5
\* A level is closed, or it has more members than its number.
<1>6. IsFiniteSet(Dirs) /\ Cardinality(Dirs) <= N
  BY <1>1, ListingsAssumption DEF N
<1>7. \A n \in 0 .. N : IsFiniteSet(g[n]) /\ Cardinality(g[n]) \in Nat /\ Cardinality(g[n]) <= N
  BY <1>1, <1>5, <1>6, FS_Subset, FS_CardinalityType
<1>8. \A n \in 0 .. N : ClosedIn(A, g[n]) \/ Cardinality(g[n]) > n
  <2> DEFINE few == {n \in 0 .. N : ~(ClosedIn(A, g[n]) \/ Cardinality(g[n]) > n)}
  <2> SUFFICES ASSUME few # {} PROVE FALSE
    OBVIOUS
  <2>1. PICK n \in few : \A m \in few : n <= m
    <3>1. few \in SUBSET Nat
      BY <1>1
    <3> HIDE DEF few
    <3> QED BY <3>1, LeastNatural
  <2>2. n \in 0 .. N /\ ~ClosedIn(A, g[n]) /\ ~(Cardinality(g[n]) > n)
    OBVIOUS
  <2>3. n # 0
    <3>1. ASSUME n = 0 PROVE FALSE
      <4>1. Cardinality(g[0]) = 0
        BY <1>7, <2>2, <3>1
      <4>2. g[0] = {}
        BY <1>7, <2>2, <3>1, <4>1, FS_EmptySet
      <4> QED BY <2>2, <3>1, <4>2 DEF ClosedIn, ChildDirs
    <3> QED BY <3>1
  <2>4. n \in 1 .. N /\ n - 1 \in 0 .. N /\ ~(n <= n - 1)
    BY <1>1, <2>2, <2>3
  <2>5. n - 1 \notin few
    <3> HIDE DEF few
    <3> QED BY <2>1, <2>4
  <2>6. ClosedIn(A, g[n - 1]) \/ Cardinality(g[n - 1]) > n - 1
    BY <2>4, <2>5
  <2>7. g[n] = g[n - 1] \cup ChildDirs(A, g[n - 1])
    BY <1>3, <2>4
  <2>8. ~ClosedIn(A, g[n - 1])
    BY <2>2, <2>7 DEF ClosedIn
  <2>9. g[n - 1] \subseteq g[n] /\ g[n - 1] # g[n]
    BY <2>7, <2>8 DEF ClosedIn
  <2>10. Cardinality(g[n - 1]) < Cardinality(g[n])
    <3>1. Cardinality(g[n - 1]) <= Cardinality(g[n])
          /\ (Cardinality(g[n]) = Cardinality(g[n - 1]) => g[n] = g[n - 1])
      BY <1>7, <2>2, <2>9, FS_Subset
    <3> QED BY <1>7, <2>2, <2>4, <2>9, <3>1
  <2> QED BY <1>7, <2>2, <2>4, <2>6, <2>8, <2>10
<1>9. ClosedIn(A, g[N])
  BY <1>1, <1>7, <1>8
<1>10. Below(A, F) = g[N] /\ N \in 0 .. N
  BY <1>1, BelowDepths DEF g, N
<1> QED BY <1>4, <1>5, <1>9, <1>10

\* The members of a subtree: the folders of F, and those whose parent is one.
LEMMA SubtreeMember ==
    ASSUME NEW A, NEW F \in SUBSET Dirs, NEW y \in Below(A, F)
    PROVE  y \in Dirs /\ (y \in F \/ ParentOf(A, y) \in Below(A, F))
<1> DEFINE S == {z \in Below(A, F) : z \in F \/ ParentOf(A, z) \in Below(A, F)}
<1>1. F \subseteq Below(A, F) /\ Below(A, F) \subseteq Dirs /\ ClosedIn(A, Below(A, F))
  BY SubtreeLeast
<1>2. F \subseteq S /\ ClosedIn(A, S)
  BY <1>1 DEF ClosedIn, ChildDirs
<1> HIDE DEF S
<1>3. Below(A, F) \subseteq S
  BY <1>2, SubtreeLeast
<1> QED BY <1>1, <1>3 DEF S

\* A sub-folder of a member is a member.
LEMMA SubtreeChild ==
    ASSUME NEW A, NEW F \in SUBSET Dirs, NEW z \in Dirs, ParentOf(A, z) \in Below(A, F)
    PROVE  z \in Below(A, F)
<1>1. ClosedIn(A, Below(A, F))
  BY SubtreeLeast
<1> QED BY <1>1 DEF ClosedIn, ChildDirs

\* The subtree of members is part of the subtree.
LEMMA SubtreePart ==
    ASSUME NEW A, NEW F \in SUBSET Dirs, NEW G, G \subseteq Below(A, F)
    PROVE  Below(A, G) \subseteq Below(A, F)
<1>1. Below(A, F) \subseteq Dirs /\ ClosedIn(A, Below(A, F))
  BY SubtreeLeast
<1>2. G \in SUBSET Dirs
  BY <1>1
<1> QED BY <1>1, <1>2, SubtreeLeast

\* Taking folders G out of a set and putting their sub-folders into it leaves
\* out no more than G.
LEMMA SubtreeUnfold ==
    ASSUME NEW A, NEW F \in SUBSET Dirs, NEW G, NEW H \in SUBSET Dirs,
           F \subseteq G \cup H, ChildDirs(A, G) \subseteq H
    PROVE  Below(A, F) \subseteq G \cup Below(A, H)
<1> DEFINE S == G \cup Below(A, H)
<1>1. H \subseteq Below(A, H) /\ ClosedIn(A, Below(A, H))
  BY SubtreeLeast
<1>2. F \subseteq S /\ ClosedIn(A, S)
  BY <1>1 DEF ClosedIn, ChildDirs
<1> HIDE DEF S
<1>3. Below(A, F) \subseteq S
  BY <1>2, SubtreeLeast
<1> QED BY <1>3 DEF S

\* Nothing is below no folder.
LEMMA SubtreeEmpty == ASSUME NEW A PROVE Below(A, {}) = {}
<1>1. ClosedIn(A, {})
  BY DEF ClosedIn, ChildDirs
<1> QED BY <1>1, SubtreeLeast

\* What is not below a folder that changes its place stays where it is.
LEMMA SubtreeKept ==
    ASSUME NEW A, NEW B, NEW F \in SUBSET Dirs, NEW o \in Dirs,
           \A z \in Dirs \ {o} : ParentOf(B, z) = ParentOf(A, z),
           NEW y \in Below(A, F), y \notin Below(A, {o})
    PROVE  y \in Below(B, F)
<1> DEFINE S == Below(B, F) \cup Below(A, {o})
<1>1. F \subseteq Below(B, F) /\ ClosedIn(B, Below(B, F)) /\ Below(B, F) \subseteq Dirs
  BY SubtreeLeast
<1>2. o \in Below(A, {o}) /\ ClosedIn(A, Below(A, {o}))
  BY SubtreeLeast
<1>3. ClosedIn(A, S)
  BY <1>1, <1>2 DEF ClosedIn, ChildDirs
<1>4. F \subseteq S
  BY <1>1
<1> HIDE DEF S
<1>5. Below(A, F) \subseteq S
  BY <1>3, <1>4, SubtreeLeast
<1> QED BY <1>5 DEF S

\* Subtrees are about folders only.
LEMMA SubtreeSame ==
    ASSUME NEW A, NEW B, NEW F \in SUBSET Dirs, \A z \in Dirs : ParentOf(B, z) = ParentOf(A, z)
    PROVE  Below(B, F) = Below(A, F)
<1>1. \A S : ChildDirs(A, S) = ChildDirs(B, S)
  BY DEF ChildDirs
<1>2. \A S : ClosedIn(A, S) <=> ClosedIn(B, S)
  BY <1>1 DEF ClosedIn
<1> QED BY <1>2, SubtreeLeast


\* The root is above everything and below nothing else.
LEMMA TopIsTop ==
    ASSUME NEW A, NEW x \in Dirs, Top \in Below(A, {x})
    PROVE  x = Top
<1>1. Top = x \/ ParentOf(A, Top) \in Below(A, {x})
  BY SubtreeMember
<1>2. Below(A, {x}) \subseteq Dirs
  BY SubtreeLeast
<1> QED BY <1>1, <1>2, ListingsAssumption DEF ParentOf

\* Where every folder is below the root, no folder is below itself.
LEMMA RootedNoCycle ==
    ASSUME NEW A, Rooted(A), NEW x \in Dirs
    PROVE  ParentOf(A, x) \notin Below(A, {x})
<1> SUFFICES ASSUME ParentOf(A, x) \in Below(A, {x}) PROVE FALSE
  OBVIOUS
<1> DEFINE S == Dirs \ Below(A, {x})
<1>1. Below(A, {x}) \subseteq Dirs /\ x \in Below(A, {x})
  BY SubtreeLeast
<1>2. x # Top /\ Present(A, x)
  BY <1>1, ListingsAssumption DEF ParentOf, Present
<1>3. x \in Below(A, {Top})
  BY <1>2 DEF Rooted
<1>4. {Top} \subseteq S
  BY <1>2, TopIsTop, ListingsAssumption
<1>5. ClosedIn(A, S)
  BY SubtreeMember DEF ClosedIn, ChildDirs
<1> HIDE DEF S
<1>6. Below(A, {Top}) \subseteq S
  BY <1>4, <1>5, ListingsAssumption, SubtreeLeast
<1> QED BY <1>1, <1>3, <1>6 DEF S

\* A folder that moves to a folder which is not below it.
LEMMA MoveRooted ==
    ASSUME NEW A, NEW B, Rooted(A), NEW o \in Dirs, o # Top,
           \A z \in Dirs \ {o} : ParentOf(B, z) = ParentOf(A, z),
           ParentOf(B, o) \in Below(A, {Top}), ParentOf(B, o) \notin Below(A, {o}),
           Present(A, o)
    PROVE  Rooted(B)
<1>0. {Top} \in SUBSET Dirs /\ Outside \notin Dirs
  BY ListingsAssumption
<1>1. ParentOf(B, o) \in Below(B, {Top})
  BY <1>0, SubtreeKept
<1>2. o \in Below(B, {Top})
  BY <1>0, <1>1, SubtreeChild
<1>3. Below(A, {o}) \subseteq Below(B, {Top})
  <2>1. ClosedIn(B, Below(B, {Top})) /\ Below(B, {Top}) \subseteq Dirs
    BY <1>0, SubtreeLeast
  <2>2. ClosedIn(A, Below(B, {Top}))
    BY <1>2, <2>1 DEF ClosedIn, ChildDirs
  <2> QED BY <1>2, <2>2, SubtreeLeast
<1>4. ASSUME NEW x \in Dirs, Present(B, x) PROVE x \in Below(B, {Top})
  <2>1. x = o \/ Present(A, x)
    BY <1>4 DEF Present, ParentOf
  <2>2. x \in Below(A, {Top})
    BY <2>1 DEF Rooted
  <2> QED BY <1>0, <1>3, <2>2, SubtreeKept
<1> QED BY <1>4 DEF Rooted

\* An empty folder that is deleted.
LEMMA DeleteRooted ==
    ASSUME NEW A, NEW B, Rooted(A), NEW o \in Dirs, o # Top, ChildDirs(A, {o}) = {},
           \A z \in Dirs \ {o} : ParentOf(B, z) = ParentOf(A, z), ~Present(B, o)
    PROVE  Rooted(B)
<1>0. {Top} \in SUBSET Dirs
  BY ListingsAssumption
<1>1. Below(A, {o}) \subseteq {o}
  <2>1. ClosedIn(A, {o})
    BY DEF ClosedIn
  <2> QED BY <2>1, SubtreeLeast
<1>2. ASSUME NEW x \in Dirs, Present(B, x) PROVE x \in Below(B, {Top})
  <2>1. x # o /\ Present(A, x)
    BY <1>2 DEF Present, ParentOf
  <2>2. x \in Below(A, {Top}) /\ x \notin Below(A, {o})
    BY <1>1, <2>1 DEF Rooted
  <2> QED BY <1>0, <2>2, SubtreeKept
<1> QED BY <1>2 DEF Rooted

\* Two trees that differ in the place of o only.
ApartFrom(A, B, o) ==
    /\ A \in Places /\ B \in Places /\ o \in Objs \ {Top}
    /\ \A z \in Objs \ {Top, o} : B[z] = A[z]

\* What a change of o disturbs for a request.
HitIn(A, k, o) ==
    IF k = "list" THEN {o}
    ELSE IF k = "trace" /\ o \in Dirs THEN Dirs
    ELSE IF o \in Dirs THEN Below(A, {o}) \cup ChildLeaves(A, Below(A, {o}))
    ELSE {o}

\* The sets the places are made of.
LEMMA ListingSets ==
    /\ Top \in Dirs /\ Outside \notin Dirs /\ Dirs \subseteq Objs /\ LeafFiles \subseteq Objs
    /\ \A x \in LeafFiles : x \notin Dirs /\ x # Top
    /\ \A x \in Objs : x \in Dirs \/ x \in LeafFiles
BY ListingsAssumption DEF Objs

\* The places of folders.
LEMMA ApartFolders ==
    ASSUME NEW A, NEW B, NEW o, ApartFrom(A, B, o)
    PROVE  /\ \A z \in Dirs \ {o} : ParentOf(B, z) = ParentOf(A, z)
           /\ \A z \in Dirs \ {o} : Present(B, z) <=> Present(A, z)
           /\ \A z \in LeafFiles \ {o} : B[z] = A[z]
<1> QED BY ListingSets DEF ApartFrom, ParentOf, Present

\* Changing a file changes no subtree.
LEMMA ApartFile ==
    ASSUME NEW A, NEW B, NEW o \in LeafFiles, ApartFrom(A, B, o)
    PROVE  /\ \A F \in SUBSET Dirs : Below(B, F) = Below(A, F)
           /\ \A d \in Dirs : Above(B, d) = Above(A, d)
           /\ \A z \in Dirs : ParentOf(B, z) = ParentOf(A, z) /\ (Present(B, z) <=> Present(A, z))
<1>1. \A z \in Dirs : ParentOf(B, z) = ParentOf(A, z) /\ (Present(B, z) <=> Present(A, z))
  BY ApartFolders, ListingSets
<1>2. \A F \in SUBSET Dirs : Below(B, F) = Below(A, F)
  BY <1>1, SubtreeSame
<1>3. \A x \in Dirs : Below(B, {x}) = Below(A, {x})
  BY <1>2
<1> QED BY <1>1, <1>2, <1>3 DEF Above

\* What a change does not disturb stays where it is.
LEMMA HolderKept ==
    ASSUME NEW A, NEW B, NEW o, ApartFrom(A, B, o), NEW k \in {"search", "props", "walk"},
           NEW z \in Objs, z \notin HitIn(A, k, o), NEW F \in SUBSET Dirs
    PROVE  /\ z # o /\ Holder(B, z) = Holder(A, z)
           /\ Holder(A, z) \in Below(A, F) => Holder(A, z) \in Below(B, F)
<1>1. CASE o \in Dirs
  <2>1. z \notin Below(A, {o}) /\ z \notin ChildLeaves(A, Below(A, {o})) /\ o \in Below(A, {o})
    BY <1>1, SubtreeLeast DEF HitIn
  <2>2. z # o
    BY <2>1
  <2>3. Holder(B, z) = Holder(A, z)
    BY <2>2, ApartFolders, ListingSets DEF Holder
  <2>4. Holder(A, z) \notin Below(A, {o})
    BY <2>1, ListingSets DEF Holder, ChildLeaves
  <2> QED BY <1>1, <2>2, <2>3, <2>4, SubtreeKept, ApartFolders
<1>2. CASE o \notin Dirs
  <2>1. o \in LeafFiles /\ z # o
    BY <1>2, ListingSets DEF HitIn, ApartFrom
  <2>2. Holder(B, z) = Holder(A, z)
    BY <2>1, ApartFolders, ListingSets DEF Holder
  <2> QED BY <2>1, <2>2, ApartFile
<1> QED BY <1>1, <1>2

\* ... and in the scope of the request.
LEMMA ScopeKept ==
    ASSUME NEW A, NEW B, NEW o, ApartFrom(A, B, o), NEW k \in Kinds, NEW d \in Dirs,
           NEW H \in SUBSET LeafFiles, NEW K \in SUBSET LeafFiles, \A x : x # o => (x \in K <=> x \in H),
           NEW z, z \in ScopeIn(A, H, k, d), z \notin HitIn(A, k, o)
    PROVE  z \in ScopeIn(B, K, k, d)
<1>0. Below(A, {d}) \subseteq Dirs
  BY SubtreeLeast
<1>1. CASE k = "list"
  <2>1. z # o /\ z \in ChildDirs(A, {d}) \cup (ChildLeaves(A, {d}) \ H)
    BY <1>1 DEF HitIn, ScopeIn
  <2>2. z \in ChildDirs(B, {d}) \cup (ChildLeaves(B, {d}) \ K)
    BY <2>1, ApartFolders DEF ChildDirs, ChildLeaves
  <2> QED BY <1>1, <2>2 DEF ScopeIn
<1>2. CASE k = "trace"
  <2>1. z \in Above(A, d)
    BY <1>2 DEF ScopeIn
  <2>2. o \in LeafFiles
    BY <1>2, <2>1, ListingSets DEF HitIn, Above, ApartFrom
  <2>3. z \in Above(B, d)
    BY <2>1, <2>2, ApartFile
  <2> QED BY <1>2, <2>3 DEF ScopeIn
<1>3. CASE k \in {"search", "props", "walk"}
  <2> DEFINE F == {d}
  <2>1. z \in Objs /\ Holder(A, z) \in Below(A, F)
    BY <1>0, <1>3, ListingSets DEF ScopeIn, Holder, ChildLeaves
  <2>2. z # o /\ Holder(B, z) = Holder(A, z) /\ Holder(A, z) \in Below(B, F)
    <3>1. F \in SUBSET Dirs
      OBVIOUS
    <3> HIDE DEF F
    <3> QED BY <1>3, <2>1, <3>1, HolderKept
  <2>3. (z \in Below(A, F) => z \in Below(B, F))
        /\ (z \in ChildLeaves(A, Below(A, F)) => z \in ChildLeaves(B, Below(B, F)))
    BY <1>0, <2>2, ListingSets DEF Holder, ChildLeaves
  <2> QED BY <1>3, <2>2, <2>3 DEF ScopeIn
<1> QED BY <1>1, <1>2, <1>3 DEF Kinds

\* Scopes are sets of objects; that of a trace is a set of folders.
LEMMA ScopeType ==
    ASSUME NEW A, NEW H, NEW k, NEW d \in Dirs
    PROVE  ScopeIn(A, H, k, d) \subseteq Objs
<1>1. Below(A, {d}) \subseteq Dirs
  BY SubtreeLeast
<1> QED BY <1>1, ListingSets DEF ScopeIn, ChildDirs, ChildLeaves, Above

\* The record of a request after a change of o.
ChangedRecord(B, K, q, h, o, e) ==
    e = [q EXCEPT !.calm = @ \ h, !.seen = @ \cup ScopeIn(B, K, q.kind, q.root),
                  !.shaken = @ \/ o \in Dirs, !.touched = TRUE]

\* What a change elsewhere leaves of the record of a request, field by field.
LEMMA ChangedFields ==
    ASSUME NEW B, NEW K, NEW q \in ReaderRecords, NEW h, NEW o, NEW e,
           ChangedRecord(B, K, q, h, o, e)
    PROVE  /\ e \in ReaderRecords
           /\ e.pc = q.pc /\ e.kind = q.kind /\ e.root = q.root /\ e.dirs = q.dirs
           /\ e.frontier = q.frontier /\ e.got = q.got /\ e.twice = q.twice
           /\ e.calm = q.calm \ h /\ e.seen = q.seen \cup ScopeIn(B, K, q.kind, q.root)
           /\ e.touched /\ (e.shaken <=> q.shaken \/ o \in Dirs)
<1>0. q.root \in Dirs
  BY DEF ReaderRecords
<1>1. PICK s \in SUBSET Objs : s = q.seen \cup ScopeIn(B, K, q.kind, q.root)
  BY <1>0, ScopeType DEF ReaderRecords
<1>2. PICK c \in SUBSET Objs : c = q.calm \ h
  BY DEF ReaderRecords
<1>3. PICK b \in BOOLEAN : b = (q.shaken \/ o \in Dirs)
  OBVIOUS
<1>4. e = [q EXCEPT !.calm = c, !.seen = s, !.shaken = b, !.touched = TRUE]
  BY <1>1, <1>2, <1>3 DEF ChangedRecord, ReaderRecords
<1>5. e \in ReaderRecords
  BY <1>1, <1>2, <1>3, <1>4 DEF ReaderRecords
<1>6. /\ e.pc = q.pc /\ e.kind = q.kind /\ e.root = q.root /\ e.dirs = q.dirs
      /\ e.frontier = q.frontier /\ e.got = q.got /\ e.twice = q.twice
  BY <1>4 DEF ReaderRecords
<1>7. e.calm = c /\ e.seen = s
  BY <1>4 DEF ReaderRecords
<1>8. e.touched /\ e.shaken = b
  BY <1>4 DEF ReaderRecords
<1> QED BY <1>1, <1>2, <1>3, <1>5, <1>6, <1>7, <1>8

\* Whatever is changed, what is said of a request holds of its record after the change.
LEMMA ReaderChanged ==
    ASSUME NEW A, NEW B, NEW o, ApartFrom(A, B, o),
           NEW H \in SUBSET LeafFiles, NEW K \in SUBSET LeafFiles, \A x : x # o => (x \in K <=> x \in H),
           NEW q \in ReaderRecords, ReaderOK(A, H, q), q.pc # "idle",
           NEW e, ChangedRecord(B, K, q, HitIn(A, q.kind, o), o, e)
    PROVE  e \in ReaderRecords /\ ReaderOK(B, K, e)
<1> DEFINE h == HitIn(A, q.kind, o)
<1>h. ChangedRecord(B, K, q, h, o, e)
  OBVIOUS
<1> HIDE DEF h
<1>f. /\ e \in ReaderRecords
      /\ e.pc = q.pc /\ e.kind = q.kind /\ e.root = q.root /\ e.dirs = q.dirs
      /\ e.frontier = q.frontier /\ e.got = q.got /\ e.twice = q.twice
      /\ e.calm = q.calm \ h /\ e.seen = q.seen \cup ScopeIn(B, K, q.kind, q.root)
      /\ e.touched /\ (e.shaken <=> q.shaken \/ o \in Dirs)
  BY <1>h, ChangedFields
<1>t. /\ q.root \in Dirs /\ q.dirs \in SUBSET Dirs /\ q.frontier \in SUBSET Dirs /\ q.calm \subseteq Objs
      /\ {q.root} \in SUBSET Dirs /\ q.kind \in Kinds
  BY DEF ReaderRecords, ReaderOK, StageOK
<1>o. o \in Dirs \/ o \in LeafFiles
  BY ListingSets DEF ApartFrom
\* What is calm still.
<1>k. ASSUME q.kind \in {"search", "props", "walk"}, NEW z \in e.calm, NEW F \in SUBSET Dirs
      PROVE  /\ z \in q.calm /\ z # o /\ Holder(B, z) = Holder(A, z)
             /\ Holder(A, z) \in Below(A, F) => Holder(B, z) \in Below(B, F)
  BY <1>f, <1>t, <1>k, HolderKept DEF h
\* A tree that stands still but for a file.
<1>s. ASSUME ~e.shaken
      PROVE  /\ ~q.shaken /\ o \in LeafFiles /\ \A F \in SUBSET Dirs : Below(B, F) = Below(A, F)
             /\ \A d \in Dirs : Above(B, d) = Above(A, d)
             /\ \A z \in Dirs : ParentOf(B, z) = ParentOf(A, z) /\ (Present(B, z) <=> Present(A, z))
  BY <1>f, <1>o, <1>s, ApartFile
<1>1. StageOK(e)
  BY <1>f DEF ReaderOK, StageOK
<1>2. HistoryOK(B, K, e)
  <2>1. ScopeIn(B, K, e.kind, e.root) \subseteq e.seen
    BY <1>f
  <2>2. e.calm \subseteq ScopeIn(B, K, e.kind, e.root)
    <3> SUFFICES ASSUME NEW z \in e.calm PROVE z \in ScopeIn(B, K, q.kind, q.root)
      BY <1>f
    <3>1. z \in q.calm /\ z \notin HitIn(A, q.kind, o)
      BY <1>f DEF h
    <3>2. z \in ScopeIn(A, H, q.kind, q.root)
      BY <3>1 DEF ReaderOK, HistoryOK
    <3> QED BY <1>t, <3>1, <3>2, ScopeKept
  <2>3. e.shaken => e.touched
    BY <1>f
  <2>4. ~e.shaken => e.twice = {}
    BY <1>f DEF ReaderOK, HistoryOK
  <2>5. ASSUME e.kind = "trace", e.shaken PROVE e.calm = {}
    <3>1. CASE q.shaken
      BY <1>f, <2>5, <3>1 DEF ReaderOK, HistoryOK
    <3>2. CASE o \in Dirs
      <4>1. q.calm \subseteq Above(A, q.root)
        BY <1>f, <2>5 DEF ReaderOK, HistoryOK, ScopeIn
      <4>2. h = Dirs
        BY <1>f, <2>5, <3>2 DEF h, HitIn
      <4> QED BY <1>f, <4>1, <4>2 DEF Above
    <3> QED BY <1>f, <2>5, <3>1, <3>2
  <2>6. ASSUME e.kind # "list", ~e.shaken \/ e.calm # {} PROVE Present(B, e.root)
    <3>1. CASE ~e.shaken
      BY <1>f, <1>s, <1>t, <2>6, <3>1 DEF ReaderOK, HistoryOK
    <3>2. CASE e.calm # {} /\ o = q.root
      <4>1. o \in Dirs
        BY <1>t, <3>2
      <4>2. e.kind \in {"search", "props", "walk"}
        BY <1>f, <1>t, <2>5, <2>6, <3>2, <4>1 DEF Kinds
      <4>3. h = Below(A, {o}) \cup ChildLeaves(A, Below(A, {o}))
        BY <1>f, <4>1, <4>2 DEF h, HitIn
      <4>4. q.calm \subseteq h
        BY <1>f, <3>2, <4>2, <4>3 DEF ReaderOK, HistoryOK, ScopeIn
      <4> QED BY <1>f, <3>2, <4>4
    <3>3. CASE e.calm # {} /\ o # q.root
      <4>1. q.calm # {}
        BY <1>f, <3>3
      <4>2. Present(A, q.root)
        BY <1>f, <2>6, <4>1 DEF ReaderOK, HistoryOK
      <4> QED BY <1>f, <1>t, <3>3, <4>2, ApartFolders
    <3> QED BY <2>6, <3>1, <3>2, <3>3
  <2> QED BY <2>1, <2>2, <2>3, <2>4, <2>5, <2>6 DEF HistoryOK
<1>3. ListOK(e)
  BY <1>f DEF ReaderOK, ListOK
<1>4. LevelOK(B, e)
  <2> SUFFICES ASSUME q.pc = "level" PROVE LevelOK(B, e)
    BY <1>f DEF LevelOK
  <2>1. q.kind \in {"search", "props", "walk"} /\ LevelOK(A, q)
    BY DEF ReaderOK, StageOK
  <2>2. e.frontier \subseteq e.dirs
    BY <1>f, <2>1 DEF LevelOK
  <2>3. ASSUME NEW z \in e.calm PROVE Holder(B, z) \in e.dirs \cup Below(B, e.frontier)
    BY <1>f, <1>k, <1>t, <2>1, <2>3 DEF LevelOK
  <2>4. ASSUME ~e.shaken
        PROVE  /\ e.root \in e.dirs /\ e.dirs \subseteq Below(B, {e.root})
               /\ Below(B, {e.root}) \subseteq e.dirs \cup Below(B, e.frontier)
               /\ \A z \in e.dirs : z = e.root \/ ParentOf(B, z) \in e.dirs \ e.frontier
    BY <1>f, <1>s, <1>t, <2>1, <2>4 DEF LevelOK
  <2> QED BY <2>2, <2>3, <2>4 DEF LevelOK
<1>5. QueryOK(B, e)
  <2> SUFFICES ASSUME q.pc = "query" PROVE QueryOK(B, e)
    BY <1>f DEF QueryOK
  <2>1. q.kind \in {"search", "props", "walk"} /\ QueryOK(A, q)
    BY DEF ReaderOK, StageOK
  <2>3. ASSUME NEW z \in e.calm PROVE Holder(B, z) \in e.dirs
    BY <1>f, <1>k, <1>t, <2>1, <2>3 DEF QueryOK
  <2>4. ~e.shaken => e.dirs = Below(B, {e.root})
    BY <1>f, <1>s, <1>t, <2>1 DEF QueryOK
  <2> QED BY <2>3, <2>4 DEF QueryOK
<1>6. StoreOK(B, K, e)
  BY <1>f DEF ReaderOK, StoreOK
<1>7. WalkOK(B, e)
  <2> SUFFICES ASSUME q.pc \in {"walk", "walkfiles"} PROVE WalkOK(B, e)
    BY <1>f DEF WalkOK
  <2>1. q.kind \in {"search", "props", "walk"} /\ WalkOK(A, q)
    BY DEF ReaderOK, StageOK
  <2>2. e.pc = "walkfiles" => e.got # {}
    BY <1>f, <2>1 DEF WalkOK
  <2>3. ASSUME e.dirs # {} \/ e.got # {}, NEW z \in e.calm
        PROVE  \/ z \in e.got \/ Holder(B, z) \in Below(B, e.dirs)
               \/ z \in LeafFiles /\ e.pc = "walkfiles" /\ B[z] \in e.frontier
    <3>1. \/ z \in q.got \/ Holder(A, z) \in Below(A, q.dirs)
          \/ z \in LeafFiles /\ q.pc = "walkfiles" /\ A[z] \in q.frontier
      BY <1>f, <1>k, <1>t, <2>1, <2>3 DEF WalkOK
    <3>2. z # o /\ (Holder(A, z) \in Below(A, q.dirs) => Holder(B, z) \in Below(B, q.dirs))
      BY <1>k, <1>t, <2>1, <2>3
    <3>3. z \in LeafFiles => B[z] = A[z]
      BY <3>2, ApartFolders
    <3> QED BY <1>f, <3>1, <3>2, <3>3
  <2>4. ASSUME ~e.shaken
        PROVE  /\ e.dirs \cup e.frontier \subseteq Below(B, {e.root})
               /\ e.got \subseteq e.seen /\ e.dirs \cap e.got = {}
               /\ \A z \in Dirs \cap (e.dirs \cup e.got) : z = e.root \/ ParentOf(B, z) \in e.got
    BY <1>f, <1>s, <1>t, <2>1, <2>4 DEF WalkOK
  <2> QED BY <2>2, <2>3, <2>4 DEF WalkOK
<1>8. TraceOK(B, e)
  <2> SUFFICES ASSUME q.pc = "up", ~e.shaken
               PROVE  /\ e.root \in Below(B, {Cur(e)}) /\ e.got \subseteq Above(B, e.root)
                      /\ e.calm \subseteq e.got \cup Above(B, Cur(e))
    BY <1>f DEF TraceOK
  <2>1. Cur(e) = Cur(q) /\ Cur(q) \in Dirs
    BY <1>f, <1>t DEF Cur
  <2>2. TraceOK(A, q)
    BY DEF ReaderOK
  <2>3. {Cur(q)} \in SUBSET Dirs
    BY <2>1
  <2> QED BY <1>f, <1>s, <1>t, <2>1, <2>2, <2>3 DEF TraceOK
<1>9. DoneOK(e)
  BY <1>f DEF ReaderOK, DoneOK
<1> QED BY <1>f, <1>1, <1>2, <1>3, <1>4, <1>5, <1>6, <1>7, <1>8, <1>9 DEF ReaderOK

\* A change made by another request keeps everything.
LEMMA ChangeStep ==
    ASSUME ListingsHeld, NEW o, ApartFrom(at, at', o), hidden' \in SUBSET LeafFiles,
           \A x : x # o => (x \in hidden' <=> x \in hidden), Changed(o), Rooted(at')
    PROVE  ListingsHeld'
<1>0. hidden \in SUBSET LeafFiles /\ at' \in Places
  BY DEF ListingsHeld, ListingTypes, ApartFrom
<1>1. ASSUME NEW r \in Readers
      PROVE  reader'[r] \in ReaderRecords /\ ReaderOK(at', hidden', reader'[r])
  <2>0. PICK q : q = reader[r]
    OBVIOUS
  <2>1. q \in ReaderRecords /\ ReaderOK(at, hidden, q)
    BY <2>0 DEF ListingsHeld, ListingTypes
  <2>2. CASE q.pc = "idle"
    <3>1. reader'[r] = q /\ q = NoReader
      BY <2>0, <2>1, <2>2 DEF Changed, ReaderOK, StageOK
    <3>2. ReaderOK(at', hidden', q)
      BY <2>2, <3>1 DEF ReaderOK, StageOK, HistoryOK, ListOK, LevelOK, QueryOK, StoreOK, WalkOK,
         TraceOK, DoneOK
    <3> QED BY <2>1, <3>1, <3>2
  <2>3. CASE q.pc # "idle"
    <3>1. ChangedRecord(at', hidden', q, HitIn(at, q.kind, o), o, reader'[r])
      BY <2>0, <2>3 DEF Changed, ChangedRecord, HitIn
    <3>2. PICK e : e = reader'[r]
      OBVIOUS
    <3>3. e \in ReaderRecords /\ ReaderOK(at', hidden', e)
      BY <1>0, <2>1, <2>3, <3>1, <3>2, ReaderChanged
    <3> QED BY <3>2, <3>3
  <2> QED BY <2>2, <2>3
<1>2. reader' \in [Readers -> ReaderRecords]
  <2>1. reader' = [r \in Readers |-> reader'[r]]
    BY DEF Changed
  <2> QED BY <1>1, <2>1
<1>3. ListingTypes'
  BY <1>0, <1>2 DEF ListingsHeld, ListingTypes, Changed
<1>4. PropsFresh'
  BY DEF PropsFresh, Changed
<1> QED BY <1>1, <1>3, <1>4 DEF ListingsHeld

\* A file that changes its place.
LEMMA FileRooted ==
    ASSUME NEW A, NEW B, NEW o \in LeafFiles, ApartFrom(A, B, o), Rooted(A)
    PROVE  Rooted(B)
<1>1. {Top} \in SUBSET Dirs
  BY ListingSets
<1> QED BY <1>1, ApartFile DEF Rooted

\* A new place for one object.
LEMMA PlaceChanged ==
    ASSUME at \in Places, NEW o \in Objs \ {Top}, NEW d \in Dirs \cup {Outside},
           at' = [at EXCEPT ![o] = d]
    PROVE  ApartFrom(at, at', o) /\ at'[o] = d
<1> QED BY DEF ApartFrom, Places

\* An object is moved.
LEMMA MovedStep ==
    ASSUME ListingsHeld, NEW o \in Objs, NEW d \in Dirs, Moved(o, d) PROVE ListingsHeld'
<1>1. /\ o \in Objs \ {Top} /\ at[o] # Outside /\ d \in Below(at, {Top}) /\ d \notin Below(at, {o})
      /\ at' = [at EXCEPT ![o] = d] /\ hidden' = hidden /\ Changed(o)
  BY DEF Moved, IsPathExist
<1>2. at \in Places /\ Rooted(at) /\ hidden \in SUBSET LeafFiles
  BY DEF ListingsHeld, ListingTypes
<1>3. ApartFrom(at, at', o) /\ at'[o] = d
  BY <1>1, <1>2, PlaceChanged
<1>4. Rooted(at')
  <2>1. CASE o \in LeafFiles
    BY <1>2, <1>3, <2>1, FileRooted
  <2>2. CASE o \in Dirs
    <3>1. ParentOf(at', o) = d /\ o # Top /\ Present(at, o)
      BY <1>1, <1>3 DEF ParentOf, Present
    <3> QED BY <1>1, <1>2, <1>3, <2>2, <3>1, ApartFolders, MoveRooted
  <2> QED BY <1>1, <2>1, <2>2, ListingSets
<1> QED BY <1>1, <1>2, <1>3, <1>4, ChangeStep

\* An empty folder or a file is deleted.
LEMMA DeletedStep == ASSUME ListingsHeld, NEW o \in Objs, Deleted(o) PROVE ListingsHeld'
<1>1. /\ o \in Objs \ {Top} /\ ChildDirs(at, {o}) = {}
      /\ at' = [at EXCEPT ![o] = Outside] /\ hidden' = hidden \ {o} /\ Changed(o)
  BY DEF Deleted
<1>2. at \in Places /\ Rooted(at) /\ hidden \in SUBSET LeafFiles
  BY DEF ListingsHeld, ListingTypes
<1>3. ApartFrom(at, at', o) /\ at'[o] = Outside
  BY <1>1, <1>2, PlaceChanged
<1>4. Rooted(at')
  <2>1. CASE o \in LeafFiles
    BY <1>2, <1>3, <2>1, FileRooted
  <2>2. CASE o \in Dirs
    <3>1. ~Present(at', o) /\ o # Top
      BY <1>1, <1>3 DEF Present
    <3> QED BY <1>1, <1>2, <1>3, <2>2, <3>1, ApartFolders, DeleteRooted
  <2> QED BY <1>1, <2>1, <2>2, ListingSets
<1>5. hidden' \in SUBSET LeafFiles /\ \A x : x # o => (x \in hidden' <=> x \in hidden)
  BY <1>1, <1>2
<1> QED BY <1>1, <1>3, <1>4, <1>5, ChangeStep

\* A placeholder is inserted.
LEMMA InsertedStep ==
    ASSUME ListingsHeld, NEW o \in Objs, NEW d \in Dirs, Inserted(o, d) PROVE ListingsHeld'
<1>1. /\ o \in LeafFiles /\ o \in Objs \ {Top}
      /\ at' = [at EXCEPT ![o] = d] /\ hidden' = hidden \cup {o} /\ Changed(o)
  BY ListingSets DEF Inserted
<1>2. at \in Places /\ Rooted(at) /\ hidden \in SUBSET LeafFiles
  BY DEF ListingsHeld, ListingTypes
<1>3. ApartFrom(at, at', o)
  BY <1>1, <1>2, PlaceChanged
<1>4. Rooted(at')
  BY <1>1, <1>2, <1>3, FileRooted
<1>5. hidden' \in SUBSET LeafFiles /\ \A x : x # o => (x \in hidden' <=> x \in hidden)
  BY <1>1, <1>2
<1> QED BY <1>1, <1>3, <1>4, <1>5, ChangeStep

\* The upload of a placeholder ends.
LEMMA PromotedStep == ASSUME ListingsHeld, NEW o \in Objs, Promoted(o) PROVE ListingsHeld'
<1>1. o \in hidden /\ at' = at /\ hidden' = hidden \ {o} /\ Changed(o)
  BY DEF Promoted
<1>2. at \in Places /\ Rooted(at) /\ hidden \in SUBSET LeafFiles
  BY DEF ListingsHeld, ListingTypes
<1>3. ApartFrom(at, at', o)
  BY <1>1, <1>2, ListingSets DEF ApartFrom
<1>5. hidden' \in SUBSET LeafFiles /\ \A x : x # o => (x \in hidden' <=> x \in hidden)
  BY <1>1, <1>2
<1> QED BY <1>1, <1>2, <1>3, <1>5, ChangeStep

\* A step of one request, its answer to the cache apart.
LEMMA ReadStep ==
    ASSUME ListingsHeld, NEW r \in Readers, NEW q \in ReaderRecords, ReaderOK(at, hidden, q),
           Reads(r, q), UNCHANGED <<props, stale>>
    PROVE  ListingsHeld'
<1>1. at' = at /\ hidden' = hidden /\ reader' = [reader EXCEPT ![r] = q]
  BY DEF Reads
<1>2. /\ reader' \in [Readers -> ReaderRecords]
      /\ \A x \in Readers : reader'[x] = IF x = r THEN q ELSE reader[x]
  BY <1>1 DEF ListingsHeld, ListingTypes
<1>3. ListingTypes'
  BY <1>1, <1>2 DEF ListingsHeld, ListingTypes
<1>4. PropsFresh' /\ Rooted(at')
  BY <1>1 DEF ListingsHeld, PropsFresh
<1>5. \A x \in Readers : ReaderOK(at', hidden', reader'[x])
  BY <1>1, <1>2 DEF ListingsHeld
<1> QED BY <1>3, <1>4, <1>5 DEF ListingsHeld

\* What no query of a request changes.
SameReader(e, q) ==
    /\ e.kind = q.kind /\ e.root = q.root /\ e.calm = q.calm /\ e.seen = q.seen
    /\ (e.shaken <=> q.shaken) /\ (e.touched <=> q.touched)

\* What a query of a request leaves of the history.
LEMMA ReadHistory ==
    ASSUME NEW A, NEW H, NEW q, NEW e, HistoryOK(A, H, q), q.pc # "idle",
           SameReader(e, q), ~q.shaken => e.twice = {}
    PROVE  HistoryOK(A, H, e)
<1> QED BY DEF HistoryOK, SameReader

\* The records of requests that have not begun or have ended.
LEMMA NoReaderOK == NoReader \in ReaderRecords /\ \A A, H : ReaderOK(A, H, NoReader)
<1>1. NoReader \in ReaderRecords
  BY ListingSets DEF NoReader, ReaderRecords
<1>2. NoReader.pc = "idle"
  BY DEF NoReader
<1> QED BY <1>1, <1>2 DEF ReaderOK, StageOK, HistoryOK, ListOK, LevelOK, QueryOK, StoreOK, WalkOK,
         TraceOK, DoneOK

\* A folder whose path exists has a row.
LEMMA PathPresent ==
    ASSUME NEW A, NEW d \in Below(A, {Top})
    PROVE  Present(A, d)
<1>1. {Top} \in SUBSET Dirs /\ Outside \notin Dirs
  BY ListingSets
<1>2. Below(A, {Top}) \subseteq Dirs
  BY <1>1, SubtreeLeast
<1>3. d = Top \/ ParentOf(A, d) \in Below(A, {Top})
  BY <1>1, SubtreeMember
<1> QED BY <1>1, <1>2, <1>3 DEF Present, ParentOf

\* The beginning of a request.
LEMMA OpensStep ==
    ASSUME ListingsHeld, NEW r \in Readers, NEW k, NEW p, NEW d \in Dirs,
           <<k, p>> \in {<<"list", "dirs">>, <<"search", "roots">>, <<"props", "roots">>,
                         <<"walk", "walk">>, <<"trace", "up">>},
           Opens(r, k, p, d)
    PROVE  ListingsHeld'
<1>1. PICK S : S = ScopeIn(at, hidden, k, d)
  OBVIOUS
<1>2. PICK e : e = [NoReader EXCEPT !.pc = p, !.kind = k, !.root = d, !.calm = S, !.seen = S]
  OBVIOUS
<1>3. Reads(r, e) /\ UNCHANGED <<props, stale>> /\ d \in Below(at, {Top})
  BY <1>1, <1>2 DEF Opens, IsPathExist
<1>4. S \in SUBSET Objs
  BY <1>1, ScopeType
<1>5. /\ k \in Kinds /\ p \in {"dirs", "roots", "walk", "up"}
      /\ p = "dirs" => k = "list"
      /\ p = "roots" => k \in {"search", "props"}
      /\ p = "walk" => k = "walk"
      /\ p = "up" => k = "trace"
  BY DEF Kinds
<1>6. e \in ReaderRecords
  BY <1>2, <1>4, <1>5, NoReaderOK DEF ReaderRecords
<1>7. /\ e.pc = p /\ e.kind = k /\ e.root = d /\ e.calm = S /\ e.seen = S
      /\ e.dirs = {} /\ e.frontier = {} /\ e.got = {} /\ e.twice = {}
  BY <1>2 DEF NoReader
<1>8. ~e.shaken
  BY <1>2 DEF NoReader
<1>9. Present(at, d) /\ d \in Below(at, {d})
  BY <1>3, PathPresent, SubtreeLeast
<1>10. StageOK(e)
  BY <1>5, <1>7 DEF StageOK
<1>11. HistoryOK(at, hidden, e)
  BY <1>1, <1>7, <1>8, <1>9 DEF HistoryOK
<1>12. WalkOK(at, e)
  BY <1>5, <1>7, <1>8 DEF WalkOK
<1>13. TraceOK(at, e)
  BY <1>1, <1>5, <1>7, <1>8, <1>9 DEF TraceOK, Cur, ScopeIn
<1>14. ReaderOK(at, hidden, e)
  BY <1>5, <1>7, <1>10, <1>11, <1>12, <1>13
     DEF ReaderOK, ListOK, LevelOK, QueryOK, StoreOK, DoneOK
<1> QED BY <1>3, <1>6, <1>14, ReadStep

\* What is known of the request that takes a step.
LEMMA ReaderKnown ==
    ASSUME ListingsHeld, NEW r \in Readers
    PROVE  /\ reader[r] \in ReaderRecords /\ ReaderOK(at, hidden, reader[r])
           /\ reader[r].root \in Dirs /\ reader[r].dirs \in SUBSET Dirs
           /\ reader[r].frontier \in SUBSET Dirs /\ reader[r].got \in SUBSET Objs
           /\ reader[r].twice \in SUBSET Dirs
<1> QED BY DEF ListingsHeld, ListingTypes, ReaderRecords

\* The first query of a listing, for the folders.
LEMMA GetChildFolderStep ==
    ASSUME ListingsHeld, NEW r \in Readers, GetChildFolder(r) PROVE ListingsHeld'
<1>0. PICK q : q = reader[r]
  OBVIOUS
<1>1. /\ q \in ReaderRecords /\ ReaderOK(at, hidden, q) /\ q.root \in Dirs /\ q.dirs \in SUBSET Dirs
      /\ q.frontier \in SUBSET Dirs /\ q.got \in SUBSET Objs /\ q.twice \in SUBSET Dirs
  BY <1>0, ReaderKnown
<1>2. PICK e : e = [q EXCEPT !.pc = "files", !.got = ChildDirs(at, {q.root})]
  OBVIOUS
<1>3. q.pc = "dirs" /\ Reads(r, e) /\ UNCHANGED <<props, stale>>
  BY <1>0, <1>2 DEF GetChildFolder
<1>4. PICK g \in SUBSET Objs : g = ChildDirs(at, {q.root})
  BY ListingSets DEF ChildDirs
<1>5. e \in ReaderRecords /\ e.pc = "files" /\ e.got = g /\ SameReader(e, q) /\ e.twice = q.twice
  <2>1. e \in ReaderRecords
    BY <1>1, <1>2, <1>4 DEF ReaderRecords
  <2>2. e.pc = "files" /\ e.got = g /\ e.twice = q.twice
    BY <1>1, <1>2, <1>4 DEF ReaderRecords
  <2>3. SameReader(e, q)
    BY <1>1, <1>2 DEF ReaderRecords, SameReader
  <2> QED BY <2>1, <2>2, <2>3
<1>7. HistoryOK(at, hidden, q) /\ q.kind = "list"
  BY <1>1, <1>3 DEF ReaderOK, StageOK
<1>8. HistoryOK(at, hidden, e)
  BY <1>3, <1>5, <1>7, ReadHistory DEF HistoryOK
<1>9. ListOK(e)
  <2>1. /\ ScopeIn(at, hidden, "list", q.root) \subseteq q.seen
        /\ q.calm \subseteq ScopeIn(at, hidden, "list", q.root)
    BY <1>3, <1>7 DEF HistoryOK
  <2>2. ScopeIn(at, hidden, "list", q.root) = g \cup (ChildLeaves(at, {q.root}) \ hidden)
    BY <1>4 DEF ScopeIn
  <2>3. \A x \in ChildLeaves(at, {q.root}) : x \notin Dirs
    BY ListingSets DEF ChildLeaves
  <2> QED BY <1>5, <2>1, <2>2, <2>3 DEF ListOK, SameReader
<1>10. ReaderOK(at, hidden, e)
  BY <1>5, <1>7, <1>8, <1>9
     DEF ReaderOK, SameReader, StageOK, LevelOK, QueryOK, StoreOK, WalkOK, TraceOK, DoneOK, Kinds
<1> QED BY <1>3, <1>5, <1>10, ReadStep

\* The second query of a listing, for the files.
LEMMA GetChildFilesStep ==
    ASSUME ListingsHeld, NEW r \in Readers, GetChildFiles(r) PROVE ListingsHeld'
<1>0. PICK q : q = reader[r]
  OBVIOUS
<1>1. /\ q \in ReaderRecords /\ ReaderOK(at, hidden, q) /\ q.root \in Dirs /\ q.dirs \in SUBSET Dirs
      /\ q.frontier \in SUBSET Dirs /\ q.got \in SUBSET Objs /\ q.twice \in SUBSET Dirs
  BY <1>0, ReaderKnown
<1>2. PICK g \in SUBSET Objs : g = q.got \cup listObjects(ChildLeaves(at, {q.root}))
  BY <1>1, ListingSets DEF ChildLeaves, listObjects
<1>3. PICK e : e = [q EXCEPT !.pc = "done", !.got = g]
  OBVIOUS
<1>4. q.pc = "files" /\ Reads(r, e) /\ UNCHANGED <<props, stale>>
  BY <1>0, <1>1, <1>2, <1>3 DEF GetChildFiles, ReaderRecords
<1>5. e \in ReaderRecords /\ e.pc = "done" /\ e.got = g /\ SameReader(e, q) /\ e.twice = q.twice
  <2>1. e \in ReaderRecords
    BY <1>1, <1>2, <1>3 DEF ReaderRecords
  <2>2. e.pc = "done" /\ e.got = g /\ e.twice = q.twice
    BY <1>1, <1>3 DEF ReaderRecords
  <2>3. SameReader(e, q)
    BY <1>1, <1>3 DEF ReaderRecords, SameReader
  <2> QED BY <2>1, <2>2, <2>3
<1>7. HistoryOK(at, hidden, q) /\ q.kind = "list" /\ ListOK(q)
  BY <1>1, <1>4 DEF ReaderOK, StageOK
<1>8. HistoryOK(at, hidden, e)
  <2>1. ~q.shaken => q.twice = {}
    BY <1>4, <1>7 DEF HistoryOK
  <2> QED BY <1>4, <1>5, <1>7, <2>1, ReadHistory
<1>9. DoneOK(e)
  <2>1. /\ ScopeIn(at, hidden, "list", q.root) \subseteq q.seen
        /\ q.calm \subseteq ScopeIn(at, hidden, "list", q.root)
    BY <1>4, <1>7 DEF HistoryOK
  <2>2. ScopeIn(at, hidden, "list", q.root)
          = ChildDirs(at, {q.root}) \cup listObjects(ChildLeaves(at, {q.root}))
    BY DEF ScopeIn, listObjects
  <2>3. \A x \in ChildDirs(at, {q.root}) : x \in Dirs
    BY DEF ChildDirs
  <2>4. q.calm \cap Dirs \subseteq q.got /\ q.got \subseteq q.seen
    BY <1>4, <1>7 DEF ListOK
  <2> QED BY <1>2, <1>5, <2>1, <2>2, <2>3, <2>4 DEF DoneOK, SameReader
<1>10. ReaderOK(at, hidden, e)
  BY <1>5, <1>7, <1>8, <1>9
     DEF ReaderOK, SameReader, StageOK, ListOK, LevelOK, QueryOK, StoreOK, WalkOK, TraceOK, Kinds
<1> QED BY <1>4, <1>5, <1>10, ReadStep

\* Where the objects in the scope of a search or a count are.
LEMMA ScopeHolder ==
    ASSUME NEW A, NEW H, NEW k \in {"search", "props", "walk"}, NEW d \in Dirs,
           NEW z \in ScopeIn(A, H, k, d)
    PROVE  Holder(A, z) \in Below(A, {d})
<1>1. Below(A, {d}) \subseteq Dirs
  BY SubtreeLeast
<1> QED BY <1>1, ListingSets DEF ScopeIn, Holder, ChildLeaves

\* The row of the folder that is searched or counted.
LEMMA GetRecursiveChildFolderStep ==
    ASSUME ListingsHeld, NEW r \in Readers, GetRecursiveChildFolder(r) PROVE ListingsHeld'
<1>0. PICK q : q = reader[r]
  OBVIOUS
<1>1. /\ q \in ReaderRecords /\ ReaderOK(at, hidden, q) /\ q.root \in Dirs /\ q.dirs \in SUBSET Dirs
      /\ q.frontier \in SUBSET Dirs /\ q.got \in SUBSET Objs /\ q.twice \in SUBSET Dirs
  BY <1>0, ReaderKnown
<1>2. PICK R \in SUBSET Dirs : R = {x \in {q.root} : x = Top \/ at[x] # Outside}
  BY <1>1
<1>3. PICK e : e = [q EXCEPT !.pc = "level", !.dirs = R, !.frontier = R]
  OBVIOUS
<1>4. q.pc = "roots" /\ Reads(r, e) /\ UNCHANGED <<props, stale>>
  BY <1>0, <1>2, <1>3 DEF GetRecursiveChildFolder
<1>5. e \in ReaderRecords /\ e.pc = "level" /\ e.dirs = R /\ e.frontier = R /\ SameReader(e, q)
      /\ e.twice = q.twice
  <2>1. e \in ReaderRecords
    BY <1>1, <1>2, <1>3 DEF ReaderRecords
  <2>2. e.pc = "level" /\ e.dirs = R /\ e.frontier = R /\ e.twice = q.twice
    BY <1>1, <1>3 DEF ReaderRecords
  <2>3. SameReader(e, q)
    BY <1>1, <1>3 DEF ReaderRecords, SameReader
  <2> QED BY <2>1, <2>2, <2>3
<1>7. HistoryOK(at, hidden, q) /\ q.kind \in {"search", "props"}
  BY <1>1, <1>4 DEF ReaderOK, StageOK
<1>8. HistoryOK(at, hidden, e)
  <2>1. ~q.shaken => q.twice = {}
    BY <1>4, <1>7 DEF HistoryOK
  <2> QED BY <1>4, <1>5, <1>7, <2>1, ReadHistory
<1>9. LevelOK(at, e)
  <2>1. ~q.shaken \/ q.calm # {} => R = {q.root}
    BY <1>2, <1>4, <1>7 DEF HistoryOK, Present
  <2>2. q.root \in Below(at, {q.root})
    BY <1>1, SubtreeLeast
  <2>3. ASSUME NEW z \in q.calm PROVE Holder(at, z) \in Below(at, R)
    <3>1. z \in ScopeIn(at, hidden, q.kind, q.root)
      BY <1>4, <1>7, <2>3 DEF HistoryOK
    <3>2. Holder(at, z) \in Below(at, {q.root})
      BY <1>1, <1>7, <3>1, ScopeHolder
    <3> QED BY <2>1, <2>3, <3>2
  <2> QED BY <1>5, <2>1, <2>2, <2>3 DEF LevelOK, SameReader
<1>10. ReaderOK(at, hidden, e)
  BY <1>5, <1>7, <1>8, <1>9
     DEF ReaderOK, SameReader, StageOK, ListOK, QueryOK, StoreOK, WalkOK, TraceOK, DoneOK, Kinds
<1> QED BY <1>4, <1>5, <1>10, ReadStep

\* Records with other folders.
LEMMA FieldsSet ==
    ASSUME NEW f \in ReaderRecords, NEW D \in SUBSET Dirs, NEW g \in SUBSET Objs
    PROVE  [f EXCEPT !.dirs = D, !.got = g] \in ReaderRecords
BY DEF ReaderRecords

\* Records with other folders found twice.
LEMMA TwiceSet ==
    ASSUME NEW f \in ReaderRecords, NEW T \in SUBSET Dirs
    PROVE  [f EXCEPT !.twice = T] \in ReaderRecords
BY DEF ReaderRecords

\* The folders of the next level, or the end of the descent.
LEMMA ChildLevelStep ==
    ASSUME ListingsHeld, NEW r \in Readers, ChildLevel(r) PROVE ListingsHeld'
<1>0. PICK q : q = reader[r]
  OBVIOUS
<1>1. /\ q \in ReaderRecords /\ ReaderOK(at, hidden, q) /\ q.root \in Dirs /\ q.dirs \in SUBSET Dirs
      /\ q.frontier \in SUBSET Dirs /\ q.got \in SUBSET Objs /\ q.twice \in SUBSET Dirs
  BY <1>0, ReaderKnown
<1>2. PICK N \in SUBSET Dirs : N = ChildDirs(at, q.frontier)
  BY DEF ChildDirs
<1>3. PICK e : e = IF N = {} THEN [q EXCEPT !.pc = "query"]
                   ELSE [q EXCEPT !.frontier = N, !.dirs = @ \cup N, !.twice = @ \cup (N \cap q.dirs)]
  OBVIOUS
<1>4. q.pc = "level" /\ Reads(r, e) /\ UNCHANGED <<props, stale>>
  BY <1>0, <1>2, <1>3 DEF ChildLevel, NextLevel
<1>7. HistoryOK(at, hidden, q) /\ q.kind \in {"search", "props"} /\ LevelOK(at, q)
  BY <1>1, <1>4 DEF ReaderOK, StageOK
<1>8. Below(at, q.frontier) \subseteq q.frontier \cup Below(at, N)
  BY <1>1, <1>2, SubtreeUnfold
<1>9. CASE N = {}
  <2>0. e = [q EXCEPT !.pc = "query"]
    BY <1>3, <1>9
  <2>1. e \in ReaderRecords
    BY <1>1, <2>0 DEF ReaderRecords
  <2>2. e.pc = "query" /\ e.dirs = q.dirs /\ e.twice = q.twice
    BY <1>1, <2>0 DEF ReaderRecords
  <2>3. SameReader(e, q)
    BY <1>1, <2>0 DEF ReaderRecords, SameReader
  <2>4. HistoryOK(at, hidden, e)
    <3>1. ~q.shaken => q.twice = {}
      BY <1>4, <1>7 DEF HistoryOK
    <3> QED BY <1>4, <1>7, <2>2, <2>3, <3>1, ReadHistory
  <2>5. Below(at, q.frontier) \subseteq q.dirs
    BY <1>4, <1>7, <1>8, <1>9, SubtreeEmpty DEF LevelOK
  <2>6. QueryOK(at, e)
    BY <1>4, <1>7, <2>2, <2>3, <2>5 DEF QueryOK, LevelOK, SameReader
  <2>7. ReaderOK(at, hidden, e)
    BY <1>7, <2>2, <2>3, <2>4, <2>6
       DEF ReaderOK, SameReader, StageOK, ListOK, LevelOK, StoreOK, WalkOK, TraceOK, DoneOK, Kinds
  <2> QED BY <1>4, <2>1, <2>7, ReadStep
<1>10. CASE N # {}
  <2>a. PICK D \in SUBSET Dirs : D = q.dirs \cup N
    BY <1>1, <1>2
  <2>b. PICK T \in SUBSET Dirs : T = q.twice \cup (N \cap q.dirs)
    BY <1>1, <1>2
  <2>0. e = [q EXCEPT !.frontier = N, !.dirs = D, !.twice = T]
    BY <1>1, <1>3, <1>10, <2>a, <2>b DEF ReaderRecords
  <2>1. e \in ReaderRecords
    <3>1. PICK f \in ReaderRecords : f = [q EXCEPT !.frontier = N, !.dirs = D]
      BY <1>1, <1>2, <2>a DEF ReaderRecords
    <3>2. e = [f EXCEPT !.twice = T]
      BY <1>1, <2>0, <3>1 DEF ReaderRecords
    <3> QED BY <2>b, <3>1, <3>2, TwiceSet
  <2>2. e.pc = "level" /\ e.dirs = D /\ e.frontier = N /\ e.twice = T
    BY <1>1, <1>4, <2>0 DEF ReaderRecords
  <2>3. SameReader(e, q)
    BY <1>1, <2>0 DEF ReaderRecords, SameReader
  <2>4. ASSUME ~q.shaken PROVE N \cap q.dirs = {} /\ N \subseteq Below(at, {q.root})
    <3>1. /\ q.frontier \subseteq q.dirs /\ q.dirs \subseteq Below(at, {q.root})
          /\ \A z \in q.dirs : z = q.root \/ ParentOf(at, z) \in q.dirs \ q.frontier
      BY <1>4, <1>7, <2>4 DEF LevelOK
    <3>2. ParentOf(at, q.root) \notin Below(at, {q.root})
      BY <1>1, RootedNoCycle DEF ListingsHeld
    <3>3. \A z \in N : z \in Dirs /\ ParentOf(at, z) \in q.frontier
      BY <1>2 DEF ChildDirs
    <3>4. N \subseteq Below(at, {q.root})
      <4>1. {q.root} \in SUBSET Dirs
        BY <1>1
      <4>2. ASSUME NEW z \in N PROVE z \in Below(at, {q.root})
        <5>1. z \in Dirs /\ ParentOf(at, z) \in Below(at, {q.root})
          BY <3>1, <3>3
        <5> QED BY <4>1, <5>1, SubtreeChild
      <4> QED BY <4>2
    <3> QED BY <3>1, <3>2, <3>3, <3>4
  <2>5. HistoryOK(at, hidden, e)
    <3>1. ~q.shaken => q.twice = {}
      BY <1>4, <1>7 DEF HistoryOK
    <3>2. ~q.shaken => e.twice = {}
      BY <2>2, <2>4, <2>b, <3>1
    <3> QED BY <1>4, <1>7, <2>2, <2>3, <3>2, ReadHistory
  <2>6. LevelOK(at, e)
    <3>1. N \subseteq D /\ q.dirs \subseteq D
      BY <2>a
    <3>2. \A z \in q.calm : Holder(at, z) \in D \cup Below(at, N)
      BY <1>4, <1>7, <1>8, <3>1 DEF LevelOK
    <3>3. ASSUME ~q.shaken
          PROVE  /\ q.root \in D /\ D \subseteq Below(at, {q.root})
                 /\ Below(at, {q.root}) \subseteq D \cup Below(at, N)
                 /\ \A z \in D : z = q.root \/ ParentOf(at, z) \in D \ N
      <4>1. /\ q.frontier \subseteq q.dirs /\ q.dirs \subseteq Below(at, {q.root}) /\ q.root \in q.dirs
            /\ Below(at, {q.root}) \subseteq q.dirs \cup Below(at, q.frontier)
            /\ \A z \in q.dirs : z = q.root \/ ParentOf(at, z) \in q.dirs \ q.frontier
        BY <1>4, <1>7, <3>3 DEF LevelOK
      <4>2. \A z \in N : ParentOf(at, z) \in q.frontier
        BY <1>2 DEF ChildDirs
      <4>3. Below(at, {q.root}) \subseteq D \cup Below(at, N)
        BY <1>8, <3>1, <4>1
      <4> QED BY <2>4, <2>a, <3>3, <4>1, <4>2, <4>3
    <3> QED BY <2>2, <2>3, <3>1, <3>2, <3>3 DEF LevelOK, SameReader
  <2>7. ReaderOK(at, hidden, e)
    BY <1>7, <2>2, <2>3, <2>5, <2>6
       DEF ReaderOK, SameReader, StageOK, ListOK, QueryOK, StoreOK, WalkOK, TraceOK, DoneOK, Kinds
  <2> QED BY <1>4, <2>1, <2>7, ReadStep
<1> QED BY <1>9, <1>10

\* The files of a search.
LEMMA SearchKeywordsStep ==
    ASSUME ListingsHeld, NEW r \in Readers, SearchKeywords(r) PROVE ListingsHeld'
<1>0. PICK q : q = reader[r]
  OBVIOUS
<1>1. /\ q \in ReaderRecords /\ ReaderOK(at, hidden, q) /\ q.root \in Dirs /\ q.dirs \in SUBSET Dirs
      /\ q.frontier \in SUBSET Dirs /\ q.got \in SUBSET Objs /\ q.twice \in SUBSET Dirs
  BY <1>0, ReaderKnown
<1>2. PICK g \in SUBSET Objs : g = listObjects(GetFilesByKeywords(q.dirs))
  BY ListingSets, ListingsAssumption DEF listObjects, GetFilesByKeywords
<1>3. PICK e : e = [q EXCEPT !.pc = "done", !.got = g]
  OBVIOUS
<1>4. q.pc = "query" /\ q.kind = "search" /\ Reads(r, e) /\ UNCHANGED <<props, stale>>
  BY <1>0, <1>2, <1>3 DEF SearchKeywords
<1>5. e \in ReaderRecords /\ e.pc = "done" /\ e.got = g /\ SameReader(e, q) /\ e.twice = q.twice
  <2>1. e \in ReaderRecords
    BY <1>1, <1>2, <1>3 DEF ReaderRecords
  <2>2. e.pc = "done" /\ e.got = g /\ e.twice = q.twice
    BY <1>1, <1>3 DEF ReaderRecords
  <2>3. SameReader(e, q)
    BY <1>1, <1>3 DEF ReaderRecords, SameReader
  <2> QED BY <2>1, <2>2, <2>3
<1>7. HistoryOK(at, hidden, q) /\ QueryOK(at, q)
  BY <1>1 DEF ReaderOK
<1>8. HistoryOK(at, hidden, e)
  <2>1. ~q.shaken => q.twice = {}
    BY <1>4, <1>7 DEF HistoryOK
  <2> QED BY <1>4, <1>5, <1>7, <2>1, ReadHistory
<1>9. DoneOK(e)
  <2>0. Outside \notin Dirs /\ Matching \subseteq LeafFiles
    BY ListingsAssumption
  <2>1. /\ ScopeIn(at, hidden, "search", q.root) \subseteq q.seen
        /\ q.calm \subseteq ScopeIn(at, hidden, "search", q.root)
    BY <1>4, <1>7 DEF HistoryOK
  <2>2. ScopeIn(at, hidden, "search", q.root)
          = (ChildLeaves(at, Below(at, {q.root})) \cap Matching) \ hidden
    BY DEF ScopeIn
  <2>3. ASSUME NEW z \in q.calm PROVE z \in g
    <3>1. z \in Matching /\ z \notin hidden /\ z \in LeafFiles
      BY <2>0, <2>1, <2>2, <2>3
    <3>2. at[z] \in q.dirs
      BY <1>4, <1>7, <2>3, <3>1, ListingSets DEF QueryOK, Holder
    <3> QED BY <1>1, <1>2, <2>0, <3>1, <3>2 DEF listObjects, GetFilesByKeywords
  <2>4. ASSUME ~q.shaken PROVE g \subseteq q.seen
    <3>1. q.dirs = Below(at, {q.root}) /\ q.root \in Below(at, {q.root})
      BY <1>1, <1>4, <1>7, <2>4, SubtreeLeast DEF QueryOK
    <3>2. g \subseteq ScopeIn(at, hidden, "search", q.root)
      BY <1>2, <2>0, <2>2, <3>1 DEF listObjects, GetFilesByKeywords, ChildLeaves
    <3> QED BY <2>1, <3>2
  <2> QED BY <1>4, <1>5, <2>3, <2>4 DEF DoneOK, SameReader
<1>10. ReaderOK(at, hidden, e)
  BY <1>4, <1>5, <1>8, <1>9
     DEF ReaderOK, SameReader, StageOK, ListOK, LevelOK, QueryOK, StoreOK, WalkOK, TraceOK, Kinds
<1> QED BY <1>4, <1>5, <1>10, ReadStep

\* The files of a count.
LEMMA CountFilesStep ==
    ASSUME ListingsHeld, NEW r \in Readers, CountFiles(r) PROVE ListingsHeld'
<1>0. PICK q : q = reader[r]
  OBVIOUS
<1>1. /\ q \in ReaderRecords /\ ReaderOK(at, hidden, q) /\ q.root \in Dirs /\ q.dirs \in SUBSET Dirs
      /\ q.frontier \in SUBSET Dirs /\ q.got \in SUBSET Objs /\ q.twice \in SUBSET Dirs
  BY <1>0, ReaderKnown
<1>2. PICK g \in SUBSET Objs : g = (q.dirs \ {q.root}) \cup ChildLeaves(at, q.dirs)
  BY <1>1, ListingSets DEF ChildLeaves
<1>3. PICK e : e = [q EXCEPT !.pc = "store", !.got = g]
  OBVIOUS
<1>4. q.pc = "query" /\ q.kind = "props" /\ Reads(r, e) /\ UNCHANGED <<props, stale>>
  BY <1>0, <1>2, <1>3 DEF CountFiles
<1>5. e \in ReaderRecords /\ e.pc = "store" /\ e.got = g /\ SameReader(e, q) /\ e.twice = q.twice
  <2>1. e \in ReaderRecords
    BY <1>1, <1>2, <1>3 DEF ReaderRecords
  <2>2. e.pc = "store" /\ e.got = g /\ e.twice = q.twice
    BY <1>1, <1>3 DEF ReaderRecords
  <2>3. SameReader(e, q)
    BY <1>1, <1>3 DEF ReaderRecords, SameReader
  <2> QED BY <2>1, <2>2, <2>3
<1>7. HistoryOK(at, hidden, q) /\ QueryOK(at, q)
  BY <1>1 DEF ReaderOK
<1>8. HistoryOK(at, hidden, e)
  <2>1. ~q.shaken => q.twice = {}
    BY <1>4, <1>7 DEF HistoryOK
  <2> QED BY <1>4, <1>5, <1>7, <2>1, ReadHistory
<1>9. StoreOK(at, hidden, e)
  <2>1. /\ ScopeIn(at, hidden, "props", q.root) \subseteq q.seen
        /\ q.calm \subseteq ScopeIn(at, hidden, "props", q.root)
        /\ q.shaken => q.touched
    BY <1>4, <1>7 DEF HistoryOK
  <2>2. ScopeIn(at, hidden, "props", q.root)
          = (Below(at, {q.root}) \ {q.root}) \cup ChildLeaves(at, Below(at, {q.root}))
    BY DEF ScopeIn
  <2>3. ASSUME NEW z \in q.calm PROVE z \in g
    <3>1. Holder(at, z) \in q.dirs
      BY <1>4, <1>7, <2>3 DEF QueryOK
    <3>2. z \in Below(at, {q.root}) \ {q.root} \/ z \in LeafFiles
      BY <2>1, <2>2, <2>3 DEF ChildLeaves
    <3>3. Below(at, {q.root}) \subseteq Dirs
      BY <1>1, SubtreeLeast
    <3> QED BY <1>2, <3>1, <3>2, <3>3, ListingSets DEF Holder, ChildLeaves
  <2>4. ASSUME ~q.shaken PROVE g = ScopeIn(at, hidden, "props", q.root)
    BY <1>2, <1>4, <1>7, <2>2, <2>4 DEF QueryOK
  <2> QED BY <1>5, <2>1, <2>3, <2>4 DEF StoreOK, SameReader
<1>10. ReaderOK(at, hidden, e)
  BY <1>4, <1>5, <1>8, <1>9
     DEF ReaderOK, SameReader, StageOK, ListOK, LevelOK, QueryOK, DoneOK, WalkOK, TraceOK, Kinds
<1> QED BY <1>4, <1>5, <1>10, ReadStep

\* The counted properties go to the cache.
LEMMA StorePropsStep ==
    ASSUME ListingsHeld, NEW r \in Readers, StoreProps(r) PROVE ListingsHeld'
<1>0. PICK q : q = reader[r]
  OBVIOUS
<1>1. /\ q \in ReaderRecords /\ ReaderOK(at, hidden, q) /\ q.root \in Dirs /\ q.dirs \in SUBSET Dirs
      /\ q.frontier \in SUBSET Dirs /\ q.got \in SUBSET Objs /\ q.twice \in SUBSET Dirs
  BY <1>0, ReaderKnown
<1>2. PICK e : e = [q EXCEPT !.pc = "done"]
  OBVIOUS
<1>3. /\ q.pc = "store" /\ Reads(r, e) /\ props' = [props EXCEPT ![q.root] = {q.got}]
      /\ stale' = IF q.touched THEN stale \cup {q.root} ELSE stale \ {q.root}
  BY <1>0, <1>2 DEF StoreProps, CacheProps
<1>4. /\ e \in ReaderRecords /\ e.pc = "done" /\ e.got = q.got /\ SameReader(e, q) /\ e.twice = q.twice
  <2>1. e \in ReaderRecords
    BY <1>1, <1>2 DEF ReaderRecords
  <2>2. e.pc = "done" /\ e.got = q.got /\ e.twice = q.twice
    BY <1>1, <1>2 DEF ReaderRecords
  <2>3. SameReader(e, q)
    BY <1>1, <1>2 DEF ReaderRecords, SameReader
  <2> QED BY <2>1, <2>2, <2>3
<1>5. HistoryOK(at, hidden, q) /\ StoreOK(at, hidden, q) /\ q.kind = "props"
  BY <1>1, <1>3 DEF ReaderOK, StageOK
<1>6. HistoryOK(at, hidden, e)
  <2>1. ~q.shaken => q.twice = {}
    BY <1>3, <1>5 DEF HistoryOK
  <2> QED BY <1>3, <1>4, <1>5, <2>1, ReadHistory
<1>7. DoneOK(e)
  BY <1>3, <1>4, <1>5 DEF DoneOK, StoreOK, SameReader
<1>8. ReaderOK(at, hidden, e)
  BY <1>4, <1>5, <1>6, <1>7
     DEF ReaderOK, SameReader, StageOK, ListOK, LevelOK, QueryOK, StoreOK, WalkOK, TraceOK, Kinds
<1>9. at' = at /\ hidden' = hidden /\ reader' = [reader EXCEPT ![r] = e]
  BY <1>3 DEF Reads
<1>10. /\ reader' \in [Readers -> ReaderRecords]
       /\ \A x \in Readers : reader'[x] = IF x = r THEN e ELSE reader[x]
  BY <1>4, <1>9 DEF ListingsHeld, ListingTypes
<1>11. /\ props' \in [Dirs -> {{}} \cup {{S} : S \in SUBSET Objs}]
       /\ \A d \in Dirs : props'[d] = IF d = q.root THEN {q.got} ELSE props[d]
  <2>1. props \in [Dirs -> {{}} \cup {{S} : S \in SUBSET Objs}]
    BY DEF ListingsHeld, ListingTypes
  <2>2. {q.got} \in {{}} \cup {{S} : S \in SUBSET Objs}
    BY <1>1
  <2> QED BY <1>1, <1>3, <2>1, <2>2
<1>12. ListingTypes'
  BY <1>9, <1>10, <1>11 DEF ListingsHeld, ListingTypes
<1>13. PropsFresh'
  <2>1. ASSUME NEW d \in Dirs \ stale' PROVE props'[d] \subseteq {ScopeIn(at, hidden, "props", d)}
    <3>1. CASE d = q.root
      <4>1. ~q.touched
        BY <1>3, <2>1, <3>1
      <4> QED BY <1>3, <1>5, <1>11, <3>1, <4>1 DEF StoreOK
    <3>2. CASE d # q.root
      <4>1. d \in Dirs \ stale
        BY <1>3, <2>1, <3>2
      <4> QED BY <1>11, <3>2, <4>1 DEF ListingsHeld, PropsFresh
    <3> QED BY <3>1, <3>2
  <2> QED BY <1>9, <2>1 DEF PropsFresh
<1>14. \A x \in Readers : ReaderOK(at', hidden', reader'[x])
  BY <1>8, <1>9, <1>10 DEF ListingsHeld
<1> QED BY <1>9, <1>12, <1>13, <1>14 DEF ListingsHeld

\* Cached properties expire.
LEMMA PropsExpireStep == ASSUME ListingsHeld, NEW d \in Dirs, PropsExpire(d) PROVE ListingsHeld'
<1>1. /\ props' = [props EXCEPT ![d] = {}] /\ at' = at /\ hidden' = hidden /\ reader' = reader
      /\ stale' = stale
  BY DEF PropsExpire
<1>2. props \in [Dirs -> {{}} \cup {{S} : S \in SUBSET Objs}]
  BY DEF ListingsHeld, ListingTypes
<1>3. /\ props' \in [Dirs -> {{}} \cup {{S} : S \in SUBSET Objs}]
      /\ \A x \in Dirs : props'[x] = IF x = d THEN {} ELSE props[x]
  BY <1>1, <1>2
<1>4. ListingTypes'
  BY <1>1, <1>3 DEF ListingsHeld, ListingTypes
<1>5. PropsFresh'
  BY <1>1, <1>3 DEF ListingsHeld, PropsFresh
<1>6. \A x \in Readers : ReaderOK(at', hidden', reader'[x])
  BY <1>1 DEF ListingsHeld
<1> QED BY <1>1, <1>4, <1>5, <1>6 DEF ListingsHeld

\* The walk takes up a pending folder.
LEMMA WalkFolderStep ==
    ASSUME ListingsHeld, NEW r \in Readers, NEW x, x \in reader[r].dirs, reader[r].pc = "walk",
           Reads(r, [reader[r] EXCEPT !.pc = "walkfiles", !.frontier = {x},
                        !.dirs = (@ \ {x}) \cup ChildDirs(at, {x}),
                        !.got = @ \cup {x},
                        !.twice = IF x \in reader[r].got THEN @ \cup {x} ELSE @]),
           UNCHANGED <<props, stale>>
    PROVE  ListingsHeld'
<1>0. PICK q : q = reader[r]
  OBVIOUS
<1>1. /\ q \in ReaderRecords /\ ReaderOK(at, hidden, q) /\ q.root \in Dirs /\ q.dirs \in SUBSET Dirs
      /\ q.frontier \in SUBSET Dirs /\ q.got \in SUBSET Objs /\ q.twice \in SUBSET Dirs
  BY <1>0, ReaderKnown
<1>2. x \in Dirs /\ x \in q.dirs /\ q.pc = "walk"
  BY <1>0, <1>1
<1>3. PICK D \in SUBSET Dirs : D = (q.dirs \ {x}) \cup ChildDirs(at, {x})
  BY <1>1 DEF ChildDirs
<1>4. PICK g \in SUBSET Objs : g = q.got \cup {x}
  BY <1>1, <1>2, ListingSets
<1>5. PICK T \in SUBSET Dirs : T = IF x \in q.got THEN q.twice \cup {x} ELSE q.twice
  BY <1>1, <1>2
<1>6. PICK X \in SUBSET Dirs : X = {x}
  BY <1>2
<1>7. PICK f \in ReaderRecords : f = [q EXCEPT !.pc = "walkfiles", !.frontier = X]
  BY <1>1, <1>6 DEF ReaderRecords
<1>8. PICK e \in ReaderRecords : e = [f EXCEPT !.dirs = D, !.got = g, !.twice = T]
  <2>1. PICK h : h = [f EXCEPT !.dirs = D, !.got = g]
    OBVIOUS
  <2>2. h \in ReaderRecords
    BY <1>3, <1>4, <1>7, <2>1, FieldsSet
  <2>3. PICK e : e = [h EXCEPT !.twice = T]
    OBVIOUS
  <2>4. e \in ReaderRecords
    BY <1>5, <2>2, <2>3, TwiceSet
  <2>5. e = [f EXCEPT !.dirs = D, !.got = g, !.twice = T]
    BY <1>7, <2>1, <2>3 DEF ReaderRecords
  <2> QED BY <2>4, <2>5
<1>9. Reads(r, e) /\ UNCHANGED <<props, stale>>
  <2>1. e = [q EXCEPT !.pc = "walkfiles", !.frontier = X, !.dirs = D, !.got = g, !.twice = T]
    BY <1>1, <1>7, <1>8 DEF ReaderRecords
  <2>2. e = [q EXCEPT !.pc = "walkfiles", !.frontier = {x},
                      !.dirs = (@ \ {x}) \cup ChildDirs(at, {x}),
                      !.got = @ \cup {x}, !.twice = IF x \in q.got THEN @ \cup {x} ELSE @]
    BY <1>1, <1>3, <1>4, <1>5, <1>6, <2>1 DEF ReaderRecords
  <2> QED BY <1>0, <2>2
<1>10. e.pc = "walkfiles" /\ e.frontier = {x} /\ e.dirs = D /\ e.got = g /\ e.twice = T
  BY <1>6, <1>7, <1>8 DEF ReaderRecords
<1>11. SameReader(e, q)
  <2>1. SameReader(f, q)
    BY <1>1, <1>7 DEF ReaderRecords, SameReader
  <2>2. SameReader(e, f)
    BY <1>7, <1>8 DEF ReaderRecords, SameReader
  <2> QED BY <2>1, <2>2 DEF SameReader
<1>12. HistoryOK(at, hidden, q) /\ WalkOK(at, q) /\ q.kind = "walk"
  BY <1>1, <1>2 DEF ReaderOK, StageOK
<1>13. /\ ScopeIn(at, hidden, "walk", q.root) \subseteq q.seen
       /\ q.calm \subseteq ScopeIn(at, hidden, "walk", q.root)
       /\ ~q.shaken => q.twice = {}
  BY <1>2, <1>12 DEF HistoryOK
<1>14. ASSUME ~q.shaken
       PROVE  /\ D \subseteq Below(at, {q.root}) /\ x \in Below(at, {q.root}) /\ g \subseteq q.seen
              /\ D \cap g = {} /\ x \notin q.got
              /\ \A z \in Dirs \cap (D \cup g) : z = q.root \/ ParentOf(at, z) \in g
  <2>1. /\ q.dirs \subseteq Below(at, {q.root}) /\ q.got \subseteq q.seen /\ q.dirs \cap q.got = {}
        /\ \A z \in Dirs \cap (q.dirs \cup q.got) : z = q.root \/ ParentOf(at, z) \in q.got
    BY <1>2, <1>12, <1>14 DEF WalkOK
  <2>2. {q.root} \in SUBSET Dirs /\ x \in Below(at, {q.root}) /\ x \notin q.got
    BY <1>1, <1>2, <2>1
  <2>3. \A z \in ChildDirs(at, {x}) : z \in Dirs /\ ParentOf(at, z) = x
    BY DEF ChildDirs
  <2>4. ASSUME NEW z \in ChildDirs(at, {x})
        PROVE  z \in Below(at, {q.root}) /\ z # x /\ z \notin q.got
    <3>1. z \in Dirs /\ ParentOf(at, z) = x /\ ParentOf(at, z) \in Below(at, {q.root})
      BY <2>2, <2>3, <2>4
    <3>2. z \in Below(at, {q.root})
      BY <2>2, <3>1, SubtreeChild
    <3>3. ParentOf(at, x) \notin Below(at, {x}) /\ x \in Below(at, {x})
          /\ ParentOf(at, q.root) \notin Below(at, {q.root})
      BY <1>1, <1>2, RootedNoCycle, SubtreeLeast DEF ListingsHeld
    <3> QED BY <2>1, <2>2, <3>1, <3>2, <3>3
  <2>5. x \in q.seen
    BY <1>13, <2>2 DEF ScopeIn
  <2>6. D \subseteq Below(at, {q.root}) /\ g \subseteq q.seen /\ D \cap g = {}
    BY <1>3, <1>4, <2>1, <2>2, <2>4, <2>5
  <2>7. ASSUME NEW z \in Dirs \cap (D \cup g) PROVE z = q.root \/ ParentOf(at, z) \in g
    BY <1>2, <1>3, <1>4, <2>1, <2>3, <2>7
  <2> QED BY <2>2, <2>6, <2>7
<1>15. HistoryOK(at, hidden, e)
  <2>1. ~q.shaken => e.twice = {}
    BY <1>5, <1>10, <1>13, <1>14
  <2> QED BY <1>2, <1>11, <1>12, <2>1, ReadHistory
<1>16. ASSUME NEW z \in q.calm
       PROVE  z \in g \/ Holder(at, z) \in Below(at, D) \/ (z \in LeafFiles /\ at[z] \in {x})
  <2>1. z \in Dirs \/ z \in LeafFiles
    BY <1>1, <1>13, <1>16, ScopeType, ListingSets DEF Kinds
  <2>2. z \in q.got \/ Holder(at, z) \in Below(at, q.dirs)
    BY <1>2, <1>12, <1>16 DEF WalkOK
  <2>3. Below(at, q.dirs) \subseteq {x} \cup Below(at, D)
    <3>1. q.dirs \subseteq {x} \cup D /\ ChildDirs(at, {x}) \subseteq D
      BY <1>3
    <3> QED BY <1>1, <1>3, <3>1, SubtreeUnfold
  <2> QED BY <1>4, <2>1, <2>2, <2>3 DEF Holder
<1>17. WalkOK(at, e)
  <2>1. e.got # {} /\ e.dirs \cup e.frontier = D \cup {x}
    BY <1>4, <1>10
  <2>2. \A z \in e.calm : \/ z \in e.got \/ Holder(at, z) \in Below(at, e.dirs)
                          \/ z \in LeafFiles /\ e.pc = "walkfiles" /\ at[z] \in e.frontier
    BY <1>10, <1>11, <1>16 DEF SameReader
  <2>3. ~e.shaken => /\ e.dirs \cup e.frontier \subseteq Below(at, {e.root})
                     /\ e.got \subseteq e.seen /\ e.dirs \cap e.got = {}
                     /\ \A z \in Dirs \cap (e.dirs \cup e.got) : z = e.root \/ ParentOf(at, z) \in e.got
    BY <1>10, <1>11, <1>14, <2>1 DEF SameReader
  <2> QED BY <2>1, <2>2, <2>3 DEF WalkOK
<1>18. ReaderOK(at, hidden, e)
  BY <1>10, <1>11, <1>12, <1>15, <1>17
     DEF ReaderOK, SameReader, StageOK, ListOK, LevelOK, QueryOK, StoreOK, DoneOK, TraceOK, Kinds
<1> QED BY <1>8, <1>9, <1>18, ReadStep

\* The walk begins, takes up a folder, or ends.
LEMMA walkFSStep ==
    ASSUME ListingsHeld, NEW r \in Readers, walkFS(r) PROVE ListingsHeld'
<1>0. PICK q : q = reader[r]
  OBVIOUS
<1>1. /\ q \in ReaderRecords /\ ReaderOK(at, hidden, q) /\ q.root \in Dirs /\ q.dirs \in SUBSET Dirs
      /\ q.frontier \in SUBSET Dirs /\ q.got \in SUBSET Objs /\ q.twice \in SUBSET Dirs
  BY <1>0, ReaderKnown
<1>2. q.pc = "walk" /\ UNCHANGED <<props, stale>>
  BY <1>0 DEF walkFS
<1>3. HistoryOK(at, hidden, q) /\ WalkOK(at, q) /\ q.kind = "walk"
  BY <1>1, <1>2 DEF ReaderOK, StageOK
<1>4. /\ ScopeIn(at, hidden, "walk", q.root) \subseteq q.seen
      /\ q.calm \subseteq ScopeIn(at, hidden, "walk", q.root)
      /\ ~q.shaken => q.twice = {}
  BY <1>2, <1>3 DEF HistoryOK
<1>5. CASE q.dirs = {} /\ q.got = {} /\ Reads(r, [q EXCEPT !.dirs = {q.root}])
  <2>0. PICK R \in SUBSET Dirs : R = {q.root}
    BY <1>1
  <2>1. PICK e : e = [q EXCEPT !.dirs = R]
    OBVIOUS
  <2>2. e \in ReaderRecords
    BY <1>1, <2>0, <2>1 DEF ReaderRecords
  <2>3. e.pc = "walk" /\ e.dirs = {q.root} /\ e.got = {} /\ e.twice = q.twice /\ e.frontier = q.frontier
    BY <1>1, <1>2, <1>5, <2>0, <2>1 DEF ReaderRecords
  <2>4. SameReader(e, q)
    BY <1>1, <2>1 DEF ReaderRecords, SameReader
  <2>5. HistoryOK(at, hidden, e)
    BY <1>2, <1>3, <1>4, <2>3, <2>4, ReadHistory
  <2>6. \A z \in q.calm : Holder(at, z) \in Below(at, {q.root})
    BY <1>1, <1>4, ScopeHolder
  <2>7. ~q.shaken => q.frontier \subseteq Below(at, {q.root})
    BY <1>2, <1>3 DEF WalkOK
  <2>8. q.root \in Below(at, {q.root})
    BY <1>1, SubtreeLeast
  <2>9. WalkOK(at, e)
    BY <2>3, <2>4, <2>6, <2>7, <2>8 DEF WalkOK, SameReader
  <2>10. ReaderOK(at, hidden, e)
    BY <1>3, <2>3, <2>4, <2>5, <2>9
       DEF ReaderOK, SameReader, StageOK, ListOK, LevelOK, QueryOK, StoreOK, DoneOK, TraceOK, Kinds
  <2> QED BY <1>2, <1>5, <2>0, <2>1, <2>2, <2>10, ReadStep
<1>6. CASE q.dirs = {} /\ q.got # {} /\ Reads(r, [q EXCEPT !.pc = "done"])
  <2>1. PICK e : e = [q EXCEPT !.pc = "done"]
    OBVIOUS
  <2>2. e \in ReaderRecords
    BY <1>1, <2>1 DEF ReaderRecords
  <2>3. e.pc = "done" /\ e.got = q.got /\ e.twice = q.twice
    BY <1>1, <2>1 DEF ReaderRecords
  <2>4. SameReader(e, q)
    BY <1>1, <2>1 DEF ReaderRecords, SameReader
  <2>5. HistoryOK(at, hidden, e)
    BY <1>2, <1>3, <1>4, <2>3, <2>4, ReadHistory
  <2>6. q.calm \subseteq q.got /\ (~q.shaken => q.got \subseteq q.seen)
    BY <1>2, <1>3, <1>6, SubtreeEmpty DEF WalkOK
  <2>7. DoneOK(e)
    BY <1>3, <2>3, <2>4, <2>6 DEF DoneOK, SameReader
  <2>8. ReaderOK(at, hidden, e)
    BY <1>3, <2>3, <2>4, <2>5, <2>7
       DEF ReaderOK, SameReader, StageOK, ListOK, LevelOK, QueryOK, StoreOK, WalkOK, TraceOK, Kinds
  <2> QED BY <1>2, <1>6, <2>1, <2>2, <2>8, ReadStep
<1>7. CASE \E x \in q.dirs :
             Reads(r, [q EXCEPT !.pc = "walkfiles", !.frontier = {x},
                                !.dirs = (@ \ {x}) \cup ChildDirs(at, {x}),
                                !.got = @ \cup {x}, !.twice = IF x \in q.got THEN @ \cup {x} ELSE @])
  BY <1>0, <1>2, <1>7, WalkFolderStep
<1> QED BY <1>0, <1>5, <1>6, <1>7 DEF walkFS

\* The files of the folder the walk has taken up.
LEMMA walkFilesStep ==
    ASSUME ListingsHeld, NEW r \in Readers, walkFiles(r) PROVE ListingsHeld'
<1>0. PICK q : q = reader[r]
  OBVIOUS
<1>1. /\ q \in ReaderRecords /\ ReaderOK(at, hidden, q) /\ q.root \in Dirs /\ q.dirs \in SUBSET Dirs
      /\ q.frontier \in SUBSET Dirs /\ q.got \in SUBSET Objs /\ q.twice \in SUBSET Dirs
  BY <1>0, ReaderKnown
<1>2. PICK g \in SUBSET Objs : g = q.got \cup ChildLeaves(at, q.frontier)
  BY <1>1, ListingSets DEF ChildLeaves
<1>3. PICK e : e = [q EXCEPT !.pc = "walk", !.frontier = {}, !.got = g]
  OBVIOUS
<1>4. q.pc = "walkfiles" /\ Reads(r, e) /\ UNCHANGED <<props, stale>>
  BY <1>0, <1>1, <1>2, <1>3 DEF walkFiles, ReaderRecords
<1>5. e \in ReaderRecords
  <2>1. PICK f \in ReaderRecords : f = [q EXCEPT !.pc = "walk", !.frontier = {}]
    BY <1>1 DEF ReaderRecords
  <2>2. e = [f EXCEPT !.got = g]
    BY <1>1, <1>3, <2>1 DEF ReaderRecords
  <2> QED BY <1>2, <2>1, <2>2 DEF ReaderRecords
<1>6. e.pc = "walk" /\ e.frontier = {} /\ e.got = g /\ e.dirs = q.dirs /\ e.twice = q.twice
  BY <1>1, <1>3 DEF ReaderRecords
<1>7. SameReader(e, q)
  BY <1>1, <1>3 DEF ReaderRecords, SameReader
<1>8. HistoryOK(at, hidden, q) /\ WalkOK(at, q) /\ q.kind = "walk"
  BY <1>1, <1>4 DEF ReaderOK, StageOK
<1>9. /\ ScopeIn(at, hidden, "walk", q.root) \subseteq q.seen
      /\ ~q.shaken => q.twice = {}
  BY <1>4, <1>8 DEF HistoryOK
<1>10. HistoryOK(at, hidden, e)
  BY <1>4, <1>6, <1>7, <1>8, <1>9, ReadHistory
<1>11. ASSUME NEW z \in q.calm PROVE z \in g \/ Holder(at, z) \in Below(at, q.dirs)
  <2>1. \/ z \in q.got \/ Holder(at, z) \in Below(at, q.dirs)
        \/ z \in LeafFiles /\ at[z] \in q.frontier
    BY <1>4, <1>8, <1>11 DEF WalkOK
  <2> QED BY <1>2, <2>1 DEF ChildLeaves
<1>12. ASSUME ~q.shaken
       PROVE  /\ q.dirs \subseteq Below(at, {q.root}) /\ g \subseteq q.seen /\ q.dirs \cap g = {}
              /\ \A z \in Dirs \cap (q.dirs \cup g) : z = q.root \/ ParentOf(at, z) \in g
  <2>1. /\ q.dirs \cup q.frontier \subseteq Below(at, {q.root})
        /\ q.got \subseteq q.seen /\ q.dirs \cap q.got = {}
        /\ \A z \in Dirs \cap (q.dirs \cup q.got) : z = q.root \/ ParentOf(at, z) \in q.got
    BY <1>4, <1>8, <1>12 DEF WalkOK
  <2>2. \A z \in ChildLeaves(at, q.frontier) : z \notin Dirs /\ z \in ScopeIn(at, hidden, "walk", q.root)
    BY <2>1, ListingSets DEF ScopeIn, ChildLeaves
  <2> QED BY <1>1, <1>2, <1>9, <2>1, <2>2
<1>13. WalkOK(at, e)
  BY <1>6, <1>7, <1>11, <1>12 DEF WalkOK, SameReader
<1>14. ReaderOK(at, hidden, e)
  BY <1>6, <1>7, <1>8, <1>10, <1>13
     DEF ReaderOK, SameReader, StageOK, ListOK, LevelOK, QueryOK, StoreOK, DoneOK, TraceOK, Kinds
<1> QED BY <1>4, <1>5, <1>14, ReadStep

\* The path of an object reaches the root, goes up one folder, or ends where a
\* row is missing.
LEMMA TraceRootStep ==
    ASSUME ListingsHeld, NEW r \in Readers, TraceRoot(r) PROVE ListingsHeld'
<1>0. PICK q : q = reader[r]
  OBVIOUS
<1>1. /\ q \in ReaderRecords /\ ReaderOK(at, hidden, q) /\ q.root \in Dirs /\ q.dirs \in SUBSET Dirs
      /\ q.frontier \in SUBSET Dirs /\ q.got \in SUBSET Objs /\ q.twice \in SUBSET Dirs
  BY <1>0, ReaderKnown
<1>2. PICK cur : cur = Cur(q)
  OBVIOUS
<1>3. /\ q.pc = "up" /\ UNCHANGED <<props, stale>>
      /\ IF cur = Top THEN Reads(r, [q EXCEPT !.pc = "done"])
         ELSE IF ~ParentFound(cur) THEN Reads(r, NoReader)
         ELSE Reads(r, [q EXCEPT !.frontier = {at[cur]}, !.got = @ \cup {at[cur]}])
  BY <1>0, <1>2 DEF TraceRoot, Cur
<1>4. cur \in Dirs
  <2>1. q.frontier # {} => (CHOOSE x \in q.frontier : TRUE) \in q.frontier
    OBVIOUS
  <2> QED BY <1>1, <1>2, <2>1 DEF Cur
<1>5. HistoryOK(at, hidden, q) /\ TraceOK(at, q) /\ q.kind = "trace"
  BY <1>1, <1>3 DEF ReaderOK, StageOK
<1>6. /\ Above(at, q.root) \subseteq q.seen /\ (q.shaken => q.calm = {})
      /\ ~q.shaken => q.twice = {}
  BY <1>3, <1>5 DEF HistoryOK, ScopeIn
<1>7. ~q.shaken => /\ q.root \in Below(at, {cur}) /\ q.got \subseteq Above(at, q.root)
                   /\ q.calm \subseteq q.got \cup Above(at, cur)
  BY <1>2, <1>3, <1>5 DEF TraceOK
<1>8. CASE cur = Top
  <2>1. PICK e : e = [q EXCEPT !.pc = "done"]
    OBVIOUS
  <2>2. e \in ReaderRecords
    BY <1>1, <2>1 DEF ReaderRecords
  <2>3. e.pc = "done" /\ e.got = q.got /\ e.twice = q.twice
    BY <1>1, <2>1 DEF ReaderRecords
  <2>4. SameReader(e, q)
    BY <1>1, <2>1 DEF ReaderRecords, SameReader
  <2>5. HistoryOK(at, hidden, e)
    BY <1>3, <1>5, <1>6, <2>3, <2>4, ReadHistory
  <2>6. Above(at, cur) = {}
    BY <1>8, TopIsTop DEF Above
  <2>7. q.calm \subseteq q.got /\ (~q.shaken => q.got \subseteq q.seen)
    BY <1>6, <1>7, <2>6
  <2>8. DoneOK(e)
    BY <1>5, <2>3, <2>4, <2>7 DEF DoneOK, SameReader
  <2>9. ReaderOK(at, hidden, e)
    BY <1>5, <2>3, <2>4, <2>5, <2>8
       DEF ReaderOK, SameReader, StageOK, ListOK, LevelOK, QueryOK, StoreOK, WalkOK, TraceOK, Kinds
  <2> QED BY <1>3, <1>8, <2>1, <2>2, <2>9, ReadStep
<1>9. CASE cur # Top /\ ~ParentFound(cur)
  BY <1>3, <1>9, NoReaderOK, ReadStep
<1>10. CASE cur # Top /\ ParentFound(cur)
  <2>1. PICK p \in Dirs : p = at[cur] /\ p = ParentOf(at, cur)
    <3>1. at \in Places /\ cur \in Objs \ {Top} /\ at[cur] # Outside
      BY <1>4, <1>10, ListingSets DEF ListingsHeld, ListingTypes, ParentFound
    <3> QED BY <1>10, <3>1 DEF Places, ParentOf
  <2>2. PICK P \in SUBSET Dirs : P = {p}
    BY <2>1
  <2>3. PICK g \in SUBSET Objs : g = q.got \cup {p}
    BY <1>1, <2>1, ListingSets
  <2>4. PICK e : e = [q EXCEPT !.frontier = P, !.got = g]
    OBVIOUS
  <2>5. Reads(r, e)
    BY <1>1, <1>3, <1>10, <2>1, <2>2, <2>3, <2>4 DEF ReaderRecords
  <2>6. e \in ReaderRecords
    BY <1>1, <2>2, <2>3, <2>4 DEF ReaderRecords
  <2>7. e.pc = "up" /\ e.frontier = {p} /\ e.got = g /\ e.twice = q.twice
    BY <1>1, <1>3, <2>2, <2>4 DEF ReaderRecords
  <2>8. SameReader(e, q)
    BY <1>1, <2>4 DEF ReaderRecords, SameReader
  <2>9. HistoryOK(at, hidden, e)
    BY <1>3, <1>5, <1>6, <2>7, <2>8, ReadHistory
  <2>10. Cur(e) = p
    BY <2>7 DEF Cur
  <2>11. ASSUME ~q.shaken
         PROVE  /\ q.root \in Below(at, {p}) /\ g \subseteq Above(at, q.root)
                /\ q.calm \subseteq g \cup Above(at, p)
    <3>1. /\ q.root \in Below(at, {cur}) /\ q.got \subseteq Above(at, q.root)
          /\ q.calm \subseteq q.got \cup Above(at, cur)
      BY <1>7, <2>11
    <3>2. {p} \in SUBSET Dirs /\ p \in Below(at, {p})
      BY <2>1, SubtreeLeast
    <3>3. cur \in Below(at, {p})
      BY <1>4, <2>1, <3>2, SubtreeChild
    <3>4. q.root \in Below(at, {p})
      <4>1. Below(at, {cur}) \subseteq Below(at, {p})
        BY <3>2, <3>3, SubtreePart
      <4> QED BY <3>1, <4>1
    <3>5. p # q.root
      <4>1. p \notin Below(at, {cur})
        BY <1>4, <2>1, RootedNoCycle DEF ListingsHeld
      <4> QED BY <3>1, <4>1
    <3>6. p \in Above(at, q.root)
      BY <2>1, <3>4, <3>5 DEF Above
    <3>7. ASSUME NEW z \in Above(at, cur) PROVE z \in {p} \cup Above(at, p)
      <4>1. z \in Dirs /\ z # cur /\ cur \in Below(at, {z})
        BY <3>7 DEF Above
      <4>2. {z} \in SUBSET Dirs
        BY <4>1
      <4>3. cur \in {z} \/ ParentOf(at, cur) \in Below(at, {z})
        BY <4>1, <4>2, SubtreeMember
      <4> QED BY <2>1, <4>1, <4>3 DEF Above
    <3> QED BY <2>3, <3>1, <3>4, <3>6, <3>7
  <2>12. TraceOK(at, e)
    BY <2>7, <2>8, <2>10, <2>11 DEF TraceOK, SameReader
  <2>13. ReaderOK(at, hidden, e)
    BY <1>5, <2>7, <2>8, <2>9, <2>12
       DEF ReaderOK, SameReader, StageOK, ListOK, LevelOK, QueryOK, StoreOK, WalkOK, DoneOK, Kinds
  <2> QED BY <1>3, <2>5, <2>6, <2>13, ReadStep
<1> QED BY <1>8, <1>9, <1>10

\* Any tree to begin with, and no request.
LEMMA ListingsHeldInit == ASSUME ListingsInit PROVE ListingsHeld
<1>1. /\ at \in [Objs \ {Top} -> Dirs] /\ Below(at, {Top}) = Dirs /\ hidden = {}
      /\ reader = [r \in Readers |-> NoReader] /\ props = [d \in Dirs |-> {}]
  BY DEF ListingsInit
<1>2. at \in Places
  BY <1>1 DEF Places
<1>3. reader \in [Readers -> ReaderRecords] /\ \A r \in Readers : reader[r] = NoReader
  BY <1>1, NoReaderOK
<1>4. props \in [Dirs -> {{}} \cup {{S} : S \in SUBSET Objs}] /\ \A d \in Dirs : props[d] = {}
  BY <1>1
<1>5. ListingTypes
  BY <1>1, <1>2, <1>3, <1>4 DEF ListingTypes
<1>6. Rooted(at)
  BY <1>1 DEF Rooted
<1>7. PropsFresh
  BY <1>4 DEF PropsFresh
<1>8. \A r \in Readers : ReaderOK(at, hidden, reader[r])
  BY <1>3, NoReaderOK
<1> QED BY <1>5, <1>6, <1>7, <1>8 DEF ListingsHeld

\* Every step keeps it.
LEMMA ListingsHeldStep ==
    ASSUME ListingsHeld, [ListingsNext]_listingVars PROVE ListingsHeld'
<1>1. CASE UNCHANGED listingVars
  BY <1>1 DEF listingVars, ListingsHeld, ListingTypes, PropsFresh
<1>2. ASSUME NEW o \in Objs, Deleted(o) \/ Promoted(o) \/ \E d \in Dirs : Moved(o, d) \/ Inserted(o, d)
      PROVE  ListingsHeld'
  BY <1>2, DeletedStep, PromotedStep, MovedStep, InsertedStep
<1>3. ASSUME NEW r \in Readers, NEW d \in Dirs,
             \/ ListDirectory(r, d) \/ ListDirectoryTool(r, d) \/ Search(r, d)
             \/ GetProperty(r, d) \/ handlePropfind(r, d) \/ TraceStart(r, d)
      PROVE  ListingsHeld'
  <2>1. \/ Opens(r, "list", "dirs", d) \/ Opens(r, "search", "roots", d)
        \/ Opens(r, "props", "roots", d) \/ Opens(r, "walk", "walk", d) \/ Opens(r, "trace", "up", d)
    BY <1>3 DEF ListDirectory, ListDirectoryTool, List, Search, GetProperty, handlePropfind, TraceStart
  <2>2. ASSUME Opens(r, "list", "dirs", d) PROVE ListingsHeld'
    BY <2>2, OpensStep
  <2>3. ASSUME Opens(r, "search", "roots", d) PROVE ListingsHeld'
    BY <2>3, OpensStep
  <2>4. ASSUME Opens(r, "props", "roots", d) PROVE ListingsHeld'
    BY <2>4, OpensStep
  <2>5. ASSUME Opens(r, "walk", "walk", d) PROVE ListingsHeld'
    BY <2>5, OpensStep
  <2>6. ASSUME Opens(r, "trace", "up", d) PROVE ListingsHeld'
    BY <2>6, OpensStep
  <2> QED BY <2>1, <2>2, <2>3, <2>4, <2>5, <2>6
<1>4. ASSUME NEW r \in Readers,
             \/ GetChildFolder(r) \/ GetChildFiles(r) \/ GetRecursiveChildFolder(r) \/ ChildLevel(r)
             \/ SearchKeywords(r) \/ CountFiles(r)
      PROVE  ListingsHeld'
  BY <1>4, GetChildFolderStep, GetChildFilesStep, GetRecursiveChildFolderStep, ChildLevelStep,
     SearchKeywordsStep, CountFilesStep
<1>5. ASSUME NEW r \in Readers,
             \/ StoreProps(r) \/ walkFS(r) \/ walkFiles(r) \/ TraceRoot(r) \/ Answered(r)
      PROVE  ListingsHeld'
  <2>1. Answered(r) => ListingsHeld'
    BY NoReaderOK, ReadStep DEF Answered
  <2> QED BY <1>5, <2>1, StorePropsStep, walkFSStep, walkFilesStep, TraceRootStep
<1>6. ASSUME NEW d \in Dirs, PropsExpire(d) PROVE ListingsHeld'
  BY <1>6, PropsExpireStep
<1> QED BY <1>1, <1>2, <1>3, <1>4, <1>5, <1>6 DEF ListingsNext

\* The inductive invariant says more than the properties that are checked.
LEMMA ListingsHeldMeans == ASSUME ListingsHeld PROVE ListingsInv
<1>1. /\ at \in Places /\ hidden \in SUBSET LeafFiles /\ PropsFresh
      /\ props \in [Dirs -> {{}} \cup {{S} : S \in SUBSET Objs}]
      /\ reader \in [Readers -> ReaderRecords]
      /\ \A r \in Readers : ReaderOK(at, hidden, reader[r])
  BY DEF ListingsHeld, ListingTypes
<1>2. ASSUME NEW d \in Dirs PROVE props[d] \subseteq SUBSET Objs /\ Cardinality(props[d]) <= 1
  <2>1. props[d] = {} \/ \E S \in SUBSET Objs : props[d] = {S}
    BY <1>1
  <2>2. Cardinality({}) = 0
    BY FS_EmptySet
  <2>3. \A S : Cardinality({S}) = 1
    BY FS_Singleton
  <2>4. CASE props[d] = {}
    BY <2>2, <2>4
  <2>5. ASSUME NEW S \in SUBSET Objs, props[d] = {S}
        PROVE  props[d] \subseteq SUBSET Objs /\ Cardinality(props[d]) <= 1
    <3>1. Cardinality(props[d]) = 1
      BY <2>3, <2>5
    <3> QED BY <2>5, <3>1
  <2> QED BY <2>1, <2>4, <2>5
<1>3. ListingsTypeOK
  BY <1>1, <1>2 DEF ListingsTypeOK, Places, ReaderRecords
<1>4. UndisturbedFound /\ FoundWasInside
  BY <1>1 DEF ReaderOK, DoneOK, UndisturbedFound, FoundWasInside
<1>5. CountedOnce
  <2>1. ASSUME NEW r \in Readers, ~reader[r].shaken PROVE reader[r].twice = {}
    <3>1. StageOK(reader[r]) /\ HistoryOK(at, hidden, reader[r])
      BY <1>1 DEF ReaderOK
    <3>2. reader[r].pc = "idle" => reader[r].twice = {}
      BY <3>1 DEF StageOK, NoReader
    <3>3. reader[r].pc # "idle" => reader[r].twice = {}
      BY <2>1, <3>1 DEF HistoryOK
    <3> QED BY <3>2, <3>3
  <2> QED BY <2>1 DEF CountedOnce
<1> QED BY <1>1, <1>3, <1>4, <1>5 DEF ListingsInv

\* Whatever other requests move, delete or upload between the queries of a
\* request, what stays in place is in the answer, what is answered was there
\* (folders moved or deleted meanwhile apart, and always for a listing), no
\* folder is counted twice, and cached properties are those of the folder
\* unless the tree has changed since they were counted: for every tree, every
\* number of requests and every number of changes (List, Search, GetProperty,
\* walkFS, TraceRoot).
THEOREM ListingsCorrect == ListingsSpec => []ListingsInv
<1>1. ListingsInit => ListingsHeld
  BY ListingsHeldInit
<1>2. ListingsHeld /\ [ListingsNext]_listingVars => ListingsHeld'
  BY ListingsHeldStep
<1>3. ListingsHeld => ListingsInv
  BY ListingsHeldMeans
<1> QED BY <1>1, <1>2, <1>3, PTL DEF ListingsSpec
=============================================================================
