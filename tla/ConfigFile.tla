----------------------------- MODULE ConfigFile ------------------------------
(***************************************************************************)
(* config.json at the start of the server: Config.__init__, the backup and *)
(* save_config of src/server/Config.py.                                    *)
(*                                                                         *)
(* Each start constructs several Configs, one after the other, and each    *)
(* reads the file, makes a backup if it seems to be edited by hand, and    *)
(* writes the file again.  The server may be stopped at any point, and the *)
(* user may edit the file while it is down.                                *)
(*                                                                         *)
(* A backup is named after the time of the file, so that two edits do not  *)
(* share one.                                                              *)
(***************************************************************************)

VARIABLES
    file,       \* [form, values, fresh, edited], see Files
    config,     \* the values in use
    step,       \* where the constructor is
    backup,     \* history: the backup of the last edit is due, made or failed
    recent      \* history: the last edit came within 5 s of a save

cfgVars == <<file, config, step, backup, recent>>

Values == {"defaults", "saved", "edited"}

\* edited: the text is the user's; fresh: the time of the file is at most 5 s
\* from the LAST_MODIFIED_TIME in it.  "odd" is JSON, but no object of objects.
Files == [form : {"none", "valid", "invalid", "odd"}, values : Values,
          fresh : BOOLEAN, edited : BOOLEAN]

Steps == {"read", "backup", "truncate", "write", "done", "raised"}

CfgInit ==
    /\ file \in {[form |-> "none", values |-> "defaults", fresh |-> FALSE, edited |-> FALSE],
                [form |-> "valid", values |-> "saved", fresh |-> TRUE, edited |-> FALSE]}
    /\ config = "defaults"
    /\ step = "done"
    /\ backup = "none"
    /\ recent = FALSE

\* While the server is down.  The text may or may not be good JSON.
Edit ==
    /\ \E form \in {"valid", "invalid", "odd"}, f \in BOOLEAN :
          /\ file' = [form |-> form, values |-> "edited", fresh |-> f, edited |-> TRUE]
          /\ recent' = f
    /\ backup' = "due"
    /\ UNCHANGED <<config, step>>

Construct == step' = "read"

\* Faulty variant: the file is saved before it is compared.
ReadAndSaveFirst ==
    /\ step = "read"
    /\ config' = IF file.form = "valid" THEN file.values ELSE "defaults"
    /\ step' = IF file.form = "odd" THEN "raised" ELSE "backup"
    /\ file' = IF file.form = "odd" THEN file
               ELSE [form |-> "valid", values |-> config', fresh |-> TRUE, edited |-> FALSE]
    /\ UNCHANGED <<backup, recent>>

\* A missing or an invalid file leaves the defaults; an odd one raises
\* AttributeError or TypeError, which nobody catches.
Read ==
    /\ step = "read"
    /\ config' = IF file.form = "valid" THEN file.values ELSE "defaults"
    /\ step' = IF file.form = "odd" THEN "raised" ELSE "backup"
    /\ UNCHANGED <<file, backup, recent>>

\* LAST_MODIFIED_TIME is 0 if the file was not read.
LooksEdited ==
    \/ file.form = "invalid"
    \/ file.form = "valid" /\ ~file.fresh

\* check_backup_config_file: a copy that fails is logged, and all goes on.
CheckBackup ==
    /\ step = "backup"
    /\ \/ /\ LooksEdited
          /\ backup' \in IF file.edited THEN {"made", "failed"} ELSE {backup}
       \/ /\ ~LooksEdited
          /\ UNCHANGED backup
    /\ step' = "truncate"
    /\ UNCHANGED <<file, config, recent>>

\* save_config: opening the file for writing empties it.
Truncate ==
    /\ step = "truncate"
    /\ file' = [form |-> "invalid", values |-> "defaults", fresh |-> TRUE, edited |-> FALSE]
    /\ step' = "write"
    /\ UNCHANGED <<config, backup, recent>>

Write ==
    /\ step = "write"
    /\ file' = [form |-> "valid", values |-> config, fresh |-> TRUE, edited |-> FALSE]
    /\ step' = "done"
    /\ UNCHANGED <<config, backup, recent>>

CfgStep == Read \/ CheckBackup \/ Truncate \/ Write

\* The power fails, or the process is killed; what was in use is lost.
Stop ==
    /\ config' = "defaults"
    /\ step' = "done"
    /\ UNCHANGED <<file, backup, recent>>
=============================================================================
