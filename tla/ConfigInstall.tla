---------------------------- MODULE ConfigInstall ---------------------------
(***************************************************************************)
(* src/config.rs: how a startup configuration and its detached signature   *)
(* are put in place (write_startup_config_to_path) and read back           *)
(* (load_startup_config_from_path).  Several processes do both at once:    *)
(* `oo-bot run`, `config init`, the operator TUI.  A process may be killed *)
(* between any two system calls, and the machine may lose power.           *)
(*                                                                         *)
(* A configuration is abstracted to its name and to whether it asks for a  *)
(* signature; a signature, to the configuration whose bytes it signs.      *)
(***************************************************************************)
EXTENDS Integers

CONSTANTS Processes,
          Configs,     \* the valid configurations that are saved
          Canonical,   \* the one written when there is none
          Signed,      \* the configurations with integrity.config_signature
          MaxFaults    \* bound: kills, failing system calls and power losses

NoFile == "NoFile"

ASSUME ConfigInstallAssumption ==
    /\ Canonical \in Configs /\ Signed \subseteq Configs
    /\ NoFile \notin Configs
    /\ MaxFaults \in Nat

VARIABLES
    disk,     \* the two files, as a process sees them
    durable,  \* the two files, as they are after a power loss at the latest fsync
    step,     \* where each process is
    saving,   \* the configuration each process is saving, or NoFile
    creating, \* the processes that found no configuration, until they are done
    read,     \* the configuration each process has read, or NoFile
    loaded,   \* the configuration each process has loaded, or NoFile
    disturbed,\* history: this process's operation overlapped with another's, or a fault hit it
    tainted,  \* history: an install that was disturbed has returned
    faults    \* how many faults there were

configVars == <<disk, durable, step, saving, creating, read, loaded, disturbed, tainted, faults>>

Files == [config : Configs \cup {NoFile}, signature : Configs \cup {NoFile}]

Installing == {"Prepared", "ConfigInPlace", "SignatureInPlace"}
Busy == Installing \cup {"Missing", "Reading"}

\* The process p is at s from now on. Operations that overlap disturb each other.
Goes(p, s) ==
    /\ step' = [step EXCEPT ![p] = s]
    /\ disturbed' = [q \in Processes |->
                        IF q # p THEN disturbed[q] \/ step[q] \in Busy
                        ELSE IF step[p] \in Busy THEN disturbed[p]
                        ELSE \E other \in Processes \ {p} : step[other] \in Busy]
    /\ tainted' = (tainted \/ (s = "Installed" /\ disturbed[p]))

----------------------------------------------------------------------------
(* write_startup_config_to_path *)

\* Up to the fsync of the temporary directory: nothing that matters is touched yet.
Prepare(p, c) ==
    /\ saving' = [saving EXCEPT ![p] = c]
    /\ Goes(p, "Prepared")
    /\ UNCHANGED <<disk, durable, creating, read, loaded, faults>>

\* The operator TUI and `config init --force` write whether or not there is a file.
Save(p, c) == step[p] = "Idle" /\ Prepare(p, c)

\* Mutation: the file is not looked for.
FindAnything(p) ==
    /\ step[p] = "Idle"
    /\ creating' = creating \cup {p}
    /\ Goes(p, "Missing")
    /\ UNCHANGED <<disk, durable, saving, read, loaded, faults>>

\* ensure_startup_config_exists, and `config init`, look first and write afterwards.
FindMissing(p) ==
    /\ step[p] = "Idle"
    /\ disk.config = NoFile
    /\ creating' = creating \cup {p}
    /\ Goes(p, "Missing")
    /\ UNCHANGED <<disk, durable, saving, read, loaded, faults>>

\* Mutation: nothing is rendered for the file that is missing.
CreateEmpty(p) == step[p] = "Missing" /\ Prepare(p, NoFile)

CreateMissing(p) == step[p] = "Missing" /\ Prepare(p, Canonical)

\* Mutation: the signature stays in the temporary directory.
RenameConfigOnly(p) ==
    /\ step[p] = "Prepared"
    /\ disk' = [disk EXCEPT !.config = saving[p]]
    /\ Goes(p, "SignatureInPlace")
    /\ UNCHANGED <<durable, saving, creating, read, loaded, faults>>

\* Mutation: the directory is synced only after a signature.
RenameConfigUnsynced(p) ==
    /\ step[p] = "Prepared"
    /\ disk' = [disk EXCEPT !.config = saving[p]]
    /\ Goes(p, IF saving[p] \in Signed THEN "ConfigInPlace" ELSE "Installed")
    /\ UNCHANGED <<durable, saving, creating, read, loaded, faults>>

RenameConfig(p) ==
    /\ step[p] = "Prepared"
    /\ disk' = [disk EXCEPT !.config = saving[p]]
    /\ Goes(p, IF saving[p] \in Signed THEN "ConfigInPlace" ELSE "SignatureInPlace")
    /\ UNCHANGED <<durable, saving, creating, read, loaded, faults>>

\* Mutation: a signature that exists is kept.
RenameFirstSignature(p) ==
    /\ step[p] = "ConfigInPlace"
    /\ disk' = [disk EXCEPT !.signature = IF @ = NoFile THEN saving[p] ELSE @]
    /\ Goes(p, "SignatureInPlace")
    /\ UNCHANGED <<durable, saving, creating, read, loaded, faults>>

RenameSignature(p) ==
    /\ step[p] = "ConfigInPlace"
    /\ disk' = [disk EXCEPT !.signature = saving[p]]
    /\ Goes(p, "SignatureInPlace")
    /\ UNCHANGED <<durable, saving, creating, read, loaded, faults>>

\* The fsync of the directory both files are in; then the call returns Ok.
SyncDirectory(p) ==
    /\ step[p] = "SignatureInPlace"
    /\ durable' = disk
    /\ Goes(p, "Installed")
    /\ UNCHANGED <<disk, saving, creating, read, loaded, faults>>

----------------------------------------------------------------------------
(* load_startup_config_from_path *)

ReadConfig(p) ==
    /\ step[p] = "Idle"
    /\ disk.config # NoFile
    /\ read' = [read EXCEPT ![p] = disk.config]
    /\ Goes(p, "Reading")
    /\ UNCHANGED <<disk, durable, saving, creating, loaded, faults>>

\* verify_detached_hmac, for a configuration that asks for it.
Verified(p) == read[p] \in Signed => disk.signature = read[p]

Load(p) ==
    /\ step[p] = "Reading"
    /\ Verified(p)
    /\ loaded' = [loaded EXCEPT ![p] = read[p]]
    /\ Goes(p, "Loaded")
    /\ UNCHANGED <<disk, durable, saving, creating, read, faults>>

RefuseToLoad(p) ==
    /\ step[p] = "Reading"
    /\ ~Verified(p)
    /\ Goes(p, "Refused")
    /\ UNCHANGED <<disk, durable, saving, creating, read, loaded, faults>>

----------------------------------------------------------------------------
(* Faults. *)

\* A process is killed, or a system call of its fails and it gives up.
Fail(p) ==
    /\ faults < MaxFaults /\ faults' = faults + 1
    /\ step[p] \in Busy
    /\ Goes(p, "Failed")
    /\ UNCHANGED <<disk, durable, saving, creating, read, loaded>>

\* Each rename since the last fsync of the directory may be lost; the contents of the files
\* were synced before they were renamed, so no file is torn.
PowerLoss ==
    /\ faults < MaxFaults /\ faults' = faults + 1
    /\ \E config \in {disk.config, durable.config},
          signature \in {disk.signature, durable.signature} :
           /\ disk' = [config |-> config, signature |-> signature]
           /\ durable' = disk'
    /\ step' = [p \in Processes |-> "Failed"]
    /\ disturbed' = [p \in Processes |-> TRUE]
    /\ UNCHANGED <<saving, creating, read, loaded, tainted>>

\* The next operation of the process, or of the one that is started in its place.
Finish(p) ==
    /\ step[p] \in {"Installed", "Loaded", "Refused", "Failed"}
    /\ step' = [step EXCEPT ![p] = "Idle"]
    /\ saving' = [saving EXCEPT ![p] = NoFile]
    /\ creating' = creating \ {p}
    /\ read' = [read EXCEPT ![p] = NoFile]
    /\ loaded' = [loaded EXCEPT ![p] = NoFile]
    /\ UNCHANGED <<disk, durable, disturbed, tainted, faults>>

ConfigInit ==
    /\ disk = [config |-> NoFile, signature |-> NoFile]
    /\ durable = disk
    /\ step = [p \in Processes |-> "Idle"]
    /\ saving = [p \in Processes |-> NoFile] /\ creating = {}
    /\ read = [p \in Processes |-> NoFile] /\ loaded = [p \in Processes |-> NoFile]
    /\ disturbed = [p \in Processes |-> FALSE] /\ tainted = FALSE
    /\ faults = 0

ConfigNext ==
    \/ \E p \in Processes :
           \/ \E c \in Configs : Save(p, c)
           \/ FindMissing(p) \/ CreateMissing(p)
           \/ RenameConfig(p) \/ RenameSignature(p) \/ SyncDirectory(p)
           \/ ReadConfig(p) \/ Load(p) \/ RefuseToLoad(p)
           \/ Fail(p) \/ Finish(p)
    \/ PowerLoss

ConfigSpec == ConfigInit /\ [][ConfigNext]_configVars

----------------------------------------------------------------------------
(* Properties. *)

\* The types of the files and of each process; a process holds a configuration exactly when
\* its step needs one.
ConfigTypeOK ==
    /\ disk \in Files /\ durable \in Files
    /\ step \in [Processes -> Busy \cup {"Idle", "Installed", "Loaded", "Refused", "Failed"}]
    /\ saving \in [Processes -> Configs \cup {NoFile}] /\ creating \subseteq Processes
    /\ \A p \in creating : step[p] # "Idle"
    /\ read \in [Processes -> Configs \cup {NoFile}]
    /\ loaded \in [Processes -> Configs \cup {NoFile}]
    /\ disturbed \in [Processes -> BOOLEAN] /\ tainted \in BOOLEAN
    /\ \A p \in Processes : /\ step[p] \in Installing => saving[p] # NoFile
                            /\ step[p] = "Reading" => read[p] # NoFile
    /\ faults \in 0 .. MaxFaults

PairLoads(files) == files.config \in Signed => files.signature = files.config

\* An install that overlapped with nothing leaves its configuration in place and a pair that
\* loads, whatever faults and overlapping installs had left there before.
InstallHeals ==
    [][\A p \in Processes :
           step'[p] = "Installed" /\ step[p] # "Installed" /\ ~disturbed'[p] =>
               disk'.config = saving[p] /\ PairLoads(disk')]_configVars

\* The look and the write are not one step, so the defaults can replace a configuration that
\* was saved between them: but nothing else, and not one that was there when the process
\* that creates them began.
DefaultsReplaceNothing ==
    [][\A p \in creating :
           step[p] = "Prepared" /\ step'[p] \in {"ConfigInPlace", "SignatureInPlace"}
               => disk.config = NoFile \/ disturbed[p]]_configVars

\* The two renames leave a moment in which nothing loads, so starts and installs do get in
\* each other's way; but as long as nothing failed and no two operations overlapped in an
\* install, a start that overlapped with none does load.
StartLoads ==
    faults = 0 /\ ~tainted => \A p \in Processes : step[p] = "Refused" => disturbed[p]

\* What an install has renamed, it has also made durable by the time it returns: without
\* faults only an install under way has something to lose, and its fsync of one directory
\* covers both files.
UnsyncedOnlyDuringInstall ==
    faults = 0 /\ durable # disk =>
        \E p \in Processes : step[p] \in {"ConfigInPlace", "SignatureInPlace"}
=============================================================================
