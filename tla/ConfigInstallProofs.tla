------------------------- MODULE ConfigInstallProofs -------------------------
(***************************************************************************)
(* Proofs about ConfigInstall: for any number of processes, of             *)
(* configurations and of faults.                                           *)
(***************************************************************************)
EXTENDS ConfigInstall, TLAPS

\* Only these steps take a process from one installing step to the next; at the others a
\* process that is not the actor stays where it is.
LEMMA OthersStay ==
    ASSUME NEW p \in Processes, NEW s, Goes(p, s),
           step \in [Processes -> Busy \cup {"Idle", "Installed", "Loaded", "Refused", "Failed"}]
    PROVE  /\ step'[p] = s
           /\ \A q \in Processes \ {p} : step'[q] = step[q]
           /\ \A q \in Processes \ {p} : disturbed'[q] <=> disturbed[q] \/ step[q] \in Busy
           /\ step[p] \in Busy => disturbed'[p] = disturbed[p]
BY DEF Goes

\* The files, the steps and what each process holds keep their types, and every step that
\* needs a configuration has one.
THEOREM ConfigTypesHold == ConfigSpec => []ConfigTypeOK
<1>1. ConfigInit => ConfigTypeOK
  <2> SUFFICES ASSUME ConfigInit PROVE ConfigTypeOK
    OBVIOUS
  <2>1. disk \in Files /\ durable \in Files /\ faults \in 0 .. MaxFaults
    BY ConfigInstallAssumption DEF ConfigInit, Files
  <2>2. disturbed \in [Processes -> BOOLEAN] /\ tainted \in BOOLEAN
    BY Zenon DEF ConfigInit
  <2> QED
    BY <2>1, <2>2 DEF ConfigInit, ConfigTypeOK, Busy, Installing
<1>2. ConfigTypeOK /\ [ConfigNext]_configVars => ConfigTypeOK'
  <2> SUFFICES ASSUME ConfigTypeOK, [ConfigNext]_configVars PROVE ConfigTypeOK'
    OBVIOUS
  <2> USE ConfigInstallAssumption DEF ConfigTypeOK, Files, Busy, Installing
  <2>1. ASSUME NEW p \in Processes, NEW c \in Configs, Save(p, c) PROVE ConfigTypeOK'
    BY <2>1 DEF Save, Prepare, Goes
  <2>2. ASSUME NEW p \in Processes, FindMissing(p) PROVE ConfigTypeOK'
    <3>1. creating' = creating \cup {p} /\ Goes(p, "Missing")
      BY <2>2 DEF FindMissing
    <3>2. creating' \subseteq Processes /\ \A q \in creating' : step'[q] # "Idle"
      BY <3>1 DEF Goes
    <3>3. step' \in [Processes -> Busy \cup {"Idle", "Installed", "Loaded", "Refused", "Failed"}]
      BY <3>1 DEF Goes
    <3>4. disturbed' \in [Processes -> BOOLEAN] /\ tainted' \in BOOLEAN
      BY <3>1 DEF Goes
    <3>5. \A q \in Processes : /\ step'[q] \in Installing => saving[q] # NoFile
                               /\ step'[q] = "Reading" => read[q] # NoFile
      BY <3>1 DEF Goes
    <3> QED
      BY <2>2, <3>2, <3>3, <3>4, <3>5 DEF FindMissing
  <2>3. ASSUME NEW p \in Processes, CreateMissing(p) PROVE ConfigTypeOK'
    BY <2>3 DEF CreateMissing, Prepare, Goes
  <2>4. ASSUME NEW p \in Processes, RenameConfig(p) PROVE ConfigTypeOK'
    BY <2>4 DEF RenameConfig, Goes
  <2>5. ASSUME NEW p \in Processes, RenameSignature(p) PROVE ConfigTypeOK'
    BY <2>5 DEF RenameSignature, Goes
  <2>6. ASSUME NEW p \in Processes, SyncDirectory(p) PROVE ConfigTypeOK'
    BY <2>6 DEF SyncDirectory, Goes
  <2>7. ASSUME NEW p \in Processes, ReadConfig(p) PROVE ConfigTypeOK'
    BY <2>7 DEF ReadConfig, Goes
  <2>8. ASSUME NEW p \in Processes, Load(p) PROVE ConfigTypeOK'
    BY <2>8 DEF Load, Goes
  <2>9. ASSUME NEW p \in Processes, RefuseToLoad(p) PROVE ConfigTypeOK'
    BY <2>9 DEF RefuseToLoad, Goes
  <2>10. ASSUME NEW p \in Processes, Fail(p) PROVE ConfigTypeOK'
    <3>1. faults' \in 0 .. MaxFaults
      BY <2>10 DEF Fail
    <3>2. Goes(p, "Failed") /\ UNCHANGED <<disk, durable, saving, creating, read, loaded>>
      BY <2>10 DEF Fail
    <3> QED
      BY <3>1, <3>2 DEF Goes
  <2>11. ASSUME NEW p \in Processes, Finish(p) PROVE ConfigTypeOK'
    BY <2>11 DEF Finish
  <2>12. ASSUME PowerLoss PROVE ConfigTypeOK'
    BY <2>12 DEF PowerLoss
  <2>13. CASE UNCHANGED configVars
    BY <2>13 DEF configVars
  <2> QED
    BY <2>1, <2>2, <2>3, <2>4, <2>5, <2>6, <2>7, <2>8, <2>9, <2>10, <2>11, <2>12, <2>13
    DEF ConfigNext
<1> QED
  BY <1>1, <1>2, PTL DEF ConfigSpec

\* What an install has renamed it has made durable when it returns: the fsync of one
\* directory covers both files, and the renames of any install that is at it too.
THEOREM UnsyncedOnlyDuringInstallHolds == ConfigSpec => []UnsyncedOnlyDuringInstall
<1>1. ConfigInit => UnsyncedOnlyDuringInstall
  BY DEF ConfigInit, UnsyncedOnlyDuringInstall
<1>2. /\ ConfigTypeOK /\ UnsyncedOnlyDuringInstall /\ [ConfigNext]_configVars
      => UnsyncedOnlyDuringInstall'
  <2> SUFFICES ASSUME ConfigTypeOK, UnsyncedOnlyDuringInstall, [ConfigNext]_configVars,
                      (faults = 0 /\ durable # disk)'
               PROVE  \E q \in Processes : step'[q] \in {"ConfigInPlace", "SignatureInPlace"}
    BY DEF UnsyncedOnlyDuringInstall
  <2> USE DEF ConfigTypeOK
  \* A step that renames nothing and is not one of an install under way.
  <2>1. ASSUME NEW p \in Processes, NEW s, Goes(p, s),
               UNCHANGED <<disk, durable, faults>>,
               step[p] \notin {"ConfigInPlace", "SignatureInPlace"}
        PROVE  \E q \in Processes : step'[q] \in {"ConfigInPlace", "SignatureInPlace"}
    BY <2>1, OthersStay DEF UnsyncedOnlyDuringInstall
  <2>2. ASSUME NEW p \in Processes, NEW c \in Configs, Save(p, c)
        PROVE  \E q \in Processes : step'[q] \in {"ConfigInPlace", "SignatureInPlace"}
    BY <2>2, <2>1 DEF Save, Prepare
  <2>3. ASSUME NEW p \in Processes, FindMissing(p) \/ CreateMissing(p)
        PROVE  \E q \in Processes : step'[q] \in {"ConfigInPlace", "SignatureInPlace"}
    BY <2>3, <2>1 DEF FindMissing, CreateMissing, Prepare
  <2>4. ASSUME NEW p \in Processes, RenameConfig(p) \/ RenameSignature(p)
        PROVE  \E q \in Processes : step'[q] \in {"ConfigInPlace", "SignatureInPlace"}
    BY <2>4 DEF RenameConfig, RenameSignature, Goes
  <2>5. ASSUME NEW p \in Processes, SyncDirectory(p) PROVE FALSE
    BY <2>5 DEF SyncDirectory
  <2>6. ASSUME NEW p \in Processes, ReadConfig(p) \/ Load(p) \/ RefuseToLoad(p)
        PROVE  \E q \in Processes : step'[q] \in {"ConfigInPlace", "SignatureInPlace"}
    BY <2>6, <2>1 DEF ReadConfig, Load, RefuseToLoad
  <2>7. ASSUME NEW p \in Processes, Fail(p) PROVE FALSE
    BY <2>7, ConfigInstallAssumption DEF Fail
  <2>8. ASSUME NEW p \in Processes, Finish(p)
        PROVE  \E q \in Processes : step'[q] \in {"ConfigInPlace", "SignatureInPlace"}
    BY <2>8 DEF Finish, UnsyncedOnlyDuringInstall
  <2>9. ASSUME PowerLoss PROVE FALSE
    BY <2>9 DEF PowerLoss
  <2>10. CASE UNCHANGED configVars
    BY <2>10 DEF configVars, UnsyncedOnlyDuringInstall
  <2> QED
    BY <2>2, <2>3, <2>4, <2>5, <2>6, <2>7, <2>8, <2>9, <2>10 DEF ConfigNext
<1> QED
  BY <1>1, <1>2, ConfigTypesHold, PTL DEF ConfigSpec

----------------------------------------------------------------------------
(* The defaults. *)

\* What a process that found no configuration can still rely on.
NothingReplaceable ==
    \A p \in creating : step[p] \in {"Missing", "Prepared"} => disk.config = NoFile \/ disturbed[p]

LEMMA NothingReplaceableHolds == ConfigSpec => []NothingReplaceable
<1>1. ConfigInit => NothingReplaceable
  BY DEF ConfigInit, NothingReplaceable
<1>2. ConfigTypeOK /\ NothingReplaceable /\ [ConfigNext]_configVars => NothingReplaceable'
  <2> SUFFICES ASSUME ConfigTypeOK, NothingReplaceable, [ConfigNext]_configVars,
                      NEW p \in creating', step'[p] \in {"Missing", "Prepared"}
               PROVE  (disk.config = NoFile \/ disturbed[p])'
    BY DEF NothingReplaceable
  <2> USE DEF ConfigTypeOK
  \* Another process moves: if it renames, p is disturbed by it.
  <2>1. ASSUME NEW q \in Processes \ {p}, NEW s, Goes(q, s), creating' \subseteq creating \cup {q}
        PROVE  disturbed'[p]
    <3>1. p \in creating /\ p \in Processes
      BY <2>1
    <3>2. step[p] = step'[p] /\ step[p] \in Busy
      BY <2>1, <3>1 DEF Goes, Busy, Installing
    <3> QED
      BY <2>1, <3>1, <3>2 DEF Goes
  \* A step of p's own that leaves it there found no configuration, or goes on as before.
  <2>2. ASSUME FindMissing(p) PROVE disk'.config = NoFile
    BY <2>2 DEF FindMissing
  <2>3. ASSUME CreateMissing(p) PROVE (disk.config = NoFile \/ disturbed[p])'
    BY <2>3 DEF CreateMissing, Prepare, Goes, NothingReplaceable, Busy
  <2>4. ASSUME NEW c \in Configs, Save(p, c) PROVE FALSE
    BY <2>4 DEF Save, Prepare
  <2>5. ASSUME RenameConfig(p) \/ RenameSignature(p) \/ SyncDirectory(p) \/ ReadConfig(p)
                 \/ Load(p) \/ RefuseToLoad(p) \/ Fail(p) \/ Finish(p)
        PROVE  FALSE
    BY <2>5 DEF RenameConfig, RenameSignature, SyncDirectory, ReadConfig, Load, RefuseToLoad,
                Fail, Finish, Goes
  <2>6. ASSUME NEW q \in Processes \ {p}, Finish(q)
        PROVE  (disk.config = NoFile \/ disturbed[p])'
    BY <2>6 DEF Finish, NothingReplaceable
  <2>7. ASSUME NEW q \in Processes \ {p},
               \/ \E c \in Configs : Save(q, c)
               \/ FindMissing(q) \/ CreateMissing(q) \/ RenameConfig(q) \/ RenameSignature(q)
               \/ SyncDirectory(q) \/ ReadConfig(q) \/ Load(q) \/ RefuseToLoad(q) \/ Fail(q)
        PROVE  disturbed'[p]
    BY <2>7, <2>1 DEF Save, Prepare, FindMissing, CreateMissing, RenameConfig, RenameSignature,
                      SyncDirectory, ReadConfig, Load, RefuseToLoad, Fail
  <2>8. ASSUME PowerLoss PROVE FALSE
    BY <2>8 DEF PowerLoss
  <2>9. CASE UNCHANGED configVars
    BY <2>9 DEF configVars, NothingReplaceable
  <2> QED
    BY <2>2, <2>3, <2>4, <2>5, <2>6, <2>7, <2>8, <2>9 DEF ConfigNext
<1> QED
  BY <1>1, <1>2, ConfigTypesHold, PTL DEF ConfigSpec

\* Looking for the configuration and writing the defaults are not one step, but nothing that
\* was there before is lost: whatever the defaults replace was saved by an install that
\* overlapped with their own.
THEOREM DefaultsReplaceNothingHolds == ConfigSpec => DefaultsReplaceNothing
<1> DEFINE Allowed(p) == step[p] = "Prepared" /\ step'[p] \in {"ConfigInPlace", "SignatureInPlace"}
                            => disk.config = NoFile \/ disturbed[p]
<1>1. NothingReplaceable => \A p \in creating : Allowed(p)
  BY DEF NothingReplaceable
<1> QED
  BY <1>1, NothingReplaceableHolds, PTL DEF DefaultsReplaceNothing

----------------------------------------------------------------------------
(* Installs. *)

\* What an install that nothing disturbed has put in place is still there.
InPlace(p) ==
    /\ step[p] = "ConfigInPlace" => disk.config = saving[p]
    /\ step[p] = "SignatureInPlace" => disk.config = saving[p] /\ PairLoads(disk)

HeldInPlace == \A p \in Processes : ~disturbed[p] => InPlace(p)

LEMMA HeldInPlaceHolds == ConfigSpec => []HeldInPlace
<1>1. ConfigInit => HeldInPlace
  BY DEF ConfigInit, HeldInPlace, InPlace
<1>2. ConfigTypeOK /\ HeldInPlace /\ [ConfigNext]_configVars => HeldInPlace'
  <2> SUFFICES ASSUME ConfigTypeOK, HeldInPlace, [ConfigNext]_configVars,
                      NEW p \in Processes, ~disturbed'[p]
               PROVE  InPlace(p)'
    BY DEF HeldInPlace
  <2> USE DEF ConfigTypeOK, InPlace, PairLoads
  \* Another process moves: p has nothing in place, or it would be disturbed.
  <2>1. ASSUME NEW q \in Processes \ {p}, NEW s, Goes(q, s) PROVE InPlace(p)'
    BY <2>1 DEF Goes, Busy, Installing
  <2>2. ASSUME NEW q \in Processes \ {p},
               \/ \E c \in Configs : Save(q, c)
               \/ FindMissing(q) \/ CreateMissing(q) \/ RenameConfig(q) \/ RenameSignature(q)
               \/ SyncDirectory(q) \/ ReadConfig(q) \/ Load(q) \/ RefuseToLoad(q) \/ Fail(q)
        PROVE  InPlace(p)'
    BY <2>2, <2>1 DEF Save, Prepare, FindMissing, CreateMissing, RenameConfig, RenameSignature,
                      SyncDirectory, ReadConfig, Load, RefuseToLoad, Fail
  <2>3. ASSUME \/ \E c \in Configs : Save(p, c)
               \/ FindMissing(p) \/ CreateMissing(p) \/ SyncDirectory(p)
               \/ ReadConfig(p) \/ Load(p) \/ RefuseToLoad(p) \/ Fail(p)
        PROVE  InPlace(p)'
    BY <2>3 DEF Save, Prepare, FindMissing, CreateMissing, SyncDirectory, ReadConfig, Load,
                RefuseToLoad, Fail, Goes
  <2>4. ASSUME RenameConfig(p) PROVE InPlace(p)'
    BY <2>4 DEF RenameConfig, Goes, Files
  <2>5. ASSUME RenameSignature(p) PROVE InPlace(p)'
    <3>1. ~disturbed[p]
      BY <2>5 DEF RenameSignature, Goes, Busy, Installing
    <3> QED
      BY <2>5, <3>1 DEF RenameSignature, Goes, HeldInPlace, Files
  <2>6. ASSUME NEW q \in Processes, Finish(q) PROVE InPlace(p)'
    BY <2>6 DEF Finish, HeldInPlace
  <2>7. ASSUME PowerLoss PROVE InPlace(p)'
    BY <2>7 DEF PowerLoss
  <2>8. CASE UNCHANGED configVars
    BY <2>8 DEF configVars, HeldInPlace
  <2> QED
    BY <2>2, <2>3, <2>4, <2>5, <2>6, <2>7, <2>8 DEF ConfigNext
<1> QED
  BY <1>1, <1>2, ConfigTypesHold, PTL DEF ConfigSpec

\* An install nothing overlapped with leaves its configuration in place and a pair that
\* loads, whatever half-done installs and power losses had left there.
THEOREM InstallHealsHolds == ConfigSpec => InstallHeals
<1> DEFINE Heals(p) == step'[p] = "Installed" /\ step[p] # "Installed" /\ ~disturbed'[p]
                          => disk'.config = saving[p] /\ PairLoads(disk')
<1>1. ConfigTypeOK /\ HeldInPlace /\ [ConfigNext]_configVars => \A p \in Processes : Heals(p)
  <2> SUFFICES ASSUME ConfigTypeOK, HeldInPlace, [ConfigNext]_configVars, NEW p \in Processes,
                      step'[p] = "Installed", step[p] # "Installed", ~disturbed'[p]
               PROVE  disk'.config = saving[p] /\ PairLoads(disk')
    OBVIOUS
  <2>1. SyncDirectory(p)
    <3> USE DEF ConfigTypeOK
    <3>1. ASSUME NEW q \in Processes, NEW s, Goes(q, s), s # "Installed" PROVE FALSE
      BY <3>1 DEF Goes
    <3>2. ASSUME NEW q \in Processes, SyncDirectory(q) PROVE q = p
      BY <3>2 DEF SyncDirectory, Goes
    <3>3. ASSUME NEW q \in Processes,
                 \/ \E c \in Configs : Save(q, c)
                 \/ FindMissing(q) \/ CreateMissing(q) \/ RenameConfig(q) \/ RenameSignature(q)
                 \/ ReadConfig(q) \/ Load(q) \/ RefuseToLoad(q) \/ Fail(q)
          PROVE  FALSE
      BY <3>3, <3>1 DEF Save, Prepare, FindMissing, CreateMissing, RenameConfig, RenameSignature,
                        ReadConfig, Load, RefuseToLoad, Fail
    <3>4. ASSUME (\E q \in Processes : Finish(q)) \/ PowerLoss \/ UNCHANGED configVars PROVE FALSE
      BY <3>4 DEF Finish, PowerLoss, configVars
    <3> QED
      BY <3>2, <3>3, <3>4 DEF ConfigNext
  <2>2. ~disturbed[p]
    BY <2>1 DEF SyncDirectory, Goes, Busy, Installing, ConfigTypeOK
  <2> QED
    BY <2>1, <2>2 DEF SyncDirectory, HeldInPlace, InPlace
<1> QED
  BY <1>1, ConfigTypesHold, HeldInPlaceHolds, PTL DEF ConfigSpec, InstallHeals

----------------------------------------------------------------------------
(* Starts. *)

\* As long as no install was disturbed: with no install in place by half, the pair loads;
\* and a process that nothing disturbed reads such a pair and is not refused.
StartInvariant ==
    faults = 0 /\ ~tainted =>
        /\ (\A p \in Processes : step[p] \notin {"ConfigInPlace", "SignatureInPlace"})
               => PairLoads(disk)
        /\ \A p \in Processes : ~disturbed[p] =>
               /\ step[p] = "Reading" => read[p] = disk.config /\ PairLoads(disk)
               /\ step[p] # "Refused"

\* A start is refused only if it overlapped with another operation, unless some install was
\* disturbed or hit by a fault before.
THEOREM StartLoadsHolds == ConfigSpec => []StartLoads
<1>1. ConfigInit => StartInvariant
  BY ConfigInstallAssumption DEF ConfigInit, StartInvariant, PairLoads
<1>2. /\ ConfigTypeOK /\ HeldInPlace /\ StartInvariant /\ [ConfigNext]_configVars
      => StartInvariant'
  <2> SUFFICES ASSUME ConfigTypeOK, HeldInPlace, StartInvariant, [ConfigNext]_configVars,
                      (faults = 0 /\ ~tainted)'
               PROVE  /\ (\A p \in Processes : step'[p] \notin {"ConfigInPlace", "SignatureInPlace"})
                            => PairLoads(disk')
                      /\ \A p \in Processes : ~disturbed'[p] =>
                             /\ step'[p] = "Reading" => read'[p] = disk'.config /\ PairLoads(disk')
                             /\ step'[p] # "Refused"
    BY DEF StartInvariant
  <2> DEFINE Half(q) == step[q] \in {"ConfigInPlace", "SignatureInPlace"}
             Whole == (\A p \in Processes : step[p] \notin {"ConfigInPlace", "SignatureInPlace"})
                         => PairLoads(disk)
             Starting(p) == ~disturbed[p] =>
                /\ step[p] = "Reading" => read[p] = disk.config /\ PairLoads(disk)
                /\ step[p] # "Refused"
  <2> SUFFICES Whole' /\ \A p \in Processes : Starting(p)'
    OBVIOUS
  <2> USE DEF ConfigTypeOK, PairLoads
  <2>1. ~PowerLoss /\ \A q \in Processes : ~Fail(q)
    BY ConfigInstallAssumption DEF PowerLoss, Fail
  <2>2. faults = 0 /\ ~tainted
    BY <2>1 DEF ConfigNext, configVars, Save, Prepare, FindMissing, CreateMissing, RenameConfig,
                RenameSignature, SyncDirectory, ReadConfig, Load, RefuseToLoad, Finish, Goes
  <2>3. Whole /\ \A p \in Processes : Starting(p)
    BY <2>2 DEF StartInvariant
  \* Steps that rename nothing and belong to no install under way.
  <2>4. ASSUME NEW q \in Processes, NEW s, Goes(q, s), UNCHANGED <<disk, read>>, ~Half(q),
               s \notin {"Reading", "Refused"}
        PROVE  Whole' /\ \A p \in Processes : Starting(p)'
    <3>1. \A r \in Processes : Half(r) => Half(r)'
      BY <2>4 DEF Goes
    <3>2. \A p \in Processes : step'[p] \in {"Reading", "Refused"} =>
              step'[p] = step[p] /\ (disturbed[p] => disturbed'[p])
      BY <2>4 DEF Goes
    <3> QED
      BY <2>3, <2>4, <3>1, <3>2
  <2>5. ASSUME NEW q \in Processes, RenameConfig(q) \/ RenameSignature(q)
        PROVE  Whole' /\ \A p \in Processes : Starting(p)'
    <3>1. Half(q)'
      BY <2>5 DEF RenameConfig, RenameSignature, Goes
    <3>2. \A p \in Processes : ~disturbed'[p] /\ step'[p] \in {"Reading", "Refused"} =>
              step[p] = "Refused" /\ ~disturbed[p]
      BY <2>5 DEF RenameConfig, RenameSignature, Goes, Busy
    <3> QED
      BY <2>3, <3>1, <3>2
  <2>6. ASSUME NEW q \in Processes, SyncDirectory(q)
        PROVE  Whole' /\ \A p \in Processes : Starting(p)'
    <3>1. ~disturbed[q] /\ UNCHANGED <<disk, read>>
      BY <2>6 DEF SyncDirectory, Goes, Busy, Installing
    <3>2. PairLoads(disk)
      BY <3>1, <2>6 DEF HeldInPlace, InPlace, SyncDirectory
    <3>3. \A p \in Processes : ~disturbed'[p] /\ step'[p] \in {"Reading", "Refused"} =>
              step[p] = step'[p] /\ ~disturbed[p]
      BY <2>6 DEF SyncDirectory, Goes
    <3> QED
      BY <2>3, <3>1, <3>2, <3>3
  <2>7. ASSUME NEW q \in Processes, ReadConfig(q)
        PROVE  Whole' /\ \A p \in Processes : Starting(p)'
    <3>1. Whole'
      BY <2>7, <2>3 DEF ReadConfig, Goes
    <3>2. Starting(q)'
      <4> SUFFICES ASSUME ~disturbed'[q] PROVE read'[q] = disk'.config /\ PairLoads(disk')
        BY <2>7 DEF ReadConfig, Goes
      <4>1. \A r \in Processes : ~Half(r)
        BY <2>7 DEF ReadConfig, Goes, Busy, Installing
      <4> QED
        BY <4>1, <2>7, <2>3 DEF ReadConfig
    <3>3. ASSUME NEW p \in Processes \ {q} PROVE Starting(p)'
      BY <3>3, <2>7, <2>3 DEF ReadConfig, Goes, Busy
    <3> QED
      BY <3>1, <3>2, <3>3
  <2>8. ASSUME NEW q \in Processes, RefuseToLoad(q)
        PROVE  Whole' /\ \A p \in Processes : Starting(p)'
    <3>1. disturbed'[q]
      BY <2>8, <2>3 DEF RefuseToLoad, Verified, Goes, Busy
    <3>2. Whole'
      BY <2>8, <2>3 DEF RefuseToLoad, Goes
    <3>3. ASSUME NEW p \in Processes \ {q} PROVE Starting(p)'
      BY <3>3, <2>8, <2>3 DEF RefuseToLoad, Goes
    <3> QED
      BY <3>1, <3>2, <3>3
  <2>9. ASSUME NEW q \in Processes,
               \/ \E c \in Configs : Save(q, c)
               \/ FindMissing(q) \/ CreateMissing(q) \/ Load(q)
        PROVE  Whole' /\ \A p \in Processes : Starting(p)'
    BY <2>9, <2>4 DEF Save, Prepare, FindMissing, CreateMissing, Load
  <2>10. ASSUME NEW q \in Processes, Finish(q)
         PROVE  Whole' /\ \A p \in Processes : Starting(p)'
    BY <2>10, <2>3 DEF Finish
  <2>11. CASE UNCHANGED configVars
    BY <2>11, <2>3 DEF configVars
  <2> QED
    BY <2>1, <2>5, <2>6, <2>7, <2>8, <2>9, <2>10, <2>11 DEF ConfigNext
<1>3. StartInvariant => StartLoads
  BY DEF StartInvariant, StartLoads
<1> QED
  BY <1>1, <1>2, <1>3, ConfigTypesHold, HeldInPlaceHolds, PTL DEF ConfigSpec
=============================================================================
