------------------------- MODULE SharedFiles_proofs -------------------------
(***************************************************************************)
(* Files that several shells rewrite at once, any of which may be killed:  *)
(* the binary that yby upgrade replaces, the manifest of the environments, *)
(* the files of ~/.yby, the sealed keys with their backup, and the plugins *)
(* with their registry.                                                    *)
(*                                                                         *)
(* The upgrade. The invariant ties the step of the one upgrade that        *)
(* replaces the binary to the inodes: until the new file is whole the .bak *)
(* runs, and the file it writes is not the .bak; after that what is in     *)
(* place runs.                                                             *)
(*                                                                         *)
(* The environments. What the file promises, the copies that are about to  *)
(* replace it promise too, and values files are never removed: so a copy   *)
(* read long ago still keeps the promise when it is written.               *)
(*                                                                         *)
(* The files of ~/.yby. While no writer of the log was overtaken, the log  *)
(* and its predecessor hold the last lines written, in order and without a *)
(* gap; while nothing disturbed the credentials, the file is what is       *)
(* expected of it, or will be when the only process about to write it has  *)
(* done so.                                                                *)
(*                                                                         *)
(* The sealed keys. A backup that is vouched for is whole and its HMAC is  *)
(* the one of its content, its host and its path; keys reported restored   *)
(* are in the cluster and so with any controller that starts; and a        *)
(* cluster without keys is one where a rotation is under way or something  *)
(* failed.                                                                 *)
(*                                                                         *)
(* The plugins. What a command read of the registry was trusted once, and  *)
(* stays so, and what it is about to execute is what it hashed, equal to   *)
(* what it had read, unless the file was replaced since; an install that   *)
(* nobody disturbs knows at each step what is in its file and in the       *)
(* registry.                                                               *)
(***************************************************************************)
EXTENDS SelfUpgrade, Environments, HomeFiles, SealedKeys, PluginRegistry, WellFoundedInduction, TLAPS

-----------------------------------------------------------------------------
(* The upgrade.                                                            *)

DataIsWhole == \A u \in Upgraders : upgrade[u].pc \notin {"idle", "verify"} => upgrade[u].data = "whole"

NamesAreUsed == inPlace <= used /\ backup <= used

OneReplaces == \A u, v \in Upgraders : Replacing(u) /\ Replacing(v) => u = v

StepFits(u) ==
    /\ upgrade[u].pc \in {"open", "write", "rollback"} => Runs(backup)
    /\ upgrade[u].pc = "open" => inPlace = 0
    /\ upgrade[u].pc = "write" => upgrade[u].fd = inPlace /\ inPlace # 0 /\ inPlace # backup
    /\ upgrade[u].pc = "remove" => Runs(inPlace)

UpgradeInv ==
    /\ UpgradeTypeOK /\ DataIsWhole /\ NamesAreUsed
    /\ ~overlapped => OneReplaces /\ (\A u \in Upgraders : StepFits(u)) /\ (Runs(inPlace) \/ Runs(backup))

(* The invariant holds at first.                                           *)
LEMMA UpgradeInitInv == UpgradeInit => UpgradeInv
  <1> SUFFICES ASSUME UpgradeInit PROVE UpgradeInv
    OBVIOUS
  <1> USE DEF UpgradeInit, NoUpgrade
  <1>1. overlapped \in BOOLEAN /\ upgrade \in [Upgraders -> [pc : {"idle"}, data : {"none"}, fd : {0}]]
    OBVIOUS
  <1>2. UpgradeTypeOK
    BY <1>1, UpgradeConstants DEF UpgradeTypeOK
  <1>3. DataIsWhole /\ OneReplaces /\ \A u \in Upgraders : StepFits(u)
    BY DEF DataIsWhole, OneReplaces, StepFits, Replacing
  <1>4. NamesAreUsed /\ Runs(inPlace)
    BY UpgradeConstants DEF NamesAreUsed, Runs
  <1>5. QED
    BY <1>2, <1>3, <1>4 DEF UpgradeInv

(* What BackUpBinary does, its history variable aside.                     *)
LEMMA BackUpMoves ==
    ASSUME NEW u \in Upgraders, BackUpBinary(u)
    PROVE  /\ upgrade[u].pc = "rename" /\ UNCHANGED <<inodes, used>>
           /\ IF inPlace = 0
              THEN upgrade' = [upgrade EXCEPT ![u] = NoUpgrade] /\ UNCHANGED <<inPlace, backup>>
              ELSE /\ backup' = inPlace /\ inPlace' = 0
                   /\ upgrade' = [upgrade EXCEPT ![u].pc = "open"]
  BY Zenon DEF BackUpBinary

(* Every step keeps the types,                                             *)
LEMMA UpgradeTypes == ASSUME UpgradeTypeOK, UpgradeNext PROVE UpgradeTypeOK'
  <1> USE UpgradeConstants DEF UpgradeTypeOK, NoUpgrade
  <1>1. CASE RestoreByHand
    BY <1>1 DEF RestoreByHand
  <1>2. ASSUME NEW u \in Upgraders, NEW data \in {"whole", "bad"}, Download(u, data)
        PROVE  UpgradeTypeOK'
    <2>1. [NoUpgrade EXCEPT !.pc = "verify", !.data = data] \in [pc : {"verify"}, data : {"whole", "bad"}, fd : {0}]
      BY DEF NoUpgrade
    <2>2. upgrade' \in [Upgraders -> [pc : {"idle", "verify", "rename", "open", "write", "rollback", "remove"},
                                      data : {"none", "whole", "bad"}, fd : 0..MaxInodes]]
      BY <1>2, <2>1 DEF Download
    <2>3. QED
      BY <1>2, <2>2 DEF Download
  <1>3. ASSUME NEW u \in Upgraders, VerifyChecksum(u) PROVE UpgradeTypeOK'
    BY <1>3 DEF VerifyChecksum
  <1>4. ASSUME NEW u \in Upgraders, BackUpBinary(u) PROVE UpgradeTypeOK'
    <2>1. overlapped' \in BOOLEAN
      BY <1>4, Zenon DEF BackUpBinary
    <2>2. upgrade' \in [Upgraders -> [pc : {"idle", "verify", "rename", "open", "write", "rollback", "remove"},
                                      data : {"none", "whole", "bad"}, fd : 0..MaxInodes]]
      BY <1>4, BackUpMoves
    <2>3. QED
      BY <1>4, <2>1, <2>2, BackUpMoves
  <1>5. ASSUME NEW u \in Upgraders, OpenBinary(u) PROVE UpgradeTypeOK'
    <2> DEFINE i == IF inPlace = 0 THEN used + 1 ELSE inPlace
    <2>1. i \in 1..MaxInodes
      BY <1>5 DEF OpenBinary
    <2>2. /\ inPlace' = i /\ used' = (IF inPlace = 0 THEN used + 1 ELSE used)
          /\ inodes' = [inodes EXCEPT ![i] = "part"]
          /\ upgrade' = [upgrade EXCEPT ![u].pc = "write", ![u].fd = i]
          /\ UNCHANGED <<backup, overlapped>>
      BY <1>5 DEF OpenBinary
    <2>3. used' \in 1..MaxInodes
      BY <2>1, <2>2
    <2>4. overlapped' \in BOOLEAN
      BY <2>2
    <2> HIDE DEF i
    <2> DEFINE opened == [upgrade[u] EXCEPT !.pc = "write", !.fd = i]
    <2>5. upgrade' = [upgrade EXCEPT ![u] = opened]
      BY <2>2
    <2>6. ASSUME NEW r \in [pc : {"open"}, data : {"none", "whole", "bad"}, fd : 0..MaxInodes],
                 NEW j \in 0..MaxInodes
          PROVE  [r EXCEPT !.pc = "write", !.fd = j]
                   \in [pc : {"write"}, data : {"none", "whole", "bad"}, fd : 0..MaxInodes]
      OBVIOUS
    <2>7. upgrade[u] \in [pc : {"open"}, data : {"none", "whole", "bad"}, fd : 0..MaxInodes]
      BY <1>5 DEF OpenBinary
    <2>8. opened \in [pc : {"write"}, data : {"none", "whole", "bad"}, fd : 0..MaxInodes]
      <3>1. i \in 0..MaxInodes
        BY <2>1
      <3>2. QED
        BY <2>6, <2>7, <3>1, Zenon
    <2> HIDE DEF opened
    <2>9. upgrade' \in [Upgraders -> [pc : {"idle", "verify", "rename", "open", "write", "rollback", "remove"},
                                      data : {"none", "whole", "bad"}, fd : 0..MaxInodes]]
      BY <2>5, <2>8
    <2>10. inodes' \in [1..MaxInodes -> {"none", "part", "whole", "bad"}]
      BY <2>1, <2>2
    <2>11. inPlace' \in 0..MaxInodes /\ backup' \in 0..MaxInodes
      BY <2>1, <2>2
    <2>12. QED
      BY <2>2, <2>3, <2>4, <2>9, <2>10, <2>11
  <1>6. ASSUME NEW u \in Upgraders, WriteBinary(u) PROVE UpgradeTypeOK'
    BY <1>6 DEF WriteBinary
  <1>7. ASSUME NEW u \in Upgraders, WriteFails(u) PROVE UpgradeTypeOK'
    BY <1>7 DEF WriteFails
  <1>8. ASSUME NEW u \in Upgraders, RollBack(u) PROVE UpgradeTypeOK'
    BY <1>8 DEF RollBack
  <1>9. ASSUME NEW u \in Upgraders, RemoveBackup(u) PROVE UpgradeTypeOK'
    BY <1>9 DEF RemoveBackup
  <1>10. ASSUME NEW u \in Upgraders, KillUpgrade(u) PROVE UpgradeTypeOK'
    BY <1>10 DEF KillUpgrade
  <1>11. QED
    BY <1>1, <1>2, <1>3, <1>4, <1>5, <1>6, <1>7, <1>8, <1>9, <1>10 DEF UpgradeNext

(* and the invariant.                                                      *)
LEMMA UpgradeKeepsInv == ASSUME UpgradeInv, UpgradeNext PROVE UpgradeInv'
  <1> USE UpgradeConstants DEF UpgradeInv
  <1>0. UpgradeTypeOK'
    BY UpgradeTypes
  <1> USE <1>0 DEF UpgradeTypeOK, DataIsWhole, NamesAreUsed, OneReplaces, StepFits, Runs, Replacing, NoUpgrade
  <1>1. CASE RestoreByHand
    BY <1>1 DEF RestoreByHand
  <1>2. ASSUME NEW u \in Upgraders, NEW data \in {"whole", "bad"}, Download(u, data)
        PROVE  UpgradeInv'
    BY <1>2 DEF Download
  <1>3. ASSUME NEW u \in Upgraders, VerifyChecksum(u) PROVE UpgradeInv'
    BY <1>3 DEF VerifyChecksum
  <1>4. ASSUME NEW u \in Upgraders, BackUpBinary(u) PROVE UpgradeInv'
    <2>1. ~overlapped' => ~overlapped
      BY <1>4, Zenon DEF BackUpBinary
    <2>2. ~overlapped' /\ inPlace # 0 => Runs(inPlace) /\ \A v \in Upgraders \ {u} : ~Replacing(v)
      BY <1>4, Zenon DEF BackUpBinary
    <2>3. /\ upgrade[u].pc = "rename" /\ UNCHANGED <<inodes, used>>
          /\ IF inPlace = 0
             THEN upgrade' = [upgrade EXCEPT ![u] = NoUpgrade] /\ UNCHANGED <<inPlace, backup>>
             ELSE /\ backup' = inPlace /\ inPlace' = 0
                  /\ upgrade' = [upgrade EXCEPT ![u].pc = "open"]
      BY <1>4, BackUpMoves
    <2>4. DataIsWhole'
      BY <2>3
    <2>5. NamesAreUsed'
      BY <2>3
    <2>6. ~overlapped' => OneReplaces'
      BY <2>1, <2>2, <2>3
    <2>7. ~overlapped' => \A v \in Upgraders : StepFits(v)'
      BY <2>1, <2>2, <2>3
    <2>8. ~overlapped' => Runs(inPlace)' \/ Runs(backup)'
      BY <2>1, <2>2, <2>3
    <2>9. QED
      BY <1>0, <2>1, <2>4, <2>5, <2>6, <2>7, <2>8, Zenon
  <1>5. ASSUME NEW u \in Upgraders, OpenBinary(u) PROVE UpgradeInv'
    BY <1>5 DEF OpenBinary
  <1>6. ASSUME NEW u \in Upgraders, WriteBinary(u) PROVE UpgradeInv'
    BY <1>6 DEF WriteBinary
  <1>7. ASSUME NEW u \in Upgraders, WriteFails(u) PROVE UpgradeInv'
    BY <1>7 DEF WriteFails
  <1>8. ASSUME NEW u \in Upgraders, RollBack(u) PROVE UpgradeInv'
    BY <1>8 DEF RollBack
  <1>9. ASSUME NEW u \in Upgraders, RemoveBackup(u) PROVE UpgradeInv'
    BY <1>9 DEF RemoveBackup
  <1>10. ASSUME NEW u \in Upgraders, KillUpgrade(u) PROVE UpgradeInv'
    BY <1>10 DEF KillUpgrade
  <1>11. QED
    BY <1>1, <1>2, <1>3, <1>4, <1>5, <1>6, <1>7, <1>8, <1>9, <1>10 DEF UpgradeNext

(* The invariant holds always.                                             *)
LEMMA UpgradeInvariant == UpgradeSpec => []UpgradeInv
  <1>1. UpgradeInv /\ [UpgradeNext]_upgradeVars => UpgradeInv'
    <2>1. CASE UNCHANGED upgradeVars
      BY <2>1 DEF upgradeVars, UpgradeInv, UpgradeTypeOK, DataIsWhole, NamesAreUsed, OneReplaces, StepFits,
                  Runs, Replacing
    <2>2. QED
      BY <2>1, UpgradeKeepsInv
  <1>2. QED
    BY <1>1, UpgradeInitInv, PTL DEF UpgradeSpec

(* Inodes, names and the steps of an upgrade keep their types.             *)
THEOREM UpgradeTyped == UpgradeSpec => []UpgradeTypeOK
  BY UpgradeInvariant, PTL DEF UpgradeInv

(* Wherever upgrades fail or are killed, however many there are: a whole,  *)
(* verified program is in place or in its .bak, unless two overlapped.     *)
THEOREM NeverLost == UpgradeSpec => []AlwaysRecoverable
  <1>1. UpgradeInv => AlwaysRecoverable
    BY DEF UpgradeInv, AlwaysRecoverable
  <1>2. QED
    BY <1>1, UpgradeInvariant, PTL

-----------------------------------------------------------------------------
(* The environments.                                                       *)

Commands == [pc : {"idle", "kubeconfig", "load", "values", "save", "context"},
             op : {"use", "create", "connect"}, name : EnvNames \union {NoEnv},
             copy : EnvManifests]

Defined(m) == m.parses /\ m.current \in m.envs

HoldsCopy(s) == envCmd[s].pc \in {"values", "save"}

NamesKnown == \A s \in EnvShells : envCmd[s].pc # "idle" => envCmd[s].name \in EnvNames

Copies == \A s \in EnvShells : HoldsCopy(s) => envCmd[s].copy.envs \subseteq valuesFiles

Current == Defined(envFile) /\ \A s \in EnvShells : HoldsCopy(s) => Defined(envCmd[s].copy)

EnvInv ==
    /\ EnvTypeOK /\ NamesKnown
    /\ envFile.envs \subseteq valuesFiles /\ Copies
    /\ ~envTorn => Current

(* The invariant holds at first.                                           *)
LEMMA EnvInitInv == EnvInit => EnvInv
  <1> SUFFICES ASSUME EnvInit PROVE EnvInv
    OBVIOUS
  <1> USE EnvConstants DEF EnvInit
  <1>1. PICK c \in InitialEnvs : envFile = [parses |-> TRUE, current |-> c, envs |-> InitialEnvs]
    OBVIOUS
  <1>2. NoEnvCmd \in Commands
    BY DEF NoEnvCmd, Commands, EnvManifests
  <1>3. EnvTypeOK
    BY <1>1, <1>2 DEF EnvTypeOK, EnvManifests, Commands
  <1>4. NamesKnown /\ Copies /\ Current
    BY <1>1 DEF NamesKnown, Copies, Current, HoldsCopy, Defined, NoEnvCmd
  <1>5. QED
    BY <1>1, <1>3, <1>4 DEF EnvInv

(* Every step keeps the types,                                             *)
LEMMA EnvTypes == ASSUME EnvTypeOK, NamesKnown, EnvNext PROVE EnvTypeOK' /\ NamesKnown'
  <1> DEFINE Files == envFile \in EnvManifests /\ valuesFiles \subseteq EnvNames
                      /\ kubectl \in EnvNames \union {NoEnv} /\ envTorn \in BOOLEAN
             Typed == envCmd \in [EnvShells -> Commands] /\ NamesKnown
  <1>1. Files /\ Typed
    BY DEF EnvTypeOK, Commands
  <1>2. ASSUME Files', Typed' PROVE EnvTypeOK' /\ NamesKnown'
    BY <1>2 DEF EnvTypeOK, Commands
  <1>3. NoEnvCmd \in Commands
    BY DEF NoEnvCmd, Commands, EnvManifests
  <1>4. ASSUME NEW s \in EnvShells, EnvEnds(s) PROVE Typed'
    <2>1. NoEnvCmd.pc = "idle"
      BY DEF NoEnvCmd
    <2>2. QED
      BY <1>1, <1>3, <1>4, <2>1 DEF EnvEnds, NamesKnown
  <1>5. ASSUME NEW s \in EnvShells, NEW pc \in {"idle", "kubeconfig", "load", "values", "save", "context"},
               envCmd[s].pc # "idle", EnvGoes(s, pc)
        PROVE  Typed'
    BY <1>1, <1>5 DEF EnvGoes, Commands, NamesKnown
  <1>6. ASSUME NEW s \in EnvShells, NEW n \in EnvNames, SetCurrent(s, n) PROVE Files' /\ Typed'
    <2>1. [envFile EXCEPT !.current = n] \in EnvManifests
      BY <1>1 DEF EnvManifests
    <2>2. [pc |-> "save", op |-> "use", name |-> n, copy |-> [envFile EXCEPT !.current = n]] \in Commands
      BY <2>1 DEF Commands
    <2>3. QED
      BY <1>1, <1>6, <2>2 DEF SetCurrent, NamesKnown
  <1>7. ASSUME NEW s \in EnvShells, NEW op \in {"create", "connect"}, NEW n \in EnvNames,
               NEW pc \in {"kubeconfig", "load"}, BeginAdding(s, op, n, pc)
        PROVE  Files' /\ Typed'
    <2>1. /\ [NoEnvCmd EXCEPT !.pc = pc, !.op = op, !.name = n] \in Commands
          /\ [NoEnvCmd EXCEPT !.pc = pc, !.op = op, !.name = n].name = n
      BY <1>3 DEF Commands
    <2>2. QED
      BY <1>1, <1>7, <2>1 DEF BeginAdding, NamesKnown
  <1>8. ASSUME NEW s \in EnvShells, UseKubeContext(s) PROVE Files' /\ Typed'
    <2> DEFINE context == IF envFile.parses /\ envCmd[s].name \in envFile.envs
                          THEN KubeContextOf[envCmd[s].name] ELSE NoEnv
    <2>1. context \in EnvNames \union {NoEnv}
      BY <1>1, EnvConstants DEF EnvManifests
    <2>2. kubectl' \in {kubectl} \union ({context} \ {NoEnv}) /\ EnvEnds(s)
          /\ UNCHANGED <<envFile, valuesFiles, envTorn>>
      BY <1>8 DEF UseKubeContext
    <2> HIDE DEF context
    <2>3. QED
      BY <1>1, <1>4, <2>1, <2>2
  <1>9. ASSUME NEW s \in EnvShells, ConfigureKubeconfig(s) PROVE Files' /\ Typed'
    BY <1>1, <1>4, <1>5, <1>9 DEF ConfigureKubeconfig, Commands
  <1>10. ASSUME NEW s \in EnvShells, LoadToAdd(s) PROVE Files' /\ Typed'
    <2>1. CASE EnvEnds(s)
      BY <1>1, <1>4, <1>10, <2>1 DEF LoadToAdd
    <2>2. CASE envCmd' = [envCmd EXCEPT ![s].pc = "values", ![s].copy = envFile]
      BY <1>1, <1>10, <2>2 DEF LoadToAdd, Commands, NamesKnown
    <2>3. QED
      BY <1>10, <2>1, <2>2 DEF LoadToAdd
  <1>11. ASSUME NEW s \in EnvShells, WriteValues(s) PROVE Files' /\ Typed'
    <2>1. Files'
      BY <1>1, <1>11 DEF WriteValues, NamesKnown
    <2>2. CASE EnvEnds(s)
      BY <1>4, <2>1, <2>2
    <2>3. CASE envCmd' = [envCmd EXCEPT ![s].pc = "save", ![s].copy.envs = @ \union {envCmd[s].name}]
      <3>1. envCmd[s].name \in EnvNames
        BY <1>1, <1>11 DEF WriteValues, NamesKnown
      <3>2. ASSUME NEW r \in Commands, NEW n \in EnvNames
            PROVE  [r EXCEPT !.pc = "save", !.copy.envs = @ \union {n}] \in Commands
        <4>1. [r.copy EXCEPT !.envs = @ \union {n}] \in EnvManifests
          BY DEF Commands, EnvManifests
        <4>2. [r EXCEPT !.pc = "save", !.copy = [r.copy EXCEPT !.envs = @ \union {n}]] \in Commands
          BY <4>1 DEF Commands
        <4>3. QED
          BY <4>2 DEF Commands
      <3> DEFINE saved == [envCmd[s] EXCEPT !.pc = "save", !.copy.envs = @ \union {envCmd[s].name}]
      <3>3. saved \in Commands
        BY <1>1, <3>1, <3>2
      <3>4. envCmd' = [envCmd EXCEPT ![s] = saved] /\ saved.name = envCmd[s].name
        BY <1>1, <2>3 DEF Commands
      <3> HIDE DEF saved
      <3>5. QED
        BY <1>1, <2>1, <3>1, <3>3, <3>4 DEF NamesKnown
    <2>4. QED
      BY <1>11, <2>2, <2>3 DEF WriteValues
  <1>12. ASSUME NEW s \in EnvShells, SaveEnvManifest(s) PROVE Files' /\ Typed'
    BY <1>1, <1>4, <1>5, <1>12 DEF SaveEnvManifest, Commands
  <1>13. ASSUME NEW s \in EnvShells, EnvStops(s) PROVE Files' /\ Typed'
    <2>1. envFile' \in EnvManifests
      BY <1>1, <1>3, <1>13 DEF EnvStops, Commands, EnvManifests
    <2>2. envTorn' \in BOOLEAN
      BY <1>1, <1>13, Zenon DEF EnvStops
    <2>3. QED
      BY <1>1, <1>4, <1>13, <2>1, <2>2 DEF EnvStops
  <1>14. QED
    <2> HIDE DEF Files, Typed
    <2>1. ASSUME NEW s \in EnvShells, NEW n \in EnvNames, CreateEnvironment(s, n) PROVE Files' /\ Typed'
      BY <1>7, <2>1 DEF CreateEnvironment
    <2>2. ASSUME NEW s \in EnvShells, NEW n \in EnvNames, ConnectCloud(s, n) PROVE Files' /\ Typed'
      BY <1>7, <2>2 DEF ConnectCloud
    <2>3. QED
      BY <1>2, <1>6, <1>8, <1>9, <1>10, <1>11, <1>12, <1>13, <2>1, <2>2 DEF EnvNext

(* and the invariant.                                                      *)
LEMMA EnvKeepsInv == ASSUME EnvInv, EnvNext PROVE EnvInv'
  <1> DEFINE Holds == /\ envFile.envs \subseteq valuesFiles /\ Copies
                      /\ ~envTorn => Current
  <1>0. EnvTypeOK' /\ EnvTypeOK /\ NamesKnown' /\ NamesKnown /\ Holds
    BY EnvTypes DEF EnvInv
  <1> SUFFICES Holds'
    BY <1>0 DEF EnvInv
  <1> USE EnvConstants, <1>0
      DEF EnvTypeOK, EnvManifests, Copies, Current, HoldsCopy, Defined, NoEnvCmd, EnvGoes, EnvEnds
  <1>1. ASSUME NEW s \in EnvShells, NEW n \in EnvNames, SetCurrent(s, n) PROVE Holds'
    BY <1>1 DEF SetCurrent
  <1>2. ASSUME NEW s \in EnvShells, NEW n \in EnvNames, CreateEnvironment(s, n) PROVE Holds'
    BY <1>2 DEF CreateEnvironment, BeginAdding
  <1>3. ASSUME NEW s \in EnvShells, NEW n \in EnvNames, ConnectCloud(s, n) PROVE Holds'
    BY <1>3 DEF ConnectCloud, BeginAdding
  <1>4. ASSUME NEW s \in EnvShells, UseKubeContext(s) PROVE Holds'
    BY <1>4 DEF UseKubeContext
  <1>5. ASSUME NEW s \in EnvShells, ConfigureKubeconfig(s) PROVE Holds'
    BY <1>5 DEF ConfigureKubeconfig
  <1>6. ASSUME NEW s \in EnvShells, LoadToAdd(s) PROVE Holds'
    <2>1. CASE EnvEnds(s)
      BY <1>6, <2>1 DEF LoadToAdd
    <2>2. CASE envCmd' = [envCmd EXCEPT ![s].pc = "values", ![s].copy = envFile]
      <3>1. Copies'
        BY <1>6, <2>2 DEF LoadToAdd
      <3>2. Current => Current'
        BY <1>6, <2>2 DEF LoadToAdd
      <3>3. UNCHANGED <<envFile, valuesFiles, envTorn>>
        BY <1>6 DEF LoadToAdd
      <3>4. QED
        BY <3>1, <3>2, <3>3
    <2>3. QED
      BY <1>6, <2>1, <2>2 DEF LoadToAdd
  <1>7. ASSUME NEW s \in EnvShells, WriteValues(s) PROVE Holds'
    BY <1>7 DEF WriteValues
  <1>8. ASSUME NEW s \in EnvShells, SaveEnvManifest(s) PROVE Holds'
    <2>1. envFile' = envCmd[s].copy /\ HoldsCopy(s) /\ UNCHANGED <<valuesFiles, envTorn>>
      BY <1>8 DEF SaveEnvManifest
    <2>2. \A r \in EnvShells : HoldsCopy(r)' => HoldsCopy(r) /\ envCmd'[r].copy = envCmd[r].copy
      BY <1>8 DEF SaveEnvManifest
    <2> HIDE DEF HoldsCopy, EnvTypeOK
    <2>3. QED
      BY <2>1, <2>2
  <1>9. ASSUME NEW s \in EnvShells, EnvStops(s) PROVE Holds'
    BY <1>9 DEF EnvStops
  <1>10. QED
    BY <1>1, <1>2, <1>3, <1>4, <1>5, <1>6, <1>7, <1>8, <1>9 DEF EnvNext

(* The invariant holds always.                                             *)
LEMMA EnvInvariant == EnvSpec => []EnvInv
  <1>1. EnvInv /\ [EnvNext]_envVars => EnvInv'
    <2>1. CASE UNCHANGED envVars
      BY <2>1 DEF envVars, EnvInv, EnvTypeOK, NamesKnown, Copies, Current, HoldsCopy, Defined
    <2>2. QED
      BY <2>1, EnvKeepsInv
  <1>2. QED
    BY <1>1, EnvInitInv, PTL DEF EnvSpec

(* The manifest, the values files and the commands keep their types.       *)
THEOREM EnvTyped == EnvSpec => []EnvTypeOK
  BY EnvInvariant, PTL DEF EnvInv

(* With any number of shells, environments and contexts: the current       *)
(* environment is defined until a write is cut short, and every            *)
(* environment has its values file, even then.                             *)
THEOREM EnvironmentsAlwaysHold == EnvSpec => []EnvironmentsHold
  <1>1. EnvInv => EnvironmentsHold
    BY EnvConstants DEF EnvInv, EnvTypeOK, EnvManifests, Current, Defined, EnvironmentsHold, GetCurrent
  <1>2. QED
    BY <1>1, EnvInvariant, PTL

-----------------------------------------------------------------------------
(* The files of ~/.yby.                                                    *)

HomeStates == [pc : {"idle", "rename", "open", "write", "spinning", "store"}, gen : Nat, left : Nat, seen : Nat,
               vault : Vault, pass : Passphrases \union {"none"}]
LogStates == [gen : Nat, there : BOOLEAN, lines : Seq(Nat)]
CredStates == [pass : Passphrases \union {"none", "torn"}, data : Vault]

HomeTypes ==
    /\ homeKind \in HomeKinds /\ log \in LogStates /\ oldLog \in Seq(Nat)
    /\ written \in Nat /\ cut \in SUBSET Nat /\ overtaken \in BOOLEAN
    /\ creds \in CredStates /\ expected \in Vault /\ credsDisturbed \in BOOLEAN /\ saves \in Nat
    /\ home \in [HomeProcs -> HomeStates]

(* The log and its .1 file hold the last events in the order of their      *)
(* writing, and the .1 file is full or nothing was ever lost.              *)
LogHolds ==
    ~overtaken =>
      /\ Len(log.lines) + Len(oldLog) <= written
      /\ \A i \in 1..Len(log.lines) : log.lines[i] = written - Len(log.lines) + i
      /\ \A i \in 1..Len(oldLog) : oldLog[i] = written - Len(log.lines) - Len(oldLog) + i
      /\ Len(oldLog) >= MaxLines \/ Len(oldLog) + Len(log.lines) = written

Storing(p) == home[p].pc = "store"

(* While nothing was disturbed the file is what is expected of it, or will *)
(* be when the only process about to write it does, unless another wrote   *)
(* it since that process read it.                                          *)
CredsHold ==
    /\ creds.pass = "none" => creds.data = EmptyVault
    /\ \A p \in HomeProcs : home[p].seen <= saves /\ (Storing(p) => home[p].pass # "none")
    /\ ~credsDisturbed =>
         /\ (\A p \in HomeProcs : ~Storing(p)) => creds.data = expected
         /\ \A p \in HomeProcs :
              Storing(p) /\ home[p].seen = saves /\ (\A q \in HomeProcs : Storing(q) => q = p) =>
                home[p].vault = expected

HomeInv == HomeTypes /\ LogHolds /\ CredsHold

(* An empty vault and an idle process are of their types.                  *)
LEMMA AtHomeTyped == EmptyVault \in Vault /\ AtHome \in HomeStates
  BY DEF EmptyVault, Vault, AtHome, HomeStates

(* The invariant holds at first.                                           *)
LEMMA HomeInitInv == HomeInit => HomeInv
  <1> SUFFICES ASSUME HomeInit PROVE HomeInv
    OBVIOUS
  <1>1. HomeTypes
    <2>1. log \in LogStates /\ oldLog \in Seq(Nat) /\ creds \in CredStates
      BY AtHomeTyped DEF HomeInit, LogStates, CredStates
    <2>2. QED
      BY <2>1, AtHomeTyped DEF HomeInit, HomeTypes
  <1>2. LogHolds
    BY DEF HomeInit, LogHolds
  <1>3. CredsHold
    BY DEF HomeInit, CredsHold, Storing, AtHome
  <1>4. QED
    BY <1>1, <1>2, <1>3 DEF HomeInv

(* Where a process that writes no credentials moves, and none was writing. *)
LEMMA CredsUndisturbed ==
    ASSUME HomeTypes, CredsHold, NEW p \in HomeProcs, home' = [home EXCEPT ![p] = home'[p]],
           ~Storing(p), home'[p].pc # "store", home'[p].seen <= saves, UNCHANGED credVars
    PROVE  CredsHold'
  <1>1. \A q \in HomeProcs : q # p => home'[q] = home[q]
    BY DEF HomeTypes
  <1>2. \A q \in HomeProcs : Storing(q)' <=> Storing(q)
    BY <1>1 DEF Storing
  <1>3. \A q \in HomeProcs : Storing(q) => home'[q] = home[q]
    BY <1>1 DEF Storing
  <1>4. \A q \in HomeProcs : home'[q].seen <= saves
    BY <1>1 DEF CredsHold
  <1>5. QED
    BY <1>2, <1>3, <1>4 DEF CredsHold, credVars

(* The places in a log, and the numbers of its lines when one is added.    *)
LEMMA NumbersMove ==
    ASSUME NEW w \in Nat, NEW l \in Nat, NEW i \in 1..(l + 1)
    PROVE  /\ i \in 1..l \/ i = l + 1
           /\ (w + 1) - (l + 1) + i = w - l + i
           /\ i = l + 1 => (w + 1) - (l + 1) + i = w + 1
  OBVIOUS

(* An event goes to the end of the log that its process opened.            *)
LEMMA AppendKeeps ==
    ASSUME HomeTypes, LogHolds, NEW gen \in Nat, AppendTo(gen)
    PROVE  LogHolds' /\ log' \in LogStates /\ oldLog' \in Seq(Nat) /\ written' \in Nat /\ overtaken' \in BOOLEAN
  <1> USE DEF HomeTypes, LogStates
  <1>1. written' = written + 1 /\ overtaken' = (overtaken \/ gen # log.gen)
    BY DEF AppendTo
  <1>2. CASE gen = log.gen
    <2>1. log' = [log EXCEPT !.lines = Append(log.lines, written + 1)] /\ oldLog' = oldLog
      BY <1>2 DEF AppendTo
    <2>2. log'.lines = Append(log.lines, written + 1) /\ log' \in LogStates
      <3>1. Append(log.lines, written + 1) \in Seq(Nat)
        OBVIOUS
      <3>2. QED
        BY <2>1, <3>1
    <2>3. /\ Len(log'.lines) = Len(log.lines) + 1
          /\ \A i \in 1..Len(log.lines) : log'.lines[i] = log.lines[i]
          /\ log'.lines[Len(log.lines) + 1] = written + 1
      BY <2>2
    <2>4. LogHolds'
      <3> DEFINE L == Len(log.lines)
                 O == Len(oldLog)
      <3> SUFFICES ASSUME ~overtaken'
                   PROVE  /\ (L + 1) + O <= written + 1
                          /\ \A i \in 1..(L + 1) : log'.lines[i] = (written + 1) - (L + 1) + i
                          /\ \A i \in 1..O : oldLog[i] = (written + 1) - (L + 1) - O + i
                          /\ O >= MaxLines \/ O + (L + 1) = written + 1
        BY <1>1, <2>1, <2>3 DEF LogHolds
      <3>1. L \in Nat /\ O \in Nat
        OBVIOUS
      <3>2. /\ L + O <= written
            /\ \A i \in 1..L : log.lines[i] = written - L + i
            /\ \A i \in 1..O : oldLog[i] = written - L - O + i
            /\ O >= MaxLines \/ O + L = written
        BY <1>1 DEF LogHolds
      <3>3. ASSUME NEW i \in 1..(L + 1) PROVE log'.lines[i] = (written + 1) - (L + 1) + i
        <4>1. /\ \A j \in 1..L : log'.lines[j] = log.lines[j] /\ log.lines[j] = written - L + j
              /\ log'.lines[L + 1] = written + 1 /\ written \in Nat
          BY <2>3, <3>2
        <4> HIDE DEF L
        <4>2. /\ i \in 1..L \/ i = L + 1
              /\ (written + 1) - (L + 1) + i = written - L + i
              /\ i = L + 1 => (written + 1) - (L + 1) + i = written + 1
          BY <3>1, <4>1, NumbersMove
        <4>3. QED
          BY <4>1, <4>2, Zenon
      <3> HIDE DEF L, O
      <3>4. ASSUME NEW i \in 1..O PROVE oldLog[i] = (written + 1) - (L + 1) - O + i
        BY <3>1, <3>2
      <3>5. /\ (L + 1) + O <= written + 1
            /\ O >= MaxLines \/ O + (L + 1) = written + 1
        BY <3>1, <3>2, HomeConstants
      <3>6. QED
        BY <3>3, <3>4, <3>5
    <2>5. QED
      BY <1>1, <2>1, <2>2, <2>4
  <1>3. CASE gen # log.gen
    <2>1. log' = log
      BY <1>3 DEF AppendTo
    <2>2. oldLog' \in Seq(Nat)
      BY DEF AppendTo
    <2>3. overtaken' /\ overtaken' \in BOOLEAN
      BY <1>1, <1>3
    <2>4. QED
      BY <1>1, <2>1, <2>2, <2>3 DEF LogHolds
  <1>4. QED
    BY <1>2, <1>3

(* A process about to store what it has read of the credentials.           *)
LEMMA StoreLaterKeeps ==
    ASSUME HomeInv, NEW p \in HomeProcs, NEW pass \in Passphrases, NEW k \in CredentialKeys,
           NEW s \in Secrets \union {NoSecret}, NEW read \in Vault,
           Loads(pass) => read = creds.data, ~Loads(pass) => read = EmptyVault,
           StoreLater(p, pass, [read EXCEPT ![k] = s]),
           expected' = [expected EXCEPT ![k] = s],
           credsDisturbed' \in BOOLEAN, ~credsDisturbed' => ~credsDisturbed /\ (Loads(pass) \/ creds.pass = "none")
    PROVE  HomeInv'
  <1> DEFINE vault == [read EXCEPT ![k] = s]
             h == [AtHome EXCEPT !.pc = "store", !.pass = pass, !.seen = saves, !.vault = vault]
  <1> USE DEF HomeInv, HomeTypes
  <1>1. vault \in Vault /\ expected' \in Vault
    BY DEF Vault
  <1>2. h \in HomeStates /\ h.pc = "store" /\ h.pass = pass /\ h.seen = saves /\ h.vault = vault
    BY <1>1, AtHomeTyped DEF HomeStates, AtHome
  <1>3. home' = [home EXCEPT ![p] = h] /\ home[p].pc = "idle" /\ UNCHANGED <<homeKind, logVars, creds, saves>>
    BY DEF StoreLater
  <1> HIDE DEF h, vault
  <1>4. HomeTypes'
    BY <1>1, <1>2, <1>3 DEF logVars
  <1>5. LogHolds'
    BY <1>3 DEF LogHolds, logVars
  <1>6. home'[p] = h /\ \A q \in HomeProcs : q # p => home'[q] = home[q]
    BY <1>3
  <1>7. CredsHold'
    <2>1. \A q \in HomeProcs : home'[q].seen <= saves' /\ (Storing(q)' => home'[q].pass # "none")
      BY <1>2, <1>3, <1>6, HomeConstants DEF CredsHold, Storing
    <2>2. Storing(p)' /\ ~Storing(p) /\ \A q \in HomeProcs : q # p => (Storing(q)' <=> Storing(q))
      BY <1>2, <1>3, <1>6 DEF Storing
    <2>3. ASSUME ~credsDisturbed', \A q \in HomeProcs : Storing(q)' => q = p PROVE vault = expected'
      <3>1. creds.data = expected
        BY <2>2, <2>3 DEF CredsHold
      <3>2. read = expected
        BY <2>3, <3>1 DEF CredsHold
      <3>3. QED
        BY <3>2 DEF vault
    <2>4. QED
      BY <1>2, <1>3, <1>6, <2>1, <2>2, <2>3 DEF CredsHold
  <1>8. QED
    BY <1>4, <1>5, <1>7
(* Every step keeps the invariant.                                         *)
LEMMA HomeStepInv == HomeInv /\ [HomeNext]_homeVars => HomeInv'
  <1> SUFFICES ASSUME HomeInv, [HomeNext]_homeVars PROVE HomeInv'
    OBVIOUS
  <1> USE DEF HomeInv
  <1>0. home \in [HomeProcs -> HomeStates]
    BY DEF HomeTypes
  <1>a. ASSUME NEW p \in HomeProcs, NEW h \in HomeStates, home' = [home EXCEPT ![p] = h],
               ~Storing(p), h.pc # "store", h.seen <= saves, UNCHANGED <<homeKind, credVars>>,
               log' \in LogStates, oldLog' \in Seq(Nat), written' \in Nat, cut' \in SUBSET Nat, overtaken' \in BOOLEAN,
               LogHolds'
        PROVE  HomeInv'
    <2>1. home'[p] = h /\ home' \in [HomeProcs -> HomeStates]
      BY <1>0, <1>a
    <2>2. CredsHold'
      BY <1>a, <2>1, CredsUndisturbed
    <2>3. QED
      BY <1>a, <2>1, <2>2 DEF HomeTypes, credVars
  <1>b. ASSUME UNCHANGED logVars
        PROVE  /\ log' \in LogStates /\ oldLog' \in Seq(Nat) /\ written' \in Nat /\ cut' \in SUBSET Nat
               /\ overtaken' \in BOOLEAN /\ LogHolds'
    BY <1>b DEF logVars, HomeTypes, LogHolds
  <1>c. AtHome \in HomeStates /\ AtHome.pc = "idle" /\ AtHome.seen <= saves
    BY AtHomeTyped DEF AtHome, HomeTypes
  <1>d. ASSUME NEW p \in HomeProcs
        PROVE  home[p] \in HomeStates /\ home[p].seen <= saves
    BY <1>0 DEF CredsHold
  <1>1. ASSUME NEW p \in HomeProcs, NEW n \in 1..2, StatLog(p, n) PROVE HomeInv'
    <2> DEFINE pc == IF log.there /\ Len(log.lines) >= MaxLines THEN "rename" ELSE "open"
               h == [AtHome EXCEPT !.left = n, !.pc = pc]
    <2>1. home' = [home EXCEPT ![p] = h] /\ ~Storing(p) /\ UNCHANGED <<homeKind, logVars, credVars>>
      BY <1>1 DEF StatLog, Storing
    <2>2. pc \in {"rename", "open"}
      OBVIOUS
    <2> HIDE DEF pc
    <2>3. h \in HomeStates /\ h.pc = pc /\ h.seen = AtHome.seen
      <3>1. [AtHome EXCEPT !.left = n] \in HomeStates /\ [AtHome EXCEPT !.left = n].seen = AtHome.seen
        BY <1>c DEF HomeStates
      <3>2. QED
        BY <2>2, <3>1 DEF HomeStates
    <2>4. QED
      BY <1>a, <1>b, <1>c, <2>1, <2>2, <2>3
  <1>2. ASSUME NEW p \in HomeProcs, RotateLog(p) PROVE HomeInv'
    <2>1. ~Storing(p) /\ UNCHANGED <<homeKind, written, cut, credVars>>
      BY <1>2 DEF RotateLog, Storing
    <2>2. CASE log.there
      <3>1. /\ oldLog' = log.lines /\ log' = [gen |-> log.gen + 1, there |-> FALSE, lines |-> <<>>]
            /\ overtaken' = (overtaken \/ Len(log.lines) < MaxLines)
            /\ home' = [home EXCEPT ![p] = [home[p] EXCEPT !.pc = "open"]]
        BY <1>2, <2>2 DEF RotateLog
      <3>2. log' \in LogStates /\ oldLog' \in Seq(Nat) /\ overtaken' \in BOOLEAN
        BY <3>1 DEF HomeTypes, LogStates
      <3>3. LogHolds'
        <4> SUFFICES ASSUME ~overtaken' PROVE LogHolds'
          BY DEF LogHolds
        <4>1. Len(oldLog) \in Nat /\ Len(log.lines) \in Nat /\ written \in Nat
          BY DEF HomeTypes, LogStates
        <4>2. /\ ~overtaken /\ Len(log.lines) >= MaxLines /\ oldLog' = log.lines /\ log'.lines = <<>> /\ written' = written
          <5>1. ~(overtaken \/ Len(log.lines) < MaxLines)
            BY <3>1
          <5>2. QED
            BY <2>1, <3>1, <4>1, <5>1, HomeConstants
        <4>3. Len(log.lines) + Len(oldLog) <= written /\ \A i \in 1..Len(log.lines) : log.lines[i] = written - Len(log.lines) + i
          BY <4>2 DEF LogHolds
        <4>4. Len(log'.lines) = 0 /\ Len(oldLog') = Len(log.lines)
          BY <4>2
        <4>5. \A i \in 1..0 : log'.lines[i] = written' - 0 + i
          OBVIOUS
        <4>6. ASSUME NEW i \in 1..Len(log.lines) PROVE oldLog'[i] = written' - 0 - Len(log.lines) + i
          <5>1. oldLog'[i] = written - Len(log.lines) + i
            BY <4>2, <4>3
          <5>2. written - Len(log.lines) + i = written' - 0 - Len(log.lines) + i
            BY <4>1, <4>2
          <5>3. QED
            BY <5>1, <5>2
        <4>7. 0 + Len(log.lines) <= written'
          BY <4>1, <4>2, <4>3
        <4>8. QED
          BY <4>2, <4>4, <4>5, <4>6, <4>7 DEF LogHolds
      <3>4. [home[p] EXCEPT !.pc = "open"] \in HomeStates
        BY <1>d DEF HomeStates
      <3>5. [home[p] EXCEPT !.pc = "open"].pc = "open" /\ [home[p] EXCEPT !.pc = "open"].seen = home[p].seen
        BY <1>d DEF HomeStates
      <3>6. QED
        BY <1>a, <1>d, <2>1, <3>1, <3>2, <3>3, <3>4, <3>5 DEF HomeTypes
    <2>3. CASE ~log.there
      BY <1>2, <1>a, <1>b, <1>c, <2>1, <2>3 DEF RotateLog, logVars
    <2>4. QED
      BY <2>2, <2>3
  <1>3. ASSUME NEW p \in HomeProcs, OpenLog(p) PROVE HomeInv'
    <2> DEFINE h == [home[p] EXCEPT !.pc = "write", !.gen = log.gen]
    <2>1. home' = [home EXCEPT ![p] = h] /\ ~Storing(p) /\ log' = [log EXCEPT !.there = TRUE]
          /\ UNCHANGED <<homeKind, oldLog, written, cut, overtaken, credVars>>
      BY <1>3 DEF OpenLog, Storing
    <2>2. log' \in LogStates /\ log'.lines = log.lines /\ log.gen \in Nat
      BY <2>1 DEF HomeTypes, LogStates
    <2>3. h \in HomeStates /\ h.pc = "write" /\ h.seen = home[p].seen
      BY <1>d, <2>2 DEF HomeStates
    <2>4. LogHolds'
      BY <2>1, <2>2 DEF LogHolds
    <2>5. QED
      BY <1>a, <1>d, <2>1, <2>2, <2>3, <2>4 DEF HomeTypes
  <1>4. ASSUME NEW p \in HomeProcs, WriteEvent(p) PROVE HomeInv'
    <2> DEFINE h == IF home[p].left > 1 THEN [home[p] EXCEPT !.left = @ - 1] ELSE AtHome
    <2>1. home' = [home EXCEPT ![p] = h] /\ home[p].pc = "write" /\ AppendTo(home[p].gen) /\ UNCHANGED <<homeKind, cut, credVars>>
      BY <1>4 DEF WriteEvent
    <2>2. home[p].gen \in Nat
      BY <1>d DEF HomeStates
    <2>3. h \in HomeStates /\ h.pc # "store" /\ h.seen <= saves
      <3>1. CASE home[p].left > 1
        BY <1>d, <2>1, <3>1 DEF HomeStates
      <3>2. CASE ~(home[p].left > 1)
        BY <1>c, <3>2
      <3>3. QED
        BY <3>1, <3>2
    <2> HIDE DEF h
    <2>4. QED
      BY <1>a, <2>1, <2>2, <2>3, AppendKeeps DEF HomeTypes, Storing
  <1>5. ASSUME NEW p \in HomeProcs, ReadEvents(p) PROVE HomeInv'
    <2> DEFINE h == [home[p] EXCEPT !.pc = "spinning"]
    <2>1. home' = [home EXCEPT ![p] = h] /\ ~Storing(p) /\ UNCHANGED <<homeKind, logVars, credVars>>
      BY <1>5 DEF ReadEvents, Storing
    <2>2. h \in HomeStates /\ h.pc = "spinning" /\ h.seen = home[p].seen
      BY <1>d DEF HomeStates
    <2>3. QED
      BY <1>a, <1>b, <1>d, <2>1, <2>2
  <1>6. ASSUME NEW p \in HomeProcs, NEW k \in CredentialKeys, NEW pass \in Passphrases, DeleteCredential(p, k, pass)
        PROVE  HomeInv'
    <2>1. /\ Loads(pass) /\ creds.data \in Vault /\ credsDisturbed' = credsDisturbed /\ credsDisturbed \in BOOLEAN
          /\ StoreLater(p, pass, [creds.data EXCEPT ![k] = NoSecret]) /\ expected' = [expected EXCEPT ![k] = NoSecret]
      BY <1>6 DEF DeleteCredential, HomeTypes, CredStates
    <2>2. QED
      BY <2>1, StoreLaterKeeps
  <1>7. ASSUME NEW p \in HomeProcs, NEW k \in CredentialKeys, NEW pass \in Passphrases, NEW s \in Secrets,
               SaveCredential(p, k, s, pass)
        PROVE  HomeInv'
    <2> DEFINE read == IF Loads(pass) THEN creds.data ELSE EmptyVault
    <2>1. /\ StoreLater(p, pass, [read EXCEPT ![k] = s]) /\ expected' = [expected EXCEPT ![k] = s]
          /\ credsDisturbed' = (credsDisturbed \/ (~Loads(pass) /\ creds.pass # "none"))
      BY <1>7 DEF SaveCredential
    <2>2. read \in Vault /\ credsDisturbed \in BOOLEAN /\ (Loads(pass) => read = creds.data) /\ (~Loads(pass) => read = EmptyVault)
      BY AtHomeTyped DEF HomeTypes, CredStates
    <2> HIDE DEF read
    <2>3. credsDisturbed' \in BOOLEAN /\ (~credsDisturbed' => ~credsDisturbed /\ (Loads(pass) \/ creds.pass = "none"))
      BY <2>1
    <2>4. QED
      BY <2>1, <2>2, <2>3, StoreLaterKeeps
  <1>8. ASSUME NEW p \in HomeProcs, SaveRawData(p) PROVE HomeInv'
    <2>1. /\ Storing(p) /\ creds' = [pass |-> home[p].pass, data |-> home[p].vault] /\ saves' = saves + 1
          /\ credsDisturbed' = (credsDisturbed \/ saves # home[p].seen)
          /\ home' = [home EXCEPT ![p] = AtHome] /\ UNCHANGED <<homeKind, logVars, expected>>
      BY <1>8 DEF SaveRawData, Storing
    <2>2. creds' \in CredStates /\ credsDisturbed' \in BOOLEAN /\ saves' \in Nat
      BY <1>d, <2>1 DEF HomeStates, CredStates, HomeTypes
    <2>3. HomeTypes'
      BY <1>b, <1>c, <2>1, <2>2 DEF HomeTypes
    <2>4. home'[p] = AtHome /\ \A q \in HomeProcs : q # p => home'[q] = home[q]
      BY <1>0, <2>1
    <2>5. CredsHold'
      <3>1. creds'.pass # "none"
        BY <2>1 DEF CredsHold
      <3>2. ASSUME NEW q \in HomeProcs
            PROVE  /\ home'[q].seen <= saves' /\ (Storing(q)' => home'[q].pass # "none")
                   /\ Storing(q)' => home'[q].seen # saves'
        <4>1. CASE q = p
          BY <1>c, <2>1, <2>4, <4>1 DEF Storing, AtHome, HomeTypes
        <4>2. CASE q # p
          <5>1. home[q].seen \in Nat /\ saves \in Nat /\ home[q].seen <= saves
            BY <1>d DEF HomeStates, HomeTypes
          <5>2. QED
            BY <2>1, <2>4, <4>2, <5>1 DEF CredsHold, Storing
        <4>3. QED
          BY <4>1, <4>2
      <3>3. ASSUME ~credsDisturbed', \A q \in HomeProcs : ~Storing(q)' PROVE creds'.data = expected'
        <4>1. ~credsDisturbed /\ home[p].seen = saves
          BY <2>1, <3>3
        <4>2. \A q \in HomeProcs : Storing(q) => q = p
          BY <2>4, <3>3 DEF Storing
        <4>3. home[p].vault = expected
          BY <2>1, <4>1, <4>2 DEF CredsHold
        <4>4. QED
          BY <2>1, <4>3
      <3>4. QED
        BY <3>1, <3>2, <3>3 DEF CredsHold
    <2>6. QED
      BY <1>b, <2>1, <2>3, <2>5
  <1>9. ASSUME NEW p \in HomeProcs, ProcessStops(p) PROVE HomeInv'
    <2>1. /\ home' = [home EXCEPT ![p] = AtHome] /\ credsDisturbed' = (credsDisturbed \/ home[p].pc = "store")
          /\ UNCHANGED <<homeKind, expected, saves>>
      BY <1>9 DEF ProcessStops
    <2>2. home'[p] = AtHome /\ (\A q \in HomeProcs : q # p => home'[q] = home[q]) /\ home' \in [HomeProcs -> HomeStates]
      BY <1>0, <1>c, <2>1
    <2>3. CASE Storing(p)
      <3>1. UNCHANGED logVars /\ (creds' = creds \/ creds' = [pass |-> "torn", data |-> EmptyVault])
        BY <1>9, <2>3 DEF ProcessStops, Storing
      <3>2. creds' \in CredStates /\ (creds'.pass = "none" => creds'.data = EmptyVault)
        BY <3>1, AtHomeTyped DEF HomeTypes, CredStates, CredsHold
      <3>3. credsDisturbed' = TRUE
        BY <2>1, <2>3 DEF Storing
      <3>4. HomeTypes'
        BY <1>b, <2>1, <2>2, <3>1, <3>2, <3>3 DEF HomeTypes
      <3>5. \A q \in HomeProcs : home'[q].seen <= saves' /\ (Storing(q)' => home'[q].pass # "none")
        BY <1>c, <2>1, <2>2 DEF CredsHold, Storing
      <3>6. CredsHold'
        BY <3>2, <3>3, <3>5 DEF CredsHold
      <3>7. QED
        BY <1>b, <3>1, <3>4, <3>6
    <2>4. CASE ~Storing(p)
      <3>1. credsDisturbed' = credsDisturbed
        BY <2>1, <2>4 DEF Storing, HomeTypes
      <3>2. CASE UNCHANGED <<logVars, creds>>
        BY <1>a, <1>b, <1>c, <2>1, <2>4, <3>1, <3>2 DEF credVars
      <3>3. CASE AppendTo(home[p].gen) /\ cut' = cut \union {written + 1} /\ UNCHANGED creds
        <4>1. home[p].gen \in Nat /\ cut' \in SUBSET Nat
          BY <1>d, <3>3 DEF HomeStates, HomeTypes
        <4>2. QED
          BY <1>a, <1>c, <2>1, <2>4, <3>1, <3>3, <4>1, AppendKeeps DEF credVars
      <3>4. QED
        BY <1>9, <2>4, <3>2, <3>3 DEF ProcessStops, Storing
    <2>5. QED
      BY <2>3, <2>4
  <1>10. CASE UNCHANGED homeVars
    BY <1>10 DEF homeVars, logVars, credVars, HomeTypes, LogHolds, CredsHold, Storing
  <1>11. QED
    BY <1>1, <1>2, <1>3, <1>4, <1>5, <1>6, <1>7, <1>8, <1>9, <1>10 DEF HomeNext

(* The files of ~/.yby have their types.                                   *)
THEOREM HomeTyped == HomeSpec => []HomeTypeOK
  <1>1. HomeInv => HomeTypeOK
    BY DEF HomeInv, HomeTypes, HomeTypeOK, LogStates, CredStates, HomeStates
  <1>2. QED
    BY <1>1, HomeInitInv, HomeStepInv, PTL DEF HomeSpec

(* What they hold is lost in the ways the history variables name only.     *)
THEOREM HomeFilesAreKept == HomeSpec => []HomeFilesKept
  <1>1. HomeInv => RecentEventsKept
    <2> SUFFICES ASSUME HomeInv, ~overtaken, NEW i \in 1..written, i + MaxLines > written
                 PROVE  i \in LinesIn(log.lines) \union LinesIn(oldLog)
      BY DEF RecentEventsKept
    <2> DEFINE L == Len(log.lines)
               O == Len(oldLog)
    <2>1. L \in Nat /\ O \in Nat /\ written \in Nat
      BY DEF HomeInv, HomeTypes, LogStates
    <2>2. /\ L + O <= written
          /\ \A j \in 1..L : log.lines[j] = written - L + j
          /\ \A j \in 1..O : oldLog[j] = written - L - O + j
          /\ O >= MaxLines \/ O + L = written
      BY DEF HomeInv, LogHolds
    <2>a. LinesIn(log.lines) = {log.lines[j] : j \in 1..L} /\ LinesIn(oldLog) = {oldLog[j] : j \in 1..O}
      BY DEF LinesIn
    <2> HIDE DEF L, O
    <2>3. CASE i > written - L
      <3>1. i - (written - L) \in 1..L /\ written - L + (i - (written - L)) = i
        BY <2>1, <2>3
      <3>2. QED
        <4>1. log.lines[i - (written - L)] = i
          BY <2>2, <3>1
        <4>2. QED
          BY <2>a, <3>1, <4>1
    <2>4. CASE i <= written - L
      <3>1. i - (written - L - O) \in 1..O /\ written - L - O + (i - (written - L - O)) = i
        BY <2>1, <2>2, <2>4, HomeConstants
      <3>2. QED
        <4>1. oldLog[i - (written - L - O)] = i
          BY <2>2, <3>1
        <4>2. QED
          BY <2>a, <3>1, <4>1
    <2>5. QED
      BY <2>1, <2>3, <2>4
  <1>2. HomeInv => CredentialsKept
    BY DEF HomeInv, CredsHold, CredentialsKept, Storing
  <1>3. QED
    BY <1>1, <1>2, HomeInitInv, HomeStepInv, PTL DEF HomeSpec, HomeFilesKept

-----------------------------------------------------------------------------
(* The sealed keys.                                                        *)

(* A set of numbers that is not empty has a least one.                     *)
LEMMA LeastNat ==
    ASSUME NEW T \in SUBSET Nat, T # {}
    PROVE  \E m \in T : \A n \in T : m <= n
  <1>1. \E m \in T : \A n \in T : ~ (<<n, m>> \in OpToRel(<, Nat))
    BY NatLessThanWellFounded, WFMin
  <1>2. PICK m \in T : \A n \in T : ~ (<<n, m>> \in OpToRel(<, Nat))
    BY <1>1
  <1>3. \A n \in T : <<n, m>> \in Nat \X Nat
    OBVIOUS
  <1>4. \A n \in T : ~(n < m)
    BY <1>2, <1>3 DEF OpToRel
  <1>5. QED
    BY <1>4

(* The newest of some keys is one of them.                                 *)
LEMMA NewestIsAKey ==
    ASSUME NEW keys \in SUBSET Keys, keys # {}
    PROVE  Newest(keys) \in keys
  <1> DEFINE T == {MaxKeys - k : k \in keys}
  <1>1. \A k \in keys : k \in Nat /\ MaxKeys - k \in Nat
    BY SealedConstants DEF Keys
  <1>2. T \in SUBSET Nat /\ T # {}
    BY <1>1
  <1>3. PICK m \in T : \A n \in T : m <= n
    BY <1>2, LeastNat
  <1>4. PICK k \in keys : m = MaxKeys - k
    OBVIOUS
  <1>5. ASSUME NEW l \in keys PROVE l <= k
    <2>1. MaxKeys - k <= MaxKeys - l
      BY <1>3, <1>4
    <2>2. QED
      BY <2>1, <1>1, SealedConstants
  <1>6. QED
    BY <1>5 DEF Newest

SealedSecrets == [RepoSecrets -> [is : {"none", "part", "sealed", "sops", "reference"}, key : 0..MaxKeys]]
KeyFiles == [is : FileStates, keys : SUBSET Keys]
MACs == [of : [is : {"whole"}, keys : SUBSET Keys], key : HMACKeys]
HMACFiles == [is : FileStates, mac : SUBSET MACs]
Backups == [keys : SUBSET Keys, key : HMACKeys]
SecretCmds == [pc : {"idle", "fetch", "write", "hmac", "apply", "delete pod", "restart", "wait"},
               data : SUBSET Keys, ok : BOOLEAN]

SealedTypes ==
    /\ keySecrets \in SUBSET Keys /\ loaded \in SUBSET Keys /\ made \in Keys
    /\ repo \in SealedSecrets /\ ageKey \in BOOLEAN /\ githubToken \in BOOLEAN
    /\ keyFile \in KeyFiles /\ hmacFile \in HMACFiles /\ secretCmd \in SecretCmds
    /\ vouched \in SUBSET Backups /\ restored \in SUBSET Keys

(* A backup that is vouched for is whole and so is its HMAC; one whose     *)
(* HMAC is to be written is whole, and no backup is empty.                 *)
BackupHolds ==
    /\ \A last \in vouched : /\ keyFile = WholeKeyFile(last.keys)
                             /\ hmacFile = WholeHMAC(computeHMAC(keyFile, last.key))
    /\ secretCmd.pc = "hmac" => vouched = {} /\ keyFile = WholeKeyFile(secretCmd.data)
    /\ secretCmd.pc \in {"fetch", "write", "hmac"} => secretCmd.data # {}
    /\ keyFile.is = "whole" => keyFile.keys # {}

(* While the pod is to be deleted the cluster has the keys of the backup;  *)
(* those restored stay there and with the controller; and where there are  *)
(* none, a rotation is under way or something failed.                      *)
ClusterHolds ==
    /\ secretCmd.pc = "delete pod" => keyFile.is = "whole" /\ keyFile.keys \subseteq keySecrets
    /\ secretCmd.pc \in {"fetch", "write", "hmac"} => keySecrets # {}
    /\ restored \subseteq keySecrets
    /\ loaded # {} => restored \subseteq loaded
    /\ keySecrets = {} => secretCmd.pc \in {"restart", "wait"} \/ ~secretCmd.ok

SealedInv == SealedTypes /\ BackupHolds /\ ClusterHolds

(* The invariant holds at first.                                           *)
LEMMA SealedInitInv == SealedInit => SealedInv
  <1> SUFFICES ASSUME SealedInit PROVE SealedInv
    OBVIOUS
  <1>1. 1 \in Keys /\ {1} \in SUBSET Keys /\ 0 \in 0..MaxKeys
    BY SealedConstants DEF Keys
  <1>2. repo \in SealedSecrets
    BY <1>1 DEF SealedInit, SealedSecrets
  <1>3. NoKeyFile \in KeyFiles /\ [is |-> "none", mac |-> {}] \in HMACFiles /\ SecretCmdEnds(TRUE) \in SecretCmds
    BY DEF NoKeyFile, KeyFiles, HMACFiles, FileStates, SecretCmdEnds, SecretCmds
  <1>4. SealedTypes
    BY <1>1, <1>2, <1>3 DEF SealedInit, SealedTypes
  <1>5. BackupHolds /\ ClusterHolds
    BY DEF SealedInit, BackupHolds, ClusterHolds, SecretCmdEnds, NoKeyFile
  <1>6. QED
    BY <1>4, <1>5 DEF SealedInv

(* The controller starts with the keys of the cluster, whatever they are.  *)
LEMMA StartLoadsKeys ==
    ASSUME SealedTypes, ControllerStarts
    PROVE  /\ keySecrets' \in SUBSET Keys /\ loaded' \in SUBSET Keys /\ made' \in Keys
           /\ keySecrets' # {} /\ keySecrets \subseteq keySecrets' /\ loaded' = keySecrets'
  <1>1. CASE keySecrets # {}
    BY <1>1 DEF SealedTypes, ControllerStarts
  <1>2. CASE keySecrets = {}
    <2>1. made' = made + 1 /\ made < MaxKeys /\ keySecrets' = {made'} /\ loaded' = {made'}
      BY <1>2 DEF ControllerStarts
    <2>2. made' \in Keys
      BY <2>1, SealedConstants DEF SealedTypes, Keys
    <2>3. QED
      BY <1>2, <2>1, <2>2
  <1>3. QED
    BY <1>1, <1>2

(* The commands' records.                                                  *)
LEMMA SecretCmdTypes ==
    ASSUME SealedTypes
    PROVE  /\ \A ok \in BOOLEAN : SecretCmdEnds(ok) \in SecretCmds
           /\ \A pc \in {"idle", "fetch", "write", "hmac", "apply", "delete pod", "restart", "wait"} :
                [secretCmd EXCEPT !.pc = pc] \in SecretCmds
  BY DEF SecretCmdEnds, SecretCmds, SealedTypes

(* Every step keeps the types,                                             *)
LEMMA SealedStepTypes == ASSUME SealedInv, SealedNext PROVE SealedTypes'
  <1> USE DEF SealedTypes, SealedInv, clusterVars, repoVars, backupVars, sealedHistory
  <1>1. CASE ControllerRestarts
    BY <1>1, StartLoadsKeys DEF ControllerRestarts
  <1>2. CASE ControllerRenewsKeys
    <2>1. made + 1 \in Keys
      BY <1>2, SealedConstants DEF ControllerRenewsKeys, Keys
    <2>2. QED
      BY <1>2, <2>1 DEF ControllerRenewsKeys
  <1>3. CASE GenerateAgeKey \/ CreateGitHubToken
    BY <1>3 DEF GenerateAgeKey, CreateGitHubToken
  <1>4. ASSUME NEW n \in RepoSecrets, SealCommand(n) \/ GenerateExternalSecret(n) \/ InitESO(n) PROVE SealedTypes'
    <2>1. PICK is \in {"sealed", "sops", "reference"}, key \in {0, Newest(loaded)} :
             SaveSecret(n, is, key) /\ (key = 0 \/ loaded # {})
      BY <1>4 DEF SealCommand, GenerateExternalSecret, InitESO, SealAndSave, EncryptWithSOPS
    <2>2. key \in 0..MaxKeys
      <3>1. CASE key = 0
        BY <3>1, SealedConstants
      <3>2. CASE key # 0
        <4>1. loaded # {} /\ key = Newest(loaded)
          BY <2>1, <3>2
        <4>2. key \in Keys
          BY <4>1, NewestIsAKey
        <4>3. QED
          BY <4>2, SealedConstants DEF Keys
      <3>3. QED
        BY <3>1, <3>2
    <2>3. SavedAs(is, key) \subseteq [is : {"none", "part", "sealed", "sops", "reference"}, key : 0..MaxKeys]
      BY <2>2, SealedConstants DEF SavedAs
    <2>4. repo' \in SealedSecrets
      BY <2>1, <2>3 DEF SaveSecret, SealedSecrets
    <2>5. QED
      BY <2>1, <2>4 DEF SaveSecret
  <1>5. CASE ListKeys
    BY <1>5 DEF ListKeys, SecretCmds
  <1>6. CASE FetchKey
    BY <1>6, SecretCmdTypes DEF FetchKey
  <1>7. CASE WriteKeyFile
    <2>1. WholeKeyFile(secretCmd.data) \in KeyFiles
      BY DEF WholeKeyFile, KeyFiles, FileStates, SecretCmds
    <2>2. QED
      BY <1>7, <2>1, SecretCmdTypes DEF WriteKeyFile, SecretGoes
  <1>8. ASSUME NEW host \in Hosts, NEW path \in Paths, WriteHMAC(host, path) PROVE SealedTypes'
    <2> DEFINE key == deriveHMACKey(host, path)
               mac == computeHMAC(WholeKeyFile(secretCmd.data), key)
    <2>1. key \in HMACKeys /\ secretCmd.data \in SUBSET Keys
      BY DEF deriveHMACKey, HMACKeys, SecretCmds
    <2>2. [keys |-> secretCmd.data, key |-> key] \in Backups /\ mac \in MACs
      BY <2>1 DEF Backups, MACs, computeHMAC, WholeKeyFile
    <2>3. WholeHMAC(mac) \in HMACFiles
      BY <2>2 DEF WholeHMAC, HMACFiles, FileStates
    <2>4. QED
      BY <1>8, <2>2, <2>3, SecretCmdTypes DEF WriteHMAC, SecretDone
  <1>9. ASSUME NEW host \in Hosts, NEW path \in Paths, StartRestore(host, path) PROVE SealedTypes'
    BY <1>9, SecretCmdTypes DEF StartRestore, SecretGoes
  <1>10. CASE ApplyKeyFile
    <2>1. keyFile.keys \in SUBSET Keys
      BY DEF KeyFiles
    <2>2. QED
      BY <1>10, <2>1, SecretCmdTypes DEF ApplyKeyFile, SecretGoes
  <1>11. CASE DeletePod
    <2>1. keyFile.keys \in SUBSET Keys
      BY DEF KeyFiles
    <2>2. QED
      BY <1>11, <2>1, SecretCmdTypes DEF DeletePod, SecretDone
  <1>12. CASE DeleteActiveKeys \/ RolloutRestart
    BY <1>12, SecretCmdTypes DEF DeleteActiveKeys, RolloutRestart, SecretGoes
  <1>13. CASE RolloutStatus
    BY <1>13, StartLoadsKeys, SecretCmdTypes DEF RolloutStatus, SecretDone
  <1>14. CASE SecretStops
    <2>1. [is |-> "part", keys |-> {}] \in KeyFiles /\ [is |-> "part", mac |-> {}] \in HMACFiles
      BY DEF KeyFiles, HMACFiles, FileStates
    <2>2. QED
      BY <1>14, <2>1, SecretCmdTypes DEF SecretStops
  <1>15. QED
    BY <1>1, <1>2, <1>3, <1>4, <1>5, <1>6, <1>7, <1>8, <1>9, <1>10, <1>11, <1>12, <1>13, <1>14
       DEF SealedNext, BackupCommand, RestoreCommand, RotateCommand

(* How the command's record changes.                                       *)
LEMMA SecretCmdChanges ==
    ASSUME SealedTypes
    PROVE  /\ \A ok \in BOOLEAN : SecretCmdEnds(ok).pc = "idle" /\ SecretCmdEnds(ok).ok = ok
           /\ \A pc : SecretGoes(pc) => secretCmd'.pc = pc /\ secretCmd'.data = secretCmd.data /\ secretCmd'.ok = secretCmd.ok
  BY DEF SecretCmdEnds, SecretGoes, SealedTypes, SecretCmds

(* and what holds of the backup,                                           *)
LEMMA SealedStepBackup == ASSUME SealedInv, SealedNext PROVE BackupHolds'
  <1> USE DEF SealedInv, clusterVars, repoVars, backupVars, sealedHistory
  <1>1. CASE ControllerRestarts \/ ControllerRenewsKeys \/ GenerateAgeKey \/ CreateGitHubToken
    BY <1>1 DEF ControllerRestarts, ControllerRenewsKeys, GenerateAgeKey, CreateGitHubToken, BackupHolds
  <1>2. ASSUME NEW n \in RepoSecrets, SealCommand(n) \/ GenerateExternalSecret(n) \/ InitESO(n) PROVE BackupHolds'
    BY <1>2 DEF SealCommand, GenerateExternalSecret, InitESO, SealAndSave, EncryptWithSOPS, SaveSecret, BackupHolds
  <1>3. CASE ListKeys
    BY <1>3 DEF ListKeys, BackupHolds
  <1>4. CASE FetchKey
    <2>1. secretCmd'.pc = "idle" \/ (secretCmd'.pc = "write" /\ secretCmd'.data = secretCmd.data)
      BY <1>4 DEF FetchKey, SecretCmdEnds, SealedTypes, SecretCmds
    <2>2. QED
      BY <1>4, <2>1 DEF FetchKey, BackupHolds
  <1>5. CASE WriteKeyFile
    <2>1. secretCmd'.pc = "hmac" /\ secretCmd'.data = secretCmd.data
      BY <1>5, SecretCmdChanges DEF WriteKeyFile
    <2>2. QED
      BY <1>5, <2>1 DEF WriteKeyFile, BackupHolds, WholeKeyFile
  <1>6. ASSUME NEW host \in Hosts, NEW path \in Paths, WriteHMAC(host, path) PROVE BackupHolds'
    <2>1. secretCmd'.pc = "idle"
      BY <1>6, SecretCmdChanges DEF WriteHMAC, SecretDone
    <2>2. keyFile' = keyFile /\ keyFile = WholeKeyFile(secretCmd.data)
      BY <1>6 DEF WriteHMAC, BackupHolds
    <2>3. /\ vouched' = {[keys |-> secretCmd.data, key |-> deriveHMACKey(host, path)]}
          /\ hmacFile' = WholeHMAC(computeHMAC(keyFile', deriveHMACKey(host, path)))
      BY <1>6, <2>2 DEF WriteHMAC
    <2>4. \A last \in vouched' : keyFile' = WholeKeyFile(last.keys) /\ hmacFile' = WholeHMAC(computeHMAC(keyFile', last.key))
      BY <2>2, <2>3
    <2>5. QED
      BY <2>1, <2>2, <2>4 DEF BackupHolds
  <1>7. ASSUME NEW host \in Hosts, NEW path \in Paths, StartRestore(host, path) PROVE BackupHolds'
    <2>1. secretCmd'.pc = "apply" /\ secretCmd'.ok = secretCmd.ok /\ secretCmd.pc = "idle"
      BY <1>7, SecretCmdChanges DEF StartRestore
    <2>2. QED
      BY <1>7, <2>1 DEF StartRestore, BackupHolds
  <1>8. CASE ApplyKeyFile \/ DeleteActiveKeys \/ RolloutRestart
    <2>1. secretCmd'.pc \in {"delete pod", "restart", "wait"}
      BY <1>8, SecretCmdChanges DEF ApplyKeyFile, DeleteActiveKeys, RolloutRestart
    <2>2. QED
      BY <1>8, <2>1 DEF ApplyKeyFile, DeleteActiveKeys, RolloutRestart, BackupHolds
  <1>9. CASE DeletePod \/ RolloutStatus
    BY <1>9, SecretCmdChanges DEF DeletePod, RolloutStatus, SecretDone, BackupHolds
  <1>10. CASE SecretStops
    <2>1. secretCmd'.pc = "idle"
      BY <1>10, SecretCmdChanges DEF SecretStops
    <2>2. \/ UNCHANGED <<keyFile, hmacFile, vouched>>
          \/ vouched' = {} /\ keyFile' = [is |-> "part", keys |-> {}]
          \/ vouched = {} /\ UNCHANGED <<keyFile, vouched>>
      BY <1>10 DEF SecretStops, BackupHolds
    <2>3. QED
      BY <2>1, <2>2 DEF BackupHolds
  <1>11. QED
    BY <1>1, <1>2, <1>3, <1>4, <1>5, <1>6, <1>7, <1>8, <1>9, <1>10
       DEF SealedNext, BackupCommand, RestoreCommand, RotateCommand

(* and of the cluster,                                                     *)
LEMMA SealedStepCluster == ASSUME SealedInv, SealedNext PROVE ClusterHolds'
  <1> USE DEF SealedInv, clusterVars, repoVars, backupVars, sealedHistory
  <1>1. CASE ControllerRestarts
    BY <1>1, StartLoadsKeys DEF ControllerRestarts, ClusterHolds
  <1>2. CASE ControllerRenewsKeys
    BY <1>2 DEF ControllerRenewsKeys, ClusterHolds
  <1>3. CASE GenerateAgeKey \/ CreateGitHubToken
    BY <1>3 DEF GenerateAgeKey, CreateGitHubToken, ClusterHolds
  <1>4. ASSUME NEW n \in RepoSecrets, SealCommand(n) \/ GenerateExternalSecret(n) \/ InitESO(n) PROVE ClusterHolds'
    BY <1>4 DEF SealCommand, GenerateExternalSecret, InitESO, SealAndSave, EncryptWithSOPS, SaveSecret, ClusterHolds
  <1>5. CASE ListKeys
    BY <1>5 DEF ListKeys, ClusterHolds
  <1>6. CASE FetchKey
    <2>1. secretCmd'.pc \in {"idle", "write"} /\ keySecrets # {}
      BY <1>6 DEF FetchKey, SecretCmdEnds, SealedTypes, SecretCmds, ClusterHolds
    <2>2. QED
      BY <1>6, <2>1 DEF FetchKey, ClusterHolds
  <1>7. CASE WriteKeyFile
    <2>1. secretCmd'.pc = "hmac" /\ keySecrets # {}
      BY <1>7, SecretCmdChanges DEF WriteKeyFile, ClusterHolds
    <2>2. QED
      BY <1>7, <2>1 DEF WriteKeyFile, ClusterHolds
  <1>8. ASSUME NEW host \in Hosts, NEW path \in Paths, WriteHMAC(host, path) PROVE ClusterHolds'
    <2>1. secretCmd'.pc = "idle" /\ keySecrets # {}
      BY <1>8, SecretCmdChanges DEF WriteHMAC, SecretDone, ClusterHolds
    <2>2. QED
      BY <1>8, <2>1 DEF WriteHMAC, ClusterHolds
  <1>9. ASSUME NEW host \in Hosts, NEW path \in Paths, StartRestore(host, path) PROVE ClusterHolds'
    <2>1. secretCmd'.pc = "apply" /\ secretCmd'.ok = secretCmd.ok /\ secretCmd.pc = "idle"
      BY <1>9, SecretCmdChanges DEF StartRestore
    <2>2. QED
      BY <1>9, <2>1 DEF StartRestore, ClusterHolds
  <1>10. CASE ApplyKeyFile
    <2>1. secretCmd'.pc = "delete pod" /\ keyFile.keys # {} /\ keyFile.keys \subseteq keySecrets' /\ keySecrets \subseteq keySecrets'
      BY <1>10, SecretCmdChanges DEF ApplyKeyFile, BackupHolds
    <2>2. QED
      BY <1>10, <2>1 DEF ApplyKeyFile, ClusterHolds
  <1>11. CASE DeletePod
    <2>1. secretCmd'.pc = "idle" /\ keyFile.keys # {} /\ keyFile.keys \subseteq keySecrets
      BY <1>11, SecretCmdChanges DEF DeletePod, SecretDone, BackupHolds, ClusterHolds
    <2>2. QED
      BY <1>11, <2>1 DEF DeletePod, ClusterHolds
  <1>12. CASE DeleteActiveKeys \/ RolloutRestart
    <2>1. secretCmd'.pc \in {"restart", "wait"}
      BY <1>12, SecretCmdChanges DEF DeleteActiveKeys, RolloutRestart
    <2>2. QED
      BY <1>12, <2>1 DEF DeleteActiveKeys, RolloutRestart, ClusterHolds
  <1>13. CASE RolloutStatus
    BY <1>13, StartLoadsKeys, SecretCmdChanges DEF RolloutStatus, SecretDone, ClusterHolds
  <1>14. CASE SecretStops
    <2>1. secretCmd'.pc = "idle" /\ secretCmd'.ok = FALSE
      BY <1>14, SecretCmdChanges DEF SecretStops
    <2>2. QED
      BY <1>14, <2>1 DEF SecretStops, ClusterHolds
  <1>15. QED
    BY <1>1, <1>2, <1>3, <1>4, <1>5, <1>6, <1>7, <1>8, <1>9, <1>10, <1>11, <1>12, <1>13, <1>14
       DEF SealedNext, BackupCommand, RestoreCommand, RotateCommand

(* and so the invariant.                                                   *)
LEMMA SealedStepInv == SealedInv /\ [SealedNext]_sealedVars => SealedInv'
  <1>1. SealedInv /\ UNCHANGED sealedVars => SealedInv'
    BY DEF SealedInv, SealedTypes, BackupHolds, ClusterHolds, sealedVars
  <1>2. QED
    BY <1>1, SealedStepTypes, SealedStepBackup, SealedStepCluster DEF SealedInv

(* The type invariant of the sealed keys.                                  *)
THEOREM SealedTyped == SealedSpec => []SealedTypeOK
  <1>1. SealedInv => SealedTypeOK
    BY DEF SealedInv, SealedTypes, SealedTypeOK, SealedSecrets, KeyFiles, HMACFiles, MACs, Backups, SecretCmds
  <1>2. QED
    BY <1>1, SealedInitInv, SealedStepInv, PTL DEF SealedSpec

(* A backup reported done and not overwritten is accepted where it was     *)
(* made and nowhere else, keys reported restored are with the controller,  *)
(* and the loss of all keys does not pass for a success.                   *)
THEOREM BackupRestores == SealedSpec => []LastBackupRestores
  <1>1. SealedInv => BackupAccepted
    <2> SUFFICES ASSUME SealedInv, NEW last \in vouched, NEW host \in Hosts, NEW path \in Paths
                 PROVE  /\ keyFile = WholeKeyFile(last.keys)
                        /\ Verified(host, path) <=> last.key = deriveHMACKey(host, path)
      BY DEF BackupAccepted, SealedInv, BackupHolds
    <2>1. keyFile = WholeKeyFile(last.keys) /\ hmacFile = WholeHMAC(computeHMAC(keyFile, last.key))
      BY DEF SealedInv, BackupHolds
    <2>2. ASSUME NEW one, NEW other, WholeHMAC(computeHMAC(keyFile, one)) = WholeHMAC(computeHMAC(keyFile, other))
          PROVE  one = other
      <3>1. computeHMAC(keyFile, one) = computeHMAC(keyFile, other)
        BY <2>2 DEF WholeHMAC
      <3>2. QED
        BY <3>1 DEF computeHMAC
    <2>3. hmacFile.is = "whole"
      BY <2>1 DEF WholeHMAC
    <2>4. QED
      BY <2>1, <2>2, <2>3 DEF Verified
  <1>2. SealedInv => RestoredKeysLoaded /\ LostKeysReported
    BY DEF SealedInv, ClusterHolds, RestoredKeysLoaded, LostKeysReported
  <1>3. QED
    BY <1>1, <1>2, SealedInitInv, SealedStepInv, PTL DEF SealedSpec, LastBackupRestores

-----------------------------------------------------------------------------
(* The plugins.                                                            *)

(* The lowest of some numbers is one of them.                              *)
LEMMA LowestExists ==
    ASSUME NEW T \in SUBSET Nat, T # {}
    PROVE  Lowest(T) \in T /\ \A n \in T : Lowest(T) <= n
  BY LeastNat DEF Lowest

PlaceNumbers == 1..SecondRound(Len(Places))
UpdateQueues == SUBSET ((1..Len(Places)) \X Natives)

(* The places have numbers.                                                *)
LEMMA PlacesNumbered ==
    /\ Len(Places) \in Nat /\ DOMAIN Places = 1..Len(Places) /\ PlaceNumbers \in SUBSET Nat
    /\ \A i \in DOMAIN Places : i \in PlaceNumbers /\ SecondRound(i) \in PlaceNumbers
    /\ \A i \in PlaceNumbers : PlaceAt(i) \in PlaceSet
    /\ \A place \in PlaceSet : FileOf(place) \in PluginFiles
    /\ \A i \in DOMAIN Places : PlaceAt(i) = Places[i] /\ PlaceAt(SecondRound(i)) = Places[i]
  <1>1. Len(Places) \in Nat /\ DOMAIN Places = 1..Len(Places) /\ \A i \in 1..Len(Places) : Places[i] \in {"home", "project"} \X PluginFiles
    BY RegistryConstants
  <1>2. \A i \in PlaceNumbers : PlaceAt(i) \in PlaceSet
    BY <1>1 DEF PlaceNumbers, SecondRound, PlaceAt, PlaceSet
  <1>3. \A place \in PlaceSet : FileOf(place) \in PluginFiles
    BY <1>1 DEF PlaceSet, FileOf
  <1>4. \A i \in DOMAIN Places : PlaceAt(i) = Places[i] /\ PlaceAt(SecondRound(i)) = Places[i]
    BY <1>1 DEF SecondRound, PlaceAt
  <1>5. \A i \in DOMAIN Places : i \in PlaceNumbers /\ SecondRound(i) \in PlaceNumbers
    BY <1>1 DEF PlaceNumbers, SecondRound
  <1>6. PlaceNumbers \in SUBSET Nat
    BY <1>1 DEF PlaceNumbers, SecondRound
  <1>7. QED
    BY <1>1, <1>2, <1>3, <1>4, <1>5, <1>6

(* Every plugin file has a place in the home directory, at its number.     *)
LEMMA HomeNumbered ==
    ASSUME NEW f \in PluginFiles
    PROVE  HomeNumber(f) \in DOMAIN Places /\ PlaceAt(HomeNumber(f)) = <<"home", f>>
  <1>1. \E i \in DOMAIN Places : Places[i] = HomePlace(f)
    BY RegistryConstants DEF PlaceSet
  <1>2. HomeNumber(f) \in DOMAIN Places /\ Places[HomeNumber(f)] = HomePlace(f)
    BY <1>1 DEF HomeNumber
  <1>3. QED
    BY <1>2, PlacesNumbered DEF HomePlace

(* The first of a queue is in it.                                          *)
LEMMA NextQueued ==
    ASSUME NEW queue \in UpdateQueues, queue # {}
    PROVE  NextInQueue(queue) \in queue /\ NextInQueue(queue)[2] \in Natives
  <1> DEFINE T == {q[1] : q \in queue}
  <1>1. \A q \in queue : q[1] \in Nat /\ q[2] \in Natives
    BY PlacesNumbered DEF UpdateQueues
  <1>2. T \in SUBSET Nat /\ T # {}
    BY <1>1
  <1>3. Lowest(T) \in T /\ \A n \in T : Lowest(T) <= n
    BY <1>2, LowestExists
  <1>4. PICK q \in queue : q[1] = Lowest(T)
    BY <1>3
  <1>5. \A r \in queue : q[1] <= r[1]
    BY <1>3, <1>4
  <1>6. NextInQueue(queue) \in queue
    BY <1>5 DEF NextInQueue
  <1>7. QED
    BY <1>1, <1>6

RegistryTypes ==
    /\ plugins \in [PlaceSet -> PluginContent] /\ executable \in SUBSET PlaceSet
    /\ registry \in Registry \union {PartialFile} /\ command \in [Clis -> CommandState]
    /\ started \in 0..MaxCommands /\ everTrusted \in SUBSET (PluginFiles \X PluginContent)

(* What a registry says was trusted once.                                  *)
Vouched(reg) == \A f \in PluginFiles : reg[f] # NoFile => <<f, reg[f]>> \in everTrusted

PlaceOf(j) == PlaceAt(Lowest(j.todo))

InstallKinds == {"local", "native", "url"}
InstallSteps == {"create", "copy", "chmod", "trust", "load", "open", "write"}

(* What a command has read of a registry or hashed, and will act on; an    *)
(* install works on a file of the home directory.                          *)
CommandFits(j) ==
    /\ j.pc # "idle" => j.todo # {}
    /\ j.pc \in {"open", "write"} => Vouched(j.reg)
    /\ j.pc = "load" => IF j.op = "untrust" THEN j.seen = NoFile ELSE <<FileOf(PlaceOf(j)), j.seen>> \in everTrusted
    /\ j.pc = "hash" /\ j.op = "run" => <<FileOf(PlaceOf(j)), j.seen>> \in everTrusted
    /\ j.pc = "exec" /\ j.op = "run" => <<FileOf(PlaceOf(j)), j.hashed>> \in everTrusted
    /\ j.pc \in {"check", "hash"} => j.op # "init"
    /\ j.op = "untrust" => j.pc \in {"load", "open", "write"}
    /\ j.op \in InstallKinds => j.pc \in InstallSteps /\ PlaceOf(j)[1] = "home"
    /\ j.pc \in {"create", "copy", "chmod"} => j.op \in InstallKinds

RegistryInv ==
    /\ RegistryTypes
    /\ registry # PartialFile => Vouched(registry)
    /\ \A p \in Clis : CommandFits(command[p])

(* A command with something to do works on a place, and on a plugin file.  *)
LEMMA AtPlace ==
    ASSUME NEW j \in CommandState, j.todo # {}
    PROVE  Lowest(j.todo) \in j.todo /\ PlaceOf(j) \in PlaceSet /\ FileOf(PlaceOf(j)) \in PluginFiles
  <1>1. j.todo \in SUBSET PlaceNumbers
    BY DEF CommandState, PlaceNumbers
  <1>2. Lowest(j.todo) \in j.todo
    BY <1>1, LowestExists, PlacesNumbered
  <1>3. QED
    BY <1>1, <1>2, PlacesNumbered DEF PlaceOf

(* An idle process has a command that fits,                                *)
LEMMA NoCommandFits == NoCommand \in CommandState /\ CommandFits(NoCommand) /\ NoCommand.pc = "idle"
  BY DEF NoCommand, CommandState, CommandSteps, CommandKinds, Registry, PluginContent, CommandFits, InstallKinds

(* The invariant holds at first.                                           *)
LEMMA RegistryInitInv == RegistryInit => RegistryInv
  <1> SUFFICES ASSUME RegistryInit PROVE RegistryInv
    OBVIOUS
  <1>1. plugins \in [PlaceSet -> PluginContent] /\ registry \in Registry /\ \A f \in PluginFiles : registry[f] = NoFile
    BY DEF RegistryInit, PluginContent, Registry
  <1>2. command \in [Clis -> CommandState] /\ \A p \in Clis : command[p] = NoCommand
    BY NoCommandFits DEF RegistryInit
  <1>3. RegistryTypes
    BY <1>1, <1>2, RegistryConstants DEF RegistryInit, RegistryTypes
  <1>4. QED
    BY <1>1, <1>2, <1>3, NoCommandFits DEF RegistryInv, Vouched

(* What was trusted once stays so.                                         *)
LEMMA FitsLater ==
    ASSUME everTrusted \subseteq everTrusted'
    PROVE  /\ \A reg \in Registry : Vouched(reg) => Vouched(reg)'
           /\ \A j \in CommandState : CommandFits(j) => CommandFits(j)'
  BY DEF Vouched, CommandFits

(* One command moves.                                                      *)
LEMMA CommandMoves ==
    ASSUME RegistryInv, NEW p \in Clis, NEW j \in CommandState, command' = [command EXCEPT ![p] = j],
           plugins' \in [PlaceSet -> PluginContent], executable' \in SUBSET PlaceSet,
           registry' \in Registry \union {PartialFile}, started' \in 0..MaxCommands,
           everTrusted' \in SUBSET (PluginFiles \X PluginContent), everTrusted \subseteq everTrusted',
           registry' # PartialFile => registry' = registry \/ Vouched(registry)', CommandFits(j)'
    PROVE  RegistryInv'
  <1>1. command' \in [Clis -> CommandState] /\ command'[p] = j /\ \A q \in Clis : q # p => command'[q] = command[q]
    BY DEF RegistryInv, RegistryTypes
  <1>2. RegistryTypes'
    BY <1>1 DEF RegistryTypes
  <1>3. registry' # PartialFile => Vouched(registry)'
    BY DEF RegistryInv, Vouched
  <1>4. ASSUME NEW q \in Clis PROVE CommandFits(command[q])'
    <2>1. CASE q = p
      BY <1>1, <2>1
    <2>2. CASE q # p
      BY <1>1, <2>2 DEF RegistryInv, CommandFits, Vouched
    <2>3. QED
      BY <2>1, <2>2
  <1>5. QED
    BY <1>2, <1>3, <1>4 DEF RegistryInv

(* A command begins; any others are no longer alone.                       *)
LEMMA CommandBegins ==
    ASSUME RegistryInv, NEW p \in Clis, NEW j \in CommandState, BeginCommand(p, j), CommandFits(j)
    PROVE  RegistryInv'
  <1>1. PICK a \in BOOLEAN : command' = [q \in Clis |-> IF q = p THEN [j EXCEPT !.alone = a] ELSE [command[q] EXCEPT !.alone = FALSE]]
    BY Zenon DEF BeginCommand
  <1>2. started' = started + 1 /\ started < MaxCommands /\ UNCHANGED <<plugins, executable, registry, everTrusted>>
    BY DEF BeginCommand
  <1>3. ASSUME NEW i \in CommandState, NEW b \in BOOLEAN
        PROVE  LET k == [i EXCEPT !.alone = b] IN
               k \in CommandState /\ (CommandFits(i) => CommandFits(k))
    <2> DEFINE k == [i EXCEPT !.alone = b]
    <2>1. k \in CommandState /\ k.pc = i.pc /\ k.op = i.op /\ k.todo = i.todo /\ k.seen = i.seen /\ k.hashed = i.hashed /\ k.reg = i.reg
      BY DEF CommandState
    <2> HIDE DEF k
    <2>2. CommandFits(i) => CommandFits(k)
      BY <2>1 DEF CommandFits, PlaceOf
    <2>3. QED
      BY <2>1, <2>2 DEF k
  <1>4. ASSUME NEW q \in Clis PROVE command'[q] \in CommandState /\ CommandFits(command[q])'
    <2>1. command[q] \in CommandState /\ CommandFits(command[q])
      BY DEF RegistryInv, RegistryTypes
    <2>2. command'[q] = IF q = p THEN [j EXCEPT !.alone = a] ELSE [command[q] EXCEPT !.alone = FALSE]
      BY <1>1
    <2>3. PICK k \in CommandState : k = command'[q] /\ CommandFits(k)
      BY <1>3, <2>1, <2>2
    <2>4. CommandFits(k)'
      BY <1>2, <2>3 DEF CommandFits, Vouched
    <2>5. QED
      BY <2>3, <2>4 DEF CommandFits, PlaceOf
  <1>5. command' \in [Clis -> CommandState]
    BY <1>1, <1>4
  <1>6. started' \in 0..MaxCommands
    BY <1>2, RegistryConstants DEF RegistryInv, RegistryTypes
  <1>7. RegistryTypes'
    BY <1>2, <1>5, <1>6 DEF RegistryInv, RegistryTypes
  <1>8. QED
    BY <1>2, <1>4, <1>7 DEF RegistryInv, Vouched

(* The first step of each command.                                         *)
LEMMA StartFits ==
    ASSUME NEW pc, NEW op, NEW todo \in SUBSET PlaceNumbers, todo # {},
           <<pc, op>> \in {<<"check", "run">>, <<"exec", "init">>, <<"trust", "trust">>, <<"load", "untrust">>,
                           <<"remove", "remove">>}
    PROVE  LET j == [NoCommand EXCEPT !.pc = pc, !.op = op, !.todo = todo] IN
           j \in CommandState /\ CommandFits(j) /\ j.pc # "idle" /\ j.op \notin InstallKinds
  <1> DEFINE j == [NoCommand EXCEPT !.pc = pc, !.op = op, !.todo = todo]
  <1>1. pc \in CommandSteps /\ op \in CommandKinds
    BY DEF CommandSteps, CommandKinds
  <1>2. j \in CommandState
    BY <1>1, NoCommandFits DEF CommandState, PlaceNumbers
  <1>3. j.pc = pc /\ j.op = op /\ j.todo = todo /\ j.seen = NoFile
    BY DEF NoCommand
  <1> HIDE DEF j
  <1>4. CommandFits(j) /\ j.pc # "idle" /\ j.op \notin InstallKinds
    BY <1>3 DEF CommandFits, InstallKinds
  <1>5. QED
    BY <1>2, <1>4 DEF j

(* An install creates a file of the home directory.                        *)
LEMMA InstallFits ==
    ASSUME NEW f \in PluginFiles, NEW j \in CommandState, j.pc = "create", j.op \in InstallKinds, j.todo = {HomeNumber(f)}
    PROVE  CommandFits(j)
  <1>1. HomeNumber(f) \in Nat /\ PlaceAt(HomeNumber(f))[1] = "home"
    BY HomeNumbered, PlacesNumbered
  <1>2. Lowest(j.todo) = HomeNumber(f)
    BY <1>1, LowestExists
  <1>3. QED
    BY <1>1, <1>2 DEF CommandFits, PlaceOf, InstallKinds, InstallSteps

(* and so has one that begins an install,                                  *)
LEMMA InstallStartFits ==
    ASSUME NEW f \in PluginFiles, NEW op \in InstallKinds
    PROVE  LET j == [NoCommand EXCEPT !.pc = "create", !.op = op, !.todo = {HomeNumber(f)}] IN
           j \in CommandState /\ CommandFits(j) /\ j.pc = "create"
  <1> DEFINE j == [NoCommand EXCEPT !.pc = "create", !.op = op, !.todo = {HomeNumber(f)}]
  <1>1. HomeNumber(f) \in PlaceNumbers
    BY HomeNumbered, PlacesNumbered
  <1>2. j \in CommandState
    BY <1>1, NoCommandFits DEF CommandState, CommandSteps, CommandKinds, PlaceNumbers, InstallKinds
  <1>3. j.pc = "create" /\ j.op = op /\ j.todo = {HomeNumber(f)}
    BY DEF NoCommand
  <1> HIDE DEF j
  <1>4. QED
    BY <1>2, <1>3, InstallFits DEF j

(* one that begins to install a local file,                                *)
LEMMA LocalStartFits ==
    ASSUME NEW f \in PluginFiles, NEW seen \in PluginContent
    PROVE  LET j == [NoCommand EXCEPT !.pc = "create", !.op = "local", !.todo = {HomeNumber(f)}, !.seen = seen] IN
           j \in CommandState /\ CommandFits(j) /\ j.pc = "create"
  <1> DEFINE j == [NoCommand EXCEPT !.pc = "create", !.op = "local", !.todo = {HomeNumber(f)}, !.seen = seen]
  <1>1. HomeNumber(f) \in PlaceNumbers
    BY HomeNumbered, PlacesNumbered
  <1>2. j \in CommandState
    BY <1>1, NoCommandFits DEF CommandState, CommandSteps, CommandKinds, PlaceNumbers
  <1>3. j.pc = "create" /\ j.op = "local" /\ j.todo = {HomeNumber(f)}
    BY DEF NoCommand
  <1> HIDE DEF j
  <1>4. QED
    BY <1>2, <1>3, InstallFits DEF j, InstallKinds

(* Neither the queue of a command nor who else is working matters to it.    *)
LEMMA FitsRegardless ==
    ASSUME NEW j \in CommandState, CommandFits(j), NEW queue \in UpdateQueues, NEW a \in BOOLEAN
    PROVE  /\ [j EXCEPT !.queue = queue] \in CommandState /\ CommandFits([j EXCEPT !.queue = queue])
           /\ [j EXCEPT !.alone = a] \in CommandState /\ CommandFits([j EXCEPT !.alone = a])
           /\ [j EXCEPT !.queue = queue].pc = j.pc
           /\ [j EXCEPT !.alone = a].pc = j.pc /\ ([j EXCEPT !.alone = a].alone => a)
  <1> DEFINE k == [j EXCEPT !.queue = queue]
             l == [j EXCEPT !.alone = a]
  <1>1. k \in CommandState /\ k.pc = j.pc /\ k.op = j.op /\ k.todo = j.todo /\ k.seen = j.seen /\ k.hashed = j.hashed /\ k.reg = j.reg
    BY DEF CommandState, UpdateQueues
  <1>2. l \in CommandState /\ l.pc = j.pc /\ l.op = j.op /\ l.todo = j.todo /\ l.seen = j.seen /\ l.hashed = j.hashed /\ l.reg = j.reg
    BY DEF CommandState
  <1> HIDE DEF k, l
  <1>3. CommandFits(k) /\ CommandFits(l)
    BY <1>1, <1>2 DEF CommandFits, PlaceOf
  <1>4. QED
    BY <1>1, <1>2, <1>3 DEF k, l

(* one that installs a native plugin or updates what is queued,            *)
LEMMA JobsFit ==
    /\ \A n \in Natives : NativeJob(n) \in CommandState /\ CommandFits(NativeJob(n)) /\ NativeJob(n).pc = "create"
    /\ \A queue \in UpdateQueues \ {{}} :
         QueuedJob(queue) \in CommandState /\ CommandFits(QueuedJob(queue)) /\ QueuedJob(queue).pc = "create"
  <1>1. ASSUME NEW n \in Natives
        PROVE  NativeJob(n) \in CommandState /\ CommandFits(NativeJob(n)) /\ NativeJob(n).pc = "create"
    BY InstallStartFits, RegistryConstants DEF NativeJob, InstallKinds
  <1>2. ASSUME NEW queue \in UpdateQueues \ {{}}
        PROVE  QueuedJob(queue) \in CommandState /\ CommandFits(QueuedJob(queue)) /\ QueuedJob(queue).pc = "create"
    <2>1. NextInQueue(queue)[2] \in Natives /\ queue \ {NextInQueue(queue)} \in UpdateQueues
      BY NextQueued DEF UpdateQueues
    <2>2. QED
      BY <1>1, <2>1, FitsRegardless DEF QueuedJob
  <1>3. QED
    BY <1>1, <1>2

(* and one that goes on to the next in its queue, or is done.              *)
LEMMA FinishedFits ==
    ASSUME NEW j \in CommandState
    PROVE  /\ FinishedCommand(j) \in CommandState /\ CommandFits(FinishedCommand(j))
           /\ FinishedCommand(j).pc \in {"idle", "create"}
           /\ FinishedCommand(j).pc # "idle" /\ FinishedCommand(j).alone => j.alone
  <1>1. j.queue \in UpdateQueues /\ j.alone \in BOOLEAN
    BY DEF CommandState, UpdateQueues
  <1>2. CASE j.queue = {}
    BY <1>2, NoCommandFits DEF FinishedCommand
  <1>3. CASE j.queue # {}
    <2> DEFINE i == QueuedJob(j.queue)
    <2>1. i \in CommandState /\ CommandFits(i) /\ i.pc = "create"
      BY <1>1, <1>3, JobsFit
    <2>2. FinishedCommand(j) = [i EXCEPT !.alone = j.alone]
      BY <1>3 DEF FinishedCommand
    <2> HIDE DEF i
    <2>3. QED
      BY <1>1, <2>1, <2>2, FitsRegardless
  <1>4. QED
    BY <1>2, <1>3

(* The places a manifest was found at.                                     *)
LEMMA PluginsFound ==
    /\ Discover \in SUBSET (DOMAIN Places) /\ \A n : PluginsNamed(n) \in SUBSET Discover /\ PluginsWith(n) \in SUBSET Discover
    /\ \A n : FoundPlugin(n) => GetPlugin(n) \in PluginsNamed(n) /\ GetPlugin(n) \in DOMAIN Places
  <1>1. Discover \in SUBSET (DOMAIN Places) /\ \A n : PluginsNamed(n) \in SUBSET Discover /\ PluginsWith(n) \in SUBSET Discover
    BY DEF Discover, PluginsNamed, PluginsWith
  <1>2. \A n : PluginsNamed(n) \in SUBSET Nat
    BY <1>1, PlacesNumbered
  <1>3. QED
    BY <1>1, <1>2, LowestExists DEF FoundPlugin, GetPlugin

(* The hooks are run one after the other.                                  *)
LEMMA HooksGoOn ==
    ASSUME RegistryInv, NEW p \in Clis, command[p].pc \in {"check", "hash", "exec"}, NextHook(p)
    PROVE  \E j \in CommandState : /\ command' = [command EXCEPT ![p] = j] /\ CommandFits(j)
                                   /\ j.pc \in {"idle", "check", "exec"}
                                   /\ j.pc = "idle" \/ j.alone = command[p].alone
  <1> DEFINE rest == command[p].todo \ {Lowest(command[p].todo)}
             pc == IF command[p].pc = "exec" /\ command[p].op = "init" THEN "exec" ELSE "check"
             j == [command[p] EXCEPT !.pc = pc, !.todo = rest, !.seen = NoFile, !.hashed = NoFile]
  <1>1. command[p] \in CommandState /\ CommandFits(command[p])
    BY DEF RegistryInv, RegistryTypes
  <1>2. rest \in SUBSET PlaceNumbers
    BY <1>1 DEF CommandState, PlaceNumbers
  <1>3. command' = [command EXCEPT ![p] = IF rest = {} THEN NoCommand ELSE j]
    BY DEF NextHook
  <1>4. pc \in {"exec", "check"} /\ (pc = "exec" <=> command[p].pc = "exec" /\ command[p].op = "init")
    OBVIOUS
  <1> HIDE DEF rest, pc
  <1>5. j \in CommandState /\ j.pc = pc /\ j.op = command[p].op /\ j.todo = rest
    BY <1>1, <1>2, <1>4 DEF CommandState, CommandSteps, PlaceNumbers, PluginContent
  <1> HIDE DEF j
  <1>6. ASSUME rest # {} PROVE CommandFits(j)
    BY <1>1, <1>4, <1>5, <1>6 DEF CommandFits, PlaceOf, InstallKinds, InstallSteps
  <1>7. CASE rest = {}
    BY <1>3, <1>7, NoCommandFits
  <1>8. CASE rest # {}
    <2>1. j.alone = command[p].alone
      BY <1>1 DEF CommandState, j
    <2>3. j.pc \in {"idle", "check", "exec"}
      BY <1>4, <1>5
    <2>4. PICK k \in CommandState : k = j
      BY <1>5
    <2>5. command' = [command EXCEPT ![p] = k] /\ CommandFits(k) /\ k.pc \in {"idle", "check", "exec"}
      BY <1>3, <1>6, <1>8, <2>3, <2>4
    <2>6. k.alone = command[p].alone
      BY <2>1, <2>4
    <2>7. QED
      BY <2>5, <2>6
  <1>9. QED
    BY <1>7, <1>8

(* One step of a command: which of its fields change, and to what.         *)
LEMMA GotoFits ==
    ASSUME RegistryInv, NEW p \in Clis, NEW pc \in CommandSteps, pc \notin {"idle", "check", "hash", "exec", "load", "open", "remove"},
           command' = [command EXCEPT ![p].pc = pc], command[p].pc # "idle",
           pc = "write" <=> command[p].pc = "open",
           pc \in {"create", "copy", "chmod"} => command[p].pc \in {"create", "copy", "chmod"},
           command[p].pc \notin {"load", "write"}
    PROVE  \E j \in CommandState : command' = [command EXCEPT ![p] = j] /\ CommandFits(j)
  <1> DEFINE j == [command[p] EXCEPT !.pc = pc]
  <1>1. command[p] \in CommandState /\ CommandFits(command[p])
    BY DEF RegistryInv, RegistryTypes
  <1>2. j \in CommandState /\ j.pc = pc /\ j.op = command[p].op /\ j.todo = command[p].todo
                         /\ j.seen = command[p].seen /\ j.reg = command[p].reg
    BY <1>1 DEF CommandState
  <1>3. command' = [command EXCEPT ![p] = j]
    OBVIOUS
  <1> HIDE DEF j
  <1>4. PlaceOf(j) = PlaceOf(command[p])
    BY <1>2 DEF PlaceOf
  <1>5. pc \in {"create", "copy", "chmod", "trust", "write"}
    BY DEF CommandSteps
  <1>6. j.op \in InstallKinds => j.pc \in InstallSteps /\ PlaceOf(j)[1] = "home"
    BY <1>1, <1>2, <1>4, <1>5 DEF CommandFits, InstallSteps
  <1>7. CommandFits(j)
    BY <1>1, <1>2, <1>4, <1>5, <1>6 DEF CommandFits
  <1>8. QED
    BY <1>2, <1>3, <1>7

(* Every step keeps the invariant.                                         *)
LEMMA RegistryStepInv == RegistryInv /\ [RegistryNext]_registryVars => RegistryInv'
  <1> SUFFICES ASSUME RegistryInv, [RegistryNext]_registryVars PROVE RegistryInv'
    OBVIOUS
  <1>1. RegistryTypes /\ \A p \in Clis : command[p] \in CommandState /\ CommandFits(command[p])
    BY DEF RegistryInv, RegistryTypes
  <1> DEFINE Files == plugins' \in [PlaceSet -> PluginContent] /\ executable' \in SUBSET PlaceSet
             Quiet == UNCHANGED <<registry, started, everTrusted>>
             Moves(p) == \E j \in CommandState : command' = [command EXCEPT ![p] = j] /\ CommandFits(j)
  <1>2. ASSUME NEW p \in Clis, Files, Quiet, Moves(p) PROVE RegistryInv'
    <2>1. PICK j \in CommandState : command' = [command EXCEPT ![p] = j] /\ CommandFits(j)
      BY <1>2
    <2>2. CommandFits(j)'
      BY <1>2, <2>1 DEF CommandFits, Vouched
    <2>3. QED
      BY <1>1, <1>2, <2>1, <2>2, CommandMoves DEF RegistryTypes
  <1>3. UNCHANGED <<plugins, executable>> => Files
    BY <1>1 DEF RegistryTypes
  <1>4. ASSUME NEW p \in Clis, EndCommand(p) PROVE Moves(p)
    BY <1>1, <1>4, FinishedFits DEF EndCommand
  <1>30. ASSUME NEW p \in Clis, command[p].pc \in {"check", "hash", "exec"}, NextHook(p) PROVE Moves(p)
    <2>1. PICK j \in CommandState : /\ command' = [command EXCEPT ![p] = j] /\ CommandFits(j)
                                    /\ j.pc \in {"idle", "check", "exec"}
                                    /\ j.pc = "idle" \/ j.alone = command[p].alone
      BY <1>30, HooksGoOn
    <2>2. QED
      BY <2>1
  <1>5. ASSUME NEW p \in Clis, NEW n, RunPlugin(p, n) \/ TrustPlugin(p, n) \/ RemovePlugin(p, n) PROVE RegistryInv'
    <2>1. CASE RunPlugin(p, n)
      <3> DEFINE target == GetPlugin(n)
                 first == IF "context" \in Hooks[plugins[Places[target]]] THEN PluginsWith("context") ELSE {}
                 todo == first \union {SecondRound(target)}
      <3>1. todo \in SUBSET PlaceNumbers /\ todo # {}
        BY <2>1, PluginsFound, PlacesNumbered DEF RunPlugin, FoundPlugin
      <3>2. BeginCommand(p, [NoCommand EXCEPT !.pc = "check", !.op = "run", !.todo = todo])
        BY <2>1 DEF RunPlugin
      <3> HIDE DEF todo
      <3>3. QED
        BY <3>1, <3>2, StartFits, CommandBegins
    <2>2. CASE TrustPlugin(p, n)
      <3>1. {GetPlugin(n)} \in SUBSET PlaceNumbers
        BY <2>2, PluginsFound, PlacesNumbered DEF TrustPlugin
      <3>2. QED
        BY <2>2, <3>1, StartFits, CommandBegins DEF TrustPlugin
    <2>3. CASE RemovePlugin(p, n)
      <3>1. {GetPlugin(n)} \in SUBSET PlaceNumbers
        BY <2>3, PluginsFound, PlacesNumbered DEF RemovePlugin
      <3>2. QED
        BY <2>3, <3>1, StartFits, CommandBegins DEF RemovePlugin
    <2>4. QED
      BY <1>5, <2>1, <2>2, <2>3
  <1>6. ASSUME NEW p \in Clis, NEW f \in PluginFiles, InstallURL(p, f) \/ UntrustPlugin(p, f) PROVE RegistryInv'
    <2>1. {HomeNumber(f)} \in SUBSET PlaceNumbers
      BY HomeNumbered, PlacesNumbered
    <2>2. QED
      BY <1>6, <2>1, StartFits, InstallStartFits, CommandBegins DEF InstallURL, UntrustPlugin, InstallKinds
  <1>7. ASSUME NEW p \in Clis, NEW f \in PluginFiles, NEW force \in BOOLEAN, InstallLocal(p, f, force) PROVE RegistryInv'
    <2>1. (IF Taken(f) /\ ~force THEN PartialFile ELSE NoFile) \in PluginContent
      BY DEF PluginContent
    <2>2. QED
      BY <1>7, <2>1, LocalStartFits, CommandBegins DEF InstallLocal
  <1>8. ASSUME NEW p \in Clis, NEW n \in Natives, NEW force \in BOOLEAN, InstallNative(p, n, force) PROVE RegistryInv'
    BY <1>8, JobsFit, CommandBegins DEF InstallNative
  <1>9. ASSUME NEW p \in Clis, UpdatePlugins(p) PROVE RegistryInv'
    <2> DEFINE found == {<<i, PluginName[plugins[Places[i]]]>> : i \in Discover}
               queue == {q \in found : q[2] \in Natives}
    <2>1. queue \in UpdateQueues /\ queue # {}
      BY <1>9, PluginsFound, PlacesNumbered DEF UpdatePlugins, UpdateQueues
    <2>2. BeginCommand(p, QueuedJob(queue))
      BY <1>9 DEF UpdatePlugins
    <2> HIDE DEF queue
    <2>3. QED
      BY <2>1, <2>2, JobsFit, CommandBegins
  <1>10. ASSUME NEW p \in Clis, InitHooks(p) PROVE RegistryInv'
    <2> DEFINE all == PluginsWith("context") \union {SecondRound(i) : i \in PluginsWith("assets")}
    <2>1. all \in SUBSET PlaceNumbers /\ all # {} /\ BeginCommand(p, [NoCommand EXCEPT !.pc = "exec", !.op = "init", !.todo = all])
      BY <1>10, PluginsFound, PlacesNumbered DEF InitHooks
    <2> HIDE DEF all
    <2>2. QED
      BY <2>1, StartFits, CommandBegins
  <1>11. ASSUME NEW p \in Clis PROVE command[p].pc # "idle" => WorksOn(p) = PlaceOf(command[p]) /\ WorksOn(p) \in PlaceSet /\ FileOf(WorksOn(p)) \in PluginFiles
    BY <1>1, AtPlace DEF WorksOn, PlaceOf, CommandFits
  <1>12. ASSUME NEW p \in Clis, CheckEntry(p) PROVE RegistryInv'
    <2>1. CASE registry = PartialFile \/ registry[FileOf(WorksOn(p))] = NoFile
      BY <1>2, <1>3, <1>12, <2>1, <1>30 DEF CheckEntry
    <2>2. CASE ~(registry = PartialFile \/ registry[FileOf(WorksOn(p))] = NoFile)
      <3> DEFINE sum == registry[FileOf(WorksOn(p))]
                 j == [command[p] EXCEPT !.pc = "hash", !.seen = sum]
      <3>1. command[p].pc = "check" /\ command' = [command EXCEPT ![p] = j]
        BY <1>12, <2>2 DEF CheckEntry
      <3>2. sum \in PluginContent /\ <<FileOf(WorksOn(p)), sum>> \in everTrusted
        BY <1>1, <1>11, <2>2, <3>1 DEF RegistryInv, RegistryTypes, Vouched, Registry
      <3>3. j \in CommandState /\ j.pc = "hash" /\ j.op = command[p].op /\ j.todo = command[p].todo /\ j.seen = sum
        BY <1>1, <3>2 DEF CommandState, CommandSteps
      <3> HIDE DEF j, sum
      <3>4. CommandFits(j)
        BY <1>1, <1>11, <3>1, <3>2, <3>3 DEF CommandFits, PlaceOf, InstallKinds, InstallSteps
      <3>5. Moves(p)
        BY <3>1, <3>3, <3>4
      <3>6. QED
        BY <1>2, <1>3, <1>12, <3>5 DEF CheckEntry
    <2>3. QED
      BY <2>1, <2>2
  <1>13. ASSUME NEW p \in Clis, CheckHash(p) PROVE RegistryInv'
    <2>1. Moves(p)
      <3>1. CASE plugins[WorksOn(p)] = command[p].seen
        <4> DEFINE sum == plugins[WorksOn(p)]
                   j == [command[p] EXCEPT !.pc = "exec", !.hashed = sum]
        <4>1. command[p].pc = "hash" /\ command' = [command EXCEPT ![p] = j]
          BY <1>13, <3>1 DEF CheckHash
        <4>2. sum \in PluginContent /\ (command[p].op = "run" => <<FileOf(PlaceOf(command[p])), sum>> \in everTrusted)
          BY <1>1, <1>11, <3>1, <4>1 DEF RegistryTypes, CommandFits
        <4>3. j \in CommandState /\ j.pc = "exec" /\ j.op = command[p].op /\ j.todo = command[p].todo /\ j.hashed = sum
          BY <1>1, <4>2 DEF CommandState, CommandSteps
        <4> HIDE DEF j, sum
        <4>4. CommandFits(j)
          BY <1>1, <4>1, <4>2, <4>3 DEF CommandFits, PlaceOf, InstallKinds, InstallSteps
        <4>5. QED
          BY <4>1, <4>3, <4>4
      <3>2. CASE plugins[WorksOn(p)] # command[p].seen
        BY <1>13, <3>2, <1>30 DEF CheckHash
      <3>3. QED
        BY <3>1, <3>2
    <2>2. QED
      BY <1>2, <1>3, <1>13, <2>1 DEF CheckHash
  <1>14. ASSUME NEW p \in Clis, ExecPlugin(p) PROVE RegistryInv'
    BY <1>2, <1>3, <1>14, <1>30 DEF ExecPlugin
  <1>15. ASSUME NEW p \in Clis, CreateFile(p) PROVE RegistryInv'
    <2>1. Files
      BY <1>1, <1>11, <1>15 DEF CreateFile, RegistryTypes, PluginContent
    <2>2. Moves(p)
      <3>1. CASE command[p].seen = PartialFile
        BY <1>4, <1>15, <3>1 DEF CreateFile
      <3>2. CASE command[p].seen # PartialFile
        BY <1>15, <3>2, GotoFits DEF CreateFile, GotoStep, CommandSteps
      <3>3. QED
        BY <3>1, <3>2
    <2>3. QED
      BY <1>2, <1>15, <2>1, <2>2 DEF CreateFile
  <1>16. ASSUME NEW p \in Clis, CopyBinary(p) PROVE RegistryInv'
    <2>1. Files
      BY <1>1, <1>11, <1>16 DEF CopyBinary, RegistryTypes, PluginContent
    <2>2. Moves(p)
      <3>1. CASE command[p].op = "local"
        BY <1>16, <3>1, GotoFits DEF CopyBinary, GotoStep, CommandSteps
      <3>2. CASE command[p].op # "local"
        BY <1>16, <3>2, GotoFits DEF CopyBinary, GotoStep, CommandSteps
      <3>3. QED
        BY <3>1, <3>2
    <2>3. QED
      BY <1>2, <1>16, <2>1, <2>2 DEF CopyBinary
  <1>17. ASSUME NEW p \in Clis, ChmodBinary(p) PROVE RegistryInv'
    <2>1. Files
      BY <1>1, <1>11, <1>17 DEF ChmodBinary, RegistryTypes
    <2>2. Moves(p)
      BY <1>17, GotoFits DEF ChmodBinary, GotoStep, CommandSteps
    <2>3. QED
      BY <1>2, <1>17, <2>1, <2>2 DEF ChmodBinary
  <1>18. ASSUME NEW p \in Clis, TrustHash(p) PROVE RegistryInv'
    <2>1. CASE plugins[WorksOn(p)] = NoFile
      BY <1>2, <1>3, <1>4, <1>18, <2>1 DEF TrustHash
    <2>2. CASE plugins[WorksOn(p)] # NoFile
      <3> DEFINE sum == plugins[WorksOn(p)]
                 j == [command[p] EXCEPT !.pc = "load", !.seen = sum]
      <3>1. /\ command[p].pc = "trust" /\ command' = [command EXCEPT ![p] = j]
            /\ everTrusted' = everTrusted \union {<<FileOf(WorksOn(p)), sum>>}
            /\ UNCHANGED <<plugins, executable, registry, started>>
        BY <1>18, <2>2 DEF TrustHash
      <3>2. sum \in PluginContent /\ FileOf(WorksOn(p)) \in PluginFiles
        BY <1>1, <1>11, <3>1 DEF RegistryTypes
      <3>3. j \in CommandState /\ j.pc = "load" /\ j.op = command[p].op /\ j.todo = command[p].todo /\ j.seen = sum
        BY <1>1, <3>2 DEF CommandState, CommandSteps
      <3> HIDE DEF j
      <3>4. command[p].op # "untrust"
        BY <1>1, <3>1 DEF CommandFits
      <3>5. PICK k \in CommandState : k = j
        BY <3>3
      <3>6. PICK x \in PluginContent : x = sum
        BY <3>2
      <3>7. <<FileOf(PlaceOf(k)), x>> \in everTrusted'
        BY <1>11, <3>1, <3>3, <3>5, <3>6 DEF PlaceOf
      <3>8. CommandFits(k)'
        BY <1>1, <3>1, <3>3, <3>4, <3>5, <3>6, <3>7 DEF CommandFits, PlaceOf, InstallKinds, InstallSteps
      <3>9. everTrusted' \in SUBSET (PluginFiles \X PluginContent) /\ everTrusted \subseteq everTrusted'
        BY <1>1, <3>1, <3>2 DEF RegistryTypes
      <3>10. command' = [command EXCEPT ![p] = k]
        BY <3>1, <3>5
      <3>11. QED
        BY <1>1, <3>1, <3>8, <3>9, <3>10, CommandMoves DEF RegistryTypes
    <2>3. QED
      BY <2>1, <2>2
  <1>19. ASSUME NEW p \in Clis, LoadRegistry(p) PROVE RegistryInv'
    <2> DEFINE f == FileOf(WorksOn(p))
               reg == [registry EXCEPT ![f] = command[p].seen]
               j == [command[p] EXCEPT !.pc = "open", !.reg = reg]
    <2>1. CASE registry = PartialFile \/ (command[p].op = "untrust" /\ registry[f] = NoFile)
      BY <1>2, <1>3, <1>4, <1>19, <2>1 DEF LoadRegistry
    <2>2. CASE ~(registry = PartialFile \/ (command[p].op = "untrust" /\ registry[f] = NoFile))
      <3>1. command[p].pc = "load" /\ command' = [command EXCEPT ![p] = j]
        BY <1>19, <2>2 DEF LoadRegistry
      <3>2. registry \in Registry /\ Vouched(registry) /\ command[p].seen \in PluginContent /\ f \in PluginFiles
        BY <1>1, <1>11, <2>2, <3>1 DEF RegistryInv, RegistryTypes, CommandState
      <3>3. reg \in Registry /\ Vouched(reg)
        BY <1>1, <1>11, <3>1, <3>2 DEF Registry, Vouched, CommandFits
      <3> HIDE DEF reg
      <3>4. j \in CommandState /\ j.pc = "open" /\ j.op = command[p].op /\ j.todo = command[p].todo /\ j.reg = reg
        BY <1>1, <3>3 DEF CommandState, CommandSteps
      <3> HIDE DEF j
      <3>5. CommandFits(j)
        BY <1>1, <3>1, <3>3, <3>4 DEF CommandFits, PlaceOf, InstallKinds, InstallSteps
      <3>6. QED
        BY <1>2, <1>3, <1>19, <3>1, <3>4, <3>5 DEF LoadRegistry
    <2>3. QED
      BY <2>1, <2>2
  <1>20. ASSUME NEW p \in Clis, OpenRegistry(p) PROVE RegistryInv'
    <2>1. PICK j \in CommandState : command' = [command EXCEPT ![p] = j] /\ CommandFits(j)
      BY <1>20, GotoFits DEF OpenRegistry, GotoStep, CommandSteps
    <2>2. registry' = PartialFile /\ UNCHANGED <<plugins, executable, started, everTrusted>>
      BY <1>20 DEF OpenRegistry
    <2>3. CommandFits(j)'
      BY <2>1, <2>2 DEF CommandFits, Vouched
    <2>4. QED
      BY <1>1, <2>1, <2>2, <2>3, CommandMoves DEF RegistryTypes
  <1>21. ASSUME NEW p \in Clis, WriteRegistry(p) PROVE RegistryInv'
    <2>1. PICK j \in CommandState : command' = [command EXCEPT ![p] = j] /\ CommandFits(j)
      BY <1>4, <1>21 DEF WriteRegistry
    <2>2. command[p].pc = "write" /\ registry' = command[p].reg /\ UNCHANGED <<plugins, executable, started, everTrusted>>
      BY <1>21 DEF WriteRegistry
    <2>3. registry' \in Registry /\ Vouched(registry)'
      BY <1>1, <2>2 DEF CommandFits, Vouched, CommandState
    <2>4. CommandFits(j)'
      BY <2>1, <2>2 DEF CommandFits, Vouched
    <2>5. QED
      BY <1>1, <2>1, <2>2, <2>3, <2>4, CommandMoves DEF RegistryTypes
  <1>22. ASSUME NEW p \in Clis, RemoveFile(p) PROVE RegistryInv'
    <2>1. Files
      BY <1>1, <1>11, <1>22 DEF RemoveFile, RegistryTypes, PluginContent
    <2>2. QED
      BY <1>2, <1>4, <1>22, <2>1 DEF RemoveFile
  <1>23. ASSUME NEW p \in Clis, KillCommand(p) \/ InstallFails(p) PROVE RegistryInv'
    BY <1>2, <1>3, <1>4, <1>23, NoCommandFits DEF KillCommand, InstallFails
  <1>24. ASSUME NEW place \in PlaceSet, ProjectPluginChanges(place) PROVE RegistryInv'
    <2>1. Files /\ UNCHANGED <<registry, command, started, everTrusted>>
      BY <1>1, <1>24 DEF ProjectPluginChanges, RegistryTypes, PluginContent
    <2>2. QED
      BY <2>1 DEF RegistryInv, RegistryTypes, Vouched, CommandFits
  <1>25. CASE UNCHANGED registryVars
    BY <1>25 DEF registryVars, RegistryInv, RegistryTypes, Vouched, CommandFits
  <1>26. QED
    BY <1>5, <1>6, <1>7, <1>8, <1>9, <1>10, <1>12, <1>13, <1>14, <1>15, <1>16, <1>17, <1>18, <1>19, <1>20,
       <1>21, <1>22, <1>23, <1>24, <1>25 DEF RegistryNext

(* What an install nobody disturbs has done so far.                        *)
LoneFits(j) == j.alone /\ j.op \in InstallKinds =>
    /\ j.pc \in {"chmod", "trust", "load", "open", "write"} => plugins[PlaceOf(j)] \in Builds
    /\ j.pc \in {"trust", "load", "open", "write"} /\ j.op # "local" => PlaceOf(j) \in executable
    /\ j.pc \in {"load", "open", "write"} => j.seen = plugins[PlaceOf(j)]
    /\ j.pc \in {"open", "write"} => j.reg[FileOf(PlaceOf(j))] = plugins[PlaceOf(j)]
    /\ j.pc = "write" => registry = PartialFile

LoneInv ==
    /\ RegistryInv
    /\ \A p \in Clis : LoneFits(command[p])
    /\ \A p, q \in Clis : command[p].alone /\ command[p].pc # "idle" /\ p # q => command[q].pc = "idle"

(* A working command that moves has nobody disturb; the files it changes   *)
(* are not those of an install that has the field for itself.              *)
LEMMA LoneMoves ==
    ASSUME LoneInv, RegistryInv', NEW p \in Clis, command[p].pc # "idle",
           NEW j \in CommandState, command' = [command EXCEPT ![p] = j], LoneFits(j)',
           j.alone /\ j.pc # "idle" => command[p].alone
    PROVE  LoneInv'
  <1>1. command'[p] = j /\ \A q \in Clis : q # p => command'[q] = command[q]
    BY DEF LoneInv, RegistryInv, RegistryTypes
  <1>2. \A q \in Clis : command[q].op \in InstallKinds => command[q].pc # "idle"
    BY DEF LoneInv, RegistryInv, CommandFits, InstallSteps
  <1>3. ASSUME NEW q \in Clis PROVE LoneFits(command[q])'
    <2>1. CASE q = p
      BY <1>1, <2>1
    <2>2. CASE q # p
      BY <1>1, <1>2, <2>2 DEF LoneInv, LoneFits
    <2>3. QED
      BY <2>1, <2>2
  <1>4. ASSUME NEW q \in Clis, NEW r \in Clis, command'[q].alone, command'[q].pc # "idle", q # r
        PROVE  command'[r].pc = "idle"
    BY <1>1, <1>4 DEF LoneInv
  <1>5. QED
    BY <1>3, <1>4 DEF LoneInv

(* A command ends or goes to the next plugin.                              *)
LEMMA LoneEnds ==
    ASSUME LoneInv, RegistryInv', NEW p \in Clis, command[p].pc # "idle", EndCommand(p)
    PROVE  LoneInv'
  <1>1. command[p] \in CommandState
    BY DEF LoneInv, RegistryInv, RegistryTypes
  <1>2. PICK i \in CommandState : i = command[p]
    BY <1>1
  <1>3. PICK j \in CommandState : j = FinishedCommand(i)
    BY FinishedFits
  <1>4. j.pc \in {"idle", "create"} /\ (j.pc # "idle" /\ j.alone => i.alone)
    BY <1>3, FinishedFits
  <1>5. j.alone /\ j.pc # "idle" => command[p].alone
    BY <1>2, <1>4, Zenon
  <1>6. command' = [command EXCEPT ![p] = j]
    BY <1>2, <1>3 DEF EndCommand
  <1>7. j.pc \in {"idle", "create"}
    BY <1>4, Zenon
  <1>8. LoneFits(j)'
    BY <1>7 DEF LoneFits
  <1>9. QED
    BY <1>5, <1>6, <1>8, LoneMoves

(* A command that is not an install moves.                                 *)
LEMMA LoneOthers ==
    ASSUME LoneInv, RegistryInv', NEW p \in Clis, command[p].pc # "idle",
           NEW j \in CommandState, command' = [command EXCEPT ![p] = j], j.op \notin InstallKinds,
           j.alone /\ j.pc # "idle" => command[p].alone
    PROVE  LoneInv'
  <1>1. LoneFits(j)'
    BY DEF LoneFits
  <1>2. QED
    BY <1>1, LoneMoves

(* One step of a command, the rest of it as it was.                        *)
LEMMA LoneGoes ==
    ASSUME LoneInv, RegistryInv', NEW p \in Clis, command[p].pc # "idle", NEW pc \in CommandSteps,
           command' = [command EXCEPT ![p].pc = pc],
           command[p].alone /\ command[p].op \in InstallKinds =>
             \A j \in CommandState : j.pc = pc /\ j.op = command[p].op /\ j.todo = command[p].todo
                                    /\ j.seen = command[p].seen /\ j.reg = command[p].reg => LoneFits(j)'
    PROVE  LoneInv'
  <1> DEFINE k == [command[p] EXCEPT !.pc = pc]
  <1>1. command[p] \in CommandState
    BY DEF LoneInv, RegistryInv, RegistryTypes
  <1>2. command' = [command EXCEPT ![p] = k]
    OBVIOUS
  <1>3. /\ k \in CommandState /\ k.pc = pc /\ k.op = command[p].op /\ k.todo = command[p].todo
        /\ k.seen = command[p].seen /\ k.reg = command[p].reg
    BY <1>1 DEF CommandState
  <1>4. k.alone => command[p].alone
    BY <1>1 DEF CommandState
  <1> HIDE DEF k
  <1>5. PICK j \in CommandState : j = k
    BY <1>3
  <1>6. LoneFits(j)'
    <2>1. CASE command[p].alone /\ command[p].op \in InstallKinds
      BY <1>3, <1>5, <2>1
    <2>2. CASE command[p].op \notin InstallKinds
      BY <1>3, <1>5, <2>2 DEF LoneFits
    <2>3. CASE ~command[p].alone
      <3>1. ~j.alone
        BY <1>4, <1>5, <2>3
      <3>2. QED
        BY <3>1 DEF LoneFits
    <2>4. QED
      BY <2>1, <2>2, <2>3
  <1>7. QED
    BY <1>2, <1>4, <1>5, <1>6, LoneMoves

(* A command that begins is alone only if nobody else is at work.          *)
LEMMA LoneBegins ==
    ASSUME LoneInv, RegistryInv', NEW p \in Clis, NEW j \in CommandState, BeginCommand(p, j),
           j.pc = "create" \/ j.op \notin InstallKinds
    PROVE  LoneInv'
  <1>1. PICK a \in BOOLEAN :
           /\ command' = [q \in Clis |-> IF q = p THEN [j EXCEPT !.alone = a] ELSE [command[q] EXCEPT !.alone = FALSE]]
           /\ a <=> \A r \in Clis : command[r].pc = "idle"
    BY Zenon DEF BeginCommand
  <1> DEFINE k == [j EXCEPT !.alone = a]
  <1>2. k.alone = a /\ k.pc = j.pc /\ k.op = j.op
    BY DEF CommandState
  <1>3. command'[p] = k
    BY <1>1
  <1> HIDE DEF k
  <1>4. ASSUME NEW q \in Clis, q # p PROVE ~command'[q].alone /\ command'[q].pc = command[q].pc
    <2>1. command[q] \in CommandState
      BY DEF LoneInv, RegistryInv, RegistryTypes
    <2>2. command'[q] = [command[q] EXCEPT !.alone = FALSE]
      BY <1>1, <1>4
    <2>3. QED
      BY <2>1, <2>2 DEF CommandState
  <1>5. ASSUME NEW q \in Clis PROVE LoneFits(command[q])'
    <2>1. CASE q = p
      BY <1>2, <1>3, <2>1 DEF LoneFits
    <2>2. CASE q # p
      BY <1>4, <2>2 DEF LoneFits
    <2>3. QED
      BY <2>1, <2>2
  <1>6. ASSUME NEW q \in Clis, NEW r \in Clis, command'[q].alone, q # r PROVE command'[r].pc = "idle"
    <2>1. q = p
      BY <1>4, <1>6
    <2>2. a
      BY <1>2, <1>3, <1>6, <2>1
    <2>3. QED
      BY <1>1, <1>4, <1>6, <2>1, <2>2
  <1>7. QED
    BY <1>5, <1>6 DEF LoneInv

(* Every step keeps what a lone install knows.                             *)
LEMMA LoneStepInv == LoneInv /\ [RegistryNext]_registryVars => LoneInv'
  <1> SUFFICES ASSUME LoneInv, [RegistryNext]_registryVars PROVE LoneInv'
    OBVIOUS
  <1>1. RegistryInv /\ RegistryInv' /\ RegistryTypes /\ \A p \in Clis : command[p] \in CommandState /\ CommandFits(command[p])
    BY RegistryStepInv DEF LoneInv, RegistryInv, RegistryTypes
  <1>2. ASSUME NEW p \in Clis PROVE command[p].pc # "idle" => WorksOn(p) = PlaceOf(command[p]) /\ WorksOn(p) \in PlaceSet /\ FileOf(WorksOn(p)) \in PluginFiles
    BY <1>1, AtPlace DEF WorksOn, PlaceOf, CommandFits
  <1>3. ASSUME NEW p \in Clis, command[p].pc \in {"check", "hash", "exec"}, NextHook(p) PROVE LoneInv'
    <2>1. PICK j \in CommandState : /\ command' = [command EXCEPT ![p] = j] /\ CommandFits(j)
                                    /\ j.pc \in {"idle", "check", "exec"}
                                    /\ j.pc = "idle" \/ j.alone = command[p].alone
      BY <1>1, <1>3, HooksGoOn
    <2>2. j.pc # "idle" /\ j.alone => command[p].alone
      BY <2>1
    <2>3. j.op \notin InstallKinds
      BY <2>1 DEF CommandFits, InstallSteps
    <2>4. QED
      BY <1>1, <1>3, <2>1, <2>2, <2>3, LoneOthers
  <1>4. ASSUME NEW p \in Clis, NEW n, RunPlugin(p, n) \/ TrustPlugin(p, n) \/ RemovePlugin(p, n) PROVE LoneInv'
    <2>1. CASE RunPlugin(p, n)
      <3> DEFINE target == GetPlugin(n)
                 first == IF "context" \in Hooks[plugins[Places[target]]] THEN PluginsWith("context") ELSE {}
                 todo == first \union {SecondRound(target)}
      <3>1. todo \in SUBSET PlaceNumbers /\ todo # {}
        BY <2>1, PluginsFound, PlacesNumbered DEF RunPlugin, FoundPlugin
      <3>2. BeginCommand(p, [NoCommand EXCEPT !.pc = "check", !.op = "run", !.todo = todo])
        BY <2>1 DEF RunPlugin
      <3> HIDE DEF todo
      <3>3. QED
        BY <1>1, <3>1, <3>2, StartFits, LoneBegins
    <2>2. CASE TrustPlugin(p, n) \/ RemovePlugin(p, n)
      <3>1. {GetPlugin(n)} \in SUBSET PlaceNumbers
        BY <2>2, PluginsFound, PlacesNumbered DEF TrustPlugin, RemovePlugin
      <3>2. QED
        BY <1>1, <2>2, <3>1, StartFits, LoneBegins DEF TrustPlugin, RemovePlugin
    <2>3. QED
      BY <1>4, <2>1, <2>2
  <1>5. ASSUME NEW p \in Clis, NEW f \in PluginFiles, InstallURL(p, f) \/ UntrustPlugin(p, f) PROVE LoneInv'
    <2>1. {HomeNumber(f)} \in SUBSET PlaceNumbers
      BY HomeNumbered, PlacesNumbered
    <2>2. QED
      BY <1>1, <1>5, <2>1, StartFits, InstallStartFits, LoneBegins DEF InstallURL, UntrustPlugin, InstallKinds
  <1>6. ASSUME NEW p \in Clis, NEW f \in PluginFiles, NEW force \in BOOLEAN, InstallLocal(p, f, force) PROVE LoneInv'
    <2>1. (IF Taken(f) /\ ~force THEN PartialFile ELSE NoFile) \in PluginContent
      BY DEF PluginContent
    <2>2. QED
      BY <1>1, <1>6, <2>1, LocalStartFits, LoneBegins DEF InstallLocal
  <1>7. ASSUME NEW p \in Clis, UpdatePlugins(p) \/ \E n \in Natives, force \in BOOLEAN : InstallNative(p, n, force)
        PROVE  LoneInv'
    <2>1. CASE UpdatePlugins(p)
      <3> DEFINE found == {<<i, PluginName[plugins[Places[i]]]>> : i \in Discover}
                 queue == {q \in found : q[2] \in Natives}
      <3>1. queue \in UpdateQueues /\ queue # {}
        BY <2>1, PluginsFound, PlacesNumbered DEF UpdatePlugins, UpdateQueues
      <3>2. BeginCommand(p, QueuedJob(queue))
        BY <2>1 DEF UpdatePlugins
      <3> HIDE DEF queue
      <3>3. QED
        BY <1>1, <3>1, <3>2, JobsFit, LoneBegins
    <2>2. ASSUME NEW n \in Natives, NEW force \in BOOLEAN, InstallNative(p, n, force) PROVE LoneInv'
      BY <1>1, <2>2, JobsFit, LoneBegins DEF InstallNative
    <2>3. QED
      BY <1>7, <2>1, <2>2
  <1>8. ASSUME NEW p \in Clis, InitHooks(p) PROVE LoneInv'
    <2> DEFINE all == PluginsWith("context") \union {SecondRound(i) : i \in PluginsWith("assets")}
    <2>1. all \in SUBSET PlaceNumbers /\ all # {} /\ BeginCommand(p, [NoCommand EXCEPT !.pc = "exec", !.op = "init", !.todo = all])
      BY <1>8, PluginsFound, PlacesNumbered DEF InitHooks
    <2> HIDE DEF all
    <2>2. QED
      BY <1>1, <2>1, StartFits, LoneBegins
  <1>9. ASSUME NEW p \in Clis, CheckEntry(p) PROVE LoneInv'
    <2>1. CASE registry = PartialFile \/ registry[FileOf(WorksOn(p))] = NoFile
      BY <1>3, <1>9, <2>1 DEF CheckEntry
    <2>2. CASE ~(registry = PartialFile \/ registry[FileOf(WorksOn(p))] = NoFile)
      <3> DEFINE j == [command[p] EXCEPT !.pc = "hash", !.seen = registry[FileOf(WorksOn(p))]]
      <3>1. command[p].pc = "check" /\ command' = [command EXCEPT ![p] = j]
        BY <1>9, <2>2 DEF CheckEntry
      <3>2. j \in CommandState
        BY <1>1, <1>2, <2>2, <3>1 DEF CommandState, CommandSteps, RegistryTypes, Registry
      <3>3. j.op \notin InstallKinds
        BY <1>1, <3>1 DEF CommandFits, InstallSteps, CommandState
      <3>4. j.alone => command[p].alone
        BY <1>1 DEF CommandState
      <3> HIDE DEF j
      <3>5. PICK k \in CommandState : k = j
        BY <3>2
      <3>6. QED
        BY <1>1, <3>1, <3>3, <3>4, <3>5, LoneOthers
    <2>3. QED
      BY <2>1, <2>2
  <1>10. ASSUME NEW p \in Clis, CheckHash(p) PROVE LoneInv'
    <2>1. CASE plugins[WorksOn(p)] = command[p].seen
      <3> DEFINE j == [command[p] EXCEPT !.pc = "exec", !.hashed = plugins[WorksOn(p)]]
      <3>1. command[p].pc = "hash" /\ command' = [command EXCEPT ![p] = j]
        BY <1>10, <2>1 DEF CheckHash
      <3>2. j \in CommandState
        BY <1>1, <1>2, <3>1 DEF CommandState, CommandSteps, RegistryTypes
      <3>3. j.op \notin InstallKinds
        BY <1>1, <3>1 DEF CommandFits, InstallSteps, CommandState
      <3>4. j.alone => command[p].alone
        BY <1>1 DEF CommandState
      <3> HIDE DEF j
      <3>5. PICK k \in CommandState : k = j
        BY <3>2
      <3>6. QED
        BY <1>1, <3>1, <3>3, <3>4, <3>5, LoneOthers
    <2>2. CASE plugins[WorksOn(p)] # command[p].seen
      BY <1>3, <1>10, <2>2 DEF CheckHash
    <2>3. QED
      BY <2>1, <2>2
  <1>11. ASSUME NEW p \in Clis, ExecPlugin(p) PROVE LoneInv'
    BY <1>3, <1>11 DEF ExecPlugin
  <1>12. ASSUME NEW p \in Clis, CreateFile(p) PROVE LoneInv'
    <2>1. CASE command[p].seen = PartialFile
      BY <1>1, <1>12, <2>1, LoneEnds DEF CreateFile
    <2>2. CASE command[p].seen # PartialFile
      <3>1. command[p].pc = "create" /\ command' = [command EXCEPT ![p].pc = "copy"]
        BY <1>12, <2>2 DEF CreateFile, GotoStep
      <3>2. ASSUME NEW j \in CommandState, j.pc = "copy" PROVE LoneFits(j)'
        BY <3>2 DEF LoneFits
      <3>3. QED
        BY <1>1, <3>1, <3>2, LoneGoes DEF CommandSteps
    <2>3. QED
      BY <2>1, <2>2
  <1>13. ASSUME NEW p \in Clis, CopyBinary(p) PROVE LoneInv'
    <2>1. PICK b \in Builds : plugins' = [plugins EXCEPT ![WorksOn(p)] = b]
      BY <1>13 DEF CopyBinary
    <2>2. command[p].pc = "copy" /\ command' = [command EXCEPT ![p].pc = IF command[p].op = "local" THEN "trust" ELSE "chmod"]
      BY <1>13 DEF CopyBinary, GotoStep
    <2>3. plugins'[PlaceOf(command[p])] \in Builds
      BY <1>1, <1>2, <2>1, <2>2 DEF RegistryTypes
    <2>4. ASSUME NEW j \in CommandState, j.pc = (IF command[p].op = "local" THEN "trust" ELSE "chmod"), j.op = command[p].op,
                 j.todo = command[p].todo
          PROVE  LoneFits(j)'
      BY <2>3, <2>4 DEF LoneFits, PlaceOf
    <2> DEFINE pc == IF command[p].op = "local" THEN "trust" ELSE "chmod"
    <2>5. command' = [command EXCEPT ![p].pc = pc] /\ pc \in CommandSteps /\ command[p].pc # "idle"
      BY <2>2 DEF CommandSteps
    <2>6. \A j \in CommandState : j.pc = pc /\ j.op = command[p].op /\ j.todo = command[p].todo => LoneFits(j)'
      BY <2>4
    <2> HIDE DEF pc
    <2>7. QED
      BY <1>1, <2>5, <2>6, LoneGoes
  <1>14. ASSUME NEW p \in Clis, ChmodBinary(p) PROVE LoneInv'
    <2>1. /\ command[p].pc = "chmod" /\ command' = [command EXCEPT ![p].pc = "trust"]
          /\ plugins' = plugins /\ PlaceOf(command[p]) \in executable'
      BY <1>2, <1>14 DEF ChmodBinary, GotoStep
    <2>2. command[p].alone /\ command[p].op \in InstallKinds => plugins[PlaceOf(command[p])] \in Builds
      BY <2>1 DEF LoneInv, LoneFits
    <2>3. ASSUME command[p].alone, command[p].op \in InstallKinds,
                 NEW j \in CommandState, j.pc = "trust", j.op = command[p].op, j.todo = command[p].todo
          PROVE  LoneFits(j)'
      BY <2>1, <2>2, <2>3 DEF LoneFits, PlaceOf
    <2>4. QED
      BY <1>1, <2>1, <2>3, LoneGoes DEF CommandSteps
  <1>15. ASSUME NEW p \in Clis, TrustHash(p) PROVE LoneInv'
    <2>1. CASE plugins[WorksOn(p)] = NoFile
      BY <1>1, <1>15, <2>1, LoneEnds DEF TrustHash
    <2>2. CASE plugins[WorksOn(p)] # NoFile
      <3> DEFINE sum == plugins[WorksOn(p)]
                 k == [command[p] EXCEPT !.pc = "load", !.seen = sum]
      <3>1. command[p].pc = "trust" /\ command' = [command EXCEPT ![p] = k] /\ UNCHANGED <<plugins, executable, registry>>
        BY <1>15, <2>2 DEF TrustHash
      <3>2. sum \in PluginContent /\ sum = plugins[PlaceOf(command[p])]
        BY <1>1, <1>2, <3>1 DEF RegistryTypes
      <3>3. k \in CommandState /\ k.pc = "load" /\ k.op = command[p].op /\ k.todo = command[p].todo /\ k.seen = sum
                               /\ k.alone = command[p].alone
        BY <1>1, <3>2 DEF CommandState, CommandSteps
      <3> HIDE DEF k, sum
      <3>4. PICK j \in CommandState : j = k
        BY <3>3
      <3>5. PlaceOf(j) = PlaceOf(command[p])
        BY <3>3, <3>4 DEF PlaceOf
      <3>6. LoneFits(command[p])
        BY DEF LoneInv
      <3>7. LoneFits(j)'
        BY <3>1, <3>2, <3>3, <3>4, <3>5, <3>6 DEF LoneFits
      <3>8. j.alone => command[p].alone
        BY <3>3, <3>4
      <3>9. QED
        BY <1>1, <3>1, <3>4, <3>7, <3>8, LoneMoves
    <2>3. QED
      BY <2>1, <2>2
  <1>16. ASSUME NEW p \in Clis, LoadRegistry(p) PROVE LoneInv'
    <2> DEFINE f == FileOf(WorksOn(p))
               reg == [registry EXCEPT ![f] = command[p].seen]
               k == [command[p] EXCEPT !.pc = "open", !.reg = reg]
    <2>1. CASE registry = PartialFile \/ (command[p].op = "untrust" /\ registry[f] = NoFile)
      BY <1>1, <1>16, <2>1, LoneEnds DEF LoadRegistry
    <2>2. CASE ~(registry = PartialFile \/ (command[p].op = "untrust" /\ registry[f] = NoFile))
      <3>1. command[p].pc = "load" /\ command' = [command EXCEPT ![p] = k] /\ UNCHANGED <<plugins, executable, registry>>
        BY <1>16, <2>2 DEF LoadRegistry
      <3>2. registry \in Registry /\ command[p].seen \in PluginContent /\ f \in PluginFiles /\ f = FileOf(PlaceOf(command[p]))
        BY <1>1, <1>2, <2>2, <3>1 DEF RegistryTypes, CommandState
      <3>3. reg \in Registry /\ reg[FileOf(PlaceOf(command[p]))] = command[p].seen
        BY <3>2 DEF Registry
      <3> HIDE DEF reg
      <3>4. k \in CommandState /\ k.pc = "open" /\ k.op = command[p].op /\ k.todo = command[p].todo /\ k.reg = reg
                               /\ k.seen = command[p].seen /\ k.alone = command[p].alone
        BY <1>1, <3>3 DEF CommandState, CommandSteps
      <3> HIDE DEF k
      <3>5. PICK j \in CommandState : j = k
        BY <3>4
      <3>6. PlaceOf(j) = PlaceOf(command[p])
        BY <3>4, <3>5 DEF PlaceOf
      <3>7. LoneFits(command[p])
        BY DEF LoneInv
      <3>8. LoneFits(j)'
        BY <3>1, <3>3, <3>4, <3>5, <3>6, <3>7 DEF LoneFits
      <3>9. j.alone => command[p].alone
        BY <3>4, <3>5
      <3>10. QED
        BY <1>1, <3>1, <3>5, <3>8, <3>9, LoneMoves
    <2>3. QED
      BY <2>1, <2>2
  <1>17. ASSUME NEW p \in Clis, OpenRegistry(p) PROVE LoneInv'
    <2>1. /\ command[p].pc = "open" /\ command' = [command EXCEPT ![p].pc = "write"]
          /\ UNCHANGED <<plugins, executable>> /\ registry' = PartialFile
      BY <1>17 DEF OpenRegistry, GotoStep
    <2>2. ASSUME command[p].alone, command[p].op \in InstallKinds,
                 NEW j \in CommandState, j.pc = "write", j.op = command[p].op, j.todo = command[p].todo,
                 j.seen = command[p].seen, j.reg = command[p].reg
          PROVE  LoneFits(j)'
      <3>1. PlaceOf(j) = PlaceOf(command[p])
        BY <2>2 DEF PlaceOf
      <3>2. LoneFits(command[p])
        BY DEF LoneInv
      <3>3. QED
        BY <2>1, <2>2, <3>1, <3>2 DEF LoneFits
    <2>3. QED
      BY <1>1, <2>1, <2>2, LoneGoes DEF CommandSteps
  <1>18. ASSUME NEW p \in Clis, WriteRegistry(p) \/ RemoveFile(p) \/ InstallFails(p) PROVE LoneInv'
    BY <1>1, <1>18, LoneEnds DEF WriteRegistry, RemoveFile, InstallFails
  <1>19. ASSUME NEW p \in Clis, KillCommand(p) PROVE LoneInv'
    <2>1. LoneFits(NoCommand)' /\ NoCommand \in CommandState /\ NoCommand.pc = "idle"
      BY NoCommandFits DEF LoneFits, NoCommand, InstallKinds
    <2>2. QED
      BY <1>1, <1>19, <2>1, LoneMoves DEF KillCommand
  <1>20. ASSUME NEW place \in PlaceSet, ProjectPluginChanges(place) PROVE LoneInv'
    <2>1. /\ place[1] = "project" /\ executable' = executable \union {place} /\ UNCHANGED <<registry, command>>
          /\ \A other \in PlaceSet : other # place => plugins'[other] = plugins[other]
      BY <1>1, <1>20 DEF ProjectPluginChanges, RegistryTypes
    <2>2. ASSUME NEW p \in Clis PROVE LoneFits(command[p])'
      <3>1. PICK j \in CommandState : j = command[p]
        BY <1>1
      <3>2. LoneFits(j) /\ CommandFits(j)
        BY <1>1, <3>1 DEF LoneInv
      <3>3. j.op \in InstallKinds => PlaceOf(j)[1] = "home" /\ PlaceOf(j) \in PlaceSet
        BY <3>2, AtPlace DEF CommandFits, InstallSteps
      <3>4. LoneFits(j)'
        BY <2>1, <3>2, <3>3 DEF LoneFits
      <3>5. QED
        BY <2>1, <3>1, <3>4 DEF LoneFits, PlaceOf
    <2>3. QED
      BY <1>1, <2>1, <2>2 DEF LoneInv
  <1>21. CASE UNCHANGED registryVars
    BY <1>1, <1>21 DEF registryVars, LoneInv, LoneFits
  <1>22. QED
    BY <1>4, <1>5, <1>6, <1>7, <1>8, <1>9, <1>10, <1>11, <1>12, <1>13, <1>14, <1>15, <1>16, <1>17, <1>18, <1>19, <1>20,
       <1>21 DEF RegistryNext

(* The files of the registry and the work of every process stay as they    *)
(* are typed.                                                              *)
THEOREM RegistryTyped == RegistrySpec => []RegistryTypeOK
  <1>1. RegistryInv => RegistryTypeOK
    BY DEF RegistryInv, RegistryTypes, RegistryTypeOK, CommandFits
  <1>2. QED
    BY <1>1, RegistryInitInv, RegistryStepInv, PTL DEF RegistrySpec

(* What a plugin command is about to execute is content that was trusted   *)
(* once under the name of its file, whatever the other processes did to    *)
(* the registry and to the files, unless one of them replaced the file     *)
(* after its checksum was compared.                                        *)
THEOREM TrustedIsRun == RegistrySpec => []RunsWhatWasTrusted
  <1>1. RegistryInv => RunsWhatWasTrusted
    BY DEF RegistryInv, CommandFits, RunsWhatWasTrusted, WorksOn, PlaceOf
  <1>2. QED
    BY <1>1, RegistryInitInv, RegistryStepInv, PTL DEF RegistrySpec

(* At first there is no install.                                           *)
LEMMA LoneInitInv == RegistryInit => LoneInv
  <1> SUFFICES ASSUME RegistryInit PROVE LoneInv
    OBVIOUS
  <1>1. RegistryInv /\ \A p \in Clis : command[p] = NoCommand
    BY RegistryInitInv DEF RegistryInit
  <1>2. NoCommand.pc = "idle" /\ NoCommand.op \notin InstallKinds
    BY DEF NoCommand, InstallKinds
  <1>3. QED
    BY <1>1, <1>2 DEF LoneInv, LoneFits

(* Only a command that saves the registry makes it readable again.         *)
LEMMA WhoSaves ==
    ASSUME [RegistryNext]_registryVars, registry' # registry, registry' # PartialFile
    PROVE  \E q \in Clis : command[q].pc = "write" /\ registry' = command[q].reg
  <1>1. PICK q \in Clis : WriteRegistry(q)
    BY DEF RegistryNext, registryVars, RunPlugin, TrustPlugin, RemovePlugin, InstallURL, UntrustPlugin, InstallLocal,
           InstallNative, UpdatePlugins, InitHooks, BeginCommand, CheckEntry, CheckHash, ExecPlugin, CreateFile, CopyBinary,
           ChmodBinary, TrustHash, LoadRegistry, OpenRegistry, RemoveFile, KillCommand, InstallFails, ProjectPluginChanges
  <1>2. QED
    BY <1>1 DEF WriteRegistry

(* An install nobody disturbs, and that gets as far as saving the          *)
(* registry, leaves a plugin the registry vouches for and discovery finds. *)
THEOREM LoneInstallsRun == RegistrySpec => LoneInstallRuns
  <1>1. LoneInv /\ [RegistryNext]_registryVars =>
          \A p \in Clis :
             command[p].pc = "write" /\ command'[p].pc # "write" /\ registry' # PartialFile
             /\ command[p].op \in {"local", "native", "url"} /\ command[p].alone =>
                LET place == WorksOn(p) IN
                /\ plugins[place] \in Builds
                /\ command[p].op # "local" => place \in executable
                /\ registry'[FileOf(place)] = plugins[place]
    <2> SUFFICES ASSUME LoneInv, [RegistryNext]_registryVars, NEW p \in Clis, command[p].pc = "write",
                        registry' # PartialFile, command[p].op \in InstallKinds, command[p].alone
                 PROVE  LET place == WorksOn(p) IN
                        /\ plugins[place] \in Builds
                        /\ command[p].op # "local" => place \in executable
                        /\ registry'[FileOf(place)] = plugins[place]
      BY DEF InstallKinds
    <2>1. /\ plugins[PlaceOf(command[p])] \in Builds /\ (command[p].op # "local" => PlaceOf(command[p]) \in executable)
          /\ command[p].reg[FileOf(PlaceOf(command[p]))] = plugins[PlaceOf(command[p])] /\ registry = PartialFile
      BY DEF LoneInv, LoneFits
    <2>2. PICK q \in Clis : command[q].pc = "write" /\ registry' = command[q].reg
      BY <2>1, WhoSaves
    <2>3. q = p
      BY <2>2 DEF LoneInv
    <2>4. QED
      BY <2>1, <2>2, <2>3 DEF WorksOn, PlaceOf
  <1>2. QED
    BY <1>1, LoneInitInv, LoneStepInv, PTL DEF RegistrySpec, LoneInstallRuns
=============================================================================
