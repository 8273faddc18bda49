----------------------------- MODULE SealedKeys -----------------------------
(***************************************************************************)
(* yby secret (pkg/services/secrets, cmd/secrets.go, secret_rotate.go and  *)
(* seal.go): the encryption keys of the Sealed Secrets controller, their   *)
(* backup with its HMAC, rotation and restoration, and the secrets written *)
(* to the repository.  Each command is a sequence of kubectl calls and     *)
(* file writes; any of them may fail, and the command be killed at it.     *)
(* The controller is external: it loads its keys when it starts, makes one *)
(* if there is none, and adds one when it renews them.  The commands come  *)
(* one after another: one operator looks after the keys of a cluster.      *)
(*                                                                         *)
(* A key is the number of its making; the controller seals with the newest *)
(* it has loaded.  The HMAC of a backup is keyed with the host and the     *)
(* path as it was typed: one file has several such paths.                  *)
(***************************************************************************)
EXTENDS Naturals

CONSTANTS RepoSecrets, MaxKeys,
          Hosts,   \* hosts the backup can be reached from
          Paths    \* what can be typed there as its path: keys.yaml, ./keys.yaml, ...

ASSUME SealedConstants == MaxKeys \in Nat /\ MaxKeys >= 1

VARIABLES
    keySecrets,  \* the active keys stored in the cluster
    loaded,      \* the keys the controller has, {} while it is not running
    made,        \* keys made so far
    repo,        \* what the repository holds of each secret
    ageKey,      \* ~/.sops/age-key.txt exists
    githubToken, \* the github-token secret is in the cluster
    keyFile,     \* the backup: whether it is there and whole, and the keys in it
    hmacFile,    \* its .hmac: whether it is there and whole, and the HMAC in it
    secretCmd,   \* the command in progress, and whether the last one succeeded
    vouched,     \* history: the last backup reported done, none once another overwrites it
    restored     \* history: the keys last reported restored, {} once keys are deleted

sealedVars == <<keySecrets, loaded, made, repo, ageKey, githubToken, keyFile, hmacFile, secretCmd, vouched, restored>>
clusterVars == <<keySecrets, loaded, made>>
repoVars == <<repo, ageKey, githubToken>>
backupVars == <<keyFile, hmacFile>>
sealedHistory == <<vouched, restored>>

Keys == 1..MaxKeys
FileStates == {"none", "part", "whole"}
NoKeyFile == [is |-> "none", keys |-> {}]
WholeKeyFile(keys) == [is |-> "whole", keys |-> keys]

(* Different hosts and paths give different HMAC keys, and an HMAC is that *)
(* of one content under one key.                                           *)
HMACKeys == Hosts \X Paths
deriveHMACKey(host, path) == <<host, path>>
computeHMAC(file, key) == [of |-> file, key |-> key]
WholeHMAC(mac) == [is |-> "whole", mac |-> {mac}]

SecretCmdEnds(ok) == [pc |-> "idle", data |-> {}, ok |-> ok]

SealedTypeOK ==
    /\ keySecrets \subseteq Keys /\ loaded \subseteq Keys /\ made \in Keys
    /\ repo \in [RepoSecrets -> [is : {"none", "part", "sealed", "sops", "reference"}, key : 0..MaxKeys]]
    /\ ageKey \in BOOLEAN /\ githubToken \in BOOLEAN
    /\ keyFile \in [is : FileStates, keys : SUBSET Keys]
    /\ hmacFile.is \in FileStates
    /\ \A mac \in hmacFile.mac : mac.of \in [is : {"whole"}, keys : SUBSET Keys] /\ mac.key \in HMACKeys
    /\ secretCmd \in [pc : {"idle", "fetch", "write", "hmac", "apply", "delete pod", "restart", "wait"},
                      data : SUBSET Keys, ok : BOOLEAN]
    /\ \A last \in vouched : last.keys \subseteq Keys /\ last.key \in HMACKeys
    /\ restored \subseteq Keys

SealedInit ==
    /\ keySecrets = {1} /\ loaded = {1} /\ made = 1
    /\ repo = [n \in RepoSecrets |-> [is |-> "none", key |-> 0]]
    /\ ageKey = FALSE /\ githubToken = FALSE
    /\ keyFile = NoKeyFile /\ hmacFile = [is |-> "none", mac |-> {}]
    /\ secretCmd = SecretCmdEnds(TRUE) /\ vouched = {} /\ restored = {}

Newest(keys) == CHOOSE k \in keys : \A l \in keys : l <= k

(* The controller starts, for the first time or again: with the keys of    *)
(* the cluster, or with a new one.                                         *)
ControllerStarts ==
    IF keySecrets # {}
    THEN loaded' = keySecrets /\ UNCHANGED <<keySecrets, made>>
    ELSE /\ made < MaxKeys
         /\ made' = made + 1 /\ keySecrets' = {made + 1} /\ loaded' = {made + 1}

ControllerRestarts ==
    /\ ControllerStarts
    /\ UNCHANGED <<repoVars, backupVars, secretCmd, sealedHistory>>

ControllerRenewsKeys ==
    /\ loaded # {} /\ made < MaxKeys
    /\ made' = made + 1
    /\ keySecrets' = keySecrets \union {made + 1} /\ loaded' = loaded \union {made + 1}
    /\ UNCHANGED <<repoVars, backupVars, secretCmd, sealedHistory>>

SecretGoes(pc) == secretCmd' = [secretCmd EXCEPT !.pc = pc]
SecretDone == secretCmd' = SecretCmdEnds(TRUE)

-----------------------------------------------------------------------------
(* Commands that write a secret: webhook, minio and seal with kubeseal, or *)
(* seal with SOPS, whose file is written in place; and the strategies.     *)

SavedAs(is, key) == {[is |-> is, key |-> key], [is |-> "part", key |-> 0]}

SaveSecret(n, is, key) ==
    /\ secretCmd.pc = "idle"
    /\ \E saved \in SavedAs(is, key) : repo' = [repo EXCEPT ![n] = saved]
    /\ UNCHANGED <<clusterVars, ageKey, githubToken, backupVars, secretCmd, sealedHistory>>

SealAndSave(n) == loaded # {} /\ SaveSecret(n, "sealed", Newest(loaded))
EncryptWithSOPS(n) == ageKey /\ SaveSecret(n, "sops", 0)
SealCommand(n) == SealAndSave(n) \/ EncryptWithSOPS(n)

(* The reference to a secret kept elsewhere, and to where it is kept.      *)
GenerateExternalSecret(n) == SaveSecret(n, "reference", 0)
InitESO(n) == SaveSecret(n, "reference", 0)

(* age-keygen refuses to write over a key.                                 *)
GenerateAgeKey ==
    /\ secretCmd.pc = "idle" /\ ~ageKey
    /\ ageKey' = TRUE
    /\ UNCHANGED <<clusterVars, repo, githubToken, backupVars, secretCmd, sealedHistory>>

CreateGitHubToken ==
    /\ secretCmd.pc = "idle"
    /\ githubToken' = TRUE
    /\ UNCHANGED <<clusterVars, repo, ageKey, backupVars, secretCmd, sealedHistory>>

-----------------------------------------------------------------------------
(* BackupKeys.  The names of several active keys are taken for one name,   *)
(* which kubectl does not find.                                            *)

ListKeys ==
    /\ secretCmd.pc = "idle" /\ keySecrets # {}
    /\ secretCmd' = [pc |-> "fetch", data |-> keySecrets, ok |-> FALSE]
    /\ UNCHANGED <<clusterVars, repoVars, backupVars, sealedHistory>>

FetchKey ==
    /\ secretCmd.pc = "fetch"
    /\ secretCmd' = IF \E k \in keySecrets : secretCmd.data = {k}
                    THEN [secretCmd EXCEPT !.pc = "write"] ELSE SecretCmdEnds(FALSE)
    /\ UNCHANGED <<clusterVars, repoVars, backupVars, sealedHistory>>

WriteKeyFile ==
    /\ secretCmd.pc = "write"
    /\ keyFile' = WholeKeyFile(secretCmd.data)
    /\ vouched' = {}
    /\ SecretGoes("hmac")
    /\ UNCHANGED <<clusterVars, repoVars, hmacFile, restored>>

(* Where the backup is made and how its path was typed matter here only.   *)
WriteHMAC(host, path) ==
    LET key == deriveHMACKey(host, path) IN
    /\ secretCmd.pc = "hmac"
    /\ hmacFile' = WholeHMAC(computeHMAC(WholeKeyFile(secretCmd.data), key))
    /\ vouched' = {[keys |-> secretCmd.data, key |-> key]}
    /\ SecretDone
    /\ UNCHANGED <<clusterVars, repoVars, keyFile, restored>>

BackupCommand ==
    \/ ListKeys \/ FetchKey \/ WriteKeyFile
    \/ \E host \in Hosts, path \in Paths : WriteHMAC(host, path)

-----------------------------------------------------------------------------
(* RestoreKeys.  Without an .hmac nothing is verified; with one that is    *)
(* not of this file, under the key of this host and of the path as it is   *)
(* typed now, the restoration is refused.                                  *)

Verified(host, path) ==
    \/ hmacFile.is = "none"
    \/ hmacFile = WholeHMAC(computeHMAC(keyFile, deriveHMACKey(host, path)))

StartRestore(host, path) ==
    /\ secretCmd.pc = "idle" /\ keyFile.is # "none" /\ Verified(host, path)
    /\ SecretGoes("apply")
    /\ UNCHANGED <<clusterVars, repoVars, backupVars, sealedHistory>>

(* kubectl apply rejects half a file.                                      *)
ApplyKeyFile ==
    /\ secretCmd.pc = "apply" /\ keyFile.is = "whole"
    /\ keySecrets' = keySecrets \union keyFile.keys
    /\ SecretGoes("delete pod")
    /\ UNCHANGED <<loaded, made, repoVars, backupVars, sealedHistory>>

\* mutant: the pod is left running
DeletePodLater ==
    /\ secretCmd.pc = "delete pod"
    /\ restored' = keyFile.keys
    /\ SecretDone
    /\ UNCHANGED <<clusterVars, repoVars, backupVars, vouched>>

(* kubectl waits until the pod is gone; its successor starts in its time.  *)
DeletePod ==
    /\ secretCmd.pc = "delete pod"
    /\ loaded' = {}
    /\ restored' = keyFile.keys
    /\ SecretDone
    /\ UNCHANGED <<keySecrets, made, repoVars, backupVars, vouched>>

RestoreCommand ==
    \/ \E host \in Hosts, path \in Paths : StartRestore(host, path)
    \/ ApplyKeyFile \/ DeletePod

-----------------------------------------------------------------------------
(* RotateKeys: every key labelled active is deleted, and the controller    *)
(* restarted to make another.  kubectl asks for the restart, which takes   *)
(* place at any time from then on, and waits for it.                       *)

DeleteActiveKeys ==
    /\ secretCmd.pc = "idle"
    /\ keySecrets' = {}
    /\ restored' = {}
    /\ SecretGoes("restart")
    /\ UNCHANGED <<loaded, made, repoVars, backupVars, vouched>>

RolloutRestart ==
    /\ secretCmd.pc = "restart"
    /\ SecretGoes("wait")
    /\ UNCHANGED <<clusterVars, repoVars, backupVars, sealedHistory>>

RolloutStatus ==
    /\ secretCmd.pc = "wait"
    /\ ControllerStarts
    /\ SecretDone
    /\ UNCHANGED <<repoVars, backupVars, sealedHistory>>

RotateCommand == DeleteActiveKeys \/ RolloutRestart \/ RolloutStatus

(* A call fails or the command is killed; a file being written is cut      *)
(* short.  The file written first is then no longer the one of the HMAC.   *)
SecretStops ==
    /\ secretCmd.pc # "idle"
    /\ secretCmd' = SecretCmdEnds(FALSE)
    /\ \/ UNCHANGED <<backupVars, vouched>>
       \/ /\ secretCmd.pc = "write" /\ keyFile' = [is |-> "part", keys |-> {}]
          /\ vouched' = {} /\ UNCHANGED hmacFile
       \/ /\ secretCmd.pc = "hmac" /\ hmacFile' = [is |-> "part", mac |-> {}]
          /\ UNCHANGED <<keyFile, vouched>>
    /\ UNCHANGED <<clusterVars, repoVars, restored>>

SealedNext ==
    \/ ControllerRestarts \/ ControllerRenewsKeys
    \/ GenerateAgeKey \/ CreateGitHubToken
    \/ \E n \in RepoSecrets : SealCommand(n) \/ GenerateExternalSecret(n) \/ InitESO(n)
    \/ BackupCommand \/ RestoreCommand \/ RotateCommand \/ SecretStops

SealedSpec == SealedInit /\ [][SealedNext]_sealedVars

-----------------------------------------------------------------------------
(* "Restaura chave mestre", whatever was rotated, renewed, killed or failed*)
(* since.  A backup reported done that no other overwrote is intact; it is *)
(* accepted on the host it was made on with its path typed as it was then, *)
(* and refused from anywhere else and under any other spelling.            *)
BackupAccepted ==
    \A last \in vouched :
        /\ keyFile = WholeKeyFile(last.keys)
        /\ \A host \in Hosts, path \in Paths :
             Verified(host, path) <=> last.key = deriveHMACKey(host, path)

(* Keys reported restored are those of the controller, once it runs again  *)
(* and until keys are deleted.                                             *)
RestoredKeysLoaded == loaded # {} => restored \subseteq loaded

(* A rotation that left the cluster without a key did not report success,  *)
(* nor did any command on the keys since.                                  *)
LostKeysReported == keySecrets = {} /\ secretCmd.pc = "idle" => ~secretCmd.ok

(* Backups, restorations and rotations deliver what they report.           *)
LastBackupRestores == BackupAccepted /\ RestoredKeysLoaded /\ LostKeysReported
=============================================================================
