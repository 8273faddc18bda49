----------------------------- MODULE SelfUpgrade -----------------------------
(***************************************************************************)
(* yby upgrade (cmd/upgrade.go): the release is looked up, its archive     *)
(* downloaded and compared with the published checksum, and the running    *)
(* binary is renamed to .bak before the new one is written in its place.   *)
(* Several shells may upgrade at once, and any may be killed at any step.  *)
(*                                                                         *)
(* A name refers to an inode, which a rename moves and a writer keeps.     *)
(***************************************************************************)
EXTENDS Naturals

CONSTANTS Upgraders, MaxInodes

ASSUME UpgradeConstants == MaxInodes \in Nat /\ MaxInodes >= 1

VARIABLES
    inodes,     \* what each inode holds; the program is "whole", an unverified one "bad"
    used,       \* inodes created
    inPlace,    \* the inode at the path of the executable, 0 if none
    backup,     \* the inode at its .bak
    upgrade,    \* per shell, where its upgrade is
    overlapped  \* history: an upgrade replaced the binary while another did, or was killed doing so

upgradeVars == <<inodes, used, inPlace, backup, upgrade, overlapped>>

NoUpgrade == [pc |-> "idle", data |-> "none", fd |-> 0]

UpgradeTypeOK ==
    /\ inodes \in [1..MaxInodes -> {"none", "part", "whole", "bad"}]
    /\ used \in 1..MaxInodes /\ inPlace \in 0..MaxInodes /\ backup \in 0..MaxInodes
    /\ upgrade \in [Upgraders -> [pc : {"idle", "verify", "rename", "open", "write", "rollback", "remove"},
                                  data : {"none", "whole", "bad"}, fd : 0..MaxInodes]]
    /\ overlapped \in BOOLEAN

UpgradeInit ==
    /\ inodes = [i \in 1..MaxInodes |-> IF i = 1 THEN "whole" ELSE "none"]
    /\ used = 1 /\ inPlace = 1 /\ backup = 0
    /\ upgrade = [u \in Upgraders |-> NoUpgrade] /\ overlapped = FALSE

Replacing(u) == upgrade[u].pc \in {"open", "write", "rollback", "remove"}
Runs(i) == i # 0 /\ inodes[i] = "whole"

(* fetchLatestRelease or fetchRelease, the asset of this platform,         *)
(* fetchChecksums and downloadAsset: any of them may fail, and the version *)
(* may be this one already or --check asked for no more; then nothing      *)
(* happens.  The archive that arrives may not be the published one.        *)
Download(u, data) ==
    /\ upgrade[u].pc = "idle" /\ Runs(inPlace)
    /\ upgrade' = [upgrade EXCEPT ![u] = [NoUpgrade EXCEPT !.pc = "verify", !.data = data]]
    /\ UNCHANGED <<inodes, used, inPlace, backup, overlapped>>

\* mutant: a checksum that differs is only reported
VerifyNothing(u) ==
    /\ upgrade[u].pc = "verify"
    /\ upgrade' = [upgrade EXCEPT ![u].pc = "rename"]
    /\ UNCHANGED <<inodes, used, inPlace, backup, overlapped>>

(* Then extractBinaryFromTarGz; the path was resolved when the process     *)
(* started, and EvalSymlinks refuses one that is gone.                     *)
VerifyChecksum(u) ==
    /\ upgrade[u].pc = "verify"
    /\ upgrade' = [upgrade EXCEPT ![u] =
                     IF @.data = "whole" /\ inPlace # 0 THEN [@ EXCEPT !.pc = "rename"] ELSE NoUpgrade]
    /\ UNCHANGED <<inodes, used, inPlace, backup, overlapped>>

(* The binary in place becomes .bak, over an older one.                    *)
BackUpBinary(u) ==
    /\ upgrade[u].pc = "rename"
    /\ IF inPlace = 0
       THEN /\ upgrade' = [upgrade EXCEPT ![u] = NoUpgrade]
            /\ UNCHANGED <<inPlace, backup, overlapped>>
       ELSE /\ backup' = inPlace /\ inPlace' = 0
            /\ upgrade' = [upgrade EXCEPT ![u].pc = "open"]
            /\ overlapped' = (overlapped \/ ~Runs(inPlace) \/ \E v \in Upgraders \ {u} : Replacing(v))
    /\ UNCHANGED <<inodes, used>>

(* os.WriteFile creates the file, or empties the one another upgrade put   *)
(* there; then it writes it.                                               *)
OpenBinary(u) ==
    /\ upgrade[u].pc = "open"
    /\ inPlace = 0 => used < MaxInodes
    /\ LET i == IF inPlace = 0 THEN used + 1 ELSE inPlace IN
       /\ inPlace' = i
       /\ used' = IF inPlace = 0 THEN used + 1 ELSE used
       /\ inodes' = [inodes EXCEPT ![i] = "part"]
       /\ upgrade' = [upgrade EXCEPT ![u].pc = "write", ![u].fd = i]
    /\ UNCHANGED <<backup, overlapped>>

WriteBinary(u) ==
    /\ upgrade[u].pc = "write"
    /\ inodes' = [inodes EXCEPT ![upgrade[u].fd] = upgrade[u].data]
    /\ upgrade' = [upgrade EXCEPT ![u].pc = "remove"]
    /\ UNCHANGED <<used, inPlace, backup, overlapped>>

WriteFails(u) ==
    /\ upgrade[u].pc \in {"open", "write"}
    /\ upgrade' = [upgrade EXCEPT ![u].pc = "rollback"]
    /\ UNCHANGED <<inodes, used, inPlace, backup, overlapped>>

(* The .bak is renamed back, if it is there.                               *)
RollBack(u) ==
    /\ upgrade[u].pc = "rollback"
    /\ upgrade' = [upgrade EXCEPT ![u] = NoUpgrade]
    /\ IF backup = 0 THEN UNCHANGED <<inPlace, backup>> ELSE inPlace' = backup /\ backup' = 0
    /\ UNCHANGED <<inodes, used, overlapped>>

RemoveBackup(u) ==
    /\ upgrade[u].pc = "remove"
    /\ backup' = 0
    /\ upgrade' = [upgrade EXCEPT ![u] = NoUpgrade]
    /\ UNCHANGED <<inodes, used, inPlace, overlapped>>

KillUpgrade(u) ==
    /\ upgrade[u].pc # "idle"
    /\ upgrade' = [upgrade EXCEPT ![u] = NoUpgrade]
    /\ UNCHANGED <<inodes, used, inPlace, backup, overlapped>>

(* After an upgrade that was killed, the user moves the .bak back.         *)
RestoreByHand ==
    /\ \A u \in Upgraders : upgrade[u].pc = "idle"
    /\ ~Runs(inPlace) /\ Runs(backup)
    /\ inPlace' = backup /\ backup' = 0
    /\ UNCHANGED <<inodes, used, upgrade, overlapped>>

UpgradeNext ==
    \/ RestoreByHand
    \/ \E u \in Upgraders :
         \/ \E data \in {"whole", "bad"} : Download(u, data)
         \/ VerifyChecksum(u) \/ BackUpBinary(u) \/ OpenBinary(u) \/ WriteBinary(u)
         \/ WriteFails(u) \/ RollBack(u) \/ RemoveBackup(u) \/ KillUpgrade(u)

UpgradeSpec == UpgradeInit /\ [][UpgradeNext]_upgradeVars

-----------------------------------------------------------------------------
(* "Self-replace com rollback": at every moment, killed or failing         *)
(* anywhere, a whole and verified program is in place or in its .bak,      *)
(* unless two upgrades overlapped, and one replaced what the other was     *)
(* replacing or had left half done.                                        *)
AlwaysRecoverable == overlapped \/ Runs(inPlace) \/ Runs(backup)
=============================================================================
