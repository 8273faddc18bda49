------------------------------ MODULE HomeFiles ------------------------------
(***************************************************************************)
(* The files of ~/.yby that every yby process of a user shares without a   *)
(* lock between processes: the audit log (pkg/cloud/audit.go) and the      *)
(* telemetry log (pkg/telemetry/metrics.go), which rotate to one old       *)
(* generation, and the encrypted credentials (pkg/cloud/                   *)
(* credential_store.go), rewritten whole.  The mutexes of the code are per *)
(* process, and a process is here one thread at work in these files.       *)
(*                                                                         *)
(* The three files have nothing in common, so a behaviour follows one.  A  *)
(* log line is the number of its event.  The size limit is counted in      *)
(* lines, a line cut short included.                                       *)
(***************************************************************************)
EXTENDS Naturals, Sequences

CONSTANTS HomeProcs, HomeKinds, MaxLines, MaxEvents,
          CredentialKeys, Secrets, NoSecret, Passphrases, MaxSaves

ASSUME HomeConstants ==
    /\ HomeKinds \subseteq {"audit", "telemetry", "credentials"} /\ MaxLines \in Nat \ {0}
    /\ MaxEvents \in Nat /\ MaxSaves \in Nat /\ NoSecret \notin Secrets
    /\ "none" \notin Passphrases

VARIABLES
    homeKind,       \* the file followed
    log,            \* its generation, whether the file exists, and its lines
    oldLog,         \* the lines of the .1 file
    written,        \* history: how many events were written
    cut,            \* history: those whose line was cut short
    overtaken,      \* history: one process rotated the log under another
    creds,          \* credentials.enc: the passphrase it is encrypted with, and its map
    expected,       \* history: what was saved and not deleted
    credsDisturbed, \* history: a save could not read the file, was overtaken, or was cut short
    saves,
    home            \* per process, where it is

logVars == <<log, oldLog, written, cut, overtaken>>
credVars == <<creds, expected, credsDisturbed, saves>>
homeVars == <<homeKind, logVars, credVars, home>>

Vault == [CredentialKeys -> Secrets \union {NoSecret}]
EmptyVault == [k \in CredentialKeys |-> NoSecret]
AtHome == [pc |-> "idle", gen |-> 0, left |-> 0, vault |-> EmptyVault, pass |-> "none", seen |-> 0]

HomeTypeOK ==
    /\ homeKind \in HomeKinds
    /\ log \in [gen : Nat, there : BOOLEAN, lines : Seq(Nat)]
    /\ oldLog \in Seq(Nat) /\ written \in Nat /\ cut \in SUBSET Nat /\ overtaken \in BOOLEAN
    /\ creds \in [pass : Passphrases \union {"none", "torn"}, data : Vault]
    /\ expected \in Vault /\ credsDisturbed \in BOOLEAN /\ saves \in Nat
    /\ home \in [HomeProcs -> [pc : {"idle", "rename", "open", "write", "spinning", "store"},
                               gen : Nat, left : Nat, seen : Nat,
                               vault : Vault, pass : Passphrases \union {"none"}]]

HomeInit ==
    /\ homeKind \in HomeKinds
    /\ log = [gen |-> 0, there |-> FALSE, lines |-> <<>>]
    /\ oldLog = <<>> /\ written = 0 /\ cut = {} /\ overtaken = FALSE
    /\ creds = [pass |-> "none", data |-> EmptyVault]
    /\ expected = EmptyVault /\ credsDisturbed = FALSE /\ saves = 0
    /\ home = [p \in HomeProcs |-> AtHome]

LinesIn(s) == {s[i] : i \in 1..Len(s)}

-----------------------------------------------------------------------------
(* AuditLogger.Log, one event, and FlushToFile, all the events of the      *)
(* process: rotateIfNeeded looks at the size and then renames; then the    *)
(* file is opened, created if need be, and each event is one write.        *)

StatLog(p, n) ==
    /\ home[p].pc = "idle"
    /\ homeKind \in {"audit", "telemetry"} /\ (homeKind = "audit" => n = 1)
    /\ home' = [home EXCEPT ![p] = [AtHome EXCEPT !.left = n,
                   !.pc = IF log.there /\ Len(log.lines) >= MaxLines THEN "rename" ELSE "open"]]
    /\ UNCHANGED <<homeKind, logVars, credVars>>

(* Where another process has just renamed it, there is no file: an error.  *)
RotateLog(p) ==
    /\ home[p].pc = "rename"
    /\ IF log.there
       THEN /\ oldLog' = log.lines
            /\ log' = [gen |-> log.gen + 1, there |-> FALSE, lines |-> <<>>]
            /\ overtaken' = (overtaken \/ Len(log.lines) < MaxLines)
            /\ home' = [home EXCEPT ![p].pc = "open"]
       ELSE /\ home' = [home EXCEPT ![p] = AtHome]
            /\ UNCHANGED <<log, oldLog, overtaken>>
    /\ UNCHANGED <<homeKind, written, cut, credVars>>

OpenLog(p) ==
    /\ home[p].pc = "open"
    /\ log' = [log EXCEPT !.there = TRUE]
    /\ home' = [home EXCEPT ![p].pc = "write", ![p].gen = log.gen]
    /\ UNCHANGED <<homeKind, oldLog, written, cut, overtaken, credVars>>

(* The file opened may have been renamed since, or renamed over.           *)
AppendTo(gen) ==
    /\ written < MaxEvents
    /\ written' = written + 1
    /\ log' = [log EXCEPT !.lines = IF gen = log.gen THEN Append(@, written + 1) ELSE @]
    /\ oldLog' = IF gen + 1 = log.gen THEN Append(oldLog, written + 1) ELSE oldLog
    /\ overtaken' = (overtaken \/ gen # log.gen)

WriteEvent(p) ==
    /\ home[p].pc = "write" /\ AppendTo(home[p].gen)
    /\ home' = [home EXCEPT ![p] = IF home[p].left > 1 THEN [home[p] EXCEPT !.left = @ - 1] ELSE AtHome]
    /\ UNCHANGED <<homeKind, cut, credVars>>

(* ReadEvents, and Export on top of it: after a line that does not parse   *)
(* the decoder returns the same error for ever, and the loop that skips    *)
(* it does not end.                                                        *)
ReadEvents(p) ==
    /\ home[p].pc = "idle" /\ homeKind = "audit"
    /\ LinesIn(log.lines) \intersect cut # {}
    /\ home' = [home EXCEPT ![p].pc = "spinning"]
    /\ UNCHANGED <<homeKind, logVars, credVars>>

-----------------------------------------------------------------------------
(* EncryptedFileStore.  loadRawData fails without a file, with another     *)
(* passphrase, and on a file cut short; saveRawData writes it anew.        *)

Loads(pass) == creds.pass = pass

StoreLater(p, pass, vault) ==
    /\ home[p].pc = "idle" /\ homeKind = "credentials" /\ saves < MaxSaves
    /\ home' = [home EXCEPT ![p] = [AtHome EXCEPT !.pc = "store", !.pass = pass,
                                                  !.seen = saves, !.vault = vault]]
    /\ UNCHANGED <<homeKind, logVars, creds, saves>>

\* mutant: Save starts from an empty map
SaveAlone(p, k, s, pass) ==
    /\ StoreLater(p, pass, [EmptyVault EXCEPT ![k] = s])
    /\ expected' = [expected EXCEPT ![k] = s]
    /\ credsDisturbed' = (credsDisturbed \/ (~Loads(pass) /\ creds.pass # "none"))

(* Save takes a file it cannot read for an empty one.                      *)
SaveCredential(p, k, s, pass) ==
    /\ StoreLater(p, pass, [IF Loads(pass) THEN creds.data ELSE EmptyVault EXCEPT ![k] = s])
    /\ expected' = [expected EXCEPT ![k] = s]
    /\ credsDisturbed' = (credsDisturbed \/ (~Loads(pass) /\ creds.pass # "none"))

DeleteCredential(p, k, pass) ==
    /\ Loads(pass)
    /\ StoreLater(p, pass, [creds.data EXCEPT ![k] = NoSecret])
    /\ expected' = [expected EXCEPT ![k] = NoSecret]
    /\ UNCHANGED credsDisturbed

SaveRawData(p) ==
    /\ home[p].pc = "store" /\ saves < MaxSaves
    /\ creds' = [pass |-> home[p].pass, data |-> home[p].vault]
    /\ saves' = saves + 1
    /\ credsDisturbed' = (credsDisturbed \/ saves # home[p].seen)
    /\ home' = [home EXCEPT ![p] = AtHome]
    /\ UNCHANGED <<homeKind, logVars, expected>>

-----------------------------------------------------------------------------
(* The process dies or the disk is full, and what it writes is cut short.  *)
ProcessStops(p) ==
    /\ home[p].pc # "idle"
    /\ home' = [home EXCEPT ![p] = AtHome]
    /\ \/ UNCHANGED <<logVars, creds>>
       \/ /\ home[p].pc = "write" /\ AppendTo(home[p].gen)
          /\ cut' = cut \union {written + 1}
          /\ UNCHANGED creds
       \/ /\ home[p].pc = "store" /\ creds' = [pass |-> "torn", data |-> EmptyVault]
          /\ UNCHANGED logVars
    /\ credsDisturbed' = (credsDisturbed \/ home[p].pc = "store")
    /\ UNCHANGED <<homeKind, expected, saves>>

HomeNext ==
    \E p \in HomeProcs :
        \/ \E n \in 1..2 : StatLog(p, n)
        \/ RotateLog(p) \/ OpenLog(p) \/ WriteEvent(p) \/ ReadEvents(p)
        \/ \E k \in CredentialKeys, pass \in Passphrases :
             DeleteCredential(p, k, pass) \/ \E s \in Secrets : SaveCredential(p, k, s, pass)
        \/ SaveRawData(p) \/ ProcessStops(p)

HomeSpec == HomeInit /\ [][HomeNext]_homeVars

-----------------------------------------------------------------------------
(* The last MaxLines lines of a log are in it or in its .1 file, whichever *)
(* processes write and die, until one process renames a file that another  *)
(* rotated after the first had looked at its size, or writes to one that   *)
(* was rotated after it had opened it.                                     *)
RecentEventsKept ==
    ~overtaken => \A i \in 1..written :
        i + MaxLines > written => i \in LinesIn(log.lines) \union LinesIn(oldLog)

(* The credentials file holds what was saved and not deleted, as long as   *)
(* all saves used its passphrase, none overlapped and none was cut short.  *)
CredentialsKept ==
    ~credsDisturbed /\ (\A p \in HomeProcs : home[p].pc # "store") => creds.data = expected

(* What the shared files of ~/.yby hold is lost in the ways named above    *)
(* and in no other.                                                        *)
HomeFilesKept == RecentEventsKept /\ CredentialsKept
=============================================================================
