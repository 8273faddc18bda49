--------------------------- MODULE PluginRegistry ---------------------------
(***************************************************************************)
(* Plugins of yby (pkg/plugin/manager.go, trust.go, executor.go and        *)
(* cmd/plugin.go): the plugin files of the home and the project directory, *)
(* the registry of trusted checksums, and the yby processes that install,  *)
(* update, remove, trust and run plugins at the same time.  The mutex of   *)
(* trust.go works inside one process only; each step below is one access   *)
(* to a file, and a process may be killed between any two.                 *)
(*                                                                         *)
(* A checksum stands for the content it is computed from.  The content of  *)
(* a file is a build (a whole plugin, which answers the manifest hook), or *)
(* PartialFile (truncated or half written: it cannot be executed).         *)
(***************************************************************************)
EXTENDS Naturals, Sequences

CONSTANTS Clis,         \* yby processes
          PluginFiles,  \* base names of plugin files, yby-plugin-...
          Places,       \* <<directory, file>> in the order of discovery: home, then project
          Builds,       \* plugin binaries
          PluginName,   \* the name in the manifest of a build
          Hooks,        \* the hooks in the manifest of a build
          Natives,      \* names of the plugins released with yby
          NativeFile,   \* the file a native plugin is installed as
          PartialFile, NoFile,
          MaxCommands   \* bound on the number of commands started

PlaceSet == {Places[i] : i \in DOMAIN Places}
HomePlace(f) == <<"home", f>>
FileOf(place) == place[2]
PluginContent == Builds \union {PartialFile, NoFile}
Registry == [PluginFiles -> PluginContent]

ASSUME RegistryConstants ==
    /\ Places \in Seq({"home", "project"} \X PluginFiles)
    /\ \A f \in PluginFiles : HomePlace(f) \in PlaceSet
    /\ PartialFile \notin Builds /\ NoFile \notin Builds /\ PartialFile # NoFile
    /\ NativeFile \in [Natives -> PluginFiles]
    /\ MaxCommands \in Nat

VARIABLES plugins,      \* the content of each place
          executable,   \* places whose file has an executable bit
          registry,     \* trusted.json, or PartialFile when it cannot be parsed
          command,      \* what each process does
          started,      \* commands started so far
          everTrusted   \* history: <<file, content>> hashed by TrustPlugin

registryVars == <<plugins, executable, registry, command, started, everTrusted>>

(* What a command has to do is numbered: the places in the order of        *)
(* discovery, and again those of a second round after the last of them.    *)
SecondRound(i) == Len(Places) + i
PlaceAt(i) == Places[IF i > Len(Places) THEN i - Len(Places) ELSE i]
Lowest(numbers) == CHOOSE i \in numbers : \A j \in numbers : i <= j

NoCommand == [pc |-> "idle", op |-> "none", todo |-> {}, queue |-> {},
         seen |-> NoFile, hashed |-> NoFile, reg |-> [f \in PluginFiles |-> NoFile], alone |-> FALSE]

CommandSteps == {"idle", "check", "hash", "exec", "create", "copy", "chmod", "trust",
        "load", "open", "write", "remove"}
CommandKinds == {"none", "run", "init", "local", "native", "url", "trust", "untrust", "remove"}
CommandState == [pc : CommandSteps, op : CommandKinds, todo : SUBSET (1..SecondRound(Len(Places))),
         queue : SUBSET ((1..Len(Places)) \X Natives),
         seen : PluginContent, hashed : PluginContent, reg : Registry, alone : BOOLEAN]

RegistryTypeOK ==
    /\ plugins \in [PlaceSet -> PluginContent]
    /\ executable \subseteq PlaceSet
    /\ registry \in Registry \union {PartialFile}
    /\ command \in [Clis -> CommandState]
    /\ \A p \in Clis : command[p].pc # "idle" => command[p].todo # {}
    /\ started \in 0..MaxCommands
    /\ everTrusted \subseteq PluginFiles \X PluginContent

RegistryInit ==
    /\ plugins = [place \in PlaceSet |-> NoFile]
    /\ executable = {}
    /\ registry = [f \in PluginFiles |-> NoFile]
    /\ command = [p \in Clis |-> NoCommand]
    /\ started = 0
    /\ everTrusted = {}

-----------------------------------------------------------------------------
(* Discovery: the manifests of the executable files, in order.             *)

UsablePlugin(place) == place \in executable /\ plugins[place] \in Builds
Discover == {i \in DOMAIN Places : UsablePlugin(Places[i])}
PluginsNamed(n) == {i \in Discover : PluginName[plugins[Places[i]]] = n}
PluginsWith(h) == {i \in Discover : h \in Hooks[plugins[Places[i]]]}
FoundPlugin(n) == PluginsNamed(n) # {}
GetPlugin(n) == Lowest(PluginsNamed(n))

WorksOn(p) == PlaceAt(Lowest(command[p].todo))
HomeNumber(f) == CHOOSE i \in DOMAIN Places : Places[i] = HomePlace(f)

(* A process starts a command; alone records that no other one works at    *)
(* the same time.                                                          *)
BeginCommand(p, j) ==
    /\ command[p].pc = "idle" /\ started < MaxCommands
    /\ started' = started + 1
    /\ command' = [q \in Clis |->
                 IF q = p THEN [j EXCEPT !.alone = \A r \in Clis : command[r].pc = "idle"]
                          ELSE [command[q] EXCEPT !.alone = FALSE]]
    /\ UNCHANGED <<plugins, executable, registry, everTrusted>>

GotoStep(p, pc) == command' = [command EXCEPT ![p].pc = pc]

(* The command ends; plugin update goes on with its next plugin.           *)
NativeJob(n) == [NoCommand EXCEPT !.pc = "create", !.op = "native", !.todo = {HomeNumber(NativeFile[n])}]
NextInQueue(queue) == CHOOSE q \in queue : \A r \in queue : q[1] <= r[1]
QueuedJob(queue) == [NativeJob(NextInQueue(queue)[2]) EXCEPT !.queue = queue \ {NextInQueue(queue)}]
FinishedCommand(j) == IF j.queue = {} THEN NoCommand ELSE [QueuedJob(j.queue) EXCEPT !.alone = j.alone]
EndCommand(p) == command' = [command EXCEPT ![p] = FinishedCommand(command[p])]

-----------------------------------------------------------------------------
(* Running plugins.  A plugin command first runs the context hook of all   *)
(* plugins when it wants context itself; yby init runs the context and     *)
(* assets hooks with a manager that does not check.                        *)

RunPlugin(p, n) ==
    /\ \E i \in PluginsNamed(n) : "command" \in Hooks[plugins[Places[i]]]
    /\ LET target == GetPlugin(n)
           first == IF "context" \in Hooks[plugins[Places[target]]] THEN PluginsWith("context") ELSE {}
       IN BeginCommand(p, [NoCommand EXCEPT !.pc = "check", !.op = "run", !.todo = first \union {SecondRound(target)}])

InitHooks(p) ==
    LET all == PluginsWith("context") \union {SecondRound(i) : i \in PluginsWith("assets")}
    IN /\ all # {}
       /\ BeginCommand(p, [NoCommand EXCEPT !.pc = "exec", !.op = "init", !.todo = all])

(* A hook that fails or is refused is skipped; the command itself is last. *)
NextHook(p) ==
    LET rest == command[p].todo \ {Lowest(command[p].todo)}
        unchecked == command[p].pc = "exec" /\ command[p].op = "init"
    IN command' = [command EXCEPT ![p] = IF rest = {} THEN NoCommand
                      ELSE [command[p] EXCEPT !.pc = IF unchecked THEN "exec" ELSE "check",
                                              !.todo = rest, !.seen = NoFile, !.hashed = NoFile]]

(* IsTrusted: the entry of the base name, then the checksum of the file;   *)
(* hashed keeps what it was computed from.  The file is executed by name   *)
(* in a step of its own, with whatever it holds by then.                   *)
CheckEntry(p) ==
    LET place == WorksOn(p) IN
    /\ command[p].pc = "check"
    /\ IF registry = PartialFile \/ registry[FileOf(place)] = NoFile
       THEN NextHook(p)
       ELSE command' = [command EXCEPT ![p].pc = "hash", ![p].seen = registry[FileOf(place)]]
    /\ UNCHANGED <<plugins, executable, registry, started, everTrusted>>

\* mutant: the checksum is computed and logged, but not compared
CheckPresence(p) ==
    LET place == WorksOn(p) IN
    /\ command[p].pc = "hash"
    /\ command' = [command EXCEPT ![p].pc = "exec", ![p].hashed = plugins[place]]
    /\ UNCHANGED <<plugins, executable, registry, started, everTrusted>>

CheckHash(p) ==
    LET place == WorksOn(p) IN
    /\ command[p].pc = "hash"
    /\ IF plugins[place] = command[p].seen
       THEN command' = [command EXCEPT ![p].pc = "exec", ![p].hashed = plugins[place]]
       ELSE NextHook(p)
    /\ UNCHANGED <<plugins, executable, registry, started, everTrusted>>

ExecPlugin(p) ==
    /\ command[p].pc = "exec"
    /\ NextHook(p)
    /\ UNCHANGED <<plugins, executable, registry, started, everTrusted>>

-----------------------------------------------------------------------------
(* Installing.                                                             *)

(* Refused when a plugin whose manifest name is the file's name is there   *)
(* and force is not set; the target is open and truncated by then.         *)
Taken(f) == FoundPlugin(f)

InstallLocal(p, f, force) ==
    BeginCommand(p, [NoCommand EXCEPT !.pc = "create", !.op = "local", !.todo = {HomeNumber(f)},
                          !.seen = IF Taken(f) /\ ~force THEN PartialFile ELSE NoFile])

InstallURL(p, f) ==
    BeginCommand(p, [NoCommand EXCEPT !.pc = "create", !.op = "url", !.todo = {HomeNumber(f)}])

(* Not when this very version is there; a download that fails is           *)
(* InstallFails.                                                           *)
InstallNative(p, n, force) ==
    /\ ~force /\ FoundPlugin(n) =>
         \E b \in Builds : PluginName[b] = n /\ b # plugins[Places[GetPlugin(n)]]
    /\ BeginCommand(p, NativeJob(n))

(* plugin update: the native ones among the plugins found, one by one.     *)
UpdatePlugins(p) ==
    LET found == {<<i, PluginName[plugins[Places[i]]]>> : i \in Discover}
        queue == {q \in found : q[2] \in Natives}
    IN queue # {} /\ BeginCommand(p, QueuedJob(queue))

CreateFile(p) ==
    LET place == WorksOn(p) IN
    /\ command[p].pc = "create"
    /\ plugins' = [plugins EXCEPT ![place] = PartialFile]
    /\ executable' = IF command[p].op = "local" /\ plugins[place] = NoFile
                     THEN executable \union {place} ELSE executable
    /\ IF command[p].seen = PartialFile THEN EndCommand(p) ELSE GotoStep(p, "copy")
    /\ UNCHANGED <<registry, started, everTrusted>>

\* mutant: copyFile drops the error of io.Copy
CopyAnyway(p) ==
    /\ command[p].pc = "copy"
    /\ \E b \in Builds \union {PartialFile} :
         plugins' = [plugins EXCEPT ![WorksOn(p)] = b]
    /\ GotoStep(p, IF command[p].op = "local" THEN "trust" ELSE "chmod")
    /\ UNCHANGED <<executable, registry, started, everTrusted>>

CopyBinary(p) ==
    LET place == WorksOn(p) IN
    /\ command[p].pc = "copy"
    /\ \E b \in Builds :
         /\ command[p].op = "native" => \E n \in Natives : NativeFile[n] = FileOf(place) /\ PluginName[b] = n
         /\ plugins' = [plugins EXCEPT ![place] = b]
    /\ GotoStep(p, IF command[p].op = "local" THEN "trust" ELSE "chmod")
    /\ UNCHANGED <<executable, registry, started, everTrusted>>

ChmodBinary(p) ==
    /\ command[p].pc = "chmod"
    /\ executable' = executable \union {WorksOn(p)}
    /\ GotoStep(p, "trust")
    /\ UNCHANGED <<plugins, registry, started, everTrusted>>

-----------------------------------------------------------------------------
(* The registry: TrustPlugin hashes, loads, changes and saves.             *)

TrustHash(p) ==
    LET place == WorksOn(p)
        sum == plugins[place]
    IN
    /\ command[p].pc = "trust"
    /\ IF sum = NoFile
       THEN EndCommand(p) /\ UNCHANGED everTrusted
       ELSE /\ command' = [command EXCEPT ![p].pc = "load", ![p].seen = sum]
            /\ everTrusted' = everTrusted \union {<<FileOf(place), sum>>}
    /\ UNCHANGED <<plugins, executable, registry, started>>

(* An unreadable registry: install only warns, trust and untrust fail.     *)
LoadRegistry(p) ==
    LET f == FileOf(WorksOn(p)) IN
    /\ command[p].pc = "load"
    /\ IF registry = PartialFile \/ (command[p].op = "untrust" /\ registry[f] = NoFile)
       THEN EndCommand(p)
       ELSE command' = [command EXCEPT ![p].pc = "open", ![p].reg = [registry EXCEPT ![f] = command[p].seen]]
    /\ UNCHANGED <<plugins, executable, registry, started, everTrusted>>

OpenRegistry(p) ==
    /\ command[p].pc = "open"
    /\ registry' = PartialFile
    /\ GotoStep(p, "write")
    /\ UNCHANGED <<plugins, executable, started, everTrusted>>

WriteRegistry(p) ==
    /\ command[p].pc = "write"
    /\ registry' = command[p].reg
    /\ EndCommand(p)
    /\ UNCHANGED <<plugins, executable, started, everTrusted>>

TrustPlugin(p, n) ==
    /\ FoundPlugin(n)
    /\ BeginCommand(p, [NoCommand EXCEPT !.pc = "trust", !.op = "trust", !.todo = {GetPlugin(n)}])

UntrustPlugin(p, f) ==
    BeginCommand(p, [NoCommand EXCEPT !.pc = "load", !.op = "untrust", !.todo = {HomeNumber(f)}])

-----------------------------------------------------------------------------
(* Removing, only from the home directory; the registry keeps the entry.   *)
RemovePlugin(p, n) ==
    /\ FoundPlugin(n) /\ Places[GetPlugin(n)][1] = "home"
    /\ BeginCommand(p, [NoCommand EXCEPT !.pc = "remove", !.op = "remove", !.todo = {GetPlugin(n)}])

RemoveFile(p) ==
    LET place == WorksOn(p) IN
    /\ command[p].pc = "remove"
    /\ plugins' = [plugins EXCEPT ![place] = NoFile]
    /\ executable' = executable \ {place}
    /\ EndCommand(p)
    /\ UNCHANGED <<registry, started, everTrusted>>

(* A step fails or the process is killed: files stay as they are.  A       *)
(* failing plugin of plugin update does not stop the others.               *)
KillCommand(p) ==
    /\ command[p].pc # "idle"
    /\ command' = [command EXCEPT ![p] = NoCommand]
    /\ UNCHANGED <<plugins, executable, registry, started, everTrusted>>

InstallFails(p) ==
    /\ command[p].pc \in {"create", "copy", "chmod"}
    /\ EndCommand(p)
    /\ UNCHANGED <<plugins, executable, registry, started, everTrusted>>

(* The project is somebody's repository: its plugins come and go.          *)
ProjectPluginChanges(place) ==
    /\ place[1] = "project" /\ started < MaxCommands
    /\ \E b \in Builds : plugins' = [plugins EXCEPT ![place] = b]
    /\ executable' = executable \union {place}
    /\ UNCHANGED <<registry, command, started, everTrusted>>

RegistryNext ==
    \/ \E p \in Clis :
         \/ \E n \in {PluginName[b] : b \in Builds} : RunPlugin(p, n) \/ TrustPlugin(p, n) \/ RemovePlugin(p, n)
         \/ \E f \in PluginFiles : InstallURL(p, f) \/ UntrustPlugin(p, f)
         \/ \E f \in PluginFiles, force \in BOOLEAN : InstallLocal(p, f, force)
         \/ \E n \in Natives, force \in BOOLEAN : InstallNative(p, n, force)
         \/ UpdatePlugins(p) \/ InitHooks(p)
         \/ CheckEntry(p) \/ CheckHash(p) \/ ExecPlugin(p)
         \/ CreateFile(p) \/ CopyBinary(p) \/ ChmodBinary(p)
         \/ TrustHash(p) \/ LoadRegistry(p) \/ OpenRegistry(p) \/ WriteRegistry(p)
         \/ RemoveFile(p) \/ KillCommand(p) \/ InstallFails(p)
    \/ \E place \in PlaceSet : ProjectPluginChanges(place)

RegistrySpec == RegistryInit /\ [][RegistryNext]_registryVars

-----------------------------------------------------------------------------
(* Executor.checkTrust, whatever other processes do: the content a plugin  *)
(* command executes is one that somebody once had hashed and registered    *)
(* under that file name, unless the file was replaced after its checksum   *)
(* was taken.  A half-written file, a file changed behind the registry's   *)
(* back and the leftovers of a failed install are refused.                 *)
RunsWhatWasTrusted ==
    \A p \in Clis : command[p].pc = "exec" /\ command[p].op = "run" =>
        LET place == WorksOn(p)
            replacedSince == plugins[place] # command[p].hashed
        IN  replacedSince \/ <<FileOf(place), plugins[place]>> \in everTrusted

(* Manager.Install (the checksum is registered when the binary is in       *)
(* place): an install that no other command overlaps, and that goes as far *)
(* as saving the registry, leaves a whole plugin the registry vouches for, *)
(* and one that is discovered.  (install FILE does not make an existing    *)
(* file executable, as an interrupted download may have left it.)          *)
LoneInstallRuns ==
    [][\A p \in Clis :
         command[p].pc = "write" /\ command'[p].pc # "write" /\ registry' # PartialFile
         /\ command[p].op \in {"local", "native", "url"} /\ command[p].alone =>
            LET place == WorksOn(p) IN
            /\ plugins[place] \in Builds
            /\ command[p].op # "local" => place \in executable
            /\ registry'[FileOf(place)] = plugins[place]]_registryVars
=============================================================================
