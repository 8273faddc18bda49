------------------------------ MODULE AtlasScan ------------------------------
(***************************************************************************)
(* The atlas plugin (plugins/atlas): the diagram command, which lists the  *)
(* project, reads its charts, manifests, compose, kustomize and terraform  *)
(* files one after another while the user may be editing them, draws what  *)
(* it found and writes .yby/atlas-diagram.mmd; and the context hook, which *)
(* tells other plugins the project's components and how they relate.       *)
(*                                                                         *)
(* A file's content is a set of declarations [kind, ns, name, labels,      *)
(* refs], a reference [how, to, name] (name only where a dependency of a   *)
(* chart has one); a file that does not parse declares nothing.            *)
(***************************************************************************)
EXTENDS Naturals, FiniteSets, Sequences, TLC

CONSTANTS
    ProjectFiles,     \* the files that may be in the project
    FileName,         \* the base name of each
    FileDir,          \* the directory of each; of a template, that of its chart
    InTemplates,      \* the files in the templates/ directory of FileDir
    ContentsOf,       \* the contents each may have
    Words,            \* the words of a name, split where a node ID has "_"
    TemplateNames,    \* the names with an unrendered or encrypted part
    Prefixes,         \* the Go modules whose path starts the path of each
    CustomRules,      \* the rules of .yby/atlas.yaml
    RootSegments,     \* the segments the project's own path may have
    Ignores,          \* the directories never entered
    Layouts,          \* the sets of files a project may start with
    MaxProjectEdits   \* bound: edits of the project

ASSUME AtlasAssumption == MaxProjectEdits \in Nat /\ Layouts \subseteq SUBSET ProjectFiles

\* A directory has one Chart.yaml, which describes one chart.
ASSUME OneChart ==
    \A f, g \in {h \in ProjectFiles : FileName[h] = "Chart.yaml"} :
        /\ FileDir[f] = FileDir[g] => f = g
        /\ \A charts \in ContentsOf[f] : \A c, d \in charts : c.kind = "HelmChart" /\ c = d

VARIABLES
    project,   \* the files present and what they contain
    survey,      \* the run of the plugin
    diagram,   \* what atlas-diagram.mmd holds
    atlasEdits

atlasVars == <<project, survey, diagram, atlasEdits>>

Idle == [stage |-> "idle", calm |-> FALSE]

(* The program's view of an identifier: Kind/Namespace/Name.               *)
ID(d) == [kind |-> d.kind, ns |-> d.ns, name |-> d.name]
Named(kind, name) == [kind |-> kind, ns |-> "", name |-> name]
Edge(from, to, type) == [from |-> from, to |-> to, type |-> type]
RefsOf(d, hows) == {r \in d.refs : r.how \in hows}

-----------------------------------------------------------------------------
(* Listing and classification.                                             *)

(* The path tested is absolute: the project's own ancestors count.         *)
ShouldIgnore(f, root) == (root \cup {FileDir[f], FileName[f]}) \cap Ignores # {}

infraFileNames ==
    [n \in {"Chart.yaml", "docker-compose.yaml", "kustomization.yaml"} |->
        CASE n = "Chart.yaml" -> "helm" [] n = "docker-compose.yaml" -> "compose" [] OTHER -> "kustomize"]

isInsideHelmTemplates(f, files) ==
    /\ f \in InTemplates
    /\ \E g \in files : FileName[g] = "Chart.yaml" /\ FileDir[g] = FileDir[f]

isSopsEncrypted(f) == f \in DOMAIN project /\ \E d \in project[f] : d.kind = "ENC"

(* Which analyzer a listed file goes to; the encrypted are looked into.    *)
classifyFiles(files) ==
    [f \in files |->
        CASE FileName[f] \in DOMAIN infraFileNames -> infraFileNames[FileName[f]]
          [] FileName[f] = "main.tf" -> "terraform"
          [] /\ FileName[f] = "manifest.yaml"
             /\ ~isInsideHelmTemplates(f, files) /\ ~isSopsEncrypted(f) -> "k8s"
          [] OTHER -> "none"]

-----------------------------------------------------------------------------
(* The analyzers, as functions of what they read, got.                     *)

ReadBy(who, class, got) == {f \in DOMAIN got \cap DOMAIN class : class[f] = who}
Parsed(who, class, got) == UNION {got[f] : f \in ReadBy(who, class, got)}
Charts(class, got) == {f \in ReadBy("helm", class, got) : got[f] # {}}

(* The entries of templates/ are read when the chart is, not listed before. *)
scanTemplatesDir(dir) == {f \in InTemplates : FileDir[f] = dir}
extractTemplateResources(dir, got) ==
    {Named(d.kind, d.name) : d \in UNION {got[f] : f \in scanTemplatesDir(dir) \cap DOMAIN got}}

(* The chart a file:// dependency leads to, or one made up by name.        *)
LocalChart(r, class, got) ==
    LET there == {f \in Charts(class, got) : FileDir[f] = r.to}
    IN  IF there # {} THEN ID(CHOOSE d \in UNION {got[f] : f \in there} : TRUE)
        ELSE Named("HelmChart", r.name)

HelmDependencies(c, class, got) ==
    {LocalChart(r, class, got) : r \in RefsOf(c, {"local"})}
        \cup {Named("HelmRepository", r.name) : r \in RefsOf(c, {"remote"})}

HelmAnalyze(class, got) ==
    LET deps(f) == UNION {HelmDependencies(c, class, got) : c \in got[f]}
        made(f) == extractTemplateResources(FileDir[f], got)
        own(f)  == {ID(c) : c \in got[f]}
        charts  == Charts(class, got)
    IN  [resources |-> UNION {own(f) \cup deps(f) \cup made(f) : f \in charts},
         relations |-> UNION {{Edge(c, t, "depends_on") : c \in own(f), t \in deps(f)}
                              \cup {Edge(c, t, "deploys") : c \in own(f), t \in made(f)} : f \in charts}]

labelsMatch(selector, labels) == selector \subseteq labels

(* The resource of that kind and name, in the namespace if one is asked    *)
(* for: the first found, and no property tells the candidates apart.       *)
findResourceID(resources, kind, name, ns) ==
    LET found == {ID(d) : d \in {e \in resources : e.kind = kind /\ e.name = name
                                                     /\ (ns = "" \/ e.ns = ns)}}
    IN  IF found # {} THEN CHOOSE i \in found : TRUE
        ELSE [kind |-> kind, ns |-> ns, name |-> name]

extractServiceRelations(svc, all) ==
    {Edge(ID(svc), ID(d), "selects") :
        d \in {e \in all : /\ RefsOf(svc, {"selector"}) # {} /\ e.labels # {}
                           /\ ID(e) # ID(svc)
                           /\ labelsMatch({r.to : r \in RefsOf(svc, {"selector"})}, e.labels)}}

extractIngressRelations(ing, all) ==
    {Edge(ID(ing), findResourceID(all, "Service", r.to, ing.ns), "routes") :
        r \in RefsOf(ing, {"backend"})}

extractWorkloadRelations(wl, all) ==
    {Edge(ID(wl), findResourceID(all, "ServiceAccount", r.to, wl.ns), "references") :
        r \in RefsOf(wl, {"serviceAccount"})}

extractBindingRelations(binding, all) ==
    {Edge(ID(binding), findResourceID(all, r.name, r.to, ""), "references") :
        r \in RefsOf(binding, {"roleRef"})}

extractArgoCDRelations(app) ==
    {Edge(ID(app), Named("HelmChart", r.to), "syncs") : r \in RefsOf(app, {"path", "chart"})}

extractRelations(d, all) ==
    CASE d.kind = "Service" -> extractServiceRelations(d, all)
      [] d.kind = "Ingress" -> extractIngressRelations(d, all)
      [] d.kind \in {"Deployment", "StatefulSet", "DaemonSet"} -> extractWorkloadRelations(d, all)
      [] d.kind \in {"ClusterRoleBinding", "RoleBinding"} -> extractBindingRelations(d, all)
      [] d.kind = "Application" -> extractArgoCDRelations(d)
      [] OTHER -> {}

(* Documents whose name is not plain are passed over.                      *)
parseFile(class, got) == {d \in Parsed("k8s", class, got) : d.name \notin TemplateNames}

K8sAnalyze(class, got) ==
    LET all == parseFile(class, got)
    IN  [resources |-> {ID(d) : d \in all}, relations |-> UNION {extractRelations(d, all) : d \in all}]

(* Services on one network are joined in the order their map is walked in, *)
(* which changes from run to run: before is that order.                    *)
ComposeAnalyze(class, got, before) ==
    LET all    == Parsed("compose", class, got)
        nets(d) == {r.to : r \in RefsOf(d, {"network"})}
    IN  [resources |-> {ID(d) : d \in all},
         relations |->
            UNION {{Edge(ID(d), Named("ComposeService", r.to), "depends_on") :
                        r \in RefsOf(d, {"dependsOn"})} : d \in all}
            \cup {Edge(ID(p[1]), ID(p[2]), "connects") :
                    p \in {q \in UNION {got[f] \X got[f] : f \in ReadBy("compose", class, got)} :
                            /\ nets(q[1]) \cap nets(q[2]) # {}
                            /\ before[q[1].name] < before[q[2].name]}}]

(* A kustomization is named for its directory, a local reference for its   *)
(* last segment.                                                           *)
KustomizeAnalyze(class, got) ==
    LET self(f) == [kind |-> "Kustomization", ns |-> (CHOOSE d \in got[f] : TRUE).ns,
                    name |-> FileDir[f]]
        refs(f, how) == UNION {RefsOf(d, {how}) : d \in got[f]}
        read == {f \in ReadBy("kustomize", class, got) : got[f] # {}}
    IN  [resources |-> UNION {{self(f)} \cup {Named("KustomizeRemote", r.to) :
                                                r \in refs(f, "remote")} : f \in read},
         relations |-> UNION {{Edge(self(f), Named("KustomizeRemote", r.to), "includes") :
                                    r \in refs(f, "remote")}
                              \cup {Edge(self(f), Named("Kustomization", r.to), "includes") :
                                    r \in refs(f, "base")} : f \in read}]

TerraformAnalyze(class, got) ==
    LET all == Parsed("terraform", class, got)
    IN  [resources |-> {ID(d) : d \in all},
         relations |-> UNION {{Edge(ID(d), Named("TerraformModule", r.to), "includes") :
                                    r \in RefsOf(d, {"source"})} : d \in all}]

-----------------------------------------------------------------------------
(* The diagram.                                                            *)

overviewKinds ==
    {"HelmChart", "HelmRepository", "Application", "ApplicationSet", "Deployment", "StatefulSet",
     "DaemonSet", "CronJob", "Service", "Ingress", "ComposeService", "ComposeNetwork",
     "Kustomization", "TerraformModule", "TerraformResource"}

isValidMermaidResource(r) == r.name # "" /\ r.name \notin TemplateNames

(* Separators become "_": a/b, a-b and a.b are one node.                   *)
infraNodeID(i) == <<i.kind>> \o Words[i.ns] \o Words[i.name]

(* The resources shown at a level of detail, also those counted for the    *)
(* user, whether or not an edge keeps them in the overview.                *)
Shown(resources, detail) ==
    {r \in resources : isValidMermaidResource(r) /\ (detail = "overview" => r.kind \in overviewKinds)}

\* mutant: an edge keeps only the node it starts from in the overview
GenerateHalfConnected(bp, detail) ==
    LET shown == Shown(bp.resources, detail)
        kept  == {e \in bp.relations : e.from \in shown /\ e.to \in shown}
    IN  [nodes |-> {infraNodeID(r) : r \in {x \in shown : detail = "overview" => \E e \in kept : x = e.from}},
         edges |-> {Edge(infraNodeID(e.from), infraNodeID(e.to), e.type) : e \in kept}]

GenerateInfraMermaid(bp, detail) ==
    LET shown == Shown(bp.resources, detail)
        kept  == {e \in bp.relations : e.from \in shown /\ e.to \in shown}
        connected == {e.from : e \in kept} \cup {e.to : e \in kept}
    IN  [nodes |-> {infraNodeID(r) : r \in IF detail = "overview" THEN shown \cap connected ELSE shown},
         edges |-> {Edge(infraNodeID(e.from), infraNodeID(e.to), e.type) : e \in kept}]

-----------------------------------------------------------------------------
(* The components the context hook tells of.                               *)

DefaultRules ==
    [n \in {"Chart.yaml", "kustomization.yaml", "Dockerfile", "go.mod", "package.json", "docker-compose.yaml"} |->
        CASE n = "Chart.yaml" -> "helm" [] n = "kustomization.yaml" -> "kustomize"
          [] n \in {"go.mod", "package.json"} -> "app" [] OTHER -> "infra"]
MergeRules(custom) == custom @@ DefaultRules

(* Files of a directory are met in the order of their names' bytes.        *)
WalkOrder == <<"Chart.yaml", "Dockerfile", "docker-compose.yaml", "go.mod", "kustomization.yaml",
               "main.go", "main.tf", "manifest.yaml", "package.json">>
Met(f) == CHOOSE i \in DOMAIN WalkOrder : WalkOrder[i] = FileName[f]

ModuleOf(f) ==
    LET said == {d.name : d \in {e \in project[f] : e.kind = "Module"}}
    IN  IF said = {} THEN "" ELSE CHOOSE m \in said : TRUE

(* One component for each type in a directory, from the first file of that *)
(* type; its module is known only if that file is go.mod.                  *)
ComponentsOf(files, rules) ==
    LET typed  == {f \in files \ InTemplates : FileName[f] \in DOMAIN rules}
        type(f) == rules[FileName[f]]
        firsts == {f \in typed : \A g \in typed :
                    FileDir[g] = FileDir[f] /\ type(g) = type(f) => Met(f) <= Met(g)}
    IN  {[dir |-> FileDir[f], type |-> type(f), met |-> Met(f),
          module |-> IF FileName[f] = "go.mod" THEN ModuleOf(f) ELSE ""] : f \in firsts}

(* Where two components share a directory the last one met is found there. *)
CompPaths(comps) == {c \in comps : \A o \in comps : o.dir = c.dir => o.met <= c.met}

DirRefs(dir, name, hows) ==
    UNION {RefsOf(d, hows) : d \in UNION {project[f] :
        f \in {g \in DOMAIN project \ InTemplates : FileDir[g] = dir /\ FileName[g] = name}}}

(* replace directives, and local packages, which never lead to themselves. *)
detectGoModRelations(c) == {Edge(c.dir, r.to, "imports") : r \in DirRefs(c.dir, "go.mod", {"replace"})}
detectPackageJsonRelations(c) ==
    {Edge(c.dir, r.to, "imports") : r \in {x \in DirRefs(c.dir, "package.json", {"file"}) : x.to # c.dir}}

(* An import leads to every component whose module starts its path.        *)
detectGoImportRelations(c, comps) ==
    LET modules(dir) == {ModuleOf(f) : f \in {g \in DOMAIN project : FileDir[g] = dir /\ FileName[g] = "go.mod"}} \ {""}
        base == IF modules(".") # {} THEN modules(".") ELSE modules(c.dir)
        imports == {r.to : r \in {x \in DirRefs(c.dir, "main.go", {"import"}) : base \cap Prefixes[x.to] # {}}}
    IN  IF modules(c.dir) = {} THEN {}
        ELSE {Edge(c.dir, t.dir, "imports") :
                t \in {o \in CompPaths(comps) : /\ o.dir # c.dir /\ o.module # ""
                                                /\ \E i \in imports : o.module \in Prefixes[i]}}

(* COPY of another component's directory, or --from it, unless the name is *)
(* that of a stage.                                                        *)
detectDockerfileRelations(c) ==
    {Edge(c.dir, r.to, "builds") : r \in {x \in DirRefs(c.dir, "Dockerfile", {"copy"}) : x.to # c.dir}}
detectDockerFromRelations(c) ==
    {Edge(c.dir, r.to, "builds") :
        r \in {x \in DirRefs(c.dir, "Dockerfile", {"copyFrom"}) :
                x.to # c.dir /\ x.to \notin {s.to : s \in DirRefs(c.dir, "Dockerfile", {"stage"})}}}

detectHelmRelations(c) == {Edge(c.dir, r.to, "deploys") : r \in DirRefs(c.dir, "Chart.yaml", {"local"})}
detectHelmRemoteRelations(c) ==
    {Edge(c.dir, r.to, "depends") : r \in DirRefs(c.dir, "Chart.yaml", {"remote"})}

(* Only a repository may be the end of a relation without being found.     *)
detectRelations(comps) ==
    LET known(edges) == {e \in edges : e.to \in {c.dir : c \in comps}}
        of(c) ==
            CASE c.type = "app" ->
                    known(detectGoModRelations(c) \cup detectPackageJsonRelations(c))
                        \cup detectGoImportRelations(c, comps)
              [] c.type = "infra" -> known(detectDockerfileRelations(c) \cup detectDockerFromRelations(c))
              [] c.type = "helm" -> known(detectHelmRelations(c)) \cup detectHelmRemoteRelations(c)
              [] OTHER -> {}
    IN  UNION {of(c) : c \in comps}

-----------------------------------------------------------------------------
(* The steps.                                                              *)

NoDiagram == [nodes |-> {}, edges |-> {}]
Refined == [nodes |-> {<<"drawn by a model">>}, edges |-> {}]

AtlasTypeOK ==
    /\ DOMAIN project \subseteq ProjectFiles
    /\ \A f \in DOMAIN project : project[f] \in ContentsOf[f]
    /\ survey.stage \in {"idle", "listed", "read", "drawn", "opened", "written", "found", "told"}
    /\ survey.calm \in BOOLEAN
    /\ atlasEdits \in 0 .. MaxProjectEdits

AtlasInit ==
    /\ \E present \in Layouts : project \in [present -> UNION {ContentsOf[f] : f \in present}]
    /\ \A f \in DOMAIN project : project[f] \in ContentsOf[f]
    /\ survey = Idle
    /\ diagram = NoDiagram
    /\ atlasEdits = 0

(* The user saves a file, or takes one away.                               *)
EditProject(f) ==
    /\ atlasEdits < MaxProjectEdits
    /\ \/ \E c \in ContentsOf[f] : project' = [g \in DOMAIN project \cup {f} |-> IF g = f THEN c ELSE project[g]]
       \/ f \in DOMAIN project /\ project' = [g \in DOMAIN project \ {f} |-> project[g]]
    /\ project' # project
    /\ atlasEdits' = atlasEdits + 1
    /\ survey' = [survey EXCEPT !.calm = FALSE]
    /\ UNCHANGED diagram

Listed(root) == {f \in DOMAIN project : ~ShouldIgnore(f, root)}

(* The walk; it fails if a directory is taken away under it.               *)
ScanInfra(detail, root) ==
    /\ survey.stage = "idle"
    /\ survey' = [stage |-> "listed", calm |-> TRUE, detail |-> detail, files |-> Listed(root)]
    /\ UNCHANGED <<project, diagram, atlasEdits>>

(* One step, although it looks into every manifest for the mark of SOPS:   *)
(* nothing is claimed of a run during which the project was edited.        *)
ClassifyListed ==
    /\ survey.stage = "listed"
    /\ survey' = [stage |-> "read", calm |-> survey.calm, detail |-> survey.detail,
                class |-> classifyFiles(survey.files), got |-> [f \in {} |-> {}]]
    /\ UNCHANGED <<project, diagram, atlasEdits>>

(* Each analyzer reads its files, then the next one does; helm lists the   *)
(* templates of the charts it could read.                                  *)
Templates(class, got) == UNION {scanTemplatesDir(FileDir[f]) : f \in Charts(class, got)}
ReadOrder == <<"helm", "templates", "k8s", "compose", "kustomize", "terraform">>
Unread(who, class, got) ==
    (IF who = "templates" THEN Templates(class, got) ELSE {f \in DOMAIN class : class[f] = who}) \ DOMAIN got
Due(class, got) ==
    LET waiting == {i \in DOMAIN ReadOrder : Unread(ReadOrder[i], class, got) # {}}
    IN  IF waiting = {} THEN {}
        ELSE Unread(ReadOrder[CHOOSE i \in waiting : \A j \in waiting : i <= j], class, got)

ReadProjectFile(f) ==
    /\ survey.stage = "read" /\ f \in Due(survey.class, survey.got)
    /\ LET content == IF f \in DOMAIN project THEN project[f] ELSE {}
       IN  survey' = [survey EXCEPT !.got =
                        [g \in DOMAIN survey.got \cup {f} |-> IF g = f THEN content ELSE survey.got[g]]]
    /\ UNCHANGED <<project, diagram, atlasEdits>>

Joined(results) ==
    [resources |-> UNION {r.resources : r \in results}, relations |-> UNION {r.relations : r \in results}]

ComposeNames(got) == {d.name : d \in {e \in UNION {got[f] : f \in DOMAIN got} : e.kind = "ComposeService"}}
Orders(names) == {o \in [names -> 1 .. Cardinality(names)] : \A m, n \in names : o[m] = o[n] => m = n}

(* The blueprint is drawn; with nothing to show the command ends there.    *)
Draw ==
    /\ survey.stage = "read" /\ Due(survey.class, survey.got) = {}
    /\ \E before \in Orders(ComposeNames(survey.got)) :
          LET bp == Joined({HelmAnalyze(survey.class, survey.got), K8sAnalyze(survey.class, survey.got),
                            ComposeAnalyze(survey.class, survey.got, before),
                            KustomizeAnalyze(survey.class, survey.got), TerraformAnalyze(survey.class, survey.got)})
              drawn == GenerateInfraMermaid(bp, survey.detail)
          IN  survey' = IF drawn.nodes = {} THEN Idle
                      ELSE [stage |-> "drawn", calm |-> survey.calm, detail |-> survey.detail, drawn |-> drawn]
    /\ UNCHANGED <<project, diagram, atlasEdits>>

(* The first provider whose answer holds a flowchart replaces the draft;   *)
(* what it drew is its own.                                                *)
refineDiagramWithAI ==
    /\ survey.stage = "drawn" /\ survey.drawn # Refined
    /\ survey' = [survey EXCEPT !.drawn = Refined]
    /\ UNCHANGED <<project, diagram, atlasEdits>>

(* The file is rewritten in place.                                         *)
OpenDiagram ==
    /\ survey.stage = "drawn"
    /\ diagram' = NoDiagram
    /\ survey' = [survey EXCEPT !.stage = "opened"]
    /\ UNCHANGED <<project, atlasEdits>>

FillDiagram ==
    /\ survey.stage = "opened"
    /\ diagram' = survey.drawn
    /\ survey' = [survey EXCEPT !.stage = "written"]
    /\ UNCHANGED <<project, atlasEdits>>

(* The context hook: components in one walk, relations in further reads.   *)
ScanProject(root, rules) ==
    /\ survey.stage = "idle"
    /\ survey' = [stage |-> "found", calm |-> TRUE, comps |-> ComponentsOf(Listed(root), rules)]
    /\ UNCHANGED <<project, diagram, atlasEdits>>

Respond ==
    /\ survey.stage = "found"
    /\ survey' = [stage |-> "told", calm |-> survey.calm, comps |-> survey.comps,
                relations |-> detectRelations(survey.comps)]
    /\ UNCHANGED <<project, diagram, atlasEdits>>

(* The run ends, or is cut short anywhere.                                 *)
ScanEnds ==
    /\ survey.stage # "idle"
    /\ survey' = Idle
    /\ UNCHANGED <<project, diagram, atlasEdits>>

AtlasNext ==
    \/ \E f \in ProjectFiles : EditProject(f) \/ ReadProjectFile(f)
    \/ \E root \in RootSegments :
          \/ \E detail \in {"overview", "full"} : ScanInfra(detail, root)
          \/ \E rules \in {DefaultRules, MergeRules(CustomRules)} : ScanProject(root, rules)
    \/ ClassifyListed \/ Draw \/ refineDiagramWithAI \/ OpenDiagram \/ FillDiagram \/ Respond \/ ScanEnds

AtlasSpec == AtlasInit /\ [][AtlasNext]_atlasVars

-----------------------------------------------------------------------------
(* Properties.                                                             *)

(* What the project says by itself: which services select which resources  *)
(* of its manifests, and which chart needs which chart beside it.          *)
PlainManifests ==
    {f \in Listed({}) : /\ FileName[f] = "manifest.yaml" /\ ~isSopsEncrypted(f)
                       /\ ~isInsideHelmTemplates(f, Listed({}))}
Selections ==
    LET plain == {d \in UNION {project[f] : f \in PlainManifests} : isValidMermaidResource(d)}
        services == {s \in plain : s.kind = "Service" /\ \E r \in s.refs : r.how = "selector"}
        workloads == {d \in plain : d.kind \in {"Deployment", "StatefulSet"} /\ d.labels # {}}
    IN  {pair \in services \X workloads : \A r \in pair[1].refs : r.how = "selector" => r.to \in pair[2].labels}
ChartNeeds ==
    LET charts == {f \in Listed({}) : FileName[f] = "Chart.yaml"}
        plain(f) == {d \in project[f] : isValidMermaidResource(d)}
    IN  UNION {{pair \in plain(f) \X plain(g) :
                    \E r \in pair[1].refs : r.how = "local" /\ r.to = FileDir[g]} : f \in charts, g \in charts}
DrawnAs(pair, type) == Edge(infraNodeID(ID(pair[1])), infraNodeID(ID(pair[2])), type)

(* The diagram left in the project never has an edge from or to something  *)
(* it does not show, and a run during which nobody touched the project     *)
(* left every selection and every dependency between its charts in it,     *)
(* whichever files they are spread over and whatever the level of detail.  *)
(* The components other plugins are told of are the ends of all relations  *)
(* between directories.                                                    *)
DiagramsAgree ==
    /\ \A e \in diagram.edges : e.from \in diagram.nodes /\ e.to \in diagram.nodes
    /\ survey.stage = "written" /\ survey.calm /\ diagram # Refined =>
          /\ \A p \in Selections : DrawnAs(p, "selects") \in diagram.edges
          /\ \A p \in ChartNeeds : DrawnAs(p, "depends_on") \in diagram.edges
    /\ survey.stage = "told" =>
          \A e \in survey.relations : e.type # "depends" => e.to \in {c.dir : c \in survey.comps}
=============================================================================
