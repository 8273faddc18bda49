---------------------------- MODULE MCWorkstation ----------------------------
(* Instance of Workstation for TLC: a small world for each of its parts.   *)
EXTENDS Workstation

(* A plugin file in the home and in the project, built from two programs.  *)
MCPlaces == << <<"home", "fa">>, <<"project", "fa">> >>
MCBuilds == {"a1", "o1"}
MCPluginName == [b \in MCBuilds |-> IF b = "o1" THEN "fa" ELSE "atlas"]
MCHooks == [b \in MCBuilds |-> IF b = "a1" THEN {"command", "context"} ELSE {"context", "assets"}]
MCNativeFile == [n \in {"atlas"} |-> "fa"]

(* A pod with every fault, one as charts come, and one that is hardened.   *)
WorstPod ==
    [pod |-> {"hostPID", "hostIPC", "hostNetwork", "mountsToken"},
     main |-> {"uidRoot", "privileged", "escalates", "writableRoot", "sysAdmin",
               "hostPort", "floatingTag", "unsigned", "plainSecret"},
     init |-> {"escalates"}]
PlainPod == [pod |-> {"mountsToken", "covered"}, main |-> {"escalates", "writableRoot", "pullAlways"},
             init |-> {"dropsAll"}]
HardPod == [pod |-> {"seccomp", "covered"}, main |-> {"nonRoot", "dropsAll", "limits", "pullAlways"},
            init |-> {"dropsAll"}]
MCPodSpecs == {WorstPod, PlainPod, HardPod}

MCGrants ==
    {[kind |-> "ClusterRoleBinding", name |-> "knownToChecks", has |-> {"clusterAdmin"}],
     [kind |-> "ClusterRole", name |-> "known", has |-> {"secrets", "wildcard"}],
     [kind |-> "Role", name |-> "known", has |-> {"secrets", "wildcard"}]}
MCProfiles == {CheckIDs, {"POD_ROOT_CONTAINER", "POD_PRIVILEGED"}}

(* kubectl knows a context for one of two environments.                    *)
MCKubeContextOf == [n \in {"prod", "qa"} |-> IF n = "prod" THEN n ELSE "-"]

(* A project of charts and manifests, one of compose, kustomize and         *)
(* terraform files, and one of Go, node and docker components.             *)
MCRefs(how, to, name) == [how |-> how, to |-> to, name |-> name]
MCDecl(kind, ns, name, labels, refs) ==
    [kind |-> kind, ns |-> ns, name |-> name, labels |-> labels, refs |-> refs]

MCFile == [chartA |-> <<"Chart.yaml", "a">>, chartB |-> <<"Chart.yaml", "b">>, tmpl |-> <<"manifest.yaml", "a">>,
           svc |-> <<"manifest.yaml", "k8s">>, apps |-> <<"manifest.yaml", "k8s">>,
           compose |-> <<"docker-compose.yaml", ".">>, kust |-> <<"kustomization.yaml", "web">>,
           over |-> <<"kustomization.yaml", "over">>, tf |-> <<"main.tf", "tf">>,
           rootMod |-> <<"go.mod", ".">>, webMod |-> <<"go.mod", "web">>, webGo |-> <<"main.go", "web">>,
           webPkg |-> <<"package.json", "web">>, webDock |-> <<"Dockerfile", "web">>]
MCProjectFiles == DOMAIN MCFile
MCFileName == [f \in MCProjectFiles |-> MCFile[f][1]]
MCFileDir == [f \in MCProjectFiles |-> MCFile[f][2]]

MCWeb == MCDecl("Deployment", "n", "a-b", {"app"}, {MCRefs("serviceAccount", "robot", "")})
MCContentsOf ==
    [f \in MCProjectFiles |->
       CASE f = "chartA" -> {{}, {MCDecl("HelmChart", "", "a", {}, {MCRefs("local", "b", "b"), MCRefs("remote", "repo", "redis")})}}
         [] f = "chartB" -> {{MCDecl("HelmChart", "", "b", {}, {})}}
         [] f = "tmpl" -> {{MCDecl("Deployment", "n", "{{", {}, {}), MCDecl("Service", "", "svc", {}, {})}}
         [] f = "svc" -> {{MCDecl("Service", "n", "svc", {}, {MCRefs("selector", "app", "")}),
                           MCDecl("Ingress", "n", "in", {}, {MCRefs("backend", "svc", ""), MCRefs("backend", "gone", "")})},
                          {MCDecl("ENC", "", "", {}, {})}}
         [] f = "apps" -> {{MCWeb, MCDecl("ServiceAccount", "n", "robot", {}, {}), MCDecl("Role", "n", "r", {}, {}),
                            MCDecl("RoleBinding", "n", "rb", {}, {MCRefs("roleRef", "r", "Role")}),
                            MCDecl("Application", "argo", "a.b", {}, {MCRefs("path", "a", ""), MCRefs("chart", "redis", "")})}}
         [] f = "compose" -> {{MCDecl("ComposeService", "", "a", {}, {MCRefs("network", "net", ""), MCRefs("dependsOn", "b", "")}),
                               MCDecl("ComposeService", "", "b", {}, {MCRefs("network", "net", "")}),
                               MCDecl("ComposeNetwork", "", "net", {}, {})}}
         [] f = "kust" -> {{MCDecl("kustomization", "", "", {}, {})}}
         [] f = "over" -> {{MCDecl("kustomization", "n", "", {}, {MCRefs("base", "web", ""), MCRefs("remote", "repo", "")})}}
         [] f = "tf" -> {{MCDecl("TerraformModule", "", "a", {}, {MCRefs("source", "b", "")}), MCDecl("TerraformModule", "", "b", {}, {})}}
         [] f = "rootMod" -> {{MCDecl("Module", "", "m", {}, {MCRefs("replace", "web", "")})}}
         [] f = "webMod" -> {{MCDecl("Module", "", "m/web", {}, {})}, {}}
         [] f = "webGo" -> {{MCDecl("Source", "", "", {}, {MCRefs("import", "m/api", "")})}}
         [] f = "webPkg" -> {{MCDecl("Package", "", "", {}, {MCRefs("file", ".", ""), MCRefs("file", "lib", "")})}}
         [] f = "webDock" -> {{MCDecl("Image", "", "", {}, {MCRefs("stage", "build", ""), MCRefs("copy", "web", ""),
                               MCRefs("copy", ".", ""), MCRefs("copyFrom", "build", ""), MCRefs("copyFrom", ".", "")})}}]
MCLayouts == {{}, {"chartA", "chartB", "tmpl", "svc", "apps"}, {"compose", "kust", "over", "tf"},
              {"rootMod", "webMod", "webGo", "webPkg", "webDock", "chartA"}}
MCNames == {"", "n", "argo", "a", "b", "a-b", "a.b", "svc", "gone", "in", "robot", "r", "rb", "redis", "net", "repo",
            "web", "over", "{{", "."}
MCWords == [n \in MCNames |-> IF n = "" THEN <<>> ELSE IF n \in {"a-b", "a.b"} THEN <<"a", "b">> ELSE <<n>>]
MCPrefixes == [m \in {"m", "m/web", "m/api"} |-> {"m", m}]
MCCustomRules == [n \in {"main.tf"} |-> "infra"]
MCRootSegments == {{}, {"vendor"}}
=============================================================================
