----------------------------- MODULE SentinelScan -----------------------------
(***************************************************************************)
(* yby sentinel scan [--profile P] [--fix] (plugins/sentinel/cli): the     *)
(* backends, the internal checks, and the patches made from what they      *)
(* found.  Every check lists the resources again, the recommendations of   *)
(* the AI come between the checks and the patches, and all this time the   *)
(* owner of the namespace and its controllers change the pods.             *)
(*                                                                         *)
(* A part of a pod (the pod itself, its container, its init container) is  *)
(* the set of the traits the checks look at.                               *)
(***************************************************************************)
EXTENDS Naturals, Sequences

CONSTANTS Pods,
          PodSpecs,        \* functions from PodParts to sets of traits
          Grants,          \* RBAC objects of the cluster
          Profiles,        \* sets of check IDs; one of them is all of them
          MaxEdits,        \* bound on the edits of pods
          MaxApiErrors     \* bound on the lists that fail for no reason of theirs

PodParts == {"pod", "main", "init"}
Containers == {"main", "init"}
Traits == {"hostPID", "hostIPC", "hostNetwork", "seccomp", "mountsToken", "covered",
           "uidRoot", "uidOther", "nonRoot", "privileged", "escalates", "writableRoot", "sysAdmin",
           "dropsAll", "limits", "hostPort", "floatingTag", "unsigned", "pullAlways", "plainSecret"}
NoPod == [part \in PodParts |-> {}]

(* The name of an RBAC object: its owner's, one that both lists of known   *)
(* names leave out, or one that only the list of the checks leaves out.    *)
GrantNames == {"own", "known", "knownToChecks"}
GrantTraits == {"clusterAdmin", "mastersOnly", "secrets", "wildcard"}
Grant == [kind : {"ClusterRoleBinding", "ClusterRole", "Role"}, name : GrantNames, has : SUBSET GrantTraits]

ASSUME SentinelConstants ==
    /\ PodSpecs \subseteq [PodParts -> SUBSET Traits] \ {NoPod}
    /\ Grants \subseteq Grant
    /\ MaxEdits \in Nat /\ MaxApiErrors \in Nat

VARIABLES pods,      \* the pods of the namespace, NoPod when gone
          rbac,      \* RBAC objects
          denies,    \* directions with a default-deny NetworkPolicy
          scan,      \* the scan in progress
          edits, apiErrors

sentinelVars == <<pods, rbac, denies, scan, edits, apiErrors>>

-----------------------------------------------------------------------------
(* The internal checks.                                                    *)

Existing == {p \in Pods : pods[p] # NoPod}
PartsOf(which) == Existing \X which
TraitsAt(at) == pods[at[1]][at[2]]
WithTrait(which, trait) == {at \in PartsOf(which) : trait \in TraitsAt(at)}
WithoutTrait(which, trait) == {at \in PartsOf(which) : trait \notin TraitsAt(at)}
FindingOf(check, at, critical) == [check |-> check, at |-> at, critical |-> critical]
Report(check, places, critical) == {FindingOf(check, at, critical) : at \in places}

LatestTag == Report("IMAGE_LATEST_TAG", WithTrait(Containers, "floatingTag"), FALSE)
(* Without the cosign program it is one remark.                            *)
ImageSignature == Report("IMAGE_SIGNATURE", WithTrait(Containers, "unsigned"), FALSE)
NetpolCoverage == Report("NETPOL_COVERAGE", WithoutTrait({"pod"}, "covered"), FALSE)
NetpolDefaultDeny == Report("NETPOL_DEFAULT_DENY", {<<"namespace", d>> : d \in {"ingress", "egress"} \ denies}, FALSE)
Capabilities == Report("POD_CAPABILITIES", WithTrait(Containers, "sysAdmin"), TRUE)
                  \union Report("POD_CAPABILITIES", WithoutTrait(Containers, "dropsAll"), FALSE)
HostNamespaces == Report("POD_HOST_NAMESPACES", UNION {WithTrait({"pod"}, t) : t \in {"hostPID", "hostIPC", "hostNetwork"}}, FALSE)
HostPorts == Report("POD_HOST_PORTS", WithTrait(Containers, "hostPort"), FALSE)
ResourceLimits == Report("POD_RESOURCE_LIMITS", WithoutTrait({"main"}, "limits"), FALSE)
PrivilegeEscalation == Report("POD_PRIVILEGE_ESCALATION", WithTrait(Containers, "escalates"), FALSE)
Privileged == Report("POD_PRIVILEGED", WithTrait(Containers, "privileged"), TRUE)
ImagePullPolicy == Report("POD_IMAGE_PULL_POLICY", WithoutTrait({"main"}, "pullAlways"), FALSE)
ReadOnlyRootfs == Report("POD_READONLY_ROOTFS", WithTrait(Containers, "writableRoot"), FALSE)
RootContainer == Report("POD_ROOT_CONTAINER", WithTrait({"main"}, "uidRoot"), TRUE)
                   \union Report("POD_ROOT_CONTAINER",
                                 {at \in PartsOf({"main"}) : TraitsAt(at) \cap {"nonRoot", "uidRoot", "uidOther"} = {}}, FALSE)
Seccomp == Report("POD_SECCOMP", WithoutTrait({"pod"}, "seccomp"), FALSE)
ExposedSecrets == Report("POD_EXPOSED_SECRETS", WithTrait({"main"}, "plainSecret"), TRUE)
ServiceAccountToken == Report("POD_SERVICE_ACCOUNT_TOKEN", WithTrait({"pod"}, "mountsToken"), FALSE)

(* shouldSkipRBACResource: not asked for the Roles of the namespace.       *)
RBACSkips(g) == g.kind # "Role" /\ g.name # "own"
GrantsWith(kinds, trait) == {g \in rbac : g.kind \in kinds /\ trait \in g.has}
ReportGrants(check, grants) == {FindingOf(check, <<g.kind, g.name>>, FALSE) : g \in grants}

ClusterAdmin == ReportGrants("RBAC_CLUSTER_ADMIN",
    {g \in GrantsWith({"ClusterRoleBinding"}, "clusterAdmin") : ~RBACSkips(g) /\ "mastersOnly" \notin g.has})
SecretsAccess == ReportGrants("RBAC_SECRETS_ACCESS", {g \in GrantsWith({"ClusterRole", "Role"}, "secrets") : ~RBACSkips(g)})
WildcardRBAC == ReportGrants("RBAC_WILDCARD", {g \in GrantsWith({"ClusterRole", "Role"}, "wildcard") : ~RBACSkips(g)})

Finds(check) ==
    CASE check = "IMAGE_LATEST_TAG" -> LatestTag
      [] check = "IMAGE_SIGNATURE" -> ImageSignature
      [] check = "NETPOL_COVERAGE" -> NetpolCoverage
      [] check = "NETPOL_DEFAULT_DENY" -> NetpolDefaultDeny
      [] check = "POD_CAPABILITIES" -> Capabilities
      [] check = "POD_HOST_NAMESPACES" -> HostNamespaces
      [] check = "POD_HOST_PORTS" -> HostPorts
      [] check = "POD_RESOURCE_LIMITS" -> ResourceLimits
      [] check = "POD_PRIVILEGE_ESCALATION" -> PrivilegeEscalation
      [] check = "POD_PRIVILEGED" -> Privileged
      [] check = "POD_IMAGE_PULL_POLICY" -> ImagePullPolicy
      [] check = "POD_READONLY_ROOTFS" -> ReadOnlyRootfs
      [] check = "POD_ROOT_CONTAINER" -> RootContainer
      [] check = "POD_SECCOMP" -> Seccomp
      [] check = "POD_EXPOSED_SECRETS" -> ExposedSecrets
      [] check = "POD_SERVICE_ACCOUNT_TOKEN" -> ServiceAccountToken
      [] check = "RBAC_CLUSTER_ADMIN" -> ClusterAdmin
      [] check = "RBAC_SECRETS_ACCESS" -> SecretsAccess
      [] check = "RBAC_WILDCARD" -> WildcardRBAC

(* The order of registration, of the names of the source files, in which   *)
(* GetByIDs lists the checks of a profile.                                 *)
CheckOrder == <<"IMAGE_LATEST_TAG", "IMAGE_SIGNATURE", "NETPOL_COVERAGE", "NETPOL_DEFAULT_DENY",
    "POD_CAPABILITIES", "POD_HOST_NAMESPACES", "POD_HOST_PORTS", "POD_RESOURCE_LIMITS",
    "POD_PRIVILEGE_ESCALATION", "POD_PRIVILEGED", "POD_IMAGE_PULL_POLICY", "POD_READONLY_ROOTFS",
    "POD_ROOT_CONTAINER", "POD_SECCOMP", "POD_EXPOSED_SECRETS", "POD_SERVICE_ACCOUNT_TOKEN",
    "RBAC_CLUSTER_ADMIN", "RBAC_SECRETS_ACCESS", "RBAC_WILDCARD">>
CheckIDs == {CheckOrder[i] : i \in DOMAIN CheckOrder}
ASSUME ProfilesOfChecks == Profiles \subseteq SUBSET CheckIDs
Rank(check) == CHOOSE i \in DOMAIN CheckOrder : CheckOrder[i] = check
Foremost(ids) == CHOOSE check \in ids : \A other \in ids : Rank(check) <= Rank(other)

-----------------------------------------------------------------------------
(* The OPA backend judges the same objects by the policies it embeds, which *)
(* leave out other names, skip Roles by name too, and leave Roles with      *)
(* wildcards alone.                                                         *)
OPASkips(g) == g.name = "known"
OPAClusterAdmin == ReportGrants("opa/rbac_cluster_admin",
    {g \in GrantsWith({"ClusterRoleBinding"}, "clusterAdmin") : ~OPASkips(g) /\ "mastersOnly" \notin g.has})
OPASecretsAccess == ReportGrants("opa/rbac_secrets_access", {g \in GrantsWith({"ClusterRole", "Role"}, "secrets") : ~OPASkips(g)})
OPAWildcard == ReportGrants("opa/rbac_wildcard", {g \in GrantsWith({"ClusterRole"}, "wildcard") : ~OPASkips(g)})
OPADefaultDeny == Report("opa/netpol_default_deny", {<<"namespace", d>> : d \in {"ingress", "egress"} \ denies}, FALSE)
OPAPolicies == {OPAClusterAdmin, OPASecretsAccess, OPAWildcard, OPADefaultDeny}

(* Polaris: one finding per failed check, not of what it ignores.          *)
PolarisFinding == FindingOf("polaris/check", <<"namespace", "workloads">>, TRUE)

AllFindings == [check : CheckIDs \union {"opa/rbac_cluster_admin", "opa/rbac_secrets_access", "opa/rbac_wildcard",
                                         "opa/netpol_default_deny", "polaris/check"},
                at : (Pods \X PodParts) \union ({"namespace"} \X {"ingress", "egress", "workloads"})
                       \union ({"ClusterRoleBinding", "ClusterRole", "Role"} \X GrantNames),
                critical : BOOLEAN]

NotScanning == [pc |-> "idle", fix |-> FALSE, profile |-> {}, checks |-> {}, found |-> {}, applied |-> {}, edited |-> {}]

Scans == [pc : {"idle", "polaris", "opa", "check", "patch", "done"}, fix : BOOLEAN,
          profile : SUBSET CheckIDs, checks : SUBSET CheckIDs, found : SUBSET AllFindings,
          applied : SUBSET AllFindings, edited : SUBSET Pods]

SentinelTypeOK ==
    /\ pods \in [Pods -> [PodParts -> SUBSET Traits]]
    /\ rbac \subseteq Grants /\ denies \subseteq {"ingress", "egress"}
    /\ scan \in Scans
    /\ edits \in 0..MaxEdits /\ apiErrors \in 0..MaxApiErrors

SentinelInit ==
    /\ pods \in [Pods -> PodSpecs] /\ rbac \in {{}, Grants} /\ denies \in {{}, {"ingress", "egress"}}
    /\ scan = NotScanning /\ edits = 0 /\ apiErrors = 0

-----------------------------------------------------------------------------
(* scanNamespace.                                                          *)

StartScan(profile, fix) ==
    /\ scan.pc = "idle"
    /\ scan' = [NotScanning EXCEPT !.pc = "polaris", !.profile = profile, !.fix = fix]
    /\ UNCHANGED <<pods, rbac, denies, edits, apiErrors>>

RunPolaris ==
    /\ scan.pc = "polaris"
    /\ \E bf \in {{}, {PolarisFinding}} : scan' = [scan EXCEPT !.pc = "opa", !.found = bf]
    /\ UNCHANGED <<pods, rbac, denies, edits, apiErrors>>

(* A policy whose resources cannot be listed is left out.  The internal    *)
(* checks run when the backends found nothing.                             *)
RunOPA ==
    /\ scan.pc = "opa"
    /\ \E skipped \in SUBSET OPAPolicies :
         LET found == scan.found \union UNION (OPAPolicies \ skipped) IN
         /\ skipped # {} => apiErrors < MaxApiErrors
         /\ apiErrors' = IF skipped = {} THEN apiErrors ELSE apiErrors + 1
         /\ scan' = IF found = {}
                    THEN [scan EXCEPT !.pc = "check", !.checks = scan.profile]
                    ELSE [scan EXCEPT !.pc = "patch", !.found = found]
    /\ UNCHANGED <<pods, rbac, denies, edits>>

(* A finding of a later check with the resource, category and message of   *)
(* an earlier one is dropped: found is a set.                              *)
RunCheck ==
    /\ scan.pc = "check" /\ scan.checks # {}
    /\ \E failed \in BOOLEAN :
         /\ failed => apiErrors < MaxApiErrors
         /\ apiErrors' = IF failed THEN apiErrors + 1 ELSE apiErrors
         /\ LET check == Foremost(scan.checks) IN
            scan' = [scan EXCEPT !.checks = @ \ {check},
                                 !.found = IF failed THEN @ ELSE @ \union Finds(check)]
    /\ UNCHANGED <<pods, rbac, denies, edits>>

ChecksDone ==
    /\ scan.pc = "check" /\ scan.checks = {}
    /\ scan' = [scan EXCEPT !.pc = IF scan.found # {} THEN "patch" ELSE "done"]
    /\ UNCHANGED <<pods, rbac, denies, edits, apiErrors>>

-----------------------------------------------------------------------------
(* GeneratePatches and ApplyPatches.                                       *)

\* mutant: the critical finding of the capabilities check gets the patch of the other one
HasPatchAnyway(f) ==
    f.check \in {"POD_ROOT_CONTAINER", "POD_RESOURCE_LIMITS", "POD_PRIVILEGED", "POD_PRIVILEGE_ESCALATION",
                 "POD_READONLY_ROOTFS", "POD_SERVICE_ACCOUNT_TOKEN", "POD_CAPABILITIES"}

HasPatch(f) ==
    \/ f.check \in {"POD_ROOT_CONTAINER", "POD_RESOURCE_LIMITS", "POD_PRIVILEGED", "POD_PRIVILEGE_ESCALATION",
                    "POD_READONLY_ROOTFS", "POD_SERVICE_ACCOUNT_TOKEN"}
    \/ f.check = "POD_CAPABILITIES" /\ ~f.critical

Patched(f, traits) ==
    CASE f.check = "POD_ROOT_CONTAINER" -> traits \union {"nonRoot"}
      [] f.check = "POD_RESOURCE_LIMITS" -> traits \union {"limits"}
      [] f.check = "POD_PRIVILEGED" -> traits \ {"privileged"}
      [] f.check = "POD_PRIVILEGE_ESCALATION" -> traits \ {"escalates"}
      [] f.check = "POD_READONLY_ROOTFS" -> traits \ {"writableRoot"}
      [] f.check = "POD_CAPABILITIES" -> traits \union {"dropsAll"}
      [] f.check = "POD_SERVICE_ACCOUNT_TOKEN" -> traits \ {"mountsToken"}

(* The API server never takes the patch of a pod that is gone, one that    *)
(* forbids escalation to a privileged container, or one for an init        *)
(* container, which names it among the others.  Whether it takes any other *)
(* is the server's affair and the program takes its word for it: Kubernetes*)
(* keeps most fields of a pod that runs as they are, so it may well refuse *)
(* them all.                                                               *)
Refused(f) ==
    \/ pods[f.at[1]] = NoPod \/ f.at[2] = "init"
    \/ f.check = "POD_PRIVILEGE_ESCALATION" /\ TraitsAt(f.at) \cap {"privileged", "sysAdmin"} # {}

Patches == IF scan.fix THEN {f \in scan.found : HasPatch(f)} ELSE {}
FirstPatch == CHOOSE f \in Patches : f.check = Foremost({g.check : g \in Patches})

(* In the order of the findings; a patch that fails does not stop the rest. *)
ApplyPatch ==
    /\ scan.pc = "patch" /\ Patches # {}
    /\ LET f == FirstPatch IN
       \/ /\ ~Refused(f)
          /\ pods' = [pods EXCEPT ![f.at[1]][f.at[2]] = Patched(f, TraitsAt(f.at))]
          /\ scan' = [scan EXCEPT !.found = @ \ {f}, !.applied = @ \union {f}]
       \/ /\ scan' = [scan EXCEPT !.found = @ \ {f}]
          /\ UNCHANGED pods
    /\ UNCHANGED <<rbac, denies, edits, apiErrors>>

PatchesDone ==
    /\ scan.pc = "patch" /\ Patches = {}
    /\ scan' = [scan EXCEPT !.pc = "done", !.found = {}]
    /\ UNCHANGED <<pods, rbac, denies, edits, apiErrors>>

(* The owner replaces or deletes a pod.                                    *)
EditPod(p, spec) ==
    /\ scan.pc \in {"polaris", "opa", "check", "patch"} /\ edits < MaxEdits /\ spec # pods[p]
    /\ pods' = [pods EXCEPT ![p] = spec]
    /\ edits' = edits + 1
    /\ scan' = [scan EXCEPT !.edited = @ \union {p}]
    /\ UNCHANGED <<rbac, denies, apiErrors>>

SentinelNext ==
    \/ \E profile \in Profiles, fix \in BOOLEAN : StartScan(profile, fix)
    \/ RunPolaris \/ RunOPA \/ RunCheck \/ ChecksDone \/ ApplyPatch \/ PatchesDone
    \/ \E p \in Pods, spec \in PodSpecs \union {NoPod} : EditPod(p, spec)

SentinelSpec == SentinelInit /\ [][SentinelNext]_sentinelVars

-----------------------------------------------------------------------------
(* GeneratePatches against the checks: what --fix has patched, a new scan  *)
(* no longer finds, whatever patches came after it; unless its pod has     *)
(* been replaced.  Not a container that asks for user 0: runAsNonRoot does *)
(* not change that, and the patch is reported as applied all the same.     *)
FixedFindingsGone ==
    \A f \in scan.applied :
        \/ f.at[1] \in scan.edited
        \/ f.check = "POD_ROOT_CONTAINER" /\ f.critical
        \/ f \notin Finds(f.check)
=============================================================================
