\* Every part alone, two processes of each where processes can meet (one operator for the sealed keys).
SPECIFICATION Spec
CONSTANTS
    Clis = {p, q}
    PluginFiles = {"fa"}
    Places <- MCPlaces
    Builds <- MCBuilds
    PluginName <- MCPluginName
    Hooks <- MCHooks
    Natives = {"atlas"}
    NativeFile <- MCNativeFile
    PartialFile = PartialFile
    NoFile = NoFile
    MaxCommands = 3
    UkiFiles = {d1, d2}
    UkiTexts = {t1, t2}
    NoText = NoText
    Callers = {c1, c2}
    Threshold = 2
    Cooldown = 2
    MaxElapsed = 4
    MaxFailures = 3
    Pods = {"web"}
    PodSpecs <- MCPodSpecs
    Grants <- MCGrants
    Profiles <- MCProfiles
    MaxEdits = 1
    MaxApiErrors = 1
    Chats = {b1, b2}
    ToolNames = {"get"}
    MaxTurns = 2
    MaxHistory = 1
    MaxLosses = 1
    HomeProcs = {h1, h2}
    HomeKinds = {"audit", "telemetry", "credentials"}
    MaxLines = 2
    MaxEvents = 5
    CredentialKeys = {k1, k2}
    Secrets = {s1}
    NoSecret = NoSecret
    Passphrases = {"pa", "pb"}
    MaxSaves = 3
    Upgraders = {u1, u2}
    MaxInodes = 4
    RepoSecrets = {n1}
    MaxKeys = 3
    Hosts = {"laptop", "server"}
    Paths = {"keys.yaml", "./keys.yaml"}
    EnvNames = {"prod", "qa"}
    NoEnv = "-"
    InitialEnvs = {"prod"}
    KubeContextOf <- MCKubeContextOf
    EnvShells = {e1, e2}
    ProjectFiles <- MCProjectFiles
    FileName <- MCFileName
    FileDir <- MCFileDir
    InTemplates = {"tmpl"}
    ContentsOf <- MCContentsOf
    Words <- MCWords
    TemplateNames = {"{{"}
    Prefixes <- MCPrefixes
    CustomRules <- MCCustomRules
    RootSegments <- MCRootSegments
    Ignores = {"vendor"}
    Layouts <- MCLayouts
    MaxProjectEdits = 1
INVARIANTS
    TypeOK
    RunsWhatWasTrusted
    NoTextTwice
    FixedFindingsGone
    AnswersFollowQuestions
    HomeFilesKept
    AlwaysRecoverable
    EnvironmentsHold
    LastBackupRestores
    DiagramsAgree
PROPERTIES
    LoneInstallRuns
    CompleteRunAgrees
    KeepsBreakerPromise
    GivesUpOnlyOnFailures
CHECK_DEADLOCK FALSE
