SPECIFICATION Spec
CONSTANTS
    api = api
    k8s = k8s
    ip = ip
    web = web
    Absent = Absent
    Malformed = Malformed
    Hosts <- AllHosts
    IpHosts <- Addresses
    Methods <- Verbs
    Paths <- SomePaths
    Names <- SomeNames
    Auth <- AuthRules
    AgentDefaults <- AgentRules
    GenericDefaults <- GenericRules
    Inputs <- StartUps
INVARIANT TypeOK
INVARIANT LayersDecide
INVARIANT CredentialsNotShadowed
INVARIANT KubeHostsServed
INVARIANT OnlyWrittenCommandsRun
CHECK_DEADLOCK FALSE
