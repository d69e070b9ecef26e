\* Server and health check, kills, stops and restarts.
SPECIFICATION FairSpec
CONSTANTS
    Word = 16
    Factor <- MCFactor
    Environments <- MCEnvironments
    Latest = 4
    Handlers = {h1, h2}
CHECK_DEADLOCK FALSE
INVARIANTS
    SecretAgrees
    SchemaComplete
    SettingsFaithful
PROPERTIES
    StopsCleanly
    OperatorObeyed
