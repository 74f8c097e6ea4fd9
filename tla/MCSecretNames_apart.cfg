\* Every driver that spells the path its own way, and every two paths it keeps apart.
CONSTANTS
    v1 = v1
    MaxLen = 3
    Kinds = {"gcp", "azure", "doppler", "infisical", "pulumi", "ssm", "trimmed", "raw"}
    Small <- MCSmall
    Capital <- MCCapital
    Prefix <- MCPrefix
    Paths <- MCPaths
    Value = {v1}
    None = None
SPECIFICATION Spec
INVARIANTS OwnValue
