SPECIFICATION Spec
CONSTANTS
    Databases = {"finance_dev", "finance_prod"}
    Production = "finance_prod"
    Engines = {"database_url", "agent_database_url", "observer_database_url"}
    EnvFiles <- MCEnvFiles
    Ambients <- MCAmbients
    Targets = {0, 2, 7}
INVARIANTS CatalogFollowsRevision HeadIsUsable LeastPrivilege SessionFollowsSettings
PROPERTY ProductionNeedsOptIn
