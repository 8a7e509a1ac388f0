SPECIFICATION FairSpec
CONSTANTS
    mine = mine
    theirs = theirs
    jwt = jwt
    trust = trust
    Unset = Unset
    Unknown = Unknown
    Plugins = {jwt, trust}
    Organizations = {mine, theirs}
    Configs <- MCConfigs
    Callers <- MCCallers
INVARIANTS TypeOK CallsChecked StatusHonest QuietWhenTerminated
PROPERTY EndsTogether
CHECK_DEADLOCK FALSE
