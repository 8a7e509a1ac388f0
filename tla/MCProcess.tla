----------------------------- MODULE MCProcess -----------------------------
\* Flags of both commands, drivers that are and are not supported, each listener
\* with and without a plugin, and callers each plugin knows, does not know, or
\* knows without an organisation.
EXTENDS Process

CONSTANTS mine, theirs, jwt, trust

MCConfigs == [
    command : {"server", "remote-feed"}, scheme : {"psql", "badger", "bigtable", "other"},
    manifest_path : BOOLEAN, common_auth_plugin : {Unset, jwt}, organization_id : {Unset, mine},
    internal_addr : BOOLEAN, internal_auth_plugin : {Unset, trust}]

MCCallers == {
    [p \in Plugins |-> mine], [p \in Plugins |-> Unknown],
    [p \in Plugins |-> IF p = jwt THEN theirs ELSE Unset]}
=============================================================================
