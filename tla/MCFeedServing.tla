---------------------------- MODULE MCFeedServing ----------------------------
(* Two clients with a role each, and one reader.                             *)
EXTENDS FeedServing, TLC

CONSTANTS c1, c2, k1, k2, v1, v2

MCKeys == {k1, k2}
One == {c1}
Other == {c2}

\* The first batch keeps what is there, the second one replaces it.
MCBatches == {
    [entries |-> k1 :> v1 @@ k2 :> v1, if_not_exist |-> TRUE],
    [entries |-> k1 :> v2, if_not_exist |-> FALSE]}

Ask(method, n, omitDeleted, keys) ==
    [method |-> method, block_number |-> n, omit_deleted |-> omitDeleted, keys |-> keys]

MCRequests == {
    Ask("Get", 1, FALSE, <<k2, k1>>), Ask("GetFirst", 0, FALSE, <<k1>>),
    Ask("LegacyGet", 1, TRUE, <<k1>>), Ask("LegacyGetAll", 0, FALSE, <<k2, k1>>)}
=============================================================================
