------------------------- MODULE MCTimeTravelKeys -------------------------
\* Bytes of three values, block numbers of two bytes: a key, a key that extends
\* it, one that extends both, and a key apart from them.
EXTENDS TimeTravelKeys

CONSTANTS v1, v2

MCNames == {<<0>>, <<0, 1>>, <<0, 1, 0>>, <<1>>}

One(key, val) == <<[key |-> key, val |-> val]>>

\* A single entry, a key named twice, a key beside one that extends it.
MCBatches ==
    {One(key, val) : key \in {<<0>>, <<0, 1>>}, val \in Values}
        \cup {One(<<0, 1, 0>>, v1), One(<<1>>, v2)}
        \cup {One(<<0>>, v1) \o One(<<0>>, v2),
              One(<<0, 1>>, v1) \o One(<<0>>, v2),
              One(<<1>>, v2) \o One(<<0, 1, 0>>, v1)}
=============================================================================
