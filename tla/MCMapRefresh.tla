----------------------------- MODULE MCMapRefresh -----------------------------
EXTENDS MapRefresh

MCPlace == {<<"u1", 1, 1>>, <<"u1", 2, 2>>, <<"u2", 1, 1>>, <<"u3", 1, 2>>}

\* One referent two extractors see, or two referents of one digest.
MCFound ==
    {[p \in MCPlace |-> IF p \in S THEN 1 ELSE 0] :
        S \in {{p \in MCPlace : p[1] = "u1"}, {p \in MCPlace : p[2] = 1 /\ p[3] = 1}}}
=============================================================================
