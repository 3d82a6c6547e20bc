----------------------------- MODULE MCWorkspace -----------------------------
EXTENDS Workspace

CONSTANTS e1, e2, s1, s2, c1, c2

A == [id |-> s1, endpoint |-> e1, cred |-> c1]
MCSiteLists == {{}, {A}, {[A EXCEPT !.endpoint = e2, !.cred = c2]},
                {A, [id |-> s2, endpoint |-> e2, cred |-> c2]}}

Empty == [x \in {} |-> None]
MCConfigurations ==
    {[sites |-> {A}, history |-> <<>>, dirs |-> Empty, tabs |-> Empty, pending |-> {}],
     [sites |-> {}, history |-> <<e1, e2>>, dirs |-> [x \in {e1} |-> e1], tabs |-> Empty, pending |-> {}]}
=============================================================================
