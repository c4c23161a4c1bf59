--------------------------- MODULE MCModuleLoader ---------------------------
(* The instance of ModuleLoader for TLC.                                     *)
EXTENDS ModuleLoader, TLC

CONSTANTS a, b, c, Missing

Stmt(m, caught) == [name |-> m, caught |-> caught]

One(names) == {<<>>} \cup {<<Stmt(m, FALSE)>> : m \in names}
Two ==
    {<<>>} \cup {<<Stmt(m, k)>> : m \in Module, k \in BOOLEAN}
           \cup {<<Stmt(m, k), Stmt(n, FALSE)>> : m \in {b, c, Missing}, n \in {b, c}, k \in BOOLEAN}

\* One module with up to two imports, the first caught or not, itself among those it imports;
\* one that leads to the last, which may close a cycle.
Mixed == {p \in [Module -> Two] :
    /\ p[b] \in One({c})
    /\ p[c] \in One({a})
    /\ p[Missing] = <<>>}
=============================================================================
