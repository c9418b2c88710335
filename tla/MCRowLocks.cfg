SPECIFICATION Spec
CONSTANTS
    c1 = c1
    c2 = c2
    c3 = c3
    r1 = r1
    r2 = r2
    n1 = n1
    o1 = o1
    o2 = o2
    Commands = {c1, c2, c3}
    Rules = {r1, r2}
    Notes = {n1}
    RuleOf <- MCRuleOf
    Observations = {o1, o2}
    Coordinator = Coordinator
    User = User
SYMMETRY Symmetry
INVARIANTS TypeOK TanglesNeedDelivery TanglesNeedDeletion
