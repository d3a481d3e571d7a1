\* Every kind of node with parameters of every shape, up to two items; and the
\* texts of up to six lexemes of each family; and three starts of two servers.
SPECIFICATION MCSpec
CONSTANTS
    MaxInput = 2
    Families <- MCFamilies
    MaxDepth = 3
    MaxTokens = 6
    MaxLiteral = 2
    MaxText = 16
    Huge = 99
    Keys = {k1, k2}
    Secrets = {s1, s2}
    CredentialIds = {c1, c2}
    MaxStarts = 3
    MaxWrites = 2
    MaxRefs = 2
SYMMETRY MCSymmetry
INVARIANTS ReadersOfParamsAgree RoutingSound TemplatesSound SecretsKept
PROPERTY SecretsHandled
\* A node that was executed is done, a text that was read too.
CHECK_DEADLOCK FALSE
