SPECIFICATION Spec
CONSTANTS
    Modules = {"a", "m"}
    MaxDepth = 7
    Bogus = "bogus"
    Idents <- MCIdents
    Trees <- MCTrees
    Prefix <- MCPrefix
    Rank <- MCRank
    Value <- MCValue
    NoModule = NoModule  None = None  Error = Error  Panic = Panic
INVARIANTS NodesFound LookupsAgree ExpandsAgree KeysFilledIn PanicsInKeysOnly DbRoundTrip MemRoundTrip RefsHitTarget RefsLeadBack
CHECK_DEADLOCK FALSE
