SPECIFICATION Spec
CONSTANTS
    SparseMax = 2
    PrefixMax = 2
    Addrs = {1, 2, 3}
    NoPipe = NoPipe
    Nets <- MCNets
    EmptyTrie <- NullNode
    AddString <- TrieSubscribe
    RemoveString <- TrieUnsubscribe
    Matches <- TrieMatch
    Worn <- HasLost
INVARIANTS NoAbort RefsAreHolders TrieIsSubscriptions GoesToOne NoEcho
CHECK_DEADLOCK FALSE
