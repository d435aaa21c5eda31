SPECIFICATION Spec
CONSTANTS
    Nil = Nil
    N = 3
    PerVote <- PerVotes
    Round = 0
    ByteBits = 2
    BlockBytes = 5
    MaxPartSize = 2
    Heads <- AllHeads
    Blocks <- AllBlocks
    Leader = 1
    VoteData <- AllVoteData
    MaxEarly = 2
INVARIANTS BlockRebuilt CertificateSound ProofsExact
