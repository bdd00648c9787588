SPECIFICATION FairSpec
CONSTANTS
    old = old
    new = new
    owner = owner
    chat = chat
    first = first
    second = second
    None = None
    MaxAsks = 2
    MaxCancels = 1
    MaxFailures = 1
    Session = {s1, s2, s3}
    Request = {r1, r2}
    Key = {old, new}
    CompactKey = {old}
    Owner = {owner}
    Conv = {chat}
    Turn = {first, second}
    OwnerOf <- MCOwnerOf
    ConvOf <- MCConvOf
    TurnOf <- MCTurnOf
    Instruction <- MCInstruction
    Predecessors <- MCPredecessors
INVARIANT InterruptReaches
INVARIANT FreshTurnsSerialize
PROPERTY StartsAfterPredecessors
PROPERTY AbandonedSurfacesDoNotBlock
 
CHECK_DEADLOCK FALSE
