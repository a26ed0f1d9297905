SPECIFICATION Spec
CONSTANTS
    a = a
    b = b
    k1 = k1
    k2 = k2
    Symbols = {a, b}
    Shards = {k1, k2}
    ShardOf <- MCShardOf
    QueueSize = 1
    MaxTrades <- MCMaxTrades
    NoTick = NoTick
    Faults = {"late", "stream", "fail"}
INVARIANTS FeedInv 
PROPERTIES KeepsTickLine FeedDrains
