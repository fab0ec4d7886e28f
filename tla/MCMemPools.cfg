SPECIFICATION MCSpec
CONSTANTS
    t1 = t1
    t2 = t2
    t3 = t3
    a1 = a1
    a2 = a2
    NoAddress = NoAddress
    None = None
    Txs = {t1, t2, t3}
    Addresses = {a1, a2}
    Readers = {r1}
    Sender <- MCSender
    To <- MCTo
    MaxSets = 5
    d = d
    k = k
    s = s
    p = p
    c1 = c1
    NoTx = NoTx
    ContractTxs = {d, k, s, p}
    Contracts = {c1}
    Kind <- MCKind
    Target <- MCTarget
    QueueSize = 2
    MaxEvents = 4
INVARIANTS
    IndexesAreSound
    ReadersSeeThePool
    ContractListsAreSound
PROPERTIES
    EveryQueuedTxIsListed
CHECK_DEADLOCK FALSE
