SPECIFICATION Spec
CONSTANTS
    c1 = c1
    c2 = c2
    Conn <- MCConn
    u1 = u1
    u2 = u2
    Workloads <- MCWorkloads
    Stream <- MCStream
    MaxEvents = 2
    MaxNonces = 2
    MaxKeys = 2
    Ttl = 0
INVARIANTS
    ProofIsOwn
    RevocationLatency
    OutcomeIsTrue
PROPERTIES
    NotifiesInTheEnd
CHECK_DEADLOCK FALSE
