SPECIFICATION MetricsSpec
CONSTANTS
    Requests = {r1, r2, r3}
    Latencies = {1, 2}
    NoSample = NoSample
SYMMETRY Symmetry
INVARIANTS
    MetricsTypeOK
    BalancedAtRest
    SnapshotCoversItsSamples
    QuietSnapshotIsExact
    ProfileIsByRank
