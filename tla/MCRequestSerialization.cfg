\* Every mix of three requests: safety, the promise with its liveness, and
\* reads that join reads that may hang.
SPECIFICATION MCSpec
CONSTANTS
    Requests = {r1, r2, r3}
    Conns = {c1}
    Scopes <- MixedScopes
    NoKey = NoKey
    NoGate = NoGate
INVARIANTS
    TypeOK
    NoOvertaking
    OneDrainTask
    DrainedMeansIdle
PROPERTIES
    ImplementsPromise
    ReadsJoin
