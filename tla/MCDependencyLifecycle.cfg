CONSTANTS
    Processes = {m, c1, c2}
    Master = m
    NoProcess = NoProcess
    Dependencies = {openssl, libressl, cares, zstd}
    TlsProviders = {openssl, libressl}
    Capacity = 2
    MaxEpoch = 2
SPECIFICATION Spec
INVARIANTS HooksInTurn PhaseMatchesLibraries
PROPERTY RolesSeparate
CHECK_DEADLOCK FALSE
