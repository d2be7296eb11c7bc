\* A session and a discovery that share three descriptors.
SPECIFICATION FairSpec
CONSTANTS
    Sessions = {s1}
    Discoveries = {d1}
    Fds <- ThreeFds
    Nobody = Nobody
INVARIANTS SuccessIsUsable
PROPERTIES ForeignCloseByStray LateFailureCloses ConnectReturns
