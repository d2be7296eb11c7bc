\* One session.
SPECIFICATION Spec
CONSTANTS
    Sessions = {s1}
    Discoveries = {}
    Fds <- TwoFds
    Nobody = Nobody
INVARIANTS SuccessIsConnected
