\* Integers of 6 bits, shorts of 4, characters of 2, handles of at most 2 bytes;
\* every procedure, with two values for each field.
SPECIFICATION Spec
CONSTANTS
    IntSize = 64
    ShortSize = 16
    CharSize = 4
    HandleMax = 2
    int <- MCint
    u_int <- MCu_int
    u_short <- MCu_short
    char <- MCchar
    u_char <- MCu_char
    bool_t <- MCbool_t
    bytes <- MCbytes
    handle <- MChandle
INVARIANTS AnswerCorrect ServerMemory RestartServes
