\* Avahi: the five service types and the ten entries of the code, three
\* discoveries, two services each.  DNS-SD: two threads with one discovery
\* each, at once or one after the other.
SPECIFICATION MdnsSpec
CONSTANTS
    Types = 5
    Entries = 10
    MaxFound = 2
    MaxCalls = 3
    Callers = {c1, c2}
    BrowseTypes = 2
    MaxDiscoveries = 1
INVARIANTS BrowserTable NothingLeft EachServiceOnce
    RefsAccountedFor FoundOrLost NullCallNeedsOverlap
PROPERTIES MdnsReturns
\* The calls are bounded, and an assertion or a crash ends the program.
CHECK_DEADLOCK FALSE
