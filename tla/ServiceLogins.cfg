\* Does a login last as long as the configuration says?
CONSTANTS
    NumFiles = 1
    Contents <- MCContents
    MaxBoots = 1
    MaxClients = 0
    Seconds <- MCSeconds
    CodecMaxAge = 1
SPECIFICATION Spec
INVARIANT LoginsLastAsPromised
CHECK_DEADLOCK FALSE
