\* Does an orderly end wait for the running requests?
CONSTANTS
    NumFiles = 0
    Contents <- MCContents
    MaxBoots = 1
    MaxClients = 0
    Seconds <- MCSeconds
    CodecMaxAge = 1
SPECIFICATION Spec
PROPERTY SuccessMeansDrained
CHECK_DEADLOCK FALSE
