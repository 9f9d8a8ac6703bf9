\* Two processes killed anywhere, two directories, an upgrade.
CONSTANTS
    Versions = {0, 1}
    MaxRows = 3
    MaxCrashes = 2
SPECIFICATION FairSpec
INVARIANTS TypeOK OneOfEach SetupCompletes StatementsUsable
PROPERTIES Installed
