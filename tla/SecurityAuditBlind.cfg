SPECIFICATION Spec
CONSTANTS
    Contents <- MCContents
    Generations <- MCGenerations
    NotText = {"7"}
    Logs <- MCLogs
    Limits = {1, 2}
INVARIANT SilentOnlyWithoutMenu
