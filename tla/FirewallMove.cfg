SPECIFICATION Spec
CONSTANTS
    Rule <- MCRule
    CommentOf <- MCCommentOf
    ChainOf <- MCChainOf
    InitMenus <- MCInitMenus
    Requests <- MCRequests
    Lossy = TRUE
PROPERTIES
    KeepsTheOthers
    LandsWhereAsked
    Repeatable
