CONSTANTS
    MaxLines = 3
    SizeMax = 25
    MaxUnknown = 1
    MaxKeywordLen = 2
    MaxParamLen = 2
    Lines <- ResponseLines
    MaxSent = 3
    Leftovers <- FreshOrUsed

SPECIFICATION Spec

INVARIANTS
    MatchesGrammar
    CapsMatchReply
    CutIsTold
    SizeAsAnnounced

PROPERTY VerdictStable
