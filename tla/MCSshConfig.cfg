SPECIFICATION ParserSpec
CONSTANTS
    Lines <- MCLines
    Wildcards <- MCWildcards
    Number <- MCNumber
    Expanded <- MCExpanded
    MaxLines = 4
    Nothing = Nothing
CHECK_DEADLOCK FALSE
INVARIANTS
    ParserTypeOK
    HostsMeetText
    LinesAccountedFor
