CONSTANTS
    MaxHex = 300
    SepValues = {0, 7, 42, 999, 1000, 4321, 12345, 654321, 1234567, 10000000}
    MaxPrec = 1200
    MaxScale = 4
    NbspChars = {"C2", "A0", "b"}
    CmdChars = {"/", "^", ":", "e", "a"}
    MaxText = 5
    ValueChars = {"C2", "A0", "b", "|"}
INIT Init
NEXT Next
INVARIANT HexLiteralReadBack
INVARIANT IntSepMatchesGrouping
INVARIANT AutoPrecisionMatches
INVARIANT SetValuesParsed
INVARIANT CommandRightByLastSegment
INVARIANT FieldConfigRoundTrip
INVARIANT ParseFollowsRedefinitionRule
INVARIANT GridViewWindow
INVARIANT LayoutRoundTrip
INVARIANT TimeStampConversions
INVARIANT DecimalCellConversions
INVARIANT I084SnapshotsFollowEntries
