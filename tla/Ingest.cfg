SPECIFICATION Spec
CONSTANTS
    Imports = {i1, i2, i3}
    Exports <- MCExports
    Aliases <- MCAliases
    Rounded <- MCRounded
    None = none
INVARIANTS
    OneRowPerKey
    LinesOfOneImport
    ReportShowsWhatIsLost
PROPERTIES
    ReimportTouchesNothing
CHECK_DEADLOCK FALSE
