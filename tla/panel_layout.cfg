SPECIFICATION Spec
CONSTANTS
    Windows <- TwoWindows
    DragWidths <- SomeWidths
    Themes <- BothThemes
    Tabsets = {"t1"}
    MaxInputs = 5
CHECK_DEADLOCK FALSE
INVARIANTS
    NoDeadZone
    PanelFits
    OneHighlighted
    ThemeFollows
PROPERTIES
    UnfoldRestores
