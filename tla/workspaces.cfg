SPECIFICATION WorkspacesSpec
CONSTANTS
    Calls = {r1, r2}
    Contents = {y1, y2, y3}
    MaxInodes = 2
    NoCall = NoCall
    MaxIntegrations = 3
    MaxTroubles = 3
    Bases = {u1, u2}
    Works = {w1}
    Tools = {r1, r2}
    NoTool = NoTool
    MaxDirs = 2
    MaxRounds = 3
SYMMETRY WorkspacesSymmetry
INVARIANTS WorkspacesTypeOK TornBackedUp OutcomeStands OneClonePerLineage TailResumable
PROPERTIES WritesExpected RemovesSavedWork
CHECK_DEADLOCK FALSE
