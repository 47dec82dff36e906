SPECIFICATION Spec
CONSTANTS
    Tasks = {t1, t2}
    Initial = {}
    Workers = {w1, w2}
    Targets = {"todo", "done"}
    MaxRequests = 3
    MaxDialogs = 2
    NoTask = NoTask
    NoWorker = NoWorker
SYMMETRY BoardSymmetry
INVARIANTS
    BoardInv
    SettledBoardAgrees
    CompletedMatchesStatus
    OneTaskPerOpening
    ConfirmedIsMade
