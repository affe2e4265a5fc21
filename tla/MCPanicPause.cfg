SPECIFICATION HSpec
CONSTANTS
    g1 = g1
    Groups = {g1}
    PAUSE_DURATION = 2
    DAILY_RESET_INTERVAL = 7
    MAX_CONSECUTIVE = 2
    MAX_DAILY = 3
    Genesis = 7
    MaxTime = 23
INVARIANTS PauseHorizon GroupPauseHorizon IInv RollingDayCap
PROPERTIES NoSpuriousPause PauseNeverShortens GroupRecovers
CHECK_DEADLOCK FALSE
