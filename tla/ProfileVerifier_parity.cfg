SPECIFICATION Spec
CONSTANTS
    Engines = {"london_reversal", "omni_breakout"}
    RiskModels = {"conservative_ramp", "fixed_low", "aggressive_flat", "kelly_criterion", "anti_martingale", "volatility_scaled", "equity_curve"}
    EntryModes = {"blind_limit", "sweep_confirmation", "close_confirmation"}
    PyramidModels = {"no_pyramid", "equal_split", "front_loaded", "inverse_pyramid", "momentum_confirmed", "risk_free_runner", "adaptive_tranche"}
    ExitModels = {"fixed_sl_tp", "fixed_sl_trail", "time_based", "chandelier", "grid"}
    FilterLists = {"none", "known", "unknown", "notlist"}
    Instruments = {"US100.cash", "US30.cash", "US500.cash", "GER40.cash", "UK100.cash", "BTCUSD", "ETHUSD", "EURUSD", "GBPUSD", "XAUUSD", "JPN225.cash", "FRA40.cash", "AUS200.cash", "EU50.cash", "USDJPY", "AUDUSD", "USDCAD", "USDCHF", "NZDUSD", "EURGBP", "EURJPY", "GBPJPY", "XAGUSD", "Unlisted"}
    Stops = {0, 5, 19, 40, 80}
    BaseLots = {0, 25, 100, 1370, 2200}
    LotCaps = {100, 3000}
    RiskCaps = {25, 75, 150}
    DailyCaps = {450, 800}
    Tranches = {1, 3}
    Spellings = {"plain", "float", "text"}
    Streak = 40
    Equities = {9000100, 9493928, 9799999, 9800000, 10200000}
CHECK_DEADLOCK FALSE
INVARIANTS
    ExactParity
