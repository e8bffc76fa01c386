CONSTANTS
    c1 = c1
    c2 = c2
    c3 = c3
    Callers = {c1, c2, c3}
    Providers = {"mock", "ollama", "groq", "openai"}
    Unknown = Unknown
    Unset = Unset
    None = None
    Configurations <- AllSettings
    Serialized = TRUE
SPECIFICATION EnvSpec
INVARIANTS MockIsOffline NothingInvented
