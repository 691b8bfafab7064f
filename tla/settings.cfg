SPECIFICATION Spec
CONSTANTS
    Clients = {1, 2}
    Params = {"rate", "pause_context", "spelling"}
    Names = {"reader", "editor", "invalid"}
    Modules = {"espeak", "festival"}
    Languages = {"en", "cs"}
    Voices = {"v1"}
    Default = "espeak"
    NULL = "none"
    Wrap = 16
    MaxCommands = 4
    language_default_modules <- MCLanguageModules
    client_specific_settings <- MCClientSettings
INVARIANTS VoiceFits BlockIsUniform
CHECK_DEADLOCK FALSE
