\* A reply of each size, a command of three packets and one with a loop of its own;
\* the sockets hold less than the larger replies.
CONSTANTS
    Commands = {"ls", "get_settings", "upload", "download", "login"}
    InfoSize = 6
    ListSize = 7
    ChunkSizes = {7}
    MaxChunks = 2
    Capacity = 5
    MaxCommands = 2
SPECIFICATION Spec
INVARIANTS TypeOK ShownIsOwn
PROPERTY PromptReturns
