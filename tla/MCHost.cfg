\* A text, a link that changes twice by itself, three log lines through a channel
\* and batches of one and two.
CONSTANTS
    Messages = {hello}
    MaxChanges = 2
    QueueSize = 2
    MaxBatch = 1
    MaxLines = 3
    this = this
    other = other
    This = this
    Hosts = {this, other}
    Migrations = 2
    MaxBoots = 3
    Plugins = 2
SPECIFICATION Spec
\* The process ends.
CHECK_DEADLOCK FALSE
INVARIANTS
    MigratedOnce
    OffMeansOff
    UpIsShown
    LinesAccounted
PROPERTIES
    HostExits
    TextsEnd
