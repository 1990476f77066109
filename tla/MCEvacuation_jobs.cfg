\* Three nodes, two copies, two evacuations that may overlap, one fault or clean-up. Chunks come in at a.
CONSTANTS
    self = self
    a = a
    b = b
    c = c
    Nodes = {self, a, b}
    Self = self
    Chunks = {c}
    Target = 2
    Uploaders = {a}
    Cleaners = {self, b}
    MaxJobs = 2
    MaxUpsets = 1
    None = None
SPECIFICATION FairSpec
INVARIANTS
    TypeOK
    OneEvacuation
    SafeIsTrue
PROPERTIES
    CopiesRecounted
    JobLifeSpec
CHECK_DEADLOCK FALSE
