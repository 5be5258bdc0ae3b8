SPECIFICATION Spec
CONSTANTS
    u1 = u1
    u2 = u2
    a = a
    b = b
    x = x
    y = y
    Users <- TwoUsers
    Roles = {r1}
    Channels = {c1}
    Commands <- TwoCommands
    Names <- TwoNames
    Absent = Absent
    Versions <- Once
    MaxChanges = 3
    MaxSessions = 1
    MaxRepeats = 1
SYMMETRY Swaps
INVARIANTS DirectoryAgrees MembersAgree MembersComplete CommandsConverge
