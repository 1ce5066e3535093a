SPECIFICATION Spec
CONSTANTS
    None = None
    Systemd = systemd
    Daemons = {d1, d2, d3}
INVARIANTS
    TypeOK
    SomebodyAnswers
    UndisturbedStartsServe
    SystemdKeepsItsPath
