CONSTANTS
    t1 = t1  t2 = t2  NoTask = NoTask
    n1 = n1
    default = default  odd = odd
    cmd = cmd  tool = tool
    quiet = quiet  broken = broken
    Tasks = {t1, t2}
    Names = {n1}
    Policies = {default, odd}
    DefaultPolicy = default
    Rendered <- AfterQuoting
    Commands = {cmd, tool}
    Alerts = {quiet, broken}
    BadPolicies = {}
    BadAlerts = {broken}
    Ops = {"create", "delete", "register", "policy", "alerts", "reload"}
SPECIFICATION StoreSpec
INVARIANTS
    SerialSavesMatch
SYMMETRY Symmetry
