SPECIFICATION Spec
CONSTANTS
    p1 = p1
    p2 = p2
    Proc = {p1, p2}
    Scenario <- MCScenario
    Content <- MCContent
    Meant <- MCMeant
    Directory <- MCDirectory
    Account <- MCAccount
    Root <- root
    Default <- MCDefault
    Defaults <- MCDefaults
    APPLOCK_BASEDIR <- MCBase
    LineSize = 10
    UserSize = 6
    MaxEnv = 3
    Absent = Absent
    Unreadable = Unreadable
    NULL = NULL
CHECK_DEADLOCK FALSE
INVARIANTS TypeOK VerdictWasPolicy ConfigurationAsWritten AsAsked FormsEquivalent
PROPERTIES KillFinds
