SPECIFICATION Spec
CONSTANTS
    Tabs = {t1, t2}
    Devices = {d1, d2}
    Passwords = {p1, p2}
    NoPassword = NoPassword
    MaxPairs = 3
    MaxCodes = 2
INVARIANTS TypeOK IdentityHistory PasswordOpensTheKeys
PROPERTIES IdentitySurvivesAChange SpentCodesStaySpent
SYMMETRY Symmetry
CHECK_DEADLOCK FALSE
