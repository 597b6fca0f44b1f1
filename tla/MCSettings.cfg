SPECIFICATION Spec
CONSTANTS
    Default <- MCDefault
    MaxEdits = 2
    MaxMishaps = 2
INVARIANTS StoredSurvives TrustedIsWhole LimitFollowsSettings
PROPERTIES EditAllOrNothing
CHECK_DEADLOCK FALSE
