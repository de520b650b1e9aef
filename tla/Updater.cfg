CONSTANTS
 Processes = {p1, p2}
 MaxVersion = 3
SPECIFICATION RepeatedSpec
INVARIANT ProgramSurvives
INVARIANT OnlyVerifiedInstalled
INVARIANT NeverDowngraded
PROPERTY RetryInstallsLatest
