CONSTANT OwnTypes <- MCOwnTypes
SPECIFICATION Spec
INVARIANTS RoundTrip UpgradeBlockedOnlyByStaff DowngradeBlockedOnlyByUse DatabaseServesClasses
