SPECIFICATION Spec
CHECK_DEADLOCK FALSE
INVARIANT TypeOK
INVARIANT LineageIsSound
INVARIANT EvidenceIsPlayed
INVARIANT CalibrationIsSound
INVARIANT MeasuresItsOwn
INVARIANT DecisionsAreSound
INVARIANT SelfPlayIsSound
INVARIANT ValidIsClean
INVARIANT AdaptationIsSound
INVARIANT GamesAreSound
INVARIANT ReplayIsSound
INVARIANT JobIsSound
INVARIANT ServingIsSound
PROPERTY ClearsOnlyDeadOutput
PROPERTY ComesToAnEnd
