SPECIFICATION Spec
INVARIANTS
    TypeOK
    HandlersSeeLiveBce
    TimerSeesMappedRegisters
    RemoveReleasesAll
