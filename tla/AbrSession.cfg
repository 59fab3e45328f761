SPECIFICATION FairSpec
CONSTANTS
    Alpha = 3
    Lists <- MCLists
    Measurements <- MCMeasurements
INVARIANTS
    TypeOK
    IndexInRange
    Affordable
PROPERTIES
    NoAccordion
    Converges
