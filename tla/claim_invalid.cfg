\* A second touch before an alert appears lets an alert outlive its type.
SPECIFICATION AppSpec
CONSTANTS
    Emergencies = {e1, e2}
    Responses = {r1}
    Names = {fire, medical}
    NoName = NoName
    NoDate = NoDate
    NoResponse = NoResponse
    NoType = NoType
    ManualPoints = {1}
    MaxManual = 1
    TouchWindow = TRUE
    MaxQueue = 2
    Instants <- OneInstant
    MonthStarts <- FlatMonths
    YearStarts <- FlatYears
    UtcOffset <- NoOffset
SYMMETRY Symmetric
INVARIANT NoInvalidAccess
