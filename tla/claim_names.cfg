\* A rename can repeat another type's name.
SPECIFICATION Spec
CONSTANTS
    Emergencies = {e1, e2}
    Responses = {r1}
    Names = {fire, medical}
    NoName = NoName
    NoDate = NoDate
    ManualPoints = {2}
    MaxManual = 1
    Instants <- FlatInstants
    MonthStarts <- FlatMonths
    YearStarts <- FlatYears
    UtcOffset <- NoOffset
INVARIANT TypeNamesUnique
