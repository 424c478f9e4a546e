\* East of Greenwich the month's first hours are not in it.
SPECIFICATION Spec
CONSTANTS
    Emergencies = {e1, e2}
    Responses = {r1}
    Names = {fire, medical}
    NoName = NoName
    NoDate = NoDate
    ManualPoints = {2}
    MaxManual = 1
    Instants <- EastInstants
    MonthStarts <- EastMonths
    YearStarts <- EastYears
    UtcOffset <- EastOffset
INVARIANT SortedByCurrentMonth
