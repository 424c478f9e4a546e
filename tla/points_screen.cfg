\* The points screen changes its numbers in place; they stay the store's.
SPECIFICATION ScreenSpec
CONSTANTS
    Emergencies = {e1}
    Responses = {r1}
    Names = {fire}
    NoName = NoName
    NoDate = NoDate
    ManualPoints = {2}
    MaxManual = 1
    Instants <- EastInstants
    MonthStarts <- EastMonths
    YearStarts <- EastYears
    UtcOffset <- EastOffset
INVARIANTS ScreenTypeOK ShownIsStored LabelFresh
