\* Alerts appear before the next touch: the screens never show or use what is
\* gone, and what must eventually happen does.
SPECIFICATION AppSpec
CONSTANTS
    Emergencies = {e1, e2}
    Responses = {r1, r2}
    Names = {fire, medical}
    NoName = NoName
    NoDate = NoDate
    NoResponse = NoResponse
    NoType = NoType
    ManualPoints = {1}
    MaxManual = 1
    TouchWindow = FALSE
    MaxQueue = 2
    Instants <- OneInstant
    MonthStarts <- FlatMonths
    YearStarts <- FlatYears
    UtcOffset <- NoOffset
INVARIANTS ScreensTypeOK ListFresh ScreensShowLive NoInvalidAccess
PROPERTIES GoneTypesLeaveList MessagesAppear
