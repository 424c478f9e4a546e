\* Two types, two responses, manual points, resets, exports, a zone with an
\* offset: what stays consistent and what the totals promise.
SPECIFICATION ExportSpec
CONSTANTS
    Emergencies = {e1, e2}
    Responses = {r1, r2}
    Names = {fire, medical}
    NoName = NoName
    NoDate = NoDate
    NoOwner = NoOwner
    ManualPoints <- Amounts
    MaxManual = 1
    Instants <- EastInstants
    MonthStarts <- EastMonths
    YearStarts <- EastYears
    UtcOffset <- EastOffset
SYMMETRY Symmetric
INVARIANTS TypeOK OpenWrite ResponsesPartitioned OneChangeAhead TotalsAgree MonthWithinYear ExportAgreesWithPoints
PROPERTIES FailedNeverDurable LastReplyTellsOutcome OnlyOwnResponsesLost ClearZeroesPoints LedgerSpec
