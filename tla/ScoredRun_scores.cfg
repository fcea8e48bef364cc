\* Runs of up to three rows in every style, resumed after a change of configuration,
\* environment or version.
CONSTANTS
    Sources <- SomeSources
    Envs <- SomeEnvs
    Datasets <- SomeDatasets
    Draws <- SomeDraws
    Latencies <- SomeLatencies
    Responses <- SomeResponses
    ScoreOf <- MCScoreOf
    Strings <- MCStrings
    Fold <- MCFold
    Clean <- MCClean
    NumberOf <- MCNumberOf
    FloatText <- MCFloatText
    LastWords = 2
    ShowsChoices = TRUE
    MaxChanges = 1
    NULL = NULL

SPECIFICATION Spec
INVARIANTS
    GoldenMarksCorrectChoice
    AnswersAreJudgedByTheirLastLabel
    MetricsMatchOutputs
    ResumedRowsAreReused
    ScoresBelongToTheirMetric
    ComparisonBlamesTheRow
    StoredSettingsSurvive
CHECK_DEADLOCK FALSE
