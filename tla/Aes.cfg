SPECIFICATION Spec
CONSTANTS Texts <- AllTexts  Between = 1
INVARIANTS MatchesStandard ScheduleSettles DecryptsToMessage
PROPERTIES StepsUndone
