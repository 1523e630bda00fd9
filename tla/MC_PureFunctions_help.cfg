SPECIFICATION MCSpec
INVARIANT HelpAnswersEveryCommand
