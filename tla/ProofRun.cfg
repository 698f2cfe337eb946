CONSTANTS
  Callers = {c1, c2}
  Dispositions = {passed, failed}
  None = None
  MaxForeign = 2
SPECIFICATION Spec
INVARIANTS LaunchedAtMostOnce AnswersAreTheLaunch CompletionIsStored
