SPECIFICATION Spec
CONSTANTS
  t1 = t1
  t2 = t2
  btc = btc
  doge = doge
  Tasks = {t1, t2}
  Symbols = {btc, doge}
  Answering = {btc}
  MaxPrice = 3
  MaxAlerts = 2
  Limits = {1, 2}
  Indices = {0, 24, 25, 49, 50, 54, 55, 74, 75, 100}
  Menus <- MCMenus
  Conditions <- MCConditions
  Listings <- MCListings
  Changes <- MCChanges
  Charts <- MCCharts
CHECK_DEADLOCK FALSE
INVARIANTS TypeOK AnswersRestOnData SectionsRestOnData RankingsRight IndicatorsRight TriggeredWasReached
PROPERTIES TasksEnd AlertsSettle
