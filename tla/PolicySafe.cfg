SPECIFICATION Spec
CONSTANTS
  MaxPriority = 100
  Inputs <- MCInputs
  None = none
  MaxCounter = 7
  MaxToken = 3
INVARIANTS TypeOK ReadersAgree CountersExact OneReading SettingsSurviveRestart EnvIsObeyed
PROPERTIES FailureNeverHeals JudgedInForce UpdateIsExact
