SPECIFICATION SettingsSpec
CONSTANTS
  Versions = {v1, v2}
  Absent = Absent
  Torn = Torn
  MaxMishaps = 3
  Kinds = {"mass", "direct", "hdd", "none"}
  Default = v1
  Nothing = Nothing
INVARIANTS SavesAnswerTruly ACopySurvives BootReadsTheLastSave
