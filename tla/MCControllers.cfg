SPECIFICATION SpecAll
CONSTANTS
    MaxTransfers = 2
    MaxTicks = 2
    MaxReinits = 1
PROPERTY OnlyItsReportsAreTold
PROPERTY MenuAnswers
