SPECIFICATION Spec
CONSTANTS
  Games = {POPS}
  Ember = {EMBER}
  Common = COMMON
  Apps = {OPL}
  NoPart = NoPart
  Faulty = {POPS, EMBER, COMMON, OPL}
INVARIANTS BootSlotIsBoots RecordNeverLies GameMountsReleased
