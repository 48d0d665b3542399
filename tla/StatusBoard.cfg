SPECIFICATION FairSpec
CONSTANTS
  Components = {"postgresql", "nats"}
  Database = "postgresql"
  Loads = {l1, l2}
  MaxFlaps = 2
  MaxFaults = 1
  None = None
INVARIANTS
  TypeOK
  OneOpenIncident
  QuietMeansBlind
PROPERTY BoardConverges
