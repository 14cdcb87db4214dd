SPECIFICATION FairSpec
CONSTANTS
  r1 = r1
  Resumes = {r1}
  Period = 3
  CreditControlDelay = 12
  MaxLate = 1
  MaxFailures = 2
INVARIANTS
  TypeOK
  RemindersGoOn
PROPERTIES
  SpacedReminders
  TemplatesEscalate
  KeepsReminding
