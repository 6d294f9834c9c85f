SPECIFICATION AuthSpec
CONSTANTS
  Clients = {c1, c2}
  MaxAccounts = 2
  MaxTokens = 3
CHECK_DEADLOCK FALSE
INVARIANTS
  StateFileConsistent
  AuthFailureIsExplained
PROPERTY RegistrationSticks
