SPECIFICATION FairSpec
CONSTANTS
  Codes = {c1, c2}
  Names = {a, b}
  Hosts = {h, long}
  LongHosts = {long}
  DefaultHost = default
  Spent = Spent
  None = None
  MaxCommands = 3
  MaxReboots = 1
  MaxFaults = 2
INVARIANTS
  
  RegisteredIsBacked
  CredentialsPaired
  CredentialsStayHome
  CodeSentOnce
PROPERTIES
  RegistrationKept
  CodeActedOn
