SPECIFICATION Spec
CONSTANTS
  Workers = {w1}
  Senders = {ann}
  Accounts = {red, blue}
  Codes = {c1}
  NoAccount = NoAccount
  MaxInterventions = 2
PROPERTIES NeverSelfGranted
