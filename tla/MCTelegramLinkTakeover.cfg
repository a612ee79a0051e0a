SPECIFICATION Spec
CONSTANTS
  Workers = {w1, w2}
  Senders = {ann}
  Accounts = {red, blue}
  Codes = {c1, c2}
  NoAccount = NoAccount
  MaxInterventions = 0
PROPERTIES SenderKeepsAccount
