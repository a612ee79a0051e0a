SPECIFICATION Spec
CONSTANTS
  Workers = {w1, w2}
  Senders = {ann, joe}
  Accounts = {red, blue}
  Codes = {c1}
  NoAccount = NoAccount
  MaxInterventions = 2
SYMMETRY Symmetry
INVARIANTS TypeOK OneLinkPerCode CompanyByAdmin OperatorByAdmin DeletedForGood
PROPERTIES LinkGivesWhatWasOffered
