SPECIFICATION Spec
CONSTANTS
  Workers = {w1, w2}
  Updates = {topic, text}
  Topics = {topic}
  Users = {alice, bob}
  NoUser = NoUser
  Chunks = 2
  MaxChats = 3
  MaxDeliveries = 2
  MaxDisturbances = 2
INVARIANTS TypeOK OwnChatsOnly AnswerUnderQuestion StoredBeforeSent NoFreeDuplicates ClaimsAreHeld
PROPERTIES ClaimsAreReturned
CHECK_DEADLOCK FALSE
