SPECIFICATION Spec
CONSTANTS
  Workers = {w1, w2}
  Updates = {topic, text}
  Topics = {topic}
  Users = {alice, bob}
  NoUser = NoUser
  Chunks = 1
  MaxChats = 1
  MaxDeliveries = 1
  MaxDisturbances = 2
INVARIANTS FailureIsAnnounced
CHECK_DEADLOCK FALSE
