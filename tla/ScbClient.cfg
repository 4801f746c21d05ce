SPECIFICATION FairSpec
CONSTANTS
  Users = {u1, u2}
  NoUser = NoUser
  MaxScbs = 3
INVARIANTS TypeOK LastCallWins ConnectedAreKnown DeadAreForgotten
PROPERTIES DeathsAreHandled
CHECK_DEADLOCK FALSE
