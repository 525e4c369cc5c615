SPECIFICATION Spec
CONSTANTS
  Slots <- AndTheNinth
  Areas = {a1}
  NoArea = NoArea
  VoteBits = 8
INVARIANTS
  TypeOK
  CalmUnanimityTravels
PROPERTY
  CalmVoteIsUnanimous
VIEW
  ButTheNotice
