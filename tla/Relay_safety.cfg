CONSTANTS
  Clients = {c1, c2, c3}
  Names <- MCNames
  Passwords <- MCPasswords
  NoPassword <- NoText
  n1 = n1
  n2 = n2
  p1 = p1
  Letters <- MCLetters
  PasswordMark = PasswordMark
  JoinKeys <- AllKinds
  None = None
  MayLose = {}
  IdSpace = 8
SYMMETRY Symmetry
SPECIFICATION Spec
INVARIANTS
  RosterMatchesPointers
  MembersAreRegistered
  AloneNoticeIsTrue
  NoLeakedChannel
  SoleChannelIsListed
  AuthorizedGavePassword
PROPERTY
  IsRoom
