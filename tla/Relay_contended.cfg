CONSTANTS
  Clients = {c1, c2, c3}
  c1 = c1
  c2 = c2
  Names <- MCNames
  Passwords <- MCPasswords
  NoPassword <- NoText
  n1 = n1
  n2 = n2
  p1 = p1
  Letters <- MCLetters
  PasswordMark = PasswordMark
  JoinKeys <- OneKey
  None = None
  MayLose = {c2, c3}
  IdSpace = 3
SPECIFICATION WarmSpec
INVARIANTS
  TypeOK
  ViewsAgree
PROPERTIES
  NobodyDisplaced
  CancelledIsRemoved
  JoinCompletes
