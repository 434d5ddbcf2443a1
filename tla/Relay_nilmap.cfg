CONSTANTS
  Clients = {c1, c2}
  Names <- MCNames
  Passwords <- MCPasswords
  NoPassword <- NoText
  n1 = n1
  n2 = n2
  p1 = p1
  Letters <- MCLetters
  PasswordMark = PasswordMark
  JoinKeys <- OneKey
  None = None
  MayLose = {}
  IdSpace = 8
SPECIFICATION Spec
INVARIANT NoCrash
