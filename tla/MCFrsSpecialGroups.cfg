CONSTANTS
  Groups = {g1}
  Faces = {f1, f2}
  MaxToken = 2
SPECIFICATION Spec
INVARIANTS StaysSpecial RecognisedIsMember
PROPERTIES RevokedTokenDies MemberIsRecognised
