SPECIFICATION Spec
CONSTANTS
  Calls = {c1, c2}
  Mixes <- AllMixes
  Subjects = {"u"}
  Emails = {"e1", "e2"}
  EmailsOf <- AllEmails
  Centrals = {"g1", "g2"}
  Owner <- OneSubject
  IdleLimit = 3
  Absolute = 5
  TouchEvery = 1
  Retention = 2
  TokenLife = 1
  Span = 1
  MaxVersion = 2
SYMMETRY AnyOrder
INVARIANTS LogoutFinal ReplayHarmless SessionsEnabled LatestAccess
