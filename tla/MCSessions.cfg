SPECIFICATION Spec
CONSTANTS
  b1 = b1
  r1 = r1  r2 = r2
  t1 = t1  t2 = t2  t3 = t3
  f1 = f1  f2 = f2
  u1 = u1  u2 = u2
  Browsers = {b1}
  Requests = {r1, r2}
  Tokens = {t1, t2, t3}
  Csrf = {f1, f2}
  Users = {u1, u2}
  NoBrowser = NoBrowser
  NoToken = NoToken
  NoCsrf = NoCsrf
  NoUser = NoUser
  Keep = Keep
  Unknown = Unknown
INVARIANTS SessionsIInv SessionCopiesAgree PagesMatchSessions SignInsLast
SYMMETRY Symmetry
