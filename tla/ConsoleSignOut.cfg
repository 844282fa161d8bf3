CONSTANTS
  Calls = {1, 2, 3, 4, 5}
  Handlers = {1, 2, 3, 4}
  Subjects = {s1, s2}
  s1 = s1
  s2 = s2
  other = other
  google = google
  ProviderOf <- MCProviderOf
  Mails = {SeededMail, other}
  Profiles <- MCProfiles
  Orgs = {o1, o2, o3}
  HomeOrg = o1
  Memberships = {o1, o2}
  SeededUser = SeededUser
  SeededMail = SeededMail
  NoToken = NoToken
  DemoToken = DemoToken
  NoUser = NoUser
  NoMail = NoMail
  NoAddress = NoAddress
  NoOrg = NoOrg
  NoSubject = NoSubject
  NoCall = NoCall
  NoPage = NoPage
  MaxSignIns = 2
  MaxFaults = 0
SPECIFICATION Spec
INVARIANT LogoutRestoresSignIn
CHECK_DEADLOCK FALSE
