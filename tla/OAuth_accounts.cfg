SPECIFICATION Spec
CONSTANTS
  google = google
  microsoft = microsoft
  alice = alice
  bob = bob
  a = a
  b = b
  s = s
  w = w
  Flows = {f1, f2}
  Providers = {google, microsoft}
  Configured = {google, microsoft}
  Subjects = {alice, bob}
  subject_provider <- MCprovider
  subject_email <- MCemail
  subject_slug <- MCslug
  Emails = {a, b}
  Slugs = {s, w}
  Requests = {r1, r2}
  None = none
INVARIANT NewUsersHaveAccounts
