\* Nobody has to ask for anything, but everybody always may.
SPECIFICATION OrgSpec
CONSTANTS
  founder = founder
  alice = alice
  r1 = r1
  r2 = r2
  Users = {founder, alice}
  Founder = founder
  Requests = {r1, r2}
  MaxApiKeys = 1
SYMMETRY Symmetry
INVARIANTS
  AdminStays
  NoMemberPending
