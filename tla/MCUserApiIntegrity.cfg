\* The instance of MCUserApi.cfg: what a peer sends is stored as a copy.
SPECIFICATION Spec
CONSTANTS
  c1 = c1
  c2 = c2
  alice = alice
  bob = bob
  b1 = b1
  b2 = b2
  x1 = x1
  pw1 = pw1
  pw2 = pw2
  NoName = NoName
  NoPassword = NoPassword
  NoBlob = NoBlob
  Clients <- MCClients
  Names <- MCNames
  Passwords <- MCPasswords
  Blobs <- MCBlobs
  Copies <- MCCopies
INVARIANT
  StoredIsIntact
