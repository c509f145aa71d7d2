CONSTANTS
    Owner = Owner
    Users = {Owner}
    h1 = h1
    h2 = h2
    h3 = h3
    k1 = k1
    k2 = k2
    HandleIds <- MCHandleIds
    HashCodes = {k1, k2}
    Hash <- MCHash
    Objects = {a, b}
    Global = Global
    MaxStray = 1
    None = None
SPECIFICATION Spec
INVARIANT NoHandleLeaks
