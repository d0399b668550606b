SPECIFICATION Spec
CONSTANTS
    NoRow = NoRow
    owner = owner
    first = first
    second = second
    address = address
    r1 = r1
    r2 = r2
    c1 = c1
    v1 = v1
    v2 = v2
    Users = {owner, first}
    Mailbox <- MailboxOf
    Founders = {owner, first}
    Seeded = {}
    Collections = {}
    Invitations = {}
    Requests = {r1, r2}
    AskedRoles = {"admin", "member"}
    AskedStatuses = {"active", "revoked"}
    MaxRequests = 3
    MaxVersion = 2
    MaxGrantRows = 2
    MaxAttempts = 2
SYMMETRY Interchangeable
CHECK_DEADLOCK FALSE
INVARIANT AnOwnerRemains
