SPECIFICATION Spec
CONSTANTS
    NoRow = NoRow
    owner = owner
    first = first
    second = second
    address = address
    r1 = r1
    r2 = r2
    c1 = c1
    v1 = v1
    v2 = v2
    Users = {owner, first, second}
    Mailbox <- MailboxOf
    Founders = {owner}
    Seeded = {second}
    Collections = {c1}
    Invitations = {v1, v2}
    Requests = {r1, r2}
    AskedRoles = {"admin", "member"}
    AskedStatuses = {"active", "revoked"}
    MaxRequests = 3
    MaxVersion = 3
    MaxGrantRows = 2
    MaxAttempts = 2
SYMMETRY Interchangeable
CHECK_DEADLOCK FALSE
 
PROPERTIES AdmitsOnce NoLostUpdate ImplementsMembershipRegister
