CONSTANTS
    Container = {c1, c2}
    admin = admin
    user = user
    manageUser = manageUser
    readUser = readUser
    Permission <- Permissions
    Role <- Roles
    Grants <- RoleGrants
    Account = account
    AdminLink = adminLink
    MaxCrashes = 1
    MaxChanges = 2
SPECIFICATION FairSpec
INVARIANT PassedIsThere
PROPERTY PasswordSurvives EveryContainerServes
CHECK_DEADLOCK FALSE
