CONSTANTS
    mona = mona
    ann = ann
    bob = bob
    repo1 = repo1
    issue1 = issue1
    issue2 = issue2
    pull1 = pull1
    pull2 = pull2
    People = {mona, ann, bob}
    Maintainers = {mona, ann}
    Repos = {repo1}
    Issues = {issue1, issue2}
    Prs = {pull1, pull2}
    Owner <- MCOwner
    RepoOf <- MCRepoOf
    Author <- MCAuthor
    Closes <- MCCloses
    Values = {1, 2}
    Flat = 1
    Workers = {1}
    Syncs = {1}
    MaxChanges = 2
SPECIFICATION Spec
INVARIANTS
    TypeOK
    ClaimNeverBlocked
    OfferedValue
    CashWithPoints
    ShownIsReserved
CHECK_DEADLOCK FALSE
