SPECIFICATION Spec
CONSTANTS
    l1 = l1
    l2 = l2
    Links = {l1, l2}
    Channel <- MCChannel
    HasEmail = {l1}
    Leavers = {l2}
    Starters = {l1}
    Ttls <- MCTtls
    FirstAfter = 1
    SecondAfter = 2
    Parts = 2
    Horizon = 7
    MaxOutages = 1
    MaxDeaths = 1
INVARIANTS RemindedOnce OneReminderADay LastCall
