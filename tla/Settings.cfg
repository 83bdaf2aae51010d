\* Two networks, two servers; what the days are is in MCSettings.
SPECIFICATION FairSpec
CONSTANTS
    home = home
    cafe = cafe
    Nets = {home, cafe}
    Home = home
    NoNet = NoNet
    Days <- MCDays
INVARIANTS OneAtATime FileFollowsTable
PROPERTIES WifiSettles ProbeAnswers 
