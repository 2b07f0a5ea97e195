SPECIFICATION Spec
CONSTANTS Profiles <- MCProfiles Links = {l1, l2, l3} NoLink = NoLink Calls = {c1} Transports = {"serial", "ble"}
SYMMETRY LinkSymmetry
CHECK_DEADLOCK FALSE
 
INVARIANT RunningMatchesTable
INVARIANT QuietAfterStop
 
