\* Two init_watchdog and two reset_watchdog calls in any order.
CONSTANTS
    s1 = s1
    s2 = s2
    Garbage = Garbage
    None = None
    Sessions <- MCSessions
    Periods = {0, 10}
    MaxInits = 2
    MaxResets = 2
SPECIFICATION Spec
INVARIANT TypeOK
PROPERTY WatchdogFiresUnlessReset
\* The caller makes at most MaxInits and MaxResets calls; then every
\* thread ends and the system stops.
CHECK_DEADLOCK FALSE
