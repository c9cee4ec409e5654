\* The lines change level at any time; the process may crash, so it stops.
SPECIFICATION Spec
INVARIANTS CrashMeansInitFailed LockTellsResult ChargingIsShown
CHECK_DEADLOCK FALSE
