\* The in-dock label against the level of its line; the process may crash.
SPECIFICATION Spec
INVARIANT DockIsShown
CHECK_DEADLOCK FALSE
