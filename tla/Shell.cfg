CONSTANTS
 MAXARGS = 3
 Pids = {1, 2, 3, 4, 5, 6}
 Sh = 0
 Init1 = 99
 NOFILE = 5
 Pipes = {1, 2}
 Lines <- MCLines
 MaxLines = 2
SPECIFICATION Spec
INVARIANT LinesRun
PROPERTY Prompts
CHECK_DEADLOCK FALSE
