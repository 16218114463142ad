---------------------------------- MODULE MCSetup ----------------------------------
EXTENDS Setup

AllTargets ==
  {[title |-> FALSE, pacing |-> TRUE, caps |-> 21],    \* Amiga, with a bit more
   [title |-> FALSE, pacing |-> TRUE, caps |-> 0],     \* Linux, MS-DOS
   [title |-> FALSE, pacing |-> FALSE, caps |-> 0],    \* BBC
   [title |-> TRUE, pacing |-> FALSE, caps |-> 0]}     \* Atari

\* Four digits reach beyond 1000; a blank is skipped before a number and not
\* part of one after it.
SmallLengths == [endpoint |-> 3, name |-> 2, interval |-> 4]
SmallKeys == [endpoint |-> {"a"}, name |-> {"a", ","}, interval |-> {"0", "1", " "}]
MCNumbers == <<2, 40, 24>>
=============================================================================
