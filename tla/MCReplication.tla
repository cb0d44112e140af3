--------------------------- MODULE MCReplication ---------------------------
(* Small instances of Replication for TLC. *)
EXTENDS Replication

CONSTANTS a, b, c

OneFile == {<<1>>}
OneLink == {<<9>>}
AllPaths == OneFile \cup OneLink

Everything == [x \in Pulls |-> AllPaths \cup {Meta(p) : p \in AllPaths} \cup {Meta(Meta(p)) : p \in AllPaths}]

\* b follows a and c follows b; c takes only part of the paths.
Chain == [http |-> {<<b, a>>, <<c, b>>}, rounds |-> <<>>,
          writers |-> {a}, written |-> AllPaths, times |-> {0}, stamps |-> {0},
          paths |-> [Everything EXCEPT ![<<c, b>>] = OneFile],
          max_writes |-> 2, max_faults |-> 1, triggers |-> FALSE]

\* a and b merge each other in process, one after the other, with skewed clocks.
Rounds == [http |-> {}, rounds |-> <<<<a, b>>, <<b, a>>>>,
           writers |-> {a, b}, written |-> AllPaths, times |-> {1, 2}, stamps |-> {2},
           paths |-> Everything, max_writes |-> 3, max_faults |-> 1, triggers |-> FALSE]

\* a and b pull from each other over HTTP and both take writes.
TwoWay == [http |-> {<<a, b>>, <<b, a>>}, rounds |-> <<>>,
           writers |-> {a, b}, written |-> OneFile, times |-> {0}, stamps |-> {0},
           paths |-> Everything, max_writes |-> 3, max_faults |-> 0, triggers |-> FALSE]

\* b follows a, and its operator may trigger a sync while one is running.
Triggered == [Chain EXCEPT !.http = {<<b, a>>}, !.max_faults = 0, !.triggers = TRUE]

TriggeredOnly == {Triggered}
TwoWayOnly == {TwoWay}
ChainOrRounds == {Chain, Rounds}
=============================================================================
