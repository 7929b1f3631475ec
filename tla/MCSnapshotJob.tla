--------------------------- MODULE MCSnapshotJob ---------------------------
(***************************************************************************)
(* Small instances of SnapshotJob: one or two connectors, two chunks.      *)
(***************************************************************************)
EXTENDS SnapshotJob, TLC

InstanceSymmetry == Permutations(Instances)

\* Mode initial, without faults, while the application commits once.
Calm(n) ==
  [started |-> n, only |-> FALSE, resnapshot |-> FALSE, hidden |-> FALSE,
   writes |-> 1, crashes |-> 0, errors |-> 0]
SnapshotOnly(s) == [s EXCEPT !.only = TRUE]
Resnapshot(s) == [s EXCEPT !.resnapshot = TRUE]
Crashing(s) == [s EXCEPT !.crashes = 1]
Erring(s) == [s EXCEPT !.errors = 1]
Quiet(s) == [s EXCEPT !.writes = 0]
Hidden(s) == [s EXCEPT !.hidden = TRUE]

Shared == {Calm(2), SnapshotOnly(Calm(2)), Resnapshot(Calm(1))}

Faulty ==
  {[Calm(1) EXCEPT !.writes = 2, !.crashes = 1, !.errors = 2],
   Resnapshot(Crashing(Erring(Calm(1)))),
   SnapshotOnly(Crashing(Calm(1))),
   Hidden(Crashing(Calm(2))),
   SnapshotOnly(Crashing(Calm(2))),
   Crashing(Erring(Quiet(Calm(2)))),
   Resnapshot(Quiet(Calm(2)))}

HiddenCommit   == {Hidden(Calm(1))}
CalmPair       == {Quiet(Calm(2))}
CrashingPair   == {Crashing(Calm(2))}
QuietCrash     == {Crashing(Quiet(Calm(2)))}
ErringPair     == {Erring(Calm(2))}
CrashingAlone  == {Crashing(Quiet(Calm(1)))}
OnlyErring     == {SnapshotOnly(Erring(Quiet(Calm(1))))}
ResnapshotPair == {Resnapshot(Quiet(Calm(2)))}
=============================================================================
