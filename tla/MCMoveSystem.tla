---------------------------- MODULE MCMoveSystem ----------------------------
(* Small instances of MoveSystem.  Each run takes the calls it needs from    *)
(* MCRequest and one of the path layouts below.                              *)
EXTENDS MoveSystem, TLC

CONSTANTS d1, t1, t2, pA, pB, pC, o1, o2,
          move1, move2, recover1, recover2, undo1, again1, undo2,
          x1, x2, x3, x4, x5, x6, x7,
          dest2, undoes2  \* where the second move goes, what the second undo is for

Move_(t, destination, audit) ==
    [kind |-> "move", transaction |-> t, document |-> d1, destination |-> destination,
     audit |-> audit]

Repair(kind, t, audit) ==
    [kind |-> kind, transaction |-> t, document |-> None, destination |-> None,
     audit |-> audit]

\* Every call has an audit identifier of its own.
MCRequest ==
    [c \in Calls |->
        CASE c = move1    -> Move_(t1, pB, x1)
          [] c = move2    -> Move_(t2, dest2, x2)
          [] c = recover1 -> Repair("recover", t1, x3)
          [] c = recover2 -> Repair("recover", t2, x4)
          [] c = undo1    -> Repair("undo", t1, x5)
          [] c = again1   -> Repair("undo", t1, x6)
          [] c = undo2    -> Repair("undo", undoes2, x7)]

MCInitialPath == [d \in {d1} |-> pA]

\* Nobody asks for undo1 again: after it crashed, the user asks with a fresh
\* audit identity, again1, as often as it takes.
FreshSpec ==
    /\ Spec
    /\ \A c \in Calls : WF_vars(Step(c))
    /\ \A c \in Calls \ {undo1} : WF_vars(Again(c))

MCInitialFiles == [p \in Paths |-> IF p = pA THEN o1 ELSE Vacant]
=============================================================================
