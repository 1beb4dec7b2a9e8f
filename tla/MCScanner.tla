----------------------------- MODULE MCScanner -----------------------------
(* A small tree for TLC: a document in the root, one in a directory of two,   *)
(* one two levels down, a large file, an excluded directory with a document, a link   *)
(* to a directory outside, and a reader that may return a stray entry.        *)
EXTENDS Scanner

CONSTANTS root, outer, upper, side, lower, private, d0, d1, d2, dx, dp, big, text, link, fifo

MCNames == 1 .. 6

At(d, name) == [dir |-> d, name |-> name]

MCPlace ==
    [n \in Nodes |->
        CASE n = outer   -> At(Nowhere, 1)
          [] n = upper   -> At(root, 1)
          [] n = d0      -> At(root, 2)
          [] n = link    -> At(root, 3)
          [] n = side    -> At(root, 4)
          [] n = private -> At(root, 5)
          [] n = fifo    -> At(root, 6)
          [] n = lower   -> At(upper, 1)
          [] n = d1      -> At(side, 2)
          [] n = big     -> At(upper, 3)
          [] n = d2      -> At(lower, 2)
          [] n = text    -> At(lower, 4)
          [] n = dp      -> At(private, 2)
          [] n = dx      -> At(outer, 2)]

MCExcluded == {5}

MCTarget == [l \in Links |-> outer]

MCFileClass ==
    [f \in Files |-> CASE f = big -> "large" [] f = text -> "unsupported" [] OTHER -> "document"]

MCStrays == {[path |-> <<>>, name |-> 7, node |-> dx, inside |-> FALSE, kind |-> "file",
              beneath |-> FALSE]}

\* The places of the directories and of the link, free ones in a directory that is
\* read earlier or later, and ones that no search reaches.
MCDestinations ==
    {At(root, 1), At(root, 3), At(side, 1), At(upper, 1), At(lower, 1), At(private, 1),
     At(Nowhere, 1)}

\* Limits below, at and above what the tree holds: eleven entries and one that may
\* be a stray, three documents.
MCRequest(depth, entries, found) ==
    [max_depth |-> depth, max_entries |-> entries, max_documents |-> found]

MCRequests ==
    {MCRequest(2, 11, 3), MCRequest(2, 12, 2), MCRequest(2, 6, 3), MCRequest(1, 12, 2),
     MCRequest(0, 12, 1), MCRequest(1, 1, 1)}

MCWideRequest == {MCRequest(2, 13, 3)}
=============================================================================
