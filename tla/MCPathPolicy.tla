---------------------------- MODULE MCPathPolicy ----------------------------
EXTENDS PathPolicy

\* A proper request and the three kinds that are denied for their form.
MCRequests ==
    [valid : {TRUE}, source : {"below", "root", "elsewhere"}] \cup
    {[valid |-> FALSE, source |-> "below"]}
=============================================================================
