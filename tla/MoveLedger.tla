----------------------------- MODULE MoveLedger -----------------------------
(***************************************************************************)
(* What the move store promises its users, without journals, attempts or   *)
(* audit identifiers: where each document is, what each transaction meant  *)
(* to do and what became of it.                                            *)
(***************************************************************************)
CONSTANTS Documents, Transactions, Paths, None, InitialPath

VARIABLES
    location,   \* where each document is
    intent,     \* [document, source, destination] of each transaction
    outcome     \* none, open, committed, abandoned, held or undone

ledgerVars == <<location, intent, outcome>>

NoIntent == [document |-> None, source |-> None, destination |-> None]

LedgerInit ==
    /\ location = InitialPath
    /\ intent = [t \in Transactions |-> NoIntent]
    /\ outcome = [t \in Transactions |-> "none"]

\* A move is planned from where its document is.
Open(t, d, destination) ==
    /\ outcome[t] = "none"
    /\ intent' = [intent EXCEPT ![t] =
           [document |-> d, source |-> location[d], destination |-> destination]]
    /\ outcome' = [outcome EXCEPT ![t] = "open"]
    /\ UNCHANGED location

\* An open move takes its document to the destination, if it is still at the source.
Commit(t) ==
    /\ outcome[t] = "open"
    /\ location[intent[t].document] = intent[t].source
    /\ location' = [location EXCEPT ![intent[t].document] = intent[t].destination]
    /\ outcome' = [outcome EXCEPT ![t] = "committed"]
    /\ UNCHANGED intent

\* An open move ends without an effect, for good (abandoned) or until it is undone (held).
Close(t, ending) ==
    /\ outcome[t] = "open"
    /\ ending \in {"abandoned", "held"}
    /\ outcome' = [outcome EXCEPT ![t] = ending]
    /\ UNCHANGED <<location, intent>>

\* A settled move is undone at most once, and its document ends at the source.
\* A caller that loaded the record before the commit finds it there already.
Undo(t) ==
    /\ outcome[t] \in {"committed", "held"}
    /\ \/ location[intent[t].document] = intent[t].source
       \/ /\ outcome[t] = "committed"
          /\ location[intent[t].document] = intent[t].destination
    /\ location' = [location EXCEPT ![intent[t].document] = intent[t].source]
    /\ outcome' = [outcome EXCEPT ![t] = "undone"]
    /\ UNCHANGED intent

LedgerNext ==
    \E t \in Transactions :
        \/ \E d \in Documents, destination \in Paths : Open(t, d, destination)
        \/ Commit(t)
        \/ \E ending \in {"abandoned", "held"} : Close(t, ending)
        \/ Undo(t)

LedgerSpec == LedgerInit /\ [][LedgerNext]_ledgerVars
=============================================================================
