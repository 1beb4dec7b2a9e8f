----------------------------- MODULE PathPolicy -----------------------------
(***************************************************************************)
(* evaluate_path_policy (fileops/path_policy.py): the three paths of a     *)
(* proposed move are inspected one after the other by a platform probe     *)
(* while the file system changes, and the facts are turned into a ticket   *)
(* or into one denial.                                                     *)
(*                                                                         *)
(* The file system is the set "world" of what is unsuitable in it: <<r, c>>*)
(* when the path in role r fails check c, <<r, "kind">> when it is of      *)
(* another kind than expected, <<r, "volume">> when it lies on the other   *)
(* volume, and <<"source_file", "outside">> when the file is not           *)
(* physically below the root.                                              *)
(***************************************************************************)
EXTENDS PathRules, FiniteSets

CONSTANTS
    Requests,    \* [valid, source]: the lexical form of the three paths
    MaxUnsuited, \* bound on what is unsuitable at first
    MaxChanges   \* bound on changes during the evaluation

RoleSet == {Roles[i] : i \in DOMAIN Roles}

Flaws == (RoleSet \X (CheckNames \cup {"kind", "volume"})) \cup {<<"source_file", "outside">>}

ASSUME PolicyRequests ==
    Requests \subseteq [valid : BOOLEAN, source : {"below", "root", "elsewhere"}]

VARIABLES
    world,
    changes,
    request,
    facts,      \* what the probe returned so far, in the order of Roles
    probing,    \* the paths are being inspected
    decision,   \* "none", "ticket" or a denial
    ticket,     \* the facts of the ticket
    raised,     \* the probe raised PathProbeError or reported another path
    lasting,    \* flaws the world had at every moment of the evaluation
    occurred    \* flaws it had at some moment

vars == <<world, changes, request, facts, probing, decision, ticket, raised, lasting, occurred>>

Init ==
    /\ \/ world = {}
       \/ \E f \in [1 .. MaxUnsuited -> Flaws] : world = {f[i] : i \in 1 .. MaxUnsuited}
    /\ changes = 0
    /\ request \in Requests
    /\ facts = <<>>
    /\ probing = FALSE
    /\ decision = "none"
    /\ ticket = <<>>
    /\ raised = FALSE
    /\ lasting = world
    /\ occurred = world

-----------------------------------------------------------------------------
(* The probe and the file system it looks at. *)

\* What a probe reports of the path in one role (PathFacts).
FactsOf(role) ==
    [path    |-> role,
     role    |-> role,
     failing |-> {c \in CheckNames : <<role, c>> \in world},
     kind    |-> IF <<role, "kind">> \in world THEN "other" ELSE ExpectedKind(role),
     volume  |-> IF <<role, "volume">> \in world THEN "second" ELSE "first",
     within  |-> <<role, "outside">> \notin world]

Change(flaw) ==
    /\ probing
    /\ changes < MaxChanges
    /\ world' = IF flaw \in world THEN world \ {flaw} ELSE world \cup {flaw}
    /\ changes' = changes + 1
    /\ lasting' = lasting \cap world'
    /\ occurred' = occurred \cup world'
    /\ UNCHANGED <<request, facts, probing, decision, ticket, raised>>

-----------------------------------------------------------------------------
(* The evaluation. *)

\* _validate_lexical_containment
LexicalDenial ==
    IF ~ request.valid THEN "invalid_path"
    ELSE IF request.source = "elsewhere" THEN "escapes_root"
    ELSE IF request.source = "root" THEN "wrong_type"
    ELSE "none"

\* _deny and the only form of a denied decision that its validator admits
Deny(denial) == decision' = denial /\ ticket' = <<>>

Validate ==
    /\ ~ probing /\ decision = "none"
    /\ IF LexicalDenial # "none"
       THEN Deny(LexicalDenial) /\ UNCHANGED probing
       ELSE probing' = TRUE /\ UNCHANGED <<decision, ticket>>
    /\ UNCHANGED <<world, changes, request, facts, raised, lasting, occurred>>

Inspected == Len(facts) = Len(Roles)

Inspect ==
    /\ probing /\ ~ Inspected
    /\ facts' = Append(facts, FactsOf(Roles[Len(facts) + 1]))
    /\ UNCHANGED <<world, changes, request, probing, decision, ticket, raised, lasting, occurred>>

\* The probe answers for another path or another role than it was asked for.
InspectAnother ==
    /\ probing /\ ~ Inspected
    /\ \E other \in RoleSet \ {Roles[Len(facts) + 1]} : facts' = Append(facts, FactsOf(other))
    /\ raised' = TRUE
    /\ UNCHANGED <<world, changes, request, probing, decision, ticket, lasting, occurred>>

\* Faulty: what was inspected before the error is used.
SkipProbeError ==
    /\ probing /\ ~ Inspected
    /\ raised' = TRUE
    /\ facts' = Append(facts, [FactsOf(Roles[Len(facts) + 1]) EXCEPT !.failing = {}])
    /\ UNCHANGED <<world, changes, request, probing, decision, ticket, lasting, occurred>>

ProbeError ==
    /\ probing /\ ~ Inspected
    /\ raised' = TRUE
    /\ probing' = FALSE
    /\ Deny("api_error")
    /\ UNCHANGED <<world, changes, request, facts, lasting, occurred>>

\* _first_fact_denial
FirstFactDenial ==
    LET denial(i) == IF facts[i].path # Roles[i] \/ facts[i].role # Roles[i]
                     THEN "api_error"
                     ELSE UnsafeFactDenial(facts[i].failing)
        denied == {i \in DOMAIN facts : denial(i) # "none"}
    IN  IF denied = {} THEN "none" ELSE denial(CHOOSE i \in denied : \A j \in denied : i <= j)

\* Faulty: every path is expected to be a file.
FilesOnlyDenial ==
    IF ~ facts[2].within THEN "escapes_root"
    ELSE IF \E i \in DOMAIN facts : facts[i].kind # "file" THEN "wrong_type"
    ELSE IF Cardinality({facts[i].volume : i \in DOMAIN facts}) # 1 THEN "different_volume"
    ELSE "none"

\* Why _build_ticket gives no ticket for three facts that are safe one by one.
TicketDenial ==
    IF ~ facts[2].within THEN "escapes_root"
    ELSE IF \E i \in DOMAIN facts : facts[i].kind # ExpectedKind(Roles[i]) THEN "wrong_type"
    ELSE IF Cardinality({facts[i].volume : i \in DOMAIN facts}) # 1 THEN "different_volume"
    ELSE "none"

Decide ==
    /\ probing /\ Inspected
    /\ probing' = FALSE
    /\ LET denial == IF FirstFactDenial # "none" THEN FirstFactDenial ELSE TicketDenial
       IN  IF denial # "none" THEN Deny(denial) ELSE decision' = "ticket" /\ ticket' = facts
    /\ UNCHANGED <<world, changes, request, facts, raised, lasting, occurred>>

Done == decision # "none" /\ UNCHANGED vars

Next ==
    \/ Validate \/ Inspect \/ InspectAnother \/ ProbeError \/ Decide
    \/ \E flaw \in Flaws : Change(flaw)
    \/ Done

Spec == Init /\ [][Next]_vars

-----------------------------------------------------------------------------
(* Properties. *)

PolicyTypeOK ==
    /\ world \subseteq Flaws
    /\ lasting \subseteq world /\ world \subseteq occurred
    /\ Len(facts) <= Len(Roles)
    /\ decision \in {"none", "ticket"} \cup Denials
    /\ decision = "ticket" <=> ticket # <<>>
    /\ probing => decision = "none"

\* What a ticket may never cover although the paths were inspected one after the
\* other and the world changed meanwhile: anything that was unsuitable all the
\* time, two paths that were on different volumes all the time, a probe that
\* failed or answered for another path, paths that are not lexically contained.
NothingLastinglyUnsafe ==
    decision = "ticket" =>
        /\ \A flaw \in lasting : flaw[2] = "volume"
        /\ \A r, s \in RoleSet :
               <<r, "volume">> \in lasting => <<s, "volume">> \in occurred
        /\ ~ raised
        /\ request = [valid |-> TRUE, source |-> "below"]

\* A denial hands out no facts and names something that is the case: a flaw of the
\* world at some moment of the evaluation, the failure of the probe, the form of the
\* request.
DenialIsTrue ==
    decision \notin {"none", "ticket"} =>
        /\ ticket = <<>>
        /\ \/ decision \in {Checks[i].denial : i \in {j \in DOMAIN Checks :
                  \E r \in RoleSet : <<r, Checks[j].check>> \in occurred}}
           \/ decision = "api_error" /\ raised
           \/ decision = "invalid_path" /\ ~ request.valid
           \/ /\ decision = "escapes_root"
              /\ request.source = "elsewhere" \/ <<"source_file", "outside">> \in occurred
           \/ /\ decision = "wrong_type"
              /\ request.source = "root" \/ \E r \in RoleSet : <<r, "kind">> \in occurred
           \/ decision = "different_volume" /\ \E r, s \in RoleSet :
                  <<r, "volume">> \in occurred /\ <<s, "volume">> \notin lasting
=============================================================================
