-------------------------- MODULE PathPolicyProofs --------------------------
(* Theorems about PathPolicy: whatever is unsuitable and however often the   *)
(* world changes, a ticket covers nothing that was unsafe all the time.      *)
EXTENDS PathPolicy, FiniteSetTheorems, SequenceTheorems, TLAPS

(* What the rules are made of.                                               *)
LEMMA Rules ==
    /\ DOMAIN Checks = 1 .. 12
    /\ \A i \in 1 .. 12 : Checks[i].denial \notin {"none", "ticket"}
    /\ \A c \in CheckNames : \E i \in 1 .. 12 : Checks[i].check = c
    /\ CheckNames \cap {"kind", "volume", "outside"} = {}
<1>1. DOMAIN Checks = 1 .. 12
  BY DEF Checks
<1> DEFINE Plain(i) == /\ Checks[i].denial \notin {"none", "ticket"}
                       /\ Checks[i].check \notin {"kind", "volume", "outside"}
<1>2. /\ Plain(1) /\ Plain(2) /\ Plain(3) /\ Plain(4) /\ Plain(5) /\ Plain(6)
      /\ Plain(7) /\ Plain(8) /\ Plain(9) /\ Plain(10) /\ Plain(11) /\ Plain(12)
  BY DEF Checks
<1> HIDE DEF Plain
<1>3. \A i \in 1 .. 12 : Plain(i)
  <2> SUFFICES ASSUME NEW i \in 1 .. 12
               PROVE  Plain(i)
    OBVIOUS
  <2>1. \/ i = 1 \/ i = 2 \/ i = 3 \/ i = 4 \/ i = 5 \/ i = 6
        \/ i = 7 \/ i = 8 \/ i = 9 \/ i = 10 \/ i = 11 \/ i = 12
    OBVIOUS
  <2> QED
    BY <1>2, <2>1
<1> QED
  BY <1>1, <1>3 DEF CheckNames, Plain

LEMMA RoleFacts ==
    /\ Len(Roles) = 3 /\ DOMAIN Roles = 1 .. 3
    /\ Roles[1] = "source_root" /\ Roles[2] = "source_file"
    /\ Roles[3] = "destination_directory"
    /\ RoleSet = {"source_root", "source_file", "destination_directory"}
<1>1. /\ Len(Roles) = 3 /\ DOMAIN Roles = 1 .. 3
      /\ Roles[1] = "source_root" /\ Roles[2] = "source_file"
      /\ Roles[3] = "destination_directory"
  BY DEF Roles
<1> QED
  BY <1>1 DEF RoleSet

(* Some of the first numbers have a least one.                               *)
LEMMA LeastOfThree ==
    ASSUME NEW k \in Nat, NEW S, S \cap (k + 1 .. k + 3) # {}
    PROVE  \E i \in S \cap (k + 1 .. k + 3) : \A j \in S \cap (k + 1 .. k + 3) : i <= j
<1>1. CASE k + 1 \in S
  BY <1>1
<1>2. CASE k + 1 \notin S /\ k + 2 \in S
  BY <1>2
<1>3. CASE k + 1 \notin S /\ k + 2 \notin S
  BY <1>3
<1> QED
  BY <1>1, <1>2, <1>3

LEMMA LeastOfTwelve ==
    ASSUME NEW S, S \subseteq 1 .. 12, S # {}
    PROVE  \E i \in S : \A j \in S : i <= j
<1>1. CASE S \cap (1 .. 3) # {}
  <2>1. PICK i \in S \cap (1 .. 3) : \A j \in S \cap (1 .. 3) : i <= j
    BY <1>1, LeastOfThree
  <2> QED
    BY <2>1
<1>2. CASE S \cap (1 .. 3) = {} /\ S \cap (4 .. 6) # {}
  <2>1. PICK i \in S \cap (4 .. 6) : \A j \in S \cap (4 .. 6) : i <= j
    BY <1>2, LeastOfThree
  <2> QED
    BY <1>2, <2>1
<1>3. CASE S \cap (1 .. 3) = {} /\ S \cap (4 .. 6) = {} /\ S \cap (7 .. 9) # {}
  <2>1. PICK i \in S \cap (7 .. 9) : \A j \in S \cap (7 .. 9) : i <= j
    BY <1>3, LeastOfThree
  <2> QED
    BY <1>3, <2>1
<1>4. CASE S \cap (1 .. 3) = {} /\ S \cap (4 .. 6) = {} /\ S \cap (7 .. 9) = {}
  <2>1. S \cap (10 .. 12) # {}
    <3>1. PICK x \in S : TRUE
      OBVIOUS
    <3>2. x \in 10 .. 12
      BY <1>4, <3>1
    <3> QED
      BY <3>2
  <2>2. PICK i \in S \cap (10 .. 12) : \A j \in S \cap (10 .. 12) : i <= j
    BY <2>1, LeastOfThree
  <2> QED
    BY <1>4, <2>2
<1> QED
  BY <1>1, <1>2, <1>3, <1>4

(* _unsafe_fact_denial says "none" only of a fact that fails no check, and   *)
(* else the denial of a check that it fails.                                 *)
LEMMA UnsafeFact ==
    ASSUME NEW failing
    PROVE  \/ UnsafeFactDenial(failing) = "none" /\ failing \cap CheckNames = {}
           \/ \E i \in DOMAIN Checks :
                  Checks[i].check \in failing /\ UnsafeFactDenial(failing) = Checks[i].denial
<1> DEFINE failed == {i \in DOMAIN Checks : Checks[i].check \in failing}
<1>1. failed \subseteq 1 .. 12
  BY Rules
<1>2. CASE failed = {}
  <2>1. UnsafeFactDenial(failing) = "none"
    BY <1>2 DEF UnsafeFactDenial
  <2>2. failing \cap CheckNames = {}
    BY <1>2 DEF CheckNames
  <2> QED
    BY <2>1, <2>2
<1>3. CASE failed # {}
  <2> DEFINE first == CHOOSE i \in failed : \A j \in failed : i <= j
  <2>1. first \in failed
    BY <1>1, <1>3, LeastOfTwelve
  <2>2. UnsafeFactDenial(failing) = Checks[first].denial
    BY <1>3 DEF UnsafeFactDenial
  <2> QED
    BY <2>1, <2>2
<1> QED
  BY <1>2, <1>3

-----------------------------------------------------------------------------
(* The inductive invariant.  A fact was true when it was taken: what lasts   *)
(* is in it, and what is in it has occurred.                                 *)

FactRecords ==
    [path : RoleSet, role : RoleSet, failing : SUBSET CheckNames,
     kind : {"file", "directory", "other"}, volume : {"first", "second"},
     within : BOOLEAN]

Types ==
    /\ PolicyTypeOK
    /\ request \in Requests
    /\ facts \in Seq(FactRecords)
    /\ probing \in BOOLEAN /\ raised \in BOOLEAN

Taken(f) ==
    /\ f.role = f.path
    /\ \A c \in CheckNames : /\ <<f.path, c>> \in lasting => c \in f.failing
                             /\ c \in f.failing => <<f.path, c>> \in occurred
    /\ <<f.path, "kind">> \in lasting => f.kind # ExpectedKind(f.path)
    /\ f.kind # ExpectedKind(f.path) => <<f.path, "kind">> \in occurred
    /\ <<f.path, "volume">> \in lasting => f.volume = "second"
    /\ f.volume = "second" => <<f.path, "volume">> \in occurred
    /\ <<f.path, "outside">> \in lasting => ~ f.within
    /\ ~ f.within => <<f.path, "outside">> \in occurred

Faithful == \A i \in DOMAIN facts : Taken(facts[i])

\* A probe that answered for another path is noticed in what it returned.
Noticed ==
    /\ ~ raised => \A i \in DOMAIN facts : facts[i].path = Roles[i]
    /\ raised /\ probing => \E i \in DOMAIN facts : facts[i].path # Roles[i]
    /\ raised => probing \/ decision # "none"

Contained == probing => LexicalDenial = "none"

Granted ==
    decision = "ticket" =>
        /\ DOMAIN facts = 1 .. 3 /\ ~ raised /\ facts[2].within
        /\ request = [valid |-> TRUE, source |-> "below"]
        /\ \A i \in 1 .. 3 : /\ facts[i].path = Roles[i] /\ facts[i].failing = {}
                             /\ facts[i].kind = ExpectedKind(Roles[i])
        /\ \A i, j \in 1 .. 3 : facts[i].volume = facts[j].volume

PolicyInv == Types /\ Faithful /\ Noticed /\ Contained /\ Granted /\ DenialIsTrue

LEMMA PolicyInit == Init => PolicyInv
<1> SUFFICES ASSUME Init
             PROVE  PolicyInv
  OBVIOUS
<1>1. world \subseteq Flaws
  BY DEF Init
<1>2. facts = <<>> /\ Len(facts) = 0 /\ facts \in Seq(FactRecords) /\ DOMAIN facts = {}
  BY DEF Init
<1>3. decision = "ticket" <=> ticket # <<>>
  BY DEF Init
<1>4. /\ world \subseteq Flaws /\ lasting \subseteq world /\ world \subseteq occurred
      /\ Len(facts) <= Len(Roles) /\ decision = "none" /\ ~ probing /\ ~ raised
  BY <1>1, <1>2, RoleFacts DEF Init
<1>5. Types
  BY <1>2, <1>3, <1>4 DEF Init, Types, PolicyTypeOK
<1> QED
  BY <1>2, <1>5 DEF Init, PolicyInv, Faithful, Noticed, Contained, Granted, DenialIsTrue

(* What the probe reports of a path is true of the moment.                   *)
LEMMA FactIsTrue ==
    ASSUME NEW role \in RoleSet, lasting \subseteq world, world \subseteq occurred
    PROVE  FactsOf(role) \in FactRecords /\ FactsOf(role).path = role /\ Taken(FactsOf(role))
<1> DEFINE f == FactsOf(role)
<1>1. /\ f.path = role /\ f.role = role
      /\ f.failing = {c \in CheckNames : <<role, c>> \in world}
      /\ f.kind = (IF <<role, "kind">> \in world THEN "other" ELSE ExpectedKind(role))
      /\ f.volume = (IF <<role, "volume">> \in world THEN "second" ELSE "first")
      /\ f.within <=> <<role, "outside">> \notin world
  BY DEF FactsOf
<1>2. ExpectedKind(role) \in {"file", "directory"}
  BY DEF ExpectedKind
<1>3. f \in FactRecords
  BY <1>2 DEF FactsOf, FactRecords
<1> HIDE DEF f
<1>4. Taken(f)
  BY <1>1, <1>2 DEF Taken
<1> QED
  BY <1>1, <1>3, <1>4 DEF f

LEMMA FactsInOrder ==
    ASSUME Types
    PROVE  /\ DOMAIN facts = 1 .. Len(facts) /\ Len(facts) \in 0 .. 3
           /\ \A i \in DOMAIN facts : facts[i] \in FactRecords
<1>1. facts \in Seq(FactRecords) /\ Len(facts) <= 3
  BY RoleFacts DEF Types, PolicyTypeOK
<1>2. DOMAIN facts = 1 .. Len(facts) /\ Len(facts) \in Nat
  BY <1>1, LenProperties
<1>3. \A i \in 1 .. Len(facts) : facts[i] \in FactRecords
  BY <1>1, ElementOfSeq
<1> QED
  BY <1>1, <1>2, <1>3

(* What _first_fact_denial says of the facts.                                *)
LEMMA FirstDenial ==
    ASSUME Types
    PROVE  \/ /\ FirstFactDenial = "none"
              /\ \A i \in DOMAIN facts : facts[i].path = Roles[i] /\ facts[i].failing = {}
           \/ \E i \in DOMAIN facts :
                  FirstFactDenial = "api_error" /\ (facts[i].path # Roles[i] \/ facts[i].role # Roles[i])
           \/ \E i \in DOMAIN facts : \E j \in DOMAIN Checks :
                  Checks[j].check \in facts[i].failing /\ FirstFactDenial = Checks[j].denial
<1> DEFINE denial(i) == IF facts[i].path # Roles[i] \/ facts[i].role # Roles[i]
                        THEN "api_error"
                        ELSE UnsafeFactDenial(facts[i].failing)
           denied == {i \in DOMAIN facts : denial(i) # "none"}
<1>1. /\ DOMAIN facts = 1 .. Len(facts) /\ Len(facts) \in 0 .. 3
      /\ \A i \in DOMAIN facts : facts[i] \in FactRecords
  BY FactsInOrder
<1>2. \A i \in DOMAIN facts : facts[i].failing \subseteq CheckNames
  BY <1>1 DEF FactRecords
<1>3. CASE denied = {}
  <2>1. FirstFactDenial = "none"
    BY <1>3 DEF FirstFactDenial
  <2>2. ASSUME NEW i \in DOMAIN facts
        PROVE  facts[i].path = Roles[i] /\ facts[i].failing = {}
    <3>1. denial(i) = "none"
      BY <1>3, <2>2
    <3>2. facts[i].path = Roles[i] /\ UnsafeFactDenial(facts[i].failing) = "none"
      BY <3>1
    <3>3. facts[i].failing \cap CheckNames = {}
      BY <3>2, UnsafeFact, Rules
    <3> QED
      BY <1>2, <3>2, <3>3
  <2> QED
    BY <2>1, <2>2
<1>4. CASE denied # {}
  <2> DEFINE first == CHOOSE i \in denied : \A j \in denied : i <= j
  <2>1. denied \cap (0 + 1 .. 0 + 3) # {} /\ denied \subseteq 0 + 1 .. 0 + 3
    BY <1>1, <1>4
  <2>2. first \in denied
    <3> HIDE DEF denied
    <3>1. \E i \in denied \cap (0 + 1 .. 0 + 3) : \A j \in denied \cap (0 + 1 .. 0 + 3) : i <= j
      BY <2>1, LeastOfThree
    <3> QED
      BY <2>1, <3>1
  <2>3. FirstFactDenial = denial(first)
    BY <1>4 DEF FirstFactDenial
  <2> HIDE DEF first
  <2>4. CASE facts[first].path # Roles[first] \/ facts[first].role # Roles[first]
    BY <2>2, <2>3, <2>4
  <2>5. CASE ~ (facts[first].path # Roles[first] \/ facts[first].role # Roles[first])
    <3>1. /\ FirstFactDenial = UnsafeFactDenial(facts[first].failing)
          /\ UnsafeFactDenial(facts[first].failing) # "none"
      BY <2>2, <2>3, <2>5
    <3> QED
      BY <2>2, <3>1, UnsafeFact
  <2> QED
    BY <2>4, <2>5
<1> QED
  BY <1>3, <1>4

(* What _build_ticket refuses is the case of the facts.                      *)
LEMMA TicketDenied ==
    ASSUME Types, Inspected
    PROVE  \/ TicketDenial = "escapes_root" /\ ~ facts[2].within
           \/ /\ TicketDenial = "wrong_type"
              /\ \E i \in DOMAIN facts : facts[i].kind # ExpectedKind(Roles[i])
           \/ /\ TicketDenial = "different_volume"
              /\ \E i, j \in DOMAIN facts : facts[i].volume # facts[j].volume
           \/ /\ TicketDenial = "none" /\ facts[2].within
              /\ \A i \in DOMAIN facts : facts[i].kind = ExpectedKind(Roles[i])
              /\ \A i, j \in DOMAIN facts : facts[i].volume = facts[j].volume
<1> DEFINE volumes == {facts[i].volume : i \in DOMAIN facts}
<1>1. DOMAIN facts = 1 .. 3
  BY FactsInOrder, RoleFacts DEF Inspected
<1>2. Cardinality(volumes) = 1 <=> \A i, j \in DOMAIN facts : facts[i].volume = facts[j].volume
  <2>1. volumes = {facts[1].volume} \cup {facts[2].volume} \cup {facts[3].volume}
    BY <1>1
  <2>2. IsFiniteSet(volumes)
    <3>1. IsFiniteSet({facts[1].volume} \cup {facts[2].volume})
      BY FS_Singleton, FS_Union
    <3>2. IsFiniteSet(({facts[1].volume} \cup {facts[2].volume}) \cup {facts[3].volume})
      BY <3>1, FS_Singleton, FS_Union
    <3> QED
      BY <2>1, <3>2
  <2>3. CASE \A i, j \in DOMAIN facts : facts[i].volume = facts[j].volume
    <3>1. volumes = {facts[1].volume}
      BY <1>1, <2>3
    <3> QED
      BY <2>3, <3>1, FS_Singleton
  <2>4. CASE Cardinality(volumes) = 1
    <3>1. PICK v : volumes = {v}
      <4> HIDE DEF volumes
      <4> QED
        BY <2>2, <2>4, FS_Singleton
    <3> QED
      BY <2>4, <3>1
  <2> QED
    BY <2>3, <2>4
<1>3. TicketDenial =
          IF ~ facts[2].within THEN "escapes_root"
          ELSE IF \E i \in DOMAIN facts : facts[i].kind # ExpectedKind(Roles[i]) THEN "wrong_type"
          ELSE IF Cardinality(volumes) # 1 THEN "different_volume"
          ELSE "none"
  BY Zenon DEF TicketDenial
<1> HIDE DEF volumes
<1>4. CASE ~ facts[2].within
  BY <1>3, <1>4
<1>5. CASE facts[2].within /\ \E i \in DOMAIN facts : facts[i].kind # ExpectedKind(Roles[i])
  BY <1>3, <1>5
<1>6. CASE /\ facts[2].within /\ \A i \in DOMAIN facts : facts[i].kind = ExpectedKind(Roles[i])
           /\ Cardinality(volumes) # 1
  <2>1. TicketDenial = "different_volume"
    BY <1>3, <1>6
  <2> QED
    BY <1>2, <1>6, <2>1
<1>7. CASE /\ facts[2].within /\ \A i \in DOMAIN facts : facts[i].kind = ExpectedKind(Roles[i])
           /\ Cardinality(volumes) = 1
  <2>1. TicketDenial = "none"
    BY <1>3, <1>7
  <2> QED
    BY <1>2, <1>7, <2>1
<1> QED
  BY <1>4, <1>5, <1>6, <1>7

(* A denial for the form of the request.                                     *)
LEMMA LexicallyDenied ==
    ASSUME Types
    PROVE  \/ LexicalDenial = "none" /\ request = [valid |-> TRUE, source |-> "below"]
           \/ LexicalDenial = "invalid_path" /\ ~ request.valid
           \/ LexicalDenial = "escapes_root" /\ request.source = "elsewhere"
           \/ LexicalDenial = "wrong_type" /\ request.source = "root"
<1>1. request \in [valid : BOOLEAN, source : {"below", "root", "elsewhere"}]
  BY PolicyRequests DEF Types
<1>2. CASE request.valid /\ request.source = "below"
  <2>1. request = [valid |-> TRUE, source |-> "below"]
    BY <1>1, <1>2
  <2> QED
    BY <1>2, <2>1 DEF LexicalDenial
<1> QED
  BY <1>1, <1>2 DEF LexicalDenial

(* The probe reports one more path.                                          *)
LEMMA FactAppended ==
    ASSUME PolicyInv, probing, ~ Inspected, NEW role \in RoleSet,
           facts' = Append(facts, FactsOf(role)),
           raised' \in BOOLEAN,
           raised' <=> (raised \/ role # Roles[Len(facts) + 1]),
           UNCHANGED <<world, changes, request, probing, decision, ticket, lasting, occurred>>
    PROVE  PolicyInv'
<1> USE DEF PolicyInv
<1>1. decision = "none" /\ decision' = "none" /\ probing'
  BY DEF Types, PolicyTypeOK
<1>2. /\ FactsOf(role) \in FactRecords /\ FactsOf(role).path = role /\ Taken(FactsOf(role))
  BY FactIsTrue DEF Types, PolicyTypeOK
<1>3. /\ DOMAIN facts = 1 .. Len(facts) /\ Len(facts) \in 0 .. 2
      /\ facts' \in Seq(FactRecords)
      /\ DOMAIN facts' = 1 .. Len(facts) + 1 /\ Len(facts') = Len(facts) + 1
      /\ \A i \in DOMAIN facts : facts'[i] = facts[i]
      /\ facts'[Len(facts) + 1] = FactsOf(role)
  BY <1>2, FactsInOrder, RoleFacts DEF Types, Inspected
<1>4. Types'
  BY <1>3, RoleFacts DEF Types, PolicyTypeOK
<1>5. ASSUME NEW i \in DOMAIN facts'
      PROVE  Taken(facts[i])'
  <2>1. CASE i \in DOMAIN facts
    <3>1. facts'[i] = facts[i] /\ Taken(facts[i])
      BY <1>3, <2>1 DEF Faithful
    <3> QED
      BY <3>1 DEF Taken
  <2>2. CASE i = Len(facts) + 1
    <3>1. facts'[i] = FactsOf(role)
      BY <1>3, <2>2
    <3> HIDE DEF PolicyInv
    <3> QED
      BY <1>2, <3>1 DEF Taken
  <2> QED
    BY <1>3, <2>1, <2>2
<1>6. Noticed'
  <2>1. facts'[Len(facts) + 1].path = role
    BY <1>2, <1>3
  <2>2. CASE raised'
    <3>1. CASE raised
      <4>1. PICK i \in DOMAIN facts : facts[i].path # Roles[i]
        BY <3>1 DEF Noticed
      <4> QED
        BY <1>3, <2>2, <4>1 DEF Noticed
    <3>2. CASE role # Roles[Len(facts) + 1]
      BY <1>3, <2>1, <2>2, <3>2 DEF Noticed
    <3> QED
      BY <2>2, <3>1, <3>2
  <2>3. CASE ~ raised'
    <3>1. ~ raised /\ role = Roles[Len(facts) + 1]
      BY <2>3
    <3>2. ASSUME NEW i \in 1 .. Len(facts) + 1
          PROVE  facts'[i].path = Roles[i]
      <4>1. CASE i = Len(facts) + 1
        BY <2>1, <3>1, <4>1
      <4>2. CASE i \in DOMAIN facts
        BY <1>3, <3>1, <4>2 DEF Noticed
      <4> QED
        BY <1>3, <4>1, <4>2
    <3> QED
      BY <1>3, <2>3, <3>2 DEF Noticed
  <2> QED
    BY <2>2, <2>3
<1>7. Contained'
  BY DEF Contained, LexicalDenial
<1> QED
  BY <1>1, <1>4, <1>5, <1>6, <1>7 DEF Faithful, Granted, DenialIsTrue

(* The world changes while the paths are inspected.                          *)
LEMMA ChangeKeeps ==
    ASSUME PolicyInv, NEW flaw \in Flaws, Change(flaw)
    PROVE  PolicyInv'
<1> USE DEF PolicyInv
<1>1. /\ probing /\ decision = "none" /\ lasting' = lasting \cap world'
      /\ occurred' = occurred \cup world'
      /\ UNCHANGED <<request, facts, probing, decision, ticket, raised>>
  BY DEF Change, Types, PolicyTypeOK
<1>2. world' \subseteq Flaws
  BY DEF Change, Types, PolicyTypeOK
<1>3. Types'
  BY <1>1, <1>2 DEF Types, PolicyTypeOK
<1>4. ASSUME NEW i \in DOMAIN facts'
      PROVE  Taken(facts[i])'
  <2>1. i \in DOMAIN facts /\ facts'[i] = facts[i]
    BY <1>1
  <2>2. Taken(facts[i])
    BY <2>1 DEF Faithful
  <2>3. lasting' \subseteq lasting /\ occurred \subseteq occurred'
    BY <1>1
  <2> HIDE DEF PolicyInv
  <2> QED
    BY <2>1, <2>2, <2>3 DEF Taken
<1> QED
  BY <1>1, <1>3, <1>4 DEF Faithful, Noticed, Contained, LexicalDenial, Granted, DenialIsTrue

(* The denials of the last step are true.                                    *)
LEMMA DecideDenies ==
    ASSUME PolicyInv, probing, Inspected, NEW denial,
           denial = IF FirstFactDenial # "none" THEN FirstFactDenial ELSE TicketDenial
    PROVE  \/ denial \notin {"none", "ticket"} /\ denial \in Denials /\
              (\/ denial \in {Checks[i].denial : i \in {j \in DOMAIN Checks :
                     \E r \in RoleSet : <<r, Checks[j].check>> \in occurred}}
               \/ denial = "api_error" /\ raised
               \/ denial = "escapes_root" /\ <<"source_file", "outside">> \in occurred
               \/ denial = "wrong_type" /\ \E r \in RoleSet : <<r, "kind">> \in occurred
               \/ denial = "different_volume" /\ \E r, s \in RoleSet :
                     <<r, "volume">> \in occurred /\ <<s, "volume">> \notin lasting)
           \/ denial = "none" /\ ~ raised /\ FirstFactDenial = "none" /\ TicketDenial = "none"
<1> USE DEF PolicyInv
<1>1. /\ DOMAIN facts = 1 .. 3
      /\ \A i \in 1 .. 3 : facts[i] \in FactRecords /\ Taken(facts[i])
      /\ \A i \in 1 .. 3 : facts[i].path \in RoleSet /\ facts[i].role = facts[i].path
  BY FactsInOrder, RoleFacts DEF Inspected, Faithful, Taken, FactRecords
<1> HIDE DEF PolicyInv
<1>2. CASE \E i \in DOMAIN facts : FirstFactDenial = "api_error" /\
               (facts[i].path # Roles[i] \/ facts[i].role # Roles[i])
  <2>1. raised
    BY <1>1, <1>2 DEF PolicyInv, Noticed
  <2> QED
    BY <1>2, <2>1 DEF Denials
<1>3. CASE \E i \in DOMAIN facts : \E j \in DOMAIN Checks :
               Checks[j].check \in facts[i].failing /\ FirstFactDenial = Checks[j].denial
  <2>1. PICK i \in DOMAIN facts, j \in DOMAIN Checks :
            Checks[j].check \in facts[i].failing /\ FirstFactDenial = Checks[j].denial
    BY <1>3
  <2>2. <<facts[i].path, Checks[j].check>> \in occurred
    BY <1>1, <2>1 DEF Taken, CheckNames
  <2>3. denial = Checks[j].denial /\ denial \notin {"none", "ticket"}
    BY <2>1, Rules
  <2> QED
    BY <1>1, <2>2, <2>3 DEF Denials
<1>4. CASE /\ FirstFactDenial = "none"
           /\ \A i \in DOMAIN facts : facts[i].path = Roles[i] /\ facts[i].failing = {}
  <2>1. denial = TicketDenial
    BY <1>4
  <2>2. ~ raised
    BY <1>4 DEF PolicyInv, Noticed
  <2>3. \A i \in 1 .. 3 : facts[i].path = Roles[i] /\ Roles[i] \in RoleSet
    BY <1>1, <1>4
  <2>4. CASE TicketDenial = "escapes_root" /\ ~ facts[2].within
    <3>1. <<"source_file", "outside">> \in occurred
      BY <1>1, <2>3, <2>4, RoleFacts DEF Taken
    <3> QED
      BY <2>1, <2>4, <3>1 DEF Denials
  <2>5. CASE TicketDenial = "wrong_type" /\ \E i \in DOMAIN facts : facts[i].kind # ExpectedKind(Roles[i])
    <3>1. PICK i \in 1 .. 3 : facts[i].kind # ExpectedKind(facts[i].path)
      BY <1>1, <2>3, <2>5
    <3>2. <<facts[i].path, "kind">> \in occurred
      BY <1>1, <3>1 DEF Taken
    <3> QED
      BY <1>1, <2>1, <2>5, <3>2 DEF Denials
  <2>6. CASE TicketDenial = "different_volume" /\ \E i, j \in DOMAIN facts : facts[i].volume # facts[j].volume
    <3>1. PICK i \in 1 .. 3, j \in 1 .. 3 : facts[i].volume = "second" /\ facts[j].volume # "second"
      BY <1>1, <2>6 DEF FactRecords
    <3>2. <<facts[i].path, "volume">> \in occurred /\ <<facts[j].path, "volume">> \notin lasting
      BY <1>1, <3>1 DEF Taken
    <3> QED
      BY <1>1, <2>1, <2>6, <3>2 DEF Denials
  <2>7. CASE TicketDenial = "none"
    BY <1>4, <2>1, <2>2, <2>7
  <2> QED
    BY <2>4, <2>5, <2>6, <2>7, TicketDenied DEF PolicyInv
<1> QED
  BY <1>2, <1>3, <1>4, FirstDenial DEF PolicyInv

LEMMA DecideKeeps ==
    ASSUME PolicyInv, Decide
    PROVE  PolicyInv'
<1> DEFINE denial == IF FirstFactDenial # "none" THEN FirstFactDenial ELSE TicketDenial
<1>1. /\ probing /\ Inspected /\ ~ probing'
      /\ IF denial # "none" THEN Deny(denial) ELSE decision' = "ticket" /\ ticket' = facts
      /\ UNCHANGED <<world, changes, request, facts, raised, lasting, occurred>>
  BY DEF Decide
<1>2. probing' \in BOOLEAN
  BY DEF Decide
<1>3. Faithful' /\ Contained'
  BY <1>1 DEF PolicyInv, Faithful, Taken, Contained
<1>4. request = [valid |-> TRUE, source |-> "below"]
  BY <1>1, LexicallyDenied DEF PolicyInv, Contained
<1>5. DOMAIN facts = 1 .. 3
  BY <1>1, FactsInOrder, RoleFacts DEF PolicyInv, Inspected
<1>6. facts # <<>>
  BY <1>1, RoleFacts DEF Inspected
<1> HIDE DEF denial
<1>7. CASE denial # "none"
  <2>1. decision' = denial /\ ticket' = <<>>
    BY <1>1, <1>7 DEF Deny
  <2>2. denial \in Denials /\ denial \notin {"none", "ticket"}
    BY <1>1, <1>7, DecideDenies DEF denial
  <2>3. Types'
    BY <1>1, <1>2, <2>1, <2>2 DEF PolicyInv, Types, PolicyTypeOK
  <2>4. DenialIsTrue'
    BY <1>1, <1>7, <2>1, DecideDenies DEF denial, DenialIsTrue
  <2> QED
    BY <1>1, <1>3, <2>1, <2>2, <2>3, <2>4 DEF PolicyInv, Noticed, Granted
<1>8. CASE denial = "none"
  <2>1. decision' = "ticket" /\ ticket' = facts
    BY <1>1, <1>8
  <2>2. ~ raised /\ FirstFactDenial = "none" /\ TicketDenial = "none"
    BY <1>1, <1>8, DecideDenies DEF denial
  <2>3. Types'
    BY <1>1, <1>2, <1>6, <2>1 DEF PolicyInv, Types, PolicyTypeOK
  <2>4. \A i \in 1 .. 3 : facts[i].path = Roles[i] /\ facts[i].failing = {}
    BY <1>5, <2>2, FirstDenial, Rules DEF PolicyInv
  <2>5. /\ facts[2].within
        /\ \A i \in 1 .. 3 : facts[i].kind = ExpectedKind(Roles[i])
        /\ \A i, j \in 1 .. 3 : facts[i].volume = facts[j].volume
    BY <1>1, <1>5, <2>2, TicketDenied DEF PolicyInv
  <2>6. Granted'
    BY <1>1, <1>4, <1>5, <2>2, <2>4, <2>5 DEF Granted
  <2> QED
    BY <1>1, <1>3, <2>1, <2>3, <2>6 DEF PolicyInv, Noticed, DenialIsTrue
<1> QED
  BY <1>7, <1>8

LEMMA ValidateKeeps ==
    ASSUME PolicyInv, Validate
    PROVE  PolicyInv'
<1>1. /\ ~ probing /\ decision = "none"
      /\ UNCHANGED <<world, changes, request, facts, raised, lasting, occurred>>
  BY DEF Validate
<1>2. Faithful'
  BY <1>1 DEF PolicyInv, Faithful, Taken
<1>3. LexicalDenial' = LexicalDenial
  BY <1>1 DEF LexicalDenial
<1>4. CASE LexicalDenial # "none"
  <2>1. decision' = LexicalDenial /\ ticket' = <<>> /\ probing' = probing
    BY <1>4 DEF Validate, Deny
  <2>2. LexicalDenial \in Denials /\ LexicalDenial \notin {"none", "ticket"}
    BY <1>4, LexicallyDenied DEF PolicyInv, Denials
  <2>3. Types'
    BY <1>1, <2>1, <2>2 DEF PolicyInv, Types, PolicyTypeOK
  <2>4. DenialIsTrue'
    BY <1>1, <1>4, <2>1, LexicallyDenied DEF PolicyInv, DenialIsTrue
  <2> QED
    BY <1>1, <1>2, <2>1, <2>2, <2>3, <2>4 DEF PolicyInv, Noticed, Contained, Granted
<1>5. CASE LexicalDenial = "none"
  <2>1. decision' = "none" /\ ticket' = ticket /\ probing'
    BY <1>1, <1>5 DEF Validate
  <2>2. probing' \in BOOLEAN
    BY <1>5 DEF Validate
  <2>3. Types'
    BY <1>1, <2>1, <2>2 DEF PolicyInv, Types, PolicyTypeOK
  <2> QED
    BY <1>1, <1>2, <1>3, <1>5, <2>1, <2>3
    DEF PolicyInv, Noticed, Contained, Granted, DenialIsTrue
<1> QED
  BY <1>4, <1>5

LEMMA ErrorKeeps ==
    ASSUME PolicyInv, ProbeError
    PROVE  PolicyInv'
<1>1. /\ raised' = TRUE /\ probing' = FALSE /\ decision' = "api_error" /\ ticket' = <<>>
      /\ UNCHANGED <<world, changes, request, facts, lasting, occurred>>
  BY DEF ProbeError, Deny
<1>2. Types'
  BY <1>1 DEF PolicyInv, Types, PolicyTypeOK, Denials
<1>3. Faithful'
  BY <1>1 DEF PolicyInv, Faithful, Taken
<1> QED
  BY <1>1, <1>2, <1>3 DEF PolicyInv, Noticed, Contained, Granted, DenialIsTrue

LEMMA PolicyStep == PolicyInv /\ [Next]_vars => PolicyInv'
<1> SUFFICES ASSUME PolicyInv, [Next]_vars
             PROVE  PolicyInv'
  OBVIOUS
<1>1. CASE Validate
  BY <1>1, ValidateKeeps
<1>2. CASE Inspect
  <2> DEFINE role == Roles[Len(facts) + 1]
  <2>1. /\ probing /\ ~ Inspected /\ facts' = Append(facts, FactsOf(role)) /\ raised' = raised
        /\ UNCHANGED <<world, changes, request, probing, decision, ticket, lasting, occurred>>
    BY <1>2 DEF Inspect
  <2>2. Len(facts) + 1 \in 1 .. 3
    BY <2>1, FactsInOrder, RoleFacts DEF PolicyInv, Inspected
  <2>3. role \in RoleSet
    <3>1. \A n \in 1 .. 3 : Roles[n] \in RoleSet
      BY RoleFacts
    <3> QED
      BY <2>2, <3>1
  <2>4. raised' <=> (raised \/ role # Roles[Len(facts) + 1])
    BY <2>1
  <2> HIDE DEF role
  <2>5. raised' \in BOOLEAN
    BY <2>1 DEF PolicyInv, Types
  <2> QED
    BY <2>1, <2>3, <2>4, <2>5, FactAppended
<1>3. CASE InspectAnother
  <2>1. PICK other \in RoleSet \ {Roles[Len(facts) + 1]} : facts' = Append(facts, FactsOf(other))
    BY <1>3 DEF InspectAnother
  <2>2. /\ probing /\ ~ Inspected /\ raised' = TRUE
        /\ UNCHANGED <<world, changes, request, probing, decision, ticket, lasting, occurred>>
    BY <1>3 DEF InspectAnother
  <2>3. raised' <=> (raised \/ other # Roles[Len(facts) + 1])
    BY <2>1, <2>2
  <2> QED
    BY <2>1, <2>2, <2>3, FactAppended
<1>4. CASE ProbeError
  BY <1>4, ErrorKeeps
<1>5. CASE Decide
  BY <1>5, DecideKeeps
<1>6. CASE \E flaw \in Flaws : Change(flaw)
  BY <1>6, ChangeKeeps
<1>7. CASE Done \/ UNCHANGED vars
  <2>1. UNCHANGED vars
    BY <1>7 DEF Done
  <2> QED
    BY <2>1 DEF vars, PolicyInv, Types, PolicyTypeOK, Faithful, Taken, Noticed, Contained,
                LexicalDenial, Granted, DenialIsTrue
<1> QED
  BY <1>1, <1>2, <1>3, <1>4, <1>5, <1>6, <1>7 DEF Next

LEMMA PolicyInvariant == Spec => []PolicyInv
<1> QED
  BY PolicyInit, PolicyStep, PTL DEF Spec

-----------------------------------------------------------------------------
(* The theorems. *)

(* A ticket carries facts and nothing else does, and no decision is made     *)
(* while the paths are inspected (evaluate_path_policy).                     *)
THEOREM PolicyTypes == Spec => []PolicyTypeOK
<1>1. PolicyInv => PolicyTypeOK
  BY DEF PolicyInv, Types
<1> QED
  BY <1>1, PolicyInvariant, PTL

(* Whatever was against the three paths all the time, however often the      *)
(* rest changed while they were inspected, there is no ticket.               *)
THEOREM TicketsAreSafe == Spec => []NothingLastinglyUnsafe
<1>1. PolicyInv => NothingLastinglyUnsafe
  <2> SUFFICES ASSUME PolicyInv, decision = "ticket"
               PROVE  /\ \A flaw \in lasting : flaw[2] = "volume"
                      /\ \A r, s \in RoleSet :
                             <<r, "volume">> \in lasting => <<s, "volume">> \in occurred
                      /\ ~ raised
                      /\ request = [valid |-> TRUE, source |-> "below"]
    BY Zenon DEF NothingLastinglyUnsafe
  <2>1. Types /\ ~ raised
    BY DEF PolicyInv, Granted
  <2>2. request = [valid |-> TRUE, source |-> "below"]
    BY DEF PolicyInv, Granted
  <2>3. \A i \in 1 .. 3 : facts[i] \in FactRecords /\ Taken(facts[i])
    BY <2>1, FactsInOrder DEF PolicyInv, Granted, Faithful
  <2>4. \A i \in 1 .. 3 : facts[i].path = Roles[i] /\ facts[i].failing = {}
    BY DEF PolicyInv, Granted
  <2>5. /\ facts[2].within
        /\ \A i \in 1 .. 3 : facts[i].kind = ExpectedKind(Roles[i])
        /\ \A i, j \in 1 .. 3 : facts[i].volume = facts[j].volume
    BY DEF PolicyInv, Granted
  <2>6. \A r \in RoleSet : \E i \in 1 .. 3 : facts[i].path = r
    BY <2>4, RoleFacts
  <2>7. ASSUME NEW flaw \in lasting
        PROVE  flaw[2] = "volume"
    <3>1. flaw \in Flaws
      BY <2>1 DEF Types, PolicyTypeOK
    <3>2. CASE flaw = <<"source_file", "outside">>
      BY <2>3, <2>4, <2>5, <3>2, RoleFacts DEF Taken
    <3>3. CASE flaw \in RoleSet \X (CheckNames \cup {"kind", "volume"})
      <4>1. PICK r \in RoleSet, x \in CheckNames \cup {"kind", "volume"} : flaw = <<r, x>>
        BY <3>3
      <4>2. PICK i \in 1 .. 3 : facts[i].path = r
        BY <2>6
      <4>3. x \notin CheckNames
        BY <2>3, <2>4, <4>1, <4>2 DEF Taken
      <4>4. x # "kind"
        BY <2>3, <2>4, <2>5, <4>1, <4>2 DEF Taken
      <4> QED
        BY <4>1, <4>3, <4>4
    <3> QED
      BY <3>1, <3>2, <3>3 DEF Flaws
  <2>8. ASSUME NEW r \in RoleSet, NEW s \in RoleSet, <<r, "volume">> \in lasting
        PROVE  <<s, "volume">> \in occurred
    <3>1. PICK i \in 1 .. 3, j \in 1 .. 3 : facts[i].path = r /\ facts[j].path = s
      BY <2>6
    <3>2. facts[j].volume = "second"
      BY <2>3, <2>5, <2>8, <3>1 DEF Taken
    <3> QED
      BY <2>3, <3>1, <3>2 DEF Taken
  <2> QED
    BY <2>1, <2>2, <2>7, <2>8
<1> QED
  BY <1>1, PolicyInvariant, PTL

(* Every denial names something that was the case during the evaluation and  *)
(* hands out no facts.                                                       *)
THEOREM DenialsAreTrue == Spec => []DenialIsTrue
<1>1. PolicyInv => DenialIsTrue
  BY DEF PolicyInv
<1> QED
  BY <1>1, PolicyInvariant, PTL
=============================================================================
