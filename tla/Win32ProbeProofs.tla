------------------------- MODULE Win32ProbeProofs -------------------------
(* Theorems about Win32Probe, for a chain of any length, any objects and     *)
(* any number of changes of the file system.                                 *)
EXTENDS Win32Probe, FiniteSetTheorems, SequenceTheorems, WellFoundedInduction, TLAPS

(* The least of some numbers.                                                *)
LEMMA LeastNumber ==
    ASSUME NEW S, S \subseteq Nat, S # {}
    PROVE  \E i \in S : \A j \in S : i <= j
<1>1. IsWellFoundedOn(OpToRel(<, Nat), Nat)
  BY NatLessThanWellFounded
<1>2. PICK x \in S : \A y \in S : ~ (<<y, x>> \in OpToRel(<, Nat))
  BY <1>1, WFMin
<1>3. \A y \in S : x <= y
  <2> SUFFICES ASSUME NEW y \in S
               PROVE  x <= y
    OBVIOUS
  <2>1. ~ (<<y, x>> \in OpToRel(<, Nat))
    BY <1>2
  <2>2. ~ (y < x)
    BY <2>1 DEF OpToRel
  <2> QED
    BY <2>2
<1> QED
  BY <1>3

(* What the rules are made of.                                               *)
LEMMA Rules ==
    /\ DOMAIN Checks = 1 .. 12
    /\ \A i \in 1 .. 12 : Checks[i].denial \notin {"none", "ticket"}
    /\ \A c \in CheckNames : \E i \in 1 .. 12 : Checks[i].check = c
    /\ CheckNames \cap {"kind", "volume", "outside"} = {}
<1>1. DOMAIN Checks = 1 .. 12
  BY DEF Checks
<1> DEFINE Plain(i) == /\ Checks[i].denial \notin {"none", "ticket"}
                       /\ Checks[i].check \notin {"kind", "volume", "outside"}
<1>2. /\ Plain(1) /\ Plain(2) /\ Plain(3) /\ Plain(4) /\ Plain(5) /\ Plain(6)
      /\ Plain(7) /\ Plain(8) /\ Plain(9) /\ Plain(10) /\ Plain(11) /\ Plain(12)
  BY DEF Checks
<1> HIDE DEF Plain
<1>3. \A i \in 1 .. 12 : Plain(i)
  <2> SUFFICES ASSUME NEW i \in 1 .. 12
               PROVE  Plain(i)
    OBVIOUS
  <2>1. \/ i = 1 \/ i = 2 \/ i = 3 \/ i = 4 \/ i = 5 \/ i = 6
        \/ i = 7 \/ i = 8 \/ i = 9 \/ i = 10 \/ i = 11 \/ i = 12
    OBVIOUS
  <2> QED
    BY <1>2, <2>1
<1> QED
  BY <1>1, <1>3 DEF CheckNames, Plain

(* _unsafe_fact_denial says "none" only of a fact that fails no check, and   *)
(* else the denial of a check that it fails.                                 *)
LEMMA UnsafeFact ==
    ASSUME NEW failing
    PROVE  \/ UnsafeFactDenial(failing) = "none" /\ failing \cap CheckNames = {}
           \/ \E i \in DOMAIN Checks :
                  Checks[i].check \in failing /\ UnsafeFactDenial(failing) = Checks[i].denial
<1> DEFINE failed == {i \in DOMAIN Checks : Checks[i].check \in failing}
<1>1. failed \subseteq 1 .. 12
  BY Rules
<1>2. CASE failed = {}
  <2>1. UnsafeFactDenial(failing) = "none"
    BY <1>2 DEF UnsafeFactDenial
  <2>2. failing \cap CheckNames = {}
    BY <1>2 DEF CheckNames
  <2> QED
    BY <2>1, <2>2
<1>3. CASE failed # {}
  <2> DEFINE least == CHOOSE i \in failed : \A j \in failed : i <= j
  <2>1. least \in failed
    <3>1. failed \subseteq Nat
      BY <1>1
    <3>2. PICK i \in failed : \A j \in failed : i <= j
      BY <1>3, <3>1, LeastNumber
    <3> QED
      BY <3>2
  <2>2. UnsafeFactDenial(failing) = Checks[least].denial
    BY <1>3 DEF UnsafeFactDenial
  <2> QED
    BY <2>1, <2>2
<1> QED
  BY <1>2, <1>3

-----------------------------------------------------------------------------
LEMMA PairFacts ==
    ASSUME root \in Paths
    PROVE  /\ Len(Pairs) = Length + 2 /\ Pairs \in Seq(Paths)
           /\ DOMAIN Pairs = 1 .. Length + 2
           /\ Pairs[1] = Length /\ Pairs[2] = root
           /\ \A p \in 1 .. Length : Pairs[p + 2] = p
           /\ \A k \in 1 .. Length + 2 : Pairs[k] \in Paths
<1> DEFINE chain == [i \in 1 .. Length |-> i]
<1>1. chain \in Seq(Paths) /\ Len(chain) = Length
  BY Win32Chain DEF Paths
<1>2. root \in Paths /\ Length \in Paths
  BY Win32Chain DEF Paths
<1>3. <<Length, root>> \in Seq(Paths) /\ Len(<<Length, root>>) = 2
  BY <1>2
<1>4. Pairs = <<Length, root>> \o chain
  BY DEF Pairs
<1>5. \A p \in 1 .. Length : chain[p] = p
  OBVIOUS
<1> HIDE DEF chain
<1>6. Pairs \in Seq(Paths) /\ Len(Pairs) = Length + 2
  BY <1>1, <1>3, <1>4, Win32Chain
<1>7. Pairs[1] = Length /\ Pairs[2] = root
  BY <1>1, <1>3, <1>4, Win32Chain
<1>8. \A p \in 1 .. Length : Pairs[p + 2] = p
  BY <1>1, <1>3, <1>4, <1>5, Win32Chain
<1>9. DOMAIN Pairs = 1 .. Length + 2
  BY <1>6
<1>10. \A k \in 1 .. Length + 2 : Pairs[k] \in Paths
  BY <1>6, <1>9
<1> QED
  BY <1>6, <1>7, <1>8, <1>9, <1>10

-----------------------------------------------------------------------------
(* The state.                                                                *)
Present == [nature : Natures, version : Nat]
Seen == {"main", "second", "remote"}
Vias == [path : Paths, version : Nat]
Info == [object : Present, volume : Seen, via : Vias]
Observation == [path : Paths, info : Info, stable : BOOLEAN]

\* An object that was there before the last change.
Old(o) == o # Absent => o \in Present /\ o.version <= changes

TypesInv ==
    /\ changes \in Nat
    /\ disturbed \in BOOLEAN
    /\ root \in Paths
    /\ role = "source_file" => root \in 1 .. Length - 1
    /\ via \in Vias
    /\ world \in [Paths -> Present \cup {Absent}] /\ \A p \in Paths : Old(world[p])
    /\ mid \in [Paths -> Present \cup {Absent}] /\ \A p \in Paths : Old(mid[p])
    /\ handle \in Present \cup {Absent} /\ Old(handle)
    /\ first = <<>> \/ \E i \in Info \cup {Nothing} : first = <<i>> /\ Old(i.object)
    /\ observations \in Seq(Observation) /\ Len(observations) <= Length + 2
    /\ \A i \in DOMAIN observations : Old(observations[i].info.object)
    /\ confirmed \subseteq Range(Pairs)
    /\ outcome \in {"running", "missing", "error", "coherent", "incoherent"}

StageInv ==
    /\ \A i \in DOMAIN observations : observations[i].path = Pairs[i]
    /\ outcome # "running" => handle = Absent
    /\ PairsDone => first = <<>>
    /\ ~ PairsDone => confirmed = {}
    /\ Reported => PairsDone
    /\ outcome = "running" /\ PairsDone => ~ (Range(Pairs) \subseteq confirmed)
    /\ outcome = "coherent" => Range(Pairs) \subseteq confirmed

(* What is found out of an object is true of it, or it is not there any more. *)
SeenInv ==
    /\ first # <<>> /\ first[1].object # Absent =>
           \/ first[1].volume = VolumeOf(first[1].object)
           \/ world[CurrentPath] # first[1].object /\ handle # first[1].object
    /\ \A i \in DOMAIN observations :
           observations[i].stable =>
               observations[i].info.volume = VolumeOf(observations[i].info.object)

(* An object the final sweep finds again was there when the pairs were done.  *)
SweepInv ==
    /\ \A i \in DOMAIN observations :
           mid[Pairs[i]] # observations[i].info.object =>
               world[Pairs[i]] # observations[i].info.object
    /\ PairsDone /\ handle # Absent =>
           \A i \in DOMAIN observations :
               Pairs[i] = CurrentPath /\ observations[i].info.object = handle =>
                   mid[CurrentPath] = handle
    /\ outcome \in {"running", "coherent"} =>
           \A p \in confirmed : mid[p] = Latest(p).object

ProbeInv == TypesInv /\ StageInv /\ SeenInv /\ SweepInv

(* Nothing is disturbed: everything that was read is what is there.          *)
InfoOf(p) == IF world[p] = Absent THEN Nothing
             ELSE [object |-> world[p], volume |-> VolumeOf(world[p]), via |-> Via(p)]

QuietInv ==
    ~ disturbed =>
        /\ handle = Absent \/ (handle = world[CurrentPath] /\ via = Via(CurrentPath))
        /\ first = <<>> \/ first[1] = InfoOf(CurrentPath)
        /\ \A i \in DOMAIN observations :
               observations[i].info = InfoOf(Pairs[i]) /\ observations[i].stable
        /\ outcome = "missing" => world[Length] = Absent
        /\ outcome # "incoherent"

-----------------------------------------------------------------------------
(* Which path is inspected, and what was last observed of a path.            *)
LEMMA RangeOfPairs ==
    ASSUME root \in Paths
    PROVE  /\ \A p \in 1 .. Length : p \in Range(Pairs)
           /\ \A p \in Range(Pairs) : p \in Paths /\ \E k \in 1 .. Length + 2 : Pairs[k] = p
           /\ \A k \in 1 .. Length + 2 : Pairs[k] \in Range(Pairs)
<1>1. Range(Pairs) = {Pairs[k] : k \in 1 .. Length + 2}
  BY PairFacts DEF Range
<1>2. \A p \in 1 .. Length : p + 2 \in 1 .. Length + 2 /\ Pairs[p + 2] = p
  BY PairFacts, Win32Chain
<1> QED
  BY <1>1, <1>2, PairFacts

LEMMA CurrentFacts ==
    ASSUME TypesInv, StageInv, outcome = "running"
    PROVE  /\ CurrentPath \in Range(Pairs) /\ CurrentPath \in Paths
           /\ ~ PairsDone => /\ CurrentPath = Pairs[Len(observations) + 1]
                             /\ Len(observations) + 1 \in 1 .. Length + 2
<1>1. root \in Paths
  BY DEF TypesInv
<1>2. CASE ~ PairsDone
  <2>1. Len(observations) \in Nat /\ Len(observations) <= Length + 2
    BY DEF TypesInv
  <2>2. Len(observations) # Length + 2
    BY <1>1, <1>2, PairFacts DEF PairsDone
  <2>3. Len(observations) + 1 \in 1 .. Length + 2
    BY <2>1, <2>2, Win32Chain
  <2>4. CurrentPath = Pairs[Len(observations) + 1]
    BY <1>2 DEF CurrentPath
  <2> QED
    BY <1>1, <1>2, <2>3, <2>4, RangeOfPairs
<1>3. CASE PairsDone
  <2> DEFINE open == {i \in 1 .. Len(Pairs) : Pairs[i] \notin confirmed}
  <2>1. PICK p \in Range(Pairs) : p \notin confirmed
    BY <1>3 DEF StageInv
  <2>2. PICK k \in 1 .. Length + 2 : Pairs[k] = p
    BY <1>1, RangeOfPairs
  <2>3. k \in open
    BY <1>1, <2>1, <2>2, PairFacts
  <2>4. open \subseteq Nat
    OBVIOUS
  <2>5. PICK i \in open : \A j \in open : i <= j
    BY <2>3, <2>4, LeastNumber
  <2>6. Min(open) \in open
    BY <2>5 DEF Min
  <2>7. SelectInSeq(Pairs, LAMBDA q : q \notin confirmed) = Min(open)
    BY <2>3 DEF SelectInSeq
  <2>8. CurrentPath = Pairs[Min(open)]
    BY <1>3, <2>7 DEF CurrentPath
  <2>9. Min(open) \in 1 .. Length + 2
    BY <1>1, <2>6, PairFacts
  <2> QED
    BY <1>1, <1>3, <2>8, <2>9, RangeOfPairs
<1> QED
  BY <1>2, <1>3

LEMMA LatestFacts ==
    ASSUME TypesInv, StageInv, PairsDone
    PROVE  /\ DOMAIN observations = 1 .. Length + 2
           /\ \A p \in Range(Pairs) : \E i \in DOMAIN observations :
                  Pairs[i] = p /\ Latest(p) = observations[i].info
           /\ \A p \in 1 .. Length : Latest(p) = observations[p + 2].info
<1>1. root \in Paths
  BY DEF TypesInv
<1>2. Len(observations) = Length + 2
  BY <1>1, PairFacts DEF PairsDone
<1>3. DOMAIN observations = 1 .. Length + 2
  BY <1>2 DEF TypesInv
<1>4. ASSUME NEW p, NEW k \in 1 .. Length + 2, Pairs[k] = p,
             \A i \in 1 .. Length + 2 : Pairs[i] = p => i <= k
      PROVE  Latest(p) = observations[k].info
  <2> DEFINE of == {i \in 1 .. Len(observations) : observations[i].path = p}
  <2>1. of = {i \in 1 .. Length + 2 : Pairs[i] = p}
    BY <1>2, <1>3 DEF StageInv
  <2>2. k \in of /\ \A i \in of : k >= i
    BY <1>4, <2>1, Win32Chain
  <2>3. of \subseteq Nat
    OBVIOUS
  <2>4. \A m \in of : (\A i \in of : m >= i) => m = k
    BY <2>2, <2>3
  <2>5. Max(of) = k
    BY <2>2, <2>4 DEF Max
  <2>6. SelectLastInSeq(observations, LAMBDA o : o.path = p) = Max(of)
    BY <2>2 DEF SelectLastInSeq
  <2> QED
    BY <2>5, <2>6 DEF Latest
<1>5. \A p \in 1 .. Length : Latest(p) = observations[p + 2].info
  <2> SUFFICES ASSUME NEW p \in 1 .. Length
               PROVE  Latest(p) = observations[p + 2].info
    OBVIOUS
  <2>1. p + 2 \in 1 .. Length + 2 /\ Pairs[p + 2] = p
    BY <1>1, PairFacts, Win32Chain
  <2>2. ASSUME NEW i \in 1 .. Length + 2, Pairs[i] = p, i > p + 2
        PROVE  FALSE
    <3>1. i - 2 \in 1 .. Length /\ (i - 2) + 2 = i
      BY <2>2, Win32Chain
    <3>2. Pairs[i] = i - 2
      BY <1>1, <3>1, PairFacts
    <3> QED
      BY <2>2, <3>2
  <2>3. \A i \in 1 .. Length + 2 : Pairs[i] = p => i <= p + 2
    BY <2>2, Win32Chain
  <2> QED
    BY <1>4, <2>1, <2>3
<1>6. \A p \in Range(Pairs) : \E i \in DOMAIN observations :
          Pairs[i] = p /\ Latest(p) = observations[i].info
  <2> SUFFICES ASSUME NEW p \in Range(Pairs)
               PROVE  \E i \in DOMAIN observations :
                          Pairs[i] = p /\ Latest(p) = observations[i].info
    OBVIOUS
  <2>1. CASE p \in 1 .. Length
    <3>1. p + 2 \in 1 .. Length + 2 /\ Pairs[p + 2] = p
      BY <1>1, <2>1, PairFacts, Win32Chain
    <3> QED
      BY <1>3, <1>5, <2>1, <3>1
  <2>2. CASE p \notin 1 .. Length
    <3>1. PICK k \in 1 .. Length + 2 : Pairs[k] = p
      BY <1>1, RangeOfPairs
    <3>2. ASSUME NEW i \in 1 .. Length + 2, Pairs[i] = p
          PROVE  i = 2
      <4>1. i # 1
        BY <1>1, <2>2, <3>2, PairFacts, Win32Chain
      <4>2. ASSUME i > 2
            PROVE  FALSE
        <5>1. i - 2 \in 1 .. Length /\ (i - 2) + 2 = i
          BY <4>2, Win32Chain
        <5>2. Pairs[i] = i - 2
          BY <1>1, <5>1, PairFacts
        <5> QED
          BY <2>2, <3>2, <5>1, <5>2
      <4> QED
        BY <4>1, <4>2
    <3>3. k = 2 /\ \A i \in 1 .. Length + 2 : Pairs[i] = p => i <= k
      BY <3>1, <3>2
    <3>4. Latest(p) = observations[k].info
      BY <1>4, <3>1, <3>3
    <3> QED
      BY <1>3, <3>1, <3>4
  <2> QED
    BY <2>1, <2>2
<1> QED
  BY <1>3, <1>5, <1>6

-----------------------------------------------------------------------------
(* The steps.                                                                *)

\* An inspection is over: it found nothing, or describes the open handle.
Inspects(info) ==
    /\ outcome = "running"
    /\ \/ info = Nothing /\ handle = Absent /\ world[CurrentPath] = Absent
       \/ /\ handle # Absent /\ info.object = handle /\ info.volume \in Details(CurrentPath)
          /\ info.via = via /\ info \in Info
    /\ Inspected(info)
    /\ handle' = Absent /\ via' \in Vias
    /\ UNCHANGED <<world, changes, disturbed, role, root>>

Opens ==
    /\ outcome = "running" /\ handle = Absent /\ world[CurrentPath] # Absent
    /\ handle' = world[CurrentPath] /\ via' = Via(CurrentPath)
    /\ UNCHANGED <<world, changes, disturbed, role, root, first, observations, confirmed, outcome,
                   mid>>

Changes(p) ==
    /\ outcome = "running"
    /\ changes' = changes + 1 /\ disturbed' = TRUE
    /\ \E o \in Present \cup {Absent} :
           (o # Absent => o.version = changes') /\ world' = [world EXCEPT ![p] = o]
    /\ UNCHANGED <<role, root, handle, via, first, observations, confirmed, outcome, mid>>

LEMMA AbsentFacts == Absent \notin Present /\ Nothing \notin Info
  BY Win32Natures DEF Absent, Present, Nothing, Info

LEMMA DetailsFacts ==
    \A p : Details(p) \subseteq Seen /\ (world[p] # Absent => Details(p) = {VolumeOf(world[p])})
  BY DEF Details, Seen, VolumeOf

LEMMA DirectFacts == Direct \in Vias /\ Direct.path = 0 /\ Nothing.object = Absent
  BY Win32Chain DEF Direct, Vias, Paths, Nothing

\* Direct, or the link at the last path above p where one is.
LEMMA ViaFacts ==
    ASSUME world \in [Paths -> Present \cup {Absent}], NEW p \in Paths
    PROVE  /\ Via(p) \in Vias
           /\ \/ Via(p) = Direct /\ \A q \in 1 .. p - 1 : ~ Reparse(world[q])
              \/ \E m \in 1 .. p - 1 :
                    /\ Reparse(world[m]) /\ \A q \in m + 1 .. p - 1 : ~ Reparse(world[q])
                    /\ Via(p) = [path |-> m, version |-> world[m].version]
<1> DEFINE links == {q \in 1 .. p - 1 : Reparse(world[q])}
<1>1. p \in Nat /\ p <= Length /\ Length \in Nat /\ \A q \in 1 .. p - 1 : q \in Paths
  BY Win32Chain DEF Paths
<1>2. CASE links = {}
  <2>1. Via(p) = Direct
    BY <1>2 DEF Via
  <2> QED
    BY <1>2, <2>1, DirectFacts
<1>3. CASE links # {}
  <2> DEFINE T == {t \in Nat : t <= p /\ p - t \in links}
  <2>1. T \subseteq Nat /\ T # {}
    <3>1. PICK q : q \in links
      BY <1>3
    <3>2. q \in 1 .. p - 1
      BY <3>1
    <3>3. PICK t : t = p - q
      OBVIOUS
    <3>4. t \in Nat /\ t <= p /\ p - t = q
      BY <1>1, <3>2, <3>3
    <3>5. t \in T
      BY <3>1, <3>4
    <3> QED
      BY <3>5
  <2>2. PICK t \in T : \A u \in T : t <= u
    <3> HIDE DEF T
    <3> QED
      BY <2>1, LeastNumber
  <2>3. PICK m : m = p - t
    OBVIOUS
  <2>4. m \in links /\ m \in 1 .. p - 1
    BY <2>2, <2>3
  <2>5. \A q \in links : m >= q
    <3> SUFFICES ASSUME NEW q \in links
                 PROVE  m >= q
      OBVIOUS
    <3>1. q \in 1 .. p - 1
      OBVIOUS
    <3>2. PICK u : u = p - q
      OBVIOUS
    <3>3. u \in Nat /\ u <= p /\ p - u = q
      BY <1>1, <3>1, <3>2
    <3>4. u \in T
      BY <3>3
    <3>5. t <= u /\ t \in Nat
      BY <2>2, <3>4
    <3> QED
      BY <1>1, <2>3, <3>1, <3>2, <3>3, <3>5
  <2> HIDE DEF T
  <2>6. \A k \in links : (\A q \in links : k >= q) => k = m
    <3> SUFFICES ASSUME NEW k \in links, \A q \in links : k >= q
                 PROVE  k = m
      OBVIOUS
    <3>1. k >= m /\ m >= k /\ k \in 1 .. p - 1
      BY <2>4, <2>5
    <3> QED
      BY <1>1, <2>4, <3>1
  <2>7. Max(links) = m
    <3> HIDE DEF links
    <3> QED
      BY <2>4, <2>5, <2>6 DEF Max
  <2>8. Via(p) = [path |-> m, version |-> world[m].version]
    BY <1>3, <2>7 DEF Via
  <2>9. Reparse(world[m]) /\ \A q \in m + 1 .. p - 1 : ~ Reparse(world[q])
    <3>1. \A q \in m + 1 .. p - 1 : q \in 1 .. p - 1 /\ ~ (m >= q)
      BY <1>1, <2>4
    <3> QED
      BY <2>4, <2>5, <3>1
  <2>10. m \in Paths /\ world[m] \in Present \cup {Absent}
    BY <1>1, <2>4
  <2>11. world[m].version \in Nat
    BY <2>10 DEF Present, Absent
  <2> QED
    BY <2>4, <2>8, <2>9, <2>10, <2>11 DEF Vias
<1> QED
  BY <1>2, <1>3

LEMMA StepKinds ==
    ASSUME TypesInv, StageInv, [Next]_vars
    PROVE  \/ \E info \in Info \cup {Nothing} : Inspects(info)
           \/ Opens
           \/ Raise
           \/ \E p \in Paths : Changes(p)
           \/ UNCHANGED vars
<1>1. ASSUME Open
      PROVE  Opens \/ Inspects(Nothing)
  <2>1. CASE world[CurrentPath] = Absent
    <3>1. /\ outcome = "running" /\ handle = Absent /\ Inspected(Nothing)
          /\ UNCHANGED <<world, changes, disturbed, role, root>> /\ UNCHANGED <<handle, via>>
      BY <1>1, <2>1 DEF Open
    <3>2. via' \in Vias
      BY <3>1 DEF TypesInv
    <3> QED
      BY <2>1, <3>1, <3>2 DEF Inspects
  <2>2. CASE world[CurrentPath] # Absent
    BY <1>1, <2>2 DEF Open, Opens
  <2> QED
    BY <2>1, <2>2
<1>2. ASSUME Describe
      PROVE  \E info \in Info \cup {Nothing} : Inspects(info)
  <2>1. PICK v \in Details(CurrentPath) :
            Inspected([object |-> handle, volume |-> v, via |-> via])
    BY <1>2 DEF Describe
  <2> DEFINE info == [object |-> handle, volume |-> v, via |-> via]
  <2>2. v \in Seen
    BY <2>1, DetailsFacts
  <2>3. handle # Absent /\ handle \in Present
    BY <1>2 DEF Describe, TypesInv
  <2>4. info \in Info /\ info.object = handle /\ info.volume = v /\ info.via = via
    BY <2>2, <2>3 DEF Info, TypesInv
  <2>5. outcome = "running"
    BY <2>3 DEF StageInv
  <2>6. handle' = Absent /\ via' \in Vias /\ UNCHANGED <<world, changes, disturbed, role, root>>
    BY <1>2, DirectFacts DEF Describe
  <2> HIDE DEF info
  <2>7. Inspected(info)
    BY <2>1 DEF info
  <2>8. Inspects(info)
    BY <2>1, <2>3, <2>4, <2>5, <2>6, <2>7 DEF Inspects
  <2> QED
    BY <2>4, <2>8
<1>3. ASSUME NEW p \in Paths, NEW n \in Natures \cup {"absent"}, Change(p, n)
      PROVE  Changes(p)
  <2>1. changes' \in Nat
    BY <1>3 DEF Change, TypesInv
  <2>2. CASE n = "absent"
    <3>1. world' = [world EXCEPT ![p] = Absent]
      BY <1>3, <2>2 DEF Change
    <3> QED
      BY <1>3, <3>1 DEF Change, Changes
  <2>3. CASE n # "absent"
    <3> DEFINE o == [nature |-> n, version |-> changes']
    <3>1. o \in Present /\ o.version = changes'
      BY <2>1, <2>3 DEF Present
    <3>2. world' = [world EXCEPT ![p] = o]
      BY <1>3, <2>3 DEF Change
    <3> HIDE DEF o
    <3> QED
      BY <1>3, <3>1, <3>2 DEF Change, Changes
  <2> QED
    BY <2>2, <2>3
<1> QED
  BY <1>1, <1>2, <1>3 DEF Next, Done

(* A change brings nothing back.                                             *)
LEMMA Gone ==
    ASSUME TypesInv, NEW p \in Paths, Changes(p)
    PROVE  /\ world' \in [Paths -> Present \cup {Absent}]
           /\ changes' \in Nat /\ changes' = changes + 1
           /\ \A q \in Paths : world'[q] = Absent \/ world'[q].version <= changes'
           /\ \A q \in Paths : \A o : o # Absent /\ Old(o) /\ world[q] # o => world'[q] # o
<1>1. PICK new \in Present \cup {Absent} :
          (new # Absent => new.version = changes') /\ world' = [world EXCEPT ![p] = new]
  BY DEF Changes
<1>2. changes \in Nat /\ changes' = changes + 1
  BY DEF Changes, TypesInv
<1>3. world \in [Paths -> Present \cup {Absent}] /\ \A q \in Paths : Old(world[q])
  BY DEF TypesInv
<1>4. \A q \in Paths : world'[q] = IF q = p THEN new ELSE world[q]
  BY <1>1, <1>3
<1>5. \A o : Old(o) /\ o # Absent => o.version \in Nat /\ o.version <= changes
  BY DEF Old, Present
<1>6. \A q \in Paths : world'[q] = Absent \/ world'[q].version <= changes'
  <2> SUFFICES ASSUME NEW q \in Paths, world'[q] # Absent
               PROVE  world'[q].version <= changes'
    OBVIOUS
  <2>1. CASE q = p
    BY <1>1, <1>2, <1>4, <2>1
  <2>2. CASE q # p
    <3>1. world'[q] = world[q] /\ Old(world[q])
      BY <1>3, <1>4, <2>2
    <3> QED
      BY <1>2, <1>5, <3>1
  <2> QED
    BY <2>1, <2>2
<1>7. \A q \in Paths : \A o : o # Absent /\ Old(o) /\ world[q] # o => world'[q] # o
  <2> SUFFICES ASSUME NEW q \in Paths, NEW o, o # Absent, Old(o), world[q] # o, world'[q] = o
               PROVE  FALSE
    OBVIOUS
  <2>1. q = p /\ o = new
    BY <1>4
  <2>2. o.version = changes + 1
    BY <1>1, <1>2, <2>1
  <2> QED
    BY <1>2, <1>5, <2>2
<1> QED
  BY <1>1, <1>2, <1>3, <1>6, <1>7

(* The path that is inspected, and what was observed, while nothing of it is *)
(* written.                                                                  *)
LEMMA SameStage ==
    ASSUME UNCHANGED <<root, observations, confirmed>>
    PROVE  /\ CurrentPath' = CurrentPath
           /\ PairsDone' <=> PairsDone
           /\ Pairs' = Pairs
           /\ \A p : Latest(p)' = Latest(p)
<1>1. Pairs' = Pairs /\ (PairsDone' <=> PairsDone)
  BY DEF Pairs, PairsDone
<1>2. SelectInSeq(Pairs, LAMBDA p : p \notin confirmed)'
      = SelectInSeq(Pairs, LAMBDA p : p \notin confirmed)
  BY <1>1 DEF SelectInSeq
<1>3. CurrentPath' = CurrentPath
  BY <1>1, <1>2 DEF CurrentPath
<1>4. ASSUME NEW p
      PROVE  Latest(p)' = Latest(p)
  <2>1. SelectLastInSeq(observations, LAMBDA o : o.path = p)'
        = SelectLastInSeq(observations, LAMBDA o : o.path = p)
    BY DEF SelectLastInSeq
  <2> QED
    BY <2>1 DEF Latest
<1> QED
  BY <1>1, <1>3, <1>4

(* What an inspection leaves behind, and the observation a pair ends with.   *)
LEMMA ObservationMade ==
    ASSUME TypesInv, StageInv, NEW info \in Info \cup {Nothing}, Inspects(info),
           SecondOfPair(info), first[1].object # Absent
    PROVE  LET o == [path |-> CurrentPath, info |-> first[1], stable |-> first[1] = info]
           IN  /\ o \in Observation /\ Old(o.info.object) /\ o.info = first[1]
               /\ o.path = CurrentPath /\ (o.stable <=> first[1] = info)
               /\ observations' = Append(observations, o)
               /\ observations' \in Seq(Observation)
               /\ Len(observations') = Len(observations) + 1
               /\ Len(observations) + 1 \in 1 .. Length + 2
               /\ CurrentPath = Pairs[Len(observations) + 1]
               /\ \A i \in DOMAIN observations' :
                      \/ i \in DOMAIN observations /\ observations'[i] = observations[i]
                      \/ i = Len(observations) + 1 /\ observations'[i] = o
<1> DEFINE o == [path |-> CurrentPath, info |-> first[1], stable |-> first[1] = info]
<1>1. PICK i \in Info \cup {Nothing} : first = <<i>> /\ Old(i.object)
  BY DEF TypesInv, SecondOfPair
<1>2. first[1] = i /\ i \in Info
  <2>1. first[1] = i
    BY <1>1
  <2>2. Nothing.object = Absent
    BY DEF Nothing
  <2> QED
    BY <2>1, <2>2
<1>3. outcome = "running" /\ ~ PairsDone
  BY DEF Inspects, SecondOfPair
<1>4. /\ CurrentPath \in Paths /\ CurrentPath = Pairs[Len(observations) + 1]
      /\ Len(observations) + 1 \in 1 .. Length + 2
  BY <1>3, CurrentFacts
<1>5. o \in Observation
  BY <1>2, <1>4 DEF Observation
<1>6. o.info = first[1] /\ Old(o.info.object)
  BY <1>1, <1>2
<1>7. o.path = CurrentPath /\ (o.stable <=> first[1] = info)
  OBVIOUS
<1>8. observations' = Append(observations, o)
  BY DEF SecondOfPair
<1>9. observations \in Seq(Observation)
  BY DEF TypesInv
<1> HIDE DEF o
<1>10. /\ observations' \in Seq(Observation)
       /\ Len(observations') = Len(observations) + 1
       /\ \A k \in DOMAIN observations' :
              \/ k \in DOMAIN observations /\ observations'[k] = observations[k]
              \/ k = Len(observations) + 1 /\ observations'[k] = o
  BY <1>5, <1>8, <1>9
<1> QED
  BY <1>4, <1>5, <1>6, <1>7, <1>8, <1>10 DEF o

LEMMA TypesStep ==
    ASSUME TypesInv, StageInv, [Next]_vars
    PROVE  TypesInv'
<1>1. ASSUME NEW info \in Info \cup {Nothing}, Inspects(info)
      PROVE  TypesInv'
  <2>1. /\ UNCHANGED <<world, changes, disturbed, role, root>> /\ handle' = Absent
        /\ via' \in Vias /\ outcome = "running" /\ Pairs' = Pairs
        /\ Old(info.object)
    <3>1. /\ UNCHANGED <<world, changes, disturbed, role, root>> /\ handle' = Absent
          /\ via' \in Vias
          /\ outcome = "running"
          /\ info = Nothing \/ info.object = handle
      BY <1>1 DEF Inspects
    <3>2. Pairs' = Pairs
      BY <3>1 DEF Pairs
    <3>3. Nothing.object = Absent
      BY DEF Nothing
    <3>4. Old(Nothing.object)
      BY <3>3 DEF Old
    <3>5. Old(handle)
      BY DEF TypesInv
    <3> QED
      BY <3>1, <3>2, <3>4, <3>5
  <2>2. CASE FirstOfPair(info)
    BY <1>1, <2>1, <2>2 DEF FirstOfPair, TypesInv, Old
  <2>3. CASE SecondOfPair(info) /\ first[1].object = Absent
    BY <2>1, <2>3 DEF SecondOfPair, TypesInv, Old
  <2>4. CASE SecondOfPair(info) /\ first[1].object # Absent
    <3> DEFINE o == [path |-> CurrentPath, info |-> first[1], stable |-> first[1] = info]
    <3>1. /\ Old(o.info.object)
          /\ observations' \in Seq(Observation)
          /\ Len(observations') = Len(observations) + 1
          /\ Len(observations) + 1 \in 1 .. Length + 2
          /\ \A i \in DOMAIN observations' :
                 \/ i \in DOMAIN observations /\ observations'[i] = observations[i]
                 \/ i = Len(observations) + 1 /\ observations'[i] = o
      BY <1>1, <2>4, ObservationMade
    <3>2. UNCHANGED <<confirmed, outcome>> /\ first' = <<>> /\ mid' = world
      BY <2>4 DEF SecondOfPair
    <3> HIDE DEF o
    <3>3. \A i \in DOMAIN observations' : Old(observations'[i].info.object)
      BY <3>1 DEF TypesInv
    <3> QED
      BY <2>1, <3>1, <3>2, <3>3, Win32Chain DEF TypesInv, Old
  <2>5. CASE Sweep(info)
    <3>1. CurrentPath \in Range(Pairs)
      BY <2>1, CurrentFacts
    <3>2. confirmed' = confirmed \cup {CurrentPath} /\ UNCHANGED <<first, observations, mid>>
      BY <2>5 DEF Sweep
    <3>3. outcome' \in {"running", "coherent", "incoherent"}
      BY <2>5 DEF Sweep
    <3> QED
      BY <2>1, <3>1, <3>2, <3>3 DEF TypesInv, Old
  <2> QED
    BY <1>1, <2>2, <2>3, <2>4, <2>5 DEF Inspects, Inspected
<1>2. ASSUME Opens
      PROVE  TypesInv'
  <2>1. CurrentPath \in Paths
    BY <1>2, CurrentFacts DEF Opens
  <2>2. handle' \in Present \cup {Absent} /\ Old(handle')
    BY <1>2, <2>1 DEF Opens, TypesInv
  <2>3. Pairs' = Pairs
    BY <1>2 DEF Opens, Pairs
  <2>4. via' \in Vias
    BY <1>2, <2>1, ViaFacts DEF Opens, TypesInv
  <2> QED
    BY <1>2, <2>2, <2>3, <2>4 DEF Opens, TypesInv, Old
<1>3. ASSUME Raise
      PROVE  TypesInv'
  BY <1>3, DirectFacts DEF Raise, TypesInv, Old, Pairs
<1>4. ASSUME NEW p \in Paths, Changes(p)
      PROVE  TypesInv'
  <2>1. /\ world' \in [Paths -> Present \cup {Absent}]
        /\ changes' \in Nat /\ changes' = changes + 1
        /\ \A q \in Paths : world'[q] = Absent \/ world'[q].version <= changes'
    BY <1>4, Gone
  <2>2. \A o : Old(o) => Old(o)'
    BY <2>1 DEF TypesInv, Old, Present
  <2>3. /\ UNCHANGED <<role, root, handle, via, first, observations, confirmed, outcome, mid>>
        /\ disturbed' = TRUE /\ Pairs' = Pairs
    BY <1>4 DEF Changes, Pairs
  <2>4. \A q \in Paths : Old(world[q])'
    BY <2>1 DEF Old
  <2>5. Old(handle)' /\ \A q \in Paths : Old(mid[q])'
    BY <2>2, <2>3 DEF TypesInv
  <2>6. (first = <<>> \/ \E i \in Info \cup {Nothing} : first = <<i>> /\ Old(i.object))'
    BY <2>2, <2>3 DEF TypesInv
  <2>7. (\A i \in DOMAIN observations : Old(observations[i].info.object))'
    BY <2>2, <2>3 DEF TypesInv
  <2> QED
    BY <2>1, <2>3, <2>4, <2>5, <2>6, <2>7 DEF TypesInv
<1>5. CASE UNCHANGED vars
  BY <1>5 DEF vars, TypesInv, Old, Pairs
<1> QED
  BY <1>1, <1>2, <1>3, <1>4, <1>5, StepKinds

LEMMA StageStep ==
    ASSUME TypesInv, StageInv, [Next]_vars
    PROVE  StageInv'
<1>1. ASSUME NEW info \in Info \cup {Nothing}, Inspects(info)
      PROVE  StageInv'
  <2>1. /\ root' = root /\ handle' = Absent /\ outcome = "running" /\ Pairs' = Pairs
    BY <1>1 DEF Inspects, Pairs
  <2>2. CASE FirstOfPair(info)
    BY <2>1, <2>2 DEF FirstOfPair, StageInv, PairsDone, Reported
  <2>3. CASE SecondOfPair(info) /\ first[1].object = Absent
    BY <2>1, <2>3 DEF SecondOfPair, StageInv, PairsDone, Reported
  <2>4. CASE SecondOfPair(info) /\ first[1].object # Absent
    <3> DEFINE o == [path |-> CurrentPath, info |-> first[1], stable |-> first[1] = info]
    <3>1. /\ o.path = CurrentPath
          /\ CurrentPath = Pairs[Len(observations) + 1]
          /\ \A i \in DOMAIN observations' :
                 \/ i \in DOMAIN observations /\ observations'[i] = observations[i]
                 \/ i = Len(observations) + 1 /\ observations'[i] = o
      BY <1>1, <2>4, ObservationMade
    <3>2. UNCHANGED <<confirmed, outcome>> /\ first' = <<>> /\ ~ PairsDone
      BY <2>4 DEF SecondOfPair
    <3>3. confirmed' = {}
      BY <3>2 DEF StageInv
    <3>4. ~ (Range(Pairs) \subseteq {})
      <4>1. 1 \in 1 .. Length /\ root \in Paths
        BY Win32Chain DEF TypesInv
      <4> QED
        BY <4>1, RangeOfPairs
    <3> HIDE DEF o
    <3>5. \A i \in DOMAIN observations' : observations'[i].path = Pairs[i]
      BY <3>1 DEF StageInv
    <3> QED
      BY <2>1, <3>2, <3>3, <3>4, <3>5 DEF StageInv, Reported
  <2>5. CASE Sweep(info)
    <3>1. PairsDone /\ PairsDone' /\ UNCHANGED <<first, observations>>
      BY <2>1, <2>5 DEF Sweep, PairsDone
    <3>2. /\ outcome' = "running" => ~ (Range(Pairs) \subseteq confirmed')
          /\ outcome' = "coherent" => Range(Pairs) \subseteq confirmed'
      BY <2>5 DEF Sweep
    <3> QED
      BY <2>1, <3>1, <3>2 DEF StageInv
  <2> QED
    BY <1>1, <2>2, <2>3, <2>4, <2>5 DEF Inspects, Inspected
<1>2. ASSUME Opens
      PROVE  StageInv'
  BY <1>2 DEF Opens, StageInv, PairsDone, Pairs, Reported
<1>3. ASSUME Raise
      PROVE  StageInv'
  BY <1>3 DEF Raise, StageInv, PairsDone, Pairs, Reported
<1>4. ASSUME NEW p \in Paths, Changes(p)
      PROVE  StageInv'
  BY <1>4 DEF Changes, StageInv, PairsDone, Pairs, Reported
<1>5. CASE UNCHANGED vars
  BY <1>5 DEF vars, StageInv, PairsDone, Pairs, Reported
<1> QED
  BY <1>1, <1>2, <1>3, <1>4, <1>5, StepKinds

LEMMA SeenStep ==
    ASSUME TypesInv, StageInv, SeenInv, [Next]_vars
    PROVE  SeenInv'
<1>1. ASSUME NEW info \in Info \cup {Nothing}, Inspects(info)
      PROVE  SeenInv'
  <2>1. /\ UNCHANGED <<world, root>> /\ handle' = Absent
        /\ outcome = "running"
        /\ \/ info = Nothing
           \/ handle # Absent /\ info.object = handle /\ info.volume \in Details(CurrentPath)
    BY <1>1 DEF Inspects
  <2>2. Nothing.object = Absent
    BY DEF Nothing
  <2>3. CASE FirstOfPair(info)
    <3>1. first' = <<info>> /\ UNCHANGED <<observations, confirmed>>
      BY <2>3 DEF FirstOfPair
    <3>2. CurrentPath' = CurrentPath
      BY <2>1, <3>1, SameStage
    <3>3. CASE info # Nothing
      <4>1. world[CurrentPath] = handle => info.volume = VolumeOf(handle)
        BY <2>1, <3>3, DetailsFacts
      <4> QED
        BY <2>1, <3>1, <3>2, <3>3, <4>1 DEF SeenInv
    <3>4. CASE info = Nothing
      BY <2>2, <3>1, <3>4 DEF SeenInv
    <3> QED
      BY <3>3, <3>4
  <2>4. CASE SecondOfPair(info) /\ first[1].object = Absent
    BY <2>4 DEF SecondOfPair, SeenInv
  <2>5. CASE SecondOfPair(info) /\ first[1].object # Absent
    <3> DEFINE o == [path |-> CurrentPath, info |-> first[1], stable |-> first[1] = info]
    <3>1. /\ o.info = first[1] /\ (o.stable <=> first[1] = info)
          /\ \A i \in DOMAIN observations' :
                 \/ i \in DOMAIN observations /\ observations'[i] = observations[i]
                 \/ i = Len(observations) + 1 /\ observations'[i] = o
      BY <1>1, <2>5, ObservationMade
    <3> HIDE DEF o
    <3>2. first # <<>> /\ first' = <<>>
      BY <2>5 DEF SecondOfPair
    <3>3. o.stable => o.info.volume = VolumeOf(o.info.object)
      <4>1. SUFFICES ASSUME first[1] = info
                     PROVE  first[1].volume = VolumeOf(first[1].object)
        BY <3>1
      <4>2. handle = first[1].object
        BY <2>1, <2>2, <2>5, <4>1
      <4> QED
        BY <2>5, <3>2, <4>2 DEF SeenInv
    <3> QED
      BY <3>1, <3>2, <3>3 DEF SeenInv
  <2>6. CASE Sweep(info)
    <3>1. first = <<>> /\ UNCHANGED <<first, observations>>
      BY <2>6 DEF Sweep, StageInv
    <3> QED
      BY <3>1 DEF SeenInv
  <2> QED
    BY <1>1, <2>3, <2>4, <2>5, <2>6 DEF Inspects, Inspected
<1>2. ASSUME Opens
      PROVE  SeenInv'
  <2>1. CurrentPath' = CurrentPath
    BY <1>2, SameStage DEF Opens
  <2> QED
    BY <1>2, <2>1 DEF Opens, SeenInv
<1>3. ASSUME Raise
      PROVE  SeenInv'
  <2>1. /\ CurrentPath' = CurrentPath /\ handle' = Absent
        /\ UNCHANGED <<world, first, observations>>
    BY <1>3, SameStage DEF Raise
  <2> QED
    BY <2>1 DEF SeenInv
<1>4. ASSUME NEW p \in Paths, Changes(p)
      PROVE  SeenInv'
  <2>1. /\ UNCHANGED <<root, handle, first, observations, confirmed>>
        /\ outcome = "running" /\ CurrentPath' = CurrentPath
    BY <1>4, SameStage DEF Changes
  <2>2. CurrentPath \in Paths
    BY <2>1, CurrentFacts
  <2>3. first # <<>> => Old(first[1].object)
    BY DEF TypesInv
  <2>4. ASSUME first # <<>>, first[1].object # Absent, world[CurrentPath] # first[1].object
        PROVE  world'[CurrentPath] # first[1].object
    BY <1>4, <2>2, <2>3, <2>4, Gone
  <2> QED
    BY <2>1, <2>4 DEF SeenInv
<1>5. CASE UNCHANGED vars
  <2>1. CurrentPath' = CurrentPath
    BY <1>5, SameStage DEF vars
  <2> QED
    BY <1>5, <2>1 DEF vars, SeenInv
<1> QED
  BY <1>1, <1>2, <1>3, <1>4, <1>5, StepKinds

LEMMA ObservedIsPresent ==
    ASSUME TypesInv, NEW i \in DOMAIN observations
    PROVE  /\ observations[i] \in Observation /\ observations[i].info \in Info
           /\ observations[i].info.object # Absent
           /\ Old(observations[i].info.object)
           /\ i \in 1 .. Length + 2 /\ Pairs[i] \in Paths
<1>1. observations[i] \in Observation /\ Old(observations[i].info.object) /\ i \in 1 .. Length + 2
  BY Win32Chain DEF TypesInv
<1>2. observations[i].info \in Info /\ observations[i].info.object \in Present
  BY <1>1 DEF Observation, Info
<1> QED
  BY <1>1, <1>2, AbsentFacts, PairFacts DEF TypesInv

LEMMA SweepStep ==
    ASSUME TypesInv, StageInv, SweepInv, [Next]_vars
    PROVE  SweepInv'
<1> DEFINE Kept == \A i \in DOMAIN observations :
                       mid[Pairs[i]] # observations[i].info.object =>
                           world[Pairs[i]] # observations[i].info.object
           Again == PairsDone /\ handle # Absent =>
                       \A i \in DOMAIN observations :
                           Pairs[i] = CurrentPath /\ observations[i].info.object = handle =>
                               mid[CurrentPath] = handle
           Sure == outcome \in {"running", "coherent"} =>
                       \A p \in confirmed : mid[p] = Latest(p).object
<1>1. ASSUME NEW info \in Info \cup {Nothing}, Inspects(info)
      PROVE  SweepInv'
  <2>1. /\ UNCHANGED <<world, root>> /\ handle' = Absent
        /\ outcome = "running"
        /\ info = Nothing \/ (handle # Absent /\ info.object = handle)
    BY <1>1 DEF Inspects
  <2>2. Pairs' = Pairs
    BY <2>1 DEF Pairs
  <2>3. Again'
    BY <2>1
  <2>4. CASE FirstOfPair(info) \/ (SecondOfPair(info) /\ first[1].object = Absent)
    <3>1. UNCHANGED <<observations, confirmed, mid>> /\ ~ PairsDone
      BY <2>4 DEF FirstOfPair, SecondOfPair
    <3>2. confirmed' = {}
      BY <3>1 DEF StageInv
    <3> QED
      BY <2>1, <2>2, <2>3, <3>1, <3>2 DEF SweepInv
  <2>5. CASE SecondOfPair(info) /\ first[1].object # Absent
    <3>1. mid' = world /\ confirmed' = confirmed /\ ~ PairsDone
      BY <2>5 DEF SecondOfPair
    <3>2. confirmed' = {}
      BY <3>1 DEF StageInv
    <3> QED
      BY <2>1, <2>3, <3>1, <3>2 DEF SweepInv
  <2>6. CASE Sweep(info)
    <3>1. /\ PairsDone /\ confirmed' = confirmed \cup {CurrentPath}
          /\ UNCHANGED <<first, observations, mid>>
          /\ outcome' # "incoherent" => info = Latest(CurrentPath)
      BY <2>6 DEF Sweep
    <3>2. Kept'
      BY <2>1, <2>2, <3>1 DEF SweepInv
    <3>3. \A p : Latest(p)' = Latest(p)
      <4> SUFFICES ASSUME NEW p
                   PROVE  Latest(p)' = Latest(p)
        OBVIOUS
      <4>1. SelectLastInSeq(observations, LAMBDA o : o.path = p)'
            = SelectLastInSeq(observations, LAMBDA o : o.path = p)
        BY <3>1 DEF SelectLastInSeq
      <4> QED
        BY <3>1, <4>1 DEF Latest
    <3>4. ASSUME outcome' \in {"running", "coherent"}
          PROVE  mid[CurrentPath] = Latest(CurrentPath).object
      <4>1. CurrentPath \in Range(Pairs)
        BY <2>1, CurrentFacts
      <4>2. PICK i \in DOMAIN observations :
                Pairs[i] = CurrentPath /\ Latest(CurrentPath) = observations[i].info
        BY <3>1, <4>1, LatestFacts
      <4>3. info = observations[i].info
        BY <3>1, <3>4, <4>2
      <4>4. info # Nothing
        BY <4>3, AbsentFacts, ObservedIsPresent
      <4>5. handle # Absent /\ observations[i].info.object = handle
        BY <2>1, <4>3, <4>4
      <4> QED
        BY <3>1, <4>2, <4>5 DEF SweepInv
    <3>5. Sure'
      <4> SUFFICES ASSUME outcome' \in {"running", "coherent"}, NEW p \in confirmed'
                   PROVE  mid'[p] = Latest(p)'.object
        OBVIOUS
      <4>1. CASE p = CurrentPath
        BY <3>1, <3>3, <3>4, <4>1
      <4>2. CASE p \in confirmed
        BY <2>1, <3>1, <3>3, <4>2 DEF SweepInv
      <4> QED
        BY <3>1, <4>1, <4>2
    <3> QED
      BY <2>3, <3>2, <3>5 DEF SweepInv
  <2> QED
    BY <1>1, <2>4, <2>5, <2>6 DEF Inspects, Inspected
<1>2. ASSUME Opens
      PROVE  SweepInv'
  <2>1. /\ UNCHANGED <<world, root, observations, confirmed, outcome, mid>>
        /\ handle' = world[CurrentPath]
    BY <1>2 DEF Opens
  <2>2. /\ CurrentPath' = CurrentPath
        /\ PairsDone' <=> PairsDone
        /\ Pairs' = Pairs
        /\ \A p : Latest(p)' = Latest(p)
    BY <2>1, SameStage
  <2>3. Kept' /\ Sure'
    BY <2>1, <2>2 DEF SweepInv
  <2>4. Again'
    BY <2>1, <2>2 DEF SweepInv
  <2> QED
    BY <2>3, <2>4 DEF SweepInv
<1>3. ASSUME Raise
      PROVE  SweepInv'
  <2>1. /\ UNCHANGED <<world, root, observations, confirmed, mid>>
        /\ handle' = Absent /\ outcome' = "error"
    BY <1>3 DEF Raise
  <2>2. Pairs' = Pairs
    BY <2>1 DEF Pairs
  <2> QED
    BY <2>1, <2>2 DEF SweepInv
<1>4. ASSUME NEW p \in Paths, Changes(p)
      PROVE  SweepInv'
  <2>1. UNCHANGED <<root, handle, observations, confirmed, outcome, mid>>
    BY <1>4 DEF Changes
  <2>2. /\ CurrentPath' = CurrentPath
        /\ PairsDone' <=> PairsDone
        /\ Pairs' = Pairs
        /\ \A q : Latest(q)' = Latest(q)
    BY <2>1, SameStage
  <2>3. ASSUME NEW i \in DOMAIN observations,
               mid[Pairs[i]] # observations[i].info.object
        PROVE  world'[Pairs[i]] # observations[i].info.object
    <3>1. world[Pairs[i]] # observations[i].info.object
      BY <2>3 DEF SweepInv
    <3>2. /\ observations[i].info.object # Absent /\ Old(observations[i].info.object)
          /\ Pairs[i] \in Paths
      BY <2>3, ObservedIsPresent
    <3> QED
      BY <1>4, <3>1, <3>2, Gone
  <2>4. Kept'
    BY <2>1, <2>2, <2>3
  <2>5. Again' /\ Sure'
    BY <2>1, <2>2 DEF SweepInv
  <2> QED
    BY <2>4, <2>5 DEF SweepInv
<1>5. CASE UNCHANGED vars
  <2>1. /\ CurrentPath' = CurrentPath
        /\ PairsDone' <=> PairsDone
        /\ Pairs' = Pairs
        /\ \A p : Latest(p)' = Latest(p)
    BY <1>5, SameStage DEF vars
  <2> QED
    BY <1>5, <2>1 DEF vars, SweepInv
<1> QED
  BY <1>1, <1>2, <1>3, <1>4, <1>5, StepKinds

-----------------------------------------------------------------------------
(* The invariant.                                                            *)

LEMMA InitWorld ==
    ASSUME Init
    PROVE  /\ world \in [Paths -> Present \cup {Absent}] /\ \A p \in Paths : Old(world[p])
           /\ changes \in Nat
<1>1. changes \in Nat
  <2> DEFINE flawed == {p \in Paths : world[p].nature # "plain"}
  <2>1. IsFiniteSet(Paths)
    BY FS_Interval, Win32Chain DEF Paths
  <2>2. IsFiniteSet(flawed)
    <3>1. flawed \subseteq Paths
      OBVIOUS
    <3> HIDE DEF flawed
    <3> QED
      BY <2>1, <3>1, FS_Subset
  <2>3. changes = Cardinality(flawed)
    BY DEF Init
  <2> HIDE DEF flawed
  <2> QED
    BY <2>2, <2>3, FS_CardinalityType
<1>2. ASSUME NEW o \in {[nature |-> n, version |-> 0] : n \in Natures \cup {"absent"}}
      PROVE  o \in Present \cup {Absent} /\ Old(o)
  BY <1>1 DEF Present, Absent, Old
<1>3. world \in [Paths -> {[nature |-> n, version |-> 0] : n \in Natures \cup {"absent"}}]
  BY DEF Init
<1> QED
  BY <1>1, <1>2, <1>3

LEMMA InitProbeInv == Init => ProbeInv
<1> SUFFICES ASSUME Init
             PROVE  ProbeInv
  OBVIOUS
<1>1. /\ world \in [Paths -> Present \cup {Absent}] /\ \A p \in Paths : Old(world[p])
      /\ changes \in Nat
  BY InitWorld
<1>2. /\ disturbed = FALSE /\ handle = Absent /\ via = Direct /\ first = <<>>
      /\ observations = <<>> /\ confirmed = {} /\ outcome = "running" /\ mid = world
      /\ root \in Paths /\ (role = "source_file" => root \in 1 .. Length - 1)
  <2>1. PICK c \in Calls : role = c.role /\ root = c.root
    BY DEF Init
  <2>2. root \in Paths /\ (role = "source_file" => root \in 1 .. Length - 1)
    BY <2>1, Win32Chain
  <2> QED
    BY <2>2 DEF Init
<1>3. Len(observations) = 0 /\ observations \in Seq(Observation) /\ DOMAIN observations = {}
  BY <1>2
<1>4. TypesInv
  <2>1. handle \in Present \cup {Absent} /\ Old(handle)
    BY <1>2 DEF Old
  <2>2. mid \in [Paths -> Present \cup {Absent}] /\ \A p \in Paths : Old(mid[p])
    BY <1>1, <1>2
  <2>3. \A i \in DOMAIN observations : Old(observations[i].info.object)
    BY <1>3
  <2>4. Len(observations) <= Length + 2
    BY <1>3, Win32Chain
  <2>5. confirmed \subseteq Range(Pairs)
    BY <1>2
  <2> QED
    BY <1>1, <1>2, <1>3, <2>1, <2>2, <2>3, <2>4, <2>5, DirectFacts DEF TypesInv
<1>5. ~ PairsDone
  BY <1>2, <1>3, PairFacts, Win32Chain DEF PairsDone
<1>6. StageInv
  BY <1>2, <1>3, <1>5 DEF StageInv, Reported
<1>7. SeenInv /\ SweepInv
  BY <1>2, <1>3 DEF SeenInv, SweepInv
<1> QED
  BY <1>4, <1>6, <1>7 DEF ProbeInv

LEMMA ProbeInvariant == Spec => []ProbeInv
<1>1. Init => ProbeInv
  BY InitProbeInv
<1>2. ProbeInv /\ [Next]_vars => ProbeInv'
  BY TypesStep, StageStep, SeenStep, SweepStep DEF ProbeInv
<1> QED
  BY <1>1, <1>2, PTL DEF Spec

(* Types, and no handle stays open after the call (Win32MetadataApi.inspect  *)
(* closes it in a finally).                                                  *)
THEOREM ProbeTypeCorrect == Spec => []Win32TypeOK
<1>1. ProbeInv => Win32TypeOK
  <2> SUFFICES ASSUME ProbeInv
               PROVE  Win32TypeOK
    OBVIOUS
  <2>1. \A p \in Paths : world[p] \in Present \cup {Absent}
    BY DEF ProbeInv, TypesInv
  <2>2. \A p \in Paths : world[p].nature \in Natures \cup {"absent"}
    BY <2>1 DEF Present, Absent
  <2>3. handle = Absent \/ handle.nature \in Natures
    BY DEF ProbeInv, TypesInv, Present
  <2> QED
    BY <2>2, <2>3 DEF ProbeInv, TypesInv, StageInv, Win32TypeOK
<1> QED
  BY <1>1, ProbeInvariant, PTL

(* What accepted facts fail no check of.                                     *)
LEMMA AcceptedFails ==
    ASSUME Accepted
    PROVE  /\ outcome = "coherent"
           /\ NoFollowChain /\ ~ CrossesMount /\ IdentityStable
           /\ Target.volume # "remote"
           /\ \A o \in {Target.object} \cup {a.object : a \in Ancestors} : ~ CloudAttribute(o)
<1>1. /\ outcome \notin {"running", "error"}
      /\ Failing \cap CheckNames = {}
  <2>1. UnsafeFactDenial(Failing) = "none" /\ outcome \notin {"running", "error"}
    BY DEF Accepted
  <2>2. \A i \in DOMAIN Checks : Checks[i].denial # "none"
    BY Rules
  <2> QED
    BY <2>1, <2>2, UnsafeFact
<1>2. {"exists", "complete", "no link above", "no mount", "local", "not cloud", "identity"}
          \subseteq CheckNames
  <2>1. /\ Checks[1].check = "exists" /\ Checks[2].check = "complete"
        /\ Checks[4].check = "no link above" /\ Checks[5].check = "no mount"
        /\ Checks[7].check = "local" /\ Checks[9].check = "not cloud" /\ Checks[11].check = "identity"
    BY DEF Checks
  <2>2. \A i \in 1 .. 12 : Checks[i].check \in CheckNames
    BY Rules DEF CheckNames
  <2>3. /\ Checks[1].check \in CheckNames /\ Checks[2].check \in CheckNames
        /\ Checks[4].check \in CheckNames /\ Checks[5].check \in CheckNames
        /\ Checks[7].check \in CheckNames /\ Checks[9].check \in CheckNames /\ Checks[11].check \in CheckNames
    BY <2>2
  <2> QED
    BY <2>1, <2>3
<1>3. outcome # "missing"
  BY <1>1, <1>2 DEF Failing, MissingFailing
<1> DEFINE Cloud == \E o \in Described : CloudAttribute(o)
           Placeholder == \E o \in Described : PlaceholderAttribute(o)
<1>4. SnapshotFailing(Cloud, Placeholder) \cap CheckNames = {}
  BY <1>1, <1>3 DEF Failing
<1> HIDE DEF Cloud, Placeholder
<1>5. outcome = "coherent"
  BY <1>2, <1>4 DEF SnapshotFailing
<1>6. NoFollowChain
  BY <1>2, <1>4 DEF SnapshotFailing
<1>7. ~ CrossesMount
  BY <1>2, <1>4 DEF SnapshotFailing
<1>8. IdentityStable
  BY <1>2, <1>4 DEF SnapshotFailing
<1>9. ~ Cloud
  BY <1>2, <1>4 DEF SnapshotFailing
<1>10. Target.volume # "remote"
  BY <1>2, <1>4 DEF SnapshotFailing
<1> QED
  BY <1>5, <1>6, <1>7, <1>8, <1>9, <1>10 DEF Cloud, Described

(* Facts the policy accepts were all true at one moment, although everything *)
(* is inspected one by one: the path and all above it existed, were no links *)
(* and not in the cloud, and were on the volume that is reported             *)
(* (NativeWin32ProbeBackend.snapshot, _coherent_snapshot).                   *)
THEOREM AcceptedChainWasReal == Spec => []AcceptedChainIsReal
<1>1. ProbeInv => AcceptedChainIsReal
  <2> SUFFICES ASSUME ProbeInv, Accepted, NEW p \in 1 .. Length
               PROVE  /\ mid[p] # Absent
                      /\ ~ Reparse(mid[p]) /\ ~ CloudAttribute(mid[p])
                      /\ VolumeOf(mid[p]) = VolumeOf(Target.object)
                      /\ VolumeOf(mid[p]) = Target.volume
    BY DEF AcceptedChainIsReal
  <2> USE DEF ProbeInv
  <2>1. PICK i : i = p + 2
    OBVIOUS
  <2>2. /\ outcome = "coherent"
        /\ NoFollowChain /\ ~ CrossesMount /\ IdentityStable
        /\ \A o \in {Target.object} \cup {a.object : a \in Ancestors} : ~ CloudAttribute(o)
    BY AcceptedFails
  <2>3. PairsDone /\ Range(Pairs) \subseteq confirmed
    BY <2>2 DEF StageInv, Reported
  <2>4. p \in confirmed
    BY <2>3, RangeOfPairs DEF TypesInv
  <2>5. /\ DOMAIN observations = 1 .. Length + 2
        /\ Latest(p) = observations[i].info
    BY <2>1, <2>3, LatestFacts
  <2>6. i \in DOMAIN observations /\ i \in 3 .. Len(observations)
    BY <2>1, <2>5, Win32Chain DEF TypesInv
  <2> DEFINE a == observations[i].info
  <2>7. a \in Ancestors
    BY <2>6 DEF Ancestors
  <2>8. mid[p] = a.object
    BY <2>2, <2>4, <2>5 DEF SweepInv
  <2>9. a.object # Absent
    BY <2>6, ObservedIsPresent
  <2>10. a.volume = VolumeOf(a.object)
    BY <2>2, <2>6 DEF IdentityStable, SeenInv
  <2>11. Volume(a) = Volume(Target)
    BY <2>2, <2>7 DEF CrossesMount
  <2>12. ~ Reparse(a.object) /\ ~ CloudAttribute(a.object)
    BY <2>2, <2>7 DEF NoFollowChain
  <2> HIDE DEF a
  <2>13. VolumeOf(a.object) = VolumeOf(Target.object) /\ a.volume = Target.volume
    BY <2>11 DEF Volume
  <2> QED
    BY <2>8, <2>9, <2>10, <2>12, <2>13
<1> QED
  BY <1>1, ProbeInvariant, PTL

-----------------------------------------------------------------------------
(* A file system nobody changes.                                             *)

LEMMA InspectedNow ==
    ASSUME QuietInv, ~ disturbed, NEW info \in Info \cup {Nothing}, Inspects(info)
    PROVE  info = InfoOf(CurrentPath)
<1>1. CASE info = Nothing /\ world[CurrentPath] = Absent
  BY <1>1 DEF InfoOf
<1>2. CASE /\ handle # Absent /\ info.object = handle /\ info.volume \in Details(CurrentPath)
           /\ info.via = via /\ info \in Info
  <2>1. handle = world[CurrentPath] /\ via = Via(CurrentPath)
    BY <1>2 DEF QuietInv
  <2>2. info.volume = VolumeOf(world[CurrentPath])
    BY <1>2, <2>1, DetailsFacts
  <2>3. info = [object |-> info.object, volume |-> info.volume, via |-> info.via]
    BY <1>2 DEF Info
  <2> QED
    BY <1>2, <2>1, <2>2, <2>3 DEF InfoOf
<1> QED
  BY <1>1, <1>2 DEF Inspects

LEMMA QuietStep ==
    ASSUME TypesInv, StageInv, QuietInv, [Next]_vars
    PROVE  QuietInv'
<1> SUFFICES ASSUME ~ disturbed'
             PROVE  QuietInv'
  BY DEF QuietInv
<1>1. ASSUME NEW info \in Info \cup {Nothing}, Inspects(info)
      PROVE  QuietInv'
  <2>1. /\ UNCHANGED <<world, root, disturbed>> /\ handle' = Absent
        /\ outcome = "running" /\ ~ disturbed
    BY <1>1 DEF Inspects
  <2>2. Pairs' = Pairs /\ \A p : InfoOf(p)' = InfoOf(p)
    BY <2>1 DEF Pairs, InfoOf, Via
  <2>3. info = InfoOf(CurrentPath)
    BY <1>1, <2>1, InspectedNow
  <2>4. CASE FirstOfPair(info)
    <3>1. first' = <<info>> /\ UNCHANGED <<observations, confirmed, outcome>>
      BY <2>4 DEF FirstOfPair
    <3>2. CurrentPath' = CurrentPath
      BY <2>1, <3>1, SameStage
    <3>3. InfoOf(CurrentPath)' = InfoOf(CurrentPath)
      BY <2>1, <3>2 DEF InfoOf, Via
    <3>4. (first[1] = InfoOf(CurrentPath))'
      BY <2>3, <3>1, <3>3
    <3> QED
      BY <2>1, <2>2, <3>1, <3>4 DEF QuietInv
  <2>5. CASE SecondOfPair(info) /\ first[1].object = Absent
    <3>1. /\ first' = <<>> /\ UNCHANGED <<observations, confirmed>> /\ first # <<>> /\ ~ PairsDone
          /\ outcome' = IF observations = <<>> THEN "missing" ELSE "error"
      BY <2>5 DEF SecondOfPair
    <3>2. ASSUME observations = <<>>
          PROVE  world[Length] = Absent
      <4>1. CurrentPath = Pairs[1]
        BY <2>1, <3>1, <3>2, CurrentFacts
      <4>2. CurrentPath = Length
        BY <4>1, PairFacts DEF TypesInv
      <4>3. InfoOf(Length).object = Absent
        BY <2>1, <2>5, <3>1, <4>2 DEF QuietInv
      <4> QED
        BY <4>3 DEF InfoOf
    <3> QED
      BY <2>1, <2>2, <3>1, <3>2 DEF QuietInv
  <2>6. CASE SecondOfPair(info) /\ first[1].object # Absent
    <3> DEFINE o == [path |-> CurrentPath, info |-> first[1], stable |-> first[1] = info]
    <3>1. /\ o.info = first[1] /\ (o.stable <=> first[1] = info)
          /\ CurrentPath = Pairs[Len(observations) + 1]
          /\ \A i \in DOMAIN observations' :
                 \/ i \in DOMAIN observations /\ observations'[i] = observations[i]
                 \/ i = Len(observations) + 1 /\ observations'[i] = o
      BY <1>1, <2>6, ObservationMade
    <3> HIDE DEF o
    <3>2. first # <<>> /\ first' = <<>> /\ outcome' = outcome
      BY <2>6 DEF SecondOfPair
    <3>3. o.info = InfoOf(CurrentPath) /\ o.stable
      BY <2>1, <2>3, <3>1, <3>2 DEF QuietInv
    <3>4. \A i \in DOMAIN observations' :
              observations'[i].info = InfoOf(Pairs[i]) /\ observations'[i].stable
      BY <2>1, <3>1, <3>3 DEF QuietInv
    <3> QED
      BY <2>1, <2>2, <3>2, <3>4 DEF QuietInv
  <2>7. CASE Sweep(info)
    <3>1. PairsDone /\ UNCHANGED <<first, observations>>
      BY <2>7 DEF Sweep
    <3>2. CurrentPath \in Range(Pairs)
      BY <2>1, CurrentFacts
    <3>3. PICK i \in DOMAIN observations :
              Pairs[i] = CurrentPath /\ Latest(CurrentPath) = observations[i].info
      BY <3>1, <3>2, LatestFacts
    <3>4. info = Latest(CurrentPath)
      BY <2>1, <2>3, <3>3 DEF QuietInv
    <3>5. outcome' \in {"running", "coherent"}
      BY <2>7, <3>4 DEF Sweep
    <3>6. first = <<>>
      BY <3>1 DEF StageInv
    <3> QED
      BY <2>1, <2>2, <3>1, <3>5, <3>6 DEF QuietInv
  <2> QED
    BY <1>1, <2>4, <2>5, <2>6, <2>7 DEF Inspects, Inspected
<1>2. ASSUME Opens
      PROVE  QuietInv'
  <2>1. /\ UNCHANGED <<world, root, disturbed, first, observations, confirmed, outcome>>
        /\ handle' = world[CurrentPath] /\ via' = Via(CurrentPath)
    BY <1>2 DEF Opens
  <2>2. CurrentPath' = CurrentPath /\ Pairs' = Pairs /\ \A p : InfoOf(p)' = InfoOf(p)
    BY <2>1, SameStage DEF InfoOf, Via
  <2>3. Via(CurrentPath)' = Via(CurrentPath)
    BY <2>1, <2>2 DEF Via
  <2> QED
    BY <2>1, <2>2, <2>3 DEF QuietInv
<1>3. ASSUME Raise
      PROVE  QuietInv'
  <2>1. /\ UNCHANGED <<world, root, disturbed, first, observations, confirmed>>
        /\ handle' = Absent /\ outcome' = "error"
    BY <1>3 DEF Raise
  <2>2. CurrentPath' = CurrentPath /\ Pairs' = Pairs /\ \A p : InfoOf(p)' = InfoOf(p)
    BY <2>1, SameStage DEF InfoOf, Via
  <2> QED
    BY <2>1, <2>2 DEF QuietInv
<1>4. ASSUME NEW p \in Paths, Changes(p)
      PROVE  FALSE
  BY <1>4 DEF Changes
<1>5. CASE UNCHANGED vars
  <2>1. CurrentPath' = CurrentPath /\ Pairs' = Pairs /\ \A p : InfoOf(p)' = InfoOf(p)
    BY <1>5, SameStage DEF vars, InfoOf, Via
  <2>2. Via(CurrentPath)' = Via(CurrentPath)
    BY <1>5, <2>1 DEF vars, Via
  <2> QED
    BY <1>5, <2>1, <2>2 DEF vars, QuietInv
<1> QED
  BY <1>1, <1>2, <1>3, <1>4, <1>5, StepKinds

LEMMA QuietInvariant == Spec => []QuietInv
<1>1. Init => QuietInv
  <2> SUFFICES ASSUME Init
               PROVE  QuietInv
    OBVIOUS
  <2>1. /\ handle = Absent /\ first = <<>> /\ observations = <<>> /\ outcome = "running"
    BY DEF Init
  <2> QED
    BY <2>1 DEF QuietInv
<1>2. ProbeInv /\ QuietInv /\ [Next]_vars => QuietInv'
  BY QuietStep DEF ProbeInv
<1> QED
  BY <1>1, <1>2, ProbeInvariant, PTL DEF Spec

(* Nothing fails of a path that every object of the chain is suitable for.   *)
LEMMA NothingFails ==
    ASSUME outcome = "coherent", ~ Reparse(Target.object), NoFollowChain, ~ CrossesMount,
           \A o \in Described : ~ CloudAttribute(o), IdentityStable,
           Target.volume # "remote"
    PROVE  Accepted
<1> DEFINE Cloud == \E o \in Described : CloudAttribute(o)
           Placeholder == \E o \in Described : PlaceholderAttribute(o)
<1>1. ~ Cloud /\ ~ Placeholder
  BY DEF CloudAttribute, PlaceholderAttribute
<1>2. Failing = SnapshotFailing(Cloud, Placeholder)
  BY DEF Failing
<1> HIDE DEF Cloud, Placeholder
<1>3. SnapshotFailing(Cloud, Placeholder) = {}
  BY <1>1 DEF SnapshotFailing
<1>4. \A i \in DOMAIN Checks : Checks[i].check \notin Failing
  BY <1>2, <1>3
<1>5. UnsafeFactDenial(Failing) = "none"
  BY <1>4, UnsafeFact
<1> QED
  BY <1>5 DEF Accepted

(* What the final paths of a source file and of its root show.               *)
LEMMA FinalPaths ==
    ASSUME TypesInv, role = "source_file"
    PROVE  Via(Length) = Via(root) <=> \A p \in root .. Length - 1 : ~ Reparse(world[p])
<1>1. /\ root \in 1 .. Length - 1 /\ Length \in Nat /\ root \in Paths /\ Length \in Paths
      /\ world \in [Paths -> Present \cup {Absent}]
  BY Win32Chain DEF TypesInv, Paths
<1>2. ASSUME \A p \in root .. Length - 1 : ~ Reparse(world[p])
      PROVE  Via(Length) = Via(root)
  <2>1. \A q \in 1 .. Length - 1 : q \in 1 .. root - 1 \/ q \in root .. Length - 1
    BY <1>1
  <2>2. \A q \in 1 .. root - 1 : q \in 1 .. Length - 1
    BY <1>1
  <2>3. {q \in 1 .. Length - 1 : Reparse(world[q])} = {q \in 1 .. root - 1 : Reparse(world[q])}
    BY <1>2, <2>1, <2>2
  <2> QED
    BY <2>3 DEF Via
<1>3. ASSUME NEW p \in root .. Length - 1, Reparse(world[p])
      PROVE  Via(Length) # Via(root)
  <2>1. Via(Length).path >= root
    <3>1. p \in 1 .. Length - 1
      BY <1>1
    <3>2. PICK m \in 1 .. Length - 1 :
              /\ \A q \in m + 1 .. Length - 1 : ~ Reparse(world[q])
              /\ Via(Length) = [path |-> m, version |-> world[m].version]
      BY <1>1, <1>3, <3>1, ViaFacts
    <3>3. p \notin m + 1 .. Length - 1
      BY <1>3, <3>2
    <3> QED
      BY <1>1, <3>1, <3>2, <3>3
  <2>2. Via(root).path < root
    <3>1. CASE Via(root) = Direct
      BY <1>1, <3>1, DirectFacts
    <3>2. CASE \E m \in 1 .. root - 1 : Via(root) = [path |-> m, version |-> world[m].version]
      BY <1>1, <3>2
    <3> QED
      BY <1>1, <3>1, <3>2, ViaFacts
  <2>3. Via(Length).path \in Nat
    BY <1>1, ViaFacts DEF Vias, Paths
  <2> QED
    BY <1>1, <2>1, <2>2, <2>3
<1> QED
  BY <1>2, <1>3

(* In a file system nobody changes and no call fails in, the facts are       *)
(* complete, say that a source file is physically below the root exactly     *)
(* when neither the root nor a directory between is a link, and are accepted *)
(* exactly when nothing is against the path or a path above it.              *)
THEOREM QuietProbeDecides == Spec => []QuietIsDecided
<1> DEFINE Suitable == \A p \in 1 .. Length :
               /\ world[p].nature \in {"plain", "second"} \cup (IF p = Length THEN {} ELSE {"leaving"})
               /\ VolumeOf(world[p]) = VolumeOf(world[Length])
           Below == role = "source_file" => \A p \in root .. Length - 1 : ~ Reparse(world[p])
<1>1. ASSUME ProbeInv, QuietInv, ~ disturbed, outcome \notin {"running", "error"}
      PROVE  /\ outcome # "incoherent"
             /\ Reported => (Within <=> Below)
             /\ Accepted <=> Suitable
  <2> USE <1>1 DEF ProbeInv
  <2>1. outcome \in {"missing", "coherent"} /\ outcome # "incoherent"
    BY DEF QuietInv, TypesInv
  <2>2. Length \in 1 .. Length /\ Length \in Paths
    BY Win32Chain DEF Paths
  <2>3. CASE outcome = "missing"
    <3>1. ~ Accepted
      BY <2>3, AcceptedFails
    <3>2. world[Length].nature = "absent"
      BY <2>3 DEF QuietInv, Absent
    <3>3. ~ Suitable
      BY <2>2, <3>2
    <3> QED
      BY <2>1, <2>3, <3>1, <3>3 DEF Reported
  <2>4. CASE outcome = "coherent"
    <3>1. PairsDone
      BY <2>4 DEF StageInv, Reported
    <3>2. DOMAIN observations = 1 .. Length + 2 /\ Len(observations) = Length + 2
      BY <3>1, LatestFacts, Win32Chain DEF TypesInv
    <3>3. ASSUME NEW i \in 1 .. Length + 2
          PROVE  /\ observations[i].info.object = world[Pairs[i]] /\ world[Pairs[i]] # Absent
                 /\ observations[i].info.volume = VolumeOf(world[Pairs[i]])
                 /\ observations[i].stable /\ observations[i].info.via = Via(Pairs[i])
      <4>1. observations[i].info = InfoOf(Pairs[i]) /\ observations[i].stable
        BY <3>2, <3>3 DEF QuietInv
      <4>2. observations[i].info.object # Absent
        BY <3>2, <3>3, ObservedIsPresent
      <4>3. world[Pairs[i]] # Absent
        <5>1. Nothing.object = Absent
          BY DEF Nothing
        <5> QED
          BY <4>1, <4>2, <5>1 DEF InfoOf
      <4> QED
        BY <4>1, <4>3 DEF InfoOf
    <3>4. /\ 1 \in 1 .. Length + 2 /\ Pairs[1] = Length
          /\ 2 \in 1 .. Length + 2 /\ Pairs[2] = root
      BY Win32Chain, PairFacts DEF TypesInv
    <3>5. /\ Target.object = world[Length] /\ world[Length] # Absent
          /\ Target.volume = VolumeOf(world[Length])
          /\ Target.via = Via(Length) /\ observations[2].info.via = Via(root)
      BY <3>3, <3>4 DEF Target
    <3>6. ASSUME NEW p \in 1 .. Length
          PROVE  \E a \in Ancestors : a.object = world[p] /\ a.volume = VolumeOf(world[p])
      <4>1. PICK i : i = p + 2
        OBVIOUS
      <4>2. i \in 1 .. Length + 2 /\ i \in 3 .. Len(observations) /\ Pairs[i] = p
        BY <3>2, <4>1, Win32Chain, PairFacts DEF TypesInv
      <4> QED
        BY <3>3, <4>2 DEF Ancestors
    <3>7. ASSUME NEW a \in Ancestors
          PROVE  \E p \in 1 .. Length : /\ a.object = world[p] /\ a.volume = VolumeOf(world[p])
                                        /\ world[p] # Absent
      <4>1. PICK i \in 3 .. Len(observations) : a = observations[i].info
        BY <3>7 DEF Ancestors
      <4>2. i \in 1 .. Length + 2 /\ i - 2 \in 1 .. Length /\ (i - 2) + 2 = i
        BY <3>2, <4>1, Win32Chain
      <4>3. Pairs[i] = i - 2
        BY <4>2, PairFacts DEF TypesInv
      <4> QED
        BY <3>3, <4>1, <4>2, <4>3
    <3>8. \A p \in 1 .. Length : world[p] # Absent =>
              world[p].nature \in {"plain", "link", "pinned", "offline", "second", "remote",
                                  "leaving"}
      <4>1. \A p \in 1 .. Length : p \in Paths
        BY Win32Chain DEF Paths
      <4>2. \A p \in 1 .. Length : world[p] # Absent => world[p].nature \in Natures
        BY <4>1 DEF TypesInv, Present
      <4> QED
        BY <4>2, Win32Natures
    <3>9. \A p \in 1 .. Length : world[p] # Absent
      BY <3>6, <3>7
    <3>10. ASSUME Accepted
           PROVE  Suitable
      <4>1. /\ NoFollowChain /\ ~ CrossesMount /\ IdentityStable
            /\ \A o \in {Target.object} \cup {a.object : a \in Ancestors} : ~ CloudAttribute(o)
        BY <3>10, AcceptedFails
      <4>2. ASSUME NEW p \in 1 .. Length
            PROVE  world[p].nature \notin {"link", "pinned", "offline"}
        BY <3>6, <4>1 DEF NoFollowChain, Reparse, CloudAttribute
      <4>3. ASSUME NEW p \in 1 .. Length
            PROVE  VolumeOf(world[p]) = VolumeOf(world[Length])
        <5>1. PICK a \in Ancestors : a.object = world[p]
          BY <3>6
        <5>2. Volume(a) = Volume(Target)
          BY <4>1 DEF CrossesMount
        <5> QED
          BY <3>5, <5>1, <5>2 DEF Volume
      <4>4. VolumeOf(world[Length]) # "remote"
        BY <3>5, <3>10, AcceptedFails
      <4>5. \A p \in 1 .. Length : world[p].nature # "remote"
        BY <4>3, <4>4 DEF VolumeOf
      <4>6. world[Length].nature # "leaving"
        BY <3>5, <4>1 DEF IdentityStable
      <4>7. \A p \in 1 .. Length : world[p].nature \in {"plain", "second", "leaving"}
        BY <3>8, <3>9, <4>2, <4>5
      <4> QED
        BY <4>3, <4>6, <4>7
    <3>11. ASSUME Suitable
           PROVE  Accepted
      <4>1. \A p \in 1 .. Length : /\ world[p].nature \in {"plain", "second", "leaving"}
                                    /\ VolumeOf(world[p]) = VolumeOf(world[Length])
        BY <3>11
      <4>2. world[Length].nature # "leaving"
        BY <2>2, <3>11
      <4>3. /\ ~ Reparse(Target.object) /\ ~ CloudAttribute(Target.object)
            /\ Target.volume # "remote"
        BY <2>2, <3>5, <4>1 DEF Reparse, CloudAttribute, VolumeOf
      <4>4. \A a \in Ancestors : /\ ~ Reparse(a.object) /\ ~ CloudAttribute(a.object)
                                 /\ a.volume = VolumeOf(world[Length])
                                 /\ VolumeOf(a.object) = VolumeOf(world[Length])
        BY <3>7, <4>1 DEF Reparse, CloudAttribute
      <4>5. NoFollowChain /\ ~ CrossesMount
        BY <3>5, <4>4 DEF NoFollowChain, CrossesMount, Volume
      <4>6. \A o \in Described : ~ CloudAttribute(o)
        BY <4>3, <4>4 DEF Described
      <4>7. IdentityStable
        BY <2>4, <3>2, <3>3, <3>5, <4>2 DEF IdentityStable
      <4> QED
        BY <2>4, <4>3, <4>5, <4>6, <4>7, NothingFails
    <3>12. Within <=> Below
      BY <3>5, FinalPaths DEF Within
    <3> QED
      BY <2>1, <3>10, <3>11, <3>12
  <2> QED
    BY <2>1, <2>3, <2>4
<1>2. ProbeInv /\ QuietInv => QuietIsDecided
  BY <1>1 DEF QuietIsDecided
<1> QED
  BY <1>2, ProbeInvariant, QuietInvariant, PTL
=============================================================================
