------------------------- MODULE DarwinProbeProofs -------------------------
(* Theorems about DarwinProbe, for a chain of any depth, any objects and any *)
(* number of changes of the file system.                                     *)
EXTENDS DarwinProbe, SequenceTheorems, WellFoundedInduction, TLAPS

(* The least of some numbers.                                                *)
LEMMA LeastNumber ==
    ASSUME NEW S, S \subseteq Nat, S # {}
    PROVE  \E i \in S : \A j \in S : i <= j
<1>1. IsWellFoundedOn(OpToRel(<, Nat), Nat)
  BY NatLessThanWellFounded
<1>2. PICK x \in S : \A y \in S : ~ (<<y, x>> \in OpToRel(<, Nat))
  BY <1>1, WFMin
<1>3. \A y \in S : x <= y
  <2> SUFFICES ASSUME NEW y \in S
               PROVE  x <= y
    OBVIOUS
  <2>1. ~ (<<y, x>> \in OpToRel(<, Nat))
    BY <1>2
  <2>2. ~ (y < x)
    BY <2>1 DEF OpToRel
  <2> QED
    BY <2>2
<1> QED
  BY <1>3

(* What the rules are made of.                                               *)
LEMMA Rules ==
    /\ DOMAIN Checks = 1 .. 12
    /\ \A i \in 1 .. 12 : Checks[i].denial \notin {"none", "ticket"}
    /\ \A c \in CheckNames : \E i \in 1 .. 12 : Checks[i].check = c
    /\ CheckNames \cap {"kind", "volume", "outside"} = {}
<1>1. DOMAIN Checks = 1 .. 12
  BY DEF Checks
<1> DEFINE Plain(i) == /\ Checks[i].denial \notin {"none", "ticket"}
                       /\ Checks[i].check \notin {"kind", "volume", "outside"}
<1>2. /\ Plain(1) /\ Plain(2) /\ Plain(3) /\ Plain(4) /\ Plain(5) /\ Plain(6)
      /\ Plain(7) /\ Plain(8) /\ Plain(9) /\ Plain(10) /\ Plain(11) /\ Plain(12)
  BY DEF Checks
<1> HIDE DEF Plain
<1>3. \A i \in 1 .. 12 : Plain(i)
  <2> SUFFICES ASSUME NEW i \in 1 .. 12
               PROVE  Plain(i)
    OBVIOUS
  <2>1. \/ i = 1 \/ i = 2 \/ i = 3 \/ i = 4 \/ i = 5 \/ i = 6
        \/ i = 7 \/ i = 8 \/ i = 9 \/ i = 10 \/ i = 11 \/ i = 12
    OBVIOUS
  <2> QED
    BY <1>2, <2>1
<1> QED
  BY <1>1, <1>3 DEF CheckNames, Plain

(* _unsafe_fact_denial says "none" only of a fact that fails no check, and   *)
(* else the denial of a check that it fails.                                 *)
LEMMA UnsafeFact ==
    ASSUME NEW failing
    PROVE  \/ UnsafeFactDenial(failing) = "none" /\ failing \cap CheckNames = {}
           \/ \E i \in DOMAIN Checks :
                  Checks[i].check \in failing /\ UnsafeFactDenial(failing) = Checks[i].denial
<1> DEFINE failed == {i \in DOMAIN Checks : Checks[i].check \in failing}
<1>1. failed \subseteq 1 .. 12
  BY Rules
<1>2. CASE failed = {}
  <2>1. UnsafeFactDenial(failing) = "none"
    BY <1>2 DEF UnsafeFactDenial
  <2>2. failing \cap CheckNames = {}
    BY <1>2 DEF CheckNames
  <2> QED
    BY <2>1, <2>2
<1>3. CASE failed # {}
  <2> DEFINE least == CHOOSE i \in failed : \A j \in failed : i <= j
  <2>1. least \in failed
    <3>1. failed \subseteq Nat
      BY <1>1
    <3>2. PICK i \in failed : \A j \in failed : i <= j
      BY <1>3, <3>1, LeastNumber
    <3> QED
      BY <3>2
  <2>2. UnsafeFactDenial(failing) = Checks[least].denial
    BY <1>3 DEF UnsafeFactDenial
  <2> QED
    BY <2>1, <2>2
<1> QED
  BY <1>2, <1>3

-----------------------------------------------------------------------------
(* Sequences of whatever it is.                                              *)
IsSeq(s) == \E S : s \in Seq(S)

LEMMA EmptyIsSeq == IsSeq(<<>>)
  BY <<>> \in Seq({}) DEF IsSeq

LEMMA AppendIsSeq ==
    ASSUME NEW s, IsSeq(s), NEW x
    PROVE  /\ IsSeq(Append(s, x))
           /\ Len(s) \in Nat /\ Len(Append(s, x)) = Len(s) + 1
           /\ DOMAIN s = 1 .. Len(s) /\ DOMAIN Append(s, x) = 1 .. Len(s) + 1
           /\ \A i \in DOMAIN s : Append(s, x)[i] = s[i]
           /\ Append(s, x)[Len(s) + 1] = x
<1>1. PICK S : s \in Seq(S)
  BY DEF IsSeq
<1> DEFINE T == S \cup {x}
<1>2. s \in Seq(T)
  BY <1>1
<1>3. x \in T
  OBVIOUS
<1> HIDE DEF T
<1>4. Append(s, x) \in Seq(T)
  BY <1>2, <1>3
<1> QED
  BY <1>2, <1>3, <1>4 DEF IsSeq

-----------------------------------------------------------------------------
(* The state.                                                                *)
Kinds == Natures \cup {"plain"}

\* What a sweep has read so far.
Taken(k) == IF Len(sweeps) >= k THEN sweeps[k]
            ELSE IF Len(sweeps) = k - 1 THEN readings ELSE <<>>

\* The object that was opened for a component, by the first sweep.
Own(i) == Taken(1)[i + 1].object

TypesInv ==
    /\ at \in [Slots -> Objects \cup {Absent}]
    /\ \A s \in Slots : at[s] # Absent => at[s][2] = s[2] + 1
    /\ nature \in [Objects -> Kinds]
    /\ been = [i \in 0 .. Depth |-> been[i]] /\ returned \in BOOLEAN
    /\ role \in {"source_file", "source_root"}
    /\ descriptors \in Seq(Objects) /\ Len(descriptors) <= Last + 1
    /\ \A i \in DOMAIN descriptors : descriptors[i][2] = i - 1
    /\ IsSeq(readings) /\ Len(readings) <= Last
    /\ IsSeq(sweeps) /\ Len(sweeps) <= 4
    /\ \A k \in 1 .. Len(sweeps) : IsSeq(sweeps[k]) /\ Len(sweeps[k]) = Last + 1
    /\ helper.stage \in {"idle", "matched", "read", "answered"}

StageInv ==
    /\ ~ Running => descriptors = <<>> /\ helper.stage = "idle"
    /\ Running => \/ Opened
                  \/ sweeps = <<>> /\ readings = <<>> /\ helper.stage = "idle"
    /\ Described => readings = <<>>
    /\ helper.stage # "idle" => OnUrls
    /\ Reported => Described

(* What the descriptors told is true of the objects, but they may change.    *)
OpenedInv ==
    /\ Running => \A i \in DOMAIN Taken(1) : Taken(1)[i].object = descriptors[i]
    /\ \A i \in DOMAIN Taken(1) :
           Taken(1)[i].nature # "plain" => nature[Taken(1)[i].object] = Taken(1)[i].nature

(* Where the paths have led to.                                              *)
BeenInv ==
    /\ \A i \in 0 .. Depth : Where[i] \in been[i]
    /\ \A i \in DOMAIN Taken(2) : Own(i - 1) \in been[i - 1]

(* The moment between the sweeps, and what is still true of it.              *)
MidInv ==
    Len(sweeps) >= 2 =>
        /\ mid[Last].object = Own(Last)
        /\ \A i \in 0 .. Last :
               /\ mid[i].nature \notin {"absent", "link", "loose"}
               /\ mid[i].object # Own(i) /\ ~ returned => Where[i] # Own(i)
               /\ mid[i].object = Own(i) /\ Taken(1)[i + 1].nature # "plain" =>
                      mid[i].nature = Taken(1)[i + 1].nature
               /\ mid[i].object = Own(i) /\ mid[i].nature # "plain" =>
                      nature[Own(i)] = mid[i].nature

(* What the third sweep reads of an object that was there then.              *)
ThirdInv ==
    \A i \in DOMAIN Taken(3) :
        mid[i - 1].object = Own(i - 1) /\ mid[i - 1].nature # "plain" =>
            Taken(3)[i].nature = Visible(mid[i - 1].nature)

(* What a call of the helper has read of it, in the last sweep.              *)
HelperInv ==
    helper.stage # "idle" =>
        LET i == Len(readings)
        IN  /\ Own(i) \in been[i]
            /\ helper.stage # "matched" =>
                   /\ helper.url.object # Own(i) /\ ~ returned => Where[i] # Own(i)
                   /\ (Len(sweeps) = 3 /\ helper.url.object = Own(i)
                       /\ mid[i].object = Own(i) /\ mid[i].nature # "plain") =>
                          helper.url.nature = mid[i].nature
            /\ (helper.stage = "answered" /\ Len(sweeps) = 3 /\ ~ returned
                /\ mid[i].object = Own(i) /\ mid[i].nature = "managed") =>
                   helper.state = "managed" \/ Where[i] # Own(i)

LastInv ==
    ~ returned => \A i \in DOMAIN Taken(4) :
        /\ mid[i - 1].object = Own(i - 1)
        /\ mid[i - 1].nature # "plain" => Taken(4)[i].url.nature = mid[i - 1].nature
        /\ mid[i - 1].nature = "managed" => Taken(4)[i].state = "managed"

ProbeInv ==
    TypesInv /\ StageInv /\ OpenedInv /\ BeenInv /\ MidInv /\ ThirdInv /\ HelperInv /\ LastInv

-----------------------------------------------------------------------------
(* Where the paths lead to.                                                  *)
LEMMA SameWhere ==
    ASSUME UNCHANGED <<at, nature>>
    PROVE  Where' = Where
  BY DEF Where

LEMMA LeadsFacts ==
    /\ \A i \in 0 .. Depth : /\ Leads[i].object = Where[i]
                             /\ Leads[i].nature = IF Where[i] = Absent THEN "absent" ELSE nature[Where[i]]
    /\ \A i \in 0 .. Depth : \A o : o \in TrustedStat(i) =>
           /\ Where[i] = o
           /\ \A j \in 0 .. i : Leads[j].nature \notin {"absent", "link", "loose"}
<1>1. \A i \in 0 .. Depth : /\ Leads[i].object = Where[i]
                           /\ Leads[i].nature = IF Where[i] = Absent THEN "absent" ELSE nature[Where[i]]
  BY DEF Leads
<1>2. \A i \in 0 .. Depth : \A o : o \in TrustedStat(i) =>
           /\ Where[i] = o
           /\ \A j \in 0 .. i : Leads[j].nature \notin {"absent", "link", "loose"}
  BY DEF TrustedStat
<1> QED
  BY <1>1, <1>2

LEMMA ObjectFacts ==
    /\ Absent \notin Objects
    /\ Last \in 0 .. Depth
    /\ \A i \in 0 .. Last : i \in 0 .. Depth
<1>1. Absent \notin Objects
  BY DEF Absent, Objects
<1>2. Last \in 0 .. Depth
  BY DarwinNatures DEF Last
<1> QED
  BY <1>1, <1>2, DarwinNatures

(* What has been read, and what a reading adds to it.                        *)
LEMMA TakenFacts ==
    ASSUME TypesInv, StageInv
    PROVE  /\ Len(sweeps) \in Nat /\ Len(readings) \in Nat
           /\ \A k \in 1 .. 4 : /\ IsSeq(Taken(k))
                                /\ Len(sweeps) >= k => Taken(k) = sweeps[k] /\ Len(Taken(k)) = Last + 1
                                /\ Len(sweeps) = k - 1 => Taken(k) = readings
                                /\ Len(sweeps) < k - 1 => Taken(k) = <<>>
                                /\ DOMAIN Taken(k) = 1 .. Len(Taken(k))
                                /\ Len(Taken(k)) \in Nat /\ Len(Taken(k)) <= Last + 1
<1>1. \A s : IsSeq(s) => Len(s) \in Nat /\ DOMAIN s = 1 .. Len(s)
  BY DEF IsSeq
<1>2. Len(sweeps) \in Nat /\ Len(readings) \in Nat
  BY <1>1 DEF TypesInv
<1>3. Last \in Nat
  BY ObjectFacts, DarwinNatures
<1>4. ASSUME NEW k \in 1 .. 4
      PROVE  /\ IsSeq(Taken(k))
             /\ Len(sweeps) >= k => Taken(k) = sweeps[k] /\ Len(Taken(k)) = Last + 1
             /\ Len(sweeps) = k - 1 => Taken(k) = readings
             /\ Len(sweeps) < k - 1 => Taken(k) = <<>>
             /\ Len(Taken(k)) <= Last + 1
  <2>1. CASE Len(sweeps) >= k
    BY <1>2, <1>3, <2>1 DEF Taken, TypesInv
  <2>2. CASE Len(sweeps) = k - 1
    <3>1. Taken(k) = readings
      BY <1>2, <2>2 DEF Taken
    <3> QED
      BY <1>2, <1>3, <2>2, <3>1 DEF TypesInv
  <2>3. CASE Len(sweeps) < k - 1
    <3>1. Taken(k) = <<>>
      BY <1>2, <2>3 DEF Taken
    <3>2. Len(<<>>) = 0
      OBVIOUS
    <3> QED
      BY <1>2, <1>3, <2>3, <3>1, <3>2, EmptyIsSeq
  <2> QED
    BY <1>2, <2>1, <2>2, <2>3
<1> QED
  BY <1>1, <1>2, <1>4

LEMMA RecordTaken ==
    ASSUME TypesInv, StageInv, ~ Described, NEW info, Record(info)
    PROVE  /\ Len(sweeps) + 1 \in 1 .. 4
           /\ \A k \in 1 .. 4 :
                  IF k = Len(sweeps) + 1
                  THEN /\ Taken(k) = readings
                       /\ DOMAIN Taken(k)' = 1 .. Len(readings) + 1
                       /\ \A i \in 1 .. Len(readings) : Taken(k)'[i] = Taken(k)[i]
                       /\ Taken(k)'[Len(readings) + 1] = info
                  ELSE Taken(k)' = Taken(k)
           /\ IsSeq(readings') /\ Len(readings') <= Last
           /\ IsSeq(sweeps') /\ Len(sweeps') <= 4
           /\ \A k \in 1 .. Len(sweeps') : IsSeq(sweeps'[k]) /\ Len(sweeps'[k]) = Last + 1
           /\ IF Level < Last
              THEN mid' = mid /\ Len(sweeps') = Len(sweeps)
              ELSE /\ Level = Last /\ Len(sweeps') = Len(sweeps) + 1 /\ readings' = <<>>
                   /\ mid' = IF Len(sweeps) = 1 THEN Leads ELSE mid
<1>1. /\ Len(sweeps) \in Nat /\ Len(sweeps) <= 3 /\ Len(readings) \in Nat /\ Len(readings) <= Last
      /\ Last \in Nat
  <2>1. Len(sweeps) \in Nat /\ Len(readings) \in Nat
    BY TakenFacts
  <2>2. Len(sweeps) <= 4 /\ Len(sweeps) # 4 /\ Len(readings) <= Last
    BY DEF TypesInv, Described
  <2>3. Last \in Nat
    BY ObjectFacts, DarwinNatures
  <2>4. \A n \in Nat : n <= 4 /\ n # 4 => n <= 3
    OBVIOUS
  <2>5. Len(sweeps) <= 3
    BY <2>1, <2>2, <2>4
  <2> QED
    BY <2>1, <2>2, <2>3, <2>5
<1>2. IsSeq(readings) /\ IsSeq(sweeps)
  BY DEF TypesInv
<1> DEFINE more == Append(readings, info)
<1>3. /\ IsSeq(more) /\ Len(more) = Len(readings) + 1 /\ DOMAIN more = 1 .. Len(readings) + 1
      /\ \A i \in 1 .. Len(readings) : more[i] = readings[i]
      /\ more[Len(readings) + 1] = info
  BY <1>2, AppendIsSeq
<1>4. /\ IsSeq(Append(sweeps, more)) /\ Len(Append(sweeps, more)) = Len(sweeps) + 1
      /\ \A k \in 1 .. Len(sweeps) : Append(sweeps, more)[k] = sweeps[k]
      /\ Append(sweeps, more)[Len(sweeps) + 1] = more
  BY <1>2, AppendIsSeq
<1>5. CASE Level < Last
  <2>1. readings' = more /\ sweeps' = sweeps /\ mid' = mid
    BY <1>5 DEF Record
  <2> HIDE DEF more
  <2>2. ASSUME NEW k \in 1 .. 4
        PROVE  Taken(k)' = IF k = Len(sweeps) + 1 THEN more ELSE Taken(k)
    BY <1>1, <2>1 DEF Taken
  <2>3. \A k \in 1 .. 4 : k = Len(sweeps) + 1 => Taken(k) = readings
    BY TakenFacts, <1>1
  <2>4. Len(readings') <= Last
    BY <1>1, <1>3, <1>5, <2>1 DEF Level
  <2> QED
    BY <1>1, <1>2, <1>3, <1>5, <2>1, <2>2, <2>3, <2>4 DEF TypesInv
<1>6. CASE ~ (Level < Last)
  <2>1. readings' = <<>> /\ sweeps' = Append(sweeps, more)
        /\ mid' = IF Len(sweeps) = 1 THEN Leads ELSE mid
    BY <1>6 DEF Record
  <2>2. Len(readings) = Last /\ Level = Last
    BY <1>1, <1>6 DEF Level
  <2>3. Len(<<>>) = 0
    OBVIOUS
  <2> HIDE DEF more
  <2>4. Len(sweeps') = Len(sweeps) + 1
    BY <1>4, <2>1
  <2>5. ASSUME NEW k \in 1 .. 4
        PROVE  Taken(k)' = IF k = Len(sweeps) + 1 THEN more ELSE Taken(k)
    <3>1. CASE k <= Len(sweeps)
      BY <1>1, <1>4, <2>1, <2>4, <3>1 DEF Taken
    <3>2. CASE k = Len(sweeps) + 1
      BY <1>1, <1>4, <2>1, <2>4, <3>2 DEF Taken
    <3>3. CASE k > Len(sweeps) + 1
      BY <1>1, <2>1, <2>4, <3>3 DEF Taken
    <3> QED
      BY <1>1, <3>1, <3>2, <3>3
  <2>6. \A k \in 1 .. 4 : k = Len(sweeps) + 1 => Taken(k) = readings
    BY TakenFacts, <1>1
  <2>7. \A k \in 1 .. Len(sweeps') : IsSeq(sweeps'[k]) /\ Len(sweeps'[k]) = Last + 1
    <3> SUFFICES ASSUME NEW k \in 1 .. Len(sweeps')
                 PROVE  IsSeq(sweeps'[k]) /\ Len(sweeps'[k]) = Last + 1
      OBVIOUS
    <3>1. CASE k <= Len(sweeps)
      BY <1>1, <1>4, <2>1, <3>1 DEF TypesInv
    <3>2. CASE k = Len(sweeps) + 1
      BY <1>3, <1>4, <2>1, <2>2, <3>2
    <3> QED
      BY <1>1, <2>4, <3>1, <3>2
  <2>8. IsSeq(readings') /\ Len(readings') <= Last
    BY <1>1, <2>1, <2>3, EmptyIsSeq
  <2>9. IsSeq(sweeps') /\ Len(sweeps') <= 4
    BY <1>1, <1>4, <2>1, <2>4
  <2> QED
    BY <1>1, <1>3, <1>6, <2>1, <2>2, <2>4, <2>5, <2>6, <2>7, <2>8, <2>9
<1> QED
  BY <1>5, <1>6

-----------------------------------------------------------------------------
(* The steps.                                                                *)

\* A step that reads: a descriptor, or a path for the last time.
Reads(info) ==
    /\ Running /\ Opened /\ ~ Described
    /\ \/ /\ ~ OnUrls /\ helper.stage = "idle"
          /\ info = [object |-> descriptors[Level + 1],
                     nature |-> Visible(nature[descriptors[Level + 1]])]
       \/ /\ OnUrls /\ helper.stage = "answered"
          /\ descriptors[Level + 1] \in TrustedStat(Level)
          /\ info = [object |-> descriptors[Level + 1], url |-> helper.url, state |-> helper.state]
    /\ Record(info)
    /\ helper'.stage = "idle"

\* A step of the helper that only it knows of.
Helps ==
    /\ Running /\ Opened /\ ~ Described /\ OnUrls
    /\ UNCHANGED <<world, role, descriptors, sweeps, readings, outcome, mid>>
    /\ \/ /\ helper.stage = "idle" /\ helper'.stage = "matched"
          /\ descriptors[Level + 1] \in TrustedStat(Level)
       \/ /\ helper.stage = "matched" /\ helper'.stage = "read"
          /\ helper'.url = Leads[Level]
       \/ /\ helper.stage = "read" /\ helper'.stage = "answered"
          /\ helper'.url = helper.url
          /\ helper'.state = IF Leads[Level].nature = "managed" THEN "managed" ELSE "not managed"

Ends ==
    /\ Running /\ outcome' # "running" /\ descriptors' = <<>> /\ helper'.stage = "idle"
    /\ outcome' \in {"coherent", "incoherent"} => Described
    /\ outcome' = "coherent" => Coherent
    /\ UNCHANGED <<world, role, sweeps, readings, mid>>

Changes ==
    /\ Changed
    /\ at' \in [Slots -> Objects \cup {Absent}]
    /\ \A s \in Slots : at'[s] # Absent => at'[s][2] = s[2] + 1
    /\ nature' \in [Objects -> Kinds]
    /\ \A o \in Objects : nature'[o] = nature[o] \/ nature[o] = "plain"

LEMMA RunningHelper ==
    ASSUME StageInv, helper.stage # "idle"
    PROVE  Running /\ Opened /\ ~ Described /\ OnUrls
  BY DEF StageInv, OnUrls, Described

LEMMA ExitEnds ==
    ASSUME NEW how, Exit(how), Running, how # "running",
           how \in {"coherent", "incoherent"} => Described, how = "coherent" => Coherent
    PROVE  Ends
<1>1. helper'.stage = "idle"
  BY DEF Exit
<1> QED
  BY <1>1 DEF Exit, Ends

LEMMA StepKinds ==
    ASSUME TypesInv, StageInv, [Next]_vars
    PROVE  OpenNext \/ (\E info : Reads(info)) \/ Helps \/ Ends \/ Changes \/ UNCHANGED vars
<1>1. ASSUME OpenFails
      PROVE  Ends
  <2>1. PICK how \in {"missing", "link", "error"} : Running /\ Exit(how)
    BY <1>1 DEF OpenFails
  <2> QED
    BY <2>1, ExitEnds
<1>2. ASSUME InspectFd
      PROVE  \E info : Reads(info)
  <2> DEFINE info == [object |-> descriptors[Level + 1],
                      nature |-> Visible(nature[descriptors[Level + 1]])]
  <2>1. Record(info) /\ helper' = helper /\ Running /\ Opened /\ ~ Described /\ ~ OnUrls
    BY <1>2 DEF InspectFd, Reading
  <2>2. helper.stage = "idle"
    BY <2>1, RunningHelper
  <2>3. Reads(info)
    BY <2>1, <2>2 DEF Reads
  <2> QED
    BY <2>3
<1>3. ASSUME HelperMatch
      PROVE  Helps \/ Ends
  <2>1. Running /\ Opened /\ ~ Described /\ OnUrls /\ helper.stage = "idle"
    BY <1>3 DEF HelperMatch, Reading
  <2>2. CASE descriptors[Level + 1] \in TrustedStat(Level)
    <3>1. HelperMoves("matched", Nowhere, "")
      BY <1>3, <2>2 DEF HelperMatch
    <3>2. helper'.stage = "matched"
      BY <3>1 DEF HelperMoves
    <3> QED
      BY <2>1, <2>2, <3>1, <3>2 DEF Helps, HelperMoves
  <2>3. CASE descriptors[Level + 1] \notin TrustedStat(Level)
    <3>1. Exit("error")
      BY <1>3, <2>3 DEF HelperMatch
    <3> QED
      BY <2>1, <3>1, ExitEnds
  <2> QED
    BY <2>2, <2>3
<1>4. ASSUME HelperRead
      PROVE  Helps \/ Ends
  <2>1. helper.stage = "matched"
    BY <1>4 DEF HelperRead
  <2>2. Running /\ Opened /\ ~ Described /\ OnUrls
    BY <2>1, RunningHelper
  <2>3. CASE Where[Level] = Absent
    <3>1. Exit("error")
      BY <1>4, <2>3 DEF HelperRead
    <3> QED
      BY <2>2, <3>1, ExitEnds
  <2>4. CASE Where[Level] # Absent
    <3>1. HelperMoves("read", Leads[Level], "")
      BY <1>4, <2>4 DEF HelperRead
    <3>2. helper'.stage = "read" /\ helper'.url = Leads[Level]
      BY <3>1 DEF HelperMoves
    <3> QED
      BY <2>1, <2>2, <3>1, <3>2 DEF Helps, HelperMoves
  <2> QED
    BY <2>3, <2>4
<1>5. ASSUME ProviderAnswers
      PROVE  Helps
  <2> DEFINE state == IF Leads[Level].nature = "managed" THEN "managed" ELSE "not managed"
  <2>1. helper.stage = "read" /\ HelperMoves("answered", helper.url, state)
    BY <1>5 DEF ProviderAnswers
  <2>2. Running /\ Opened /\ ~ Described /\ OnUrls
    BY <2>1, RunningHelper
  <2>3. helper'.stage = "answered" /\ helper'.url = helper.url /\ helper'.state = state
    BY <2>1 DEF HelperMoves
  <2> QED
    BY <2>1, <2>2, <2>3 DEF Helps, HelperMoves
<1>6. ASSUME ProviderDeadline
      PROVE  Ends
  <2>1. helper.stage = "read" /\ Exit("error")
    BY <1>6 DEF ProviderDeadline
  <2> QED
    BY <2>1, RunningHelper, ExitEnds
<1>7. ASSUME HelperMatchAgain
      PROVE  (\E info : Reads(info)) \/ Ends
  <2>1. helper.stage = "answered"
    BY <1>7 DEF HelperMatchAgain
  <2>2. Running /\ Opened /\ ~ Described /\ OnUrls
    BY <2>1, RunningHelper
  <2>3. CASE descriptors[Level + 1] \in TrustedStat(Level)
    <3> DEFINE info == [object |-> descriptors[Level + 1], url |-> helper.url,
                        state |-> helper.state]
    <3>1. Record(info) /\ helper' = [stage |-> "idle"]
      BY <1>7, <2>3 DEF HelperMatchAgain
    <3>2. helper'.stage = "idle"
      BY <3>1
    <3>3. Reads(info)
      BY <2>1, <2>2, <2>3, <3>1, <3>2 DEF Reads
    <3> QED
      BY <3>3
  <2>4. CASE descriptors[Level + 1] \notin TrustedStat(Level)
    <3>1. Exit("error")
      BY <1>7, <2>4 DEF HelperMatchAgain
    <3> QED
      BY <2>2, <3>1, ExitEnds
  <2> QED
    BY <2>3, <2>4
<1>8. ASSUME ReadFails
      PROVE  Ends
  BY <1>8, ExitEnds DEF ReadFails, Reading
<1>9. ASSUME Compose
      PROVE  Ends
  <2>1. PICK how : how = IF Coherent THEN "coherent" ELSE "incoherent"
    OBVIOUS
  <2>2. Running /\ Described /\ Exit(how)
    BY <1>9, <2>1 DEF Compose
  <2>3. how # "running" /\ (how = "coherent" => Coherent)
    BY <2>1
  <2> QED
    BY <2>2, <2>3, ExitEnds
<1>10. ASSUME NEW slot \in Slots, NEW object \in ((1 .. Chains) \X {slot[2] + 1}) \cup {Absent},
              Replace(slot, object)
       PROVE  Changes
  <2>1. object \in Objects \cup {Absent} /\ (object # Absent => object[2] = slot[2] + 1)
    <3>1. slot[2] + 1 \in 0 .. Depth
      BY DarwinNatures DEF Slots, Above
    <3> QED
      BY <3>1 DEF Objects
  <2>2. /\ at' = [s \in Slots |-> IF s = slot THEN object
                                  ELSE IF at[s] = object THEN Absent ELSE at[s]]
        /\ nature' = nature /\ Changed
    BY <1>10 DEF Replace
  <2>3. at' \in [Slots -> Objects \cup {Absent}]
    BY <2>1, <2>2 DEF TypesInv
  <2>4. \A s \in Slots : at'[s] # Absent => at'[s][2] = s[2] + 1
    BY <2>1, <2>2 DEF TypesInv
  <2> QED
    BY <2>2, <2>3, <2>4 DEF Changes, TypesInv
<1>11. ASSUME NEW object \in Objects, NEW n \in Natures, Alter(object, n)
       PROVE  Changes
  <2>1. /\ nature[object] = "plain" /\ nature' = [nature EXCEPT ![object] = n]
        /\ at' = at /\ Changed
    BY <1>11 DEF Alter
  <2>2. nature' \in [Objects -> Kinds]
    BY <2>1 DEF TypesInv, Kinds
  <2>3. \A o \in Objects : nature'[o] = nature[o] \/ nature[o] = "plain"
    BY <2>1 DEF TypesInv
  <2> QED
    BY <2>1, <2>2, <2>3 DEF Changes, TypesInv
<1> QED
  BY <1>1, <1>2, <1>3, <1>4, <1>5, <1>6, <1>7, <1>8, <1>9, <1>10, <1>11 DEF Next, Probe, Done

(* What a change of the file system leaves as it was.                        *)
LEMMA ChangeFacts ==
    ASSUME TypesInv, BeenInv, Changes
    PROVE  /\ Running /\ UNCHANGED <<role, descriptors, sweeps, readings, helper, outcome, mid>>
           /\ \A k : Taken(k)' = Taken(k)
           /\ ~ returned' => ~ returned
           /\ been' = [i \in 0 .. Depth |-> been'[i]]
           /\ \A i \in 0 .. Depth : Where'[i] \in been'[i] /\ been[i] \subseteq been'[i]
           /\ ~ returned' => \A i \in 0 .. Depth : \A o \in been[i] :
                  o # Absent /\ Where[i] # o => Where'[i] # o
<1>1. /\ Running /\ UNCHANGED <<role, descriptors, sweeps, readings, helper, outcome, mid>>
      /\ been' = [i \in 0 .. Depth |-> been[i] \cup {Where'[i]}]
      /\ returned' = (returned \/ \E i \in 0 .. Depth :
             Where'[i] # Where[i] /\ Where'[i] # Absent /\ Where'[i] \in been[i])
  BY DEF Changes, Changed, Running
<1>2. \A k : Taken(k)' = Taken(k)
  BY <1>1 DEF Taken
<1>3. ~ returned' => /\ ~ returned
                     /\ ~ \E i \in 0 .. Depth :
                            Where'[i] # Where[i] /\ Where'[i] # Absent /\ Where'[i] \in been[i]
  BY <1>1
<1>4. \A i \in 0 .. Depth : been'[i] = been[i] \cup {Where'[i]}
  BY <1>1
<1> QED
  BY <1>1, <1>2, <1>3, <1>4

(* What is opened or read next.                                              *)
LEMMA NextReading ==
    ASSUME TypesInv, StageInv, Running, Opened, ~ Described
    PROVE  /\ Level \in 0 .. Last /\ Level = Len(readings)
           /\ Level + 1 \in DOMAIN descriptors /\ descriptors[Level + 1] \in Objects
           /\ descriptors[Level + 1] # Absent
<1>1. Level \in Nat /\ Level = Len(readings) /\ Level <= Last /\ Last \in Nat
  BY TakenFacts, ObjectFacts, DarwinNatures DEF TypesInv, Level
<1>2. DOMAIN descriptors = 1 .. Last + 1 /\ descriptors \in Seq(Objects)
  BY DEF TypesInv, Opened
<1>3. Level \in 0 .. Last /\ Level + 1 \in 1 .. Last + 1
  BY <1>1
<1>4. descriptors[Level + 1] \in Objects
  <2>1. PICK k : k = Level + 1
    OBVIOUS
  <2>2. k \in DOMAIN descriptors
    BY <1>2, <1>3, <2>1
  <2>3. \A i \in DOMAIN descriptors : descriptors[i] \in Objects
    BY DEF TypesInv
  <2>4. descriptors[k] \in Objects
    BY <2>2, <2>3
  <2> QED
    BY <2>1, <2>4
<1> QED
  BY <1>1, <1>2, <1>3, <1>4, ObjectFacts

LEMMA TypesStep ==
    ASSUME TypesInv, StageInv, BeenInv, [Next]_vars
    PROVE  TypesInv'
<1>1. ASSUME OpenNext
      PROVE  TypesInv'
  <2>1. /\ UNCHANGED <<world, role, sweeps, readings, helper>>
        /\ descriptors' = Append(descriptors, NextObject) /\ NextObject # Absent /\ ~ Opened
    BY <1>1 DEF OpenNext, Openable
  <2>2. /\ descriptors \in Seq(Objects) /\ Len(descriptors) \in Nat /\ Len(descriptors) <= Last
        /\ Last \in 0 .. Depth /\ Last' = Last
    <3>1. Last \in 0 .. Depth /\ Last' = Last
      BY <2>1, ObjectFacts DEF Last
    <3>2. descriptors \in Seq(Objects) /\ Len(descriptors) \in Nat
          /\ Len(descriptors) <= Last + 1 /\ Len(descriptors) # Last + 1
      BY <2>1 DEF TypesInv, Opened
    <3> QED
      BY <3>1, <3>2, DarwinNatures
  <2>3. NextObject \in Objects /\ NextObject[2] = Len(descriptors)
    <3>1. CASE descriptors = <<>>
      <4>1. Above \in Slots /\ Above[2] + 1 = 0 /\ Len(descriptors) = 0
        BY <3>1 DEF Slots, Above
      <4>2. NextObject = at[Above]
        BY <3>1 DEF NextObject
      <4> QED
        BY <2>1, <4>1, <4>2 DEF TypesInv
    <3>2. CASE descriptors # <<>>
      <4> DEFINE d == descriptors[Len(descriptors)]
      <4>1. Len(descriptors) \in DOMAIN descriptors
        BY <2>2, <3>2
      <4>2. d \in Objects /\ d[2] = Len(descriptors) - 1
        BY <2>2, <4>1 DEF TypesInv
      <4>3. d \in Slots
        <5>1. d \in (1 .. Chains) \X (0 .. Depth)
          BY <4>2 DEF Objects
        <5>2. d = <<d[1], d[2]>> /\ d[1] \in 1 .. Chains
          BY <5>1
        <5>3. d[2] \in 0 .. Depth - 1
          BY <2>2, <4>1, <4>2, DarwinNatures
        <5> QED
          BY <5>2, <5>3 DEF Slots
      <4>4. NextObject = at[d]
        BY <3>2 DEF NextObject
      <4> HIDE DEF d
      <4> QED
        BY <2>1, <2>2, <4>2, <4>3, <4>4 DEF TypesInv
    <3> QED
      BY <3>1, <3>2
  <2>4. /\ descriptors' \in Seq(Objects) /\ Len(descriptors') <= Last + 1
        /\ \A i \in DOMAIN descriptors' : descriptors'[i][2] = i - 1
    <3>1. /\ descriptors' \in Seq(Objects) /\ Len(descriptors') = Len(descriptors) + 1
          /\ \A i \in DOMAIN descriptors' :
                 \/ i \in DOMAIN descriptors /\ descriptors'[i] = descriptors[i]
                 \/ i = Len(descriptors) + 1 /\ descriptors'[i] = NextObject
      BY <2>1, <2>2, <2>3
    <3>2. ASSUME NEW i \in DOMAIN descriptors'
          PROVE  descriptors'[i][2] = i - 1
      <4>1. CASE i \in DOMAIN descriptors /\ descriptors'[i] = descriptors[i]
        BY <4>1 DEF TypesInv
      <4>2. CASE i = Len(descriptors) + 1 /\ descriptors'[i] = NextObject
        BY <2>2, <2>3, <4>2
      <4> QED
        BY <3>1, <4>1, <4>2
    <3>3. Len(descriptors') <= Last + 1
      BY <2>2, <3>1, DarwinNatures
    <3> QED
      BY <3>1, <3>2, <3>3
  <2> QED
    BY <2>1, <2>2, <2>4 DEF TypesInv, world
<1>2. ASSUME NEW info, Reads(info)
      PROVE  TypesInv'
  <2>1. /\ Record(info) /\ ~ Described /\ helper'.stage = "idle"
    BY <1>2 DEF Reads
  <2>2. UNCHANGED <<world, role, descriptors>> /\ Last' = Last
    BY <2>1 DEF Record, Last
  <2>3. /\ IsSeq(readings') /\ Len(readings') <= Last
        /\ IsSeq(sweeps') /\ Len(sweeps') <= 4
        /\ \A k \in 1 .. Len(sweeps') : IsSeq(sweeps'[k]) /\ Len(sweeps'[k]) = Last + 1
    BY <2>1, RecordTaken
  <2> QED
    BY <2>1, <2>2, <2>3 DEF TypesInv, world
<1>3. ASSUME Helps
      PROVE  TypesInv'
  <2>1. /\ UNCHANGED <<world, role, descriptors, sweeps, readings>> /\ Last' = Last
        /\ helper'.stage \in {"matched", "read", "answered"}
    BY <1>3 DEF Helps, Last
  <2> QED
    BY <2>1 DEF TypesInv, world
<1>4. ASSUME Ends
      PROVE  TypesInv'
  <2>1. /\ UNCHANGED <<world, role, sweeps, readings>> /\ Last' = Last
        /\ helper'.stage = "idle" /\ descriptors' = <<>>
    BY <1>4 DEF Ends, Last
  <2>2. /\ descriptors' \in Seq(Objects) /\ Len(descriptors') = 0 /\ DOMAIN descriptors' = {}
    BY <2>1
  <2>3. Len(descriptors') <= Last + 1
    BY <2>2, ObjectFacts, DarwinNatures
  <2> QED
    BY <2>1, <2>2, <2>3 DEF TypesInv, world
<1>5. ASSUME Changes
      PROVE  TypesInv'
  <2>1. /\ UNCHANGED <<role, descriptors, sweeps, readings, helper>> /\ Last' = Last
        /\ been' = [i \in 0 .. Depth |-> been'[i]]
    BY <1>5, ChangeFacts DEF Last
  <2>2. /\ at' \in [Slots -> Objects \cup {Absent}]
        /\ \A s \in Slots : at'[s] # Absent => at'[s][2] = s[2] + 1
        /\ nature' \in [Objects -> Kinds]
    BY <1>5 DEF Changes
  <2>3. returned' \in BOOLEAN
    BY <1>5 DEF Changes, Changed
  <2> QED
    BY <2>1, <2>2, <2>3 DEF TypesInv
<1>6. CASE UNCHANGED vars
  BY <1>6 DEF vars, world, TypesInv, Last
<1> QED
  BY <1>1, <1>2, <1>3, <1>4, <1>5, <1>6, StepKinds

LEMMA StageStep ==
    ASSUME TypesInv, StageInv, BeenInv, [Next]_vars
    PROVE  StageInv'
<1>1. ASSUME OpenNext
      PROVE  StageInv'
  <2>1. /\ UNCHANGED <<role, sweeps, readings, helper, outcome>> /\ Running /\ ~ Opened
    BY <1>1 DEF OpenNext
  <2>2. sweeps = <<>> /\ readings = <<>> /\ helper.stage = "idle"
    BY <2>1 DEF StageInv
  <2>3. ~ Reported' /\ Running'
    BY <2>1 DEF Running, Reported
  <2> QED
    BY <2>1, <2>2, <2>3 DEF StageInv
<1>2. ASSUME NEW info, Reads(info)
      PROVE  StageInv'
  <2>1. /\ Record(info) /\ ~ Described /\ helper'.stage = "idle" /\ Running /\ Opened
    BY <1>2 DEF Reads
  <2>2. UNCHANGED <<role, descriptors, outcome>>
    BY <2>1 DEF Record
  <2>3. Running' /\ Opened' /\ ~ Reported'
    BY <2>1, <2>2 DEF Running, Opened, Last, Reported
  <2>4. Described' => readings' = <<>>
    <3>1. \/ Len(sweeps') = Len(sweeps)
          \/ readings' = <<>>
      BY <2>1, RecordTaken
    <3> QED
      BY <2>1, <3>1 DEF Described
  <2> QED
    BY <2>1, <2>3, <2>4 DEF StageInv
<1>3. ASSUME Helps
      PROVE  StageInv'
  <2>1. /\ UNCHANGED <<role, descriptors, sweeps, readings, outcome>>
        /\ Running /\ Opened /\ ~ Described /\ OnUrls
    BY <1>3 DEF Helps
  <2>2. Running' /\ Opened' /\ ~ Described' /\ OnUrls' /\ ~ Reported'
    BY <2>1 DEF Running, Opened, Last, Reported, Described, OnUrls
  <2> QED
    BY <2>2 DEF StageInv
<1>4. ASSUME Ends
      PROVE  StageInv'
  <2>1. /\ UNCHANGED <<sweeps, readings>> /\ helper'.stage = "idle" /\ descriptors' = <<>>
        /\ ~ Running' /\ (Reported' => Described)
    BY <1>4 DEF Ends, Running, Reported
  <2>2. Described' <=> Described
    BY <2>1 DEF Described
  <2> QED
    BY <2>1, <2>2 DEF StageInv
<1>5. ASSUME Changes
      PROVE  StageInv'
  <2>1. UNCHANGED <<role, descriptors, sweeps, readings, helper, outcome>>
    BY <1>5, ChangeFacts
  <2> QED
    BY <2>1 DEF StageInv, Running, Opened, Last, Described, OnUrls, Reported
<1>6. CASE UNCHANGED vars
  BY <1>6 DEF vars, StageInv, Running, Opened, Last, Described, OnUrls, Reported
<1> QED
  BY <1>1, <1>2, <1>3, <1>4, <1>5, <1>6, StepKinds

-----------------------------------------------------------------------------
(* What was read of the chain.                                               *)
LEMMA OwnObjects ==
    ASSUME TypesInv, StageInv, OpenedInv, Running, NEW i \in DOMAIN Taken(1)
    PROVE  /\ Opened /\ i \in 1 .. Last + 1 /\ i - 1 \in 0 .. Depth
           /\ Taken(1)[i].object = descriptors[i] /\ Taken(1)[i].object \in Objects
           /\ Taken(1)[i].object # Absent
<1>1. /\ DOMAIN Taken(1) = 1 .. Len(Taken(1)) /\ Len(Taken(1)) \in Nat /\ Len(Taken(1)) <= Last + 1
      /\ Last \in 0 .. Depth
  BY TakenFacts, ObjectFacts
<1>2. i \in 1 .. Last + 1 /\ i - 1 \in 0 .. Depth
  BY <1>1, DarwinNatures
<1>3. Opened
  <2>1. CASE sweeps = <<>> /\ readings = <<>>
    <3>1. Len(sweeps) = 1 - 1
      BY <2>1
    <3>2. Taken(1) = readings
      BY <3>1, TakenFacts
    <3> QED
      BY <2>1, <3>2
  <2> QED
    BY <2>1 DEF StageInv
<1>4. Taken(1)[i].object = descriptors[i]
  BY DEF OpenedInv
<1>5. i \in DOMAIN descriptors
  BY <1>2, <1>3 DEF Opened, TypesInv
<1>6. descriptors[i] \in Objects
  BY <1>5 DEF TypesInv
<1> QED
  BY <1>2, <1>3, <1>4, <1>6, ObjectFacts

LEMMA WholeChain ==
    ASSUME TypesInv, StageInv, Len(sweeps) >= 1
    PROVE  /\ DOMAIN Taken(1) = 1 .. Last + 1
           /\ \A i \in 0 .. Last : i + 1 \in DOMAIN Taken(1) /\ (i + 1) - 1 = i /\ i \in 0 .. Depth
           /\ Len(sweeps) >= 2 => DOMAIN Taken(2) = 1 .. Last + 1
<1>1. Last \in 0 .. Depth /\ Last \in Nat
  BY ObjectFacts, DarwinNatures
<1>2. DOMAIN Taken(1) = 1 .. Last + 1 /\ (Len(sweeps) >= 2 => DOMAIN Taken(2) = 1 .. Last + 1)
  BY TakenFacts
<1> QED
  BY <1>1, <1>2, DarwinNatures

(* A step that neither reads nor changes the file system.                    *)
LEMMA Still ==
    ASSUME BeenInv, MidInv, ThirdInv, LastInv, UNCHANGED <<world, role, sweeps, readings, mid>>
    PROVE  BeenInv' /\ MidInv' /\ ThirdInv' /\ LastInv'
<1>1. Where' = Where /\ UNCHANGED <<nature, been, returned>>
  BY SameWhere DEF world
<1>2. /\ \A k : Taken(k)' = Taken(k)
      /\ Last' = Last
  BY DEF Taken, Last
<1>3. \A i : Own(i)' = Own(i)
  BY <1>2 DEF Own
<1>4. BeenInv'
  BY <1>1, <1>2, <1>3 DEF BeenInv
<1>5. MidInv'
  BY <1>1, <1>2, <1>3 DEF MidInv
<1>6. ThirdInv' /\ LastInv'
  BY <1>1, <1>2, <1>3 DEF ThirdInv, LastInv
<1> QED
  BY <1>4, <1>5, <1>6

LEMMA OpenedStep ==
    ASSUME TypesInv, StageInv, OpenedInv, BeenInv, [Next]_vars
    PROVE  OpenedInv'
<1>1. ASSUME OpenNext
      PROVE  OpenedInv'
  <2>1. /\ UNCHANGED <<world, sweeps, readings>> /\ Running /\ ~ Opened
    BY <1>1 DEF OpenNext
  <2>2. Taken(1)' = Taken(1)
    BY <2>1 DEF Taken
  <2>3. DOMAIN Taken(1) = {}
    BY <2>1, OwnObjects
  <2> QED
    BY <2>2, <2>3 DEF OpenedInv
<1>2. ASSUME NEW info, Reads(info)
      PROVE  OpenedInv'
  <2>1. Record(info) /\ ~ Described /\ Running /\ Opened
    BY <1>2 DEF Reads
  <2>2. UNCHANGED <<world, descriptors, outcome>>
    BY <2>1 DEF Record
  <2>3. CASE Len(sweeps) + 1 # 1
    <3>1. Taken(1)' = Taken(1)
      BY <2>1, <2>3, RecordTaken
    <3> QED
      BY <2>2, <3>1 DEF OpenedInv, Running, world
  <2>4. CASE Len(sweeps) + 1 = 1
    <3>1. /\ Taken(1) = readings
          /\ DOMAIN Taken(1)' = 1 .. Len(readings) + 1
          /\ \A i \in 1 .. Len(readings) : Taken(1)'[i] = Taken(1)[i]
          /\ Taken(1)'[Len(readings) + 1] = info
      BY <2>1, <2>4, RecordTaken
    <3>2. Len(sweeps) = 0
      BY <2>4, TakenFacts
    <3>3. ~ OnUrls
      BY <3>2 DEF OnUrls
    <3> DEFINE d == descriptors[Level + 1]
    <3>4. info = [object |-> d, nature |-> Visible(nature[d])]
      BY <1>2, <3>3 DEF Reads
    <3>5. Level = Len(readings) /\ Len(readings) \in Nat
      BY TakenFacts DEF Level
    <3> HIDE DEF d
    <3>6. info.object = d /\ (info.nature # "plain" => nature[d] = info.nature)
      BY <3>4 DEF Visible
    <3>7. DOMAIN Taken(1) = 1 .. Len(readings)
      BY <3>1, TakenFacts
    <3>8. ASSUME NEW i \in DOMAIN Taken(1)'
          PROVE  /\ Taken(1)'[i].object = descriptors[i]
                 /\ Taken(1)'[i].nature # "plain" => nature[Taken(1)'[i].object] = Taken(1)'[i].nature
      <4>1. CASE i \in 1 .. Len(readings)
        <5>1. Taken(1)'[i] = Taken(1)[i]
          BY <3>1, <4>1
        <5> QED
          BY <2>1, <3>7, <4>1, <5>1 DEF OpenedInv
      <4>2. CASE i = Len(readings) + 1
        BY <3>1, <3>5, <3>6, <4>2 DEF d
      <4> QED
        BY <3>1, <3>5, <4>1, <4>2
    <3> QED
      BY <2>2, <3>8 DEF OpenedInv, world
  <2> QED
    BY <2>3, <2>4
<1>3. ASSUME Helps
      PROVE  OpenedInv'
  <2>1. UNCHANGED <<world, descriptors, sweeps, readings, outcome>>
    BY <1>3 DEF Helps
  <2>2. Taken(1)' = Taken(1)
    BY <2>1 DEF Taken
  <2> QED
    BY <2>1, <2>2 DEF OpenedInv, world, Running
<1>4. ASSUME Ends
      PROVE  OpenedInv'
  <2>1. UNCHANGED <<world, sweeps, readings>> /\ ~ Running'
    BY <1>4 DEF Ends, Running
  <2>2. Taken(1)' = Taken(1)
    BY <2>1 DEF Taken
  <2> QED
    BY <2>1, <2>2 DEF OpenedInv, world
<1>5. ASSUME Changes
      PROVE  OpenedInv'
  <2>1. Running /\ UNCHANGED <<descriptors, outcome>> /\ Taken(1)' = Taken(1)
    BY <1>5, ChangeFacts
  <2>2. ASSUME NEW i \in DOMAIN Taken(1), Taken(1)[i].nature # "plain"
        PROVE  nature'[Taken(1)[i].object] = Taken(1)[i].nature
    <3>1. Taken(1)[i].object \in Objects
      BY <2>1, OwnObjects
    <3>2. nature[Taken(1)[i].object] = Taken(1)[i].nature
      BY <2>2 DEF OpenedInv
    <3> QED
      BY <1>5, <2>2, <3>1, <3>2 DEF Changes
  <2> QED
    BY <2>1, <2>2 DEF OpenedInv, Running
<1>6. CASE UNCHANGED vars
  <2>1. Taken(1)' = Taken(1)
    BY <1>6 DEF vars, Taken
  <2> QED
    BY <1>6, <2>1 DEF vars, world, OpenedInv, Running
<1> QED
  BY <1>1, <1>2, <1>3, <1>4, <1>5, <1>6, StepKinds

(* What the steps that do not read and do not change the file system keep.   *)
LEMMA StillSteps ==
    ASSUME BeenInv, MidInv, ThirdInv, LastInv, OpenNext \/ Helps \/ Ends \/ UNCHANGED vars
    PROVE  BeenInv' /\ MidInv' /\ ThirdInv' /\ LastInv'
<1>1. UNCHANGED <<world, role, sweeps, readings, mid>>
  BY DEF OpenNext, Helps, Ends, vars
<1> QED
  BY <1>1, Still

(* What a step that reads makes of what has been read.                       *)
LEMMA ReadsFacts ==
    ASSUME TypesInv, StageInv, OpenedInv, NEW info, Reads(info)
    PROVE  /\ Running /\ Opened /\ Record(info) /\ Len(sweeps) \in 0 .. 3
           /\ UNCHANGED <<world, role, descriptors, outcome>> /\ Where' = Where /\ Last' = Last
           /\ Level \in 0 .. Last /\ Level = Len(readings) /\ Level \in 0 .. Depth
           /\ Len(sweeps) >= 1 =>
                  /\ Taken(1)' = Taken(1) /\ \A i : Own(i)' = Own(i)
                  /\ Own(Level) = descriptors[Level + 1]
                  /\ Own(Level) \in Objects /\ Own(Level) # Absent
           /\ OnUrls =>
                  /\ helper.stage = "answered"
                  /\ Where[Level] = descriptors[Level + 1]
                  /\ \A i \in 0 .. Level : Leads[i].nature \notin {"absent", "link", "loose"}
                  /\ info = [object |-> descriptors[Level + 1],
                             url |-> helper.url, state |-> helper.state]
           /\ ~ OnUrls =>
                  info = [object |-> descriptors[Level + 1],
                          nature |-> Visible(nature[descriptors[Level + 1]])]
<1>1. Running /\ Opened /\ Record(info) /\ ~ Described
  BY DEF Reads
<1>2. UNCHANGED <<world, role, descriptors, outcome>>
  BY <1>1 DEF Record
<1>3. Where' = Where /\ Last' = Last
  BY <1>2, SameWhere DEF world, Last
<1>4. Level \in 0 .. Last /\ Level = Len(readings) /\ Level \in 0 .. Depth
  BY <1>1, NextReading, ObjectFacts
<1>5. Len(sweeps) \in 0 .. 3
  <2>1. Len(sweeps) + 1 \in 1 .. 4 /\ Len(sweeps) \in Nat
    BY <1>1, RecordTaken, TakenFacts
  <2>2. \A n \in Nat : n + 1 \in 1 .. 4 => n \in 0 .. 3
    OBVIOUS
  <2> QED
    BY <2>1, <2>2
<1>6. ASSUME Len(sweeps) >= 1
      PROVE  /\ Taken(1)' = Taken(1) /\ \A i : Own(i)' = Own(i)
             /\ Own(Level) = descriptors[Level + 1]
             /\ Own(Level) \in Objects /\ Own(Level) # Absent
  <2>1. Taken(1)' = Taken(1)
    <3>1. 1 # Len(sweeps) + 1
      BY <1>5, <1>6
    <3> QED
      BY <1>1, <3>1, RecordTaken
  <2>2. Level + 1 \in DOMAIN Taken(1)
    BY <1>4, <1>6, WholeChain
  <2>3. /\ Taken(1)[Level + 1].object = descriptors[Level + 1]
        /\ Taken(1)[Level + 1].object \in Objects /\ Taken(1)[Level + 1].object # Absent
    BY <1>1, <2>2, OwnObjects
  <2> QED
    BY <2>1, <2>3 DEF Own
<1>7. ASSUME OnUrls
      PROVE  /\ helper.stage = "answered"
             /\ descriptors[Level + 1] \in TrustedStat(Level)
             /\ info = [object |-> descriptors[Level + 1],
                        url |-> helper.url, state |-> helper.state]
  BY <1>7 DEF Reads
<1>8. OnUrls =>
         /\ Where[Level] = descriptors[Level + 1]
         /\ \A i \in 0 .. Level : Leads[i].nature \notin {"absent", "link", "loose"}
  BY <1>4, <1>7, LeadsFacts
<1>9. ~ OnUrls => info = [object |-> descriptors[Level + 1],
                          nature |-> Visible(nature[descriptors[Level + 1]])]
  BY DEF Reads
<1> QED
  BY <1>1, <1>2, <1>3, <1>4, <1>5, <1>6, <1>7, <1>8, <1>9

LEMMA BeenStep ==
    ASSUME TypesInv, StageInv, OpenedInv, BeenInv, MidInv, ThirdInv, LastInv, [Next]_vars
    PROVE  BeenInv'
<1>1. ASSUME NEW info, Reads(info)
      PROVE  BeenInv'
  <2>1. /\ Record(info) /\ ~ Described /\ Len(sweeps) \in 0 .. 3
        /\ UNCHANGED <<been>> /\ Where' = Where /\ Level \in 0 .. Depth /\ Level = Len(readings)
    BY <1>1, ReadsFacts DEF world, Reads
  <2>2. ASSUME NEW i \in DOMAIN Taken(2)'
        PROVE  Own(i - 1)' \in been[i - 1]
    <3>1. CASE Len(sweeps) = 0
      <4>1. Taken(2)' = Taken(2)
        BY <2>1, <3>1, RecordTaken
      <4>2. Taken(2) = <<>>
        BY <3>1, TakenFacts
      <4> QED
        BY <2>2, <4>1, <4>2
    <3>2. CASE Len(sweeps) = 1
      <4>1. /\ DOMAIN Taken(2) = 1 .. Len(readings)
            /\ DOMAIN Taken(2)' = 1 .. Len(readings) + 1
        BY <2>1, <3>2, RecordTaken, TakenFacts
      <4>2. /\ \A j : Own(j)' = Own(j)
            /\ Own(Level) = Where[Level]
        BY <1>1, <3>2, ReadsFacts DEF OnUrls
      <4>3. CASE i \in 1 .. Len(readings)
        BY <4>1, <4>2, <4>3 DEF BeenInv
      <4>4. CASE i = Len(readings) + 1
        <5>1. i - 1 = Level
          BY <2>1, <4>4
        <5> QED
          BY <2>1, <4>2, <5>1 DEF BeenInv
      <4> QED
        BY <2>1, <2>2, <4>1, <4>3, <4>4
    <3>3. CASE Len(sweeps) >= 2
      <4>1. Taken(2)' = Taken(2) /\ \A j : Own(j)' = Own(j)
        <5>1. 2 # Len(sweeps) + 1
          BY <2>1, <3>3
        <5> QED
          BY <1>1, <2>1, <3>3, <5>1, RecordTaken, ReadsFacts
      <4> QED
        BY <2>2, <4>1 DEF BeenInv
    <3>4. \A n \in 0 .. 3 : n = 0 \/ n = 1 \/ n >= 2
      OBVIOUS
    <3> QED
      BY <2>1, <3>1, <3>2, <3>3, <3>4
  <2> QED
    BY <2>1, <2>2 DEF BeenInv
<1>2. ASSUME Changes
      PROVE  BeenInv'
  <2>1. /\ \A k : Taken(k)' = Taken(k)
        /\ \A i \in 0 .. Depth : Where'[i] \in been'[i] /\ been[i] \subseteq been'[i]
    BY <1>2, ChangeFacts
  <2>2. \A i : Own(i)' = Own(i)
    BY <2>1 DEF Own
  <2>3. \A i \in DOMAIN Taken(2) : i - 1 \in 0 .. Depth
    BY TakenFacts, ObjectFacts, DarwinNatures
  <2> QED
    BY <2>1, <2>2, <2>3 DEF BeenInv
<1> QED
  BY <1>1, <1>2, StepKinds, StillSteps

LEMMA MidStep ==
    ASSUME TypesInv, StageInv, OpenedInv, BeenInv, MidInv, ThirdInv, LastInv, [Next]_vars
    PROVE  MidInv'
<1> DEFINE MidOf(i) ==
        /\ mid[i].nature \notin {"absent", "link", "loose"}
        /\ mid[i].object # Own(i) /\ ~ returned => Where[i] # Own(i)
        /\ mid[i].object = Own(i) /\ Taken(1)[i + 1].nature # "plain" =>
               mid[i].nature = Taken(1)[i + 1].nature
        /\ mid[i].object = Own(i) /\ mid[i].nature # "plain" =>
               nature[Own(i)] = mid[i].nature
<1>1. ASSUME NEW info, Reads(info)
      PROVE  MidInv'
  <2>1. /\ Record(info) /\ ~ Described /\ Len(sweeps) \in 0 .. 3
        /\ UNCHANGED <<nature, returned>> /\ Where' = Where /\ Last' = Last
        /\ Level \in 0 .. Last /\ Level \in 0 .. Depth
    BY <1>1, ReadsFacts DEF world, Reads
  <2>2. /\ Level < Last => mid' = mid /\ Len(sweeps') = Len(sweeps)
        /\ ~ (Level < Last) => Level = Last /\ Len(sweeps') = Len(sweeps) + 1
        /\ Len(sweeps) = 1 /\ ~ (Level < Last) => mid' = Leads
        /\ Len(sweeps) >= 2 => mid' = mid
    <3>1. /\ Level < Last => mid' = mid /\ Len(sweeps') = Len(sweeps)
          /\ ~ (Level < Last) => Level = Last /\ Len(sweeps') = Len(sweeps) + 1
          /\ ~ (Level < Last) /\ Len(sweeps) = 1 => mid' = Leads
          /\ ~ (Level < Last) /\ Len(sweeps) # 1 => mid' = mid
      BY <2>1, RecordTaken
    <3>2. \A n \in 0 .. 3 : n >= 2 => n # 1
      OBVIOUS
    <3> QED
      BY <2>1, <3>1, <3>2
  <2>3. CASE Len(sweeps) = 0
    <3>1. Len(sweeps') = 0 \/ Len(sweeps') = 0 + 1
      BY <2>2, <2>3
    <3>2. ~ (0 >= 2) /\ ~ (0 + 1 >= 2)
      OBVIOUS
    <3> QED
      BY <3>1, <3>2 DEF MidInv
  <2>4. CASE Len(sweeps) = 1 /\ Level < Last
    <3>1. Len(sweeps') = 1 /\ ~ (1 >= 2)
      BY <2>2, <2>4
    <3> QED
      BY <3>1 DEF MidInv
  <2>5. CASE Len(sweeps) = 1 /\ ~ (Level < Last)
    <3>1. /\ Level = Last /\ mid' = Leads
          /\ Taken(1)' = Taken(1) /\ \A i : Own(i)' = Own(i)
          /\ Own(Last) = Where[Last]
          /\ \A i \in 0 .. Last : Leads[i].nature \notin {"absent", "link", "loose"}
      BY <1>1, <2>2, <2>5, ReadsFacts DEF OnUrls
    <3>2. ASSUME NEW i \in 0 .. Last
          PROVE  /\ mid'[i].object = Where[i] /\ mid'[i].nature = nature[Where[i]]
                 /\ mid'[i].nature \notin {"absent", "link", "loose"}
      BY <3>1, LeadsFacts, ObjectFacts
    <3>3. mid'[Last].object = Own(Last)
      BY <3>1, LeadsFacts, ObjectFacts
    <3>4. ASSUME NEW i \in 0 .. Last
          PROVE  Taken(1)[i + 1].nature # "plain" => nature[Own(i)] = Taken(1)[i + 1].nature
      <4>1. i + 1 \in DOMAIN Taken(1)
        BY <2>5, WholeChain
      <4> QED
        BY <4>1 DEF OpenedInv, Own
    <3>5. ASSUME NEW i \in 0 .. Last
          PROVE  MidOf(i)'
      BY <2>1, <3>1, <3>2, <3>4
    <3> QED
      BY <2>1, <3>1, <3>3, <3>5 DEF MidInv
  <2>6. CASE Len(sweeps) >= 2
    <3>1. /\ mid' = mid /\ Taken(1)' = Taken(1) /\ \A i : Own(i)' = Own(i)
      BY <1>1, <2>2, <2>6, ReadsFacts
    <3> QED
      BY <2>1, <2>6, <3>1 DEF MidInv
  <2>7. \A n \in 0 .. 3 : n = 0 \/ n = 1 \/ n >= 2
    OBVIOUS
  <2> QED
    BY <2>1, <2>3, <2>4, <2>5, <2>6, <2>7
<1>2. ASSUME Changes, Len(sweeps) >= 2
      PROVE  MidInv'
  <2>1. /\ UNCHANGED <<role, sweeps, mid>> /\ Running /\ (~ returned' => ~ returned)
        /\ \A k : Taken(k)' = Taken(k)
        /\ ~ returned' => \A i \in 0 .. Depth : \A o \in been[i] :
               o # Absent /\ Where[i] # o => Where'[i] # o
    BY <1>2, ChangeFacts
  <2>2. Last' = Last /\ \A i : Own(i)' = Own(i)
    BY <2>1 DEF Last, Own
  <2>3. mid[Last].object = Own(Last) /\ \A i \in 0 .. Last : MidOf(i)
    BY <1>2 DEF MidInv
  <2>4. ASSUME NEW i \in 0 .. Last
        PROVE  MidOf(i)'
    <3>1. /\ i \in 0 .. Depth /\ i + 1 \in DOMAIN Taken(1) /\ i + 1 \in DOMAIN Taken(2)
          /\ (i + 1) - 1 = i
      BY <1>2, WholeChain
    <3>2. Own(i) \in Objects /\ Own(i) # Absent /\ Own(i) \in been[i]
      <4>1. PICK j : j = i + 1
        OBVIOUS
      <4>2. Taken(1)[j].object \in Objects /\ Taken(1)[j].object # Absent
        BY <2>1, <3>1, <4>1, OwnObjects
      <4>3. Own(j - 1) \in been[j - 1]
        BY <3>1, <4>1 DEF BeenInv
      <4> QED
        BY <3>1, <4>1, <4>2, <4>3 DEF Own
    <3>3. mid[i].object # Own(i) /\ ~ returned' => Where'[i] # Own(i)
      BY <2>1, <2>3, <3>1, <3>2
    <3>4. mid[i].object = Own(i) /\ mid[i].nature # "plain" => nature'[Own(i)] = mid[i].nature
      BY <1>2, <2>3, <3>2 DEF Changes
    <3> QED
      BY <2>1, <2>2, <2>3, <3>3, <3>4
  <2> QED
    BY <2>1, <2>2, <2>3, <2>4 DEF MidInv
<1>3. ASSUME Changes, ~ (Len(sweeps) >= 2)
      PROVE  MidInv'
  BY <1>3, ChangeFacts DEF MidInv
<1> QED
  BY <1>1, <1>2, <1>3, StepKinds, StillSteps

LEMMA ThirdStep ==
    ASSUME TypesInv, StageInv, OpenedInv, BeenInv, MidInv, ThirdInv, LastInv, [Next]_vars
    PROVE  ThirdInv'
<1>1. ASSUME NEW info, Reads(info)
      PROVE  ThirdInv'
  <2>1. /\ Record(info) /\ ~ Described /\ Len(sweeps) \in 0 .. 3
        /\ Level = Len(readings) /\ Level \in 0 .. Last
    BY <1>1, ReadsFacts DEF world, Reads
  <2>2. CASE Len(sweeps) <= 1
    <3>1. Taken(3)' = Taken(3) /\ Taken(3) = <<>>
      <4>1. 3 # Len(sweeps) + 1 /\ Len(sweeps) < 3 - 1
        BY <2>1, <2>2
      <4> QED
        BY <2>1, <4>1, RecordTaken, TakenFacts
    <3> QED
      BY <3>1 DEF ThirdInv
  <2>3. Len(sweeps) >= 2 => mid' = mid /\ \A i : Own(i)' = Own(i)
    <3>1. ASSUME Len(sweeps) >= 2
          PROVE  mid' = mid
      <4>1. \A n \in 0 .. 3 : n >= 2 => n # 1
        OBVIOUS
      <4>2. Len(sweeps) # 1
        BY <2>1, <3>1, <4>1
      <4> QED
        BY <2>1, <4>2, RecordTaken
    <3>2. Len(sweeps) >= 2 => \A i : Own(i)' = Own(i)
      BY <1>1, <2>1, ReadsFacts
    <3> QED
      BY <3>1, <3>2
  <2>4. CASE Len(sweeps) = 2
    <3>1. /\ DOMAIN Taken(3) = 1 .. Len(readings)
          /\ DOMAIN Taken(3)' = 1 .. Len(readings) + 1
          /\ \A i \in 1 .. Len(readings) : Taken(3)'[i] = Taken(3)[i]
          /\ Taken(3)'[Len(readings) + 1] = info
      BY <2>1, <2>4, RecordTaken, TakenFacts
    <3>2. /\ Own(Level) = descriptors[Level + 1]
          /\ info = [object |-> descriptors[Level + 1],
                     nature |-> Visible(nature[descriptors[Level + 1]])]
      BY <1>1, <2>4, ReadsFacts DEF OnUrls
    <3>3. info.nature = Visible(nature[Own(Level)])
      BY <3>2
    <3>4. mid[Level].object = Own(Level) /\ mid[Level].nature # "plain" =>
              info.nature = Visible(mid[Level].nature)
      BY <2>1, <2>4, <3>3 DEF MidInv
    <3>5. ASSUME NEW i \in DOMAIN Taken(3)'
          PROVE  mid[i - 1].object = Own(i - 1) /\ mid[i - 1].nature # "plain" =>
                     Taken(3)'[i].nature = Visible(mid[i - 1].nature)
      <4>1. CASE i \in 1 .. Len(readings)
        BY <3>1, <4>1 DEF ThirdInv
      <4>2. CASE i = Len(readings) + 1
        <5>1. i - 1 = Level
          BY <2>1, <4>2
        <5> QED
          BY <3>1, <3>4, <4>2, <5>1
      <4> QED
        BY <2>1, <3>1, <4>1, <4>2
    <3> QED
      BY <2>3, <2>4, <3>5 DEF ThirdInv
  <2>5. CASE Len(sweeps) = 3
    <3>1. Taken(3)' = Taken(3)
      BY <2>1, <2>5, RecordTaken
    <3> QED
      BY <2>3, <2>5, <3>1 DEF ThirdInv
  <2>6. \A n \in 0 .. 3 : n <= 1 \/ n = 2 \/ n = 3
    OBVIOUS
  <2> QED
    BY <2>1, <2>2, <2>4, <2>5, <2>6
<1>2. ASSUME Changes
      PROVE  ThirdInv'
  <2>1. mid' = mid /\ \A k : Taken(k)' = Taken(k)
    BY <1>2, ChangeFacts
  <2>2. \A i : Own(i)' = Own(i)
    BY <2>1 DEF Own
  <2> QED
    BY <2>1, <2>2 DEF ThirdInv
<1> QED
  BY <1>1, <1>2, StepKinds, StillSteps

(* The object whose path the helper is asked about.                          *)
LEMMA OwnNext ==
    ASSUME TypesInv, StageInv, OpenedInv, Running, Opened, ~ Described, Len(sweeps) >= 1
    PROVE  /\ Level \in 0 .. Last /\ Level = Len(readings) /\ Level \in 0 .. Depth
           /\ Own(Level) = descriptors[Level + 1]
           /\ Own(Level) \in Objects /\ Own(Level) # Absent
<1>1. Level \in 0 .. Last /\ Level = Len(readings) /\ Level \in 0 .. Depth
  BY NextReading, ObjectFacts
<1>2. Level + 1 \in DOMAIN Taken(1)
  BY <1>1, WholeChain
<1>3. /\ Taken(1)[Level + 1].object = descriptors[Level + 1]
      /\ Taken(1)[Level + 1].object \in Objects /\ Taken(1)[Level + 1].object # Absent
  BY <1>2, OwnObjects
<1> QED
  BY <1>1, <1>3 DEF Own

LEMMA HelperStep ==
    ASSUME TypesInv, StageInv, OpenedInv, BeenInv, MidInv, HelperInv, [Next]_vars
    PROVE  HelperInv'
<1>1. ASSUME OpenNext
      PROVE  HelperInv'
  <2>1. UNCHANGED helper /\ ~ Opened
    BY <1>1 DEF OpenNext
  <2>2. helper.stage = "idle"
    BY <2>1 DEF StageInv
  <2> QED
    BY <2>1, <2>2 DEF HelperInv
<1>2. ASSUME (\E info : Reads(info)) \/ Ends
      PROVE  HelperInv'
  <2>1. helper'.stage = "idle"
    BY <1>2 DEF Reads, Ends
  <2> QED
    BY <2>1 DEF HelperInv
<1>3. ASSUME Helps
      PROVE  HelperInv'
  <2>1. /\ Running /\ Opened /\ ~ Described /\ OnUrls
        /\ UNCHANGED <<world, role, descriptors, sweeps, readings, outcome, mid>>
    BY <1>3 DEF Helps
  <2>2. Len(sweeps) \in {1, 3} /\ Len(sweeps) >= 1 /\ (Len(sweeps) = 3 => Len(sweeps) >= 2)
    BY <2>1 DEF OnUrls
  <2>3. /\ Level \in 0 .. Last /\ Level = Len(readings) /\ Level \in 0 .. Depth
        /\ Own(Level) = descriptors[Level + 1]
        /\ Own(Level) \in Objects /\ Own(Level) # Absent
    BY <2>1, <2>2, OwnNext
  <2>4. /\ Where' = Where /\ UNCHANGED <<been, returned>> /\ \A i : Own(i)' = Own(i)
    BY <2>1, SameWhere DEF world, Own, Taken
  <2>5. CASE helper.stage = "idle" /\ helper'.stage = "matched"
    <3>1. descriptors[Level + 1] \in TrustedStat(Level)
      BY <1>3, <2>5 DEF Helps
    <3>2. Own(Level) \in been[Level]
      BY <2>3, <3>1, LeadsFacts DEF BeenInv
    <3> QED
      BY <2>1, <2>3, <2>4, <2>5, <3>2 DEF HelperInv
  <2>6. CASE helper.stage = "matched" /\ helper'.stage = "read"
    <3>1. helper'.url = Leads[Level] /\ Own(Level) \in been[Level]
      BY <1>3, <2>3, <2>6 DEF Helps, HelperInv
    <3>2. helper'.url.object = Where[Level]
      BY <2>3, <3>1, LeadsFacts
    <3>3. (Len(sweeps) = 3 /\ helper'.url.object = Own(Level)
           /\ mid[Level].object = Own(Level) /\ mid[Level].nature # "plain") =>
              helper'.url.nature = mid[Level].nature
      <4> SUFFICES ASSUME Len(sweeps) = 3, helper'.url.object = Own(Level),
                          mid[Level].object = Own(Level), mid[Level].nature # "plain"
                   PROVE  helper'.url.nature = mid[Level].nature
        OBVIOUS
      <4>1. helper'.url.nature = nature[Own(Level)]
        BY <2>3, <3>1, <3>2, LeadsFacts
      <4>2. nature[Own(Level)] = mid[Level].nature
        BY <2>2, <2>3 DEF MidInv
      <4> QED
        BY <4>1, <4>2
    <3> QED
      BY <2>1, <2>3, <2>4, <2>6, <3>1, <3>2, <3>3 DEF HelperInv
  <2>7. CASE helper.stage = "read" /\ helper'.stage = "answered"
    <3>1. /\ helper'.url = helper.url
          /\ helper'.state = IF Leads[Level].nature = "managed" THEN "managed" ELSE "not managed"
      BY <1>3, <2>7 DEF Helps
    <3>2. /\ Own(Level) \in been[Level]
          /\ helper.url.object # Own(Level) /\ ~ returned => Where[Level] # Own(Level)
          /\ (Len(sweeps) = 3 /\ helper.url.object = Own(Level)
              /\ mid[Level].object = Own(Level) /\ mid[Level].nature # "plain") =>
                 helper.url.nature = mid[Level].nature
      BY <2>3, <2>7 DEF HelperInv
    <3>3. (Len(sweeps) = 3 /\ mid[Level].object = Own(Level) /\ mid[Level].nature = "managed") =>
              helper'.state = "managed" \/ Where[Level] # Own(Level)
      <4> SUFFICES ASSUME Len(sweeps) = 3, Where[Level] = Own(Level),
                          mid[Level].object = Own(Level), mid[Level].nature = "managed"
                   PROVE  helper'.state = "managed"
        OBVIOUS
      <4>1. nature[Own(Level)] = mid[Level].nature
        BY <2>2, <2>3 DEF MidInv
      <4>2. Leads[Level].nature = "managed"
        BY <2>3, <4>1, LeadsFacts
      <4> QED
        BY <3>1, <4>2
    <3> QED
      BY <2>1, <2>3, <2>4, <2>7, <3>1, <3>2, <3>3 DEF HelperInv
  <2> QED
    BY <1>3, <2>5, <2>6, <2>7 DEF Helps
<1>4. ASSUME Changes, helper.stage # "idle"
      PROVE  HelperInv'
  <2>1. /\ UNCHANGED <<role, descriptors, sweeps, readings, helper, outcome, mid>>
        /\ \A k : Taken(k)' = Taken(k)
        /\ ~ returned' => ~ returned
        /\ \A i \in 0 .. Depth : been[i] \subseteq been'[i]
        /\ ~ returned' => \A i \in 0 .. Depth : \A o \in been[i] :
               o # Absent /\ Where[i] # o => Where'[i] # o
    BY <1>4, ChangeFacts
  <2>2. \A i : Own(i)' = Own(i)
    BY <2>1 DEF Own
  <2>3. /\ Running /\ Opened /\ ~ Described /\ OnUrls
    BY <1>4, RunningHelper
  <2>4. Len(sweeps) >= 1
    BY <2>3 DEF OnUrls
  <2>5. /\ Level = Len(readings) /\ Level \in 0 .. Depth /\ Own(Level) # Absent
    BY <2>3, <2>4, OwnNext
  <2>6. Own(Level) \in been[Level]
    BY <1>4, <2>5 DEF HelperInv
  <2>7. ~ returned' /\ Where[Level] # Own(Level) => Where'[Level] # Own(Level)
    BY <2>1, <2>5, <2>6
  <2>8. CASE helper.stage = "matched"
    BY <2>1, <2>2, <2>5, <2>6, <2>8 DEF HelperInv
  <2>9. CASE helper.stage # "matched"
    <3>1. /\ helper.url.object # Own(Level) /\ ~ returned => Where[Level] # Own(Level)
          /\ (Len(sweeps) = 3 /\ helper.url.object = Own(Level)
              /\ mid[Level].object = Own(Level) /\ mid[Level].nature # "plain") =>
                 helper.url.nature = mid[Level].nature
          /\ (helper.stage = "answered" /\ Len(sweeps) = 3 /\ ~ returned
              /\ mid[Level].object = Own(Level) /\ mid[Level].nature = "managed") =>
                 helper.state = "managed" \/ Where[Level] # Own(Level)
      BY <1>4, <2>5, <2>9 DEF HelperInv
    <3> QED
      BY <2>1, <2>2, <2>5, <2>6, <2>7, <3>1 DEF HelperInv
  <2> QED
    BY <2>8, <2>9
<1>5. ASSUME Changes, helper.stage = "idle"
      PROVE  HelperInv'
  BY <1>5, ChangeFacts DEF HelperInv
<1>6. CASE UNCHANGED vars
  <2>1. UNCHANGED <<world, role, descriptors, sweeps, readings, helper, mid>> /\ Where' = Where
    BY <1>6, SameWhere DEF vars, world
  <2>2. \A i : Own(i)' = Own(i)
    BY <2>1 DEF Own, Taken
  <2> QED
    BY <2>1, <2>2 DEF HelperInv, world
<1> QED
  BY <1>1, <1>2, <1>3, <1>4, <1>5, <1>6, StepKinds

LEMMA LastStep ==
    ASSUME TypesInv, StageInv, OpenedInv, BeenInv, MidInv, ThirdInv, HelperInv, LastInv, [Next]_vars
    PROVE  LastInv'
<1>1. ASSUME NEW info, Reads(info)
      PROVE  LastInv'
  <2>1. /\ Record(info) /\ ~ Described /\ Len(sweeps) \in 0 .. 3 /\ UNCHANGED returned
        /\ Level = Len(readings) /\ Level \in 0 .. Last /\ Level \in 0 .. Depth
    BY <1>1, ReadsFacts DEF world, Reads
  <2>2. CASE Len(sweeps) # 3
    <3>1. Taken(4)' = Taken(4) /\ Taken(4) = <<>>
      <4>1. PICK n : n = Len(sweeps)
        OBVIOUS
      <4>2. n \in 0 .. 3 /\ n # 3 /\ 4 # n + 1 /\ n < 4 - 1 /\ 4 \in 1 .. 4
        BY <2>1, <2>2, <4>1
      <4>3. Taken(4) = <<>>
        <5>1. Len(sweeps) < 4 - 1 => Taken(4) = <<>>
          BY <4>2, TakenFacts
        <5> QED
          BY <4>1, <4>2, <5>1
      <4>4. Taken(4)' = Taken(4)
        <5>1. IF 4 = Len(sweeps) + 1 THEN TRUE ELSE Taken(4)' = Taken(4)
          BY <2>1, <4>2, RecordTaken
        <5> QED
          BY <4>1, <4>2, <5>1
      <4> QED
        BY <4>3, <4>4
    <3> QED
      BY <3>1 DEF LastInv
  <2>3. CASE Len(sweeps) = 3
    <3>1. /\ DOMAIN Taken(4) = 1 .. Len(readings)
          /\ DOMAIN Taken(4)' = 1 .. Len(readings) + 1
          /\ \A i \in 1 .. Len(readings) : Taken(4)'[i] = Taken(4)[i]
          /\ Taken(4)'[Len(readings) + 1] = info
      BY <2>1, <2>3, RecordTaken, TakenFacts
    <3>2. /\ helper.stage = "answered"
          /\ Where[Level] = descriptors[Level + 1] /\ Own(Level) = descriptors[Level + 1]
          /\ info = [object |-> descriptors[Level + 1],
                     url |-> helper.url, state |-> helper.state]
          /\ \A i : Own(i)' = Own(i)
      BY <1>1, <2>3, ReadsFacts DEF OnUrls
    <3>3. mid' = mid
      BY <2>1, <2>3, RecordTaken
    <3>4. info.url = helper.url /\ info.state = helper.state
      BY <3>2
    <3>5. ASSUME ~ returned
          PROVE  /\ mid[Level].object = Own(Level)
                 /\ mid[Level].nature # "plain" => info.url.nature = mid[Level].nature
                 /\ mid[Level].nature = "managed" => info.state = "managed"
      <4>1. mid[Level].object = Own(Level)
        BY <2>1, <2>3, <3>2, <3>5 DEF MidInv
      <4>2. /\ helper.url.object # Own(Level) /\ ~ returned => Where[Level] # Own(Level)
            /\ (Len(sweeps) = 3 /\ helper.url.object = Own(Level)
                /\ mid[Level].object = Own(Level) /\ mid[Level].nature # "plain") =>
                   helper.url.nature = mid[Level].nature
            /\ (helper.stage = "answered" /\ Len(sweeps) = 3 /\ ~ returned
                /\ mid[Level].object = Own(Level) /\ mid[Level].nature = "managed") =>
                   helper.state = "managed" \/ Where[Level] # Own(Level)
        BY <2>1, <3>2 DEF HelperInv
      <4> QED
        BY <2>3, <3>2, <3>4, <3>5, <4>1, <4>2
    <3>6. ASSUME ~ returned, NEW i \in DOMAIN Taken(4)'
          PROVE  /\ mid[i - 1].object = Own(i - 1)
                 /\ mid[i - 1].nature # "plain" => Taken(4)'[i].url.nature = mid[i - 1].nature
                 /\ mid[i - 1].nature = "managed" => Taken(4)'[i].state = "managed"
      <4>1. CASE i \in 1 .. Len(readings)
        BY <3>1, <3>6, <4>1 DEF LastInv
      <4>2. CASE i = Len(readings) + 1
        <5>1. i - 1 = Level
          BY <2>1, <4>2
        <5> QED
          BY <3>1, <3>5, <3>6, <4>2, <5>1
      <4> QED
        BY <2>1, <3>1, <3>6, <4>1, <4>2
    <3> QED
      BY <2>1, <3>2, <3>3, <3>6 DEF LastInv
  <2> QED
    BY <2>2, <2>3
<1>2. ASSUME Changes
      PROVE  LastInv'
  <2>1. mid' = mid /\ (~ returned' => ~ returned) /\ \A k : Taken(k)' = Taken(k)
    BY <1>2, ChangeFacts
  <2>2. \A i : Own(i)' = Own(i)
    BY <2>1 DEF Own
  <2> QED
    BY <2>1, <2>2 DEF LastInv
<1> QED
  BY <1>1, <1>2, StepKinds, StillSteps

CoherentInv == outcome = "coherent" => Coherent

LEMMA CoherentStep ==
    ASSUME TypesInv, StageInv, CoherentInv, [Next]_vars
    PROVE  CoherentInv'
<1>1. ASSUME Running, outcome' = outcome
      PROVE  CoherentInv'
  BY <1>1 DEF Running, CoherentInv
<1>2. CASE OpenNext \/ (\E info : Reads(info)) \/ Helps
  BY <1>1, <1>2 DEF OpenNext, Reads, Helps, Record
<1>3. CASE Ends
  BY <1>3 DEF Ends, CoherentInv, Coherent
<1>4. CASE Changes
  BY <1>1, <1>4 DEF Changes, Changed, Running
<1>5. CASE UNCHANGED vars
  BY <1>5 DEF vars, CoherentInv, Coherent
<1> QED
  BY <1>2, <1>3, <1>4, <1>5, StepKinds

LEMMA InitProbeInv == Init => ProbeInv /\ CoherentInv
<1> SUFFICES ASSUME Init
             PROVE  ProbeInv /\ CoherentInv
  OBVIOUS
<1>1. /\ at = [s \in Slots |-> IF s = Above THEN <<1, 0>> ELSE <<s[1], s[2] + 1>>]
      /\ been = [i \in 0 .. Depth |-> {Where[i]}] /\ returned = FALSE
      /\ role \in {"source_file", "source_root"}
      /\ descriptors = <<>> /\ sweeps = <<>> /\ readings = <<>>
      /\ helper = [stage |-> "idle"] /\ outcome = "running"
  BY DEF Init
<1>2. ASSUME NEW s \in Slots
      PROVE  at[s] \in Objects /\ at[s][2] = s[2] + 1
  <2>1. CASE s = Above
    <3>1. at[s] = <<1, 0>> /\ s[2] = -1
      BY <1>1, <2>1 DEF Above
    <3>2. 1 \in 1 .. Chains /\ 0 \in 0 .. Depth
      BY DarwinNatures
    <3> QED
      BY <3>1, <3>2 DEF Objects
  <2>2. CASE s # Above
    <3>1. s \in (1 .. Chains) \X (0 .. Depth - 1)
      BY <2>2 DEF Slots
    <3>2. at[s] = <<s[1], s[2] + 1>>
      BY <1>1, <2>2
    <3>3. s[1] \in 1 .. Chains /\ s[2] + 1 \in 0 .. Depth
      BY <3>1, DarwinNatures
    <3> QED
      BY <3>2, <3>3 DEF Objects
  <2> QED
    BY <2>1, <2>2
<1>3. nature \in [Objects -> Kinds]
  BY DEF Init, Kinds
<1>4. Len(sweeps) = 0 /\ Len(readings) = 0 /\ Len(descriptors) = 0 /\ Len(<<>>) = 0
  BY <1>1
<1>5. IsSeq(sweeps) /\ IsSeq(readings)
  BY <1>1, EmptyIsSeq
<1>6. TypesInv
  <2>1. at \in [Slots -> Objects \cup {Absent}]
    BY <1>1, <1>2
  <2>2. descriptors \in Seq(Objects) /\ DOMAIN descriptors = {}
    BY <1>1
  <2>3. Last \in Nat /\ 0 <= Last /\ 0 <= Last + 1
    BY ObjectFacts, DarwinNatures
  <2>4. \A k \in 1 .. Len(sweeps) : IsSeq(sweeps[k]) /\ Len(sweeps[k]) = Last + 1
    BY <1>4
  <2>5. /\ Len(descriptors) <= Last + 1 /\ Len(readings) <= Last /\ Len(sweeps) <= 4
    BY <1>4, <2>3
  <2>6. \A s \in Slots : at[s] # Absent => at[s][2] = s[2] + 1
    BY <1>2
  <2>7. /\ been = [i \in 0 .. Depth |-> been[i]] /\ returned \in BOOLEAN
        /\ helper.stage \in {"idle", "matched", "read", "answered"}
    BY <1>1
  <2>9. role \in {"source_file", "source_root"}
    BY <1>1
  <2>8. \A i \in DOMAIN descriptors : descriptors[i][2] = i - 1
    BY <2>2
  <2> QED
    BY <1>3, <1>5, <2>1, <2>2, <2>4, <2>5, <2>6, <2>7, <2>8, <2>9 DEF TypesInv
<1>7. StageInv
  BY <1>1, <1>4 DEF StageInv, Running, Reported, Described
<1>8. \A k \in 1 .. 4 : Taken(k) = <<>>
  BY <1>1, <1>4 DEF Taken
<1>9. OpenedInv /\ ThirdInv /\ LastInv
  BY <1>8 DEF OpenedInv, ThirdInv, LastInv
<1>10. BeenInv
  BY <1>1, <1>8 DEF BeenInv
<1>11. MidInv /\ HelperInv /\ CoherentInv
  BY <1>1, <1>4 DEF MidInv, HelperInv, CoherentInv
<1> QED
  BY <1>6, <1>7, <1>9, <1>10, <1>11 DEF ProbeInv

LEMMA ProbeInvariant == Spec => [](ProbeInv /\ CoherentInv)
<1>1. Init => ProbeInv /\ CoherentInv
  BY InitProbeInv
<1>2. ProbeInv /\ CoherentInv /\ [Next]_vars => (ProbeInv /\ CoherentInv)'
  <2> SUFFICES ASSUME ProbeInv, CoherentInv, [Next]_vars
               PROVE  ProbeInv' /\ CoherentInv'
    OBVIOUS
  <2> USE DEF ProbeInv
  <2>1. TypesInv' /\ StageInv'
    BY TypesStep, StageStep
  <2>2. OpenedInv' /\ BeenInv'
    BY OpenedStep, BeenStep
  <2>3. MidInv' /\ ThirdInv'
    BY MidStep, ThirdStep
  <2>4. HelperInv' /\ LastInv'
    BY HelperStep, LastStep
  <2>5. CoherentInv'
    BY CoherentStep
  <2> QED
    BY <2>1, <2>2, <2>3, <2>4, <2>5
<1> QED
  BY <1>1, <1>2, PTL DEF Spec

-----------------------------------------------------------------------------
(* Types; every descriptor is closed when the call is over (the finally of   *)
(* open_role), and a snapshot that is composed has all of its sweeps.        *)
THEOREM ProbeTypeCorrect == Spec => []DarwinTypeOK
<1>1. ProbeInv => DarwinTypeOK
  <2> SUFFICES ASSUME ProbeInv
               PROVE  DarwinTypeOK
    OBVIOUS
  <2>1. \A i \in DOMAIN descriptors : descriptors[i] \in Objects /\ descriptors[i][2] = i - 1
    BY DEF ProbeInv, TypesInv
  <2>2. \A s \in Slots : at[s] \in Objects \cup {Absent}
    BY DEF ProbeInv, TypesInv
  <2> QED
    BY <2>1, <2>2 DEF ProbeInv, StageInv, DarwinTypeOK
<1> QED
  BY <1>1, ProbeInvariant, PTL

(* What is so of a snapshot that the policy accepts.                         *)
LEMMA AcceptedFails ==
    ASSUME Accepted
    PROVE  /\ outcome = "coherent" /\ ~ CrossesMount /\ IdentityStable /\ ~ Managed
           /\ \A i \in 1 .. Last + 1 :
                  Urls[i].url.nature \notin {"remote", "ubiquitous", "placeholder"}
<1>1. Failing \cap CheckNames = {}
  <2>1. UnsafeFactDenial(Failing) = "none"
    BY DEF Accepted
  <2>2. \A i \in DOMAIN Checks : Checks[i].denial # "none"
    BY Rules
  <2> QED
    BY <2>1, <2>2, UnsafeFact
<1>2. {"complete", "no link above", "no mount", "not network", "not cloud", "identity"} \subseteq CheckNames
  <2>1. /\ Checks[2].check = "complete" /\ Checks[4].check = "no link above"
        /\ Checks[5].check = "no mount" /\ Checks[8].check = "not network"
        /\ Checks[9].check = "not cloud" /\ Checks[11].check = "identity"
    BY DEF Checks
  <2>2. \A i \in 1 .. 12 : Checks[i].check \in CheckNames
    BY Rules DEF CheckNames
  <2>3. /\ Checks[2].check \in CheckNames /\ Checks[4].check \in CheckNames
        /\ Checks[5].check \in CheckNames /\ Checks[8].check \in CheckNames
        /\ Checks[9].check \in CheckNames /\ Checks[11].check \in CheckNames
    BY <2>2
  <2> QED
    BY <2>1, <2>3
<1>3. outcome \notin {"missing", "link"}
  <2> SUFFICES ASSUME outcome \in {"missing", "link"}
               PROVE  FALSE
    OBVIOUS
  <2>1. "no link above" \in Failing
    BY DEF Failing, UnsafeSnapshot
  <2> QED
    BY <1>1, <1>2, <2>1
<1> DEFINE Fails(c) ==
        CASE c = "complete"       -> outcome # "coherent"
          [] c = "no mount"       -> CrossesMount
          [] c = "not network"    -> \E i \in 1 .. Last + 1 : Urls[i].url.nature = "remote"
          [] c \in {"local", "filesystem"} -> Target.nature = "remote"
          [] c = "not cloud"      -> \/ \E i \in 1 .. Last + 1 : Urls[i].url.nature \in {"ubiquitous", "placeholder"}
                                     \/ Managed
          [] c = "no placeholder" -> \E i \in 1 .. Last + 1 : Urls[i].url.nature = "placeholder"
          [] c = "identity"       -> ~ IdentityStable
          [] c = "no replace"     -> Target.nature = "remote"
          [] OTHER                -> FALSE
<1>4. Failing = {c \in CheckNames : Fails(c)}
  BY <1>3 DEF Failing
<1>5. \A c \in CheckNames : ~ Fails(c)
  <2> HIDE DEF Fails
  <2> QED
    BY <1>1, <1>4
<1>6. ~ Fails("complete") /\ ~ Fails("no mount") /\ ~ Fails("not network") /\ ~ Fails("not cloud")
      /\ ~ Fails("identity")
  <2> HIDE DEF Fails
  <2> QED
    BY <1>2, <1>5
<1>7. Fails("complete") <=> outcome # "coherent"
  OBVIOUS
<1>8. Fails("no mount") <=> CrossesMount
  OBVIOUS
<1>9. Fails("not network") <=> \E i \in 1 .. Last + 1 : Urls[i].url.nature = "remote"
  OBVIOUS
<1>10. Fails("not cloud") <=> \/ \E i \in 1 .. Last + 1 : Urls[i].url.nature \in {"ubiquitous", "placeholder"}
                              \/ Managed
  OBVIOUS
<1>11. Fails("identity") <=> ~ IdentityStable
  OBVIOUS
<1> HIDE DEF Fails
<1>12. outcome = "coherent" /\ ~ CrossesMount /\ IdentityStable
  BY <1>6, <1>7, <1>8, <1>11
<1>13. /\ ~ \E i \in 1 .. Last + 1 : Urls[i].url.nature = "remote"
       /\ ~ \E i \in 1 .. Last + 1 : Urls[i].url.nature \in {"ubiquitous", "placeholder"}
       /\ ~ Managed
  BY <1>6, <1>9, <1>10
<1> QED
  BY <1>12, <1>13

(* What the descriptors tell of a component, twice and alike, is what it was *)
(* between the sweeps, if its path led to the object that had been opened.   *)
LEMMA DescribedNature ==
    ASSUME ProbeInv, CoherentInv, outcome = "coherent", NEW i \in 0 .. Last,
           mid[i].object = Own(i)
    PROVE  Fds[i + 1].nature = Visible(mid[i].nature)
<1> USE DEF ProbeInv
<1>1. Described /\ Coherent
  BY DEF StageInv, Reported, CoherentInv
<1>2. Len(sweeps) = 4 /\ Taken(1) = sweeps[1] /\ Taken(3) = sweeps[3] /\ sweeps[1] = sweeps[3]
  BY <1>1, TakenFacts DEF Described, Coherent
<1>3. DOMAIN Taken(1) = 1 .. Last + 1 /\ i + 1 \in DOMAIN Taken(1) /\ (i + 1) - 1 = i
  BY <1>2, WholeChain
<1>4. mid[i].nature # "plain" => Taken(1)[i + 1].nature = Visible(mid[i].nature)
  <2>1. PICK j : j = i + 1
    OBVIOUS
  <2>2. j \in DOMAIN Taken(3) /\ j - 1 = i
    BY <1>2, <1>3, <2>1
  <2>3. mid[j - 1].object = Own(j - 1) /\ mid[j - 1].nature # "plain" =>
            Taken(3)[j].nature = Visible(mid[j - 1].nature)
    BY <2>2 DEF ThirdInv
  <2> QED
    BY <1>2, <2>1, <2>2, <2>3
<1>5. Taken(1)[i + 1].nature # "plain" => mid[i].nature = Taken(1)[i + 1].nature
  BY <1>2 DEF MidInv
<1>6. mid[i].nature = "plain" => Taken(1)[i + 1].nature = Visible(mid[i].nature)
  BY <1>5 DEF Visible
<1> QED
  BY <1>2, <1>4, <1>6 DEF Fds

(* Facts the policy accepts were true at one and the same moment, although   *)
(* the chain was opened and described piece by piece and partly by path.     *)
(* Then the path of the target led to the object that had been opened, of    *)
(* the volume that is reported, over nothing that is a link or that anybody  *)
(* else may replace; and, unless a path led again to what it had led to      *)
(* before, each path led to the object that had been opened for it, none of  *)
(* them was in the cloud or remote, and all of them were on one volume.      *)
THEOREM AcceptedChainWasReal == Spec => []AcceptedChainIsReal
<1>1. ProbeInv /\ CoherentInv => AcceptedChainIsReal
  <2> SUFFICES ASSUME ProbeInv, CoherentInv, Accepted
               PROVE  AcceptedChainIsReal
    BY DEF AcceptedChainIsReal
  <2> USE DEF ProbeInv
  <2>1. /\ outcome = "coherent" /\ ~ CrossesMount /\ IdentityStable /\ ~ Managed
        /\ \A i \in 1 .. Last + 1 :
               Urls[i].url.nature \notin {"remote", "ubiquitous", "placeholder"}
    BY AcceptedFails
  <2>2. Len(sweeps) = 4 /\ Taken(1) = sweeps[1] /\ Taken(4) = sweeps[2]
        /\ DOMAIN Taken(4) = 1 .. Last + 1
    <3>1. Described /\ Coherent
      BY <2>1 DEF StageInv, Reported, CoherentInv
    <3> QED
      BY <3>1, TakenFacts DEF Described, Coherent
  <2>3. Last \in 0 .. Last /\ \A i \in 0 .. Last : i + 1 \in 1 .. Last + 1 /\ (i + 1) - 1 = i
    BY ObjectFacts, DarwinNatures
  <2>4. \A i : Own(i) = Fds[i + 1].object
    BY <2>2 DEF Own, Fds
  <2>5. \A n : Volume(Visible(n)) = Volume(n) /\ (Visible(n) \notin {"odd", "unlinked"} => n \notin {"odd", "unlinked"})
    BY DEF Volume, Visible
  <2>6. mid[Last].object = Own(Last)
        /\ \A i \in 0 .. Last : mid[i].nature \notin {"absent", "link", "loose"}
    BY <2>2 DEF MidInv
  <2>7. Target.nature = Visible(mid[Last].nature)
    BY <2>1, <2>3, <2>6, DescribedNature DEF Target
  <2>8. /\ Volume(mid[Last].nature) = Volume(Target.nature)
        /\ mid[Last].nature \notin {"odd", "unlinked"}
    BY <2>1, <2>5, <2>7 DEF IdentityStable
  <2>9. ASSUME ~ returned, NEW i \in 0 .. Last
        PROVE  /\ mid[i].object = Fds[i + 1].object
               /\ mid[i].nature \notin {"remote", "ubiquitous", "placeholder", "managed"}
               /\ Volume(mid[i].nature) = Volume(Target.nature)
    <3>1. PICK j : j = i + 1
      OBVIOUS
    <3>2. j \in DOMAIN Taken(4) /\ j - 1 = i /\ j \in 1 .. Last + 1
      BY <2>2, <2>3, <3>1
    <3>3. /\ mid[i].object = Own(i)
          /\ mid[i].nature # "plain" => Urls[j].url.nature = mid[i].nature
          /\ mid[i].nature = "managed" => Urls[j].state = "managed"
      BY <2>2, <2>9, <3>2 DEF LastInv, Urls
    <3>4. mid[i].nature \notin {"remote", "ubiquitous", "placeholder", "managed"}
      BY <2>1, <3>2, <3>3 DEF Managed
    <3>5. Fds[j].nature = Visible(mid[i].nature)
      BY <2>1, <3>1, <3>3, DescribedNature
    <3>6. Volume(Fds[j].nature) = Volume(Target.nature)
      BY <2>1, <3>2 DEF CrossesMount
    <3> QED
      BY <2>4, <2>5, <3>3, <3>4, <3>5, <3>6
  <2>10. mid[Last].object = Target.object
    BY <2>4, <2>6 DEF Target
  <2> QED
    BY <2>6, <2>8, <2>9, <2>10 DEF AcceptedChainIsReal
<1> QED
  BY <1>1, ProbeInvariant, PTL

-----------------------------------------------------------------------------
(* Where a path leads, component by component.                               *)
Onward(o, j) == IF o \in Slots /\ (j > 0 => nature[o] \notin {"link", "odd"})
                THEN at[o] ELSE Absent

IsWalk(w, n) == w = [j \in -1 .. n |-> IF j = -1 THEN Above ELSE Onward(w[j - 1], j)]

LEMMA WalkExists ==
    ASSUME NEW n \in Nat
    PROVE  \E w : IsWalk(w, n)
<1> DEFINE S == {m \in Nat : ~ \E w : IsWalk(w, m)}
<1> SUFFICES ASSUME S # {}
             PROVE  FALSE
  OBVIOUS
<1>1. PICK m \in S : \A k \in S : m <= k
  <2>1. S \subseteq Nat
    OBVIOUS
  <2> HIDE DEF S
  <2> QED
    BY <2>1, LeastNumber
<1>2. m \in Nat /\ ~ \E w : IsWalk(w, m)
  OBVIOUS
<1>3. CASE m = 0
  <2> DEFINE w == [j \in -1 .. 0 |-> IF j = -1 THEN Above ELSE Onward(Above, 0)]
  <2>1. w[-1] = Above /\ \A j \in -1 .. 0 : j = -1 \/ j = 0
    OBVIOUS
  <2>2. \A j \in -1 .. 0 : (IF j = -1 THEN Above ELSE Onward(Above, 0)) =
                           IF j = -1 THEN Above ELSE Onward(w[j - 1], j)
    <3> HIDE DEF w
    <3> QED
      BY <2>1
  <2>3. IsWalk(w, 0)
    BY <2>2 DEF IsWalk
  <2> QED
    BY <1>2, <1>3, <2>3
<1>4. CASE m # 0
  <2>1. m - 1 \in Nat /\ m - 1 < m
    BY <1>2, <1>4
  <2>2. m - 1 \notin S
    BY <1>1, <1>2, <2>1
  <2>3. PICK v : IsWalk(v, m - 1)
    BY <2>1, <2>2
  <2> DEFINE w == [j \in -1 .. m |-> IF j = m THEN Onward(v[m - 1], m) ELSE v[j]]
  <2>4. \A j \in -1 .. m - 1 : w[j] = v[j] /\ v[j] = IF j = -1 THEN Above ELSE Onward(v[j - 1], j)
    BY <1>2, <2>3 DEF IsWalk
  <2>5. w[m] = Onward(v[m - 1], m) /\ w[m - 1] = v[m - 1]
    BY <1>2
  <2>6. ASSUME NEW j \in -1 .. m
        PROVE  w[j] = IF j = -1 THEN Above ELSE Onward(w[j - 1], j)
    <3> HIDE DEF w
    <3>1. CASE j = m
      BY <1>2, <2>5, <3>1
    <3>2. CASE j # m
      <4>1. j \in -1 .. m - 1 /\ (j = -1 \/ j - 1 \in -1 .. m - 1)
        BY <1>2, <3>2
      <4>2. w[j] = v[j] /\ v[j] = IF j = -1 THEN Above ELSE Onward(v[j - 1], j)
        BY <2>4, <4>1
      <4>3. CASE j = -1
        BY <4>2, <4>3
      <4>4. CASE j # -1
        <5>1. w[j - 1] = v[j - 1]
          BY <2>4, <4>1, <4>4
        <5> QED
          BY <4>2, <4>4, <5>1
      <4> QED
        BY <4>3, <4>4
    <3> QED
      BY <3>1, <3>2
  <2>7. IsWalk(w, m)
    <3>1. w = [j \in -1 .. m |-> w[j]]
      OBVIOUS
    <3> HIDE DEF w
    <3>2. w = [j \in -1 .. m |-> IF j = -1 THEN Above ELSE Onward(w[j - 1], j)]
      BY <2>6, <3>1
    <3> QED
      BY <3>2 DEF IsWalk
  <2> QED
    BY <1>2, <2>7
<1> QED
  BY <1>3, <1>4

LEMMA WhereWalk ==
    ASSUME DarwinNatures, NEW i \in 0 .. Depth
    PROVE  \E w : IsWalk(w, i) /\ Where[i] = w[i]
<1>1. i \in Nat
  BY DarwinNatures
<1> DEFINE walk == CHOOSE w : IsWalk(w, i)
<1>2. IsWalk(walk, i)
  BY <1>1, WalkExists
<1>3. Where[i] = walk[i]
  BY DEF Where, IsWalk, Onward
<1> QED
  BY <1>2, <1>3

-----------------------------------------------------------------------------
(* A file system at rest.                                                    *)
Original(i) == <<1, i>>

Passable(i) == nature[Original(i)] # "link" /\ (nature[Original(i)] = "odd" => i = Last)

StateOf(n) == IF n = "managed" THEN "managed" ELSE "not managed"

\* What the k-th sweep reads of component i.
AtRest(k, i) ==
    IF k \in {1, 3}
    THEN [object |-> Original(i), nature |-> Visible(nature[Original(i)])]
    ELSE [object |-> Original(i), url |-> [object |-> Original(i), nature |-> nature[Original(i)]],
          state |-> StateOf(nature[Original(i)])]

QuietInv ==
    ~ disturbed =>
        /\ at = [s \in Slots |-> IF s = Above THEN <<1, 0>> ELSE <<s[1], s[2] + 1>>]
        /\ mid = Leads
        /\ \A i \in DOMAIN descriptors : descriptors[i] = Original(i - 1) /\ Passable(i - 1)
        /\ \A k \in 1 .. 4 : \A i \in DOMAIN Taken(k) :
               /\ Taken(k)[i] = AtRest(k, i - 1)
               /\ k \in {2, 4} => nature[Original(i - 1)] # "loose"
        /\ Len(sweeps) >= 1 => \A i \in 0 .. Last : Passable(i)
        /\ helper.stage \in {"read", "answered"} =>
               helper.url = [object |-> Original(Level), nature |-> nature[Original(Level)]]
        /\ helper.stage = "answered" => helper.state = StateOf(nature[Original(Level)])
        /\ outcome \in {"missing", "link"} => \E i \in 0 .. Last : mid[i].nature = "link"
        /\ outcome # "incoherent"

LEMMA OriginalFacts ==
    ASSUME TypesInv
    PROVE  \A i \in 0 .. Depth : /\ Original(i) \in Objects /\ Original(i) # Absent /\ Original(i) # Above
                                 /\ nature[Original(i)] \in Kinds /\ nature[Original(i)] # "absent"
                                 /\ i < Depth => Original(i) \in Slots
<1> SUFFICES ASSUME NEW i \in 0 .. Depth
             PROVE  /\ Original(i) \in Objects /\ Original(i) # Absent /\ Original(i) # Above
                    /\ nature[Original(i)] \in Kinds /\ nature[Original(i)] # "absent"
                    /\ i < Depth => Original(i) \in Slots
  OBVIOUS
<1>1. 1 \in 1 .. Chains
  BY DarwinNatures
<1>2. Original(i) \in Objects /\ Original(i) # Absent /\ Original(i) # Above
  BY <1>1 DEF Original, Objects, Absent, Above
<1>3. nature[Original(i)] \in Kinds
  BY <1>2 DEF TypesInv
<1>4. "absent" \notin Kinds
  BY DarwinNatures DEF Kinds
<1>5. i < Depth => Original(i) \in Slots
  <2>1. i < Depth => i \in 0 .. Depth - 1
    BY DarwinNatures
  <2> QED
    BY <1>1, <2>1 DEF Original, Slots
<1> QED
  BY <1>2, <1>3, <1>4, <1>5

\* A path leads to what is there as long as nothing above is a link or no directory.
LEMMA QuietWhere ==
    ASSUME TypesInv, QuietInv, ~ disturbed, NEW i \in 0 .. Depth,
           \A j \in 0 .. Depth : j < i => nature[Original(j)] \notin {"link", "odd"}
    PROVE  /\ Where[i] = Original(i)
           /\ Leads[i] = [object |-> Original(i), nature |-> nature[Original(i)]]
<1>1. PICK w : IsWalk(w, i) /\ Where[i] = w[i]
  BY DarwinNatures, WhereWalk
<1>2. at = [s \in Slots |-> IF s = Above THEN <<1, 0>> ELSE <<s[1], s[2] + 1>>]
  BY DEF QuietInv
<1>3. i \in Nat /\ i <= Depth /\ Depth \in Nat
  BY DarwinNatures
<1>4. w[-1] = Above /\ \A j \in 0 .. i : w[j] = Onward(w[j - 1], j)
  <2>1. \A j \in -1 .. i : w[j] = IF j = -1 THEN Above ELSE Onward(w[j - 1], j)
    BY <1>1 DEF IsWalk
  <2>2. -1 \in -1 .. i /\ \A j \in 0 .. i : j \in -1 .. i /\ j # -1
    BY <1>3
  <2> QED
    BY <2>1, <2>2
<1>5. Above \in Slots
  BY DEF Slots
<1>6. w[0] = Original(0)
  <2>1. 0 \in 0 .. i /\ 0 - 1 = -1
    BY <1>3
  <2>2. w[0] = Onward(Above, 0)
    BY <1>4, <2>1
  <2> QED
    BY <1>2, <1>5, <2>2 DEF Onward, Original
<1>7. ASSUME NEW j \in 1 .. i, w[j - 1] = Original(j - 1)
      PROVE  w[j] = Original(j)
  <2>1. j \in 0 .. i /\ j > 0 /\ j - 1 \in 0 .. Depth /\ j - 1 < i /\ j - 1 < Depth /\ (j - 1) + 1 = j
    BY <1>3
  <2>2. w[j] = Onward(w[j - 1], j)
    BY <1>4, <2>1
  <2>3. PICK o : o = Original(j - 1)
    OBVIOUS
  <2>4. o \in Slots /\ o # Above /\ nature[o] \notin {"link", "odd"}
    BY <2>1, <2>3, OriginalFacts
  <2>5. w[j] = at[o]
    BY <1>7, <2>2, <2>3, <2>4 DEF Onward
  <2>6. at[o] = <<o[1], o[2] + 1>>
    BY <1>2, <2>4
  <2>7. o[1] = 1 /\ o[2] = j - 1
    BY <2>3 DEF Original
  <2> QED
    BY <2>1, <2>5, <2>6, <2>7 DEF Original
<1>8. \A j \in 0 .. i : w[j] = Original(j)
  <2> DEFINE S == {j \in 0 .. i : w[j] # Original(j)}
  <2> SUFFICES ASSUME S # {}
               PROVE  FALSE
    OBVIOUS
  <2>1. S \subseteq Nat
    BY <1>3
  <2>2. PICK j \in S : \A k \in S : j <= k
    <3> HIDE DEF S
    <3> QED
      BY <2>1, LeastNumber
  <2>3. j \in 0 .. i /\ w[j] # Original(j) /\ j # 0
    BY <1>6
  <2>4. j \in 1 .. i /\ j - 1 \in 0 .. i /\ ~ (j <= j - 1)
    BY <1>3, <2>3
  <2>5. w[j - 1] = Original(j - 1)
    BY <2>2, <2>4
  <2> QED
    BY <1>7, <2>3, <2>4, <2>5
<1>9. Where[i] = Original(i)
  BY <1>1, <1>3, <1>8
<1>10. Original(i) # Absent
  BY OriginalFacts
<1> QED
  BY <1>9, <1>10 DEF Leads

\* Where the chain has been opened, every path leads to what was opened.
LEMMA QuietLeads ==
    ASSUME TypesInv, QuietInv, ~ disturbed, \A i \in 0 .. Last : Passable(i)
    PROVE  \A i \in 0 .. Last :
               /\ Where[i] = Original(i)
               /\ Leads[i] = [object |-> Original(i), nature |-> nature[Original(i)]]
<1> SUFFICES ASSUME NEW i \in 0 .. Last
             PROVE  /\ Where[i] = Original(i)
                    /\ Leads[i] = [object |-> Original(i), nature |-> nature[Original(i)]]
  OBVIOUS
<1>1. i \in 0 .. Depth /\ i <= Last /\ Last \in 0 .. Depth
  BY ObjectFacts, DarwinNatures
<1>2. ASSUME NEW j \in 0 .. Depth, j < i
      PROVE  nature[Original(j)] \notin {"link", "odd"}
  <2>1. j \in 0 .. Last /\ j # Last
    BY <1>1, <1>2, DarwinNatures
  <2> QED
    BY <2>1 DEF Passable
<1> QED
  BY <1>1, <1>2, QuietWhere

LEMMA QuietOpened ==
    ASSUME TypesInv, QuietInv, ~ disturbed, Opened
    PROVE  \A i \in 0 .. Last : Passable(i) /\ descriptors[i + 1] = Original(i)
<1>1. DOMAIN descriptors = 1 .. Last + 1 /\ Last \in Nat
  BY ObjectFacts, DarwinNatures DEF TypesInv, Opened
<1> SUFFICES ASSUME NEW i \in 0 .. Last
             PROVE  Passable(i) /\ descriptors[i + 1] = Original(i)
  OBVIOUS
<1>2. PICK k : k = i + 1
  OBVIOUS
<1>3. k \in DOMAIN descriptors /\ k - 1 = i
  BY <1>1, <1>2
<1>4. descriptors[k] = Original(k - 1) /\ Passable(k - 1)
  BY <1>3 DEF QuietInv
<1> QED
  BY <1>2, <1>3, <1>4

\* What is opened next.
LEMMA QuietNext ==
    ASSUME TypesInv, QuietInv, ~ disturbed, ~ Opened
    PROVE  /\ Len(descriptors) \in 0 .. Last /\ NextObject = Original(Len(descriptors))
           /\ Where[Len(descriptors)] = Original(Len(descriptors))
           /\ Leads[Len(descriptors)].nature = nature[Original(Len(descriptors))]
<1>1. PICK n : n = Len(descriptors)
  OBVIOUS
<1>2. n \in 0 .. Last /\ DOMAIN descriptors = 1 .. n /\ Last \in 0 .. Depth /\ n \in 0 .. Depth /\ n \in Nat
  <2>1. n \in Nat /\ DOMAIN descriptors = 1 .. n /\ n <= Last + 1 /\ n # Last + 1
    BY <1>1 DEF TypesInv, Opened
  <2>2. Last \in 0 .. Depth
    BY ObjectFacts
  <2> QED
    BY <2>1, <2>2, DarwinNatures
<1>3. \A i \in 1 .. n : descriptors[i] = Original(i - 1) /\ Passable(i - 1)
  BY <1>2 DEF QuietInv
<1>4. at = [s \in Slots |-> IF s = Above THEN <<1, 0>> ELSE <<s[1], s[2] + 1>>]
  BY DEF QuietInv
<1>5. NextObject = Original(n)
  <2>1. CASE n = 0
    <3>1. descriptors = <<>>
      BY <1>1, <2>1, EmptySeq DEF TypesInv
    <3>2. Above \in Slots
      BY DEF Slots
    <3> QED
      BY <1>4, <2>1, <3>1, <3>2 DEF NextObject, Original
  <2>2. CASE n # 0
    <3>1. descriptors # <<>> /\ n \in 1 .. n /\ n - 1 \in 0 .. Depth /\ n - 1 < Depth /\ (n - 1) + 1 = n
      BY <1>1, <1>2, <2>2, DarwinNatures
    <3>2. PICK o : o = descriptors[n]
      OBVIOUS
    <3>3. o = Original(n - 1) /\ o \in Slots /\ o # Above
      BY <1>3, <3>1, <3>2, OriginalFacts
    <3>4. NextObject = at[o]
      BY <1>1, <3>1, <3>2 DEF NextObject
    <3>5. at[o] = <<o[1], o[2] + 1>>
      BY <1>4, <3>3
    <3>6. o[1] = 1 /\ o[2] = n - 1
      BY <3>3 DEF Original
    <3> QED
      BY <3>1, <3>4, <3>5, <3>6 DEF Original
  <2> QED
    BY <2>1, <2>2
<1>6. ASSUME NEW j \in 0 .. Depth, j < n
      PROVE  nature[Original(j)] \notin {"link", "odd"}
  <2>1. PICK k : k = j + 1
    OBVIOUS
  <2>2. k \in 1 .. n /\ k - 1 = j /\ j # Last
    BY <1>2, <1>6, <2>1, DarwinNatures
  <2>3. Passable(j)
    BY <1>3, <2>2
  <2> QED
    BY <2>2, <2>3 DEF Passable
<1>7. Where[n] = Original(n) /\ Leads[n] = [object |-> Original(n), nature |-> nature[Original(n)]]
  BY <1>2, <1>6, QuietWhere
<1> QED
  BY <1>1, <1>2, <1>5, <1>7

\* How a call of the probe ends.
LEMMA EndKinds ==
    ASSUME [Next]_vars, outcome' # outcome
    PROVE  /\ outcome' \in {"missing", "link"} => OpenFails
           /\ outcome' = "incoherent" => Compose
<1>1. ASSUME HelperMatch \/ HelperRead \/ ProviderDeadline \/ HelperMatchAgain \/ ReadFails
      PROVE  outcome' = "error"
  BY <1>1 DEF HelperMatch, HelperRead, ProviderDeadline, HelperMatchAgain, ReadFails, Exit,
              HelperMoves, Record
<1>2. ~ (OpenNext \/ InspectFd \/ ProviderAnswers \/ Done \/ UNCHANGED vars)
  BY DEF OpenNext, InspectFd, Record, ProviderAnswers, HelperMoves, Done, vars
<1>3. ~ (\E slot \in Slots : \E object : Replace(slot, object)) /\ ~ (\E object, n : Alter(object, n))
  BY DEF Replace, Alter, Changed
<1>4. CASE OpenFails
  BY <1>4 DEF OpenFails, Exit
<1>5. CASE Compose
  BY <1>5 DEF Compose, Exit
<1> QED
  BY <1>1, <1>2, <1>3, <1>4, <1>5 DEF Next, Probe

\* Nothing is disturbed by a step that changes nothing.
LEMMA QuietWorld ==
    ASSUME TypesInv, StageInv, [Next]_vars, ~ disturbed'
    PROVE  /\ ~ disturbed /\ UNCHANGED <<at, nature, disturbed, role>>
           /\ Where' = Where /\ Leads' = Leads /\ Last' = Last
           /\ OpenNext \/ (\E info : Reads(info)) \/ Helps \/ Ends \/ UNCHANGED vars
<1>1. ~ Changes
  BY DEF Changes, Changed
<1>2. OpenNext \/ (\E info : Reads(info)) \/ Helps \/ Ends \/ UNCHANGED vars
  BY <1>1, StepKinds
<1>3. UNCHANGED world /\ UNCHANGED role
  BY <1>2 DEF OpenNext, Reads, Record, Helps, Ends, vars
<1>4. UNCHANGED <<at, nature, disturbed>>
  BY <1>3 DEF world
<1>5. Where' = Where
  BY <1>4, SameWhere
<1>6. Leads' = Leads
  BY <1>4, <1>5 DEF Leads
<1> QED
  BY <1>2, <1>3, <1>4, <1>5, <1>6 DEF Last

\* The conjuncts of QuietInv that a step may disturb.
QuietDescriptors ==
    \A i \in DOMAIN descriptors : descriptors[i] = Original(i - 1) /\ Passable(i - 1)

QuietReadings ==
    /\ \A k \in 1 .. 4 : \A i \in DOMAIN Taken(k) :
           /\ Taken(k)[i] = AtRest(k, i - 1)
           /\ k \in {2, 4} => nature[Original(i - 1)] # "loose"
    /\ Len(sweeps) >= 1 => \A i \in 0 .. Last : Passable(i)

QuietHelper ==
    /\ helper.stage \in {"read", "answered"} =>
           helper.url = [object |-> Original(Level), nature |-> nature[Original(Level)]]
    /\ helper.stage = "answered" => helper.state = StateOf(nature[Original(Level)])

QuietOutcome ==
    /\ outcome \in {"missing", "link"} => \E i \in 0 .. Last : mid[i].nature = "link"
    /\ outcome # "incoherent"

LEMMA QuietParts ==
    QuietInv <=> (~ disturbed =>
        /\ at = [s \in Slots |-> IF s = Above THEN <<1, 0>> ELSE <<s[1], s[2] + 1>>]
        /\ mid = Leads
        /\ QuietDescriptors /\ QuietReadings /\ QuietHelper /\ QuietOutcome)
  BY DEF QuietInv, QuietDescriptors, QuietReadings, QuietHelper, QuietOutcome

LEMMA SameReadings ==
    ASSUME QuietReadings, UNCHANGED <<nature, role, sweeps, readings>>
    PROVE  QuietReadings'
<1>1. /\ \A k : Taken(k)' = Taken(k)
      /\ Last' = Last
      /\ \A k, i : AtRest(k, i)' = AtRest(k, i)
      /\ \A i : Passable(i)' <=> Passable(i)
  BY DEF Taken, Last, AtRest, Passable
<1> QED
  BY <1>1 DEF QuietReadings

LEMMA QuietOpenNext ==
    ASSUME TypesInv, StageInv, QuietInv, ~ disturbed, OpenNext
    PROVE  QuietDescriptors' /\ QuietReadings' /\ QuietHelper' /\ QuietOutcome'
<1>1. /\ ~ Opened /\ Openable /\ descriptors' = Append(descriptors, NextObject)
      /\ UNCHANGED <<world, role, sweeps, readings, helper, outcome, mid>>
  BY DEF OpenNext
<1>2. /\ Len(descriptors) \in 0 .. Last /\ NextObject = Original(Len(descriptors))
  BY <1>1, QuietNext
<1>3. PICK n : n = Len(descriptors)
  OBVIOUS
<1>4. /\ n \in Nat /\ n \in 0 .. Depth
      /\ DOMAIN descriptors' = 1 .. n + 1 /\ DOMAIN descriptors = 1 .. n
      /\ descriptors'[n + 1] = Original(n)
      /\ \A i \in 1 .. n : descriptors'[i] = descriptors[i]
  <2>1. n \in Nat /\ n \in 0 .. Depth
    BY <1>2, <1>3, ObjectFacts, DarwinNatures
  <2>2. descriptors \in Seq(Objects) /\ Original(n) \in Objects
    BY <2>1, OriginalFacts DEF TypesInv
  <2>3. PICK o \in Objects : o = Original(n)
    BY <2>2
  <2>4. descriptors' = Append(descriptors, o)
    BY <1>1, <1>2, <1>3, <2>3
  <2>5. /\ descriptors' \in Seq(Objects) /\ Len(descriptors') = n + 1
        /\ \A i \in 1 .. n : descriptors'[i] = descriptors[i]
        /\ descriptors'[n + 1] = o
    BY <1>3, <2>2, <2>4, AppendProperties
  <2>6. DOMAIN descriptors = 1 .. n
    BY <1>3, <2>2
  <2>7. DOMAIN descriptors' = 1 .. n + 1
    BY <2>5
  <2> QED
    BY <2>1, <2>3, <2>5, <2>6, <2>7
<1>5. Passable(n)
  BY <1>1, <1>2, <1>3 DEF Openable, Passable
<1>6. /\ Last' = Last /\ nature' = nature
      /\ \A i : Passable(i)' <=> Passable(i)
  BY <1>1 DEF world, Last, Passable
<1>7. QuietDescriptors'
  <2>1. ASSUME NEW i \in 1 .. n + 1
        PROVE  descriptors'[i] = Original(i - 1) /\ Passable(i - 1)
    <3>1. CASE i \in 1 .. n
      BY <1>4, <3>1 DEF QuietInv
    <3>2. CASE i = n + 1
      <4>1. i - 1 = n
        BY <1>4, <3>2
      <4> QED
        BY <1>4, <1>5, <3>2, <4>1
    <3> QED
      BY <1>4, <3>1, <3>2
  <2> QED
    BY <1>4, <1>6, <2>1 DEF QuietDescriptors
<1>8. QuietReadings'
  BY <1>1, SameReadings, QuietParts DEF world
<1>9. QuietHelper'
  <2>1. QuietHelper
    BY QuietParts
  <2>2. Level' = Level /\ helper' = helper
    BY <1>1 DEF Level
  <2> QED
    BY <1>6, <2>1, <2>2 DEF QuietHelper
<1>10. QuietOutcome'
  BY <1>1, <1>6, QuietParts DEF QuietOutcome
<1> QED
  BY <1>7, <1>8, <1>9, <1>10

LEMMA QuietReads ==
    ASSUME TypesInv, StageInv, OpenedInv, QuietInv, ~ disturbed, NEW info, Reads(info)
    PROVE  QuietDescriptors' /\ QuietReadings' /\ QuietHelper' /\ QuietOutcome' /\ mid' \in {mid, Leads}
<1>1. /\ Running /\ Opened /\ Record(info) /\ Len(sweeps) \in 0 .. 3
      /\ UNCHANGED <<world, role, descriptors, outcome>> /\ Where' = Where /\ Last' = Last
      /\ Level \in 0 .. Last /\ Level = Len(readings) /\ Level \in 0 .. Depth
      /\ OnUrls =>
             /\ helper.stage = "answered"
             /\ \A i \in 0 .. Level : Leads[i].nature \notin {"absent", "link", "loose"}
             /\ info = [object |-> descriptors[Level + 1],
                        url |-> helper.url, state |-> helper.state]
      /\ ~ OnUrls =>
             info = [object |-> descriptors[Level + 1],
                     nature |-> Visible(nature[descriptors[Level + 1]])]
  BY ReadsFacts
<1>2. ~ Described /\ helper'.stage = "idle"
  BY DEF Reads
<1>3. PICK n : n = Level
  OBVIOUS
<1>4. PICK m \in 0 .. 3 : m = Len(sweeps)
  BY <1>1
<1>5. \A i \in 0 .. Last : Passable(i) /\ descriptors[i + 1] = Original(i)
  BY <1>1, QuietOpened
<1>6. \A i \in 0 .. Last : Leads[i] = [object |-> Original(i), nature |-> nature[Original(i)]]
  BY <1>5, QuietLeads
<1>7. /\ info = AtRest(m + 1, n)
      /\ m + 1 \in {2, 4} => nature[Original(n)] # "loose"
  <2>1. descriptors[Level + 1] = Original(n) /\ n \in 0 .. Last
    BY <1>1, <1>3, <1>5
  <2>2. CASE OnUrls
    <3>1. m \in {1, 3}
      BY <1>4, <2>2 DEF OnUrls
    <3>2. m + 1 \in {2, 4} /\ m + 1 \notin {1, 3}
      BY <3>1
    <3>3. /\ helper.url = [object |-> Original(n), nature |-> nature[Original(n)]]
          /\ helper.state = StateOf(nature[Original(n)])
      BY <1>1, <1>3, <2>2 DEF QuietInv
    <3>4. info = [object |-> Original(n), url |-> helper.url, state |-> helper.state]
      BY <1>1, <2>1, <2>2
    <3>5. n \in 0 .. Level
      BY <1>1, <1>3, ObjectFacts, DarwinNatures
    <3>6. nature[Original(n)] # "loose"
      <4>1. Leads[n].nature # "loose"
        BY <1>1, <2>2, <3>5
      <4>2. n \in 0 .. Last
        BY <2>1
      <4>3. Leads[n] = [object |-> Original(n), nature |-> nature[Original(n)]]
        BY <1>6, <4>2
      <4>4. Leads[n].nature = nature[Original(n)]
        BY <4>3
      <4> QED
        BY <4>1, <4>4
    <3> QED
      BY <3>2, <3>3, <3>4, <3>6 DEF AtRest
  <2>3. CASE ~ OnUrls
    <3>1. m \in {0, 2}
      BY <1>4, <2>3 DEF OnUrls
    <3>2. m + 1 \notin {2, 4} /\ m + 1 \in {1, 3}
      BY <3>1
    <3>3. info = [object |-> Original(n), nature |-> Visible(nature[Original(n)])]
      BY <1>1, <2>1, <2>3
    <3> QED
      BY <3>2, <3>3 DEF AtRest
  <2> QED
    BY <2>2, <2>3
<1>8. /\ \A k \in 1 .. 4 :
             IF k = m + 1
             THEN /\ Taken(k) = readings
                  /\ DOMAIN Taken(k)' = 1 .. n + 1
                  /\ \A i \in 1 .. n : Taken(k)'[i] = Taken(k)[i]
                  /\ Taken(k)'[n + 1] = info
             ELSE Taken(k)' = Taken(k)
      /\ mid' \in {mid, Leads}
  <2>1. n = Len(readings)
    BY <1>1, <1>3
  <2>2. /\ \A k \in 1 .. 4 :
             IF k = Len(sweeps) + 1
             THEN /\ Taken(k) = readings
                  /\ DOMAIN Taken(k)' = 1 .. Len(readings) + 1
                  /\ \A i \in 1 .. Len(readings) : Taken(k)'[i] = Taken(k)[i]
                  /\ Taken(k)'[Len(readings) + 1] = info
             ELSE Taken(k)' = Taken(k)
        /\ mid' \in {mid, Leads}
    BY <1>1, <1>2, RecordTaken
  <2> QED
    BY <1>4, <2>1, <2>2
<1>9. /\ nature' = nature /\ \A k, i : AtRest(k, i)' = AtRest(k, i)
      /\ \A i : Passable(i)' <=> Passable(i)
  BY <1>1 DEF world, AtRest, Passable
<1>10. n \in Nat
  BY <1>1, <1>3
<1>11. \A k \in 1 .. 4 : \A i \in DOMAIN Taken(k) :
           /\ Taken(k)[i] = AtRest(k, i - 1)
           /\ k \in {2, 4} => nature[Original(i - 1)] # "loose"
  BY DEF QuietInv
<1>12. QuietReadings'
  <2>1. ASSUME NEW k \in 1 .. 4, NEW i \in DOMAIN Taken(k)'
        PROVE  /\ Taken(k)'[i] = AtRest(k, i - 1)
               /\ k \in {2, 4} => nature[Original(i - 1)] # "loose"
    <3>1. CASE k # m + 1
      BY <1>8, <1>11, <2>1, <3>1
    <3>2. CASE k = m + 1 /\ i \in 1 .. n
      <4>1. Taken(k) = readings /\ DOMAIN readings = 1 .. n
        <5>1. DOMAIN readings = 1 .. Len(readings)
          BY DEF TypesInv, IsSeq
        <5> QED
          BY <1>1, <1>3, <1>8, <3>2, <5>1
      <4> QED
        BY <1>8, <1>11, <3>2, <4>1
    <3>3. CASE k = m + 1 /\ i \notin 1 .. n
      <4>1. i = n + 1 /\ i - 1 = n
        <5>1. i \in 1 .. n + 1
          BY <1>8, <2>1, <3>3
        <5> QED
          BY <1>10, <3>3, <5>1
      <4> QED
        BY <1>7, <1>8, <3>3, <4>1
    <3> QED
      BY <3>1, <3>2, <3>3
  <2>2. \A i \in 0 .. Last' : Passable(i)'
    BY <1>1, <1>5, <1>9
  <2> QED
    BY <1>9, <2>1, <2>2 DEF QuietReadings
<1>13. QuietDescriptors'
  <2>1. QuietDescriptors
    BY QuietParts
  <2> QED
    BY <1>1, <1>9, <2>1 DEF QuietDescriptors
<1>14. QuietHelper' /\ QuietOutcome'
  <2>1. outcome' = "running"
    BY <1>1 DEF Running
  <2> QED
    BY <1>2, <2>1 DEF QuietHelper, QuietOutcome
<1> QED
  BY <1>8, <1>12, <1>13, <1>14

LEMMA QuietHelps ==
    ASSUME TypesInv, StageInv, QuietInv, ~ disturbed, Helps
    PROVE  QuietDescriptors' /\ QuietReadings' /\ QuietHelper' /\ QuietOutcome' /\ mid' = mid
<1>1. /\ Running /\ Opened /\ ~ Described
      /\ UNCHANGED <<world, role, descriptors, sweeps, readings, outcome, mid>>
  BY DEF Helps
<1>2. Level \in 0 .. Last
  BY <1>1, NextReading
<1>3. PICK n : n = Level
  OBVIOUS
<1>4. Leads[n] = [object |-> Original(n), nature |-> nature[Original(n)]]
  BY <1>1, <1>2, <1>3, QuietOpened, QuietLeads
<1>5. /\ nature' = nature /\ Level' = Level /\ Last' = Last
      /\ \A i : Passable(i)' <=> Passable(i)
  BY <1>1 DEF world, Level, Last, Passable
<1>6. QuietHelper'
  <2>1. CASE helper'.stage = "matched"
    BY <2>1 DEF QuietHelper
  <2>2. CASE helper'.stage = "read"
    <3>1. helper'.url = Leads[Level]
      BY <2>2 DEF Helps
    <3> QED
      BY <1>3, <1>4, <1>5, <2>2, <3>1 DEF QuietHelper
  <2>3. CASE helper'.stage = "answered"
    <3>1. /\ helper.stage = "read" /\ helper'.url = helper.url
          /\ helper'.state = IF Leads[Level].nature = "managed" THEN "managed" ELSE "not managed"
      BY <2>3 DEF Helps
    <3>2. helper.url = [object |-> Original(n), nature |-> nature[Original(n)]]
      BY <1>3, <3>1 DEF QuietInv
    <3>3. Leads[n].nature = nature[Original(n)]
      BY <1>4
    <3>4. helper'.state = StateOf(nature[Original(n)])
      BY <1>3, <3>1, <3>3 DEF StateOf
    <3> QED
      BY <1>3, <1>5, <3>1, <3>2, <3>4 DEF QuietHelper
  <2> QED
    BY <2>1, <2>2, <2>3 DEF Helps
<1>7. QuietDescriptors'
  BY <1>1, <1>5, QuietParts DEF QuietDescriptors
<1>8. QuietReadings'
  BY <1>1, SameReadings, QuietParts DEF world
<1>9. QuietOutcome'
  BY <1>1, <1>5, QuietParts DEF QuietOutcome
<1> QED
  BY <1>1, <1>6, <1>7, <1>8, <1>9

\* What is described twice alike is coherent.
LEMMA QuietCoherent ==
    ASSUME TypesInv, StageInv, QuietReadings, Described
    PROVE  Coherent
<1>1. /\ Taken(1) = sweeps[1] /\ Taken(2) = sweeps[2] /\ Taken(3) = sweeps[3] /\ Taken(4) = sweeps[4]
      /\ \A k \in 1 .. 4 : IsSeq(Taken(k)) /\ Len(Taken(k)) = Last + 1 /\ DOMAIN Taken(k) = 1 .. Last + 1
  BY TakenFacts DEF Described
<1>2. \A i : AtRest(1, i) = AtRest(3, i) /\ AtRest(2, i) = AtRest(4, i)
  BY DEF AtRest
<1>3. \A i \in 1 .. Last + 1 : Taken(1)[i] = Taken(3)[i] /\ Taken(2)[i] = Taken(4)[i]
  BY <1>1, <1>2 DEF QuietReadings
<1>4. ASSUME NEW s, NEW t, IsSeq(s), IsSeq(t), Len(s) = Last + 1, Len(t) = Last + 1,
             \A i \in 1 .. Last + 1 : s[i] = t[i]
      PROVE  s = t
  <2>1. PICK S : s \in Seq(S)
    BY <1>4 DEF IsSeq
  <2>2. PICK T : t \in Seq(T)
    BY <1>4 DEF IsSeq
  <2>3. s \in Seq(S \cup T) /\ t \in Seq(S \cup T)
    BY <2>1, <2>2
  <2> QED
    BY <1>4, <2>3, SeqEqual
<1>5. Taken(1) = Taken(3) /\ Taken(2) = Taken(4)
  BY <1>1, <1>3, <1>4
<1> QED
  BY <1>1, <1>5 DEF Coherent

LEMMA QuietEnds ==
    ASSUME TypesInv, StageInv, QuietInv, ~ disturbed, Ends, [Next]_vars
    PROVE  QuietDescriptors' /\ QuietReadings' /\ QuietHelper' /\ QuietOutcome' /\ mid' = mid
<1>1. /\ Running /\ descriptors' = <<>> /\ helper'.stage = "idle" /\ outcome' # outcome
      /\ UNCHANGED <<world, role, sweeps, readings, mid>>
  BY DEF Ends, Running
<1>2. QuietReadings'
  BY <1>1, SameReadings, QuietParts DEF world
<1>3. QuietDescriptors' /\ QuietHelper'
  BY <1>1 DEF QuietDescriptors, QuietHelper
<1>4. outcome' # "incoherent"
  <2> SUFFICES ASSUME outcome' = "incoherent"
               PROVE  FALSE
    OBVIOUS
  <2>1. Compose
    BY <1>1, EndKinds
  <2>2. Described /\ outcome' = IF Coherent THEN "coherent" ELSE "incoherent"
    BY <2>1 DEF Compose, Exit
  <2>3. Coherent
    BY <2>2, QuietCoherent, QuietParts
  <2> QED
    BY <2>2, <2>3
<1>5. ASSUME outcome' \in {"missing", "link"}
      PROVE  \E i \in 0 .. Last : mid[i].nature = "link"
  <2>1. OpenFails
    BY <1>1, <1>5, EndKinds
  <2>2. mid = Leads
    BY DEF QuietInv
  <2>3. ~ Opened
    BY <2>1 DEF OpenFails
  <2>4. /\ Len(descriptors) \in 0 .. Last /\ NextObject = Original(Len(descriptors))
        /\ Leads[Len(descriptors)].nature = nature[Original(Len(descriptors))]
    BY <2>3, QuietNext
  <2>5. NextObject # Absent
    BY <2>4, OriginalFacts, ObjectFacts
  <2>6. CASE nature[NextObject] = "link"
    BY <2>2, <2>4, <2>6
  <2>7. CASE nature[NextObject] # "link"
    <3>1. outcome' = IF \E i \in 0 .. Last : Leads[i].nature = "link" THEN "link" ELSE "error"
      BY <2>1, <2>5, <2>7 DEF OpenFails, Exit
    <3> QED
      BY <1>5, <2>2, <3>1
  <2> QED
    BY <2>6, <2>7
<1>6. QuietOutcome'
  <2>1. Last' = Last
    BY <1>1 DEF Last
  <2> QED
    BY <1>1, <1>4, <1>5, <2>1 DEF QuietOutcome
<1> QED
  BY <1>1, <1>2, <1>3, <1>6

LEMMA QuietStep ==
    ASSUME TypesInv, StageInv, OpenedInv, QuietInv, [Next]_vars
    PROVE  QuietInv'
<1> SUFFICES ASSUME ~ disturbed'
             PROVE  /\ at' = [s \in Slots |-> IF s = Above THEN <<1, 0>> ELSE <<s[1], s[2] + 1>>]
                    /\ mid' = Leads'
                    /\ QuietDescriptors' /\ QuietReadings' /\ QuietHelper' /\ QuietOutcome'
  BY QuietParts DEF QuietInv, QuietDescriptors, QuietReadings, QuietHelper, QuietOutcome
<1>1. /\ ~ disturbed /\ UNCHANGED <<at, nature, disturbed, role>>
      /\ Leads' = Leads /\ Last' = Last
      /\ OpenNext \/ (\E info : Reads(info)) \/ Helps \/ Ends \/ UNCHANGED vars
  BY QuietWorld
<1>2. /\ at = [s \in Slots |-> IF s = Above THEN <<1, 0>> ELSE <<s[1], s[2] + 1>>]
      /\ mid = Leads
      /\ QuietDescriptors /\ QuietReadings /\ QuietHelper /\ QuietOutcome
  BY <1>1, QuietParts
<1>3. CASE OpenNext
  <2>1. QuietDescriptors' /\ QuietReadings' /\ QuietHelper' /\ QuietOutcome'
    BY <1>1, <1>3, QuietOpenNext
  <2>2. mid' = mid
    BY <1>3 DEF OpenNext
  <2> QED
    BY <1>1, <1>2, <2>1, <2>2
<1>4. ASSUME NEW info, Reads(info)
      PROVE  /\ mid' = Leads'
             /\ QuietDescriptors' /\ QuietReadings' /\ QuietHelper' /\ QuietOutcome'
  BY <1>1, <1>2, <1>4, QuietReads
<1>5. CASE Helps
  BY <1>1, <1>2, <1>5, QuietHelps
<1>6. CASE Ends
  BY <1>1, <1>2, <1>6, QuietEnds
<1>7. CASE UNCHANGED vars
  <2>1. UNCHANGED <<descriptors, sweeps, readings, helper, outcome, mid>>
    BY <1>7 DEF vars
  <2>2. /\ Level' = Level
        /\ \A i : Passable(i)' <=> Passable(i)
    BY <1>1, <2>1 DEF Level, Passable
  <2>3. QuietReadings'
    BY <1>1, <1>2, <2>1, SameReadings
  <2>4. QuietDescriptors'
    BY <1>2, <2>1, <2>2 DEF QuietDescriptors
  <2>5. QuietHelper' /\ QuietOutcome'
    BY <1>1, <1>2, <2>1, <2>2 DEF QuietHelper, QuietOutcome
  <2> QED
    BY <1>1, <1>2, <2>1, <2>3, <2>4, <2>5
<1> QED
  BY <1>1, <1>2, <1>3, <1>4, <1>5, <1>6, <1>7

LEMMA QuietInit == Init => QuietInv
<1> SUFFICES ASSUME Init
             PROVE  QuietInv
  OBVIOUS
<1>1. /\ at = [s \in Slots |-> IF s = Above THEN <<1, 0>> ELSE <<s[1], s[2] + 1>>]
      /\ mid = Leads /\ outcome = "running" /\ helper = [stage |-> "idle"]
      /\ DOMAIN descriptors = {} /\ Len(sweeps) = 0 /\ readings = <<>>
  BY DEF Init
<1>2. \A k \in 1 .. 4 : DOMAIN Taken(k) = {}
  BY <1>1 DEF Taken
<1> QED
  BY <1>1, <1>2 DEF QuietInv

OutcomeInv == outcome \in {"running", "missing", "link", "error", "coherent", "incoherent"}

LEMMA OutcomeInvariant == Spec => []OutcomeInv
<1>1. Init => OutcomeInv
  BY DEF Init, OutcomeInv
<1>2. OutcomeInv /\ [Next]_vars => OutcomeInv'
  <2> SUFFICES ASSUME OutcomeInv, [Next]_vars
               PROVE  OutcomeInv'
    OBVIOUS
  <2>1. ASSUME OpenFails \/ HelperMatch \/ HelperRead \/ ProviderDeadline \/ HelperMatchAgain
               \/ ReadFails \/ Compose
        PROVE  OutcomeInv'
    BY <2>1 DEF OutcomeInv, OpenFails, HelperMatch, HelperRead, ProviderDeadline, HelperMatchAgain,
                ReadFails, Compose, Exit, HelperMoves, Record
  <2>2. ASSUME OpenNext \/ InspectFd \/ ProviderAnswers \/ Done \/ UNCHANGED vars
        PROVE  OutcomeInv'
    BY <2>2 DEF OutcomeInv, OpenNext, InspectFd, Record, ProviderAnswers, HelperMoves, Done, vars
  <2>3. ASSUME (\E slot \in Slots : \E object : Replace(slot, object))
               \/ (\E object, n : Alter(object, n))
        PROVE  OutcomeInv'
    BY <2>3 DEF OutcomeInv, Replace, Alter, Changed
  <2> QED
    BY <2>1, <2>2, <2>3 DEF Next, Probe
<1> QED
  BY <1>1, <1>2, PTL DEF Spec

LEMMA QuietInvariant == Spec => [](ProbeInv /\ CoherentInv /\ QuietInv)
<1>1. ProbeInv /\ QuietInv /\ [Next]_vars => QuietInv'
  BY QuietStep DEF ProbeInv
<1> QED
  BY <1>1, QuietInit, ProbeInvariant, PTL DEF Spec

\* What the policy makes of a chain at rest that was described.
LEMMA QuietDescribed ==
    ASSUME ProbeInv, CoherentInv, QuietInv, ~ disturbed, outcome = "coherent"
    PROVE  /\ \A i \in 0 .. Last :
                  /\ mid[i].nature = nature[Original(i)]
                  /\ Fds[i + 1].nature = Visible(nature[Original(i)])
                  /\ Urls[i + 1].url.nature = nature[Original(i)]
                  /\ Urls[i + 1].state = StateOf(nature[Original(i)])
                  /\ nature[Original(i)] \in Kinds \ {"link", "loose"}
                  /\ nature[Original(i)] = "odd" => i = Last
           /\ \A j \in 1 .. Last + 1 : j - 1 \in 0 .. Last /\ (j - 1) + 1 = j
           /\ Last \in 0 .. Last
<1> USE DEF ProbeInv
<1>1. Described
  BY DEF StageInv, Reported
<1>2. /\ Len(sweeps) = 4 /\ Taken(1) = sweeps[1] /\ Taken(2) = sweeps[2]
      /\ DOMAIN Taken(1) = 1 .. Last + 1 /\ DOMAIN Taken(2) = 1 .. Last + 1
  BY <1>1, TakenFacts DEF Described
<1>3. Last \in Nat /\ \A i \in 0 .. Last : i \in 0 .. Depth
  BY ObjectFacts, DarwinNatures
<1>4. \A i \in 0 .. Last : Passable(i)
  BY <1>2 DEF QuietInv
<1>5. ASSUME NEW i \in 0 .. Last
      PROVE  /\ mid[i].nature = nature[Original(i)]
             /\ Fds[i + 1].nature = Visible(nature[Original(i)])
             /\ Urls[i + 1].url.nature = nature[Original(i)]
             /\ Urls[i + 1].state = StateOf(nature[Original(i)])
             /\ nature[Original(i)] \in Kinds \ {"link", "loose"}
             /\ nature[Original(i)] = "odd" => i = Last
  <2>1. mid[i].nature = nature[Original(i)]
    <3>1. Leads[i] = [object |-> Original(i), nature |-> nature[Original(i)]]
      BY <1>4, QuietLeads
    <3>2. mid = Leads
      BY DEF QuietInv
    <3> QED
      BY <3>1, <3>2
  <2>2. PICK j : j = i + 1
    OBVIOUS
  <2>3. j \in 1 .. Last + 1 /\ j - 1 = i
    BY <1>3, <2>2
  <2>4. 1 \in 1 .. 4 /\ 2 \in 1 .. 4
    OBVIOUS
  <2>5. Taken(1)[j] = AtRest(1, i) /\ Taken(2)[j] = AtRest(2, i) /\ nature[Original(i)] # "loose"
    BY <1>2, <2>3, <2>4 DEF QuietInv
  <2>6. Fds[j].nature = Visible(nature[Original(i)])
    BY <1>2, <2>5 DEF Fds, AtRest
  <2>7. /\ Urls[j].url.nature = nature[Original(i)]
        /\ Urls[j].state = StateOf(nature[Original(i)])
    BY <1>2, <2>5 DEF Urls, AtRest
  <2>8. nature[Original(i)] \in Kinds
    BY <1>3, OriginalFacts
  <2> QED
    BY <1>4, <2>1, <2>2, <2>5, <2>6, <2>7, <2>8 DEF Passable
<1> QED
  BY <1>3, <1>5

\* The policy accepts what fails none of its checks.
LEMMA FailsNothing ==
    ASSUME outcome = "coherent", ~ CrossesMount, IdentityStable, ~ Managed,
           Target.nature # "remote",
           \A i \in 1 .. Last + 1 :
               Urls[i].url.nature \notin {"remote", "ubiquitous", "placeholder"}
    PROVE  Accepted
<1>1. ASSUME NEW c \in CheckNames
      PROVE  c \notin Failing
  BY DEF Failing
<1>2. Failing \cap CheckNames = {}
  BY <1>1
<1>3. \A i \in DOMAIN Checks : Checks[i].check \in CheckNames
  BY DEF CheckNames
<1>4. UnsafeFactDenial(Failing) = "none"
  BY <1>2, <1>3, UnsafeFact
<1> QED
  BY <1>4 DEF Accepted

(* When nobody changes the file system, the facts are coherent, and they are *)
(* accepted exactly when nothing is against any component of the chain, of   *)
(* whatever depth: _coherent and the policy deny nothing that is at rest.    *)
THEOREM QuietProbeDecides == Spec => []QuietIsDecided
<1> DEFINE Suits(i) == /\ Volume(mid[i].nature) = Volume(mid[Last].nature)
                       /\ mid[i].nature \in {"plain", "second", "mounted"} \cup
                                           (IF i < Last THEN {"unlinked"} ELSE {})
           Suitable == \A i \in 0 .. Last : Suits(i)
<1>1. ASSUME ProbeInv, CoherentInv, OutcomeInv, QuietInv, ~ disturbed, ~ Running,
             outcome # "error"
      PROVE  outcome # "incoherent" /\ Accepted = Suitable
  <2>1. outcome \in {"missing", "link", "coherent"} /\ outcome # "incoherent"
    BY <1>1 DEF QuietInv, OutcomeInv, Running
  <2>2. CASE outcome \in {"missing", "link"}
    <3>1. ~ Accepted
      BY <2>2, AcceptedFails
    <3>2. \E i \in 0 .. Last : mid[i].nature = "link"
      BY <1>1, <2>2 DEF QuietInv
    <3>3. ~ Suitable
      BY <3>2
    <3> HIDE DEF Suitable
    <3>4. Accepted \in BOOLEAN /\ Suitable \in BOOLEAN
      BY DEF Accepted, Suitable
    <3> QED
      BY <2>1, <3>1, <3>3, <3>4
  <2>3. CASE outcome = "coherent"
    <3>1. /\ \A i \in 0 .. Last :
                /\ mid[i].nature = nature[Original(i)]
                /\ Fds[i + 1].nature = Visible(nature[Original(i)])
                /\ Urls[i + 1].url.nature = nature[Original(i)]
                /\ Urls[i + 1].state = StateOf(nature[Original(i)])
                /\ nature[Original(i)] \in Kinds \ {"link", "loose"}
                /\ nature[Original(i)] = "odd" => i = Last
          /\ \A j \in 1 .. Last + 1 : j - 1 \in 0 .. Last /\ (j - 1) + 1 = j
          /\ Last \in 0 .. Last
      BY <1>1, <2>3, QuietDescribed
    <3>2. /\ Target.nature = Visible(mid[Last].nature)
          /\ TargetUrl.url.nature = mid[Last].nature
      BY <3>1 DEF Target, TargetUrl
    <3>3. \A n : /\ Volume(Visible(n)) = Volume(n)
                 /\ Visible(n) \in {"odd", "unlinked"} <=> n \in {"odd", "unlinked"}
                 /\ Visible(n) = "remote" <=> n = "remote"
      BY DEF Volume, Visible
    <3>4. ASSUME Accepted
          PROVE  Suitable
      <4>1. /\ ~ CrossesMount /\ IdentityStable /\ ~ Managed
            /\ \A j \in 1 .. Last + 1 :
                   Urls[j].url.nature \notin {"remote", "ubiquitous", "placeholder"}
        BY <3>4, AcceptedFails
      <4>2. ASSUME NEW i \in 0 .. Last
            PROVE  Suits(i)
        <5>1. i + 1 \in 1 .. Last + 1
          BY ObjectFacts, DarwinNatures
        <5>2. Volume(Fds[i + 1].nature) = Volume(Target.nature)
          BY <4>1, <5>1 DEF CrossesMount
        <5>3. Volume(mid[i].nature) = Volume(mid[Last].nature)
          BY <3>1, <3>2, <3>3, <5>2
        <5>4. mid[i].nature \notin {"remote", "ubiquitous", "placeholder"}
          BY <3>1, <4>1, <5>1
        <5>5. mid[i].nature # "managed"
          BY <3>1, <4>1, <5>1 DEF Managed, StateOf
        <5>6. i = Last => mid[i].nature \notin {"odd", "unlinked"}
          BY <3>2, <3>3, <4>1 DEF IdentityStable
        <5>7. mid[i].nature \in {"plain", "odd", "remote", "second", "mounted", "ubiquitous",
                                 "placeholder", "managed", "unlinked"}
          BY <3>1, DarwinNatures DEF Kinds
        <5>8. mid[i].nature = "odd" => i = Last
          BY <3>1
        <5>9. i # Last => i < Last
          BY ObjectFacts, DarwinNatures
        <5>10. mid[i].nature \in {"plain", "second", "mounted"} \cup
                                 (IF i < Last THEN {"unlinked"} ELSE {})
          BY <5>4, <5>5, <5>6, <5>7, <5>8, <5>9
        <5> QED
          BY <5>3, <5>10
      <4> QED
        BY <4>2
    <3>5. ASSUME Suitable
          PROVE  Accepted
      <4>1. ASSUME NEW j \in 1 .. Last + 1
            PROVE  /\ Volume(Fds[j].nature) = Volume(Target.nature)
                   /\ UrlVolume(Urls[j].url.nature) = UrlVolume(TargetUrl.url.nature)
                   /\ Urls[j].url.nature \notin {"remote", "ubiquitous", "placeholder"}
                   /\ Urls[j].state # "managed"
        <5>1. PICK i \in 0 .. Last : i + 1 = j
          BY <3>1
        <5>2. Suits(i)
          BY <3>5
        <5>3. /\ Fds[j].nature = Visible(mid[i].nature) /\ Urls[j].url.nature = mid[i].nature
              /\ Urls[j].state = StateOf(mid[i].nature)
          BY <3>1, <5>1
        <5>4. Volume(Fds[j].nature) = Volume(Target.nature)
          BY <3>2, <3>3, <5>2, <5>3
        <5>5. UrlVolume(mid[i].nature) = UrlVolume(mid[Last].nature)
          BY <5>2 DEF Volume, UrlVolume
        <5>6. mid[i].nature \in {"plain", "second", "mounted", "unlinked"}
          BY <5>2
        <5> QED
          BY <3>2, <5>3, <5>4, <5>5, <5>6 DEF StateOf
      <4>2. ~ CrossesMount /\ ~ Managed
        BY <4>1 DEF CrossesMount, Managed
      <4>3. mid[Last].nature \in {"plain", "second", "mounted"}
        <5>1. Suits(Last)
          BY <3>1, <3>5
        <5>2. ~ (Last < Last)
          BY ObjectFacts, DarwinNatures
        <5> QED
          BY <5>1, <5>2
      <4>4. Target.nature \notin {"odd", "unlinked", "remote"}
        BY <3>2, <3>3, <4>3
      <4>5. IdentityStable
        BY <2>3, <4>4 DEF IdentityStable
      <4> QED
        BY <2>3, <4>1, <4>2, <4>4, <4>5, FailsNothing
    <3> HIDE DEF Suitable
    <3>6. Accepted \in BOOLEAN /\ Suitable \in BOOLEAN
      BY DEF Accepted, Suitable
    <3> QED
      BY <2>1, <3>4, <3>5, <3>6
  <2> QED
    BY <2>1, <2>2, <2>3
<1>2. ProbeInv /\ CoherentInv /\ OutcomeInv /\ QuietInv => QuietIsDecided
  BY <1>1 DEF QuietIsDecided
<1> QED
  BY <1>2, QuietInvariant, OutcomeInvariant, PTL
=============================================================================
