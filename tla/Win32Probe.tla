----------------------------- MODULE Win32Probe -----------------------------
(***************************************************************************)
(* The Windows path probe: NativeWin32ProbeBackend.snapshot (win32_native) *)
(* over Win32MetadataApi.inspect (win32_api, win32_volume), and what       *)
(* Win32PathProbe makes of the snapshot for the path policy.               *)
(*                                                                         *)
(* Paths are numbers: 1 is the anchor of the inspected path, Length the    *)
(* path itself, every number between them a path above it; 0 is a source   *)
(* root that is not above the path.  One call inspects the path, the root  *)
(* and the whole chain twice each, and then everything once more; every    *)
(* inspection opens a handle and then asks for the volume by path.  A link *)
(* leads out of the chain, so a final path is told by the link it is       *)
(* reached through.                                                        *)
(***************************************************************************)
EXTENDS PathRules, FiniteSets, SequencesExt

CONSTANTS
    Length,      \* length of the chain of paths
    Calls,       \* [role, root]: what is asked, and where the source root is
    Natures,     \* what the objects at the paths may be
    MaxFlaws,    \* bound on the objects that are not plain at first
    MaxChanges   \* bound on those objects and on changes of the file system

ASSUME Win32Natures ==
    {"plain"} \subseteq Natures /\
    Natures \subseteq {"plain", "link", "pinned", "offline", "second", "remote", "leaving"}

Paths == 0 .. Length

\* _validate_lexical_containment lets a source file through below the root only.
ASSUME Win32Chain ==
    /\ Length \in Nat \ {0}
    /\ Calls \subseteq [role : Range(Roles), root : Paths]
    /\ \A c \in Calls : /\ c.role = "source_root" => c.root = Length
                        /\ c.role = "source_file" => c.root \in 1 .. Length - 1

Absent == [nature |-> "absent", version |-> 0]
Direct == [path |-> 0, version |-> 0]

VARIABLES
    world,        \* the object at each path: its nature and its version
    changes, disturbed,
    role, root,   \* the role of the path, and the path of the source root
    handle,       \* the object the open handle refers to, or Absent
    via,          \* the link it was reached through, or Direct
    first,        \* what the first inspection of a pair returned, <<>> before it
    observations, \* [path, info, stable], in the order of the pairs
    confirmed,    \* the paths the final sweep has found unchanged
    outcome,      \* "running", "missing", "error", "coherent" or "incoherent"
    mid           \* the world at the moment the last pair was complete

vars == <<world, changes, disturbed, role, root, handle, via, first, observations, confirmed,
          outcome, mid>>

Init ==
    /\ world \in [Paths -> {[nature |-> n, version |-> 0] : n \in Natures \cup {"absent"}}]
    /\ changes = Cardinality({p \in Paths : world[p].nature # "plain"})
    /\ changes <= MaxFlaws
    /\ disturbed = FALSE
    /\ \E c \in Calls : role = c.role /\ root = c.root
    /\ handle = Absent
    /\ via = Direct
    /\ first = <<>>
    /\ observations = <<>>
    /\ confirmed = {}
    /\ outcome = "running"
    /\ mid = world

-----------------------------------------------------------------------------
(* The file system.  A change puts another object, or other attributes of  *)
(* the object, at a path; nothing returns to what it was before.           *)

Change(p, nature) ==
    /\ outcome = "running"
    /\ changes < MaxChanges
    /\ changes' = changes + 1
    /\ disturbed' = TRUE
    /\ world' = [world EXCEPT ![p] =
           IF nature = "absent" THEN Absent ELSE [nature |-> nature, version |-> changes']]
    /\ UNCHANGED <<role, root, handle, via, first, observations, confirmed, outcome, mid>>

Reparse(object) == object.nature = "link"
CloudAttribute(object) == object.nature \in {"pinned", "offline"}
PlaceholderAttribute(object) == object.nature = "offline"
VolumeOf(object) == IF object.nature \in {"second", "remote"} THEN object.nature ELSE "main"

\* read_volume_details asks by path; what it says of a path without an object
\* is that of some volume, or an error (Raise).
Details(p) == IF world[p] # Absent THEN {VolumeOf(world[p])} ELSE {"main", "second"}

\* The last link a handle opened at p is reached through.
Via(p) ==
    LET links == {q \in 1 .. p - 1 : Reparse(world[q])}
    IN  IF links = {}
        THEN Direct
        ELSE [path |-> Max(links), version |-> world[Max(links)].version]

-----------------------------------------------------------------------------
(* NativeWin32ProbeBackend.snapshot *)

\* The pairs of inspections: target, source root, then _ancestor_paths, which
\* ends with the target.
Pairs == <<Length, root>> \o [i \in 1 .. Length |-> i]

PairsDone == Len(observations) = Len(Pairs)

\* _coherent_snapshot: each path once, in the order it was first observed, against
\* the observation of it that was made last.
Latest(p) == observations[SelectLastInSeq(observations, LAMBDA o : o.path = p)].info

CurrentPath == IF PairsDone
               THEN Pairs[SelectInSeq(Pairs, LAMBDA p : p \notin confirmed)]
               ELSE Pairs[Len(observations) + 1]

FirstOfPair(info) ==
    /\ ~ PairsDone /\ first = <<>>
    /\ first' = <<info>>
    /\ UNCHANGED <<observations, confirmed, outcome, mid>>

\* _stable_info and what snapshot does with its first result
SecondOfPair(info) ==
    /\ ~ PairsDone /\ first # <<>>
    /\ first' = <<>>
    /\ IF first[1].object = Absent
       THEN /\ outcome' = IF observations = <<>> THEN "missing" ELSE "error"
            /\ UNCHANGED <<observations, mid>>
       ELSE /\ observations' = Append(observations,
                  [path |-> CurrentPath, info |-> first[1], stable |-> first[1] = info])
            /\ mid' = world
            /\ UNCHANGED outcome
    /\ UNCHANGED confirmed

\* Faulty: the sweep ends with the first path that is unchanged.
SweepOnce(info) ==
    /\ PairsDone
    /\ outcome' = IF info = Latest(CurrentPath) THEN "coherent" ELSE "incoherent"
    /\ confirmed' = confirmed \cup {CurrentPath}
    /\ UNCHANGED <<first, observations, mid>>

Sweep(info) ==
    /\ PairsDone
    /\ confirmed' = confirmed \cup {CurrentPath}
    /\ outcome' = IF info # Latest(CurrentPath) THEN "incoherent"
                  ELSE IF Range(Pairs) \subseteq confirmed' THEN "coherent"
                  ELSE "running"
    /\ UNCHANGED <<first, observations, mid>>

Inspected(info) == FirstOfPair(info) \/ SecondOfPair(info) \/ Sweep(info)

Nothing == [object |-> Absent, volume |-> "", via |-> Direct]

\* Win32MetadataApi.inspect: the object is opened by path, as it is then, without
\* following a link in its place ...
Open ==
    /\ outcome = "running" /\ handle = Absent
    /\ IF world[CurrentPath] = Absent
       THEN Inspected(Nothing) /\ UNCHANGED <<handle, via>>
       ELSE /\ handle' = world[CurrentPath]
            /\ via' = Via(CurrentPath)
            /\ UNCHANGED <<first, observations, confirmed, outcome, mid>>
    /\ UNCHANGED <<world, changes, disturbed, role, root>>

\* ... and described: the object and its final path by its handle, its volume by
\* the path.
Describe ==
    /\ handle # Absent
    /\ \E v \in Details(CurrentPath) :
          Inspected([object |-> handle, volume |-> v, via |-> via])
    /\ handle' = Absent
    /\ via' = Direct
    /\ UNCHANGED <<world, changes, disturbed, role, root>>

\* Faulty: the handle is only closed when everything could be read.
RaiseWithHandleOpen ==
    /\ outcome = "running"
    /\ outcome' = "error"
    /\ UNCHANGED <<world, changes, disturbed, role, root, handle, via, first, observations, confirmed, mid>>

\* One of the calls fails: inspect closes the handle and raises.
Raise ==
    /\ outcome = "running"
    /\ outcome' = "error"
    /\ handle' = Absent
    /\ via' = Direct
    /\ UNCHANGED <<world, changes, disturbed, role, root, first, observations, confirmed, mid>>

Done == outcome # "running" /\ UNCHANGED vars

Next ==
    \/ Open \/ Describe \/ Raise
    \/ \E p \in Paths, n \in Natures \cup {"absent"} : Change(p, n)
    \/ Done

Spec == Init /\ [][Next]_vars

-----------------------------------------------------------------------------
(* The snapshot, and the facts Win32PathProbe.inspect derives from it.      *)

Target == observations[1].info
Ancestors == {observations[i].info : i \in 3 .. Len(observations)}
Reported == outcome \in {"coherent", "incoherent"}

Volume(info) == <<VolumeOf(info.object), info.volume>>

CrossesMount == \E a \in Ancestors : Volume(a) # Volume(Target)

NoFollowChain == \A a \in Ancestors : ~ Reparse(a.object)

IdentityStable ==
    /\ \A i \in DOMAIN observations : observations[i].stable
    /\ outcome = "coherent"
    /\ Target.object.nature # "leaving"

\* Faulty: the root of a destination, which is anywhere, is compared too.
WithinInEveryRole == Target.via = observations[2].info.via

\* _is_within, of the final paths of the path and of the root above it.
Within == role = "source_file" => Target.via = observations[2].info.via

\* What the attributes of the path are taken from.
Described == {Target.object} \cup {a.object : a \in Ancestors}

\* _missing_snapshot: what a path without an object fails.
MissingFailing ==
    {"exists", "no link above", "filesystem", "local", "identity", "no replace"}

SnapshotFailing(Cloud, Placeholder) ==
    {c \in CheckNames :
        CASE c = "complete"        -> outcome # "coherent"
          [] c = "not a link"      -> Reparse(Target.object)
          [] c = "no link above"   -> ~ NoFollowChain
          [] c = "no mount"        -> CrossesMount
          [] c = "not cloud"       -> Cloud
          [] c = "no placeholder"  -> Placeholder
          [] c = "identity"        -> ~ IdentityStable
          [] c \in {"local", "not network", "no replace"} -> Target.volume = "remote"
          [] OTHER                 -> FALSE}

Failing ==
    IF outcome = "missing" THEN MissingFailing
    ELSE SnapshotFailing(\E o \in Described : CloudAttribute(o),
                         \E o \in Described : PlaceholderAttribute(o))

Accepted == outcome \notin {"running", "error"} /\ UnsafeFactDenial(Failing) = "none"

-----------------------------------------------------------------------------
(* Properties. *)

\* Types, and no handle stays open after the call.
Win32TypeOK ==
    /\ \A p \in Paths : world[p].nature \in Natures \cup {"absent"}
    /\ handle = Absent \/ handle.nature \in Natures
    /\ outcome \in {"running", "missing", "error", "coherent", "incoherent"}
    /\ outcome # "running" => handle = Absent
    /\ confirmed \subseteq Range(Pairs)
    /\ Reported => PairsDone

\* Facts the policy accepts were all true at one and the same moment, although the
\* path, the root and the chain are inspected one by one: at that moment every
\* path of the chain existed, none was a link or in the cloud, and all of them
\* were on the volume that is reported (_coherent_snapshot).
AcceptedChainIsReal ==
    Accepted => \A p \in 1 .. Length :
        /\ mid[p] # Absent
        /\ ~ Reparse(mid[p]) /\ ~ CloudAttribute(mid[p])
        /\ VolumeOf(mid[p]) = VolumeOf(Target.object)
        /\ VolumeOf(mid[p]) = Target.volume

\* In a file system nobody changes and no call fails in, the facts are complete;
\* they say that a source file is physically below the root exactly when neither
\* the root nor a directory between them is a link; and they are accepted exactly
\* when the whole chain is plain and on one local volume and the path is not about
\* to be deleted.
QuietIsDecided ==
    ~ disturbed /\ outcome \notin {"running", "error"} =>
        /\ outcome # "incoherent"
        /\ Reported => (Within <=> (role = "source_file" =>
                                       \A p \in root .. Length - 1 : ~ Reparse(world[p])))
        /\ Accepted <=> \A p \in 1 .. Length :
               /\ world[p].nature \in {"plain", "second"}
                                   \cup (IF p = Length THEN {} ELSE {"leaving"})
               /\ VolumeOf(world[p]) = VolumeOf(world[Length])

\* Facts that call the identity stable name the object that was at the path when
\* all the pairs had been read.
IdentityConfirmed == Reported /\ IdentityStable => mid[Length] = Target.object
=============================================================================
