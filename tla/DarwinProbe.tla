---------------------------- MODULE DarwinProbe ----------------------------
(***************************************************************************)
(* The macOS path probe: NativeDarwinProbeBackend.snapshot (darwin_native, *)
(* darwin_open, darwin_snapshot) with the native URL helper it calls       *)
(* (darwin_helper, native/omt_darwin_probe.m, native/omt_darwin_trust.m),  *)
(* and what DarwinPathProbe makes of the snapshot for the path policy.     *)
(*                                                                         *)
(* A source file is opened component by component from its root, each      *)
(* relative to the descriptor before it; the descriptors are then          *)
(* described twice, by fstat and, by path, by the helper, while the        *)
(* components are renamed and replaced.                                    *)
(*                                                                         *)
(* An object is <<chain, level>>: the objects of chain 1 are on the path   *)
(* at first, level 0 is the source root and level Depth the file.          *)
(***************************************************************************)
EXTENDS PathRules, Integers, FiniteSets

CONSTANTS
    Depth,       \* components of the file below its root
    Chains,      \* how many objects there are for each component
    Natures,     \* what an object may be
    MaxChanges   \* bound on changes of the file system

ASSUME DarwinNatures ==
    /\ Depth \in Nat \ {0} /\ Chains \in Nat \ {0}
    /\ Natures \subseteq {"link", "odd", "loose", "remote", "second", "mounted", "ubiquitous",
                          "placeholder", "managed", "unlinked"}

Objects == (1 .. Chains) \X (0 .. Depth)
Absent == <<0, 0>>
Above == <<0, -1>>
\* Where an object may be: below an object that is a directory, or at the path of the root.
Slots == {Above} \cup ((1 .. Chains) \X (0 .. Depth - 1))

VARIABLES
    at,         \* the object in each slot
    nature,     \* what each object is
    been,       \* the objects each path has led to
    returned,   \* a path leads again to what it has led to before
    changes, disturbed,
    role,       \* "source_file", or "source_root" for a directory that is inspected alone
    descriptors,
    sweeps,     \* the complete sweeps: descriptors, URLs, descriptors, URLs
    readings,   \* what the present sweep has read
    helper,     \* where a call of the helper is, and what it has read
    outcome,    \* "running", "missing", "link", "error", "coherent" or "incoherent"
    mid         \* what the paths lead to when the first two sweeps are over

world == <<at, nature, been, returned, changes, disturbed>>
vars == <<world, role, descriptors, sweeps, readings, helper, outcome, mid>>

-----------------------------------------------------------------------------
(* The file system.  Nothing that has changed becomes what it was; what is   *)
(* moved may come back.                                                      *)

\* What the path of component i leads to without following links.
Where == [i \in 0 .. Depth |->
    LET walk[j \in -1 .. i] ==
            IF j = -1 THEN Above
            ELSE IF walk[j - 1] \in Slots /\ (j > 0 => nature[walk[j - 1]] \notin {"link", "odd"})
            THEN at[walk[j - 1]]
            ELSE Absent
    IN  walk[i]]

Leads == [i \in 0 .. Depth |->
    [object |-> Where[i], nature |-> IF Where[i] = Absent THEN "absent" ELSE nature[Where[i]]]]

Changed ==
    /\ outcome = "running"
    /\ changes < MaxChanges
    /\ changes' = changes + 1
    /\ disturbed' = TRUE
    /\ been' = [i \in 0 .. Depth |-> been[i] \cup {Where'[i]}]
    /\ returned' = (returned \/ \E i \in 0 .. Depth :
           Where'[i] # Where[i] /\ Where'[i] # Absent /\ Where'[i] \in been[i])
    /\ UNCHANGED <<role, descriptors, sweeps, readings, helper, outcome, mid>>

\* An object of the right level, or nothing, takes the place of another.
Replace(slot, object) ==
    /\ at[slot] # object
    /\ at' = [s \in Slots |-> IF s = slot THEN object
                             ELSE IF at[s] = object THEN Absent ELSE at[s]]
    /\ UNCHANGED nature
    /\ Changed

Alter(object, n) ==
    /\ nature[object] = "plain"
    /\ nature' = [nature EXCEPT ![object] = n]
    /\ UNCHANGED at
    /\ Changed

-----------------------------------------------------------------------------
(* Opening: open_role.                                                       *)

Last == IF role = "source_file" THEN Depth ELSE 0
Running == outcome = "running"
Opened == Len(descriptors) = Last + 1

Init ==
    /\ at = [s \in Slots |-> IF s = Above THEN <<1, 0>> ELSE <<s[1], s[2] + 1>>]
    /\ \/ nature = [o \in Objects |-> "plain"] /\ changes = 0
       \/ \E i \in 0 .. Depth, n \in Natures :
              nature = [o \in Objects |-> IF o = <<1, i>> THEN n ELSE "plain"] /\ changes = 1
    /\ been = [i \in 0 .. Depth |-> {Where[i]}]
    /\ returned = FALSE
    /\ disturbed = FALSE
    /\ role \in {"source_file", "source_root"}
    /\ descriptors = <<>>
    /\ sweeps = <<>>
    /\ readings = <<>>
    /\ helper = [stage |-> "idle"]
    /\ outcome = "running"
    /\ mid = Leads

\* Faulty: a failure leaves the descriptors open.
ExitOpen(how) ==
    /\ outcome' = how
    /\ helper' = [stage |-> "idle"]
    /\ UNCHANGED <<world, role, descriptors, sweeps, readings, mid>>

\* The finally of open_role closes what was opened, in every way out.
Exit(how) ==
    /\ outcome' = how
    /\ descriptors' = <<>>
    /\ helper' = [stage |-> "idle"]
    /\ UNCHANGED <<world, role, sweeps, readings, mid>>

\* The root is opened by its path, a component relative to the directory before.
NextObject == IF descriptors = <<>> THEN at[Above] ELSE at[descriptors[Len(descriptors)]]

Openable ==
    /\ NextObject # Absent
    /\ nature[NextObject] # "link"
    /\ nature[NextObject] = "odd" => Len(descriptors) = Last

OpenNext ==
    /\ Running /\ ~ Opened
    /\ Openable
    /\ descriptors' = Append(descriptors, NextObject)
    /\ UNCHANGED <<world, role, sweeps, readings, helper, outcome, mid>>

\* ENOENT, ELOOP, and any other error with path_has_symlink.
OpenFails ==
    /\ Running /\ ~ Opened
    /\ \/ NextObject = Absent /\ Exit("missing")
       \/ NextObject # Absent /\ nature[NextObject] = "link" /\ Exit("link")
       \/ /\ NextObject # Absent /\ nature[NextObject] # "link"
          /\ Exit(IF \E i \in 0 .. Last : Leads[i].nature = "link" THEN "link" ELSE "error")

-----------------------------------------------------------------------------
(* The four sweeps of inspect_opened.                                        *)

Described == Len(sweeps) = 4
Level == Len(readings)
OnUrls == Len(sweeps) \in {1, 3}
Reading == Running /\ Opened /\ ~ Described

\* What fstat, fstatfs and fgetattrlist tell of an object: not what Foundation knows.
Visible(n) == IF n \in {"ubiquitous", "placeholder", "managed", "loose"} THEN "plain" ELSE n

Record(info) ==
    /\ IF Level < Last
       THEN readings' = Append(readings, info) /\ UNCHANGED <<sweeps, mid>>
       ELSE /\ sweeps' = Append(sweeps, Append(readings, info))
            /\ readings' = <<>>
            /\ mid' = IF Len(sweeps) = 1 THEN Leads ELSE mid
    /\ UNCHANGED <<world, role, descriptors, outcome>>

\* DarwinMetadataApi.inspect_fd
InspectFd ==
    /\ Reading /\ ~ OnUrls
    /\ LET o == descriptors[Level + 1]
       IN  Record([object |-> o, nature |-> Visible(nature[o])])
    /\ UNCHANGED helper

\* omt_trusted_path_stat, of the path of one component: the object it leads to.
TrustedStat(level) ==
    IF \E i \in 0 .. level : Leads[i].nature \in {"absent", "link", "loose"}
    THEN {} ELSE {Where[level]}

Nowhere == [object |-> Absent, nature |-> "absent"]

HelperMoves(stage, url, state) ==
    /\ helper' = [stage |-> stage, url |-> url, state |-> state]
    /\ UNCHANGED <<world, role, descriptors, sweeps, readings, outcome, mid>>

\* omt_darwin_url_inspect: the path leads to the object of the descriptor; ...
HelperMatch ==
    /\ Reading /\ OnUrls /\ helper.stage = "idle"
    /\ IF descriptors[Level + 1] \in TrustedStat(Level)
       THEN HelperMoves("matched", Nowhere, "")
       ELSE Exit("error")

\* ... the resource values, with the identifier, of whatever is at the path now; ...
HelperRead ==
    /\ helper.stage = "matched"
    /\ IF Where[Level] = Absent THEN Exit("error")
       ELSE HelperMoves("read", Leads[Level], "")

\* ... who manages what is at the path, which File Provider tells in a completion
\* handler, if it does so before the deadline; ...
ProviderAnswers ==
    /\ helper.stage = "read"
    /\ HelperMoves("answered", helper.url,
                   IF Leads[Level].nature = "managed" THEN "managed" ELSE "not managed")

\* Faulty: the wait has no deadline.
WaitOn == helper.stage = "read" /\ UNCHANGED vars

ProviderDeadline ==
    /\ helper.stage = "read"
    /\ Exit("error")

\* ... and the path still leads to it.
HelperMatchAgain ==
    /\ helper.stage = "answered"
    /\ IF descriptors[Level + 1] \in TrustedStat(Level)
       THEN /\ Record([object |-> descriptors[Level + 1],
                       url |-> helper.url, state |-> helper.state])
            /\ helper' = [stage |-> "idle"]
       ELSE Exit("error")

\* Any other call that fails raises DarwinProbeBackendError.
ReadFails == Reading /\ Exit("error")

\* Faulty: only the descriptors are compared.
DescriptorsCoherent == sweeps[1] = sweeps[3]

Coherent == sweeps[1] = sweeps[3] /\ sweeps[2] = sweeps[4]

Compose ==
    /\ Running /\ Opened /\ Described
    /\ Exit(IF Coherent THEN "coherent" ELSE "incoherent")

Done == ~ Running /\ UNCHANGED vars

Probe ==
    \/ OpenNext \/ OpenFails \/ InspectFd \/ HelperMatch \/ HelperRead
    \/ ProviderAnswers \/ HelperMatchAgain \/ ReadFails \/ Compose

Next ==
    \/ Probe \/ ProviderDeadline \/ Done
    \/ \E slot \in Slots : \E object \in ((1 .. Chains) \X {slot[2] + 1}) \cup {Absent} :
           Replace(slot, object)
    \/ \E object \in Objects, n \in Natures : Alter(object, n)

Spec == Init /\ [][Next]_vars

\* The calls return: those of the system do, and the wait for File Provider ends at
\* its deadline.  Nothing makes File Provider answer.
FairSpec ==
    /\ Spec
    /\ WF_vars(OpenNext \/ OpenFails \/ InspectFd \/ HelperMatch \/ HelperRead
               \/ HelperMatchAgain \/ Compose)
    /\ WF_vars(ProviderDeadline)

-----------------------------------------------------------------------------
(* The snapshot, and the facts DarwinPathProbe.inspect derives from it.      *)

Reported == outcome \in {"coherent", "incoherent"}
Fds == sweeps[1]
Urls == sweeps[2]
Target == Fds[Last + 1]
TargetUrl == Urls[Last + 1]

\* What identifies the volume to fstat, fstatfs and Foundation.
Volume(n) == IF n \in {"second", "remote", "mounted"} THEN n ELSE "main"
UrlVolume(n) == IF n \in {"second", "remote"} THEN n ELSE "main"

CrossesMount ==
    \E i \in 1 .. Last + 1 :
        \/ Volume(Fds[i].nature) # Volume(Target.nature)
        \/ UrlVolume(Urls[i].url.nature) # UrlVolume(TargetUrl.url.nature)

\* Faulty: only the file itself is asked about.
TargetManaged == Urls[Last + 1].state = "managed"

\* File Provider of the whole chain: the helper reports no unknown state.
Managed == \E i \in 1 .. Last + 1 : Urls[i].state = "managed"

IdentityStable == outcome = "coherent" /\ Target.nature \notin {"odd", "unlinked"}

\* _unsafe_snapshot, of a path that is missing or led over a link.
UnsafeSnapshot ==
    {"no link above", "filesystem", "local", "not network", "identity", "no replace",
     IF outcome = "missing" THEN "exists" ELSE "not a link"}

Failing ==
    IF outcome \in {"missing", "link"} THEN UnsafeSnapshot
    ELSE {c \in CheckNames :
        CASE c = "complete"       -> outcome # "coherent"
          [] c = "no mount"       -> CrossesMount
          [] c = "not network"    -> \E i \in 1 .. Last + 1 : Urls[i].url.nature = "remote"
          [] c \in {"local", "filesystem"} -> Target.nature = "remote"
          [] c = "not cloud"      -> \/ \E i \in 1 .. Last + 1 : Urls[i].url.nature \in {"ubiquitous", "placeholder"}
                                     \/ Managed
          [] c = "no placeholder" -> \E i \in 1 .. Last + 1 : Urls[i].url.nature = "placeholder"
          [] c = "identity"       -> ~ IdentityStable
          [] c = "no replace"     -> Target.nature = "remote"
          [] OTHER                -> FALSE}

Accepted == outcome \notin {"running", "error"} /\ UnsafeFactDenial(Failing) = "none"

-----------------------------------------------------------------------------
(* Properties. *)

\* Types; every descriptor is closed when the call is over.
DarwinTypeOK ==
    /\ \A s \in Slots : at[s] \in Objects \cup {Absent}
    /\ \A i \in DOMAIN descriptors : descriptors[i] \in Objects /\ descriptors[i][2] = i - 1
    /\ ~ Running => descriptors = <<>> /\ helper.stage = "idle"
    /\ Reported => Described

\* Facts the policy accepts were true at one and the same moment, although the chain
\* was opened and described piece by piece and partly by path (inspect_opened).  Then
\* the path of the target led to the object that had been opened, of the volume that
\* is reported, over nothing that is a link or that anybody else may replace; and,
\* unless a path led again to what it had led to before, which two equal readings do
\* not tell, each path led to the object that had been opened for it, none of them
\* was in the cloud or remote, and all of them were on one volume.
AcceptedChainIsReal ==
    Accepted =>
        /\ mid[Last].object = Target.object
        /\ Volume(mid[Last].nature) = Volume(Target.nature)
        /\ mid[Last].nature \notin {"odd", "unlinked"}
        /\ \A i \in 0 .. Last : mid[i].nature \notin {"absent", "link", "loose"}
        /\ ~ returned => \A i \in 0 .. Last :
               /\ mid[i].object = Fds[i + 1].object
               /\ mid[i].nature \notin {"remote", "ubiquitous", "placeholder", "managed"}
               /\ Volume(mid[i].nature) = Volume(Target.nature)

\* When nobody changes the file system, the facts are coherent, and they are accepted
\* exactly when nothing is against any component, or else the probe fails.
QuietIsDecided ==
    ~ disturbed /\ ~ Running /\ outcome # "error" =>
        /\ outcome # "incoherent"
        /\ Accepted = \A i \in 0 .. Last :
               /\ Volume(mid[i].nature) = Volume(mid[Last].nature)
               /\ mid[i].nature \in {"plain", "second", "mounted"} \cup
                                   (IF i < Last THEN {"unlinked"} ELSE {})

\* Every inspection ends, whether or not File Provider answers (omt_file_provider_state).
ProbeReturns == <>~ Running
=============================================================================
