------------------------------- MODULE Scanner -------------------------------
(***************************************************************************)
(* scan_documents (fileops/scanner.py): the bounded breadth-first search   *)
(* for documents below a root, while the user moves files and directories. *)
(* A directory is read when its turn comes, by the path under which it was *)
(* seen; what was read is processed entry by entry under the limits of the *)
(* request.  The scan itself keeps no state outside one call.              *)
(***************************************************************************)
EXTENDS Integers, Sequences, FiniteSets, SequencesExt

CONSTANTS
    Directories, Files, Links, Others,  \* what a directory may hold
    Root,           \* the directory that was selected
    Nowhere,        \* the place of what is in no directory the model has
    Target,         \* the directory each link leads to
    FileClass,      \* "document", "unsupported", "large" or "unsized" for each file
    Names,          \* names of entries: numbers, in the order the names sort
    ExcludedNames,  \* names the request excludes
    InitialPlace,   \* [dir, name] of everything but the root
    Movable,        \* what the user moves during the scan
    Destinations,   \* [dir, name] of where the user moves it to
    Strays,         \* entries a reader may return whose path is not below the root
    Requests,       \* [max_depth, max_entries, max_documents]
    MaxChanges,     \* bound on what the user moves
    MaxFaults       \* bound on directories that cannot be read

Nodes == (Directories \ {Root}) \cup Files \cup Links \cup Others

ASSUME RequestsAssumption ==
    Requests \subseteq [max_depth : 0 .. 64, max_entries : Nat \ {0},
                        max_documents : Nat \ {0}]

\* No two entries of a directory have one name; a stray is told by its path alone.
ASSUME TreeAssumption ==
    /\ IsFiniteSet(Nodes) /\ Movable \subseteq Nodes
    /\ Root \in Directories /\ Root \notin Files \cup Links \cup Others
    /\ Nowhere \notin Directories \cup Nodes
    /\ Directories \cap (Files \cup Links) = {} /\ Files \cap Links = {}
    /\ Others \cap (Directories \cup Files \cup Links) = {}
    /\ Names \subseteq Int
    /\ InitialPlace \in [Nodes -> [dir : Directories \cup {Nowhere}, name : Names]]
    /\ \A m, n \in Nodes : InitialPlace[m] = InitialPlace[n] /\ InitialPlace[m].dir # Nowhere => m = n
    /\ Destinations \subseteq [dir : Directories \cup {Nowhere}, name : Names]
    /\ IsFiniteSet(Strays)
    /\ \A s \in Strays : ~s.inside /\ s.name \in Int \ Names
    /\ \A s, t \in Strays : s.name = t.name => s = t

VARIABLES
    place,      \* where everything is
    moved,      \* what the user has moved
    changes,
    request,
    pending,    \* directories to read, [path, depth]
    current,    \* the directory whose entries are processed
    batch,      \* its entries that are left, also when the loop over them was left
    documents, issues, inspected, truncated,
    returned,   \* the call is over
    faults

world == <<place, moved, changes>>
results == <<documents, issues, inspected, truncated>>
vars == <<world, request, pending, current, batch, results, returned, faults>>

-----------------------------------------------------------------------------
(* The tree. *)

Child(d, name) == {n \in Nodes : place[n] = [dir |-> d, name |-> name]}

\* One component of a path is looked up in a directory, or behind a link to one.
Follow(n) == IF n \in Links THEN Target[n] ELSE n

Lookup(d, name) ==
    IF d \in Directories /\ Child(d, name) # {}
    THEN CHOOSE m \in Child(d, name) : TRUE
    ELSE Nowhere

\* What os.scandir opens: links in the path, and at its end, are followed.
Resolve(path) ==
    LET walk[i \in 0 .. Len(path)] ==
            IF i = 0 THEN Root
            ELSE LET d == walk[i - 1] IN Follow(Lookup(d, path[i]))
    IN  walk[Len(path)]

\* n, the directory it is in at the places "where" gives, the directory above ...
Climb(where, n) ==
    LET climb[i \in 0 .. Cardinality(Directories)] ==
            IF i = 0 THEN n
            ELSE LET m == climb[i - 1] IN IF m \in Nodes THEN where[m].dir ELSE m
    IN  climb

Above(n) == {Climb(place, n)[i] : i \in 1 .. Cardinality(Directories)}

Beneath(d) == d = Root \/ Root \in Above(d)

Kind(n) ==
    CASE n \in Links       -> "link"
      [] n \in Directories -> "directory"
      [] n \in Files       -> "file"
      [] n \in Others      -> "other"

\* Faulty: a link is taken for what it leads to.
FollowedEntry(path, n) ==
    [path |-> Append(path, place[n].name), name |-> place[n].name, node |-> n, inside |-> TRUE,
     kind |-> Kind(Follow(n)), beneath |-> Beneath(place[n].dir)]

\* _snapshot_entry; "beneath" records, for the properties only, whether the
\* directory that was read was the root or inside it.
SnapshotEntry(path, n) ==
    [path |-> Append(path, place[n].name), name |-> place[n].name, node |-> n, inside |-> TRUE,
     kind |-> Kind(n), beneath |-> Beneath(place[n].dir)]

\* LocalDirectoryReader.entries, when the path leads to d.
Entries(path, d) == {SnapshotEntry(path, n) : n \in {m \in Nodes : place[m].dir = d}}

-----------------------------------------------------------------------------
(* The scan. *)

Top == [path |-> <<>>, depth |-> 0]

Init ==
    /\ place = InitialPlace
    /\ moved = {}
    /\ changes = 0
    /\ request \in Requests
    /\ pending = <<Top>>
    /\ current = Top
    /\ batch = <<>>
    /\ documents = <<>>
    /\ issues = <<>>
    /\ inspected = 0
    /\ truncated = FALSE
    /\ returned = FALSE
    /\ faults = 0

Note(path, code) == issues' = Append(issues, [path |-> path, code |-> code])

NextDirectory == ~returned /\ batch = <<>> /\ pending # <<>> /\ ~truncated

\* Entries in the order of their names, whatever order the reader returns.
Sorted(entries) ==
    [i \in 1 .. Cardinality(entries) |->
        CHOOSE e \in entries : Cardinality({f \in entries : f.name < e.name}) = i - 1]

\* Faulty: the directory is looked at and stays in the queue.
ReadWithoutPop ==
    /\ NextDirectory
    /\ \E d \in Directories :
          /\ d = Resolve(Head(pending).path)
          /\ batch' = Sorted(Entries(Head(pending).path, d))
    /\ current' = Head(pending)
    /\ UNCHANGED <<world, request, pending, results, returned, faults>>

ReadDirectory ==
    /\ NextDirectory
    /\ \E d \in Directories :
          /\ d = Resolve(Head(pending).path)
          /\ batch' \in {Sorted(entries) : entries \in
                            {Entries(Head(pending).path, d) \cup s : s \in SUBSET Strays}}
    /\ current' = Head(pending)
    /\ pending' = Tail(pending)
    /\ UNCHANGED <<world, request, results, returned, faults>>

\* The path is no directory any more, or the system denies it, or a file in it
\* disappears between its listing and its stat.
UnreadableDirectory ==
    /\ \/ Resolve(Head(pending).path) \notin Directories /\ UNCHANGED faults
       \/ faults < MaxFaults /\ faults' = faults + 1
    /\ Note(Head(pending).path, "inaccessible")

\* Faulty: a directory that cannot be read is put off.
ReadAgain ==
    /\ NextDirectory
    /\ Resolve(Head(pending).path) \notin Directories
    /\ pending' = Append(Tail(pending), Head(pending))
    /\ UNCHANGED <<world, request, current, batch, results, returned, faults>>

\* Faulty: a directory that cannot be read ends the scan.
StopAtUnreadable ==
    /\ NextDirectory
    /\ UnreadableDirectory
    /\ pending' = <<>>
    /\ UNCHANGED <<world, request, current, batch, documents, inspected, truncated, returned>>

SkipUnreadable ==
    /\ NextDirectory
    /\ UnreadableDirectory
    /\ pending' = Tail(pending)
    /\ UNCHANGED <<world, request, current, batch, documents, inspected, truncated, returned>>

NextEntry == batch # <<>> /\ ~truncated

EntryLimit ==
    /\ NextEntry
    /\ inspected >= request.max_entries
    /\ Note(<<>>, "entry_limit")
    /\ truncated' = TRUE
    /\ UNCHANGED <<world, request, pending, current, batch, documents, inspected, returned, faults>>

-----------------------------------------------------------------------------
(* _process_entry, in the order of its tests. *)

Skipped(e) == ~e.inside \/ e.name \in ExcludedNames

\* Faulty: one level too deep.
BelowMaxDepth == current.depth <= request.max_depth

MayDescend == current.depth < request.max_depth

Queue(e) ==
    /\ e.kind = "directory"
    /\ pending' = IF MayDescend
                  THEN Append(pending, [path |-> e.path, depth |-> current.depth + 1])
                  ELSE pending
    /\ UNCHANGED <<documents, issues, truncated>>

\* Faulty: the last document that is allowed already ends the scan.
NearDocumentLimit == Len(documents) + 1 >= request.max_documents

AtDocumentLimit == Len(documents) >= request.max_documents

DocumentLimit(e) ==
    /\ AtDocumentLimit
    /\ Note(e.path, "document_limit")
    /\ truncated' = TRUE
    /\ UNCHANGED documents

\* _file_outcome: supported, with a known size within the limit.
Discover(e) ==
    LET class == FileClass[e.node]
    IN  /\ e.kind = "file"
        /\ \/ class = "unsupported" /\ UNCHANGED <<documents, issues, truncated>>
           \/ /\ class \in {"large", "unsized"}
              /\ Note(e.path, IF class = "large" THEN "too_large" ELSE "inaccessible")
              /\ UNCHANGED <<documents, truncated>>
           \/ class = "document" /\ DocumentLimit(e)
           \/ /\ class = "document"
              /\ ~AtDocumentLimit
              /\ documents' = Append(documents, e)
              /\ UNCHANGED <<issues, truncated>>
        /\ UNCHANGED pending

Pass(e) ==
    /\ \/ ~e.inside /\ Note(<<>>, "outside_root")
       \/ e.inside /\ e.name \in ExcludedNames /\ UNCHANGED issues
       \/ ~Skipped(e) /\ e.kind = "link" /\ Note(e.path, "link_skipped")
       \/ ~Skipped(e) /\ e.kind = "other" /\ UNCHANGED issues
    /\ UNCHANGED <<pending, documents, truncated>>

ProcessEntry ==
    /\ NextEntry
    /\ inspected < request.max_entries
    /\ inspected' = inspected + 1
    /\ LET e == Head(batch)
       IN  Pass(e) \/ (~Skipped(e) /\ (Queue(e) \/ Discover(e)))
    /\ batch' = Tail(batch)
    /\ UNCHANGED <<world, request, current, returned, faults>>

Return ==
    /\ ~returned
    /\ truncated \/ (batch = <<>> /\ pending = <<>>)
    /\ returned' = TRUE
    /\ UNCHANGED <<world, request, pending, current, batch, results, faults>>

-----------------------------------------------------------------------------
\* The user moves something to a free place, not into itself.
Move(n, d, name) ==
    /\ ~returned
    /\ changes < MaxChanges
    /\ d # n /\ n \notin Above(d)
    /\ d \in Directories => \A m \in Nodes : place[m] # [dir |-> d, name |-> name]
    /\ place' = [place EXCEPT ![n] = [dir |-> d, name |-> name]]
    /\ moved' = moved \cup {n}
    /\ changes' = changes + 1
    /\ UNCHANGED <<request, pending, current, batch, results, returned, faults>>

Scan == ReadDirectory \/ SkipUnreadable \/ EntryLimit \/ ProcessEntry \/ Return

User == \E n \in Movable, to \in Destinations : Move(n, to.dir, to.name)

Next == Scan \/ User

Spec == Init /\ [][Next]_vars

FairSpec == Spec /\ WF_vars(Scan)
-----------------------------------------------------------------------------
(* What a scan promises. *)

IssueCodes == {"inaccessible", "link_skipped", "too_large", "entry_limit",
               "document_limit", "outside_root"}

LimitCodes == {"entry_limit", "document_limit"}

ScanTypeOK ==
    /\ request \in Requests
    /\ pending \in Seq([path : Seq(Names), depth : 0 .. request.max_depth])
    /\ documents \in Seq([path : Seq(Names), name : Names, node : Files, inside : {TRUE},
                          kind : {"file"}, beneath : BOOLEAN])
    /\ issues \in Seq([path : Seq(Names), code : IssueCodes])
    /\ inspected \in Nat
    /\ truncated \in BOOLEAN
    /\ returned \in BOOLEAN

\* Which limit was met, and that there was more than it allows: an entry nobody
\* looked at, or a document that is not reported.
EntryLimitMet == inspected = request.max_entries /\ batch # <<>>

DocumentLimitMet(path) ==
    /\ Len(documents) = request.max_documents
    /\ \A i \in 1 .. Len(documents) : documents[i].path # path

\* The hard limits of the request bound the result, and a scan is truncated exactly
\* when it has met one: its last issue, and no earlier one, names the limit, as much
\* as it allows was inspected or found, and there was more.  So a scan never stops
\* before a limit, and a result with exactly as many entries or documents as
\* allowed is complete and is not called truncated.
LimitsRespected ==
    /\ inspected <= request.max_entries
    /\ Len(documents) <= request.max_documents
    /\ \A i \in 1 .. Len(issues) :
          issues[i].code \in LimitCodes <=> truncated /\ i = Len(issues)
    /\ truncated => /\ issues # <<>>
                    /\ Last(issues).code = "entry_limit" => EntryLimitMet
                    /\ Last(issues).code = "document_limit" => DocumentLimitMet(Last(issues).path)

\* No document is reported twice under one path, however directories move between
\* the reading of their parent and their own.
PathsDistinct ==
    \A i, j \in 1 .. Len(documents) : documents[i].path = documents[j].path => i = j

\* "Discover supported documents without broadening the selected root": what is
\* reported was in the root or a directory below it when its directory was read.
RootNotBroadened == \A i \in 1 .. Len(documents) : documents[i].beneath

\* During the scan the user moved the link l, or a directory it was in.
Carried(l) ==
    {Climb(InitialPlace, l)[i] : i \in 0 .. Cardinality(Directories)} \cap moved # {}

\* It is so unless a link was moved meanwhile: the scan never takes a link for a
\* directory, and no directory that moves, is replaced by another or disappears
\* after it was queued leads it out of the root.
RootLeftByMovedLink == RootNotBroadened \/ \E l \in Links : Carried(l)

\* f is a document k levels below the root, within the depth of the request, no
\* name on its way is excluded, and the user left all of its way alone.
Steady(f, k) ==
    LET climb == Climb(InitialPlace, f)
        way == {climb[i] : i \in 0 .. k - 1}
    IN  /\ climb[k] = Root
        /\ Root \notin way
        /\ k - 1 <= request.max_depth
        /\ FileClass[f] = "document"
        /\ way \cap moved = {}
        /\ \A n \in way : InitialPlace[n].name \notin ExcludedNames

PathTo(f, k) == [j \in 1 .. k |-> InitialPlace[Climb(InitialPlace, f)[k - j]].name]

Reported(f, path) ==
    Cardinality({i \in 1 .. Len(documents) : documents[i].node = f
                                              /\ documents[i].path = path})

Unread(path) ==
    \E i \in 1 .. Len(issues) : issues[i].code = "inaccessible"
                                 /\ IsStrictPrefix(issues[i].path, path)

\* A scan that is not truncated tells all it knows: each document that stayed in
\* its place is reported once at its path, or a directory on the way to it is
\* reported as inaccessible, whatever moved elsewhere in the tree meanwhile.
FoundOrReported ==
    returned /\ ~truncated =>
        \A f \in Files, k \in 1 .. Cardinality(Directories) :
            Steady(f, k) =>
                \/ Reported(f, PathTo(f, k)) = 1
                \/ Unread(PathTo(f, k))

\* The scan ends, also when directories disappear or move in front of it.
ScanReturns == <>returned
=============================================================================
