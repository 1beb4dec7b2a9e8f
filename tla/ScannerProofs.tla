--------------------------- MODULE ScannerProofs ---------------------------
(* Theorems about Scanner, for any tree, any request and any number of moves *)
(* of the user.                                                              *)
EXTENDS Scanner, FiniteSetTheorems, SequenceTheorems, WellFoundedInduction, TLAPS

(* Entries of different names are put in the order of their names.           *)
LEMMA SortedFacts ==
    ASSUME NEW S, IsFiniteSet(S),
           \A e \in S : e.name \in Int,
           \A e, f \in S : e.name = f.name => e = f
    PROVE  /\ Sorted(S) \in Seq(S) /\ Len(Sorted(S)) = Cardinality(S)
           /\ \A i, j \in DOMAIN Sorted(S) : Sorted(S)[i].name = Sorted(S)[j].name => i = j
           /\ \A e \in S : \E i \in DOMAIN Sorted(S) : Sorted(S)[i] = e
<1> DEFINE Less(e) == {f \in S : f.name < e.name}
           N == Cardinality(S)
           rank == [e \in S |-> Cardinality(Less(e))]
<1>1. N \in Nat
  BY FS_CardinalityType
<1>2. ASSUME NEW e \in S
      PROVE  Less(e) \in SUBSET S /\ IsFiniteSet(Less(e)) /\ Cardinality(Less(e)) \in Nat
  <2>1. Less(e) \in SUBSET S
    OBVIOUS
  <2> HIDE DEF Less
  <2> QED
    BY <2>1, FS_Subset, FS_CardinalityType
<1>3. ASSUME NEW e \in S
      PROVE  Cardinality(Less(e)) \in 0 .. N - 1
  <2>1. e \notin Less(e)
    BY e.name \in Int
  <2>2. Cardinality(Less(e)) <= N
    BY <1>2, FS_Subset
  <2>3. Cardinality(Less(e)) # N
    BY <1>2, <2>1, FS_Subset
  <2> HIDE DEF Less, N
  <2> QED
    BY <1>1, <1>2, <2>2, <2>3
<1>4. ASSUME NEW e \in S, NEW f \in S, e.name < f.name
      PROVE  Cardinality(Less(e)) # Cardinality(Less(f))
  <2>1. Less(e) \subseteq Less(f)
    BY <1>4
  <2>2. e \in Less(f) /\ e \notin Less(e)
    BY <1>4
  <2> HIDE DEF Less
  <2>3. Less(e) \in SUBSET Less(f) /\ IsFiniteSet(Less(f))
    BY <1>2, <2>1
  <2> QED
    BY <2>2, <2>3, FS_Subset
<1>5. rank \in [S -> 0 .. N - 1]
  BY <1>3
<1>6. \A e \in S : rank[e] = Cardinality(Less(e))
  OBVIOUS
<1>7. \A e, f \in S : rank[e] = rank[f] => e = f
  <2> SUFFICES ASSUME NEW e \in S, NEW f \in S, e # f
               PROVE  rank[e] # rank[f]
    OBVIOUS
  <2>1. e.name < f.name \/ f.name < e.name
    BY e.name \in Int, f.name \in Int
  <2> HIDE DEF Less, rank
  <2> QED
    BY <1>4, <1>6, <2>1
<1> HIDE DEF Less, rank
<1>8. rank \in Injection(S, 0 .. N - 1)
  BY <1>5, <1>7 DEF Injection, IsInjective
<1>9. IsFiniteSet(0 .. N - 1) /\ Cardinality(0 .. N - 1) = N
  BY <1>1, FS_Interval
<1>10. rank \in Surjection(S, 0 .. N - 1)
  BY <1>8, <1>9, FS_Injection
<1>11. ASSUME NEW i \in 1 .. N
       PROVE  Sorted(S)[i] \in S /\ rank[Sorted(S)[i]] = i - 1
  <2>1. i - 1 \in 0 .. N - 1
    BY <1>1
  <2>2. PICK e \in S : rank[e] = i - 1
    BY <1>10, <2>1 DEF Surjection
  <2>3. Cardinality({f \in S : f.name < e.name}) = i - 1
    BY <1>6, <2>2 DEF Less
  <2>4. Sorted(S)[i] = CHOOSE x \in S : Cardinality({f \in S : f.name < x.name}) = i - 1
    BY DEF Sorted, N
  <2>5. Sorted(S)[i] \in S /\ Cardinality({f \in S : f.name < Sorted(S)[i].name}) = i - 1
    BY <2>3, <2>4
  <2> QED
    BY <1>6, <2>5 DEF Less
<1>12. DOMAIN Sorted(S) = 1 .. N
  BY DEF Sorted, N
<1>13. Sorted(S) \in Seq(S) /\ Len(Sorted(S)) = N
  <2> DEFINE ith(i) == CHOOSE x \in S : Cardinality({f \in S : f.name < x.name}) = i - 1
  <2>1. Sorted(S) = [i \in 1 .. N |-> ith(i)]
    BY DEF Sorted, N
  <2> HIDE DEF ith
  <2>2. Sorted(S) \in [1 .. N -> S]
    BY <1>11, <2>1
  <2> QED
    BY <1>1, <2>2
<1>14. ASSUME NEW i \in 1 .. N, NEW j \in 1 .. N, Sorted(S)[i].name = Sorted(S)[j].name
       PROVE  i = j
  <2>1. Sorted(S)[i] = Sorted(S)[j]
    BY <1>11, <1>14
  <2>2. i - 1 = j - 1
    BY <1>11, <2>1
  <2> QED
    BY <2>2
<1>15. ASSUME NEW e \in S
       PROVE  \E i \in 1 .. N : Sorted(S)[i] = e
  <2>1. PICK k : k = rank[e]
    OBVIOUS
  <2>2. k \in 0 .. N - 1
    BY <1>5, <2>1
  <2>3. k + 1 \in 1 .. N /\ (k + 1) - 1 = k
    BY <1>1, <2>2
  <2>4. Sorted(S)[k + 1] \in S /\ rank[Sorted(S)[k + 1]] = k
    BY <1>11, <2>3
  <2>5. Sorted(S)[k + 1] = e
    BY <1>7, <2>1, <2>4
  <2> QED
    BY <2>3, <2>5
<1> QED
  BY <1>12, <1>13, <1>14, <1>15 DEF N

-----------------------------------------------------------------------------
(* The state.                                                                *)

TreeInv ==
    /\ place \in [Nodes -> [dir : Directories \cup {Nowhere}, name : Names]]
    /\ \A m, n \in Nodes : place[m] = place[n] /\ place[m].dir # Nowhere => m = n

DirectoryRecords == [path : Seq(Names), depth : 0 .. request.max_depth]

DocumentRecords == [path : Seq(Names), name : Names, node : Files, inside : {TRUE},
                    kind : {"file"}, beneath : BOOLEAN]

\* An entry as the reader of the system returns it.
Entry(e) ==
    \E n \in Nodes, name \in Names, beneath \in BOOLEAN :
        e = [path |-> Append(current.path, name), name |-> name, node |-> n, inside |-> TRUE,
             kind |-> Kind(n), beneath |-> beneath]

BatchInv ==
    /\ \E S : batch \in Seq(S)
    /\ \A i \in DOMAIN batch : Entry(batch[i]) \/ batch[i] \in Strays
    /\ \A i, j \in DOMAIN batch : batch[i].name = batch[j].name => i = j

TypesInv ==
    /\ TreeInv /\ ScanTypeOK /\ BatchInv
    /\ current \in DirectoryRecords

-----------------------------------------------------------------------------
(* The steps.                                                                *)

LEMMA EntriesFacts ==
    ASSUME TreeInv, NEW d \in Directories, NEW path, NEW s \in SUBSET Strays
    PROVE  LET S == Entries(path, d) \cup s
           IN  /\ IsFiniteSet(S)
               /\ \A e \in S : e.name \in Int
               /\ \A e, f \in S : e.name = f.name => e = f
               /\ \A e \in Entries(path, d) : \E n \in Nodes :
                      /\ place[n].dir = d /\ place[n].name \in Names
                      /\ e = SnapshotEntry(path, n) /\ e.name = place[n].name
<1> DEFINE E == Entries(path, d)
           M == {m \in Nodes : place[m].dir = d}
           f == [n \in M |-> SnapshotEntry(path, n)]
<1>1. IsFiniteSet(M)
  <2>1. M \in SUBSET Nodes
    OBVIOUS
  <2> HIDE DEF M
  <2> QED
    BY <2>1, TreeAssumption, FS_Subset
<1>2. E = {SnapshotEntry(path, n) : n \in M}
  BY DEF Entries
<1>3. f \in Surjection(M, E)
  <2> HIDE DEF M, E
  <2> QED
    BY <1>2 DEF Surjection
<1> HIDE DEF f, M
<1>4. IsFiniteSet(E)
  <2> HIDE DEF E
  <2> QED
    BY <1>1, <1>3, FS_Surjection
<1>5. IsFiniteSet(s)
  BY TreeAssumption, FS_Subset
<1>6. IsFiniteSet(E \cup s)
  <2> HIDE DEF E
  <2> QED
    BY <1>4, <1>5, FS_Union
<1>7. ASSUME NEW e \in E
      PROVE  \E n \in Nodes : /\ place[n].dir = d /\ place[n].name \in Names
                              /\ e = SnapshotEntry(path, n) /\ e.name = place[n].name
  <2>1. PICK n \in M : e = SnapshotEntry(path, n)
    BY <1>2
  <2>2. n \in Nodes /\ place[n].dir = d
    BY <2>1 DEF M
  <2>3. place[n].name \in Names
    BY <2>2 DEF TreeInv
  <2>4. e.name = place[n].name
    BY <2>1 DEF SnapshotEntry
  <2> QED
    BY <2>1, <2>2, <2>3, <2>4
<1>8. \A e \in E : e.name \in Names /\ e.name \in Int
  <2> HIDE DEF E
  <2> QED
    BY <1>7, TreeAssumption
<1>9. \A e \in s : e.name \in Int /\ e.name \notin Names
  BY TreeAssumption
<1>10. ASSUME NEW e \in E, NEW g \in E, e.name = g.name
       PROVE  e = g
  <2>1. PICK n \in Nodes : /\ place[n].dir = d
                           /\ e = SnapshotEntry(path, n) /\ e.name = place[n].name
    BY <1>7
  <2>2. PICK m \in Nodes : /\ place[m].dir = d
                           /\ g = SnapshotEntry(path, m) /\ g.name = place[m].name
    BY <1>7
  <2>3. place[n] = place[m]
    BY <1>10, <2>1, <2>2 DEF TreeInv
  <2>4. n = m
    BY <2>1, <2>3, TreeAssumption DEF TreeInv
  <2> QED
    BY <2>1, <2>2, <2>4
<1> HIDE DEF E
<1>11. \A e, g \in E \cup s : e.name = g.name => e = g
  BY <1>8, <1>9, <1>10, TreeAssumption
<1> QED
  BY <1>6, <1>7, <1>8, <1>9, <1>11 DEF E

\* What a step of _process_entry does with the next entry.
Processes ==
    /\ batch # <<>> /\ ~truncated /\ inspected < request.max_entries
    /\ inspected' = inspected + 1 /\ batch' = Tail(batch)
    /\ UNCHANGED <<world, request, current, returned, faults>>

Finds(e) ==
    /\ e = Head(batch) /\ Entry(e)
    /\ e.name \in Names /\ e.path = Append(current.path, e.name) /\ e.path \in Seq(Names)

Queues(e) ==
    /\ Finds(e) /\ e.kind = "directory" /\ current.depth < request.max_depth
    /\ pending' = Append(pending, [path |-> e.path, depth |-> current.depth + 1])
    /\ UNCHANGED <<documents, issues, truncated>>

Discovers(e) ==
    /\ Finds(e) /\ e \in DocumentRecords /\ Len(documents) < request.max_documents
    /\ documents' = Append(documents, e)
    /\ UNCHANGED <<pending, issues, truncated>>

Says(path, code) ==
    /\ path \in Seq(Names) /\ code \in IssueCodes \ {"entry_limit"}
    /\ Note(path, code)
    /\ code = "document_limit" => /\ truncated' = TRUE /\ Len(documents) >= request.max_documents
                                  /\ \E e : Finds(e) /\ e.path = path
    /\ code # "document_limit" => truncated' = truncated
    /\ UNCHANGED <<pending, documents>>

PassesOver == UNCHANGED <<pending, documents, issues, truncated>>

LEMMA UserMoves ==
    ASSUME User
    PROVE  \E n \in Movable, d \in Directories \cup {Nowhere}, name \in Names : Move(n, d, name)
<1>1. PICK n \in Movable, to \in Destinations : Move(n, to.dir, to.name)
  BY DEF User
<1>2. to \in [dir : Directories \cup {Nowhere}, name : Names]
  BY TreeAssumption
<1> QED
  BY <1>1, <1>2

LEMMA BatchFacts ==
    ASSUME TypesInv, batch # <<>>
    PROVE  /\ Head(batch) = batch[1] /\ 1 \in DOMAIN batch
           /\ Entry(Head(batch)) \/ Head(batch) \in Strays
           /\ DOMAIN Tail(batch) \subseteq DOMAIN batch
           /\ \E S : Tail(batch) \in Seq(S)
           /\ \A i \in DOMAIN Tail(batch) : /\ i + 1 \in DOMAIN batch /\ Tail(batch)[i] = batch[i + 1]
                                            /\ Tail(batch)[i].name # Head(batch).name
           /\ \A i, j \in DOMAIN Tail(batch) :
                  Tail(batch)[i].name = Tail(batch)[j].name => i = j
<1>1. PICK S : batch \in Seq(S)
  BY DEF TypesInv, BatchInv
<1>2. Head(batch) = batch[1] /\ 1 \in DOMAIN batch
  BY <1>1
<1>3. /\ Tail(batch) \in Seq(S) /\ DOMAIN Tail(batch) \subseteq DOMAIN batch
      /\ \A i \in DOMAIN Tail(batch) : i + 1 \in DOMAIN batch /\ Tail(batch)[i] = batch[i + 1]
                                       /\ i \in Nat /\ i + 1 # 1
  BY <1>1
<1>4. \A i, j \in DOMAIN batch : batch[i].name = batch[j].name => i = j
  BY DEF TypesInv, BatchInv
<1>5. \A i \in DOMAIN Tail(batch) : Tail(batch)[i].name # Head(batch).name
  BY <1>2, <1>3, <1>4
<1>6. ASSUME NEW i \in DOMAIN Tail(batch), NEW j \in DOMAIN Tail(batch),
             Tail(batch)[i].name = Tail(batch)[j].name
      PROVE  i = j
  <2>1. i + 1 = j + 1
    BY <1>3, <1>4, <1>6
  <2> QED
    BY <1>3, <2>1
<1>7. Entry(Head(batch)) \/ Head(batch) \in Strays
  BY <1>2 DEF TypesInv, BatchInv
<1> QED
  BY <1>2, <1>3, <1>5, <1>6, <1>7

LEMMA EntryFacts ==
    ASSUME TypesInv, NEW e, Entry(e)
    PROVE  /\ e.name \in Names /\ e.path = Append(current.path, e.name) /\ e.path \in Seq(Names)
           /\ e.inside = TRUE
           /\ e.kind = "file" => e \in DocumentRecords
<1>1. PICK n \in Nodes, name \in Names, beneath \in BOOLEAN :
          e = [path |-> Append(current.path, name), name |-> name, node |-> n, inside |-> TRUE,
               kind |-> Kind(n), beneath |-> beneath]
  BY DEF Entry
<1>2. current.path \in Seq(Names)
  BY DEF TypesInv, DirectoryRecords
<1>3. Append(current.path, name) \in Seq(Names)
  BY <1>2
<1>4. e.name = name /\ e.path = Append(current.path, name) /\ e.kind = Kind(n) /\ e.inside = TRUE
  BY <1>1
<1>5. Kind(n) = "file" => n \in Files
  BY DEF Kind, Nodes
<1>6. e.kind = "file" => e \in DocumentRecords
  <2> SUFFICES ASSUME n \in Files, Kind(n) = "file"
               PROVE  e \in DocumentRecords
    BY <1>4, <1>5
  <2>1. PICK path \in Seq(Names) : path = Append(current.path, name)
    BY <1>3
  <2>2. e = [path |-> path, name |-> name, node |-> n, inside |-> TRUE,
             kind |-> "file", beneath |-> beneath]
    BY <1>1, <2>1
  <2> QED
    BY <2>2 DEF DocumentRecords
<1> QED
  BY <1>3, <1>4, <1>6

LEMMA ProcessKinds ==
    ASSUME TypesInv, ProcessEntry
    PROVE  /\ Processes
           /\ \/ \E e : Queues(e) \/ Discovers(e)
              \/ \E path, code : Says(path, code)
              \/ PassesOver
<1> DEFINE e == Head(batch)
<1>1. Processes
  BY DEF ProcessEntry, NextEntry, Processes
<1>2. Entry(e) \/ e \in Strays
  BY BatchFacts DEF ProcessEntry, NextEntry
<1>3. <<>> \in Seq(Names)
  OBVIOUS
<1>4. Pass(e) \/ (~Skipped(e) /\ (Queue(e) \/ Discover(e)))
  BY DEF ProcessEntry
<1>5. ASSUME ~Skipped(e)
      PROVE  Finds(e) /\ (e.kind = "file" => e \in DocumentRecords)
  <2>1. e \notin Strays
    BY <1>5, TreeAssumption DEF Skipped
  <2>2. Entry(e)
    BY <1>2, <2>1
  <2> HIDE DEF e
  <2>3. /\ e.name \in Names /\ e.path = Append(current.path, e.name) /\ e.path \in Seq(Names)
        /\ e.kind = "file" => e \in DocumentRecords
    BY <2>2, EntryFacts
  <2> QED
    BY <2>2, <2>3 DEF Finds, e
<1> HIDE DEF e
<1>6. CASE Pass(e)
  <2>1. CASE ~e.inside /\ Note(<<>>, "outside_root")
    <3>1. UNCHANGED <<pending, documents, truncated>>
      BY <1>6 DEF Pass
    <3>2. Says(<<>>, "outside_root")
      BY <1>3, <2>1, <3>1 DEF Says, IssueCodes
    <3> QED
      BY <1>1, <3>2
  <2>2. CASE e.inside /\ e.name \in ExcludedNames /\ UNCHANGED issues
    BY <1>1, <1>6, <2>2 DEF Pass, PassesOver
  <2>3. CASE ~Skipped(e) /\ e.kind = "link" /\ Note(e.path, "link_skipped")
    <3>1. UNCHANGED <<pending, documents, truncated>>
      BY <1>6 DEF Pass
    <3>2. Says(e.path, "link_skipped")
      BY <1>5, <2>3, <3>1 DEF Says, IssueCodes, Finds
    <3> QED
      BY <1>1, <3>2
  <2>4. CASE ~Skipped(e) /\ e.kind = "other" /\ UNCHANGED issues
    BY <1>1, <1>6, <2>4 DEF Pass, PassesOver
  <2> QED
    BY <1>6, <2>1, <2>2, <2>3, <2>4 DEF Pass
<1>7. CASE ~Skipped(e) /\ Queue(e)
  <2>1. CASE MayDescend
    <3>1. Queues(e)
      BY <1>5, <1>7, <2>1 DEF Queue, Queues, MayDescend
    <3> QED
      BY <1>1, <3>1
  <2>2. CASE ~MayDescend
    <3>1. pending' = pending /\ UNCHANGED <<documents, issues, truncated>>
      BY <1>7, <2>2 DEF Queue
    <3> QED
      BY <1>1, <3>1 DEF PassesOver
  <2> QED
    BY <2>1, <2>2
<1>8. CASE ~Skipped(e) /\ Discover(e)
  <2>1. Finds(e) /\ e \in DocumentRecords /\ UNCHANGED pending
    BY <1>5, <1>8 DEF Discover
  <2> DEFINE class == FileClass[e.node]
  <2>2. CASE class = "unsupported" /\ UNCHANGED <<documents, issues, truncated>>
    BY <1>1, <2>1, <2>2 DEF PassesOver
  <2>3. CASE /\ class \in {"large", "unsized"}
             /\ Note(e.path, IF class = "large" THEN "too_large" ELSE "inaccessible")
             /\ UNCHANGED <<documents, truncated>>
    <3>1. PICK code : code = IF class = "large" THEN "too_large" ELSE "inaccessible"
      OBVIOUS
    <3>2. code \in {"too_large", "inaccessible"}
      BY <3>1
    <3>3. Says(e.path, code)
      BY <2>1, <2>3, <3>1, <3>2 DEF Says, IssueCodes, Finds
    <3> QED
      BY <1>1, <3>3
  <2>4. CASE class = "document" /\ DocumentLimit(e)
    <3>1. Says(e.path, "document_limit")
      <4>1. /\ Len(documents) >= request.max_documents /\ truncated' = TRUE
            /\ Note(e.path, "document_limit") /\ UNCHANGED <<pending, documents>>
        BY <2>1, <2>4 DEF DocumentLimit, AtDocumentLimit
      <4>2. e.path \in Seq(Names) /\ "document_limit" \in IssueCodes \ {"entry_limit"}
        BY <2>1 DEF Finds, IssueCodes
      <4> QED
        BY <2>1, <4>1, <4>2 DEF Says
    <3> QED
      BY <1>1, <3>1
  <2>5. CASE /\ class = "document" /\ ~AtDocumentLimit
             /\ documents' = Append(documents, e) /\ UNCHANGED <<issues, truncated>>
    <3>1. Len(documents) < request.max_documents
      <4>1. Len(documents) \in Nat /\ request.max_documents \in Nat
        BY RequestsAssumption DEF TypesInv, ScanTypeOK
      <4> QED
        BY <2>5, <4>1 DEF AtDocumentLimit
    <3>2. Discovers(e)
      BY <2>1, <2>5, <3>1 DEF Discovers
    <3> QED
      BY <1>1, <3>2
  <2> QED
    BY <1>8, <2>2, <2>3, <2>4, <2>5 DEF Discover
<1> QED
  BY <1>4, <1>6, <1>7, <1>8

LEMMA TypesStep ==
    ASSUME TypesInv, [Next]_vars
    PROVE  TypesInv'
<1>0. /\ request \in Requests /\ request.max_depth \in Nat
      /\ pending \in Seq(DirectoryRecords) /\ documents \in Seq(DocumentRecords)
      /\ issues \in Seq([path : Seq(Names), code : IssueCodes])
      /\ inspected \in Nat /\ truncated \in BOOLEAN /\ returned \in BOOLEAN
      /\ current \in DirectoryRecords
  <2>1. request \in Requests
    BY DEF TypesInv, ScanTypeOK
  <2>2. request.max_depth \in Nat
    <3>1. request.max_depth \in 0 .. 64
      BY <2>1, RequestsAssumption
    <3> QED
      BY <3>1
  <2>3. /\ issues \in Seq([path : Seq(Names), code : IssueCodes])
        /\ inspected \in Nat /\ truncated \in BOOLEAN /\ returned \in BOOLEAN
        /\ current \in DirectoryRecords
    BY DEF TypesInv, ScanTypeOK
  <2>4. pending \in Seq(DirectoryRecords)
    BY DEF TypesInv, ScanTypeOK, DirectoryRecords
  <2>5. documents \in Seq(DocumentRecords)
    BY DEF TypesInv, ScanTypeOK, DocumentRecords
  <2> QED
    BY <2>1, <2>2, <2>3, <2>4, <2>5
<1>1. CASE ReadDirectory
  <2>1. /\ pending # <<>> /\ current' = Head(pending) /\ pending' = Tail(pending)
        /\ UNCHANGED <<world, request, results, returned, faults>>
    BY <1>1 DEF ReadDirectory, NextDirectory
  <2>2. PICK d \in Directories, s \in SUBSET Strays :
            batch' = Sorted(Entries(Head(pending).path, d) \cup s)
    BY <1>1 DEF ReadDirectory
  <2> DEFINE path == Head(pending).path
             S == Entries(path, d) \cup s
  <2>3. /\ IsFiniteSet(S)
        /\ \A e \in S : e.name \in Int
        /\ \A e, f \in S : e.name = f.name => e = f
        /\ \A e \in Entries(path, d) : \E n \in Nodes :
               /\ place[n].dir = d /\ place[n].name \in Names
               /\ e = SnapshotEntry(path, n) /\ e.name = place[n].name
    BY EntriesFacts DEF TypesInv
  <2>4. current' = Head(pending) /\ current' \in DirectoryRecords
    BY <1>0, <2>1
  <2>5. pending' \in Seq(DirectoryRecords)
    BY <1>0, <2>1
  <2>6. ASSUME NEW e \in S
        PROVE  Entry(e)' \/ e \in Strays
    <3>1. CASE e \in s
      BY <3>1
    <3>2. CASE e \in Entries(path, d)
      <4>1. PICK n \in Nodes : place[n].name \in Names /\ e = SnapshotEntry(path, n)
        BY <2>3, <3>2
      <4>2. Beneath(place[n].dir) \in BOOLEAN
        BY DEF Beneath
      <4>3. current'.path = path
        BY <2>4
      <4> QED
        BY <4>1, <4>2, <4>3 DEF Entry, SnapshotEntry
    <3> QED
      BY <3>1, <3>2
  <2>7. batch' = Sorted(S)
    BY <2>2
  <2> HIDE DEF S, path
  <2>8. BatchInv'
    <3>1. /\ Sorted(S) \in Seq(S)
          /\ \A i, j \in DOMAIN Sorted(S) : Sorted(S)[i].name = Sorted(S)[j].name => i = j
      BY <2>3, SortedFacts
    <3>2. \A i \in DOMAIN Sorted(S) : Sorted(S)[i] \in S
      BY <3>1
    <3> QED
      BY <2>6, <2>7, <3>1, <3>2 DEF BatchInv
  <2>9. TreeInv'
    BY <2>1 DEF TypesInv, TreeInv, world
  <2> QED
    BY <1>0, <2>1, <2>4, <2>5, <2>8, <2>9 DEF TypesInv, ScanTypeOK, DirectoryRecords, DocumentRecords, results
<1>2. CASE SkipUnreadable
  <2>1. /\ pending # <<>> /\ pending' = Tail(pending)
        /\ UNCHANGED <<world, request, current, batch, documents, inspected, truncated, returned>>
        /\ issues' = Append(issues, [path |-> Head(pending).path, code |-> "inaccessible"])
    BY <1>2 DEF SkipUnreadable, NextDirectory, UnreadableDirectory, Note
  <2>2. pending' \in Seq(DirectoryRecords) /\ Head(pending) \in DirectoryRecords
    BY <1>0, <2>1
  <2>3. [path |-> Head(pending).path, code |-> "inaccessible"] \in [path : Seq(Names), code : IssueCodes]
    BY <2>2 DEF DirectoryRecords, IssueCodes
  <2>4. issues' \in Seq([path : Seq(Names), code : IssueCodes])
    BY <1>0, <2>1, <2>3
  <2>5. BatchInv' /\ TreeInv'
    BY <2>1 DEF TypesInv, BatchInv, Entry, TreeInv, world
  <2> QED
    BY <1>0, <2>1, <2>2, <2>4, <2>5 DEF TypesInv, ScanTypeOK, DirectoryRecords, DocumentRecords
<1>3. CASE EntryLimit
  <2>1. /\ truncated' = TRUE
        /\ UNCHANGED <<world, request, pending, current, batch, documents, inspected, returned, faults>>
        /\ issues' = Append(issues, [path |-> <<>>, code |-> "entry_limit"])
    BY <1>3 DEF EntryLimit, Note
  <2>2. [path |-> <<>>, code |-> "entry_limit"] \in [path : Seq(Names), code : IssueCodes]
    BY DEF IssueCodes
  <2>3. issues' \in Seq([path : Seq(Names), code : IssueCodes])
    BY <1>0, <2>1, <2>2
  <2>4. BatchInv' /\ TreeInv'
    BY <2>1 DEF TypesInv, BatchInv, Entry, TreeInv, world
  <2> QED
    BY <1>0, <2>1, <2>3, <2>4 DEF TypesInv, ScanTypeOK, DirectoryRecords, DocumentRecords
<1>4. CASE ProcessEntry
  <2>1. Processes
    BY <1>4, ProcessKinds
  <2>2. /\ inspected' \in Nat /\ TreeInv' /\ current' \in DirectoryRecords'
        /\ request' \in Requests /\ returned' \in BOOLEAN
    BY <1>0, <2>1 DEF Processes, TypesInv, TreeInv, world, DirectoryRecords
  <2>3. BatchInv'
    <3>1. \A e : Entry(e)' <=> Entry(e)
      BY <2>1 DEF Processes, Entry
    <3>2. batch # <<>> /\ batch' = Tail(batch)
      BY <2>1 DEF Processes
    <3>3. /\ \E S : Tail(batch) \in Seq(S)
          /\ \A i \in DOMAIN Tail(batch) : i + 1 \in DOMAIN batch /\ Tail(batch)[i] = batch[i + 1]
          /\ \A i, j \in DOMAIN Tail(batch) :
                 Tail(batch)[i].name = Tail(batch)[j].name => i = j
      BY <3>2, BatchFacts
    <3>4. \A i \in DOMAIN batch : Entry(batch[i]) \/ batch[i] \in Strays
      BY DEF TypesInv, BatchInv
    <3> QED
      BY <3>1, <3>2, <3>3, <3>4 DEF BatchInv
  <2>4. ASSUME NEW e, Queues(e)
        PROVE  ScanTypeOK'
    <3>1. /\ e.path \in Seq(Names) /\ current.depth < request.max_depth
          /\ pending' = Append(pending, [path |-> e.path, depth |-> current.depth + 1])
          /\ UNCHANGED <<documents, issues, truncated>>
      BY <2>4 DEF Queues, Finds
    <3>2. current.depth + 1 \in 0 .. request.max_depth
      BY <1>0, <3>1 DEF DirectoryRecords
    <3>3. [path |-> e.path, depth |-> current.depth + 1] \in DirectoryRecords
      BY <3>1, <3>2 DEF DirectoryRecords
    <3>4. pending' \in Seq(DirectoryRecords)
      BY <1>0, <3>1, <3>3
    <3> QED
      BY <1>0, <2>1, <2>2, <3>1, <3>4 DEF ScanTypeOK, DirectoryRecords, DocumentRecords, Processes
  <2>5. ASSUME NEW e, Discovers(e)
        PROVE  ScanTypeOK'
    <3>1. documents' \in Seq(DocumentRecords) /\ UNCHANGED <<pending, issues, truncated>>
      BY <1>0, <2>5 DEF Discovers
    <3> QED
      BY <1>0, <2>1, <2>2, <3>1 DEF ScanTypeOK, DirectoryRecords, DocumentRecords, Processes
  <2>6. ASSUME NEW path, NEW code, Says(path, code)
        PROVE  ScanTypeOK'
    <3>1. [path |-> path, code |-> code] \in [path : Seq(Names), code : IssueCodes]
      BY <2>6 DEF Says
    <3>2. issues' \in Seq([path : Seq(Names), code : IssueCodes])
      BY <1>0, <2>6, <3>1 DEF Says, Note
    <3>3. truncated' \in BOOLEAN /\ UNCHANGED <<pending, documents>>
      BY <1>0, <2>6 DEF Says
    <3> QED
      BY <1>0, <2>1, <2>2, <3>2, <3>3 DEF ScanTypeOK, DirectoryRecords, DocumentRecords, Processes
  <2>7. ASSUME PassesOver
        PROVE  ScanTypeOK'
    BY <1>0, <2>1, <2>2, <2>7 DEF PassesOver, ScanTypeOK, DirectoryRecords, DocumentRecords, Processes
  <2>8. ScanTypeOK'
    BY <1>4, <2>4, <2>5, <2>6, <2>7, ProcessKinds
  <2> QED
    BY <2>2, <2>3, <2>8 DEF TypesInv
<1>5. CASE Return
  <2>1. returned' = TRUE /\ UNCHANGED <<world, request, pending, current, batch, results, faults>>
    BY <1>5 DEF Return
  <2>2. BatchInv' /\ TreeInv'
    BY <2>1 DEF TypesInv, BatchInv, Entry, TreeInv, world
  <2> QED
    BY <1>0, <2>1, <2>2 DEF TypesInv, ScanTypeOK, DirectoryRecords, DocumentRecords, results
<1>6. ASSUME NEW n \in Movable, NEW d \in Directories \cup {Nowhere}, NEW name \in Names,
             Move(n, d, name)
      PROVE  TypesInv'
  <2>1. /\ d \in Directories => \A m \in Nodes : place[m] # [dir |-> d, name |-> name]
        /\ place' = [place EXCEPT ![n] = [dir |-> d, name |-> name]]
        /\ UNCHANGED <<request, pending, current, batch, results, returned, faults>>
    BY <1>6 DEF Move
  <2>2. n \in Nodes
    BY TreeAssumption
  <2>3. place \in [Nodes -> [dir : Directories \cup {Nowhere}, name : Names]]
    BY DEF TypesInv, TreeInv
  <2>4. /\ place'[n] = [dir |-> d, name |-> name]
        /\ \A m \in Nodes : m # n => place'[m] = place[m]
    BY <2>1, <2>2, <2>3
  <2>5. place' \in [Nodes -> [dir : Directories \cup {Nowhere}, name : Names]]
    BY <2>1, <2>2, <2>3
  <2>6. ASSUME NEW m \in Nodes, NEW k \in Nodes, place'[m] = place'[k], place'[m].dir # Nowhere
        PROVE  m = k
    <3>1. CASE m # n /\ k # n
      BY <2>4, <2>6, <3>1 DEF TypesInv, TreeInv
    <3>2. CASE m = n /\ k # n
      <4>1. place[k] = [dir |-> d, name |-> name] /\ d # Nowhere
        BY <2>4, <2>6, <3>2
      <4> QED
        BY <2>1, <4>1
    <3>3. CASE m # n /\ k = n
      <4>1. place[m] = [dir |-> d, name |-> name] /\ d # Nowhere
        BY <2>4, <2>6, <3>3
      <4> QED
        BY <2>1, <4>1
    <3> QED
      BY <3>1, <3>2, <3>3
  <2>7. TreeInv'
    BY <2>5, <2>6 DEF TreeInv
  <2>8. BatchInv'
    BY <2>1 DEF TypesInv, BatchInv, Entry
  <2> QED
    BY <1>0, <2>1, <2>7, <2>8 DEF TypesInv, ScanTypeOK, DirectoryRecords, DocumentRecords, results
<1>7. CASE UNCHANGED vars
  <2>1. BatchInv' /\ TreeInv'
    BY <1>7 DEF TypesInv, BatchInv, Entry, TreeInv, world, vars
  <2> QED
    BY <1>0, <1>7, <2>1 DEF TypesInv, ScanTypeOK, DirectoryRecords, DocumentRecords, results, vars
<1> QED
  BY <1>1, <1>2, <1>3, <1>4, <1>5, <1>6, <1>7, UserMoves DEF Next, Scan

-----------------------------------------------------------------------------
(* The paths.                                                                *)

\* A directory that waits to be read or a document has the path.
Taken(path) ==
    \/ \E i \in DOMAIN pending : pending[i].path = path
    \/ \E i \in DOMAIN documents : documents[i].path = path

\* Nothing is known yet of what is directly in a directory that waits.
QueueInv ==
    /\ \A i, j \in DOMAIN pending : pending[i].path = pending[j].path => i = j
    /\ \A i \in DOMAIN pending, name \in Names : ~Taken(Append(pending[i].path, name))

\* The search goes level by level.
LevelsInv ==
    /\ \A i \in DOMAIN pending : /\ Len(current.path) <= Len(pending[i].path)
                                 /\ Len(pending[i].path) <= Len(current.path) + 1
    /\ \A i, j \in DOMAIN pending : i <= j => Len(pending[i].path) <= Len(pending[j].path)
    /\ \A i \in DOMAIN documents : Len(documents[i].path) <= Len(current.path) + 1

\* Nor of the entries of the directory that was read, as far as they are left.
CurrentInv ==
    batch # <<>> =>
        /\ \A i \in DOMAIN pending : pending[i].path # current.path
        /\ \A i \in DOMAIN batch :
               batch[i].name \in Names => ~Taken(Append(current.path, batch[i].name))

PathsInv == PathsDistinct /\ QueueInv /\ LevelsInv /\ CurrentInv

LEMMA PathFacts ==
    ASSUME TypesInv
    PROVE  /\ pending \in Seq(DirectoryRecords) /\ documents \in Seq(DocumentRecords)
           /\ \A i \in DOMAIN pending : pending[i].path \in Seq(Names)
           /\ \A i \in DOMAIN documents : documents[i].path \in Seq(Names)
           /\ current.path \in Seq(Names) /\ Len(current.path) \in Nat
<1>1. pending \in Seq(DirectoryRecords)
  BY DEF TypesInv, ScanTypeOK, DirectoryRecords
<1>2. documents \in Seq(DocumentRecords)
  BY DEF TypesInv, ScanTypeOK, DocumentRecords
<1>3. \A i \in DOMAIN pending : pending[i] \in DirectoryRecords
  BY <1>1
<1>4. \A i \in DOMAIN documents : documents[i] \in DocumentRecords
  BY <1>2
<1>5. current.path \in Seq(Names)
  BY DEF TypesInv, DirectoryRecords
<1>6. \A i \in DOMAIN pending : pending[i].path \in Seq(Names)
  BY <1>3 DEF DirectoryRecords
<1>7. \A i \in DOMAIN documents : documents[i].path \in Seq(Names)
  BY <1>4 DEF DocumentRecords
<1> QED
  BY <1>1, <1>2, <1>5, <1>6, <1>7, LenProperties

LEMMA AppendDistinct ==
    ASSUME NEW p \in Seq(Names), NEW q \in Seq(Names), NEW m \in Names, NEW n \in Names,
           Append(p, m) = Append(q, n)
    PROVE  p = q /\ m = n
<1>1. /\ Len(Append(p, m)) = Len(p) + 1 /\ Append(p, m)[Len(p) + 1] = m
      /\ \A i \in 1 .. Len(p) : Append(p, m)[i] = p[i]
  BY AppendProperties
<1>2. /\ Len(Append(q, n)) = Len(q) + 1 /\ Append(q, n)[Len(q) + 1] = n
      /\ \A i \in 1 .. Len(q) : Append(q, n)[i] = q[i]
  BY AppendProperties
<1>3. Len(p) \in Nat /\ Len(q) \in Nat
  BY LenProperties
<1>4. Len(p) = Len(q)
  BY <1>1, <1>2, <1>3
<1>5. \A i \in 1 .. Len(p) : p[i] = q[i]
  BY <1>1, <1>2, <1>4
<1>6. m = n
  BY <1>1, <1>2, <1>4
<1> QED
  BY <1>4, <1>5, <1>6, SeqEqual

\* Directories and entries that are taken away break nothing.
LEMMA PathsKept ==
    ASSUME TypesInv, PathsInv, UNCHANGED <<documents, current>>,
           pending' = pending \/ (pending # <<>> /\ pending' = Tail(pending)),
           batch' = batch \/ (batch # <<>> /\ batch' = Tail(batch))
    PROVE  PathsInv'
<1>1. PICK o \in {0, 1} : \A i \in DOMAIN pending' :
          i \in Nat /\ i + o \in DOMAIN pending /\ pending'[i] = pending[i + o]
  <2>1. pending \in Seq(DirectoryRecords)
    BY PathFacts
  <2>2. CASE pending' = pending
    <3>1. \A i \in DOMAIN pending : i \in Nat /\ i + 0 = i
      BY <2>1
    <3> QED
      BY <2>2, <3>1
  <2>3. CASE pending # <<>> /\ pending' = Tail(pending)
    <3>1. \A i \in DOMAIN Tail(pending) :
              i \in Nat /\ i + 1 \in DOMAIN pending /\ Tail(pending)[i] = pending[i + 1]
      BY <2>1, <2>3
    <3> QED
      BY <2>3, <3>1
  <2> QED
    BY <2>2, <2>3
<1>2. ASSUME NEW path, Taken(path)'
      PROVE  Taken(path)
  BY <1>1, <1>2 DEF Taken
<1>3. batch' # <<>> => batch # <<>>
  OBVIOUS
<1>4. \A i \in DOMAIN batch' : batch' # <<>> => \E k \in DOMAIN batch : batch'[i] = batch[k]
  <2>1. CASE batch # <<>> /\ batch' = Tail(batch)
    BY <2>1, BatchFacts
  <2> QED
    BY <2>1
<1>5. PathsDistinct'
  BY DEF PathsInv, PathsDistinct
<1>6. QueueInv'
  <2>1. ASSUME NEW i \in DOMAIN pending', NEW j \in DOMAIN pending',
               pending'[i].path = pending'[j].path
        PROVE  i = j
    <3>1. i + o = j + o
      BY <1>1, <2>1 DEF PathsInv, QueueInv
    <3> QED
      BY <1>1, <3>1
  <2>2. ASSUME NEW i \in DOMAIN pending', NEW name \in Names
        PROVE  ~Taken(Append(pending[i].path, name))'
    <3>1. PICK path : path = Append(pending'[i].path, name)
      OBVIOUS
    <3>2. ~Taken(path)
      BY <1>1, <3>1 DEF PathsInv, QueueInv
    <3>3. ~Taken(path)'
      BY <1>2, <3>2
    <3> QED
      BY <3>1, <3>3 DEF Taken
  <2> QED
    BY <2>1, <2>2 DEF QueueInv
<1>7. LevelsInv'
  <2>1. ASSUME NEW i \in DOMAIN pending', NEW j \in DOMAIN pending', i <= j
        PROVE  Len(pending'[i].path) <= Len(pending'[j].path)
    <3>1. i + o <= j + o
      BY <1>1, <2>1
    <3> QED
      BY <1>1, <3>1 DEF PathsInv, LevelsInv
  <2>2. ASSUME NEW i \in DOMAIN pending'
        PROVE  /\ Len(current'.path) <= Len(pending'[i].path)
               /\ Len(pending'[i].path) <= Len(current'.path) + 1
    BY <1>1 DEF PathsInv, LevelsInv
  <2> QED
    BY <2>1, <2>2 DEF PathsInv, LevelsInv
<1>8. CurrentInv'
  <2> SUFFICES ASSUME batch' # <<>>
               PROVE  /\ \A i \in DOMAIN pending' : pending'[i].path # current'.path
                      /\ \A i \in DOMAIN batch' : batch'[i].name \in Names =>
                             ~Taken(Append(current.path, batch[i].name))'
    BY DEF CurrentInv
  <2>1. \A i \in DOMAIN pending' : pending'[i].path # current'.path
    BY <1>1, <1>3 DEF PathsInv, CurrentInv
  <2>2. ASSUME NEW i \in DOMAIN batch', batch'[i].name \in Names
        PROVE  ~Taken(Append(current.path, batch[i].name))'
    <3>1. PICK path : path = Append(current'.path, batch'[i].name)
      OBVIOUS
    <3>2. ~Taken(path)
      BY <1>3, <1>4, <2>2, <3>1 DEF PathsInv, CurrentInv
    <3>3. ~Taken(path)'
      BY <1>2, <3>2
    <3> QED
      BY <3>1, <3>3 DEF Taken
  <2> QED
    BY <2>1, <2>2
<1> QED
  BY <1>5, <1>6, <1>7, <1>8 DEF PathsInv

LEMMA PathsRead ==
    ASSUME TypesInv, PathsInv, pending # <<>>, current' = Head(pending),
           pending' = Tail(pending), documents' = documents
    PROVE  PathsInv'
<1>1. /\ 1 \in DOMAIN pending /\ current' = pending[1]
      /\ \A i \in DOMAIN pending' : /\ i \in Nat /\ i + 1 \in DOMAIN pending
                                    /\ pending'[i] = pending[i + 1]
                                    /\ i + 1 # 1 /\ 1 <= i + 1
  BY PathFacts
<1>2. ASSUME NEW path, Taken(path)'
      PROVE  Taken(path)
  BY <1>1, <1>2 DEF Taken
<1>3. \A i, j \in DOMAIN pending' : i + 1 = j + 1 => i = j
  BY <1>1
<1>4. \A i, j \in DOMAIN pending' : i <= j => i + 1 <= j + 1
  BY <1>1
<1>5. PathsDistinct'
  BY DEF PathsInv, PathsDistinct
<1>6. QueueInv'
  <2>1. \A i, j \in DOMAIN pending' : pending'[i].path = pending'[j].path => i = j
    BY <1>1, <1>3 DEF PathsInv, QueueInv
  <2>2. ASSUME NEW i \in DOMAIN pending', NEW name \in Names
        PROVE  ~Taken(Append(pending[i].path, name))'
    <3>1. PICK path : path = Append(pending'[i].path, name)
      OBVIOUS
    <3>2. ~Taken(path)
      BY <1>1, <3>1 DEF PathsInv, QueueInv
    <3>3. ~Taken(path)'
      BY <1>2, <3>2
    <3> QED
      BY <3>1, <3>3 DEF Taken
  <2> QED
    BY <2>1, <2>2 DEF QueueInv
<1>7. LevelsInv'
  <2> DEFINE len(i) == Len(pending[i].path)
  <2>1. \A i \in DOMAIN pending : len(i) \in Nat
    BY PathFacts, LenProperties
  <2>2. \A i \in DOMAIN documents : Len(documents[i].path) \in Nat
    BY PathFacts, LenProperties
  <2>3. /\ Len(current.path) \in Nat
        /\ \A i \in DOMAIN pending : Len(current.path) <= len(i) /\ len(i) <= Len(current.path) + 1
        /\ \A i, j \in DOMAIN pending : i <= j => len(i) <= len(j)
        /\ \A i \in DOMAIN documents : Len(documents[i].path) <= Len(current.path) + 1
    BY PathFacts DEF PathsInv, LevelsInv
  <2>4. Len(current'.path) = len(1) /\ \A i \in DOMAIN pending' : Len(pending'[i].path) = len(i + 1)
    BY <1>1
  <2> HIDE DEF len
  <2>5. \A i \in DOMAIN pending' : len(1) <= len(i + 1) /\ len(i + 1) <= len(1) + 1
    BY <1>1, <2>1, <2>3
  <2>6. \A i, j \in DOMAIN pending' : i <= j => len(i + 1) <= len(j + 1)
    BY <1>1, <1>4, <2>3
  <2>7. \A i \in DOMAIN documents : Len(documents[i].path) <= len(1) + 1
    BY <1>1, <2>1, <2>2, <2>3
  <2> QED
    BY <2>4, <2>5, <2>6, <2>7 DEF LevelsInv
<1>8. CurrentInv'
  <2>1. \A i \in DOMAIN pending' : pending'[i].path # current'.path
    BY <1>1 DEF PathsInv, QueueInv
  <2>2. ASSUME NEW i \in DOMAIN batch', batch'[i].name \in Names
        PROVE  ~Taken(Append(current.path, batch[i].name))'
    <3>1. PICK path : path = Append(current'.path, batch'[i].name)
      OBVIOUS
    <3>2. ~Taken(path)
      BY <1>1, <2>2, <3>1 DEF PathsInv, QueueInv
    <3>3. ~Taken(path)'
      BY <1>2, <3>2
    <3> QED
      BY <3>1, <3>3 DEF Taken
  <2> QED
    BY <2>1, <2>2 DEF CurrentInv
<1> QED
  BY <1>5, <1>6, <1>7, <1>8 DEF PathsInv

\* The path of the next entry is new, nothing below it is known, and no entry
\* behind it has it.
LEMMA NewPath ==
    ASSUME TypesInv, PathsInv, Processes, NEW e, Finds(e)
    PROVE  /\ e.path \in Seq(Names) /\ Len(e.path) = Len(current.path) + 1
           /\ ~Taken(e.path)
           /\ \A name \in Names : ~Taken(Append(e.path, name)) /\ Append(e.path, name) # e.path
           /\ \A i \in DOMAIN pending, name \in Names : Append(pending[i].path, name) # e.path
           /\ e.path # current.path
           /\ batch' # <<>> =>
                  \A i \in DOMAIN batch' : batch'[i].name \in Names =>
                      /\ ~Taken(Append(current.path, batch'[i].name))
                      /\ Append(current.path, batch'[i].name) # e.path
<1>1. /\ e = Head(batch) /\ e.name \in Names /\ e.path = Append(current.path, e.name)
      /\ e.path \in Seq(Names)
  BY DEF Finds
<1>2. batch # <<>> /\ batch' = Tail(batch)
  BY DEF Processes
<1>3. e = batch[1] /\ 1 \in DOMAIN batch
  BY <1>1, <1>2, BatchFacts
<1>4. /\ \A i \in DOMAIN pending : pending[i].path # current.path
      /\ \A i \in DOMAIN batch :
             batch[i].name \in Names => ~Taken(Append(current.path, batch[i].name))
  BY <1>2 DEF PathsInv, CurrentInv
<1>5. /\ current.path \in Seq(Names) /\ Len(current.path) \in Nat
      /\ \A i \in DOMAIN pending : pending[i].path \in Seq(Names)
      /\ \A i \in DOMAIN documents : documents[i].path \in Seq(Names)
  BY PathFacts
<1>6. Len(e.path) = Len(current.path) + 1
  BY <1>1, <1>5, AppendProperties
<1>7. ~Taken(e.path)
  BY <1>1, <1>3, <1>4
<1>8. ASSUME NEW path \in Seq(Names), Taken(path)
      PROVE  Len(path) <= Len(current.path) + 1
  BY <1>8 DEF Taken, PathsInv, LevelsInv
<1>9. ASSUME NEW name \in Names
      PROVE  ~Taken(Append(e.path, name)) /\ Append(e.path, name) # e.path
  <2>1. Append(e.path, name) \in Seq(Names) /\ Len(Append(e.path, name)) = Len(e.path) + 1
    BY <1>1, AppendProperties
  <2>2. ~(Len(Append(e.path, name)) <= Len(current.path) + 1)
    BY <1>5, <1>6, <2>1
  <2>3. Len(Append(e.path, name)) # Len(e.path)
    BY <1>5, <1>6, <2>1
  <2> QED
    BY <1>8, <2>1, <2>2, <2>3
<1>10. ASSUME NEW i \in DOMAIN pending, NEW name \in Names
       PROVE  Append(pending[i].path, name) # e.path
  <2>1. PICK path \in Seq(Names) : path = pending[i].path /\ path # current.path
    BY <1>4, <1>5
  <2>2. Append(path, name) = Append(current.path, e.name) => path = current.path
    BY <1>1, <1>5, AppendDistinct
  <2> QED
    BY <1>1, <2>1, <2>2
<1>11. e.path # current.path
  BY <1>5, <1>6
<1>12. ASSUME batch' # <<>>, NEW i \in DOMAIN batch', batch'[i].name \in Names
       PROVE  /\ ~Taken(Append(current.path, batch'[i].name))
              /\ Append(current.path, batch'[i].name) # e.path
  <2>1. /\ i + 1 \in DOMAIN batch /\ batch'[i] = batch[i + 1]
        /\ batch'[i].name # e.name
    BY <1>1, <1>2, <1>12, BatchFacts
  <2>2. ~Taken(Append(current.path, batch'[i].name))
    BY <1>4, <1>12, <2>1
  <2>3. Append(current.path, batch'[i].name) # e.path
    BY <1>1, <1>5, <1>12, <2>1, AppendDistinct
  <2> QED
    BY <2>2, <2>3
<1> QED
  BY <1>1, <1>6, <1>7, <1>9, <1>10, <1>11, <1>12

LEMMA PathsQueue ==
    ASSUME TypesInv, PathsInv, Processes, NEW e, Queues(e)
    PROVE  PathsInv'
<1> DEFINE rec == [path |-> e.path, depth |-> current.depth + 1]
           N == Len(pending)
<1>1. Finds(e) /\ pending' = Append(pending, rec) /\ documents' = documents /\ current' = current
  BY DEF Queues, Processes
<1>2. /\ e.path \in Seq(Names) /\ Len(e.path) = Len(current.path) + 1
      /\ ~Taken(e.path)
      /\ \A name \in Names : ~Taken(Append(e.path, name)) /\ Append(e.path, name) # e.path
      /\ \A i \in DOMAIN pending, name \in Names : Append(pending[i].path, name) # e.path
      /\ e.path # current.path
      /\ batch' # <<>> =>
             \A i \in DOMAIN batch' : batch'[i].name \in Names =>
                 /\ ~Taken(Append(current.path, batch'[i].name))
                 /\ Append(current.path, batch'[i].name) # e.path
  BY <1>1, NewPath
<1>3. /\ N \in Nat /\ DOMAIN pending = 1 .. N /\ DOMAIN pending' = 1 .. N + 1
      /\ \A i \in 1 .. N : pending'[i] = pending[i]
      /\ pending'[N + 1] = rec /\ rec.path = e.path
  <2>1. pending \in Seq(DirectoryRecords \cup {rec})
    BY PathFacts
  <2> HIDE DEF rec
  <2>2. /\ pending' \in Seq(DirectoryRecords \cup {rec}) /\ Len(pending') = Len(pending) + 1
        /\ \A i \in 1 .. Len(pending) : pending'[i] = pending[i]
        /\ pending'[Len(pending) + 1] = rec
    BY <1>1, <2>1, AppendProperties
  <2> QED
    BY <2>1, <2>2 DEF rec
<1> HIDE DEF rec, N
<1>4. ASSUME NEW path, Taken(path)'
      PROVE  Taken(path) \/ path = e.path
  BY <1>1, <1>3, <1>4 DEF Taken
<1>5. PathsDistinct'
  BY <1>1 DEF PathsInv, PathsDistinct
<1>6. QueueInv'
  <2>1. ASSUME NEW i \in DOMAIN pending', NEW j \in DOMAIN pending',
               pending'[i].path = pending'[j].path
        PROVE  i = j
    <3>1. CASE i \in 1 .. N /\ j \in 1 .. N
      BY <1>3, <2>1, <3>1 DEF PathsInv, QueueInv
    <3>2. \A k \in 1 .. N : pending[k].path # e.path
      BY <1>2, <1>3 DEF Taken
    <3>3. CASE i = N + 1 \/ j = N + 1
      BY <1>3, <2>1, <3>2, <3>3
    <3> QED
      BY <1>3, <3>1, <3>3
  <2>2. ASSUME NEW i \in DOMAIN pending', NEW name \in Names
        PROVE  ~Taken(Append(pending[i].path, name))'
    <3>1. PICK path : path = Append(pending'[i].path, name)
      OBVIOUS
    <3>2. ~Taken(path) /\ path # e.path
      <4>1. CASE i \in 1 .. N
        BY <1>2, <1>3, <3>1, <4>1 DEF PathsInv, QueueInv
      <4>2. CASE i = N + 1
        BY <1>2, <1>3, <3>1, <4>2
      <4> QED
        BY <1>3, <4>1, <4>2
    <3>3. ~Taken(path)'
      BY <1>4, <3>2
    <3> QED
      BY <3>1, <3>3 DEF Taken
  <2> QED
    BY <2>1, <2>2 DEF QueueInv
<1>7. LevelsInv'
  <2>1. \A i \in DOMAIN pending : Len(pending[i].path) \in Nat
    BY PathFacts, LenProperties
  <2>2. /\ Len(current.path) \in Nat
        /\ \A i \in DOMAIN pending : /\ Len(current.path) <= Len(pending[i].path)
                                     /\ Len(pending[i].path) <= Len(current.path) + 1
        /\ \A i, j \in DOMAIN pending : i <= j => Len(pending[i].path) <= Len(pending[j].path)
        /\ \A i \in DOMAIN documents : Len(documents[i].path) <= Len(current.path) + 1
    BY PathFacts DEF PathsInv, LevelsInv
  <2>3. \A i \in DOMAIN pending' : /\ Len(current.path) <= Len(pending'[i].path)
                                   /\ Len(pending'[i].path) <= Len(current.path) + 1
    BY <1>2, <1>3, <2>2
  <2>4. ASSUME NEW i \in DOMAIN pending', NEW j \in DOMAIN pending', i <= j
        PROVE  Len(pending'[i].path) <= Len(pending'[j].path)
    <3>1. CASE j \in 1 .. N
      <4>1. i \in 1 .. N
        BY <1>3, <2>4, <3>1
      <4> QED
        BY <1>3, <2>2, <2>4, <3>1, <4>1
    <3>2. CASE j = N + 1
      BY <1>2, <1>3, <2>3, <3>2
    <3> QED
      BY <1>3, <3>1, <3>2
  <2> QED
    BY <1>1, <2>2, <2>3, <2>4 DEF LevelsInv
<1>8. CurrentInv'
  <2>1. batch # <<>>
    BY DEF Processes
  <2>2. \A i \in DOMAIN pending' : pending'[i].path # current'.path
    BY <1>1, <1>2, <1>3, <2>1 DEF PathsInv, CurrentInv
  <2>3. ASSUME batch' # <<>>, NEW i \in DOMAIN batch', batch'[i].name \in Names
        PROVE  ~Taken(Append(current.path, batch[i].name))'
    <3>1. PICK path : path = Append(current'.path, batch'[i].name)
      OBVIOUS
    <3>2. ~Taken(path) /\ path # e.path
      BY <1>1, <1>2, <2>3, <3>1
    <3>3. ~Taken(path)'
      BY <1>4, <3>2
    <3> QED
      BY <3>1, <3>3 DEF Taken
  <2> QED
    BY <2>2, <2>3 DEF CurrentInv
<1> QED
  BY <1>5, <1>6, <1>7, <1>8 DEF PathsInv

LEMMA PathsDiscover ==
    ASSUME TypesInv, PathsInv, Processes, NEW e, Discovers(e)
    PROVE  PathsInv'
<1> DEFINE N == Len(documents)
<1>1. /\ Finds(e) /\ e \in DocumentRecords /\ documents' = Append(documents, e)
      /\ pending' = pending /\ current' = current
  BY DEF Discovers, Processes
<1>2. /\ e.path \in Seq(Names) /\ Len(e.path) = Len(current.path) + 1
      /\ ~Taken(e.path)
      /\ \A i \in DOMAIN pending, name \in Names : Append(pending[i].path, name) # e.path
      /\ batch' # <<>> =>
             \A i \in DOMAIN batch' : batch'[i].name \in Names =>
                 /\ ~Taken(Append(current.path, batch'[i].name))
                 /\ Append(current.path, batch'[i].name) # e.path
  BY <1>1, NewPath
<1>3. /\ N \in Nat /\ DOMAIN documents = 1 .. N /\ DOMAIN documents' = 1 .. N + 1
      /\ Len(documents') = N + 1
      /\ \A i \in 1 .. N : documents'[i] = documents[i]
      /\ documents'[N + 1] = e
  <2>1. documents \in Seq(DocumentRecords)
    BY PathFacts
  <2>2. /\ documents' \in Seq(DocumentRecords) /\ Len(documents') = Len(documents) + 1
        /\ \A i \in 1 .. Len(documents) : documents'[i] = documents[i]
        /\ documents'[Len(documents) + 1] = e
    BY <1>1, <2>1, AppendProperties
  <2> QED
    BY <2>1, <2>2
<1> HIDE DEF N
<1>4. ASSUME NEW path, Taken(path)'
      PROVE  Taken(path) \/ path = e.path
  BY <1>1, <1>3, <1>4 DEF Taken
<1>5. PathsDistinct'
  <2>1. \A i, j \in 1 .. N : documents[i].path = documents[j].path => i = j
    BY DEF PathsInv, PathsDistinct, N
  <2>2. \A k \in 1 .. N : documents[k].path # e.path
    BY <1>2, <1>3 DEF Taken
  <2>3. ASSUME NEW i \in 1 .. N + 1, NEW j \in 1 .. N + 1,
               documents'[i].path = documents'[j].path
        PROVE  i = j
    <3>1. CASE i \in 1 .. N /\ j \in 1 .. N
      BY <1>3, <2>1, <2>3, <3>1
    <3>2. CASE i = N + 1 \/ j = N + 1
      BY <1>3, <2>2, <2>3, <3>2
    <3> QED
      BY <1>3, <3>1, <3>2
  <2> QED
    BY <1>3, <2>3 DEF PathsDistinct
<1>6. QueueInv'
  <2>1. ASSUME NEW i \in DOMAIN pending, NEW name \in Names
        PROVE  ~Taken(Append(pending[i].path, name))'
    <3>1. PICK path : path = Append(pending'[i].path, name)
      OBVIOUS
    <3>2. ~Taken(path) /\ path # e.path
      BY <1>1, <1>2, <3>1 DEF PathsInv, QueueInv
    <3>3. ~Taken(path)'
      BY <1>4, <3>2
    <3> QED
      BY <3>1, <3>3 DEF Taken
  <2> QED
    BY <1>1, <2>1 DEF PathsInv, QueueInv
<1>7. LevelsInv'
  <2>1. Len(current.path) \in Nat
    BY PathFacts
  <2>2. \A i \in DOMAIN documents' : Len(documents'[i].path) <= Len(current.path) + 1
    BY <1>2, <1>3, <2>1 DEF PathsInv, LevelsInv
  <2> QED
    BY <1>1, <2>2 DEF PathsInv, LevelsInv
<1>8. CurrentInv'
  <2>1. batch # <<>>
    BY DEF Processes
  <2>2. \A i \in DOMAIN pending' : pending'[i].path # current'.path
    BY <1>1, <2>1 DEF PathsInv, CurrentInv
  <2>3. ASSUME batch' # <<>>, NEW i \in DOMAIN batch', batch'[i].name \in Names
        PROVE  ~Taken(Append(current.path, batch[i].name))'
    <3>1. PICK path : path = Append(current'.path, batch'[i].name)
      OBVIOUS
    <3>2. ~Taken(path) /\ path # e.path
      BY <1>1, <1>2, <2>3, <3>1
    <3>3. ~Taken(path)'
      BY <1>4, <3>2
    <3> QED
      BY <3>1, <3>3 DEF Taken
  <2> QED
    BY <2>2, <2>3 DEF CurrentInv
<1> QED
  BY <1>5, <1>6, <1>7, <1>8 DEF PathsInv

LEMMA PathsStep ==
    ASSUME TypesInv, PathsInv, [Next]_vars
    PROVE  PathsInv'
<1>1. CASE ReadDirectory
  BY <1>1, PathsRead DEF ReadDirectory, NextDirectory, results
<1>2. CASE SkipUnreadable
  BY <1>2, PathsKept DEF SkipUnreadable, NextDirectory
<1>3. CASE EntryLimit
  BY <1>3, PathsKept DEF EntryLimit
<1>4. CASE ProcessEntry
  <2>1. Processes
    BY <1>4, ProcessKinds
  <2>2. current' = current /\ batch # <<>> /\ batch' = Tail(batch)
    BY <2>1 DEF Processes
  <2>3. ASSUME NEW path, NEW code, Says(path, code)
        PROVE  PathsInv'
    BY <2>2, <2>3, PathsKept DEF Says
  <2>4. ASSUME PassesOver
        PROVE  PathsInv'
    BY <2>2, <2>4, PathsKept DEF PassesOver
  <2> QED
    BY <1>4, <2>1, <2>3, <2>4, PathsQueue, PathsDiscover, ProcessKinds
<1>5. CASE Return
  BY <1>5, PathsKept DEF Return, results
<1>6. CASE User
  BY <1>6, UserMoves, PathsKept DEF Move, results
<1>7. CASE UNCHANGED vars
  BY <1>7, PathsKept DEF vars, results
<1> QED
  BY <1>1, <1>2, <1>3, <1>4, <1>5, <1>6, <1>7 DEF Next, Scan

-----------------------------------------------------------------------------
(* The limits of the request.                                                *)

LEMMA NoteFacts ==
    ASSUME TypesInv, LimitsRespected, ~truncated, NEW path \in Seq(Names), NEW code \in IssueCodes,
           Note(path, code), truncated' \in BOOLEAN, truncated' <=> code \in LimitCodes
    PROVE  /\ \A i \in 1 .. Len(issues') :
                  issues'[i].code \in LimitCodes <=> truncated' /\ i = Len(issues')
           /\ issues' # <<>>
           /\ Last(issues').code = code /\ Last(issues').path = path
<1>1. issues \in Seq([path : Seq(Names), code : IssueCodes])
  BY DEF TypesInv, ScanTypeOK
<1>2. PICK note \in [path : Seq(Names), code : IssueCodes] : note = [path |-> path, code |-> code]
  OBVIOUS
<1>3. issues' = Append(issues, note) /\ note.code = code /\ note.path = path
  BY <1>2 DEF Note
<1>4. /\ Len(issues') = Len(issues) + 1 /\ issues'[Len(issues) + 1] = note
      /\ \A i \in 1 .. Len(issues) : issues'[i] = issues[i]
      /\ Len(issues) \in Nat /\ issues' # <<>>
  <2>1. issues' \in Seq([path : Seq(Names), code : IssueCodes]) /\ Len(issues) \in Nat
    BY <1>1, <1>3, AppendProperties
  <2>2. /\ Len(issues') = Len(issues) + 1 /\ issues'[Len(issues) + 1] = note
        /\ \A i \in 1 .. Len(issues) : issues'[i] = issues[i]
    BY <1>1, <1>3, AppendProperties
  <2> QED
    BY <2>1, <2>2
<1>5. ASSUME NEW i \in 1 .. Len(issues')
      PROVE  issues'[i].code \in LimitCodes <=> truncated' /\ i = Len(issues')
  <2>1. CASE i = Len(issues) + 1
    BY <1>3, <1>4, <2>1
  <2>2. CASE i # Len(issues) + 1
    <3>1. i \in 1 .. Len(issues) /\ i # Len(issues')
      BY <1>4, <2>2
    <3>2. issues'[i].code \notin LimitCodes
      BY <1>4, <3>1 DEF LimitsRespected
    <3> QED
      BY <3>1, <3>2
  <2> QED
    BY <2>1, <2>2
<1>6. Last(issues') = note
  BY <1>4 DEF Last
<1> QED
  BY <1>3, <1>4, <1>5, <1>6

\* What is said when a limit is met.
LEMMA LimitSaid ==
    ASSUME TypesInv, LimitsRespected, ~truncated, NEW path \in Seq(Names), NEW code \in IssueCodes,
           Note(path, code), truncated' \in BOOLEAN, truncated' <=> code \in LimitCodes,
           inspected' <= request'.max_entries, Len(documents') <= request'.max_documents,
           code = "entry_limit" => EntryLimitMet', code = "document_limit" => DocumentLimitMet(path)'
    PROVE  LimitsRespected'
<1>1. /\ \A i \in 1 .. Len(issues') :
             issues'[i].code \in LimitCodes <=> truncated' /\ i = Len(issues')
      /\ issues' # <<>>
      /\ Last(issues').code = code /\ Last(issues').path = path
  BY NoteFacts
<1>2. Last(issues').code = "entry_limit" => EntryLimitMet'
  BY <1>1
<1>3. (Last(issues).code = "document_limit" => DocumentLimitMet(Last(issues).path))'
  BY <1>1 DEF DocumentLimitMet
<1> QED
  BY <1>1, <1>2, <1>3 DEF LimitsRespected

LEMMA LimitsUndisturbed ==
    ASSUME LimitsRespected, UNCHANGED <<request, batch, documents, issues, inspected, truncated>>
    PROVE  LimitsRespected'
BY DEF LimitsRespected, EntryLimitMet, DocumentLimitMet

LEMMA LimitsStep ==
    ASSUME TypesInv, PathsInv, LimitsRespected, [Next]_vars
    PROVE  LimitsRespected'
<1>0. /\ request.max_entries \in Nat /\ inspected \in Nat /\ request.max_documents \in Nat
      /\ documents \in Seq(DocumentRecords) /\ pending \in Seq(DirectoryRecords)
      /\ truncated \in BOOLEAN
  <2>1. request.max_entries \in Nat /\ inspected \in Nat /\ truncated \in BOOLEAN
    BY RequestsAssumption DEF TypesInv, ScanTypeOK
  <2>2. request.max_documents \in Nat
    BY RequestsAssumption DEF TypesInv, ScanTypeOK
  <2>3. documents \in Seq(DocumentRecords)
    BY DEF TypesInv, ScanTypeOK, DocumentRecords
  <2>4. pending \in Seq(DirectoryRecords)
    BY DEF TypesInv, ScanTypeOK, DirectoryRecords
  <2> QED
    BY <2>1, <2>2, <2>3, <2>4
<1>1. CASE ReadDirectory
  <2>1. ~truncated /\ UNCHANGED <<request, documents, issues, inspected, truncated>>
    BY <1>1 DEF ReadDirectory, NextDirectory, results
  <2> QED
    BY <2>1 DEF LimitsRespected
<1>2. CASE SkipUnreadable
  <2>1. /\ pending # <<>> /\ ~truncated /\ Note(Head(pending).path, "inaccessible")
        /\ UNCHANGED <<request, batch, documents, inspected, truncated>>
    BY <1>2 DEF SkipUnreadable, NextDirectory, UnreadableDirectory
  <2>2. Head(pending).path \in Seq(Names)
    <3>1. Head(pending) \in DirectoryRecords
      BY <1>0, <2>1
    <3> QED
      BY <3>1 DEF DirectoryRecords
  <2>3. "inaccessible" \in IssueCodes /\ "inaccessible" \notin LimitCodes
    BY DEF IssueCodes, LimitCodes
  <2>4. inspected' <= request'.max_entries /\ Len(documents') <= request'.max_documents
    BY <2>1 DEF LimitsRespected
  <2> QED
    BY <1>0, <2>1, <2>2, <2>3, <2>4, LimitSaid
<1>3. CASE EntryLimit
  <2>1. /\ batch # <<>> /\ ~truncated /\ inspected >= request.max_entries
        /\ truncated' = TRUE /\ Note(<<>>, "entry_limit")
        /\ UNCHANGED <<request, documents, inspected, batch>>
    BY <1>3 DEF EntryLimit, NextEntry
  <2>2. "entry_limit" \in IssueCodes /\ "entry_limit" \in LimitCodes /\ <<>> \in Seq(Names)
    BY DEF IssueCodes, LimitCodes
  <2>3. inspected' <= request'.max_entries /\ Len(documents') <= request'.max_documents
    BY <2>1 DEF LimitsRespected
  <2>4. EntryLimitMet'
    <3>1. inspected = request.max_entries
      BY <1>0, <2>1 DEF LimitsRespected
    <3> QED
      BY <2>1, <3>1 DEF EntryLimitMet
  <2> QED
    BY <2>1, <2>2, <2>3, <2>4, LimitSaid
<1>4. CASE ProcessEntry
  <2>1. Processes
    BY <1>4, ProcessKinds
  <2>2. /\ ~truncated /\ Len(documents) <= request.max_documents
        /\ inspected' <= request'.max_entries /\ UNCHANGED request
    BY <1>0, <2>1 DEF Processes, LimitsRespected
  <2>3. ASSUME NEW e, Queues(e)
        PROVE  LimitsRespected'
    BY <2>2, <2>3 DEF Queues, LimitsRespected
  <2>4. ASSUME NEW e, Discovers(e)
        PROVE  LimitsRespected'
    <3>1. Len(documents') <= request'.max_documents
      BY <1>0, <2>2, <2>4 DEF Discovers
    <3> QED
      BY <2>2, <2>4, <3>1 DEF Discovers, LimitsRespected
  <2>5. ASSUME NEW path, NEW code, Says(path, code)
        PROVE  LimitsRespected'
    <3>1. code \in IssueCodes /\ code # "entry_limit"
          /\ (code \in LimitCodes <=> code = "document_limit")
      BY <2>5 DEF Says, IssueCodes, LimitCodes
    <3>2. truncated' \in BOOLEAN /\ (truncated' <=> code \in LimitCodes)
      <4>1. CASE code = "document_limit"
        BY <2>5, <3>1, <4>1 DEF Says
      <4>2. CASE code # "document_limit"
        <5>1. truncated' = FALSE
          BY <1>0, <2>2, <2>5, <4>2 DEF Says
        <5> QED
          BY <3>1, <4>2, <5>1
      <4> QED
        BY <4>1, <4>2
    <3>3. path \in Seq(Names) /\ Note(path, code) /\ documents' = documents
      BY <2>5 DEF Says
    <3>4. ASSUME code = "document_limit"
          PROVE  DocumentLimitMet(path)'
      <4>1. PICK e : Finds(e) /\ e.path = path
        BY <2>5, <3>4 DEF Says
      <4>2. Len(documents) = request.max_documents
        <5>1. Len(documents) >= request.max_documents
          BY <2>5, <3>4 DEF Says
        <5> QED
          BY <1>0, <2>2, <5>1
      <4>3. ~Taken(path)
        BY <2>1, <4>1, NewPath
      <4>4. \A i \in 1 .. Len(documents) : documents[i].path # path
        BY <1>0, <4>3 DEF Taken
      <4> QED
        BY <2>2, <3>3, <4>2, <4>4 DEF DocumentLimitMet
    <3> QED
      BY <2>2, <3>1, <3>2, <3>3, <3>4, LimitSaid
  <2>6. ASSUME PassesOver
        PROVE  LimitsRespected'
    BY <2>2, <2>6 DEF PassesOver, LimitsRespected
  <2> QED
    BY <1>4, <2>3, <2>4, <2>5, <2>6, ProcessKinds
<1>5. CASE Return
  BY <1>5, LimitsUndisturbed DEF Return, results
<1>6. CASE User
  BY <1>6, UserMoves, LimitsUndisturbed DEF Move, results
<1>7. CASE UNCHANGED vars
  BY <1>7, LimitsUndisturbed DEF vars, results
<1> QED
  BY <1>1, <1>2, <1>3, <1>4, <1>5, <1>6, <1>7 DEF Next, Scan

-----------------------------------------------------------------------------
(* The theorems.                                                             *)

ScanInv == TypesInv /\ LimitsRespected /\ PathsInv

LEMMA ScanInit == Init => ScanInv
<1> SUFFICES ASSUME Init
             PROVE  ScanInv
  OBVIOUS
<1>1. Top.path = <<>> /\ Top.depth = 0 /\ <<>> \in Seq(Names) /\ Len(<<>>) = 0
  BY DEF Top
<1>2. request \in Requests /\ request.max_depth \in 0 .. 64 /\ request.max_documents \in Nat
      /\ request.max_entries \in Nat
  BY RequestsAssumption DEF Init
<1>3. Top \in DirectoryRecords
  <2>1. 0 \in 0 .. request.max_depth
    <3>1. request.max_depth \in Nat
      BY <1>2
    <3> QED
      BY <3>1
  <2> QED
    BY <2>1 DEF Top, DirectoryRecords
<1>4. TypesInv
  <2>1. TreeInv
    BY TreeAssumption DEF Init, TreeInv
  <2>2. pending \in Seq(DirectoryRecords) /\ current \in DirectoryRecords
    BY <1>3 DEF Init
  <2>3. documents \in Seq(DocumentRecords) /\ issues \in Seq([path : Seq(Names), code : IssueCodes])
    BY DEF Init
  <2>4. BatchInv
    <3>1. <<>> \in Seq({})
      OBVIOUS
    <3> QED
      BY <3>1 DEF Init, BatchInv
  <2>5. inspected \in Nat /\ truncated \in BOOLEAN /\ returned \in BOOLEAN
    BY DEF Init
  <2> QED
    BY <1>2, <2>1, <2>2, <2>3, <2>4, <2>5 DEF TypesInv, ScanTypeOK, DirectoryRecords, DocumentRecords
<1>5. LimitsRespected
  BY <1>2 DEF Init, LimitsRespected
<1>6. /\ DOMAIN pending = {1} /\ pending[1] = Top /\ DOMAIN documents = {} /\ documents = <<>>
      /\ current = Top /\ batch = <<>>
  BY DEF Init
<1>7. PathsInv
  <2>1. PathsDistinct
    BY <1>6 DEF PathsDistinct
  <2>2. QueueInv
    <3>1. ASSUME NEW name \in Names
          PROVE  ~Taken(Append(Top.path, name))
      <4>1. Append(Top.path, name) # <<>>
        BY <1>1, AppendProperties
      <4> QED
        BY <1>1, <1>6, <4>1 DEF Taken
    <3> QED
      BY <1>6, <3>1 DEF QueueInv
  <2>3. LevelsInv
    BY <1>1, <1>6 DEF LevelsInv
  <2>4. CurrentInv
    BY <1>6 DEF CurrentInv
  <2> QED
    BY <2>1, <2>2, <2>3, <2>4 DEF PathsInv
<1> QED
  BY <1>4, <1>5, <1>7 DEF ScanInv

LEMMA ScanAlways == Spec => []ScanInv
<1>1. ScanInv /\ [Next]_vars => ScanInv'
  BY TypesStep, LimitsStep, PathsStep DEF ScanInv
<1> QED
  BY <1>1, ScanInit, PTL DEF Spec

\* What the scan holds is well-formed at every step; a directory waits to be read
\* at most as deep as the request allows, and only files below the root that the
\* system listed as such are documents.
THEOREM ScanTypeCorrect == Spec => []ScanTypeOK
<1>1. ScanInv => ScanTypeOK
  BY DEF ScanInv, TypesInv
<1> QED
  BY <1>1, ScanAlways, PTL

\* Whatever the tree, the limits and the moves of the user: _ScanState never goes
\* beyond a limit, and scan_documents truncates a result exactly when one is met and
\* there is more than it allows.
THEOREM LimitsHold == Spec => []LimitsRespected
<1>1. ScanInv => LimitsRespected
  BY DEF ScanInv
<1> QED
  BY <1>1, ScanAlways, PTL

\* No document is reported twice under one path, however directories move while
\* scan_documents is on its way: a path is queued or reported once, because the
\* search goes level by level and each directory path is read once.
THEOREM NoPathTwice == Spec => []PathsDistinct
<1>1. ScanInv => PathsDistinct
  BY DEF ScanInv, PathsInv
<1> QED
  BY <1>1, ScanAlways, PTL

-----------------------------------------------------------------------------
(* The least of some numbers.                                                *)
LEMMA LeastNumber ==
    ASSUME NEW S, S \subseteq Nat, S # {}
    PROVE  \E i \in S : \A j \in S : i <= j
<1>1. IsWellFoundedOn(OpToRel(<, Nat), Nat)
  BY NatLessThanWellFounded
<1>2. PICK x \in S : \A y \in S : ~ (<<y, x>> \in OpToRel(<, Nat))
  BY <1>1, WFMin
<1>3. \A y \in S : x <= y
  <2> SUFFICES ASSUME NEW y \in S
               PROVE  x <= y
    OBVIOUS
  <2>1. ~ (<<y, x>> \in OpToRel(<, Nat))
    BY <1>2
  <2>2. ~ (y < x)
    BY <2>1 DEF OpToRel
  <2> QED
    BY <2>2
<1> QED
  BY <1>3

-----------------------------------------------------------------------------
(* Up and down the tree.  What the recursions of Climb and Resolve define.   *)
Up(where, m) == IF m \in Nodes THEN where[m].dir ELSE m

IsClimb(c, where, n, top) ==
    c = [i \in 0 .. top |-> IF i = 0 THEN n ELSE Up(where, c[i - 1])]

LEMMA ClimbExists ==
    ASSUME NEW where, NEW n, NEW top \in Nat
    PROVE  \E c : IsClimb(c, where, n, top)
<1> DEFINE S == {m \in Nat : ~ \E c : IsClimb(c, where, n, m)}
<1> SUFFICES ASSUME S # {}
             PROVE  FALSE
  OBVIOUS
<1>1. PICK m \in S : \A k \in S : m <= k
  <2>1. S \subseteq Nat
    OBVIOUS
  <2> HIDE DEF S
  <2> QED
    BY <2>1, LeastNumber
<1>2. m \in Nat /\ ~ \E c : IsClimb(c, where, n, m)
  OBVIOUS
<1>3. CASE m = 0
  <2> DEFINE c == [i \in 0 .. 0 |-> n]
  <2>1. \A i \in 0 .. 0 : n = IF i = 0 THEN n ELSE Up(where, c[i - 1])
    OBVIOUS
  <2>2. IsClimb(c, where, n, 0)
    BY <2>1 DEF IsClimb
  <2> QED
    BY <1>2, <1>3, <2>2
<1>4. CASE m # 0
  <2>1. m - 1 \in Nat /\ m - 1 < m
    BY <1>2, <1>4
  <2>2. m - 1 \notin S
    BY <1>1, <1>2, <2>1
  <2>3. PICK v : IsClimb(v, where, n, m - 1)
    BY <2>1, <2>2
  <2> DEFINE c == [i \in 0 .. m |-> IF i = m THEN Up(where, v[m - 1]) ELSE v[i]]
  <2>4. \A i \in 0 .. m - 1 : c[i] = v[i] /\ v[i] = IF i = 0 THEN n ELSE Up(where, v[i - 1])
    BY <1>2, <2>3 DEF IsClimb
  <2>5. c[m] = Up(where, v[m - 1]) /\ c[m - 1] = v[m - 1]
    BY <1>2, <1>4
  <2>6. ASSUME NEW i \in 0 .. m
        PROVE  c[i] = IF i = 0 THEN n ELSE Up(where, c[i - 1])
    <3> HIDE DEF c
    <3>1. CASE i = m
      BY <1>2, <1>4, <2>5, <3>1
    <3>2. CASE i # m
      <4>1. i \in 0 .. m - 1 /\ (i = 0 \/ i - 1 \in 0 .. m - 1)
        BY <1>2, <3>2
      <4>2. c[i] = v[i] /\ v[i] = IF i = 0 THEN n ELSE Up(where, v[i - 1])
        BY <2>4, <4>1
      <4>3. CASE i = 0
        BY <4>2, <4>3
      <4>4. CASE i # 0
        <5>1. c[i - 1] = v[i - 1]
          BY <2>4, <4>1, <4>4
        <5> QED
          BY <4>2, <4>4, <5>1
      <4> QED
        BY <4>3, <4>4
    <3> QED
      BY <3>1, <3>2
  <2>7. IsClimb(c, where, n, m)
    <3>1. c = [i \in 0 .. m |-> c[i]]
      OBVIOUS
    <3> HIDE DEF c
    <3>2. c = [i \in 0 .. m |-> IF i = 0 THEN n ELSE Up(where, c[i - 1])]
      BY <2>6, <3>1
    <3> QED
      BY <3>2 DEF IsClimb
  <2> QED
    BY <1>2, <2>7
<1> QED
  BY <1>3, <1>4

LEMMA TreeSize ==
    IsFiniteSet(Directories) /\ Cardinality(Directories) \in Nat
<1>1. Directories \ {Root} \in SUBSET Nodes
  BY DEF Nodes
<1>2. IsFiniteSet(Directories \ {Root})
  BY <1>1, TreeAssumption, FS_Subset
<1>3. IsFiniteSet((Directories \ {Root}) \cup {Root})
  BY <1>2, FS_AddElement
<1>4. (Directories \ {Root}) \cup {Root} = Directories
  BY TreeAssumption
<1> QED
  BY <1>3, <1>4, FS_CardinalityType

LEMMA ClimbFacts ==
    ASSUME NEW where, NEW n
    PROVE  /\ Climb(where, n)[0] = n
           /\ \A i \in 1 .. Cardinality(Directories) :
                  Climb(where, n)[i] = Up(where, Climb(where, n)[i - 1])
<1> DEFINE top == Cardinality(Directories)
           climb == CHOOSE c : IsClimb(c, where, n, top)
<1>1. top \in Nat
  BY TreeSize
<1>2. IsClimb(climb, where, n, top)
  <2> HIDE DEF top
  <2> QED
    BY <1>1, ClimbExists
<1>3. Climb(where, n) = climb
  BY DEF Climb, IsClimb, Up
<1> HIDE DEF climb
<1>4. \A i \in 0 .. top : climb[i] = IF i = 0 THEN n ELSE Up(where, climb[i - 1])
  BY <1>2 DEF IsClimb
<1>5. 0 \in 0 .. top /\ \A i \in 1 .. top : i \in 0 .. top /\ i # 0
  BY <1>1
<1> QED
  BY <1>3, <1>4, <1>5

Down(d, name) == Follow(Lookup(d, name))

IsWalk(w, path, top) ==
    w = [i \in 0 .. top |-> IF i = 0 THEN Root ELSE Down(w[i - 1], path[i])]

LEMMA WalkExists ==
    ASSUME NEW path, NEW top \in Nat
    PROVE  \E w : IsWalk(w, path, top)
<1> DEFINE S == {m \in Nat : ~ \E w : IsWalk(w, path, m)}
<1> SUFFICES ASSUME S # {}
             PROVE  FALSE
  OBVIOUS
<1>1. PICK m \in S : \A k \in S : m <= k
  <2>1. S \subseteq Nat
    OBVIOUS
  <2> HIDE DEF S
  <2> QED
    BY <2>1, LeastNumber
<1>2. m \in Nat /\ ~ \E w : IsWalk(w, path, m)
  OBVIOUS
<1>3. CASE m = 0
  <2> DEFINE w == [i \in 0 .. 0 |-> Root]
  <2>1. \A i \in 0 .. 0 : Root = IF i = 0 THEN Root ELSE Down(w[i - 1], path[i])
    OBVIOUS
  <2>2. IsWalk(w, path, 0)
    BY <2>1 DEF IsWalk
  <2> QED
    BY <1>2, <1>3, <2>2
<1>4. CASE m # 0
  <2>1. m - 1 \in Nat /\ m - 1 < m
    BY <1>2, <1>4
  <2>2. m - 1 \notin S
    BY <1>1, <1>2, <2>1
  <2>3. PICK v : IsWalk(v, path, m - 1)
    BY <2>1, <2>2
  <2> DEFINE w == [i \in 0 .. m |-> IF i = m THEN Down(v[m - 1], path[m]) ELSE v[i]]
  <2>4. \A i \in 0 .. m - 1 : w[i] = v[i] /\ v[i] = IF i = 0 THEN Root ELSE Down(v[i - 1], path[i])
    BY <1>2, <2>3 DEF IsWalk
  <2>5. w[m] = Down(v[m - 1], path[m]) /\ w[m - 1] = v[m - 1]
    BY <1>2, <1>4
  <2>6. ASSUME NEW i \in 0 .. m
        PROVE  w[i] = IF i = 0 THEN Root ELSE Down(w[i - 1], path[i])
    <3> HIDE DEF w
    <3>1. CASE i = m
      BY <1>2, <1>4, <2>5, <3>1
    <3>2. CASE i # m
      <4>1. i \in 0 .. m - 1 /\ (i = 0 \/ i - 1 \in 0 .. m - 1)
        BY <1>2, <3>2
      <4>2. w[i] = v[i] /\ v[i] = IF i = 0 THEN Root ELSE Down(v[i - 1], path[i])
        BY <2>4, <4>1
      <4>3. CASE i = 0
        BY <4>2, <4>3
      <4>4. CASE i # 0
        <5>1. w[i - 1] = v[i - 1]
          BY <2>4, <4>1, <4>4
        <5> QED
          BY <4>2, <4>4, <5>1
      <4> QED
        BY <4>3, <4>4
    <3> QED
      BY <3>1, <3>2
  <2>7. IsWalk(w, path, m)
    <3>1. w = [i \in 0 .. m |-> w[i]]
      OBVIOUS
    <3> HIDE DEF w
    <3>2. w = [i \in 0 .. m |-> IF i = 0 THEN Root ELSE Down(w[i - 1], path[i])]
      BY <2>6, <3>1
    <3> QED
      BY <3>2 DEF IsWalk
  <2> QED
    BY <1>2, <2>7
<1> QED
  BY <1>3, <1>4

LEMMA ResolveFacts ==
    ASSUME NEW path \in Seq(Names)
    PROVE  \E w : /\ w[0] = Root
                  /\ \A i \in 1 .. Len(path) : w[i] = Down(w[i - 1], path[i])
                  /\ Resolve(path) = w[Len(path)]
<1>1. Len(path) \in Nat
  BY LenProperties
<1> DEFINE walk == CHOOSE w : IsWalk(w, path, Len(path))
<1>2. IsWalk(walk, path, Len(path))
  BY <1>1, WalkExists
<1>3. Resolve(path) = walk[Len(path)]
  BY DEF Resolve, IsWalk, Down
<1> HIDE DEF walk
<1>4. \A i \in 0 .. Len(path) : walk[i] = IF i = 0 THEN Root ELSE Down(walk[i - 1], path[i])
  BY <1>2 DEF IsWalk
<1>5. 0 \in 0 .. Len(path) /\ \A i \in 1 .. Len(path) : i \in 0 .. Len(path) /\ i # 0
  BY <1>1
<1> QED
  BY <1>3, <1>4, <1>5

(* The way from the root to a file, and the paths of its directories.        *)
Turn(f, i) == Climb(InitialPlace, f)[i]

\* f is k levels below the root.
Leads(f, k) ==
    /\ f \in Files /\ k \in 1 .. Cardinality(Directories)
    /\ Turn(f, k) = Root /\ \A i \in 0 .. k - 1 : Turn(f, i) # Root

Prefix(f, k, j) == [m \in 1 .. j |-> InitialPlace[Turn(f, k - m)].name]

LEMMA WayFacts ==
    ASSUME NEW f, NEW k, Leads(f, k)
    PROVE  /\ Turn(f, 0) = f
           /\ \A i \in 0 .. k - 1 : /\ Turn(f, i) \in Nodes
                                    /\ InitialPlace[Turn(f, i)].dir = Turn(f, i + 1)
                                    /\ InitialPlace[Turn(f, i)].name \in Names
           /\ \A i \in 1 .. k : Turn(f, i) \in Directories
<1>1. k \in Nat /\ k >= 1 /\ Cardinality(Directories) \in Nat /\ k <= Cardinality(Directories)
  BY TreeSize DEF Leads
<1>2. /\ Turn(f, 0) = f
      /\ \A i \in 1 .. Cardinality(Directories) : Turn(f, i) = Up(InitialPlace, Turn(f, i - 1))
  BY ClimbFacts DEF Turn
<1>3. \A i \in 0 .. k - 1 : Turn(f, i + 1) = Up(InitialPlace, Turn(f, i))
  <2> SUFFICES ASSUME NEW i \in 0 .. k - 1
               PROVE  Turn(f, i + 1) = Up(InitialPlace, Turn(f, i))
    OBVIOUS
  <2>1. PICK n : n = i + 1
    OBVIOUS
  <2>2. n \in 1 .. Cardinality(Directories) /\ n - 1 = i
    BY <1>1, <2>1
  <2>3. Turn(f, n) = Up(InitialPlace, Turn(f, n - 1))
    BY <1>2, <2>2
  <2> QED
    BY <2>1, <2>2, <2>3
<1>4. ASSUME NEW i \in 0 .. k - 1
      PROVE  Turn(f, i) \in Nodes
  <2> SUFFICES ASSUME Turn(f, i) \notin Nodes
               PROVE  FALSE
    OBVIOUS
  <2> DEFINE S == {n \in Nat : i <= n /\ n <= k /\ Turn(f, n) # Turn(f, i)}
  <2>1. k \in S
    BY <1>1 DEF Leads
  <2>2. PICK n \in S : \A m \in S : n <= m
    <3>1. S \subseteq Nat
      OBVIOUS
    <3> HIDE DEF S
    <3> QED
      BY <2>1, <3>1, LeastNumber
  <2>3. n \in Nat /\ i <= n /\ n <= k /\ Turn(f, n) # Turn(f, i)
    OBVIOUS
  <2>4. n # i /\ n - 1 \in Nat /\ i <= n - 1 /\ n - 1 <= k /\ n - 1 \in 0 .. k - 1
    BY <1>1, <2>3
  <2>5. n - 1 \notin S
    BY <2>2, <2>4
  <2>6. Turn(f, n - 1) = Turn(f, i)
    BY <2>4, <2>5
  <2>7. PICK m : m = n - 1
    OBVIOUS
  <2>8. m \in 0 .. k - 1 /\ m + 1 = n
    BY <2>3, <2>4, <2>7
  <2>9. Turn(f, m + 1) = Up(InitialPlace, Turn(f, m))
    BY <1>3, <2>8
  <2>10. Turn(f, m) = Turn(f, i)
    BY <2>6, <2>7
  <2>11. Turn(f, n) = Turn(f, i)
    BY <2>8, <2>9, <2>10 DEF Up
  <2> QED
    BY <2>3, <2>11
<1>5. ASSUME NEW i \in 0 .. k - 1
      PROVE  /\ InitialPlace[Turn(f, i)].dir = Turn(f, i + 1)
             /\ InitialPlace[Turn(f, i)].name \in Names
             /\ Turn(f, i + 1) \in Directories
  <2>1. Turn(f, i) \in Nodes
    BY <1>4
  <2>2. Turn(f, i + 1) = InitialPlace[Turn(f, i)].dir
    BY <1>3, <2>1 DEF Up
  <2>3. /\ InitialPlace[Turn(f, i)] \in [dir : Directories \cup {Nowhere}, name : Names]
    BY <2>1, TreeAssumption
  <2>4. InitialPlace[Turn(f, i)].dir \in Directories \cup {Nowhere}
        /\ InitialPlace[Turn(f, i)].name \in Names
    BY <2>3
  <2>5. Turn(f, i + 1) # Nowhere
    <3>1. CASE i = k - 1
      <4>1. i + 1 = k
        BY <1>1, <3>1
      <4> QED
        BY <4>1, TreeAssumption DEF Leads
    <3>2. CASE i # k - 1
      <4>1. i + 1 \in 0 .. k - 1
        BY <1>1, <3>2
      <4> QED
        BY <1>4, <4>1, TreeAssumption
    <3> QED
      BY <3>1, <3>2
  <2> QED
    BY <2>2, <2>4, <2>5
<1>6. ASSUME NEW i \in 1 .. k
      PROVE  Turn(f, i) \in Directories
  <2>1. PICK m : m = i - 1
    OBVIOUS
  <2>2. m \in 0 .. k - 1 /\ m + 1 = i
    BY <1>1, <2>1
  <2> QED
    BY <1>5, <2>2
<1> QED
  BY <1>2, <1>4, <1>5, <1>6

LEMMA PrefixFacts ==
    ASSUME NEW f, NEW k, Leads(f, k), NEW j \in 0 .. k
    PROVE  /\ Prefix(f, k, j) \in Seq(Names) /\ Len(Prefix(f, k, j)) = j
           /\ \A m \in 1 .. j : Prefix(f, k, j)[m] = InitialPlace[Turn(f, k - m)].name
<1>1. k \in Nat
  BY TreeSize DEF Leads
<1>2. ASSUME NEW m \in 1 .. j
      PROVE  InitialPlace[Turn(f, k - m)].name \in Names
  <2>1. PICK i : i = k - m
    OBVIOUS
  <2>2. i \in 0 .. k - 1
    BY <1>1, <2>1
  <2>3. InitialPlace[Turn(f, i)].name \in Names
    BY <2>2, WayFacts
  <2> QED
    BY <2>1, <2>3
<1> DEFINE val(m) == InitialPlace[Turn(f, k - m)].name
<1>3. Prefix(f, k, j) = [m \in 1 .. j |-> val(m)]
  BY DEF Prefix
<1>4. \A m \in 1 .. j : val(m) \in Names
  BY <1>2
<1> HIDE DEF val
<1>5. Prefix(f, k, j) \in [1 .. j -> Names] /\ j \in Nat
  BY <1>1, <1>3, <1>4
<1>6. \A m \in 1 .. j : Prefix(f, k, j)[m] = val(m)
  BY <1>3
<1>7. Prefix(f, k, j) \in Seq(Names)
  BY <1>5
<1>8. Len(Prefix(f, k, j)) = j
  BY <1>3, <1>5
<1> QED
  BY <1>6, <1>7, <1>8 DEF val

LEMMA PrefixAppend ==
    ASSUME NEW f, NEW k, Leads(f, k), NEW j \in 0 .. k - 1
    PROVE  Append(Prefix(f, k, j), InitialPlace[Turn(f, k - (j + 1))].name) = Prefix(f, k, j + 1)
<1>1. k \in Nat /\ j \in 0 .. k /\ j + 1 \in 0 .. k /\ j \in Nat
  BY TreeSize DEF Leads
<1> DEFINE s == Prefix(f, k, j)
           t == Prefix(f, k, j + 1)
           name == InitialPlace[Turn(f, k - (j + 1))].name
<1>2. s \in Seq(Names) /\ Len(s) = j /\ \A m \in 1 .. j : s[m] = InitialPlace[Turn(f, k - m)].name
  BY <1>1, PrefixFacts
<1>3. PICK n : n = j + 1
  OBVIOUS
<1>4. n \in 0 .. k /\ n \in 1 .. n /\ t = Prefix(f, k, n)
  BY <1>1, <1>3
<1>5. t \in Seq(Names) /\ Len(t) = n /\ \A m \in 1 .. n : t[m] = InitialPlace[Turn(f, k - m)].name
  BY <1>4, PrefixFacts
<1>6. name = t[n] /\ name \in Names
  <2>1. t[n] = InitialPlace[Turn(f, k - n)].name
    BY <1>4, <1>5
  <2>2. t[n] \in Names
    BY <1>4, <1>5, ElementOfSeq
  <2> QED
    BY <1>3, <2>1, <2>2
<1> HIDE DEF s, t, name
<1>7. /\ Append(s, name) \in Seq(Names) /\ Len(Append(s, name)) = n
      /\ \A m \in 1 .. j : Append(s, name)[m] = s[m]
      /\ Append(s, name)[n] = name
  BY <1>2, <1>3, <1>6, AppendProperties
<1>8. ASSUME NEW m \in 1 .. n
      PROVE  Append(s, name)[m] = t[m]
  <2>1. CASE m = n
    BY <1>6, <1>7, <2>1
  <2>2. CASE m # n
    <3>1. m \in 1 .. j
      BY <1>1, <1>3, <2>2
    <3> QED
      BY <1>2, <1>5, <1>7, <3>1
  <2> QED
    BY <2>1, <2>2
<1>9. Append(s, name) = t
  BY <1>5, <1>7, <1>8, SeqEqual
<1> QED
  BY <1>9 DEF s, t, name

LEMMA PrefixAll ==
    ASSUME NEW f, NEW k, Leads(f, k)
    PROVE  /\ Prefix(f, k, k) = PathTo(f, k)
           /\ \A j \in 0 .. k - 1 : IsStrictPrefix(Prefix(f, k, j), PathTo(f, k))
<1>1. k \in Nat /\ k \in 0 .. k
  BY TreeSize DEF Leads
<1>2. Prefix(f, k, k) = PathTo(f, k)
  BY DEF Prefix, PathTo, Turn
<1>3. ASSUME NEW j \in 0 .. k - 1
      PROVE  IsStrictPrefix(Prefix(f, k, j), PathTo(f, k))
  <2> DEFINE s == Prefix(f, k, j)
             t == PathTo(f, k)
  <2>1. j \in 0 .. k /\ j \in Nat /\ j < k
    BY <1>1
  <2>2. s \in Seq(Names) /\ Len(s) = j /\ \A m \in 1 .. j : s[m] = InitialPlace[Turn(f, k - m)].name
    BY <2>1, PrefixFacts
  <2>3. t \in Seq(Names) /\ Len(t) = k /\ \A m \in 1 .. k : t[m] = InitialPlace[Turn(f, k - m)].name
    BY <1>1, <1>2, PrefixFacts
  <2> HIDE DEF s, t
  <2>4. \A m \in 1 .. j : s[m] = t[m]
    BY <2>1, <2>2, <2>3
  <2>5. SubSeq(s, 1, Len(s)) = [m \in 1 .. j |-> s[m]] /\ SubSeq(t, 1, Len(s)) = [m \in 1 .. j |-> t[m]]
    BY <2>1, <2>2, <2>3
  <2>6. SubSeq(s, 1, Len(s)) = SubSeq(t, 1, Len(s))
    BY <2>4, <2>5
  <2>7. Len(s) <= Len(t) /\ s # t
    BY <2>1, <2>2, <2>3
  <2>8. IsStrictPrefix(s, t)
    BY <2>6, <2>7 DEF IsStrictPrefix, IsPrefix
  <2> QED
    BY <2>8 DEF s, t
<1> QED
  BY <1>2, <1>3

-----------------------------------------------------------------------------
(* Where the path of a directory on the way leads while the way stays.       *)

Stays(f, k) == \A i \in 0 .. k - 1 : place[Turn(f, i)] = InitialPlace[Turn(f, i)]

LEMMA WayResolved ==
    ASSUME TreeInv, NEW f, NEW k, Leads(f, k), Stays(f, k), NEW j \in 0 .. k - 1
    PROVE  Resolve(Prefix(f, k, j)) = Turn(f, k - j)
<1> DEFINE s == Prefix(f, k, j)
<1>1. k \in Nat /\ k >= 1 /\ j \in Nat /\ j \in 0 .. k
  BY TreeSize DEF Leads
<1>2. s \in Seq(Names) /\ Len(s) = j /\ \A m \in 1 .. j : s[m] = InitialPlace[Turn(f, k - m)].name
  BY <1>1, PrefixFacts
<1> HIDE DEF s
<1>3. PICK w : /\ w[0] = Root
               /\ \A i \in 1 .. j : w[i] = Down(w[i - 1], s[i])
               /\ Resolve(s) = w[j]
  BY <1>2, ResolveFacts
<1> DEFINE S == {i \in Nat : i <= j /\ w[i] # Turn(f, k - i)}
<1>4. ASSUME S # {}
      PROVE  FALSE
  <2>1. PICK i \in S : \A m \in S : i <= m
    <3>1. S \subseteq Nat
      OBVIOUS
    <3> HIDE DEF S
    <3> QED
      BY <1>4, <3>1, LeastNumber
  <2>2. i \in Nat /\ i <= j /\ w[i] # Turn(f, k - i)
    OBVIOUS
  <2>3. i # 0
    <3>1. k - 0 = k
      BY <1>1
    <3> QED
      BY <1>3, <2>2, <3>1 DEF Leads
  <2>4. i - 1 \in Nat /\ i - 1 <= j /\ i \in 1 .. j /\ ~(i <= i - 1)
    BY <1>1, <2>2, <2>3
  <2>5. i - 1 \notin S
    BY <2>1, <2>4
  <2>6. w[i - 1] = Turn(f, k - (i - 1))
    BY <2>4, <2>5
  <2>7. PICK m : m = k - i
    OBVIOUS
  <2>8. m \in 1 .. k - 1 /\ m \in 0 .. k - 1 /\ m \in 1 .. k /\ k - (i - 1) = m + 1 /\ m + 1 \in 1 .. k
    BY <1>1, <2>2, <2>4, <2>7
  <2>9. w[i - 1] = Turn(f, m + 1) /\ w[i] = Down(w[i - 1], s[i])
    BY <1>3, <2>4, <2>6, <2>8
  <2>10. s[i] = InitialPlace[Turn(f, m)].name
    BY <1>2, <2>4, <2>7
  <2>11. PICK n : n = Turn(f, m)
    OBVIOUS
  <2>12. n \in Nodes /\ n \in Directories /\ InitialPlace[n].dir = Turn(f, m + 1)
         /\ Turn(f, m + 1) \in Directories
    BY <2>8, <2>11, WayFacts
  <2>13. place[n] = InitialPlace[n]
    BY <2>8, <2>11 DEF Stays
  <2>14. PICK d, name : d = Turn(f, m + 1) /\ name = s[i]
    OBVIOUS
  <2>15. place[n] \in [dir : Directories \cup {Nowhere}, name : Names]
    BY <2>12 DEF TreeInv
  <2>16. place[n].dir = d /\ place[n].name = name
    BY <2>10, <2>11, <2>12, <2>13, <2>14
  <2>17. place[n] = [dir |-> d, name |-> name]
    BY <2>15, <2>16
  <2>18. n \in Child(d, name)
    BY <2>12, <2>17 DEF Child
  <2>19. ASSUME NEW x \in Child(d, name)
         PROVE  x = n
    <3>1. x \in Nodes /\ place[x] = place[n]
      BY <2>17 DEF Child
    <3>2. place[x].dir # Nowhere
      BY <2>12, <2>14, <2>16, <3>1, TreeAssumption
    <3> QED
      BY <2>12, <3>1, <3>2 DEF TreeInv
  <2>20. Lookup(d, name) = n
    BY <2>12, <2>14, <2>18, <2>19 DEF Lookup
  <2>21. Down(d, name) = n
    BY <2>12, <2>20, TreeAssumption DEF Down, Follow
  <2> QED
    BY <2>2, <2>7, <2>9, <2>11, <2>14, <2>21
<1>5. j \notin S
  BY <1>4
<1>6. w[j] = Turn(f, k - j)
  BY <1>1, <1>5
<1> QED
  BY <1>3, <1>6 DEF s

-----------------------------------------------------------------------------
(* Every document that stays in its place is on its way to the result.       *)

\* Steady, in terms of the way.
Passable(f, k) ==
    /\ Leads(f, k)
    /\ k - 1 <= request.max_depth /\ FileClass[f] = "document"
    /\ \A i \in 0 .. k - 1 : /\ Turn(f, i) \notin moved
                             /\ InitialPlace[Turn(f, i)].name \notin ExcludedNames

\* e is the entry of the way's next node in its directory j levels below the root.
Stands(e, f, k, j) ==
    LET n == Turn(f, k - (j + 1))
    IN  /\ e.node = n /\ e.name = InitialPlace[n].name /\ e.path = Prefix(f, k, j + 1)
        /\ e.inside = TRUE /\ e.kind = Kind(n)

IsAt(d, f, k, j) == d.path = Prefix(f, k, j) /\ d.depth = j

Waits(f, k) == \E j \in 0 .. k - 1 : \E i \in DOMAIN pending : IsAt(pending[i], f, k, j)

Listed(f, k) ==
    \E j \in 0 .. k - 1 : /\ IsAt(current, f, k, j)
                          /\ \E i \in DOMAIN batch : Stands(batch[i], f, k, j)

Told(f, k) ==
    \/ \E i \in DOMAIN documents : documents[i].node = f /\ documents[i].path = PathTo(f, k)
    \/ \E i \in DOMAIN issues : /\ issues[i].code = "inaccessible"
                                /\ IsStrictPrefix(issues[i].path, PathTo(f, k))

PlaceInv == \A n \in Nodes \ moved : place[n] = InitialPlace[n]

ReturnInv == returned => truncated \/ (batch = <<>> /\ pending = <<>>)

OnItsWay ==
    ~truncated =>
        \A f, k : Passable(f, k) => Waits(f, k) \/ Listed(f, k) \/ Told(f, k)

FoundInv == PlaceInv /\ ReturnInv /\ OnItsWay

LEMMA SteadyMeans ==
    ASSUME NEW f \in Files, NEW k \in 1 .. Cardinality(Directories), Steady(f, k)
    PROVE  Passable(f, k)
<1> DEFINE way == {Climb(InitialPlace, f)[i] : i \in 0 .. k - 1}
<1>1. /\ Climb(InitialPlace, f)[k] = Root /\ Root \notin way
      /\ k - 1 <= request.max_depth /\ FileClass[f] = "document"
      /\ way \cap moved = {} /\ \A n \in way : InitialPlace[n].name \notin ExcludedNames
  BY DEF Steady
<1>2. \A i \in 0 .. k - 1 : Turn(f, i) \in way
  BY DEF Turn
<1> HIDE DEF way
<1>3. Turn(f, k) = Root
  BY <1>1 DEF Turn
<1> QED
  BY <1>1, <1>2, <1>3 DEF Passable, Leads

LEMMA PassableKept ==
    ASSUME moved \subseteq moved', request' = request, NEW f, NEW k, Passable(f, k)'
    PROVE  Passable(f, k)
BY DEF Passable, Leads, Turn

LEMMA PassableStays ==
    ASSUME PlaceInv, NEW f, NEW k, Passable(f, k)
    PROVE  Stays(f, k)
<1>1. Leads(f, k)
  BY DEF Passable
<1> SUFFICES ASSUME NEW i \in 0 .. k - 1
             PROVE  place[Turn(f, i)] = InitialPlace[Turn(f, i)]
  BY DEF Stays
<1>2. Turn(f, i) \in Nodes
  BY <1>1, WayFacts
<1>3. Turn(f, i) \notin moved
  BY DEF Passable
<1> QED
  BY <1>2, <1>3 DEF PlaceInv

LEMMA WaitsKept ==
    ASSUME NEW f, NEW k, Waits(f, k),
           \A i \in DOMAIN pending : \E m \in DOMAIN pending' : pending'[m] = pending[i]
    PROVE  Waits(f, k)'
BY DEF Waits, IsAt, Prefix, Turn

LEMMA ToldKept ==
    ASSUME NEW f, NEW k, Told(f, k),
           \A i \in DOMAIN documents : \E m \in DOMAIN documents' : documents'[m] = documents[i],
           \A i \in DOMAIN issues : \E m \in DOMAIN issues' : issues'[m] = issues[i]
    PROVE  Told(f, k)'
<1>1. CASE \E i \in DOMAIN documents : documents[i].node = f /\ documents[i].path = PathTo(f, k)
  <2>1. PICK i \in DOMAIN documents : documents[i].node = f /\ documents[i].path = PathTo(f, k)
    BY <1>1
  <2>2. PICK m \in DOMAIN documents' : documents'[m] = documents[i]
    OBVIOUS
  <2>3. documents'[m].node = f /\ documents'[m].path = PathTo(f, k)
    BY <2>1, <2>2
  <2> QED
    BY <2>3 DEF Told
<1>2. CASE \E i \in DOMAIN issues : /\ issues[i].code = "inaccessible"
                                    /\ IsStrictPrefix(issues[i].path, PathTo(f, k))
  <2>1. PICK i \in DOMAIN issues : /\ issues[i].code = "inaccessible"
                                   /\ IsStrictPrefix(issues[i].path, PathTo(f, k))
    BY <1>2
  <2>2. PICK m \in DOMAIN issues' : issues'[m] = issues[i]
    OBVIOUS
  <2>3. issues'[m].code = "inaccessible" /\ IsStrictPrefix(issues'[m].path, PathTo(f, k))
    BY <2>1, <2>2
  <2> QED
    BY <2>3 DEF Told
<1> QED
  BY <1>1, <1>2 DEF Told

\* What was appended to is still there.
LEMMA AppendGrows ==
    ASSUME NEW S, NEW s \in Seq(S), NEW e, NEW t, t = Append(s, e)
    PROVE  /\ \A i \in DOMAIN s : \E m \in DOMAIN t : t[m] = s[i]
           /\ \E m \in DOMAIN t : t[m] = e
<1>1. s \in Seq(S \cup {e})
  OBVIOUS
<1>2. /\ t \in Seq(S \cup {e}) /\ Len(t) = Len(s) + 1
      /\ \A i \in 1 .. Len(s) : t[i] = s[i]
      /\ t[Len(s) + 1] = e
  BY <1>1, AppendProperties
<1>3. Len(s) \in Nat /\ DOMAIN s = 1 .. Len(s) /\ DOMAIN t = 1 .. Len(s) + 1
  BY <1>1, <1>2
<1>4. ASSUME NEW i \in DOMAIN s
      PROVE  \E m \in DOMAIN t : t[m] = s[i]
  <2>1. i \in DOMAIN t /\ t[i] = s[i]
    BY <1>2, <1>3
  <2> QED
    BY <2>1
<1>5. Len(s) + 1 \in DOMAIN t
  BY <1>3
<1> QED
  BY <1>2, <1>4, <1>5

LEMMA SequenceTypes ==
    ASSUME TypesInv
    PROVE  /\ pending \in Seq(DirectoryRecords) /\ documents \in Seq(DocumentRecords)
           /\ issues \in Seq([path : Seq(Names), code : IssueCodes])
           /\ truncated \in BOOLEAN
<1>1. pending \in Seq(DirectoryRecords)
  BY PathFacts
<1>2. documents \in Seq(DocumentRecords)
  BY PathFacts
<1>3. issues \in Seq([path : Seq(Names), code : IssueCodes]) /\ truncated \in BOOLEAN
  BY DEF TypesInv, ScanTypeOK
<1> QED
  BY <1>1, <1>2, <1>3

LEMMA ProcessGrows ==
    ASSUME TypesInv, ProcessEntry
    PROVE  /\ \A i \in DOMAIN pending : \E m \in DOMAIN pending' : pending'[m] = pending[i]
           /\ \A i \in DOMAIN documents : \E m \in DOMAIN documents' : documents'[m] = documents[i]
           /\ \A i \in DOMAIN issues : \E m \in DOMAIN issues' : issues'[m] = issues[i]
<1>0. /\ pending \in Seq(DirectoryRecords) /\ documents \in Seq(DocumentRecords)
      /\ issues \in Seq([path : Seq(Names), code : IssueCodes])
  BY SequenceTypes
<1>1. \/ pending' = pending
      \/ \E rec : pending' = Append(pending, rec)
  BY ProcessKinds DEF Queues, Discovers, Says, PassesOver
<1>2. \/ documents' = documents
      \/ \E rec : documents' = Append(documents, rec)
  BY ProcessKinds DEF Queues, Discovers, Says, PassesOver
<1>3. \/ issues' = issues
      \/ \E rec : issues' = Append(issues, rec)
  BY ProcessKinds DEF Queues, Discovers, Says, PassesOver, Note
<1>4. \A i \in DOMAIN pending : \E m \in DOMAIN pending' : pending'[m] = pending[i]
  <2>1. CASE pending' = pending
    BY <2>1
  <2>2. CASE \E rec : pending' = Append(pending, rec)
    <3>1. PICK rec, t : t = pending' /\ t = Append(pending, rec)
      BY <2>2
    <3>2. PICK old \in Seq(DirectoryRecords) : old = pending
      BY <1>0
    <3>3. t = Append(old, rec)
      BY <3>1, <3>2
    <3>4. \A i \in DOMAIN old : \E m \in DOMAIN t : t[m] = old[i]
      BY <3>3, AppendGrows
    <3> QED
      BY <3>1, <3>2, <3>4
  <2> QED
    BY <1>1, <2>1, <2>2
<1>5. \A i \in DOMAIN documents : \E m \in DOMAIN documents' : documents'[m] = documents[i]
  <2>1. CASE documents' = documents
    BY <2>1
  <2>2. CASE \E rec : documents' = Append(documents, rec)
    <3>1. PICK rec, t : t = documents' /\ t = Append(documents, rec)
      BY <2>2
    <3>2. PICK old \in Seq(DocumentRecords) : old = documents
      BY <1>0
    <3>3. t = Append(old, rec)
      BY <3>1, <3>2
    <3>4. \A i \in DOMAIN old : \E m \in DOMAIN t : t[m] = old[i]
      BY <3>3, AppendGrows
    <3> QED
      BY <3>1, <3>2, <3>4
  <2> QED
    BY <1>2, <2>1, <2>2
<1>6. \A i \in DOMAIN issues : \E m \in DOMAIN issues' : issues'[m] = issues[i]
  <2>1. CASE issues' = issues
    BY <2>1
  <2>2. CASE \E rec : issues' = Append(issues, rec)
    <3>1. PICK rec, t : t = issues' /\ t = Append(issues, rec)
      BY <2>2
    <3>2. PICK S, old : old \in Seq(S) /\ old = issues
      BY <1>0
    <3>3. old \in Seq(S) /\ t = Append(old, rec)
      BY <3>1, <3>2
    <3>4. \A i \in DOMAIN old : \E m \in DOMAIN t : t[m] = old[i]
      BY <3>3, AppendGrows
    <3> QED
      BY <3>1, <3>2, <3>4
  <2> QED
    BY <1>3, <2>1, <2>2
<1> QED
  BY <1>4, <1>5, <1>6

\* The next entry of the way is queued or reported when its turn comes.
LEMMA HeadProcessed ==
    ASSUME TypesInv, ProcessEntry, ~truncated', NEW f, NEW k, Passable(f, k),
           NEW j \in 0 .. k - 1, IsAt(current, f, k, j), Stands(Head(batch), f, k, j)
    PROVE  Waits(f, k)' \/ Told(f, k)'
<1> DEFINE e == Head(batch)
<1>0. /\ pending \in Seq(DirectoryRecords) /\ documents \in Seq(DocumentRecords)
      /\ request.max_depth \in Nat
  <2>1. request.max_depth \in 0 .. 64
    BY RequestsAssumption DEF TypesInv, ScanTypeOK
  <2>2. request.max_depth \in Nat
    BY <2>1
  <2> QED
    BY <2>2, SequenceTypes
<1>1. Leads(f, k) /\ k - 1 <= request.max_depth /\ FileClass[f] = "document" /\ k \in Nat /\ j \in Nat
  BY TreeSize DEF Passable, Leads
<1>2. PICK i : i = k - (j + 1)
  OBVIOUS
<1>3. i \in 0 .. k - 1
  BY <1>1, <1>2
<1>4. PICK n : n = Turn(f, i)
  OBVIOUS
<1>5. /\ e.node = n /\ e.name = InitialPlace[n].name /\ e.path = Prefix(f, k, j + 1)
      /\ e.inside = TRUE /\ e.kind = Kind(n)
  BY <1>2, <1>4 DEF Stands
<1>6. e.name \notin ExcludedNames
  BY <1>3, <1>4, <1>5 DEF Passable
<1>7. Pass(e) \/ (~Skipped(e) /\ (Queue(e) \/ Discover(e)))
  BY DEF ProcessEntry
<1> HIDE DEF e
<1>8. ~Skipped(e)
  BY <1>5, <1>6 DEF Skipped
<1>9. ASSUME e.kind \in {"file", "directory"}
      PROVE  Queue(e) \/ Discover(e)
  BY <1>5, <1>6, <1>7, <1>9 DEF Pass
<1>10. CASE i = 0
  <2>1. j + 1 = k /\ n = f
    BY <1>1, <1>2, <1>4, <1>10, WayFacts
  <2>2. f \in Files /\ f \notin Directories /\ f \notin Links /\ f \notin Others
    BY <1>1, TreeAssumption DEF Leads
  <2>3. Kind(n) = "file"
    BY <2>1, <2>2 DEF Kind
  <2>4. Discover(e)
    <3>1. e.kind = "file" /\ e.kind # "directory"
      BY <1>5, <2>3
    <3> QED
      BY <1>9, <3>1 DEF Queue
  <2>5. FileClass[e.node] = "document"
    BY <1>1, <1>5, <2>1
  <2>6. ~DocumentLimit(e)
    BY DEF DocumentLimit
  <2>7. documents' = Append(documents, e)
    BY <2>4, <2>5, <2>6 DEF Discover
  <2>8. PICK m \in DOMAIN documents' : documents'[m] = e
    BY <1>0, <2>7, AppendGrows
  <2>9. e.node = f /\ e.path = PathTo(f, k)
    BY <1>1, <1>5, <2>1, PrefixAll
  <2>10. documents'[m].node = f /\ documents'[m].path = PathTo(f, k)
    BY <2>8, <2>9
  <2> QED
    BY <2>10 DEF Told
<1>11. CASE i # 0
  <2>1. i \in 1 .. k /\ j + 1 \in 0 .. k - 1 /\ j + 1 <= request.max_depth
    BY <1>0, <1>1, <1>2, <1>3, <1>11
  <2>2. n \in Directories
    BY <1>1, <1>4, <2>1, WayFacts
  <2>3. Kind(n) = "directory"
    BY <2>2, TreeAssumption DEF Kind
  <2>4. Queue(e)
    <3>1. e.kind = "directory" /\ e.kind # "file"
      BY <1>5, <2>3
    <3> QED
      BY <1>9, <3>1 DEF Discover
  <2>5. current.depth = j /\ MayDescend
    <3>1. current.depth = j
      BY DEF IsAt
    <3> QED
      BY <1>0, <1>1, <2>1, <3>1 DEF MayDescend
  <2> DEFINE rec == [path |-> e.path, depth |-> current.depth + 1]
  <2>6. pending' = Append(pending, rec)
    BY <2>4, <2>5 DEF Queue
  <2>7. rec.path = Prefix(f, k, j + 1) /\ rec.depth = j + 1
    BY <1>5, <2>5
  <2> HIDE DEF rec
  <2>8. PICK m \in DOMAIN pending' : pending'[m] = rec
    BY <1>0, <2>6, AppendGrows
  <2>9. PICK l : l = j + 1
    OBVIOUS
  <2>10. l \in 0 .. k - 1 /\ IsAt(pending'[m], f, k, l)
    BY <2>1, <2>7, <2>8, <2>9 DEF IsAt
  <2>11. Waits(f, k)'
    BY <2>10 DEF Waits, IsAt, Prefix, Turn
  <2> QED
    BY <2>11
<1> QED
  BY <1>10, <1>11

LEMMA WayProcessed ==
    ASSUME TypesInv, OnItsWay, ProcessEntry
    PROVE  OnItsWay'
<1> SUFFICES ASSUME ~truncated', NEW f, NEW k, Passable(f, k)'
             PROVE  Waits(f, k)' \/ Listed(f, k)' \/ Told(f, k)'
  BY DEF OnItsWay
<1>1. Processes
  BY ProcessKinds
<1>2. Passable(f, k)
  BY <1>1, PassableKept DEF Processes, world
<1>3. ~truncated
  BY <1>1 DEF Processes
<1>4. Waits(f, k) \/ Listed(f, k) \/ Told(f, k)
  BY <1>2, <1>3 DEF OnItsWay
<1>5. CASE Waits(f, k)
  BY <1>5, ProcessGrows, WaitsKept
<1>6. CASE Told(f, k)
  BY <1>6, ProcessGrows, ToldKept
<1>7. CASE Listed(f, k)
  <2>1. PICK j \in 0 .. k - 1, i \in DOMAIN batch : IsAt(current, f, k, j) /\ Stands(batch[i], f, k, j)
    BY <1>7 DEF Listed
  <2>2. batch' = Tail(batch) /\ batch # <<>> /\ current' = current
    BY <1>1 DEF Processes
  <2>3. CASE i = 1
    <3>1. Stands(Head(batch), f, k, j)
      BY <2>1, <2>2, <2>3, BatchFacts
    <3> QED
      BY <1>2, <2>1, <3>1, HeadProcessed
  <2>4. CASE i # 1
    <3>1. PICK S : batch \in Seq(S)
      BY DEF TypesInv, BatchInv
    <3>2. i - 1 \in DOMAIN Tail(batch) /\ Tail(batch)[i - 1] = batch[i]
      BY <2>2, <2>4, <3>1
    <3>3. PICK m : m \in DOMAIN batch' /\ batch'[m] = batch[i]
      BY <2>2, <3>2
    <3>4. Stands(batch'[m], f, k, j) /\ IsAt(current', f, k, j)
      BY <2>1, <2>2, <3>3
    <3>5. Listed(f, k)'
      BY <3>3, <3>4 DEF Listed, Stands, IsAt, Prefix, Turn, Kind
    <3> QED
      BY <3>5
  <2> QED
    BY <2>3, <2>4
<1> QED
  BY <1>4, <1>5, <1>6, <1>7

LEMMA WayUndisturbed ==
    ASSUME OnItsWay, moved \subseteq moved',
           UNCHANGED <<request, pending, current, batch, results>>
    PROVE  OnItsWay'
<1> SUFFICES ASSUME ~truncated', NEW f, NEW k, Passable(f, k)'
             PROVE  Waits(f, k)' \/ Listed(f, k)' \/ Told(f, k)'
  BY DEF OnItsWay
<1>1. Passable(f, k)
  BY PassableKept
<1>2. /\ pending' = pending /\ current' = current /\ batch' = batch /\ documents' = documents
      /\ issues' = issues /\ ~truncated
  BY DEF results
<1>3. Waits(f, k) \/ Listed(f, k) \/ Told(f, k)
  BY <1>1, <1>2 DEF OnItsWay
<1>4. CASE Waits(f, k)
  BY <1>2, <1>4, WaitsKept
<1>5. CASE Told(f, k)
  BY <1>2, <1>5, ToldKept
<1>6. CASE Listed(f, k)
  <2>1. PICK j \in 0 .. k - 1, i \in DOMAIN batch : IsAt(current, f, k, j) /\ Stands(batch[i], f, k, j)
    BY <1>6 DEF Listed
  <2>2. i \in DOMAIN batch' /\ IsAt(current', f, k, j) /\ Stands(batch'[i], f, k, j)
    BY <1>2, <2>1
  <2>3. Listed(f, k)'
    BY <2>2 DEF Listed, Stands, IsAt, Prefix, Turn, Kind
  <2> QED
    BY <2>3
<1> QED
  BY <1>3, <1>4, <1>5, <1>6

\* The head of the queue or a directory behind it.
LEMMA WaitsBehind ==
    ASSUME TypesInv, NEW f, NEW k, Waits(f, k), pending # <<>>, pending' = Tail(pending)
    PROVE  \/ Waits(f, k)'
           \/ \E j \in 0 .. k - 1 : IsAt(Head(pending), f, k, j)
<1>1. PICK j \in 0 .. k - 1, i \in DOMAIN pending : IsAt(pending[i], f, k, j)
  BY DEF Waits
<1>2. pending \in Seq(DirectoryRecords)
  BY SequenceTypes
<1>3. CASE i = 1
  <2>1. Head(pending) = pending[i]
    BY <1>2, <1>3
  <2> QED
    BY <1>1, <2>1
<1>4. CASE i # 1
  <2>1. i - 1 \in DOMAIN Tail(pending) /\ Tail(pending)[i - 1] = pending[i]
    BY <1>2, <1>4
  <2>2. PICK m : m \in DOMAIN pending' /\ pending'[m] = pending[i]
    BY <2>1
  <2>3. IsAt(pending'[m], f, k, j)
    BY <1>1, <2>2
  <2>4. Waits(f, k)'
    BY <2>2, <2>3 DEF Waits, IsAt, Prefix, Turn
  <2> QED
    BY <2>4
<1> QED
  BY <1>3, <1>4

LEMMA WayRead ==
    ASSUME TypesInv, PlaceInv, OnItsWay, ReadDirectory
    PROVE  OnItsWay'
<1> SUFFICES ASSUME ~truncated', NEW f, NEW k, Passable(f, k)'
             PROVE  Waits(f, k)' \/ Listed(f, k)' \/ Told(f, k)'
  BY DEF OnItsWay
<1>1. /\ batch = <<>> /\ pending # <<>> /\ current' = Head(pending) /\ pending' = Tail(pending)
      /\ moved' = moved /\ request' = request /\ documents' = documents /\ issues' = issues
      /\ truncated' = truncated
  BY DEF ReadDirectory, NextDirectory, world, results
<1>2. Passable(f, k)
  BY <1>1, PassableKept
<1>3. Waits(f, k) \/ Listed(f, k) \/ Told(f, k)
  BY <1>1, <1>2 DEF OnItsWay
<1>4. CASE Told(f, k)
  BY <1>1, <1>4, ToldKept
<1>5. CASE Listed(f, k)
  BY <1>1, <1>5 DEF Listed
<1>6. ASSUME NEW j \in 0 .. k - 1, IsAt(Head(pending), f, k, j)
      PROVE  Listed(f, k)'
  <2>1. PICK d \in Directories, s \in SUBSET Strays :
            /\ d = Resolve(Head(pending).path)
            /\ batch' = Sorted(Entries(Head(pending).path, d) \cup s)
    BY DEF ReadDirectory
  <2>2. PICK path : path = Head(pending).path
    OBVIOUS
  <2>3. path = Prefix(f, k, j) /\ Leads(f, k) /\ Stays(f, k)
    BY <1>2, <1>6, <2>2, PassableStays DEF IsAt, Passable
  <2>4. d = Turn(f, k - j)
    BY <2>1, <2>2, <2>3, WayResolved DEF TypesInv
  <2>5. PICK i : i = k - (j + 1)
    OBVIOUS
  <2>6. i \in 0 .. k - 1 /\ i + 1 = k - j
    <3>1. k \in Nat
      BY <2>3, TreeSize DEF Leads
    <3> QED
      BY <2>5, <3>1
  <2>7. PICK n : n = Turn(f, i)
    OBVIOUS
  <2>8. n \in Nodes /\ InitialPlace[n].dir = d /\ place[n] = InitialPlace[n]
    BY <2>3, <2>4, <2>6, <2>7, WayFacts DEF Stays
  <2> DEFINE S == Entries(path, d) \cup s
             e == SnapshotEntry(path, n)
  <2>9. e \in S
    BY <2>8 DEF Entries
  <2>10. /\ IsFiniteSet(S) /\ \A x \in S : x.name \in Int
         /\ \A x, y \in S : x.name = y.name => x = y
    BY EntriesFacts DEF TypesInv
  <2>11. Append(path, InitialPlace[n].name) = Prefix(f, k, j + 1)
    BY <2>3, <2>5, <2>7, PrefixAppend
  <2>12. /\ e.node = n /\ e.name = InitialPlace[n].name /\ e.path = Prefix(f, k, j + 1)
         /\ e.inside = TRUE /\ e.kind = Kind(n)
    BY <2>8, <2>11 DEF SnapshotEntry
  <2> HIDE DEF S, e
  <2>13. PICK m \in DOMAIN Sorted(S) : Sorted(S)[m] = e
    BY <2>9, <2>10, SortedFacts
  <2>14. batch' = Sorted(S)
    BY <2>1, <2>2 DEF S
  <2>15. m \in DOMAIN batch' /\ batch'[m] = e
    BY <2>13, <2>14
  <2>16. Stands(batch'[m], f, k, j)
    BY <2>5, <2>7, <2>12, <2>15 DEF Stands
  <2>17. IsAt(current', f, k, j)
    BY <1>1, <1>6
  <2> QED
    BY <2>15, <2>16, <2>17 DEF Listed, Stands, IsAt, Prefix, Turn, Kind
<1>7. CASE Waits(f, k)
  BY <1>1, <1>6, <1>7, WaitsBehind
<1> QED
  BY <1>3, <1>4, <1>5, <1>7

LEMMA WaySkipped ==
    ASSUME TypesInv, OnItsWay, SkipUnreadable
    PROVE  OnItsWay'
<1> SUFFICES ASSUME ~truncated', NEW f, NEW k, Passable(f, k)'
             PROVE  Waits(f, k)' \/ Listed(f, k)' \/ Told(f, k)'
  BY DEF OnItsWay
<1> DEFINE note == [path |-> Head(pending).path, code |-> "inaccessible"]
<1>1. /\ batch = <<>> /\ pending # <<>> /\ pending' = Tail(pending)
      /\ moved' = moved /\ request' = request /\ documents' = documents
      /\ issues' = Append(issues, note) /\ truncated' = truncated
  BY DEF SkipUnreadable, UnreadableDirectory, NextDirectory, Note, world
<1>2. Passable(f, k)
  BY <1>1, PassableKept
<1>3. Waits(f, k) \/ Listed(f, k) \/ Told(f, k)
  BY <1>1, <1>2 DEF OnItsWay
<1>4. note.path = Head(pending).path /\ note.code = "inaccessible"
  OBVIOUS
<1> HIDE DEF note
<1>5. /\ \A i \in DOMAIN issues : \E m \in DOMAIN issues' : issues'[m] = issues[i]
      /\ \E m \in DOMAIN issues' : issues'[m] = note
  <2>1. PICK S, old : old \in Seq(S) /\ old = issues
    BY SequenceTypes
  <2>2. PICK t : t = issues' /\ t = Append(old, note)
    BY <1>1, <2>1
  <2>3. /\ \A i \in DOMAIN old : \E m \in DOMAIN t : t[m] = old[i]
        /\ \E m \in DOMAIN t : t[m] = note
    BY <2>1, <2>2, AppendGrows
  <2> QED
    BY <2>1, <2>2, <2>3
<1>6. CASE Told(f, k)
  BY <1>1, <1>5, <1>6, ToldKept
<1>7. CASE Listed(f, k)
  BY <1>1, <1>7 DEF Listed
<1>8. ASSUME NEW j \in 0 .. k - 1, IsAt(Head(pending), f, k, j)
      PROVE  Told(f, k)'
  <2>1. PICK m \in DOMAIN issues' : issues'[m] = note
    BY <1>5
  <2>2. IsStrictPrefix(note.path, PathTo(f, k))
    BY <1>2, <1>4, <1>8, PrefixAll DEF IsAt, Passable
  <2>3. issues'[m].code = "inaccessible" /\ IsStrictPrefix(issues'[m].path, PathTo(f, k))
    BY <1>4, <2>1, <2>2
  <2> QED
    BY <2>3 DEF Told
<1>9. CASE Waits(f, k)
  BY <1>1, <1>8, <1>9, WaitsBehind
<1> QED
  BY <1>3, <1>6, <1>7, <1>9

LEMMA FoundStep ==
    ASSUME TypesInv, FoundInv, [Next]_vars
    PROVE  FoundInv'
<1>0. PlaceInv /\ ReturnInv /\ OnItsWay
  BY DEF FoundInv
<1>1. CASE ReadDirectory
  <2>1. PlaceInv' /\ ReturnInv'
    BY <1>0, <1>1 DEF ReadDirectory, NextDirectory, PlaceInv, ReturnInv, world
  <2> QED
    BY <1>0, <1>1, <2>1, WayRead DEF FoundInv
<1>2. CASE SkipUnreadable
  <2>1. PlaceInv' /\ ReturnInv'
    BY <1>0, <1>2 DEF SkipUnreadable, NextDirectory, PlaceInv, ReturnInv, world
  <2> QED
    BY <1>0, <1>2, <2>1, WaySkipped DEF FoundInv
<1>3. CASE EntryLimit
  <2>1. PlaceInv' /\ ReturnInv'
    BY <1>0, <1>3 DEF EntryLimit, NextEntry, PlaceInv, ReturnInv, world
  <2>2. OnItsWay'
    BY <1>3 DEF EntryLimit, OnItsWay
  <2> QED
    BY <2>1, <2>2 DEF FoundInv
<1>4. CASE ProcessEntry
  <2>1. PlaceInv' /\ ReturnInv'
    BY <1>0, <1>4 DEF ProcessEntry, NextEntry, PlaceInv, ReturnInv, world
  <2> QED
    BY <1>0, <1>4, <2>1, WayProcessed DEF FoundInv
<1>5. CASE Return
  <2>1. PlaceInv' /\ ReturnInv'
    BY <1>0, <1>5 DEF Return, PlaceInv, ReturnInv, world, results
  <2>2. OnItsWay'
    BY <1>0, <1>5, WayUndisturbed DEF Return, world, results
  <2> QED
    BY <2>1, <2>2 DEF FoundInv
<1>6. CASE User
  <2>1. PICK n \in Movable, d \in Directories \cup {Nowhere}, name \in Names : Move(n, d, name)
    BY <1>6, UserMoves
  <2>2. /\ place' = [place EXCEPT ![n] = [dir |-> d, name |-> name]] /\ moved' = moved \cup {n}
        /\ UNCHANGED <<request, pending, current, batch, results, returned>>
    BY <2>1 DEF Move
  <2>3. PlaceInv'
    <3> SUFFICES ASSUME NEW m \in Nodes, m \notin moved'
                 PROVE  place'[m] = InitialPlace[m]
      BY DEF PlaceInv
    <3>1. m \notin moved /\ m # n
      BY <2>2
    <3>2. place'[m] = place[m]
      BY <2>2, <3>1 DEF TypesInv, TreeInv
    <3> QED
      BY <1>0, <3>1, <3>2 DEF PlaceInv
  <2>4. ReturnInv'
    BY <1>0, <2>2 DEF ReturnInv, results
  <2>5. OnItsWay'
    BY <1>0, <2>2, WayUndisturbed
  <2> QED
    BY <2>3, <2>4, <2>5 DEF FoundInv
<1>7. CASE UNCHANGED vars
  <2>1. PlaceInv' /\ ReturnInv'
    BY <1>0, <1>7 DEF vars, PlaceInv, ReturnInv, world, results
  <2>2. OnItsWay'
    BY <1>0, <1>7, WayUndisturbed DEF vars, world, results
  <2> QED
    BY <2>1, <2>2 DEF FoundInv
<1> QED
  BY <1>1, <1>2, <1>3, <1>4, <1>5, <1>6, <1>7 DEF Next, Scan

LEMMA FoundInit == Init => FoundInv
<1> SUFFICES ASSUME Init
             PROVE  FoundInv
  OBVIOUS
<1>1. PlaceInv /\ ReturnInv
  BY DEF Init, PlaceInv, ReturnInv
<1>2. ASSUME NEW f, NEW k, Passable(f, k)
      PROVE  Waits(f, k)
  <2>1. Leads(f, k) /\ k \in Nat /\ k >= 1 /\ 0 \in 0 .. k - 1 /\ 0 \in 0 .. k
    BY <1>2, TreeSize DEF Passable, Leads
  <2>2. Prefix(f, k, 0) = <<>>
    <3>1. Prefix(f, k, 0) \in Seq(Names) /\ Len(Prefix(f, k, 0)) = 0
      BY <2>1, PrefixFacts
    <3> HIDE DEF Prefix
    <3> QED
      BY <3>1
  <2>3. 1 \in DOMAIN pending /\ pending[1] = Top
    BY DEF Init
  <2>4. IsAt(pending[1], f, k, 0)
    BY <2>2, <2>3 DEF IsAt, Top
  <2> QED
    BY <2>1, <2>3, <2>4 DEF Waits
<1> QED
  BY <1>1, <1>2 DEF FoundInv, OnItsWay

LEMMA FoundAlways == Spec => []FoundInv
<1>1. TypesInv /\ FoundInv /\ [Next]_vars => FoundInv'
  BY FoundStep
<1>2. ScanInv => TypesInv
  BY DEF ScanInv
<1> QED
  BY <1>1, <1>2, FoundInit, ScanAlways, PTL DEF Spec

\* Whatever moves elsewhere in the tree, whatever cannot be read: a scan that
\* returns untruncated has reported each document that stayed in its place once,
\* or the issue of a directory above it that could not be read.
THEOREM NothingIsOverlooked == Spec => []FoundOrReported
<1>1. ASSUME TypesInv, PathsDistinct, FoundInv
      PROVE  FoundOrReported
  <2> SUFFICES ASSUME returned, ~truncated, NEW f \in Files,
                      NEW k \in 1 .. Cardinality(Directories), Steady(f, k)
               PROVE  Reported(f, PathTo(f, k)) = 1 \/ Unread(PathTo(f, k))
    BY DEF FoundOrReported
  <2>1. batch = <<>> /\ pending = <<>>
    BY <1>1 DEF FoundInv, ReturnInv
  <2>2. Passable(f, k)
    BY SteadyMeans
  <2>3. Waits(f, k) \/ Listed(f, k) \/ Told(f, k)
    BY <1>1, <2>2 DEF FoundInv, OnItsWay
  <2>4. Told(f, k)
    BY <2>1, <2>3 DEF Waits, Listed
  <2>5. CASE \E i \in DOMAIN issues : /\ issues[i].code = "inaccessible"
                                      /\ IsStrictPrefix(issues[i].path, PathTo(f, k))
    <3>1. DOMAIN issues = 1 .. Len(issues)
      BY <1>1, SequenceTypes
    <3> QED
      BY <2>5, <3>1 DEF Unread
  <2>6. CASE \E i \in DOMAIN documents : documents[i].node = f /\ documents[i].path = PathTo(f, k)
    <3>1. DOMAIN documents = 1 .. Len(documents)
      BY <1>1, SequenceTypes
    <3>2. PICK i \in 1 .. Len(documents) : documents[i].node = f /\ documents[i].path = PathTo(f, k)
      BY <2>6, <3>1
    <3> DEFINE R == {m \in 1 .. Len(documents) : documents[m].node = f
                                                   /\ documents[m].path = PathTo(f, k)}
    <3>3. \A m \in R : m = i
      BY <1>1, <3>2 DEF PathsDistinct
    <3>4. i \in R
      BY <3>2
    <3> HIDE DEF R
    <3>5. R = {i}
      BY <3>3, <3>4
    <3>6. Cardinality(R) = 1
      BY <3>5, FS_Singleton
    <3> QED
      BY <3>6 DEF Reported, R
  <2> QED
    BY <2>4, <2>5, <2>6 DEF Told
<1>2. ScanInv => TypesInv /\ PathsDistinct
  BY DEF ScanInv, PathsInv
<1> QED
  BY <1>1, <1>2, FoundAlways, ScanAlways, PTL

-----------------------------------------------------------------------------
(* Nothing outside the root is read unless a link was moved.                 *)

\* Neither a link nor a directory a link is in was moved so far.
LinksStay ==
    \A l \in Links, i \in 0 .. Cardinality(Directories) : Climb(InitialPlace, l)[i] \notin moved

TreeLike(where) ==
    /\ where \in [Nodes -> [dir : Directories \cup {Nowhere}, name : Names]]
    /\ \A m, n \in Nodes : where[m] = where[n] /\ where[m].dir # Nowhere => m = n

Agrees(where) == \A n \in Nodes \ moved : where[n] = InitialPlace[n]

\* The first i names of the path lead from the root to w[i], from directory to directory.
Chain(where, w, path, i) ==
    /\ w[0] = Root
    /\ \A t \in 1 .. i : /\ w[t] \in Nodes
                         /\ where[w[t]].dir = w[t - 1] /\ where[w[t]].name = path[t]

\* The path goes through no link.
Clean(path) ==
    \A w, i : i \in 1 .. Len(path) /\ Chain(InitialPlace, w, path, i) => w[i] \notin Links

LEMMA TreesAlike == TreeLike(InitialPlace) /\ (TreeInv <=> TreeLike(place)) /\ Root \notin Nodes
BY TreeAssumption DEF TreeLike, TreeInv, Nodes

LEMMA ChainParts ==
    ASSUME NEW where, TreeLike(where), NEW w, NEW path, NEW i \in Nat, Chain(where, w, path, i)
    PROVE  /\ \A t \in 0 .. i - 1 : w[t] \in Directories
           /\ \A t \in 1 .. i : /\ w[t] \in Nodes
                                /\ where[w[t]].dir = w[t - 1] /\ where[w[t]].name = path[t]
<1>1. w[0] = Root /\ Root \in Directories
  BY TreeAssumption DEF Chain
<1>2. \A t \in 1 .. i : /\ w[t] \in Nodes
                        /\ where[w[t]].dir = w[t - 1] /\ where[w[t]].name = path[t]
  BY DEF Chain
<1>3. ASSUME NEW t \in 0 .. i - 1
      PROVE  w[t] \in Directories
  <2>1. PICK u : u = t + 1
    OBVIOUS
  <2>2. u \in 1 .. i /\ u - 1 = t
    BY <2>1
  <2>3. w[u] \in Nodes /\ where[w[u]].dir = w[t]
    BY <1>2, <2>2
  <2>4. where[w[u]] \in [dir : Directories \cup {Nowhere}, name : Names]
    BY <2>3 DEF TreeLike
  <2>5. w[t] \in Directories \cup {Nowhere}
    BY <2>3, <2>4
  <2>6. t = 0 \/ t \in 1 .. i
    OBVIOUS
  <2>7. w[t] # Nowhere
    BY <1>1, <1>2, <2>6, TreeAssumption
  <2> QED
    BY <2>5, <2>7
<1> QED
  BY <1>2, <1>3

\* No directory is in itself.
LEMMA ChainSize ==
    ASSUME NEW where, TreeLike(where), NEW w, NEW path, NEW m \in Nat, Chain(where, w, path, m),
           w[m] \in Directories
    PROVE  m + 1 <= Cardinality(Directories)
<1>1. /\ \A t \in 0 .. m : w[t] \in Directories
      /\ \A t \in 1 .. m : w[t] \in Nodes /\ where[w[t]].dir = w[t - 1]
  <2>1. /\ \A t \in 0 .. m - 1 : w[t] \in Directories
        /\ \A t \in 1 .. m : w[t] \in Nodes /\ where[w[t]].dir = w[t - 1]
    BY ChainParts
  <2>2. \A t \in 0 .. m : t = m \/ t \in 0 .. m - 1
    OBVIOUS
  <2> QED
    BY <2>1, <2>2
<1> DEFINE S == {a \in Nat : \E b \in Nat : a < b /\ b <= m /\ w[a] = w[b]}
<1>2. ASSUME S # {}
      PROVE  FALSE
  <2>1. PICK a \in S : \A x \in S : a <= x
    <3>1. S \subseteq Nat
      OBVIOUS
    <3> HIDE DEF S
    <3> QED
      BY <1>2, <3>1, LeastNumber
  <2>2. PICK b \in Nat : a \in Nat /\ a < b /\ b <= m /\ w[a] = w[b]
    OBVIOUS
  <2>3. b \in 1 .. m
    BY <2>2
  <2>4. a # 0
    BY <1>1, <2>2, <2>3, TreesAlike DEF Chain
  <2>5. a \in 1 .. m /\ a - 1 \in Nat /\ b - 1 \in Nat /\ a - 1 < b - 1 /\ b - 1 <= m /\ ~(a <= a - 1)
    BY <2>2, <2>3, <2>4
  <2>6. w[a - 1] = w[b - 1]
    BY <1>1, <2>2, <2>3, <2>5
  <2>7. a - 1 \in S
    BY <2>5, <2>6
  <2> HIDE DEF S
  <2> QED
    BY <2>1, <2>5, <2>7
<1>3. ASSUME NEW a \in 0 .. m, NEW b \in 0 .. m, w[a] = w[b]
      PROVE  a = b
  <2>1. ~(a < b)
    BY <1>2, <1>3
  <2>2. ~(b < a)
    BY <1>2, <1>3
  <2> QED
    BY <2>1, <2>2
<1> HIDE DEF S
<1> DEFINE f == [t \in 0 .. m |-> w[t]]
<1>4. f \in Injection(0 .. m, Directories)
  BY <1>1, <1>3 DEF Injection, IsInjective
<1> HIDE DEF f
<1>5. IsFiniteSet(0 .. m) /\ Cardinality(0 .. m) = m + 1
  <2>1. 0 \in Int /\ m \in Int /\ ~(0 > m)
    OBVIOUS
  <2>2. IsFiniteSet(0 .. m) /\ Cardinality(0 .. m) = m - 0 + 1
    BY <2>1, FS_Interval
  <2> QED
    BY <2>2
<1>6. Cardinality(0 .. m) <= Cardinality(Directories)
  BY <1>4, TreeSize, FS_Injection
<1> QED
  BY <1>5, <1>6

LEMMA ChainBeneath ==
    ASSUME TreeInv, NEW w, NEW path, NEW m \in Nat, Chain(place, w, path, m),
           w[m] \in Directories
    PROVE  Beneath(w[m])
<1>1. TreeLike(place)
  BY TreesAlike
<1>2. m + 1 <= Cardinality(Directories) /\ Cardinality(Directories) \in Nat
  BY <1>1, ChainSize, TreeSize
<1>3. CASE m = 0
  BY <1>3 DEF Chain, Beneath
<1>4. CASE m # 0
  <2> DEFINE c(i) == Climb(place, w[m])[i]
             S == {i \in Nat : i <= m /\ c(i) # w[m - i]}
  <2>1. c(0) = w[m] /\ \A i \in 1 .. Cardinality(Directories) : c(i) = Up(place, c(i - 1))
    BY ClimbFacts
  <2> HIDE DEF c
  <2>2. ASSUME S # {}
        PROVE  FALSE
    <3>1. PICK i \in S : \A x \in S : i <= x
      <4>1. S \subseteq Nat
        OBVIOUS
      <4> HIDE DEF S
      <4> QED
        BY <2>2, <4>1, LeastNumber
    <3>2. i \in Nat /\ i <= m /\ c(i) # w[m - i]
      OBVIOUS
    <3>3. i # 0
      <4>1. m - 0 = m
        OBVIOUS
      <4> QED
        BY <2>1, <3>2, <4>1
    <3>4. /\ i - 1 \in Nat /\ i - 1 <= m /\ ~(i <= i - 1) /\ i \in 1 .. Cardinality(Directories)
      BY <1>2, <3>2, <3>3
    <3>5. PICK u : u = m - (i - 1)
      OBVIOUS
    <3>6. u \in 1 .. m /\ u - 1 = m - i
      BY <3>2, <3>3, <3>5
    <3>7. c(i - 1) = w[u]
      <4>1. i - 1 \notin S
        BY <3>1, <3>4
      <4> QED
        BY <3>4, <3>5, <4>1
    <3>8. w[u] \in Nodes /\ place[w[u]].dir = w[m - i]
      BY <3>6 DEF Chain
    <3>9. c(i) = w[m - i]
      BY <2>1, <3>4, <3>7, <3>8 DEF Up
    <3> QED
      BY <3>2, <3>9
  <2>3. m \notin S /\ m - m = 0
    BY <2>2
  <2>4. c(m) = Root
    BY <2>3 DEF Chain
  <2>5. m \in 1 .. Cardinality(Directories)
    BY <1>2, <1>4
  <2> QED
    BY <2>4, <2>5 DEF Beneath, Above, c
<1> QED
  BY <1>3, <1>4

\* A way to a link does not change.
LEMMA LinkWay ==
    ASSUME LinksStay, NEW here, NEW there, TreeLike(here), Agrees(here), Agrees(there),
           NEW w, NEW path, NEW i \in Nat \ {0}, Chain(here, w, path, i), w[i] \in Links
    PROVE  Chain(there, w, path, i)
<1>1. i - 1 \in Nat /\ Chain(here, w, path, i - 1) /\ w[i - 1] \in Directories
  <2>1. i \in Nat /\ i - 1 \in Nat /\ i - 1 \in 0 .. i - 1 /\ \A t \in 1 .. i - 1 : t \in 1 .. i
    OBVIOUS
  <2>2. Chain(here, w, path, i - 1)
    BY <2>1 DEF Chain
  <2>3. \A t \in 0 .. i - 1 : w[t] \in Directories
    BY <2>1, ChainParts
  <2> QED
    BY <2>1, <2>2, <2>3
<1>2. i <= Cardinality(Directories) /\ Cardinality(Directories) \in Nat
  <2>1. (i - 1) + 1 <= Cardinality(Directories)
    BY <1>1, ChainSize
  <2> QED
    BY <2>1, TreeSize
<1> DEFINE c(n) == Climb(InitialPlace, w[i])[n]
           S == {n \in Nat : n <= i - 1 /\ c(n) # w[i - n]}
<1>3. c(0) = w[i] /\ \A n \in 1 .. Cardinality(Directories) : c(n) = Up(InitialPlace, c(n - 1))
  BY ClimbFacts
<1>4. \A n \in 0 .. Cardinality(Directories) : c(n) \notin moved
  BY DEF LinksStay
<1> HIDE DEF c
<1>5. ASSUME S # {}
      PROVE  FALSE
  <2>1. PICK n \in S : \A x \in S : n <= x
    <3>1. S \subseteq Nat
      OBVIOUS
    <3> HIDE DEF S
    <3> QED
      BY <1>5, <3>1, LeastNumber
  <2>2. n \in Nat /\ n <= i - 1 /\ c(n) # w[i - n]
    OBVIOUS
  <2>3. n # 0
    <3>1. i - 0 = i
      OBVIOUS
    <3> QED
      BY <1>3, <2>2, <3>1
  <2>4. /\ n - 1 \in Nat /\ n - 1 <= i - 1 /\ ~(n <= n - 1) /\ n \in 1 .. Cardinality(Directories)
        /\ n - 1 \in 0 .. Cardinality(Directories)
    BY <1>2, <2>2, <2>3
  <2>5. PICK u : u = i - (n - 1)
    OBVIOUS
  <2>6. u \in 1 .. i /\ u - 1 = i - n
    BY <2>2, <2>3, <2>5
  <2>7. c(n - 1) = w[u]
    <3>1. n - 1 \notin S
      BY <2>1, <2>4
    <3> QED
      BY <2>4, <2>5, <3>1
  <2>8. w[u] \in Nodes /\ here[w[u]].dir = w[i - n]
    BY <2>6 DEF Chain
  <2>9. here[w[u]] = InitialPlace[w[u]]
    BY <1>4, <2>4, <2>7, <2>8 DEF Agrees
  <2>10. c(n) = w[i - n]
    BY <1>3, <2>4, <2>7, <2>8, <2>9 DEF Up
  <2> QED
    BY <2>2, <2>10
<1>6. ASSUME NEW t \in 1 .. i
      PROVE  w[t] \in Nodes /\ there[w[t]].dir = w[t - 1] /\ there[w[t]].name = path[t]
  <2>1. w[t] \in Nodes /\ here[w[t]].dir = w[t - 1] /\ here[w[t]].name = path[t]
    BY DEF Chain
  <2>2. PICK n : n = i - t
    OBVIOUS
  <2>3. n \in Nat /\ n <= i - 1 /\ i - n = t /\ n \in 0 .. Cardinality(Directories)
    BY <1>2, <2>2
  <2>4. c(n) = w[t]
    <3>1. n \notin S
      BY <1>5
    <3> QED
      BY <2>3, <3>1
  <2>5. w[t] \notin moved
    BY <1>4, <2>3, <2>4
  <2>6. here[w[t]] = there[w[t]]
    BY <2>1, <2>5 DEF Agrees
  <2> QED
    BY <2>1, <2>6
<1> QED
  BY <1>6 DEF Chain

LEMMA ChainUnique ==
    ASSUME NEW where, TreeLike(where), NEW path, NEW i \in Nat, NEW v, NEW w,
           Chain(where, v, path, i), Chain(where, w, path, i)
    PROVE  v[i] = w[i]
<1> DEFINE S == {t \in Nat : t <= i /\ v[t] # w[t]}
<1>1. ASSUME S # {}
      PROVE  FALSE
  <2>1. PICK t \in S : \A x \in S : t <= x
    <3>1. S \subseteq Nat
      OBVIOUS
    <3> HIDE DEF S
    <3> QED
      BY <1>1, <3>1, LeastNumber
  <2>2. t \in Nat /\ t <= i /\ v[t] # w[t]
    OBVIOUS
  <2>3. t # 0
    BY <2>2 DEF Chain
  <2>4. t - 1 \in Nat /\ t - 1 <= i /\ ~(t <= t - 1) /\ t \in 1 .. i /\ t - 1 \in 0 .. i - 1
    BY <2>2, <2>3
  <2>5. v[t - 1] = w[t - 1]
    <3>1. t - 1 \notin S
      BY <2>1, <2>4
    <3> QED
      BY <2>4, <3>1
  <2>6. /\ v[t] \in Nodes /\ where[v[t]].dir = v[t - 1] /\ where[v[t]].name = path[t]
        /\ w[t] \in Nodes /\ where[w[t]].dir = w[t - 1] /\ where[w[t]].name = path[t]
    BY <2>4 DEF Chain
  <2>7. v[t - 1] # Nowhere
    <3>1. v[t - 1] \in Directories
      BY <2>4, ChainParts
    <3> QED
      BY <3>1, TreeAssumption
  <2>8. where[v[t]] \in [dir : Directories \cup {Nowhere}, name : Names]
        /\ where[w[t]] \in [dir : Directories \cup {Nowhere}, name : Names]
    BY <2>6 DEF TreeLike
  <2>9. where[v[t]] = where[w[t]]
    BY <2>5, <2>6, <2>8
  <2> QED
    BY <2>2, <2>6, <2>7, <2>9 DEF TreeLike
<1>2. i \notin S
  BY <1>1
<1> QED
  BY <1>2

\* Where a path that goes through no link leads.
LEMMA CleanResolved ==
    ASSUME LinksStay, TreeInv, Agrees(place), NEW path \in Seq(Names), Clean(path),
           Resolve(path) \in Directories
    PROVE  \E w : Chain(place, w, path, Len(path)) /\ w[Len(path)] = Resolve(path)
<1> DEFINE top == Len(path)
<1>1. top \in Nat
  BY LenProperties
<1>2. PICK w : /\ w[0] = Root
               /\ \A i \in 1 .. top : w[i] = Down(w[i - 1], path[i])
               /\ Resolve(path) = w[top]
  BY ResolveFacts
<1> HIDE DEF top
<1>3. TreeLike(place) /\ TreeLike(InitialPlace) /\ Agrees(InitialPlace)
  BY TreesAlike DEF Agrees
<1>4. ASSUME NEW d, d \notin Directories \/ \A name \in Names : Child(d, name) = {}, NEW name \in Names
      PROVE  Down(d, name) = Nowhere
  <2>1. Lookup(d, name) = Nowhere
    BY <1>4 DEF Lookup
  <2>2. Nowhere \notin Links
    BY TreeAssumption DEF Nodes
  <2> QED
    BY <2>1, <2>2 DEF Down, Follow
\* The walk never leaves the tree, since it would not come back.
<1>5. ASSUME NEW n \in 0 .. top, w[n] = Nowhere
      PROVE  FALSE
  <2> DEFINE S == {t \in Nat : n <= t /\ t <= top /\ w[t] # Nowhere}
  <2>1. top \in S
    BY <1>1, <1>2, TreeAssumption DEF top
  <2>2. PICK t \in S : \A x \in S : t <= x
    <3>1. S \subseteq Nat
      OBVIOUS
    <3> HIDE DEF S
    <3> QED
      BY <2>1, <3>1, LeastNumber
  <2>3. t \in Nat /\ n <= t /\ t <= top /\ w[t] # Nowhere
    OBVIOUS
  <2>4. t # n
    BY <1>5, <2>3
  <2>5. t \in 1 .. top /\ t - 1 \in Nat /\ n <= t - 1 /\ t - 1 <= top /\ ~(t <= t - 1)
    BY <1>1, <2>3, <2>4
  <2>6. w[t - 1] = Nowhere
    <3>1. t - 1 \notin S
      BY <2>2, <2>5
    <3> QED
      BY <2>5, <3>1
  <2>7. path[t] \in Names
    BY <2>5, ElementOfSeq DEF top
  <2>8. w[t - 1] \notin Directories
    BY <2>6, TreeAssumption
  <2>9. Down(w[t - 1], path[t]) = Nowhere
    BY <1>4, <2>7, <2>8
  <2>10. w[t] = Nowhere
    BY <1>2, <2>5, <2>9
  <2> QED
    BY <2>3, <2>10
<1> DEFINE B == {t \in Nat : t <= top /\ ~ Chain(place, w, path, t)}
<1>6. ASSUME B # {}
      PROVE  FALSE
  <2>1. PICK t \in B : \A x \in B : t <= x
    <3>1. B \subseteq Nat
      OBVIOUS
    <3> HIDE DEF B
    <3> QED
      BY <1>6, <3>1, LeastNumber
  <2>2. t \in Nat /\ t <= top /\ ~ Chain(place, w, path, t)
    OBVIOUS
  <2>3. t # 0
    <3>1. Chain(place, w, path, 0)
      BY <1>2 DEF Chain
    <3> QED
      BY <2>2, <3>1
  <2>4. /\ t \in 1 .. top /\ t \in Nat \ {0} /\ t \in 0 .. top
        /\ t - 1 \in Nat /\ t - 1 <= top /\ ~(t <= t - 1)
    BY <1>1, <2>2, <2>3
  <2>5. Chain(place, w, path, t - 1)
    <3>1. t - 1 \notin B
      BY <2>1, <2>4
    <3> QED
      BY <2>4, <3>1
  <2>6. path[t] \in Names
    BY <2>4, ElementOfSeq DEF top
  <2>7. PICK d, name, x : d = w[t - 1] /\ name = path[t] /\ x = Lookup(d, name)
    OBVIOUS
  <2>8. w[t] = Follow(x)
    BY <1>2, <2>4, <2>7 DEF Down
  <2>9. x # Nowhere
    <3>1. Nowhere \notin Links
      BY TreeAssumption DEF Nodes
    <3>2. w[t] # Nowhere
      BY <1>5, <2>4
    <3> QED
      BY <2>8, <3>1, <3>2 DEF Follow
  <2>10. x \in Child(d, name)
    BY <2>7, <2>9 DEF Lookup
  <2>11. x \in Nodes /\ place[x].dir = d /\ place[x].name = name
    BY <2>10 DEF Child
  <2> DEFINE v == [n \in 0 .. t |-> IF n = t THEN x ELSE w[n]]
  <2>12. v[t] = x /\ \A n \in 0 .. t - 1 : v[n] = w[n]
    BY <2>4
  <2> HIDE DEF v
  <2>13. Chain(place, v, path, t)
    <3>1. 0 \in 0 .. t - 1 /\ w[0] = Root
      BY <1>2, <2>4
    <3>2. v[0] = Root
      BY <2>12, <3>1
    <3>3. ASSUME NEW n \in 1 .. t
          PROVE  v[n] \in Nodes /\ place[v[n]].dir = v[n - 1] /\ place[v[n]].name = path[n]
      <4>1. n - 1 \in 0 .. t - 1
        BY <2>4
      <4>2. v[n - 1] = w[n - 1]
        BY <2>12, <4>1
      <4>3. CASE n = t
        BY <2>7, <2>11, <2>12, <4>2, <4>3
      <4>4. CASE n # t
        <5>1. n \in 0 .. t - 1 /\ n \in 1 .. t - 1
          BY <2>4, <4>4
        <5>2. v[n] = w[n]
          BY <2>12, <5>1
        <5>3. w[n] \in Nodes /\ place[w[n]].dir = w[n - 1] /\ place[w[n]].name = path[n]
          BY <2>5, <5>1 DEF Chain
        <5> QED
          BY <4>2, <5>2, <5>3
      <4> QED
        BY <4>3, <4>4
    <3> QED
      BY <3>2, <3>3 DEF Chain
  <2>14. x \notin Links
    <3> SUFFICES ASSUME x \in Links
                 PROVE  FALSE
      OBVIOUS
    <3>1. Chain(InitialPlace, v, path, t)
      BY <1>3, <2>4, <2>12, <2>13, LinkWay
    <3>2. v[t] \notin Links
      BY <2>4, <3>1 DEF Clean, top
    <3> QED
      BY <2>12, <3>2
  <2>15. w[t] = x
    BY <2>8, <2>14 DEF Follow
  <2>16. Chain(place, w, path, t)
    <3>1. w[0] = Root
      BY <1>2
    <3>2. ASSUME NEW n \in 1 .. t
          PROVE  w[n] \in Nodes /\ place[w[n]].dir = w[n - 1] /\ place[w[n]].name = path[n]
      <4>1. CASE n = t
        BY <2>7, <2>11, <2>15, <4>1
      <4>2. CASE n # t
        <5>1. n \in 1 .. t - 1
          BY <2>4, <4>2
        <5> QED
          BY <2>5, <5>1 DEF Chain
      <4> QED
        BY <4>1, <4>2
    <3> QED
      BY <3>1, <3>2 DEF Chain
  <2> QED
    BY <2>2, <2>16
<1>7. Chain(place, w, path, top)
  <2>1. top \notin B
    BY <1>6
  <2> QED
    BY <1>1, <2>1
<1> QED
  BY <1>2, <1>7 DEF top

\* The path of a directory that is no link, read in a directory of a clean path.
LEMMA CleanAppend ==
    ASSUME LinksStay, TreeInv, Agrees(place), NEW path \in Seq(Names), Clean(path),
           Resolve(path) \in Directories, NEW n \in Directories \cap Nodes,
           place[n].dir = Resolve(path)
    PROVE  Clean(Append(path, place[n].name))
<1> DEFINE top == Len(path)
           name == place[n].name
           long == Append(path, name)
<1>1. TreeLike(place) /\ TreeLike(InitialPlace) /\ Agrees(InitialPlace)
  BY TreesAlike DEF Agrees
<1>2. name \in Names
  <2>1. place[n] \in [dir : Directories \cup {Nowhere}, name : Names]
    BY DEF TreeInv
  <2> QED
    BY <2>1
<1> HIDE DEF name
<1>3. /\ top \in Nat /\ Len(long) = top + 1 /\ long[top + 1] = name
      /\ \A i \in 1 .. top : long[i] = path[i]
  BY <1>2, LenProperties, AppendProperties
<1>4. PICK w : Chain(place, w, path, top) /\ w[top] = Resolve(path)
  BY CleanResolved
<1> HIDE DEF long, top
<1> SUFFICES ASSUME NEW v, NEW i, i \in 1 .. top + 1, Chain(InitialPlace, v, long, i), v[i] \in Links
             PROVE  FALSE
  BY <1>3 DEF Clean, long, name
<1>5. i \in Nat \ {0}
  BY <1>3
<1>6. CASE i \in 1 .. top
  <2>1. \A t \in 1 .. i : long[t] = path[t]
    BY <1>3, <1>6
  <2>2. Chain(InitialPlace, v, path, i)
    BY <2>1 DEF Chain
  <2> QED
    BY <1>6, <2>2 DEF Clean, top
<1>7. CASE i = top + 1
  <2>1. Chain(place, v, long, i)
    BY <1>1, <1>5, LinkWay
  <2>2. i - 1 = top /\ i \in 1 .. i /\ \A t \in 1 .. top : t \in 1 .. i
    BY <1>3, <1>7
  <2>3. v[i] \in Nodes /\ place[v[i]].dir = v[top] /\ place[v[i]].name = name
    BY <1>3, <1>7, <2>1, <2>2 DEF Chain
  <2>4. Chain(place, v, path, top)
    BY <1>3, <2>1, <2>2 DEF Chain
  <2>5. v[top] = w[top]
    BY <1>1, <1>3, <1>4, <2>4, ChainUnique
  <2>6. place[n].dir = v[top] /\ place[n].name = name
    BY <1>4, <2>5 DEF name
  <2>7. place[v[i]] = place[n]
    <3>1. /\ place[v[i]] \in [dir : Directories \cup {Nowhere}, name : Names]
          /\ place[n] \in [dir : Directories \cup {Nowhere}, name : Names]
      BY <2>3 DEF TreeInv
    <3> QED
      BY <2>3, <2>6, <3>1
  <2>8. place[n].dir # Nowhere
    BY TreeAssumption
  <2>9. v[i] = n
    BY <2>3, <2>7, <2>8 DEF TreeInv
  <2> QED
    BY <2>9, TreeAssumption
<1> QED
  BY <1>3, <1>6, <1>7

\* An entry that was read in the root or below it; a directory of a clean path.
Trusted(e) == e \in Strays \/ (e.beneath /\ (e.kind = "directory" => Clean(e.path)))

\* As long as no link was moved, only clean paths are queued, so only the root and
\* directories below it are read.
Rooted ==
    /\ \A i \in DOMAIN pending : Clean(pending[i].path)
    /\ \A i \in DOMAIN batch : Trusted(batch[i])
    /\ \A i \in DOMAIN documents : documents[i].beneath

RootInv == LinksStay => Rooted

LEMMA RootRead ==
    ASSUME LinksStay, PlaceInv, TypesInv, Rooted, ReadDirectory
    PROVE  Rooted'
<1>1. /\ pending # <<>> /\ pending' = Tail(pending) /\ documents' = documents /\ place' = place
  BY DEF ReadDirectory, NextDirectory, world, results
<1>2. PICK d \in Directories, s \in SUBSET Strays :
          /\ d = Resolve(Head(pending).path)
          /\ batch' = Sorted(Entries(Head(pending).path, d) \cup s)
  BY DEF ReadDirectory
<1>3. PICK path : path = Head(pending).path
  OBVIOUS
<1>4. pending \in Seq(DirectoryRecords) /\ \A i \in DOMAIN pending : pending[i].path \in Seq(Names)
  BY PathFacts
<1>5. 1 \in DOMAIN pending /\ Head(pending) = pending[1]
  BY <1>1, <1>4
<1>6. path \in Seq(Names) /\ Clean(path)
  BY <1>3, <1>4, <1>5 DEF Rooted
<1>7. TreeInv /\ Agrees(place) /\ d = Resolve(path)
  BY <1>2, <1>3 DEF TypesInv, PlaceInv, Agrees
<1>8. Beneath(d)
  <2>1. PICK w : Chain(place, w, path, Len(path)) /\ w[Len(path)] = d
    BY <1>6, <1>7, CleanResolved
  <2>2. Len(path) \in Nat
    BY <1>6, LenProperties
  <2> QED
    BY <1>7, <2>1, <2>2, ChainBeneath
<1> DEFINE S == Entries(path, d) \cup s
<1>9. /\ IsFiniteSet(S) /\ \A x \in S : x.name \in Int
      /\ \A x, y \in S : x.name = y.name => x = y
  BY <1>7, EntriesFacts
<1>10. ASSUME NEW e \in S
       PROVE  Trusted(e)
  <2>1. CASE e \in s
    BY <2>1 DEF Trusted
  <2>2. CASE e \in Entries(path, d)
    <3>1. PICK n \in Nodes : place[n].dir = d /\ e = SnapshotEntry(path, n)
      BY <2>2 DEF Entries
    <3>2. /\ e.path = Append(path, place[n].name) /\ e.kind = Kind(n)
          /\ e.beneath = Beneath(place[n].dir)
      BY <3>1 DEF SnapshotEntry
    <3>3. e.beneath
      BY <1>8, <3>1, <3>2
    <3>4. ASSUME e.kind = "directory"
          PROVE  Clean(e.path)
      <4>1. n \in Directories
        BY <3>2, <3>4 DEF Kind, Nodes
      <4>2. Clean(Append(path, place[n].name))
        BY <1>6, <1>7, <3>1, <4>1, CleanAppend
      <4> QED
        BY <3>2, <4>2
    <3> QED
      BY <3>3, <3>4 DEF Trusted
  <2> QED
    BY <2>1, <2>2
<1>11. batch' = Sorted(S)
  BY <1>2, <1>3
<1> HIDE DEF S
<1>12. ASSUME NEW i \in DOMAIN batch'
       PROVE  Trusted(batch'[i])
  <2>1. Sorted(S) \in Seq(S)
    BY <1>9, SortedFacts
  <2>2. batch'[i] \in S
    BY <1>11, <2>1
  <2> QED
    BY <1>10, <2>2
<1>13. \A i \in DOMAIN pending' : Clean(pending'[i].path)
  <2> SUFFICES ASSUME NEW i \in DOMAIN pending'
               PROVE  Clean(pending'[i].path)
    OBVIOUS
  <2>1. i + 1 \in DOMAIN pending /\ pending'[i] = pending[i + 1]
    BY <1>1, <1>4
  <2>2. Clean(pending[i + 1].path)
    BY <2>1 DEF Rooted
  <2> QED
    BY <2>1, <2>2
<1>14. \A i \in DOMAIN documents' : documents'[i].beneath
  BY <1>1 DEF Rooted
<1> QED
  BY <1>12, <1>13, <1>14 DEF Rooted, Trusted, Clean, Chain

LEMMA RootKept ==
    ASSUME TypesInv, Rooted, documents' = documents,
           pending' = pending \/ (pending # <<>> /\ pending' = Tail(pending)),
           batch' = batch \/ (batch # <<>> /\ batch' = Tail(batch))
    PROVE  Rooted'
<1>2. ASSUME NEW i \in DOMAIN pending'
      PROVE  Clean(pending'[i].path)
  <2>1. pending \in Seq(DirectoryRecords)
    BY SequenceTypes
  <2>2. \E m \in DOMAIN pending : pending'[i] = pending[m]
    <3>1. CASE pending' = pending
      BY <1>2, <3>1
    <3>2. CASE pending # <<>> /\ pending' = Tail(pending)
      <4>1. i + 1 \in DOMAIN pending /\ pending'[i] = pending[i + 1]
        BY <1>2, <2>1, <3>2
      <4> QED
        BY <4>1
    <3> QED
      BY <3>1, <3>2
  <2>3. PICK m \in DOMAIN pending : pending'[i] = pending[m]
    BY <2>2
  <2>4. Clean(pending[m].path)
    BY DEF Rooted
  <2> QED
    BY <2>3, <2>4
<1>3. \A i \in DOMAIN batch : Trusted(batch[i])
  BY DEF Rooted
<1>4. ASSUME NEW i \in DOMAIN batch'
      PROVE  Trusted(batch'[i])
  <2>1. CASE batch' = batch
    BY <1>3, <1>4, <2>1
  <2>2. CASE batch # <<>> /\ batch' = Tail(batch)
    <3>1. i + 1 \in DOMAIN batch /\ batch'[i] = batch[i + 1]
      BY <1>4, <2>2, BatchFacts
    <3> QED
      BY <1>3, <3>1
  <2> QED
    BY <2>1, <2>2
<1>5. \A i \in DOMAIN documents' : documents'[i].beneath
  BY DEF Rooted
<1> QED
  BY <1>2, <1>4, <1>5 DEF Rooted, Trusted, Clean, Chain

LEMMA RootProcessed ==
    ASSUME TypesInv, Rooted, ProcessEntry
    PROVE  Rooted'
<1>1. Processes
  BY ProcessKinds
<1>2. batch # <<>> /\ batch' = Tail(batch)
  BY <1>1 DEF Processes
<1>3. ASSUME NEW e, Finds(e)
      PROVE  e.beneath /\ (e.kind = "directory" => Clean(e.path))
  <2>1. e = batch[1] /\ 1 \in DOMAIN batch /\ e.name \in Names
    BY <1>2, <1>3, BatchFacts DEF Finds
  <2>2. e \notin Strays
    BY <2>1, TreeAssumption
  <2> QED
    BY <2>1, <2>2 DEF Rooted, Trusted
<1>4. ASSUME UNCHANGED <<pending, documents>>
      PROVE  Rooted'
  BY <1>2, <1>4, RootKept
<1>5. ASSUME NEW i \in DOMAIN batch'
      PROVE  Trusted(batch'[i])
  <2>1. i + 1 \in DOMAIN batch /\ batch'[i] = batch[i + 1]
    BY <1>2, BatchFacts
  <2>2. Trusted(batch[i + 1])
    BY <2>1 DEF Rooted
  <2> QED
    BY <2>1, <2>2
<1>6. ASSUME NEW e, Queues(e)
      PROVE  Rooted'
  <2> DEFINE rec == [path |-> e.path, depth |-> current.depth + 1]
             N == Len(pending)
  <2>1. Finds(e) /\ e.kind = "directory" /\ pending' = Append(pending, rec) /\ documents' = documents
    BY <1>6 DEF Queues
  <2>2. Clean(e.path)
    BY <1>3, <2>1
  <2>3. /\ N \in Nat /\ DOMAIN pending = 1 .. N /\ DOMAIN pending' = 1 .. N + 1
        /\ \A i \in 1 .. N : pending'[i] = pending[i]
        /\ pending'[N + 1] = rec /\ rec.path = e.path
    <3>1. pending \in Seq(DirectoryRecords \cup {rec})
      BY PathFacts
    <3> HIDE DEF rec
    <3>2. /\ pending' \in Seq(DirectoryRecords \cup {rec}) /\ Len(pending') = Len(pending) + 1
          /\ \A i \in 1 .. Len(pending) : pending'[i] = pending[i]
          /\ pending'[Len(pending) + 1] = rec
      BY <2>1, <3>1, AppendProperties
    <3> QED
      BY <3>1, <3>2 DEF rec
  <2> HIDE DEF rec, N
  <2>4. ASSUME NEW i \in DOMAIN pending'
        PROVE  Clean(pending'[i].path)
    <3>1. CASE i \in 1 .. N
      <4>1. Clean(pending[i].path)
        BY <2>3, <3>1 DEF Rooted
      <4> QED
        BY <2>3, <3>1, <4>1
    <3>2. CASE i = N + 1
      BY <2>2, <2>3, <3>2
    <3> QED
      BY <2>3, <2>4, <3>1, <3>2
  <2>5. \A i \in DOMAIN documents' : documents'[i].beneath
    BY <2>1 DEF Rooted
  <2> QED
    BY <1>5, <2>4, <2>5 DEF Rooted, Trusted, Clean, Chain
<1>7. ASSUME NEW e, Discovers(e)
      PROVE  Rooted'
  <2> DEFINE N == Len(documents)
  <2>1. Finds(e) /\ documents' = Append(documents, e) /\ pending' = pending /\ e \in DocumentRecords
    BY <1>7 DEF Discovers
  <2>2. e.beneath
    BY <1>3, <2>1
  <2>3. /\ N \in Nat /\ DOMAIN documents = 1 .. N /\ DOMAIN documents' = 1 .. N + 1
        /\ \A i \in 1 .. N : documents'[i] = documents[i]
        /\ documents'[N + 1] = e
    <3>1. documents \in Seq(DocumentRecords)
      BY PathFacts
    <3>2. /\ documents' \in Seq(DocumentRecords) /\ Len(documents') = Len(documents) + 1
          /\ \A i \in 1 .. Len(documents) : documents'[i] = documents[i]
          /\ documents'[Len(documents) + 1] = e
      BY <2>1, <3>1, AppendProperties
    <3> QED
      BY <3>1, <3>2
  <2> HIDE DEF N
  <2>4. ASSUME NEW i \in DOMAIN documents'
        PROVE  documents'[i].beneath
    <3>1. CASE i \in 1 .. N
      BY <2>3, <3>1 DEF Rooted
    <3>2. CASE i = N + 1
      BY <2>2, <2>3, <3>2
    <3> QED
      BY <2>3, <2>4, <3>1, <3>2
  <2>5. \A i \in DOMAIN pending' : Clean(pending'[i].path)
    BY <2>1 DEF Rooted
  <2> QED
    BY <1>5, <2>4, <2>5 DEF Rooted, Trusted, Clean, Chain
<1>8. ASSUME NEW path, NEW code, Says(path, code)
      PROVE  Rooted'
  BY <1>4, <1>8 DEF Says
<1>9. ASSUME PassesOver
       PROVE  Rooted'
  BY <1>4, <1>9 DEF PassesOver
<1> QED
  BY <1>6, <1>7, <1>8, <1>9, ProcessKinds

\* What was moved stays moved.
LEMMA RootStep ==
    ASSUME PlaceInv, TypesInv, RootInv, [Next]_vars
    PROVE  RootInv'
<1> SUFFICES ASSUME LinksStay'
             PROVE  Rooted'
  BY DEF RootInv
<1>0. LinksStay /\ Rooted
  <2>1. moved \subseteq moved'
    BY DEF Next, Scan, ReadDirectory, SkipUnreadable, EntryLimit, ProcessEntry, Return, User, Move,
           vars, world
  <2>2. LinksStay
    BY <2>1 DEF LinksStay, Climb
  <2> QED
    BY <2>2 DEF RootInv
<1>1. CASE ReadDirectory
  BY <1>0, <1>1, RootRead
<1>2. CASE SkipUnreadable
  BY <1>0, <1>2, RootKept DEF SkipUnreadable, NextDirectory
<1>3. CASE EntryLimit
  BY <1>0, <1>3, RootKept DEF EntryLimit
<1>4. CASE ProcessEntry
  BY <1>0, <1>4, RootProcessed
<1>5. CASE Return
  BY <1>0, <1>5, RootKept DEF Return, results
<1>6. CASE User
  BY <1>0, <1>6, RootKept DEF User, Move, results
<1>7. CASE UNCHANGED vars
  BY <1>0, <1>7, RootKept DEF vars, results
<1> QED
  BY <1>1, <1>2, <1>3, <1>4, <1>5, <1>6, <1>7 DEF Next, Scan

LEMMA RootInit == Init => RootInv
<1> SUFFICES ASSUME Init
             PROVE  Rooted
  BY DEF RootInv
<1>1. /\ DOMAIN pending = {1} /\ pending[1] = Top /\ DOMAIN batch = {} /\ DOMAIN documents = {}
  BY DEF Init
<1>2. Clean(Top.path)
  <2>1. Top.path = <<>> /\ Len(<<>>) = 0
    BY DEF Top
  <2> QED
    BY <2>1 DEF Clean
<1> QED
  BY <1>1, <1>2 DEF Rooted

\* However files, directories and links move while scan_documents is on its way, in
\* and out of the root too: if a document is reported whose directory was not in the
\* root when it was read, then the user had moved a link, or a directory that one was
\* in.  (It takes a link at the path of a queued directory, which is then followed.)
THEOREM RootLeftOnlyByMovedLinks == Spec => []RootLeftByMovedLink
<1>1. TypesInv /\ RootInv => RootLeftByMovedLink
  <2> SUFFICES ASSUME TypesInv, RootInv, ~ RootNotBroadened
               PROVE  \E l \in Links : Carried(l)
    BY DEF RootLeftByMovedLink
  <2>1. DOMAIN documents = 1 .. Len(documents)
    BY SequenceTypes
  <2>2. ~ LinksStay
    BY <2>1 DEF RootInv, Rooted, RootNotBroadened
  <2>3. PICK l \in Links, i \in 0 .. Cardinality(Directories) : Climb(InitialPlace, l)[i] \in moved
    BY <2>2 DEF LinksStay
  <2> QED
    BY <2>3 DEF Carried
<1>2. ScanInv => TypesInv
  BY DEF ScanInv
<1>3. FoundInv => PlaceInv
  BY DEF FoundInv
<1>4. PlaceInv /\ TypesInv /\ RootInv /\ [Next]_vars => RootInv'
  BY RootStep
<1> QED
  BY <1>1, <1>2, <1>3, <1>4, RootInit, ScanAlways, FoundAlways, PTL DEF Spec
=============================================================================
