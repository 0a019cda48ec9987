-------------------------- MODULE WorkspaceCodecs --------------------------
(***************************************************************************)
(* The two formats in which a workspace leaves the process, as pure        *)
(* operators: the portable tar archive (src/mem_sandbox/workspace/         *)
(* archive_codec.py) and the JSON snapshot (snapshot_codec.py), both       *)
(* measured by snapshot_tree.py.                                           *)
(*                                                                         *)
(* A raw name is the sequence of what stands between its slashes: Dot, Up  *)
(* and Empty for ".", ".." and "" (so <<n, Empty>> is "n/"), and Odd for a *)
(* segment with a backslash or a drive.  A tar archive is                  *)
(* [profile, records, padded, trailer]: its compression, its physical      *)
(* records, each [kind, name, pax, content], whether all padding is zero,  *)
(* and the zero blocks at its end.  A hash stands for what is hashed, and  *)
(* MaxDepth for the limits on the bytes of a path and of a segment.        *)
(***************************************************************************)
EXTENDS WorkspaceTree

CONSTANTS
    Dot, Up, Empty, Odd,
    Wide,               \* names that do not fit a tar header: PAX has them
    Alphabet,           \* the names in the order of their strings
    Continued,          \* <<m, n>>: n is m and a character below the slash
    BlockBytes,         \* tarfile.BLOCKSIZE
    RecordBlocks,       \* tarfile.RECORDSIZE, in blocks
    EntryBytes,         \* an entry of the JSON document without its content
    MaxSnapshotBytes    \* WorkspaceLimits.max_snapshot_bytes

ASSUME CodecAssumption ==
    /\ BlockBytes \in Nat \ {0} /\ RecordBlocks \in Nat \ {0, 1}
    /\ EntryBytes \in Nat /\ MaxSnapshotBytes \in Nat

Rank(name) == CHOOSE i \in DOMAIN Alphabet : Alphabet[i] = name
Difference(p, q) == {i \in 1..Min({Len(p), Len(q)}) : p[i] # q[i]}

(* The order of paths by their segments, as _snapshot_entries meets them,  *)
(* and by their strings, where "n-" comes before "n/".                     *)
InTree(p, q) ==
    LET differ == Difference(p, q)
    IN  IF differ = {} THEN Len(p) < Len(q) ELSE Rank(p[Min(differ)]) < Rank(q[Min(differ)])

InText(p, q) ==
    LET differ == Difference(p, q)
        i == Min(differ)
    IN  CASE differ = {} -> Len(p) < Len(q)
          [] differ # {} /\ <<p[i], q[i]>> \in Continued -> Len(p) = i
          [] differ # {} /\ <<q[i], p[i]>> \in Continued -> Len(q) # i
          [] OTHER -> Rank(p[i]) < Rank(q[i])

-----------------------------------------------------------------------------
Entry(p, node) ==
    IF node = Dir THEN [path |-> p, kind |-> "dir", content |-> <<>>]
    ELSE [path |-> p, kind |-> "file", content |-> node]

(* _snapshot_entries: every node below the root, depth first.              *)
SnapshotEntries(t) ==
    LET order == SetToSortSeq(DOMAIN t \ {Root}, InTree)
    IN  [i \in DOMAIN order |-> Entry(order[i], t[order[i]])]

Ordered(entries) == SortSeq(entries, LAMBDA d, e : InText(d.path, e.path))

EmptyTree == [ok |-> TRUE, tree |-> [p \in {Root} |-> Dir]]
Refused == [EmptyTree EXCEPT !.ok = FALSE]

(* measure_workspace_entries: a complete tree, each parent a directory     *)
(* that came before.                                                       *)
Measure(acc, e) ==
    IF /\ acc.ok
       /\ e.path \notin DOMAIN acc.tree
       /\ \A q \in Ancestors(e.path) : IsDir(acc.tree, q)
    THEN [acc EXCEPT !.tree = Put(@, e.path, IF e.kind = "dir" THEN Dir ELSE e.content)]
    ELSE Refused

Measured(entries) == FoldLeft(Measure, EmptyTree, Ordered(entries))

ContentBytes(entries) == FoldLeft(LAMBDA sum, e : sum + Len(e.content), 0, entries)

-----------------------------------------------------------------------------
(* The JSON snapshot: its entries, what it declares about them, and        *)
(* whether envelope, digest, versions and metadata agree.                  *)
SnapshotBytes(d) == EntryBytes * Len(d.entries) + ContentBytes(d.entries)

Document(t, entries) ==
    [sound |-> TRUE, entries |-> entries, nodes |-> Cardinality(DOMAIN t),
     total |-> TotalBytes(t), hash |-> t]

(* Faulty variant: the entries are written as the tree gives them.         *)
EncodeSnapshotAsFound(t) == Document(t, SnapshotEntries(t))

EncodeSnapshot(t) == Document(t, Ordered(SnapshotEntries(t)))

(* SandboxPath.resolve drops what is empty or ".", and refuses "..".       *)
Resolved(name) == SelectSeq(name, LAMBDA s : s \notin {Dot, Empty})

(* _decode_entries *)
DecodeEntries(values) ==
    LET entries == [i \in DOMAIN values |-> [values[i] EXCEPT !.path = Resolved(@)]]
    IN  [ok |-> /\ \A e \in Range(entries) :
                      /\ e.kind \in {"dir", "file"}
                      /\ e.kind = "dir" => e.content = <<>>
                      /\ Len(e.content) <= MaxFileBytes
                      /\ Up \notin Range(e.path)
                      /\ e.path # Root /\ Len(e.path) <= MaxDepth
                /\ \A i \in 2..Len(entries) : InText(entries[i - 1].path, entries[i].path)
                /\ ContentBytes(entries) <= MaxTotalBytes,
         entries |-> entries]

DecodeSnapshot(d) ==
    LET decoded == DecodeEntries(d.entries)
        measured == Measured(decoded.entries)
    IN  IF /\ SnapshotBytes(d) <= MaxSnapshotBytes
           /\ d.sound
           /\ Len(d.entries) + 1 <= MaxNodes
           /\ decoded.ok /\ measured.ok
           /\ d.total = TotalBytes(measured.tree)
           /\ d.nodes = Cardinality(DOMAIN measured.tree)
           /\ d.hash = measured.tree
        THEN measured ELSE Refused

-----------------------------------------------------------------------------
(* Names in a tar archive.                                                 *)
RootMarkers == {<<Dot>>, <<Dot, Empty>>}
Relative(name) == IF Len(name) > 1 /\ name[1] = Dot THEN SubSeq(name, 2, Len(name)) ELSE name
Unslashed(name) == IF name[Len(name)] = Empty THEN SubSeq(name, 1, Len(name) - 1) ELSE name

(* _canonical_member_name: one leading "./", and one trailing slash of a   *)
(* directory, are all that may differ from the path.                       *)
Canonical(name, isDir) ==
    IF name \in RootMarkers THEN isDir
    ELSE LET relative == Relative(name)
         IN  /\ relative[1] # Empty
             /\ isDir \/ relative[Len(relative)] # Empty
             /\ Range(Unslashed(relative)) \cap {Dot, Up, Empty, Odd} = {}

MemberPath(name) == IF name \in RootMarkers THEN Root ELSE Unslashed(Relative(name))

(* _validate_raw_header_name: the header of a file that PAX overrides may  *)
(* have been cut off behind a slash.                                       *)
ValidRawName(name, isDir, overridden) ==
    Canonical(IF overridden /\ ~isDir /\ Len(name) > 1 THEN Unslashed(name) ELSE name, isDir)

(* _pax_path_from_payload: the last path wins, and every one is checked.   *)
PaxPaths(pax) == SelectSeq(pax, LAMBDA r : r.key = "path")
ValidPax(pax, budget) ==
    /\ Len(pax) <= budget
    /\ \A r \in Range(pax) : r.key # "size"
    /\ \A r \in Range(PaxPaths(pax)) : /\ Canonical(r.value, TRUE)
                                       /\ Len(MemberPath(r.value)) <= MaxDepth
PaxPath(pax) == IF PaxPaths(pax) = <<>> THEN <<>> ELSE <<PaxPaths(pax)[Len(PaxPaths(pax))].value>>

(* _scan_tar_members: physical records become members with effective       *)
(* names.  `local` is <<>>, or holds the path of the pending local header. *)
ScanStart == [ok |-> TRUE, members |-> <<>>, pending |-> FALSE, local |-> <<>>,
              global |-> FALSE, pax |-> 0]

Scan(acc, r) ==
    LET header == acc.ok /\ ~acc.pending /\ ValidPax(r.pax, MaxNodes - acc.pax)
        isDir == r.kind = "dir"
        name == IF acc.local = <<>> THEN r.name ELSE acc.local[1]
    IN  CASE r.kind = "local" ->
               [acc EXCEPT !.ok = header, !.pending = TRUE,
                           !.local = PaxPath(r.pax), !.pax = @ + Len(r.pax)]
          [] r.kind = "global" ->
               [acc EXCEPT !.ok = header /\ ~acc.global /\ PaxPath(r.pax) = <<>>,
                           !.global = TRUE, !.pax = @ + Len(r.pax)]
          [] r.kind = "extension" -> [acc EXCEPT !.ok = FALSE]
          [] OTHER ->
               [acc EXCEPT !.ok = /\ acc.ok
                                  /\ ValidRawName(r.name, isDir, acc.local # <<>>)
                                  /\ Canonical(name, isDir)
                                  /\ Len(acc.members) < MaxNodes,
                           !.members = Append(@, [r EXCEPT !.name = name]),
                           !.pending = FALSE, !.local = <<>>]

(* tarfile, reading after the scan, wants a member behind each header.     *)
Parses(records) == records # <<>> => records[Len(records)].kind # "global"

Scanned(records) ==
    LET s == FoldLeft(Scan, ScanStart, records) IN [s EXCEPT !.ok = @ /\ ~s.pending]

-----------------------------------------------------------------------------
(* _decode_tar: members in the order of the archive become the nodes of a  *)
(* tree.  Parents that no member names are synthesized; a later member may *)
(* name one of them, once, as a directory.                                 *)
DecodeStart == [ok |-> TRUE, tree |-> EmptyTree.tree, synthetic |-> {}, marker |-> FALSE]

PathBytes(p) == 1 + Len(p)
Retained(t) == MapThenSumSet(PathBytes, DOMAIN t \ {Root})
Within(t) ==
    /\ Cardinality(DOMAIN t) <= MaxNodes
    /\ Retained(t) <= MaxSnapshotBytes

(* _ensure_parent_directories *)
ParentsAllow(t, p) == \A q \in Ancestors(p) : q \notin DOMAIN t \/ IsDir(t, q)

(* One member.                                                             *)
Decode(acc, r) ==
    LET p == MemberPath(r.name)
        base == WithParents(acc.tree, p)
        synthetic == acc.synthetic \cup (DOMAIN base \ DOMAIN acc.tree)
        node == IF r.kind = "dir" THEN Dir ELSE r.content
        tree == Put(base, p, node)
        shaped == r.kind = "file" \/ (r.kind = "dir" /\ r.content = <<>>)
    IN  IF ~(acc.ok /\ Len(p) <= MaxDepth /\ shaped) THEN [acc EXCEPT !.ok = FALSE]
        ELSE IF p = Root THEN [acc EXCEPT !.ok = ~acc.marker, !.marker = TRUE]
        ELSE [acc EXCEPT
                !.ok = /\ ParentsAllow(acc.tree, p) /\ Within(base)
                       /\ \/ p \in synthetic /\ r.kind = "dir"
                          \/ /\ p \notin DOMAIN base
                             /\ Within(tree)
                             /\ Len(r.content) <= MaxFileBytes
                             /\ TotalBytes(tree) <= MaxTotalBytes,
                !.tree = tree,
                !.synthetic = synthetic \ {p}]

Padded(n) == ((n + BlockBytes - 1) \div BlockBytes) * BlockBytes
PaxBytes(pax) == FoldLeft(LAMBDA sum, r : sum + PathBytes(r.value), 0, pax)
RecordBytes(r) == BlockBytes + Padded(Len(r.content) + PaxBytes(r.pax))
RecordsBytes(records) == FoldLeft(LAMBDA sum, r : sum + RecordBytes(r), 0, records)
TarBytes(archive) == RecordsBytes(archive.records) + archive.trailer * BlockBytes

(* _expand_archive: gzip or nothing, and never more than the limit.        *)
Expands(archive) ==
    /\ archive.profile \in {"plain", "gzip"}
    /\ TarBytes(archive) <= MaxSnapshotBytes

(* _require_complete_tar *)
Complete(archive) == archive.padded /\ archive.trailer >= 2

(* _validate_tree_limits *)
Portable(t) == \A p \in DOMAIN t \ {Root} : Canonical(p, t[p] = Dir)

(* decode: the members, then the whole tree once more.                     *)
DecodeArchive(archive) ==
    LET scanned == Scanned(archive.records)
        decoded == FoldLeft(Decode, DecodeStart, scanned.members)
        measured == Measured(SnapshotEntries(decoded.tree))
    IN  IF /\ Expands(archive) /\ Complete(archive)
           /\ scanned.ok /\ Parses(archive.records) /\ decoded.ok
           /\ Fits(measured.tree) /\ Portable(measured.tree)
        THEN measured ELSE Refused

(* What tarfile writes for an entry: a directory ends in a slash; a path   *)
(* that does not fit goes into a local PAX header, and the member's header *)
(* is cut off, before `cut` is left of the first name that is too wide.    *)
Record(kind, name, pax, content) ==
    [kind |-> kind, name |-> name, pax |-> pax, content |-> content]

RecordsOf(e, cut) ==
    LET name == IF e.kind = "dir" THEN Append(e.path, Empty) ELSE e.path
        wide == {i \in DOMAIN e.path : e.path[i] \in Wide}
        first == Min(wide)
        left == IF first = 1 THEN <<Alphabet[1]>> ELSE Append(SubSeq(e.path, 1, first - 1), cut)
    IN  IF wide = {} THEN <<Record(e.kind, name, <<>>, e.content)>>
        ELSE << Record("local", <<>>, <<[key |-> "path", value |-> name]>>, <<>>),
                Record(e.kind, left, <<>>, e.content) >>

(* encode: sorted, checked, and written within the limit.                  *)
EncodeArchive(t, cut) ==
    LET entries == Ordered(SnapshotEntries(t))
        records == FlattenSeq([i \in DOMAIN entries |-> RecordsOf(entries[i], cut)])
        blocks == RecordsBytes(records) \div BlockBytes + 2
        fill == (-blocks) % RecordBlocks
        archive == [profile |-> "plain", records |-> records, padded |-> TRUE,
                    trailer |-> 2 + fill]
    IN  [ok |-> /\ Measured(entries).ok /\ Fits(t) /\ Portable(t)
                /\ TarBytes(archive) <= MaxSnapshotBytes,
         archive |-> archive]

-----------------------------------------------------------------------------
(* What an archive means, without an order: the members are the records    *)
(* that are not headers, each under the name its own header gives it; they *)
(* describe a tree if no path is described twice, nothing is below a file, *)
(* and everything fits.                                                    *)
Headers(records, kind) == {i \in DOMAIN records : records[i].kind = kind}
Override(records, i) ==
    IF i - 1 \in Headers(records, "local") THEN PaxPath(records[i - 1].pax) ELSE <<>>
NameOf(records, i) ==
    IF Override(records, i) = <<>> THEN records[i].name ELSE Override(records, i)[1]

Meaning(archive) ==
    LET records == archive.records
        locals == Headers(records, "local")
        globals == Headers(records, "global")
        members == DOMAIN records \ (locals \cup globals)
        At(i) == MemberPath(NameOf(records, i))
        nodes == {i \in members : At(i) # Root}
        files == {i \in nodes : records[i].kind = "file"}
        tree == [p \in {Root} \cup UNION {{At(i)} \cup Ancestors(At(i)) : i \in nodes} |->
                   IF \E i \in files : At(i) = p
                   THEN records[CHOOSE i \in files : At(i) = p].content ELSE Dir]
        ok == /\ archive.profile \in {"plain", "gzip"} /\ archive.padded /\ archive.trailer >= 2
              /\ TarBytes(archive) <= MaxSnapshotBytes
              /\ Cardinality(members) <= MaxNodes /\ Cardinality(members \ nodes) <= 1
              /\ Cardinality(globals) <= 1
              /\ \A i \in locals : i + 1 \in members
              /\ \A i \in globals : i + 1 \in DOMAIN records /\ PaxPaths(records[i].pax) = <<>>
              /\ FoldLeft(LAMBDA sum, r : sum + Len(r.pax), 0, records) <= MaxNodes
              /\ \A i \in locals \cup globals : ValidPax(records[i].pax, MaxNodes)
              /\ \A i \in members :
                    LET isDir == records[i].kind = "dir"
                    IN  /\ isDir \/ records[i].kind = "file"
                        /\ isDir => records[i].content = <<>>
                        /\ Canonical(NameOf(records, i), isDir)
                        /\ ValidRawName(records[i].name, isDir, Override(records, i) # <<>>)
              /\ \A i, j \in nodes : At(i) = At(j) => i = j
              /\ \A i \in files, j \in nodes : At(i) \notin Ancestors(At(j))
              /\ Fits(tree) /\ Retained(tree) <= MaxSnapshotBytes
    IN  IF ok THEN [ok |-> TRUE, tree |-> tree] ELSE Refused

(* A tree that can be exported comes back as it was, from a snapshot and   *)
(* from an archive.                                                        *)
RoundTrips(t, cut) ==
    LET snapshot == EncodeSnapshot(t)
        encoded == EncodeArchive(t, cut)
        same == [ok |-> TRUE, tree |-> t]
    IN  /\ SnapshotBytes(snapshot) <= MaxSnapshotBytes => DecodeSnapshot(snapshot) = same
        /\ encoded.ok => DecodeArchive(encoded.archive) = same

(* Where an archive does not come back: tarfile cuts the name of a header  *)
(* off behind "/." or "/..", and _validate_raw_header_name refuses what is *)
(* left of it although the overriding record holds the whole path.         *)
CutBehindDots(t, cut) ==
    /\ cut \in {Dot, Up}
    /\ \E p \in DOMAIN t : \E i \in 2..Len(p) :
          p[i] \in Wide /\ \A j \in 1..(i - 1) : p[j] \notin Wide

(* A document that the encoder could have written, of the tree whose hash  *)
(* it carries; a path may be spelled in another way.                       *)
IsCanonical(d) ==
    LET t == d.hash
        entries == [i \in DOMAIN d.entries |-> [d.entries[i] EXCEPT !.path = Resolved(@)]]
    IN  /\ \A p \in DOMAIN t : Up \notin Range(p) /\ \A q \in Ancestors(p) : IsDir(t, q)
        /\ IsDir(t, Root) /\ Fits(t)
        /\ d = [EncodeSnapshot(t) EXCEPT !.entries = d.entries]
        /\ entries = EncodeSnapshot(t).entries
        /\ SnapshotBytes(d) <= MaxSnapshotBytes
=============================================================================
