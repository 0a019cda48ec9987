---------------------------- MODULE MCWorkspace ----------------------------
(* Instances of Workspace and its codecs for TLC: two names, a tree two    *)
(* deep.  The second name is the first and a hyphen, and too wide for a    *)
(* tar header.                                                             *)
EXTENDS Workspace, WorkspaceCodecs

CONSTANTS a, b, x, k1, k2, m1, m2

OneByte == {<<x>>}
EmptyOrByte == {<<>>, <<x>>}

(* A snapshot of a workspace with other limits: one fits here, one has a   *)
(* path that is too deep.                                                  *)
Version(n, paths) == [tree |-> [p \in paths |-> Dir], rev |-> n]
Shallow == Version(2, {<<>>, <<b>>})
Deep == Version(0, {<<>>, <<a>>, <<a, a>>, <<a, a, a>>})
ForeignVersions == {Shallow, Deep}
NoVersions == {}

(* Restores and editors meet on small trees in a short history, two        *)
(* restores and no editor on smaller ones; alone the mutations go further. *)
NoEditor == \A e \in Editors : seen[e] = Nothing
Alone == exported = Nothing /\ used = {} /\ NoEditor
Small ==
    /\ rev <= 3 /\ Cardinality(DOMAIN tree) <= 3
    /\ \A p \in DOMAIN tree : Len(p) <= 1 /\ tree[p] # <<>>
Smaller == NoEditor /\ Cardinality(DOMAIN tree) <= 2
Bounded == Alone \/ (Small /\ (Cardinality(used) = 2 => Smaller))

(* Candidates are interchangeable, and so are committers.                  *)
Interchangeable == Permutations({k1, k2}) \cup Permutations({m1, m2})

(* Without candidates an export guards nothing.                            *)
TreeOnly == <<tree, rev>>

-----------------------------------------------------------------------------
Letters == <<a, b, Odd>>
HyphenAfter == {<<a, b>>}

(* Archives of up to three records, and of up to five of the members that  *)
(* can stand in each other's way.                                          *)
Path(name) == [key |-> "path", value |-> name]
Kinds == {"dir", "file", "other"}
RawNames == {<<a>>, <<a, b>>, <<a, a>>, <<a, Empty>>, <<a, b, Empty>>, <<Dot>>, <<Dot, Empty>>,
             <<Dot, a>>, <<a, Dot>>, <<Up, a>>, <<Empty, a>>, <<a, Empty, b>>, <<a, Odd>>,
             <<a, a, a>>}
Plain == {Record(kind, name, <<>>, content) :
            kind \in Kinds, name \in RawNames, content \in {<<>>, <<x>>}}
Overrides == {Record(kind, <<>>, pax, <<>>) :
                kind \in {"local", "global"},
                pax \in {<<>>, <<Path(<<a, b>>)>>, <<Path(<<b>>), Path(<<Dot, Empty>>)>>,
                         <<Path(<<a, Up>>), Path(<<a>>)>>, <<Path(<<a, b, a>>)>>,
                         <<[key |-> "size", value |-> <<a>>]>>,
                         <<[key |-> "mtime", value |-> <<a>>]>>}}
                \cup {Record("extension", <<a>>, <<>>, <<>>)}
Contenders == {Record(kind, name, <<>>, <<>>) : kind \in {"dir", "file"},
                 name \in {<<a>>, <<a, b>>}}
                \cup {Record("dir", <<Dot>>, <<>>, <<>>), Record("file", <<b, a>>, <<>>, <<x, x>>),
                      Record("local", <<>>, <<Path(<<b, b>>)>>, <<>>),
                      Record("global", <<>>, <<[key |-> "mtime", value |-> <<a>>]>>, <<>>)}

Sequences(S, n) == UNION {[1..m -> S] : m \in 0..n}
Archive(records) == [profile |-> "plain", records |-> records, padded |-> TRUE, trailer |-> 2]
Archives ==
    {Archive(s) : s \in Sequences(Plain \cup Overrides, 2) \cup Sequences(Contenders, 4)}
        \cup {[Archive(<<>>) EXCEPT !.profile = profile, !.padded = padded, !.trailer = n] :
                 profile \in {"plain", "gzip", "bzip2"}, padded \in BOOLEAN, n \in {1, 2, 3}}

Listed == {[path |-> p, kind |-> kind, content |-> <<>>] :
             kind \in {"dir", "file"}, p \in {<<>>, <<a>>, <<b>>, <<a, b>>, <<a, Up>>, <<Dot, a>>,
                                             <<b, a, a>>}}
             \cup {[path |-> <<b>>, kind |-> "file", content |-> content] :
                      content \in {<<x>>, <<x, x>>, <<x, x, x>>}}
             \cup {[path |-> <<a>>, kind |-> "link", content |-> <<>>]}
Described(entries) ==
    LET Of(p) == {e \in Range(entries) : Resolved(e.path) = p /\ e.kind = "file"}
    IN  [p \in {Root} \cup {Resolved(e.path) : e \in Range(entries)} |->
           IF Of(p) = {} THEN Dir ELSE (CHOOSE e \in Of(p) : TRUE).content]
Documents ==
    {[sound |-> sound, entries |-> s, nodes |-> Len(s) + n, total |-> ContentBytes(s),
      hash |-> Described(s)] :
        sound \in BOOLEAN, s \in Sequences(Listed, 3), n \in {1, 2}}

(* Every tree a workspace has come to is restored by its own exports: the  *)
(* promise of docs/components/workspace/README.md:368, "PAX `path` records *)
(* support UTF-8 and paths beyond USTAR limits".  The code breaks it where *)
(* tarfile cuts a long name off behind "/." or "/..": export_archive       *)
(* accepts the tree, _validate_raw_header_name (archive_codec.py:647)      *)
(* refuses the archive.                                                    *)
Cuts == {Empty, Dot, Up, a}
EveryTreeRestores == \A cut \in Cuts : RoundTrips(tree, cut)

(* What the codecs do keep: an export that is accepted restores its tree,  *)
(* unless a header is cut off behind "/." or "/.." (EveryTreeRestores is   *)
(* the promise without this exception); and of all that may be             *)
(* offered for a restore, exactly the archives that describe one tree      *)
(* within the limits are accepted, in whatever order they list it, and of  *)
(* JSON snapshots exactly those that the encoder could have written.  What *)
(* restores and editors are doing is nothing to a codec (Alone).           *)
CodecsExact == Alone =>
    /\ \A cut \in Cuts : CutBehindDots(tree, cut) \/ RoundTrips(tree, cut)
    /\ rev = 0 =>
         /\ \A archive \in Archives : DecodeArchive(archive) = Meaning(archive)
         /\ \A d \in Documents :
               DecodeSnapshot(d) = IF IsCanonical(d) THEN [ok |-> TRUE, tree |-> d.hash]
                                   ELSE Refused
         /\ ~EncodeArchive([p \in {Root, <<Odd>>} |-> Dir], Empty).ok
=============================================================================
