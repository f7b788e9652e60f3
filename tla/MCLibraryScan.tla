----------------------------- MODULE MCLibraryScan -----------------------------
(* Instance of LibraryScan for TLC.                                            *)
EXTENDS LibraryScan

MCTracks == [a |-> {"01", "02"}, b |-> {"01", "02"}, c |-> {"01"}]
MCRunsFor == [a |-> 10, b |-> 20, c |-> 10]
MCRecordings == {"a", "b", "c"}

Library(books) == [p \in Paths |-> IF p \in DOMAIN books THEN FreshBook(books[p])
                                   ELSE NoFiles]

\* A new server over a library, and one upgraded from a build that catalogued
\* the hidden file ._01 beside the files of `a` as a track.
New(books) == [disk |-> Library(books), file |-> NoFile, books |-> <<>>]

OldFiles == FreshBook("a") @@ ("._01" :> [rec |-> "a", trk |-> "._01", gen |-> 0])

Upgraded ==
    [disk |-> [p \in Paths |-> IF p = 1 THEN OldFiles ELSE NoFiles],
     file |-> [NoFile EXCEPT
        !.books = (<<0, 1>> :>
            [MintedBook([fp |-> BookFingerprint(OldFiles)]) EXCEPT
                !.paths = <<1>>,
                !.tracks = [t \in {<<0, 1, n>> : n \in DOMAIN OldFiles} |->
                    [fp |-> OldFiles[t[3]], paths |-> <<<<1, t[3]>>>>]]]),
        !.manifest = [size |-> 1, fingerprints |-> {BookFingerprint(OldFiles)}]],
     books |-> <<0, 1>> :> OldFiles]

MCLegacy == {New(1 :> "a"), New((1 :> "a") @@ (2 :> "b") @@ (3 :> "c")), Upgraded}

\* Three edits would be 3.8 million states; two edits, one during a scan and one
\* between, reach every pass. The next rows combine the mount, failed saves, kills,
\* edits of the metadata and restores two or three at a time; the last ones add
\* reads that fail, of the digests and the tags, around an edit and a restore.
MCBounds == {<<2, 0, 0, 0, 3, 0, 0, 0>>, <<1, 1, 0, 0, 3, 0, 0, 0>>,
             <<0, 2, 1, 0, 4, 0, 0, 0>>, <<1, 0, 1, 1, 3, 0, 1, 0>>,
             <<1, 0, 0, 1, 2, 2, 0, 0>>, <<0, 0, 1, 1, 2, 1, 3, 0>>,
             <<0, 0, 0, 1, 2, 0, 5, 0>>, <<1, 0, 0, 0, 3, 0, 0, 1>>,
             <<0, 0, 0, 0, 3, 0, 0, 2>>, <<0, 0, 0, 1, 2, 0, 3, 1>>}
================================================================================
