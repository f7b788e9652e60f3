--------------------------- MODULE LibraryIdentities ---------------------------
(* How the server recognises its books between two scans of the library       *)
(* (apps/server/src/library.rs, resolve_library_identities and the functions   *)
(* it calls): pure definitions, from the stored identities and the scanned     *)
(* groups to the identities after the scan.                                    *)
(*                                                                             *)
(* The store keeps its books and tracks in lists; here they are functions from *)
(* the identifier to the entry, since no pass depends on the order: a claim is *)
(* made only where the evidence is unambiguous in both directions.             *)
EXTENDS Naturals, Sequences, FiniteSets

CONSTANTS
    MaxHistory,      \* MAX_FINGERPRINT_HISTORY (8)
    MaxAliases,      \* MAX_IDENTITY_PATH_ALIASES (32)
    StaleAfter,      \* PATH_TIER_STALE_AFTER_SCANS (3)
    Confirmations,   \* SHRINK_CONFIRMATIONS (3)
    IgnoredNames     \* file names the scanner skips (AppleDouble sidecars)

ASSUME LibraryConstants ==
    /\ MaxHistory \in Nat
    /\ MaxAliases \in Nat \ {0}
    /\ StaleAfter \in Nat
    /\ Confirmations \in Nat \ {0}

--------------------------------------------------------------------------------
(* Small helpers.                                                              *)

Members(s) == {s[k] : k \in DOMAIN s}

LastOf(s, n) == IF Len(s) <= n THEN s ELSE SubSeq(s, Len(s) - n + 1, Len(s))

\* A list without an entry; what is listed is listed once.
Without(s, x) ==
    IF x \notin Members(s) THEN s
    ELSE LET k == CHOOSE j \in DOMAIN s : s[j] = x
         IN  SubSeq(s, 1, k - 1) \o SubSeq(s, k + 1, Len(s))

\* How long a book runs is an option: {} or {seconds}.
NoLength == {}

\* A digest over the track digests in sorted order: equal exactly when the
\* files have the same contents, whatever their names.
BookFingerprint(files) ==
    [f \in {files[a] : a \in DOMAIN files} |->
        Cardinality({a \in DOMAIN files : files[a] = f})]

--------------------------------------------------------------------------------
(* Evidence. An identity is [fp, history, paths, tracks, seen, count, length]. *)
(* The scanned groups are a function from directory to [files, fp, length],    *)
(* `files` from file name to digest and `fp` the digest over them.             *)

MatchesFingerprint(identity, fp) ==
    identity.fp = fp \/ fp \in Members(identity.history)

PathMatches(identity, path) == path \in Members(identity.paths)

LayoutMatches(identity, group) ==
    /\ identity.count \in {0, Cardinality(DOMAIN group.files)}
    /\ identity.length \in {NoLength, group.length}

RecentlySeen(identity, scan) ==
    /\ identity.seen # 0
    /\ scan - identity.seen <= StaleAfter

Digests(groups, paths) == {groups[p].fp : p \in paths}

\* None of the identity's digests is where it could still be alive: the current
\* one among the groups not placed yet, a remembered one in the whole scan.
AbsentFromScan(identity, scanned, open) ==
    /\ identity.fp \notin open
    /\ Members(identity.history) \cap scanned = {}

\* The tracks of an identity that the group accounts for, file by file.
Accounted(identity, path, files) ==
    {t \in DOMAIN identity.tracks :
        \E a \in DOMAIN files :
            /\ identity.tracks[t].fp = files[a]
            /\ <<path, a>> \in Members(identity.tracks[t].paths)}

\* Whether all that the group lost are files the scanner now skips.
OnlyIgnoredAreGone(identity, path, files) ==
    LET kept == Accounted(identity, path, files)
        lost == DOMAIN identity.tracks \ kept
    IN  /\ DOMAIN files # {} /\ lost # {}
        /\ Cardinality(kept) = Cardinality(DOMAIN files)
        /\ \A t \in lost : LET paths == identity.tracks[t].paths IN
               paths # <<>> /\ paths[Len(paths)][2] \in IgnoredNames

--------------------------------------------------------------------------------
(* Claims are pairs <<what was scanned, identifier>>.                          *)

Pairs(S, T) == {<<s, t>> : s \in S, t \in T}

Conflict(d, e) == d[1] = e[1] \/ d[2] = e[2]

\* claim_unambiguous_edges over what the earlier passes left open.
Claim(claims, edges) ==
    LET open == {e \in edges : \A c \in claims : ~Conflict(c, e)}
    IN  claims \cup {e \in open : \A d \in open : Conflict(d, e) => d = e}

Placed(claims) == {c[1] : c \in claims}

ClaimedBy(claims, scanned) == (CHOOSE c \in claims : c[1] = scanned)[2]

\* What if the digest alone was not enough for a book that has moved?
ClaimsInPlace(books, groups) ==
    Claim({}, {e \in Pairs(DOMAIN groups, DOMAIN books) :
                /\ books[e[2]].fp = groups[e[1]].fp
                /\ PathMatches(books[e[2]], e[1])})

\* Pass 1: the remembered path and the current digest. Pass 2: the digest alone.
SteadyClaims(books, groups) ==
    LET current == {e \in Pairs(DOMAIN groups, DOMAIN books) :
                      books[e[2]].fp = groups[e[1]].fp}
    IN  Claim(Claim({}, {e \in current : PathMatches(books[e[2]], e[1])}), current)

\* Passes 3 and 4: a remembered digest, of an identity whose current one is not
\* waiting to be placed; at a remembered path, then anywhere.
RemembersContents(books, groups, claims) ==
    LET open == Digests(groups, DOMAIN groups \ Placed(claims))
    IN  {e \in Pairs(DOMAIN groups \ Placed(claims), DOMAIN books) :
            /\ books[e[2]].fp \notin open
            /\ MatchesFingerprint(books[e[2]], groups[e[1]].fp)}

RememberedPathClaims(books, groups, claims) ==
    Claim(claims, {e \in RemembersContents(books, groups, claims) :
                      PathMatches(books[e[2]], e[1])})

RememberedClaims(books, groups, claims) ==
    Claim(claims, RemembersContents(books, groups, claims))

\* Passes 5 and 6 go by the path of an identity that is nowhere in the scan.
PathOnly(books, groups, claims) ==
    LET open == Digests(groups, DOMAIN groups \ Placed(claims))
        scanned == Digests(groups, DOMAIN groups)
    IN  {e \in Pairs(DOMAIN groups \ Placed(claims), DOMAIN books) :
            /\ PathMatches(books[e[2]], e[1])
            /\ AbsentFromScan(books[e[2]], scanned, open)}

\* What if the remembered path alone made any newcomer the book it replaced?
ClaimsByPath(books, groups, claims, scan) ==
    Claim(claims, {e \in PathOnly(books, groups, claims) :
                      RecentlySeen(books[e[2]], scan)})

\* Pass 5: a recently seen book of the same shape, that is a remux.
RemuxClaims(books, groups, claims, scan) ==
    Claim(claims, {e \in PathOnly(books, groups, claims) :
                      /\ RecentlySeen(books[e[2]], scan)
                      /\ LayoutMatches(books[e[2]], groups[e[1]])})

\* Pass 6: a book that lost nothing but files the scanner no longer catalogues.
\* Before the first scan after an upgrade, the inherited manifest vouches for it.
SidecarClaims(store, groups, claims) ==
    LET Inherited(i) == /\ i.seen = 0 /\ store.counter = 0
                        /\ i.fp \in store.manifest.fingerprints
    IN  Claim(claims, {e \in PathOnly(store.books, groups, claims) :
                LET i == store.books[e[2]] IN
                /\ RecentlySeen(i, store.counter + 1) \/ Inherited(i)
                /\ OnlyIgnoredAreGone(i, e[1], groups[e[1]].files)})

\* The claims before the last pass, and all of them.
FirstFivePasses(store, groups) ==
    LET steady == SteadyClaims(store.books, groups)
        known == RememberedPathClaims(store.books, groups, steady)
        moved == RememberedClaims(store.books, groups, known)
    IN  RemuxClaims(store.books, groups, moved, store.counter + 1)

BookClaims(store, groups) ==
    SidecarClaims(store, groups, FirstFivePasses(store, groups))

--------------------------------------------------------------------------------
(* What a scan writes.                                                         *)

RecordFingerprint(identity, fp) ==
    IF identity.fp = fp THEN identity
    ELSE [identity EXCEPT
            !.fp = fp,
            !.history = LastOf(Append(Without(Without(@, identity.fp), fp), identity.fp),
                               MaxHistory)]

RememberPath(paths, path) == LastOf(Append(Without(paths, path), path), MaxAliases)

\* The three passes over the files of one book: path and digest, the digest, and
\* the path of a track whose digest is gone from the book.
TrackClaims(tracks, path, files) ==
    LET edges == Pairs(DOMAIN files, DOMAIN tracks)
        here == {e \in edges : <<path, e[1]>> \in Members(tracks[e[2]].paths)}
        same == {e \in edges : tracks[e[2]].fp = files[e[1]]}
        gone == {t \in DOMAIN tracks : \A a \in DOMAIN files : tracks[t].fp # files[a]}
    IN  Claim(Claim(Claim({}, here \cap same), same), {e \in here : e[2] \in gone})

\* The identifier of every file: the claimed track's, or a fresh one. `draw`
\* stands for the random bits of this scan.
TrackIds(tracks, path, files, draw) ==
    LET claims == TrackClaims(tracks, path, files)
    IN  [a \in DOMAIN files |-> IF a \in Placed(claims) THEN ClaimedBy(claims, a)
                                ELSE <<draw, path, a>>]

TracksAfter(tracks, path, files, ids) ==
    LET FileOf(t) == CHOOSE a \in DOMAIN ids : ids[a] = t
        OldPaths(t) == IF t \in DOMAIN tracks THEN tracks[t].paths ELSE <<>>
        seen == {ids[a] : a \in DOMAIN ids}
    IN  [t \in DOMAIN tracks \cup seen |->
            IF t \notin seen THEN tracks[t]
            ELSE [fp |-> files[FileOf(t)],
                  paths |-> RememberPath(OldPaths(t), <<path, FileOf(t)>>)]]

MintedBook(group) ==
    [fp |-> group.fp, history |-> <<>>, paths |-> <<>>, tracks |-> <<>>,
     seen |-> 0, count |-> 0, length |-> NoLength]

\* An identity after it was matched with a group.
Refreshed(identity, path, group, scan, ids) ==
    [RecordFingerprint(identity, group.fp) EXCEPT
        !.seen = scan,
        !.count = Cardinality(DOMAIN group.files),
        !.length = IF group.length = NoLength THEN @ ELSE group.length,
        !.paths = RememberPath(@, path),
        !.tracks = TracksAfter(@, path, group.files, ids)]

\* An identity without the tracks that pass 6 retires.
Retired(identity, path, files) ==
    [identity EXCEPT
        !.tracks = [t \in Accounted(identity, path, files) |-> identity.tracks[t]]]

\* Resolve a whole scan: the identifiers of every group, and the store after it.
Resolve(store, groups, draw) ==
    LET first == FirstFivePasses(store, groups)
        claims == SidecarClaims(store, groups, first)
        scan == store.counter + 1
        ids == [p \in DOMAIN groups |-> IF p \in Placed(claims) THEN ClaimedBy(claims, p)
                                        ELSE <<draw, p>>]
        entries == [p \in DOMAIN groups |->
            IF ids[p] \notin DOMAIN store.books THEN MintedBook(groups[p])
            ELSE IF p \in Placed(first) THEN store.books[ids[p]]
            ELSE Retired(store.books[ids[p]], p, groups[p].files)]
        tracks == [p \in DOMAIN groups |->
            TrackIds(entries[p].tracks, p, groups[p].files, draw)]
        PathOf(id) == CHOOSE p \in DOMAIN groups : ids[p] = id
        seen == {ids[p] : p \in DOMAIN groups}
        After(p) == Refreshed(entries[p], p, groups[p], scan, tracks[p])
    IN  [ids |-> ids, tracks |-> tracks,
         store |-> [store EXCEPT
            !.books = [id \in DOMAIN store.books \cup seen |->
                         IF id \in seen THEN After(PathOf(id)) ELSE store.books[id]],
            !.counter = scan,
            !.shrink = [seen |-> {}, times |-> 0],
            !.manifest = [size |-> Cardinality(DOMAIN groups),
                          fingerprints |-> Digests(groups, DOMAIN groups)]]]

--------------------------------------------------------------------------------
(* Whether a completed walk is evidence (assess_scan), and what a withheld one *)
(* leaves in the store (note_shrink_observation). A run of no observations     *)
(* stands for an absent entry.                                                 *)

Suspect(store, aliases) ==
    /\ store.manifest.size > 0
    /\ aliases = {} \/ 2 * Cardinality(aliases) < store.manifest.size

\* What if any shrunken scan confirmed the one before?
SeenAnyBefore(store, aliases) == store.shrink.times

SeenBefore(store, aliases) ==
    IF store.shrink.seen = aliases THEN store.shrink.times ELSE 0

Trusted(store, aliases, failed) ==
    /\ ~failed
    /\ ~Suspect(store, aliases) \/ SeenBefore(store, aliases) + 1 >= Confirmations

NoteShrink(store, aliases, failed) ==
    [store EXCEPT !.shrink =
        IF failed THEN [seen |-> {}, times |-> 0]
        ELSE [seen |-> aliases, times |-> SeenBefore(store, aliases) + 1]]
================================================================================
