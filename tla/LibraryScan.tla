------------------------------ MODULE LibraryScan ------------------------------
(* The catalogue of the server and the disk it is read from: one scan at a     *)
(* time (apps/server/src/library.rs, rescan_library_locked) while books are    *)
(* moved, rewritten and replaced, a mount comes and goes, an administrator     *)
(* edits a book (update_book_metadata), listeners save places, saves fail, the *)
(* process is killed and a backup is restored (backup.rs,                      *)
(* restore_server_backup). What becomes of the identifiers is decided by       *)
(* LibraryIdentities.                                                          *)
(*                                                                             *)
(* A directory holds one book: a function from file name to contents. Contents *)
(* are a recording, the track of it, and how often it was rewritten; a digest  *)
(* is injective in them, and is the contents here. A file that cannot be read  *)
(* has a stand-in for its digest. The cache of digests (a file whose size and  *)
(* time are unchanged is not read again) is left out: any read may fail.       *)
EXTENDS LibraryIdentities, FiniteSetsExt, TLC

CONSTANTS
    Paths,        \* directories of the library
    Recordings,   \* recordings
    Tracks,       \* recording -> names of the files it comes in
    RunsFor,      \* recording -> how long one file of it runs
    Untagged,     \* numbers of rewrites that lose the duration in the tags
    Legacy,       \* what an older build may have left: disk, identities, and the
                  \*   files each of its books had when it last saw it
    Bounds        \* <<edits of the disk, changes of the mount, failed saves,
                  \*   kills, scans, edits of the metadata, places and backups,
                  \*   reads that fail for some files>>

VARIABLES
    disk,       \* directory -> its files
    mounted,    \* [seen |-> the directories to be seen, broken |-> walks fail]
    file,       \* library-identities.json; NoFile before the first save
    db,         \* the database: places, metadata overrides, works
    catalogue,  \* what is published: directory -> entry
    scan,       \* the scan that holds rescan_lock
    restore,    \* the restore that holds rescan_lock and the state gate
    editors,    \* edits saved but not yet shown in the published books
    backups,    \* backups an administrator has downloaded
    spent,      \* how much of the bounds is used up
    \* history
    heard,      \* identifier -> what was published under it
    doubtful,   \* identifiers stored with a length or digest not their book's
    observed,   \* the last recorded walks
    crossed,    \* identifiers whose edits overlapped each other or a restore
    stranded    \* identifiers a restore left without an entry

store == <<file, db, backups>>
ghosts == <<heard, doubtful, observed, crossed, stranded>>
vars == <<disk, mounted, file, db, catalogue, scan, restore, editors, backups,
          spent, heard, doubtful, observed, crossed, stranded>>

NoFiles == <<>>
NoFile == [books |-> <<>>, counter |-> 0, shrink |-> [seen |-> {}, times |-> 0],
           manifest |-> [size |-> 0, fingerprints |-> {}]]
NoScan == [phase |-> "idle"]
NoRestore == [phase |-> "idle"]

Spend(k) == /\ spent.used[k] < spent.most[k]
            /\ spent' = [spent EXCEPT !.used[k] = @ + 1]
Edit == 1
Flip == 2
Fault == 3
Kill == 4
Scan == 5
Meta == 6
Keep == 7
Unread == 8

--------------------------------------------------------------------------------
(* The disk.                                                                   *)

FreshBook(rec) == [n \in Tracks[rec] |-> [rec |-> rec, trk |-> n, gen |-> 0]]

Books == {p \in Paths : disk[p] # NoFiles}

\* What a walk finds: no hidden files, no directory without an audio file.
Audio(files) == [n \in DOMAIN files \ IgnoredNames |-> files[n]]

\* A file is hidden where, and only where, its contents are not audio.
IsDirectory(files) ==
    /\ IsFiniteSet(DOMAIN files)
    /\ files = [n \in DOMAIN files |-> files[n]]
    /\ \A n \in DOMAIN files : /\ DOMAIN files[n] = {"rec", "trk", "gen"}
                               /\ n \in IgnoredNames <=> files[n].trk \in IgnoredNames

\* The tracks of an old identity. A track was never both hidden and not; where
\* some are hidden, there is one for each file that the book had last.
Hides(track) == \E path \in Members(track.paths) : path[2] \in IgnoredNames
OldTracks(tracks, files) ==
    /\ \A t \in DOMAIN tracks :
         /\ t[1] = 0 /\ DOMAIN tracks[t] = {"fp", "paths"}
         /\ tracks[t].paths \in Seq(Members(tracks[t].paths))
         /\ Hides(tracks[t]) =>
              \A path \in Members(tracks[t].paths) : path[2] \in IgnoredNames
    /\ (\E t \in DOMAIN tracks : Hides(tracks[t])) =>
         /\ \E fileOf \in Bijection(DOMAIN tracks, DOMAIN files) :
              \A t \in DOMAIN tracks : /\ tracks[t].fp = files[fileOf[t]]
                                       /\ tracks[t].paths # <<>>
                                       /\ Hides(tracks[t]) <=> fileOf[t] \in IgnoredNames
         /\ \A t, o \in DOMAIN tracks :
              tracks[t].fp = tracks[o].fp /\ t # o =>
                Members(tracks[t].paths) \cap Members(tracks[o].paths) = {}

\* migrate_legacy_identities: the books of an older build, not yet seen by this
\* one, and no observation of a shrunken library.
ASSUME ScanAssumption ==
    /\ IsFiniteSet(Paths)
    /\ \A rec \in Recordings : IsFiniteSet(Tracks[rec]) /\ Tracks[rec] \cap IgnoredNames = {}
    /\ \A old \in Legacy :
        /\ old.file = [NoFile EXCEPT !.books = old.file.books,
                                    !.manifest = old.file.manifest]
        /\ old.file.manifest.size \in Nat
        /\ DOMAIN old.disk = Paths /\ \A p \in Paths : IsDirectory(old.disk[p])
        /\ DOMAIN old.books = DOMAIN old.file.books
        /\ \A id \in DOMAIN old.books :
            LET files == old.books[id]
                identity == old.file.books[id]
            IN  /\ id[1] = 0 /\ IsDirectory(files)
                /\ identity = [MintedBook([fp |-> BookFingerprint(files)]) EXCEPT
                                 !.paths = identity.paths, !.tracks = identity.tracks]
                /\ identity.paths \in Seq(Members(identity.paths))
                /\ OldTracks(identity.tracks, files)
Visible == {p \in Books \cap mounted.seen : DOMAIN Audio(disk[p]) # {}}

\* The sum over the files, as their digest counts them.
RunningTime(fp) == MapThenSumSet(LAMBDA f : fp[f] * RunsFor[f.rec], DOMAIN fp)
TrueLength(files) == {RunningTime(BookFingerprint(files))}

LengthOf(files) == IF \E n \in DOMAIN files : files[n].gen \in Untagged
                   THEN NoLength ELSE TrueLength(files)

RecordingsIn(files) == {files[n].rec : n \in DOMAIN files}

Shape(files) == <<Cardinality(DOMAIN files), TrueLength(files)>>

Description(files) == [recordings |-> RecordingsIn(files), shape |-> Shape(files)]

EditDisk(changed) ==
    /\ Spend(Edit)
    /\ disk' = changed
    /\ UNCHANGED <<mounted, store, catalogue, scan, restore, editors, ghosts>>

\* A book is copied or downloaded to a directory, in place of what was there.
Place(p, rec) == EditDisk([disk EXCEPT ![p] = FreshBook(rec)])

Move(p, q) ==
    /\ p \in Books /\ q \notin Books
    /\ EditDisk([disk EXCEPT ![q] = disk[p], ![p] = NoFiles])

Remove(p) == p \in Books /\ EditDisk([disk EXCEPT ![p] = NoFiles])

\* Some of the files of a book are remuxed or retagged in place.
Rewrite(p, names) ==
    /\ names # {} /\ names \subseteq DOMAIN disk[p]
    /\ EditDisk([disk EXCEPT ![p] =
         [n \in DOMAIN disk[p] |->
            IF n \in names THEN [disk[p][n] EXCEPT !.gen = @ + 1] ELSE disk[p][n]]])

\* The audio files of a book are renamed among each other.
Shuffle(p, n, m) ==
    /\ n # m /\ {n, m} \subseteq DOMAIN Audio(disk[p])
    /\ EditDisk([disk EXCEPT ![p][n] = disk[p][m], ![p][m] = disk[p][n]])

\* The mount loses a part, comes back, or answers with errors.
Remount(seen, broken) ==
    /\ mounted # [seen |-> seen, broken |-> broken]
    /\ Spend(Flip)
    /\ mounted' = [seen |-> seen, broken |-> broken]
    /\ UNCHANGED <<disk, store, catalogue, scan, restore, editors, ghosts>>

--------------------------------------------------------------------------------
(* The scan.                                                                   *)

Observe(aliases, failed) ==
    observed' = LastOf(Append(observed, [aliases |-> aliases, failed |-> failed]),
                       Confirmations)

\* Walk the library and judge the walk. The identities are read after the walk;
\* nothing else writes their file while the lock is held.
Walk ==
    /\ scan = NoScan /\ restore = NoRestore
    /\ Spend(Scan)
    /\ scan' = IF Trusted(file, Visible, mounted.broken)
               THEN [phase |-> "walked", read |-> {}, files |-> NoFiles, contents |-> NoFiles,
                     lengths |-> NoFiles,
                     names |-> [p \in Visible |-> DOMAIN Audio(disk[p])]]
               ELSE [phase |-> "withheld",
                     aliases |-> IF mounted.broken THEN {} ELSE Visible,
                     failed |-> mounted.broken]
    /\ UNCHANGED <<disk, mounted, store, catalogue, restore, editors, ghosts>>

\* A withheld scan saves the observation and publishes nothing.
SaveObservation ==
    /\ scan.phase = "withheld"
    /\ file' = NoteShrink(file, scan.aliases, scan.failed)
    /\ Observe(scan.aliases, scan.failed)
    /\ scan' = NoScan
    /\ UNCHANGED <<disk, mounted, db, backups, catalogue, restore, editors, spent,
                   heard, doubtful, crossed, stranded>>

Readable == \A p \in DOMAIN scan.names :
                p \in mounted.seen /\ scan.names[p] \subseteq DOMAIN disk[p]

Contents == [p \in DOMAIN scan.names |-> [n \in scan.names[p] |-> disk[p][n]]]

\* Some of the files open but cannot be read. The scan goes on without them: the
\* path stands in for the digest (path_identity_fingerprint), and is no digest.
Scanned == UNION {{p} \X scan.names[p] : p \in DOMAIN scan.names}
StandIn(p, n) == [path |-> <<p, n>>]

ReadsAllBut(unread) == \/ unread = {} /\ UNCHANGED spent
                       \/ unread # {} /\ Spend(Unread)

DigestsBut(unread) ==
    [p \in DOMAIN scan.names |->
        [n \in scan.names[p] |->
            IF <<p, n>> \in unread THEN StandIn(p, n) ELSE disk[p][n]]]

\* A file without tags has no duration, and its book no length.
LengthsBut(unread) ==
    [p \in DOMAIN scan.names |->
        IF \E n \in scan.names[p] : <<p, n>> \in unread THEN NoLength
        ELSE LengthOf(Contents[p])]

\* The digests and the tags are read by two tasks, in either order.
ReadFingerprints ==
    /\ scan.phase = "walked" /\ "files" \notin scan.read
    /\ Readable
    /\ \E unread \in SUBSET Scanned :
         /\ ReadsAllBut(unread)
         /\ scan' = [scan EXCEPT !.read = @ \cup {"files"}, !.files = DigestsBut(unread),
                                 !.contents = Contents]
    /\ UNCHANGED <<disk, mounted, store, catalogue, restore, editors, ghosts>>

ReadTags ==
    /\ scan.phase = "walked" /\ "lengths" \notin scan.read
    /\ Readable
    /\ \E unread \in SUBSET Scanned :
         /\ ReadsAllBut(unread)
         /\ scan' = [scan EXCEPT !.read = @ \cup {"lengths"}, !.lengths = LengthsBut(unread)]
    /\ UNCHANGED <<disk, mounted, store, catalogue, restore, editors, ghosts>>

\* A file of the walk is gone when it is opened: the scan ends in an error.
ReadFails ==
    /\ scan.phase = "walked" /\ scan.read # {"files", "lengths"}
    /\ ~Readable
    /\ scan' = NoScan
    /\ UNCHANGED <<disk, mounted, store, catalogue, restore, editors, spent, ghosts>>

GroupsRead == [p \in DOMAIN scan.files |->
                 [files |-> scan.files[p], fp |-> BookFingerprint(scan.files[p]),
                  length |-> scan.lengths[p]]]

Title(overrides, id) == IF id \in DOMAIN overrides THEN overrides[id] ELSE 0

\* Resolve the whole scan at once and describe its books. The overrides were
\* read before.
ResolveScan ==
    /\ scan.phase = "walked" /\ scan.read = {"files", "lengths"}
    /\ LET result == Resolve(file, GroupsRead, spent.used[Scan])
           Entry(p) == [id |-> result.ids[p], tracks |-> result.tracks[p],
                        files |-> scan.files[p], contents |-> scan.contents[p],
                        title |-> Title(db.overrides, result.ids[p])]
           Misjudged(p) == \/ scan.files[p] # scan.contents[p]
                           \/ result.store.books[result.ids[p]].length
                                # TrueLength(scan.contents[p])
       IN
       /\ scan' = [phase |-> "resolved", store |-> result.store,
                   books |-> [p \in DOMAIN scan.files |-> Entry(p)]]
       /\ doubtful' = doubtful \cup
                      {result.ids[p] : p \in {q \in DOMAIN scan.files : Misjudged(q)}}
    /\ UNCHANGED <<disk, mounted, store, catalogue, restore, editors, spent,
                   heard, observed, crossed, stranded>>

\* The identities are saved before anything else refers to them.
SaveIdentities ==
    /\ scan.phase = "resolved"
    /\ file' = scan.store
    /\ Observe(DOMAIN scan.books, FALSE)
    /\ scan' = [phase |-> "saved", books |-> scan.books, base |-> file.books]
    /\ UNCHANGED <<disk, mounted, db, backups, catalogue, restore, editors, spent,
                   heard, doubtful, crossed, stranded>>

\* What if the works were saved before the identities they refer to?
SaveWorksFirst ==
    /\ scan.phase = "resolved"
    /\ db' = [db EXCEPT !.works = @ \cup {scan.books[p].id : p \in DOMAIN scan.books}]
    /\ UNCHANGED <<disk, mounted, file, backups, catalogue, scan, restore, editors,
                   spent, ghosts>>

\* resolve_book_works: the works store refers to the books by identifier.
SaveWorks ==
    /\ scan.phase = "saved"
    /\ db' = [db EXCEPT !.works = @ \cup {scan.books[p].id : p \in DOMAIN scan.books}]
    /\ scan' = [scan EXCEPT !.phase = "recorded"]
    /\ UNCHANGED <<disk, mounted, file, backups, catalogue, restore, editors, spent,
                   ghosts>>

\* A save of the scan fails, of the covers at last, and the scan ends in an error.
SaveFails ==
    /\ scan.phase \in {"withheld", "resolved", "saved", "recorded"}
    /\ Spend(Fault)
    /\ scan' = NoScan
    /\ UNCHANGED <<disk, mounted, store, catalogue, restore, editors, ghosts>>

\* What if the scan published what it had read of the overrides at its start?
AsDescribed(books) == books

Published(books) ==
    [p \in DOMAIN books |->
        IF books[p].id \in DOMAIN db.overrides
        THEN [books[p] EXCEPT !.title = db.overrides[books[p].id]] ELSE books[p]]

\* Under the library lock: the overrides are read once more, since an edit that
\* was saved meanwhile is shown only in the books this scan replaces.
Publish ==
    /\ scan.phase = "recorded"
    /\ catalogue' = Published(scan.books)
    /\ heard' = [id \in DOMAIN heard \cup {scan.books[p].id : p \in DOMAIN scan.books} |->
                   (IF id \in DOMAIN heard THEN heard[id] ELSE {})
                   \cup {Description(scan.books[p].contents) :
                            p \in {q \in DOMAIN scan.books : scan.books[q].id = id}}]
    /\ scan' = NoScan
    /\ crossed' = crossed \cap {e.id : e \in editors}
    /\ UNCHANGED <<disk, mounted, store, restore, editors, spent, doubtful, observed,
                   stranded>>

--------------------------------------------------------------------------------
(* Requests. Every change of the database waits at the state gate while a      *)
(* restore holds it.                                                           *)

ShownIds == {catalogue[p].id : p \in DOMAIN catalogue}

\* update_book_metadata, first half: the override is saved.
StoreEdit(id) ==
    /\ restore = NoRestore
    /\ id \in ShownIds
    /\ Spend(Meta)
    /\ LET value == spent.used[Meta] + 1 IN
       /\ db' = [db EXCEPT !.overrides =
                    [i \in DOMAIN @ \cup {id} |-> IF i = id THEN value ELSE @[i]]]
       /\ editors' = editors \cup {[id |-> id, value |-> value]}
    /\ crossed' = IF \E e \in editors : e.id = id THEN crossed \cup {id} ELSE crossed
    /\ UNCHANGED <<disk, mounted, file, backups, catalogue, scan, restore, heard,
                   doubtful, observed, stranded>>

\* Second half, under the library lock: the published book is patched, if the
\* catalogue still has it.
ShowEdit(e) ==
    /\ editors' = editors \ {e}
    /\ catalogue' = [p \in DOMAIN catalogue |->
                       IF catalogue[p].id = e.id
                       THEN [catalogue[p] EXCEPT !.title = e.value] ELSE catalogue[p]]
    /\ UNCHANGED <<disk, mounted, store, scan, restore, spent, ghosts>>

\* A listener saves a place in a published book.
SavePlace(id) ==
    /\ restore = NoRestore
    /\ id \in ShownIds \ db.places
    /\ Spend(Keep)
    /\ db' = [db EXCEPT !.places = @ \cup {id}]
    /\ UNCHANGED <<disk, mounted, file, backups, catalogue, scan, restore, editors,
                   ghosts>>

\* export_server_backup holds the gate but not the scan lock.
Export ==
    /\ restore = NoRestore
    /\ Spend(Keep)
    /\ backups' = backups \cup {[db |-> db, file |-> file, seen |-> observed]}
    /\ UNCHANGED <<disk, mounted, file, db, catalogue, scan, restore, editors, ghosts>>

--------------------------------------------------------------------------------
(* The restore: both locks, the database, then the identities.                 *)

RestoreDatabase(b) ==
    /\ restore = NoRestore /\ scan = NoScan
    /\ Spend(Keep)
    /\ restore' = [phase |-> "committed", backup |-> b, before |-> db]
    /\ db' = b.db
    /\ crossed' = crossed \cup {e.id : e \in editors}
    /\ UNCHANGED <<disk, mounted, file, backups, catalogue, scan, editors, heard,
                   doubtful, observed, stranded>>

RestoreIdentities ==
    /\ restore.phase = "committed"
    /\ file' = restore.backup.file
    /\ observed' = restore.backup.seen
    /\ restore' = NoRestore
    \* The published books stay up until the next scan, those the backup does not
    \* know among them.
    /\ crossed' = crossed \cup ShownIds
    /\ stranded' = stranded \cup (ShownIds \ DOMAIN file'.books)
    /\ UNCHANGED <<disk, mounted, db, backups, catalogue, scan, editors, spent,
                   heard, doubtful>>

\* The identities cannot be written: the database is put back, unless that fails
\* as well. Then the stores stay apart until the administrator restores the copy
\* that was made before.
RestoreFails ==
    /\ restore.phase = "committed"
    /\ Spend(Fault)
    /\ \/ /\ db' = restore.before
          /\ UNCHANGED <<crossed, stranded>>
       \/ /\ crossed' = crossed \cup ShownIds
          /\ stranded' = stranded \cup ((db.places \cup db.works) \ DOMAIN file.books)
          /\ UNCHANGED db
    /\ restore' = NoRestore
    /\ UNCHANGED <<disk, mounted, file, backups, catalogue, scan, editors, heard,
                   doubtful, observed>>

--------------------------------------------------------------------------------
\* The process is killed and started again; the catalogue is empty until a scan
\* publishes one.
Crash ==
    /\ Spend(Kill)
    /\ catalogue' = NoFiles
    /\ scan' = NoScan /\ restore' = NoRestore
    /\ editors' = {} /\ crossed' = {}
    /\ stranded' = stranded \cup
                   (IF restore = NoRestore THEN {}
                    ELSE (db.places \cup db.works) \ DOMAIN file.books)
    /\ UNCHANGED <<disk, mounted, store, heard, doubtful, observed>>

Disk == \/ \E p \in Paths, rec \in Recordings : Place(p, rec)
        \/ \E p, q \in Paths : Move(p, q)
        \/ \E p \in Paths : Remove(p)
        \/ \E p \in Paths : \E names \in SUBSET DOMAIN disk[p] : Rewrite(p, names)
        \/ \E p \in Paths : \E n, m \in DOMAIN disk[p] : Shuffle(p, n, m)
        \/ \E seen \in SUBSET Paths : Remount(seen, FALSE)
        \/ Remount(Paths, TRUE)

Scanner == \/ Walk
           \/ SaveObservation
           \/ ReadFingerprints
           \/ ReadTags
           \/ ReadFails
           \/ ResolveScan
           \/ SaveIdentities
           \/ SaveWorks
           \/ SaveFails
           \/ Publish

Requests == \/ \E id \in ShownIds : StoreEdit(id)
            \/ \E e \in editors : ShowEdit(e)
            \/ \E id \in ShownIds : SavePlace(id)
            \/ Export
            \/ \E b \in backups : RestoreDatabase(b)
            \/ RestoreIdentities
            \/ RestoreFails

Next == Disk \/ Scanner \/ Requests \/ Crash

Init ==
    /\ \E old \in Legacy :
         /\ disk = old.disk
         /\ file = old.file
         /\ db = [places |-> DOMAIN old.file.books, overrides |-> <<>>, works |-> {}]
         /\ heard = [id \in DOMAIN old.books |-> {Description(Audio(old.books[id]))}]
         /\ \E most \in Bounds : spent = [most |-> most,
                                          used |-> [k \in 1..8 |-> 0]]
    /\ mounted = [seen |-> Paths, broken |-> FALSE]
    /\ catalogue = NoFiles
    /\ scan = NoScan /\ restore = NoRestore
    /\ editors = {} /\ backups = {}
    /\ doubtful = {} /\ observed = <<>> /\ crossed = {} /\ stranded = {}

Spec == Init /\ [][Next]_vars

--------------------------------------------------------------------------------
(* Properties.                                                                 *)

\* An identifier, and with it the place of every listener, never passes to
\* another recording, however books are moved, replaced and rewritten between
\* and during scans (resolve_library_identities, "would hand the newcomer its
\* progress and access grants"). Excepted are books of the same shape, and
\* identities whose stored length was not their book's.
IdsKeepTheirRecording ==
    \A id \in DOMAIN heard \ doubtful : \A b, c \in heard[id] :
        b.recordings = c.recordings \/ b.shape = c.shape

\* A place, or an edition of a work, always refers to a book of the identities
\* on the disk: they are saved before anything can refer to them. Excepted is
\* what a restore leaves behind: one that ended between its two stores, killed or
\* unable to go on or back, or books of the old catalogue before the next scan.
PlacesAreReachable ==
    restore = NoRestore =>
        (db.places \cup db.works) \ stranded \subseteq DOMAIN file.books

\* An edit is shown once its request has ended, though a scan may have replaced
\* the books in between. Excepted are edits that overlap, and a restore until
\* the next scan.
EditsAreShown ==
    restore = NoRestore =>
        \A p \in DOMAIN catalogue :
            \/ catalogue[p].id \in crossed \cup {e.id : e \in editors}
            \/ catalogue[p].title = Title(db.overrides, catalogue[p].id)

Shrinks(before, after) == before > 0 /\ (after = 0 \/ 2 * after < before)

\* The library shrinks to less than half only after the same reduced set of
\* books was found by SHRINK_CONFIRMATIONS recorded walks in a row, none of which
\* met an error ("has to mean three scans that actually observed the library").
ShrinkIsConfirmed ==
    [][scan.phase = "resolved" /\ file' # file
         /\ Shrinks(file.manifest.size, file'.manifest.size)
       => /\ Len(observed') = Confirmations
          /\ \A k \in DOMAIN observed' :
               observed'[k] = [aliases |-> DOMAIN scan.books, failed |-> FALSE]]_vars

Digest(entry) == BookFingerprint(entry.files)

\* What the identities say of a published book: its digest and its directory, and
\* of each file, under the identifier of its track, the digest and the path.
Knows(books, p, entry) ==
    /\ entry.id \in DOMAIN books
    /\ books[entry.id].fp = Digest(entry) /\ PathMatches(books[entry.id], p)
    /\ \A n \in DOMAIN entry.files :
        LET tracks == books[entry.id].tracks
            t == entry.tracks[n]
        IN  /\ t \in DOMAIN tracks
            /\ tracks[t].fp = entry.files[n] /\ <<p, n>> \in Members(tracks[t].paths)

\* Nothing else has the digest: among the scanned books, the files of a book, and
\* the entries of the identities, that is books or the tracks of one.
AloneIn(books, q) == \A p \in DOMAIN books : Digest(books[p]) = Digest(books[q]) => p = q
OnlyFile(files, m) == \A n \in DOMAIN files : files[n] = files[m] => n = m
OnlyEntry(entries, fp, x) ==
    x \in DOMAIN entries /\ \A y \in DOMAIN entries : entries[y].fp = fp <=> y = x

\* A book left as it was, copies of it elsewhere or not: it and its files keep
\* their identifiers, unless a copy is, or was, where the identity or the track
\* has been as well.
KeptInPlace(old, new, base) ==
    \A p \in DOMAIN old \cap DOMAIN new :
        LET id == old[p].id IN
        /\ Knows(base, p, old[p]) /\ new[p].files = old[p].files
        /\ \A q \in DOMAIN new \ {p} :
              Digest(new[q]) = Digest(old[p]) => ~PathMatches(base[id], q)
        /\ \A other \in DOMAIN base \ {id} :
              base[other].fp = Digest(old[p]) => ~PathMatches(base[other], p)
        => /\ new[p].id = id
           /\ \A n \in DOMAIN old[p].files :
                LET files == old[p].files
                    tracks == base[id].tracks
                    t == old[p].tracks[n]
                IN  /\ \A m \in DOMAIN files \ {n} :
                          files[m] = files[n] => <<p, m>> \notin Members(tracks[t].paths)
                    /\ \A u \in DOMAIN tracks \ {t} :
                          tracks[u].fp = files[n] => <<p, n>> \notin Members(tracks[u].paths)
                    => new[p].tracks[n] = t

\* The files that an identity was last saved with, wherever they are now, whatever
\* they are called and however often they could not be read since: the book and
\* each file have its identifiers, if their contents are those of one book and one
\* file, and of one identity and one track of it.
KeptWhenMoved(new, base) ==
    \A q \in DOMAIN new, id \in DOMAIN base :
        /\ Digest(new[q]) = base[id].fp
        /\ AloneIn(new, q) /\ OnlyEntry(base, base[id].fp, id)
        => /\ new[q].id = id
           /\ \A m \in DOMAIN new[q].files, t \in DOMAIN base[id].tracks :
                /\ new[q].files[m] = base[id].tracks[t].fp /\ OnlyFile(new[q].files, m)
                /\ OnlyEntry(base[id].tracks, new[q].files[m], t)
                => new[q].tracks[m] = t

\* No other book could be the identity `id`, and p could be no other book: by a
\* digest of it, or by the path of one that is recognised by nothing else.
Uncontested(new, base, p, id, digests) ==
    /\ \A q \in DOMAIN new \ {p} :
        /\ ~MatchesFingerprint(base[id], Digest(new[q]))
        /\ PathMatches(base[id], q) =>
            /\ AloneIn(new, q)
            /\ \E other \in DOMAIN base : OnlyEntry(base, Digest(new[q]), other)
    /\ \A other \in DOMAIN base \ {id} :
        /\ ~PathMatches(base[other], p)
        /\ \A fp \in digests : ~MatchesFingerprint(base[other], fp)

\* Of its tracks, only t could be the file n, and t no other file.
UncontestedTrack(tracks, p, before, after, n, t) ==
    /\ \A m \in DOMAIN after \ {n} :
        /\ after[m] \notin {before[n], after[n]}
        /\ <<p, m>> \notin Members(tracks[t].paths)
    /\ \A u \in DOMAIN tracks \ {t} :
        /\ tracks[u].fp # after[n]
        /\ <<p, n>> \notin Members(tracks[u].paths)

\* A book rewritten in place, its file names and its length as before: it keeps
\* its identifiers, unless the identities no longer say of it what was published
\* (a scan that failed later was saved, or a backup restored), it was not seen
\* for too many scans, its stored length is wrong, its digest was ever a stand-in,
\* or another book or track is as good a match.
KeptWhenRewritten(old, new, base, counter) ==
    \A p \in DOMAIN old \cap DOMAIN new :
        /\ Knows(base, p, old[p])
        /\ DOMAIN new[p].files = DOMAIN old[p].files
        /\ Shape(new[p].contents) = Shape(old[p].contents)
        /\ RecentlySeen(base[old[p].id], counter)
        /\ {old[p].id, new[p].id} \cap doubtful = {}
        /\ Uncontested(new, base, p, old[p].id, {Digest(old[p]), Digest(new[p])})
        => /\ new[p].id = old[p].id
           /\ \A n \in DOMAIN old[p].files :
                UncontestedTrack(base[old[p].id].tracks, p, old[p].files, new[p].files,
                                 n, old[p].tracks[n])
                => new[p].tracks[n] = old[p].tracks[n]

\* Between two publications a book that was left alone, moved, renamed or rewritten
\* in place keeps its identifier and those of its files, so that no listener loses
\* a place; and the next scan finds in the identities what is published now. All
\* of this is about books that were read. A scan that meets a file it cannot read,
\* and has no digest of from before, publishes the book under a new identifier
\* where it was moved, or where its length could not be read either. The identity
\* is not lost: a scan that reads the files as they were finds it by their digests
\* (KeptWhenMoved), whatever was published between.
KnownBooksKeepTheirIds ==
    [][scan.phase = "recorded" /\ scan' = NoScan /\ catalogue' # NoFiles
       => /\ \A p \in DOMAIN scan.books : Knows(file.books, p, scan.books[p])
          /\ KeptInPlace(catalogue, scan.books, scan.base)
          /\ KeptWhenMoved(scan.books, scan.base)
          /\ KeptWhenRewritten(catalogue, scan.books, scan.base, file.counter)]_vars
================================================================================
