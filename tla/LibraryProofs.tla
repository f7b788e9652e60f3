----------------------------- MODULE LibraryProofs -----------------------------
(* The proofs about the catalogue, for any paths, recordings, limits, numbers  *)
(* of events and whatever an older build left: what refers to a book refers to *)
(* a known one, edits are shown, the library shrinks only on confirmed         *)
(* evidence, and an identifier passes to no other recording.                   *)
EXTENDS LibraryScan, FiniteSetTheorems, FunctionTheorems, TLAPS

--------------------------------------------------------------------------------
(* What is where.                                                              *)

FileShaped(f) ==
  /\ DOMAIN f = {"books", "counter", "shrink", "manifest"}
  /\ DOMAIN f.shrink = {"seen", "times"} /\ f.shrink.times \in Nat
  /\ f.manifest.size \in Nat

DatabaseShaped(d) == DOMAIN d = {"places", "overrides", "works"}

EntryShaped(entry) == DOMAIN entry = {"id", "tracks", "files", "contents", "title"}

\* The books and the phases of a scan that has some.
Resolved == {"resolved", "saved", "recorded"}
IdsIn(books) == {books[p].id : p \in DOMAIN books}

\* One of a scan and a restore at most, and what the scan has in hand.
LockInv ==
  /\ restore # NoRestore => restore.phase = "committed" /\ scan = NoScan
  /\ mounted.broken \in BOOLEAN
  /\ \/ scan = NoScan
     \/ /\ DOMAIN scan = {"phase", "read", "files", "contents", "lengths", "names"}
        /\ scan.phase = "walked" /\ DOMAIN scan.names \subseteq Paths
        /\ "files" \in scan.read => /\ DOMAIN scan.files = DOMAIN scan.names
                                    /\ DOMAIN scan.contents = DOMAIN scan.names
     \/ /\ scan.phase = "withheld"
        /\ scan.aliases \subseteq Paths /\ scan.failed \in BOOLEAN
     \/ /\ scan.phase \in Resolved /\ DOMAIN scan.books \subseteq Paths
        /\ \A p \in DOMAIN scan.books : EntryShaped(scan.books[p])

StoreInv ==
  /\ FileShaped(file) /\ DatabaseShaped(db)
  /\ \A b \in backups : FileShaped(b.file) /\ DatabaseShaped(b.db)
  /\ restore # NoRestore => /\ restore.backup \in backups /\ db = restore.backup.db
                            /\ DatabaseShaped(restore.before)
  /\ \A p \in DOMAIN catalogue : EntryShaped(catalogue[p])
  /\ scan.phase = "resolved" => FileShaped(scan.store)

\* What refers to a book, and where the book has to be.
Refers(d) == d.places \cup d.works
Known(d, f) == Refers(d) \ stranded \subseteq DOMAIN f.books

ReachInv ==
  /\ \A b \in backups : Known(b.db, b.file)
  /\ IF restore = NoRestore THEN Known(db, file) ELSE Known(restore.before, file)
  /\ ShownIds \subseteq DOMAIN file.books \cup stranded
  /\ scan.phase = "resolved" => /\ DOMAIN file.books \subseteq DOMAIN scan.store.books
                                /\ IdsIn(scan.books) \subseteq DOMAIN scan.store.books
  /\ scan.phase \in {"saved", "recorded"} => IdsIn(scan.books) \subseteq DOMAIN file.books

\* An edit whose request has not ended is the last of its book, or is known to
\* have been overtaken.
EditorIds == {e.id : e \in editors}
Shows(d) ==
  \A p \in DOMAIN catalogue :
    \/ catalogue[p].id \in crossed \cup EditorIds
    \/ catalogue[p].title = Title(d.overrides, catalogue[p].id)

EditInv ==
  /\ \A e \in editors :
       e.id \notin crossed => /\ restore = NoRestore
                              /\ e.id \in DOMAIN db.overrides /\ db.overrides[e.id] = e.value
  /\ IF restore = NoRestore THEN Shows(db) ELSE Shows(restore.before)
  /\ scan.phase \in Resolved =>
       \A p \in DOMAIN scan.books :
         scan.books[p].id \notin DOMAIN db.overrides => scan.books[p].title = 0

\* The last walks that were recorded, as the identities count them.
Observation == [aliases : SUBSET Paths, failed : BOOLEAN]
Counts(f, walks) ==
  /\ walks \in Seq(Observation) /\ Len(walks) <= Confirmations
  /\ \A k \in 1..Confirmations : k <= f.shrink.times =>
       /\ k <= Len(walks)
       /\ walks[Len(walks) + 1 - k] = [aliases |-> f.shrink.seen, failed |-> FALSE]

Confirmed(aliases) ==
  Suspect(file, aliases) => SeenBefore(file, aliases) + 1 >= Confirmations

ShrinkInv ==
  /\ Counts(file, observed)
  /\ \A b \in backups : Counts(b.file, b.seen)
  /\ scan.phase = "walked" => Confirmed(DOMAIN scan.names)
  /\ scan.phase = "resolved" => /\ Confirmed(DOMAIN scan.books)
                                /\ scan.store.shrink.times = 0
                                /\ scan.store.manifest.size = Cardinality(DOMAIN scan.books)

LibraryInv == LockInv /\ StoreInv /\ ReachInv /\ EditInv /\ ShrinkInv

--------------------------------------------------------------------------------
(* What resolving and publishing do, as far as this is concerned.              *)

\* A resolved scan keeps every known book, knows all that it names, and counts
\* what it saw.
LEMMA ResolveKeepsBooks ==
  ASSUME NEW f, FileShaped(f), NEW groups, NEW draw, IsFiniteSet(DOMAIN groups)
  PROVE  /\ FileShaped(Resolve(f, groups, draw).store)
         /\ DOMAIN f.books \subseteq DOMAIN Resolve(f, groups, draw).store.books
         /\ \A p \in DOMAIN groups : Resolve(f, groups, draw).ids[p]
                                       \in DOMAIN Resolve(f, groups, draw).store.books
         /\ Resolve(f, groups, draw).store.shrink.times = 0
         /\ Resolve(f, groups, draw).store.manifest.size = Cardinality(DOMAIN groups)
<1> DEFINE first == FirstFivePasses(f, groups)
           claims == SidecarClaims(f, groups, first)
           scan0 == f.counter + 1
           ids == [p \in DOMAIN groups |-> IF p \in Placed(claims) THEN ClaimedBy(claims, p)
                                           ELSE <<draw, p>>]
           entries == [p \in DOMAIN groups |->
               IF ids[p] \notin DOMAIN f.books THEN MintedBook(groups[p])
               ELSE IF p \in Placed(first) THEN f.books[ids[p]]
               ELSE Retired(f.books[ids[p]], p, groups[p].files)]
           tracks == [p \in DOMAIN groups |->
               TrackIds(entries[p].tracks, p, groups[p].files, draw)]
           PathOf(id) == CHOOSE p \in DOMAIN groups : ids[p] = id
           seen == {ids[p] : p \in DOMAIN groups}
           After(p) == Refreshed(entries[p], p, groups[p], scan0, tracks[p])
           books == [id \in DOMAIN f.books \cup seen |->
                       IF id \in seen THEN After(PathOf(id)) ELSE f.books[id]]
           manifest == [size |-> Cardinality(DOMAIN groups),
                        fingerprints |-> Digests(groups, DOMAIN groups)]
           shrink == [seen |-> {}, times |-> 0]
           after == [f EXCEPT !.books = books, !.counter = scan0, !.shrink = shrink,
                              !.manifest = manifest]
<1>1. Resolve(f, groups, draw) = [ids |-> ids, tracks |-> tracks, store |-> after]
  BY DEF Resolve
<1>2. Resolve(f, groups, draw).ids = ids /\ Resolve(f, groups, draw).store = after
  <2> HIDE DEF ids, tracks, after
  <2> QED BY <1>1
<1>3. DOMAIN ids = DOMAIN groups /\ DOMAIN books = DOMAIN f.books \cup seen
  OBVIOUS
<1>4. \A p \in DOMAIN groups : ids[p] \in seen
  OBVIOUS
<1>5. manifest.size = Cardinality(DOMAIN groups) /\ Cardinality(DOMAIN groups) \in Nat
  BY FS_CardinalityType
<1>6. shrink.times = 0 /\ DOMAIN shrink = {"seen", "times"}
  OBVIOUS
<1> HIDE DEF ids, books, manifest, shrink, seen, scan0
<1>7. /\ after.books = books /\ after.shrink = shrink /\ after.manifest = manifest
      /\ DOMAIN after = DOMAIN f
  BY DEF FileShaped
<1> QED BY <1>2, <1>3, <1>4, <1>5, <1>6, <1>7 DEF FileShaped

\* A published book is the scanned one with its newest title.
LEMMA PublishedAre ==
  ASSUME NEW books, NEW p \in DOMAIN books, EntryShaped(books[p])
  PROVE  /\ DOMAIN Published(books) = DOMAIN books
         /\ EntryShaped(Published(books)[p])
         /\ Published(books)[p].id = books[p].id
         /\ Published(books)[p].title = IF books[p].id \in DOMAIN db.overrides
                                        THEN db.overrides[books[p].id] ELSE books[p].title
BY DEF Published, EntryShaped

\* What follows when an entry is appended to a sequence of limited length.
LEMMA LastOfAppend ==
  ASSUME NEW s \in Seq(Observation), NEW n \in Nat \ {0}, Len(s) <= n,
         NEW x \in Observation, NEW t, t = LastOf(Append(s, x), n)
  PROVE  /\ t \in Seq(Observation) /\ Len(t) <= n
         /\ Len(t) = IF Len(s) < n THEN Len(s) + 1 ELSE n
         /\ t[Len(t)] = x
<1> DEFINE a == Append(s, x)
<1>1. a \in Seq(Observation) /\ Len(a) = Len(s) + 1 /\ a[Len(s) + 1] = x
      /\ \A k \in 1..Len(s) : a[k] = s[k]
  OBVIOUS
<1>2. Len(s) \in Nat
  OBVIOUS
<1>0. t = LastOf(a, n)
  OBVIOUS
<1> HIDE DEF a
<1>3. CASE Len(a) <= n
  <2>1. t = a
    BY <1>0, <1>3 DEF LastOf
  <2> QED BY <1>1, <1>2, <1>3, <2>1
<1>4. CASE ~(Len(a) <= n)
  <2>0. Len(s) = n
    BY <1>1, <1>2, <1>4
  <2>1. t = SubSeq(a, Len(a) - n + 1, Len(a))
    BY <1>0, <1>4, Zenon DEF LastOf
  <2>2. t = SubSeq(a, 2, n + 1) /\ Len(a) = n + 1
    BY <1>1, <2>0, <2>1
  <2>3. t \in Seq(Observation) /\ Len(t) = n /\ \A k \in 1..n : t[k] = a[k + 1]
    BY <1>1, <2>2
  <2> QED BY <1>1, <2>0, <2>3
<1> QED BY <1>3, <1>4

\* What was there before moves up.
LEMMA LastOfKeeps ==
  ASSUME NEW s \in Seq(Observation), NEW n \in Nat \ {0}, Len(s) <= n,
         NEW x \in Observation, NEW t, t = LastOf(Append(s, x), n),
         NEW k \in 1..n, k < Len(t)
  PROVE  t[Len(t) - k] = s[Len(s) + 1 - k]
<1> DEFINE a == Append(s, x)
<1>1. a \in Seq(Observation) /\ Len(a) = Len(s) + 1 /\ a[Len(s) + 1] = x
      /\ \A j \in 1..Len(s) : a[j] = s[j]
  OBVIOUS
<1>2. Len(s) \in Nat
  OBVIOUS
<1>0. t = LastOf(a, n)
  OBVIOUS
<1> HIDE DEF a
<1>3. CASE Len(a) <= n
  <2>1. t = a
    BY <1>0, <1>3 DEF LastOf
  <2> QED BY <1>1, <1>2, <1>3, <2>1
<1>4. CASE ~(Len(a) <= n)
  <2>0. Len(s) = n
    BY <1>1, <1>2, <1>4
  <2>1. t = SubSeq(a, Len(a) - n + 1, Len(a))
    BY <1>0, <1>4, Zenon DEF LastOf
  <2>2. t = SubSeq(a, 2, n + 1) /\ Len(a) = n + 1
    <3>1. Len(a) = n + 1 /\ Len(a) - n + 1 = 2
      BY <1>1, <2>0
    <3> QED BY <2>1, <3>1
  <2>3. t \in Seq(Observation) /\ Len(t) = n /\ \A j \in 1..n : t[j] = a[j + 1]
    BY <1>1, <2>2
  <2> QED BY <1>1, <2>0, <2>3
<1> QED BY <1>3, <1>4

--------------------------------------------------------------------------------
(* Each step keeps the invariant. First those that touch no store.             *)

published == <<file, db, backups, catalogue, restore, editors, crossed, stranded, observed>>

\* Names of the parts that do not hang on the scan.
LEMMA Lasting ==
  ASSUME LibraryInv, UNCHANGED published
  PROVE  /\ FileShaped(file)' /\ DatabaseShaped(db)'
         /\ (\A b \in backups : FileShaped(b.file) /\ DatabaseShaped(b.db))'
         /\ (restore # NoRestore => /\ restore.backup \in backups /\ db = restore.backup.db
                                    /\ DatabaseShaped(restore.before))'
         /\ (\A p \in DOMAIN catalogue : EntryShaped(catalogue[p]))'
         /\ (\A b \in backups : Known(b.db, b.file))'
         /\ (IF restore = NoRestore THEN Known(db, file) ELSE Known(restore.before, file))'
         /\ (ShownIds \subseteq DOMAIN file.books \cup stranded)'
         /\ (\A e \in editors : e.id \notin crossed =>
                /\ restore = NoRestore
                /\ e.id \in DOMAIN db.overrides /\ db.overrides[e.id] = e.value)'
         /\ (IF restore = NoRestore THEN Shows(db) ELSE Shows(restore.before))'
         /\ Counts(file, observed)'
         /\ (\A b \in backups : Counts(b.file, b.seen))'
<1>1. UNCHANGED <<file, db, backups, catalogue, restore, editors, crossed, stranded, observed>>
  BY DEF published
<1>2. /\ FileShaped(file)' /\ DatabaseShaped(db)'
      /\ (\A b \in backups : FileShaped(b.file) /\ DatabaseShaped(b.db))'
      /\ (restore # NoRestore => /\ restore.backup \in backups /\ db = restore.backup.db
                                 /\ DatabaseShaped(restore.before))'
      /\ (\A p \in DOMAIN catalogue : EntryShaped(catalogue[p]))'
  BY <1>1 DEF LibraryInv, StoreInv, FileShaped, DatabaseShaped, EntryShaped
<1>3. /\ (\A b \in backups : Known(b.db, b.file))'
      /\ (IF restore = NoRestore THEN Known(db, file) ELSE Known(restore.before, file))'
      /\ (ShownIds \subseteq DOMAIN file.books \cup stranded)'
  BY <1>1 DEF LibraryInv, ReachInv, Known, Refers, ShownIds
<1>4. /\ (\A e \in editors : e.id \notin crossed =>
             /\ restore = NoRestore
             /\ e.id \in DOMAIN db.overrides /\ db.overrides[e.id] = e.value)'
      /\ (IF restore = NoRestore THEN Shows(db) ELSE Shows(restore.before))'
  BY <1>1 DEF LibraryInv, EditInv, Shows, EditorIds
<1>5. /\ Counts(file, observed)'
      /\ (\A b \in backups : Counts(b.file, b.seen))'
  BY <1>1 DEF LibraryInv, ShrinkInv, Counts
<1> QED BY <1>2, <1>3, <1>4, <1>5

\* The disk changes, or the mount.
LEMMA DiskSteps ==
  ASSUME LibraryInv, UNCHANGED published, UNCHANGED scan, mounted'.broken \in BOOLEAN
  PROVE  LibraryInv'
<1>1. LockInv'
  BY DEF LibraryInv, LockInv, published, EntryShaped
<1>2. StoreInv'
  BY Lasting DEF LibraryInv, StoreInv, FileShaped
<1>3. ReachInv'
  BY Lasting DEF LibraryInv, ReachInv, IdsIn, published
<1>4. EditInv'
  BY Lasting DEF LibraryInv, EditInv, published
<1>5. ShrinkInv'
  BY Lasting DEF LibraryInv, ShrinkInv, published, Confirmed
<1> QED BY <1>1, <1>2, <1>3, <1>4, <1>5 DEF LibraryInv

\* A scan ends, or has nothing to save yet but an observation.
LEMMA EarlySteps ==
  ASSUME LibraryInv, UNCHANGED published, UNCHANGED mounted, restore = NoRestore,
         \/ scan' = NoScan
         \/ /\ DOMAIN scan' = {"phase", "read", "files", "contents", "lengths", "names"}
            /\ scan'.phase = "walked" /\ DOMAIN scan'.names \subseteq Paths
            /\ "files" \in scan'.read => /\ DOMAIN scan'.files = DOMAIN scan'.names
                                         /\ DOMAIN scan'.contents = DOMAIN scan'.names
            /\ Confirmed(DOMAIN scan'.names)
         \/ /\ scan'.phase = "withheld"
            /\ scan'.aliases \subseteq Paths /\ scan'.failed \in BOOLEAN
  PROVE  LibraryInv'
<1>0. scan'.phase \in {"idle", "walked", "withheld"}
  BY DEF NoScan
<1>1. LockInv'
  BY DEF LibraryInv, LockInv, published
<1>2. StoreInv'
  BY <1>0, Lasting DEF StoreInv
<1>3. ReachInv'
  BY <1>0, Lasting DEF ReachInv
<1>4. EditInv'
  BY <1>0, Lasting DEF EditInv, Resolved
<1>5. ShrinkInv'
  <2>1. scan'.phase = "walked" => Confirmed(DOMAIN scan.names)'
    BY DEF NoScan, Confirmed, published
  <2> QED BY <1>0, <2>1, Lasting DEF ShrinkInv
<1> QED BY <1>1, <1>2, <1>3, <1>4, <1>5 DEF LibraryInv

\* A walk is judged.
LEMMA WalkSteps ==
  ASSUME LibraryInv, Walk
  PROVE  LibraryInv'
<1>1. UNCHANGED published /\ UNCHANGED mounted /\ restore = NoRestore
  BY DEF Walk, published, store, ghosts
<1>2. Visible \subseteq Paths
  BY DEF Visible, Books
<1>3. CASE Trusted(file, Visible, mounted.broken)
  <2>1. /\ DOMAIN scan' = {"phase", "read", "files", "contents", "lengths", "names"}
        /\ scan'.phase = "walked" /\ DOMAIN scan'.names = Visible /\ scan'.read = {}
    BY <1>3 DEF Walk
  <2>2. Confirmed(Visible)
    BY <1>3 DEF Trusted, Confirmed
  <2> QED BY <1>1, <1>2, <2>1, <2>2, EarlySteps
<1>4. CASE ~Trusted(file, Visible, mounted.broken)
  <2>1. /\ scan'.phase = "withheld" /\ scan'.failed = mounted.broken
        /\ scan'.aliases \subseteq Visible
    BY <1>4 DEF Walk
  <2>2. mounted.broken \in BOOLEAN
    BY DEF LibraryInv, LockInv
  <2> QED BY <1>1, <1>2, <2>1, <2>2, EarlySteps
<1> QED BY <1>3, <1>4

\* What a scan has in hand that is reading the books it walked.
LEMMA WalkedScan ==
  ASSUME LibraryInv, scan.phase = "walked"
  PROVE  /\ DOMAIN scan = {"phase", "read", "files", "contents", "lengths", "names"}
         /\ DOMAIN scan.names \subseteq Paths
         /\ "files" \in scan.read => /\ DOMAIN scan.files = DOMAIN scan.names
                                     /\ DOMAIN scan.contents = DOMAIN scan.names
         /\ restore = NoRestore /\ Confirmed(DOMAIN scan.names)
BY DEF LibraryInv, LockInv, ShrinkInv, NoScan, Resolved

\* The digests and the tags are read, or cannot be.
LEMMA ReadSteps ==
  ASSUME LibraryInv, ReadFingerprints \/ ReadTags \/ ReadFails
  PROVE  LibraryInv'
<1>1. UNCHANGED published /\ UNCHANGED mounted
  BY DEF ReadFingerprints, ReadTags, ReadFails, published, store, ghosts
<1>2. /\ DOMAIN scan = {"phase", "read", "files", "contents", "lengths", "names"}
      /\ scan.phase = "walked" /\ DOMAIN scan.names \subseteq Paths
      /\ "files" \in scan.read => /\ DOMAIN scan.files = DOMAIN scan.names
                                  /\ DOMAIN scan.contents = DOMAIN scan.names
      /\ restore = NoRestore /\ Confirmed(DOMAIN scan.names)
  <2>1. scan.phase = "walked"
    BY Zenon DEF ReadFingerprints, ReadTags, ReadFails
  <2> QED BY <2>1, WalkedScan
<1>3. CASE ReadFails
  BY <1>1, <1>2, <1>3, EarlySteps DEF ReadFails
<1>4. CASE ReadFingerprints
  <2>1. PICK files, contents :
             /\ DOMAIN files = DOMAIN scan.names /\ DOMAIN contents = DOMAIN scan.names
             /\ scan' = [scan EXCEPT !.read = @ \cup {"files"}, !.files = files,
                                     !.contents = contents]
    <3>1. PICK unread : scan' = [scan EXCEPT !.read = @ \cup {"files"},
                                   !.files = DigestsBut(unread), !.contents = Contents]
      BY <1>4, Zenon DEF ReadFingerprints
    <3>2. DOMAIN DigestsBut(unread) = DOMAIN scan.names /\ DOMAIN Contents = DOMAIN scan.names
      BY DEF DigestsBut, Contents
    <3> QED BY <3>1, <3>2, Zenon
  <2> QED BY <1>1, <1>2, <2>1, EarlySteps
<1>5. CASE ReadTags
  <2>1. PICK lengths : scan' = [scan EXCEPT !.read = @ \cup {"lengths"}, !.lengths = lengths]
    BY <1>5, Zenon DEF ReadTags
  <2> QED BY <1>1, <1>2, <2>1, EarlySteps
<1> QED BY <1>3, <1>4, <1>5

\* A save of the scan fails.
LEMMA FailedScans ==
  ASSUME LibraryInv, SaveFails
  PROVE  LibraryInv'
<1>1. UNCHANGED published /\ UNCHANGED mounted /\ scan' = NoScan
  BY DEF SaveFails, published, store, ghosts
<1>2. restore = NoRestore
  BY DEF LibraryInv, LockInv, SaveFails, NoScan
<1> QED BY <1>1, <1>2, EarlySteps

--------------------------------------------------------------------------------
(* The steps of a scan that save and publish.                                  *)

\* Nothing is counted, or an observation more, once a walk is on record.
LEMMA CountsMore ==
  ASSUME NEW f, NEW g, NEW walks, Counts(f, walks), f.shrink.times \in Nat,
         NEW aliases \in SUBSET Paths, NEW failed \in BOOLEAN,
         NEW longer,
         longer = LastOf(Append(walks, [aliases |-> aliases, failed |-> failed]), Confirmations),
         \/ g.shrink.times = 0
         \/ /\ ~failed /\ g.shrink.seen = aliases
            /\ g.shrink.times = (IF f.shrink.seen = aliases THEN f.shrink.times ELSE 0) + 1
  PROVE  Counts(g, longer)
<1> DEFINE x == [aliases |-> aliases, failed |-> failed]
<1>1. walks \in Seq(Observation) /\ Len(walks) <= Confirmations /\ x \in Observation
      /\ Confirmations \in Nat \ {0}
  BY LibraryConstants DEF Counts, Observation
<1>2. longer = LastOf(Append(walks, x), Confirmations)
  OBVIOUS
<1>3. x.aliases = aliases /\ x = [aliases |-> aliases, failed |-> failed]
  OBVIOUS
<1> HIDE DEF x
<1>4. /\ longer \in Seq(Observation) /\ Len(longer) <= Confirmations
      /\ Len(longer) = IF Len(walks) < Confirmations THEN Len(walks) + 1 ELSE Confirmations
      /\ longer[Len(longer)] = x
      /\ \A k \in 1..Confirmations :
           k < Len(longer) => longer[Len(longer) - k] = walks[Len(walks) + 1 - k]
  <2>1. longer \in Seq(Observation)
    BY <1>1, <1>2, LastOfAppend
  <2>2. Len(longer) <= Confirmations
    BY <1>1, <1>2, LastOfAppend
  <2>3. Len(longer) = IF Len(walks) < Confirmations THEN Len(walks) + 1 ELSE Confirmations
    BY <1>1, <1>2, LastOfAppend
  <2>4. longer[Len(longer)] = x
    BY <1>1, <1>2, LastOfAppend
  <2>5. ASSUME NEW k \in 1..Confirmations, k < Len(longer)
        PROVE  longer[Len(longer) - k] = walks[Len(walks) + 1 - k]
    <3>1. Confirmations \in Nat \ {0} /\ Len(walks) <= Confirmations
      BY <1>1
    <3> QED BY <1>1, <1>2, <2>5, <3>1, LastOfKeeps
  <2> QED BY <2>1, <2>2, <2>3, <2>4, <2>5
<1>5. Len(walks) \in Nat /\ Len(longer) \in Nat
  BY <1>1, <1>4
<1>6. CASE g.shrink.times = 0
  BY <1>4, <1>6 DEF Counts
<1>7. CASE /\ ~failed /\ g.shrink.seen = aliases
           /\ g.shrink.times = (IF f.shrink.seen = aliases THEN f.shrink.times ELSE 0) + 1
  <2> SUFFICES ASSUME NEW k \in 1..Confirmations, k <= g.shrink.times
               PROVE  /\ k <= Len(longer)
                      /\ longer[Len(longer) + 1 - k]
                           = [aliases |-> g.shrink.seen, failed |-> FALSE]
    BY <1>4 DEF Counts
  <2>1. x = [aliases |-> g.shrink.seen, failed |-> FALSE]
    BY <1>3, <1>7
  <2>2. CASE k = 1
    BY <1>1, <1>4, <1>5, <2>1, <2>2
  <2>3. CASE k # 1
    <3>1. f.shrink.seen = aliases /\ g.shrink.times = f.shrink.times + 1
      BY <1>7, <2>3
    <3>2. k - 1 \in 1..Confirmations /\ k - 1 <= f.shrink.times
      BY <1>1, <2>3, <3>1
    <3>3. /\ k - 1 <= Len(walks)
          /\ walks[Len(walks) + 1 - (k - 1)] = [aliases |-> f.shrink.seen, failed |-> FALSE]
      BY <3>2 DEF Counts
    <3>4. k <= Len(longer) /\ k - 1 < Len(longer)
      BY <1>1, <1>4, <1>5, <3>2, <3>3
    <3>5. longer[Len(longer) - (k - 1)] = walks[Len(walks) + 1 - (k - 1)]
      BY <1>4, <3>2, <3>4
    <3>6. Len(longer) - (k - 1) = Len(longer) + 1 - k
      BY <1>5, <3>2
    <3> QED BY <1>7, <3>1, <3>3, <3>4, <3>5, <3>6
  <2> QED BY <2>2, <2>3
<1> QED BY <1>6, <1>7

\* A withheld scan records what it saw.
LEMMA ObservationSteps ==
  ASSUME LibraryInv, SaveObservation
  PROVE  LibraryInv'
<1>1. /\ UNCHANGED <<mounted, db, backups, catalogue, restore, editors, crossed, stranded>>
      /\ scan' = NoScan /\ file' = NoteShrink(file, scan.aliases, scan.failed)
      /\ observed' = LastOf(Append(observed, [aliases |-> scan.aliases, failed |-> scan.failed]),
                            Confirmations)
  BY DEF SaveObservation, Observe
<1>2. /\ scan.aliases \subseteq Paths /\ scan.failed \in BOOLEAN /\ restore = NoRestore
      /\ FileShaped(file)
  BY DEF SaveObservation, LibraryInv, LockInv, StoreInv, NoScan, Resolved
<1>3. /\ FileShaped(file') /\ file'.books = file.books
      /\ \/ file'.shrink.times = 0
         \/ /\ ~scan.failed /\ file'.shrink.seen = scan.aliases
            /\ file'.shrink.times = SeenBefore(file, scan.aliases) + 1
  BY <1>1, <1>2 DEF NoteShrink, FileShaped, SeenBefore
<1>4. scan'.phase = "idle"
  BY <1>1 DEF NoScan
<1>5. LockInv'
  BY <1>1, <1>2 DEF LibraryInv, LockInv
<1>6. StoreInv'
  BY <1>1, <1>2, <1>3, <1>4 DEF LibraryInv, StoreInv, DatabaseShaped, EntryShaped, FileShaped
<1>7. ReachInv'
  BY <1>1, <1>2, <1>3, <1>4 DEF LibraryInv, ReachInv, Known, Refers, ShownIds
<1>8. EditInv'
  BY <1>1, <1>2, <1>4 DEF LibraryInv, EditInv, Shows, EditorIds, Resolved
<1>9. ShrinkInv'
  <2>1. Counts(file, observed)'
    BY <1>1, <1>2, <1>3, CountsMore DEF LibraryInv, ShrinkInv, FileShaped, SeenBefore
  <2>2. (\A b \in backups : Counts(b.file, b.seen))'
    BY <1>1 DEF LibraryInv, ShrinkInv, Counts
  <2> QED BY <1>4, <2>1, <2>2 DEF ShrinkInv
<1> QED BY <1>5, <1>6, <1>7, <1>8, <1>9 DEF LibraryInv

\* The books of a scan are resolved.
LEMMA ResolveSteps ==
  ASSUME LibraryInv, ResolveScan
  PROVE  LibraryInv'
<1>1. UNCHANGED published /\ UNCHANGED mounted
  BY DEF ResolveScan, published, store
<1>2. /\ DOMAIN scan.names \subseteq Paths /\ DOMAIN scan.files = DOMAIN scan.names
      /\ restore = NoRestore /\ Confirmed(DOMAIN scan.names) /\ FileShaped(file)
  BY DEF LibraryInv, LockInv, StoreInv, ShrinkInv, ResolveScan, NoScan, Resolved
<1> DEFINE result == Resolve(file, GroupsRead, spent.used[Scan])
           Entry(p) == [id |-> result.ids[p], tracks |-> result.tracks[p],
                        files |-> scan.files[p], contents |-> scan.contents[p],
                        title |-> Title(db.overrides, result.ids[p])]
           books == [p \in DOMAIN scan.files |-> Entry(p)]
<1>3. scan' = [phase |-> "resolved", store |-> result.store, books |-> books]
  BY DEF ResolveScan
<1>4. DOMAIN GroupsRead = DOMAIN scan.files /\ IsFiniteSet(DOMAIN GroupsRead)
  BY <1>2, FS_Subset, ScanAssumption DEF GroupsRead
<1>5. /\ FileShaped(result.store)
      /\ DOMAIN file.books \subseteq DOMAIN result.store.books
      /\ \A p \in DOMAIN GroupsRead : result.ids[p] \in DOMAIN result.store.books
      /\ result.store.shrink.times = 0
      /\ result.store.manifest.size = Cardinality(DOMAIN GroupsRead)
  BY <1>2, <1>4, ResolveKeepsBooks
<1> HIDE DEF result
<1>6. /\ DOMAIN books = DOMAIN scan.files
      /\ \A p \in DOMAIN scan.files : /\ EntryShaped(books[p])
                                      /\ books[p].id = result.ids[p]
                                      /\ books[p].title = Title(db.overrides, result.ids[p])
  BY DEF EntryShaped
<1> HIDE DEF books
<1>7. scan'.phase = "resolved" /\ scan'.store = result.store /\ scan'.books = books
  BY <1>3
<1>8. LockInv'
  BY <1>1, <1>2, <1>6, <1>7 DEF LibraryInv, LockInv, published, Resolved, EntryShaped
<1>9. StoreInv'
  BY <1>1, <1>5, <1>7, Lasting DEF StoreInv, FileShaped
<1>10. ReachInv'
  <2>1. IdsIn(books) \subseteq DOMAIN result.store.books
    BY <1>4, <1>5, <1>6 DEF IdsIn
  <2>2. (DOMAIN file.books \subseteq DOMAIN scan.store.books)'
    BY <1>1, <1>5, <1>7 DEF published
  <2>3. (IdsIn(scan.books) \subseteq DOMAIN scan.store.books)'
    BY <1>7, <2>1 DEF IdsIn
  <2> QED BY <1>1, <1>7, <2>2, <2>3, Lasting DEF ReachInv
<1>11. EditInv'
  <2>1. \A p \in DOMAIN books : books[p].id \notin DOMAIN db.overrides => books[p].title = 0
    BY <1>6 DEF Title
  <2>2. (\A p \in DOMAIN scan.books :
           scan.books[p].id \notin DOMAIN db.overrides => scan.books[p].title = 0)'
    BY <1>1, <1>7, <2>1 DEF published
  <2> QED BY <1>1, <2>2, Lasting DEF EditInv
<1>12. ShrinkInv'
  <2>1. Confirmed(DOMAIN scan.books)'
    BY <1>1, <1>2, <1>6, <1>7 DEF Confirmed, published
  <2> QED BY <1>1, <1>2, <1>4, <1>5, <1>6, <1>7, <2>1, Lasting DEF ShrinkInv
<1> QED BY <1>8, <1>9, <1>10, <1>11, <1>12 DEF LibraryInv

\* The identities are saved.
LEMMA IdentitiesSteps ==
  ASSUME LibraryInv, SaveIdentities
  PROVE  LibraryInv'
<1>1. /\ UNCHANGED <<mounted, db, backups, catalogue, restore, editors, crossed, stranded>>
      /\ file' = scan.store /\ scan'.phase = "saved" /\ scan'.books = scan.books
      /\ observed' = LastOf(Append(observed, [aliases |-> DOMAIN scan.books, failed |-> FALSE]),
                            Confirmations)
  BY DEF SaveIdentities, Observe
<1>2. /\ scan.phase = "resolved" /\ restore = NoRestore /\ DOMAIN scan.books \subseteq Paths
      /\ \A p \in DOMAIN scan.books : EntryShaped(scan.books[p])
  BY DEF SaveIdentities, LibraryInv, LockInv, NoScan, Resolved
<1>3. /\ FileShaped(file) /\ FileShaped(scan.store) /\ scan.store.shrink.times = 0
      /\ DOMAIN file.books \subseteq DOMAIN scan.store.books
      /\ IdsIn(scan.books) \subseteq DOMAIN scan.store.books
  BY <1>2 DEF LibraryInv, StoreInv, ReachInv, ShrinkInv
<1>4. LockInv'
  BY <1>1, <1>2 DEF LibraryInv, LockInv, Resolved, EntryShaped
<1>5. StoreInv'
  BY <1>1, <1>2, <1>3 DEF LibraryInv, StoreInv, DatabaseShaped, EntryShaped, FileShaped
<1>6. ReachInv'
  <2>1. Known(db, file)'
    BY <1>1, <1>2, <1>3 DEF LibraryInv, ReachInv, Known, Refers
  <2>2. (ShownIds \subseteq DOMAIN file.books \cup stranded)'
    BY <1>1, <1>3 DEF LibraryInv, ReachInv, ShownIds
  <2>3. (\A b \in backups : Known(b.db, b.file))'
    BY <1>1 DEF LibraryInv, ReachInv, Known, Refers
  <2>4. (IdsIn(scan.books) \subseteq DOMAIN file.books)'
    BY <1>1, <1>3 DEF IdsIn
  <2> QED BY <1>1, <1>2, <2>1, <2>2, <2>3, <2>4 DEF ReachInv
<1>7. EditInv'
  BY <1>1, <1>2 DEF LibraryInv, EditInv, Shows, EditorIds, Resolved
<1>8. ShrinkInv'
  <2>1. Counts(file, observed)'
    BY <1>1, <1>2, <1>3, CountsMore DEF LibraryInv, ShrinkInv, FileShaped
  <2>2. (\A b \in backups : Counts(b.file, b.seen))'
    BY <1>1 DEF LibraryInv, ShrinkInv, Counts
  <2> QED BY <1>1, <2>1, <2>2 DEF ShrinkInv
<1> QED BY <1>4, <1>5, <1>6, <1>7, <1>8 DEF LibraryInv

\* The works are saved.
LEMMA WorksSteps ==
  ASSUME LibraryInv, SaveWorks
  PROVE  LibraryInv'
<1>1. /\ UNCHANGED <<mounted, file, backups, catalogue, restore, editors, crossed, stranded,
                     observed>>
      /\ db' = [db EXCEPT !.works = @ \cup IdsIn(scan.books)]
      /\ scan' = [scan EXCEPT !.phase = "recorded"]
  BY DEF SaveWorks, ghosts, IdsIn
<1>2. /\ scan.phase = "saved" /\ restore = NoRestore /\ DOMAIN scan.books \subseteq Paths
      /\ \A p \in DOMAIN scan.books : EntryShaped(scan.books[p])
      /\ scan'.phase \in {"recorded", "saved"}
  BY <1>1 DEF SaveWorks, LibraryInv, LockInv, NoScan, Resolved
<1>3. PICK w : db' = [db EXCEPT !.works = w] /\ w = db.works \cup IdsIn(scan.books)
  BY <1>1
<1>4. /\ DatabaseShaped(db') /\ db'.places = db.places /\ db'.overrides = db.overrides
      /\ db'.works = db.works \cup IdsIn(scan.books)
  BY <1>3 DEF LibraryInv, StoreInv, DatabaseShaped
<1>5. scan'.books = scan.books
  BY <1>1
<1>6. IdsIn(scan.books) \subseteq DOMAIN file.books
  BY <1>2 DEF LibraryInv, ReachInv
<1>7. LockInv'
  BY <1>1, <1>2, <1>5 DEF LibraryInv, LockInv, Resolved, EntryShaped
<1>8. StoreInv'
  BY <1>1, <1>2, <1>4 DEF LibraryInv, StoreInv, DatabaseShaped, EntryShaped, FileShaped
<1>9. ReachInv'
  <2>1. Known(db, file)'
    BY <1>1, <1>2, <1>4, <1>6 DEF LibraryInv, ReachInv, Known, Refers
  <2>2. (ShownIds \subseteq DOMAIN file.books \cup stranded)'
    BY <1>1 DEF LibraryInv, ReachInv, ShownIds
  <2>3. (\A b \in backups : Known(b.db, b.file))'
    BY <1>1 DEF LibraryInv, ReachInv, Known, Refers
  <2>4. (IdsIn(scan.books) \subseteq DOMAIN file.books)'
    BY <1>1, <1>5, <1>6 DEF IdsIn
  <2> QED BY <1>1, <1>2, <2>1, <2>2, <2>3, <2>4 DEF ReachInv
<1>10. EditInv'
  BY <1>1, <1>2, <1>4, <1>5 DEF LibraryInv, EditInv, Shows, EditorIds, Resolved
<1>11. ShrinkInv'
  <2>1. Counts(file, observed)' /\ (\A b \in backups : Counts(b.file, b.seen))'
    BY <1>1 DEF LibraryInv, ShrinkInv, Counts
  <2> QED BY <1>2, <2>1 DEF ShrinkInv
<1> QED BY <1>7, <1>8, <1>9, <1>10, <1>11 DEF LibraryInv

\* The books of a scan are published.
LEMMA PublishSteps ==
  ASSUME LibraryInv, Publish
  PROVE  LibraryInv'
<1>1. /\ UNCHANGED <<mounted, file, db, backups, restore, editors, stranded, observed>>
      /\ catalogue' = Published(scan.books) /\ scan' = NoScan
      /\ crossed' = crossed \cap EditorIds
  BY DEF Publish, store, EditorIds
<1>2. /\ scan.phase = "recorded" /\ restore = NoRestore
      /\ \A p \in DOMAIN scan.books : EntryShaped(scan.books[p])
      /\ scan'.phase = "idle"
  BY <1>1 DEF Publish, LibraryInv, LockInv, NoScan, Resolved
<1>3. /\ DOMAIN catalogue' = DOMAIN scan.books
      /\ \A p \in DOMAIN scan.books :
           /\ EntryShaped(catalogue'[p]) /\ catalogue'[p].id = scan.books[p].id
           /\ catalogue'[p].title = IF scan.books[p].id \in DOMAIN db.overrides
                                    THEN db.overrides[scan.books[p].id] ELSE scan.books[p].title
  <2>1. DOMAIN catalogue' = DOMAIN scan.books
    BY <1>1 DEF Published
  <2> QED BY <1>1, <1>2, <2>1, PublishedAre
<1>4. LockInv'
  BY <1>1, <1>2 DEF LibraryInv, LockInv
<1>5. StoreInv'
  <2>1. (\A p \in DOMAIN catalogue : EntryShaped(catalogue[p]))'
    BY <1>3 DEF EntryShaped
  <2> QED BY <1>1, <1>2, <2>1 DEF LibraryInv, StoreInv, DatabaseShaped, FileShaped
<1>6. ReachInv'
  <2>1. Known(db, file)'
    BY <1>1, <1>2 DEF LibraryInv, ReachInv, Known, Refers
  <2>2. (ShownIds \subseteq DOMAIN file.books \cup stranded)'
    BY <1>1, <1>2, <1>3 DEF LibraryInv, ReachInv, ShownIds, IdsIn
  <2>3. (\A b \in backups : Known(b.db, b.file))'
    BY <1>1 DEF LibraryInv, ReachInv, Known, Refers
  <2> QED BY <1>1, <1>2, <2>1, <2>2, <2>3 DEF ReachInv
<1>7. EditInv'
  <2>1. Shows(db)'
    <3>1. \A p \in DOMAIN scan.books :
            scan.books[p].id \notin DOMAIN db.overrides => scan.books[p].title = 0
      BY <1>2 DEF LibraryInv, EditInv, Resolved
    <3> QED BY <1>1, <1>3, <3>1 DEF Shows, Title
  <2>2. (\A e \in editors :
           e.id \notin crossed => /\ restore = NoRestore
                                  /\ e.id \in DOMAIN db.overrides /\ db.overrides[e.id] = e.value)'
    BY <1>1 DEF LibraryInv, EditInv, EditorIds
  <2> QED BY <1>1, <1>2, <2>1, <2>2 DEF EditInv, Resolved
<1>8. ShrinkInv'
  <2>1. Counts(file, observed)' /\ (\A b \in backups : Counts(b.file, b.seen))'
    BY <1>1 DEF LibraryInv, ShrinkInv, Counts
  <2> QED BY <1>2, <2>1 DEF ShrinkInv
<1> QED BY <1>4, <1>5, <1>6, <1>7, <1>8 DEF LibraryInv

--------------------------------------------------------------------------------
(* The steps of the requests and of a restore.                                 *)

\* An administrator's edit is saved.
LEMMA StoreEditSteps ==
  ASSUME LibraryInv, NEW id \in ShownIds, StoreEdit(id)
  PROVE  LibraryInv'
<1> DEFINE value == spent.used[Meta] + 1
           overrides == [i \in DOMAIN db.overrides \cup {id} |->
                           IF i = id THEN value ELSE db.overrides[i]]
<1>1. /\ UNCHANGED <<mounted, file, backups, catalogue, scan, restore, stranded, observed>>
      /\ restore = NoRestore
      /\ db' = [db EXCEPT !.overrides = overrides]
      /\ editors' = editors \cup {[id |-> id, value |-> value]}
      /\ crossed' = IF \E e \in editors : e.id = id THEN crossed \cup {id} ELSE crossed
  BY DEF StoreEdit
<1>2. /\ DOMAIN overrides = DOMAIN db.overrides \cup {id} /\ overrides[id] = value
      /\ \A i \in DOMAIN db.overrides : i # id => overrides[i] = db.overrides[i]
  OBVIOUS
<1> PICK new : new = [id |-> id, value |-> value]
  OBVIOUS
<1>3. editors' = editors \cup {new} /\ new.id = id /\ new.value = value
  BY <1>1
<1> HIDE DEF value, overrides
<1>4. /\ DatabaseShaped(db') /\ db'.overrides = overrides
      /\ db'.places = db.places /\ db'.works = db.works
  BY <1>1 DEF LibraryInv, StoreInv, DatabaseShaped
<1>5. crossed \subseteq crossed' /\ EditorIds' = EditorIds \cup {id}
  BY <1>1, <1>3 DEF EditorIds
<1>6. LockInv'
  BY <1>1 DEF LibraryInv, LockInv, EntryShaped
<1>7. StoreInv'
  BY <1>1, <1>4 DEF LibraryInv, StoreInv, DatabaseShaped, EntryShaped, FileShaped
<1>8. ReachInv'
  BY <1>1, <1>4 DEF LibraryInv, ReachInv, Known, Refers, ShownIds, IdsIn
<1>9. EditInv'
  <2>1. Shows(db)'
    <3>1. \A i : i # id => Title(db'.overrides, i) = Title(db.overrides, i)
      BY <1>2, <1>4 DEF Title
    <3> QED BY <1>1, <1>5, <3>1 DEF LibraryInv, EditInv, Shows
  <2>2. (\A e \in editors :
           e.id \notin crossed => /\ restore = NoRestore
                                  /\ e.id \in DOMAIN db.overrides /\ db.overrides[e.id] = e.value)'
    <3> SUFFICES ASSUME NEW e \in editors', e.id \notin crossed'
                 PROVE  e.id \in DOMAIN overrides /\ overrides[e.id] = e.value
      BY <1>1, <1>4
    <3>1. CASE e = new
      BY <1>2, <1>3, <3>1
    <3>2. CASE e # new
      <4>1. e \in editors /\ e.id # id
        BY <1>1, <1>3, <3>2
      <4> QED BY <1>2, <1>5, <4>1 DEF LibraryInv, EditInv
    <3> QED BY <3>1, <3>2
  <2>3. (scan.phase \in Resolved => \A p \in DOMAIN scan.books :
           scan.books[p].id \notin DOMAIN db.overrides => scan.books[p].title = 0)'
    BY <1>1, <1>2, <1>4 DEF LibraryInv, EditInv
  <2> QED BY <1>1, <2>1, <2>2, <2>3 DEF EditInv
<1>10. ShrinkInv'
  BY <1>1 DEF LibraryInv, ShrinkInv, Counts, Confirmed
<1> QED BY <1>6, <1>7, <1>8, <1>9, <1>10 DEF LibraryInv

\* It is shown.
LEMMA ShowEditSteps ==
  ASSUME LibraryInv, NEW e \in editors, ShowEdit(e)
  PROVE  LibraryInv'
<1>1. /\ UNCHANGED <<mounted, file, db, backups, scan, restore, crossed, stranded, observed>>
      /\ editors' = editors \ {e}
      /\ catalogue' = [p \in DOMAIN catalogue |->
                         IF catalogue[p].id = e.id
                         THEN [catalogue[p] EXCEPT !.title = e.value] ELSE catalogue[p]]
  BY DEF ShowEdit, store, ghosts
<1>2. /\ DOMAIN catalogue' = DOMAIN catalogue
      /\ \A p \in DOMAIN catalogue :
           /\ EntryShaped(catalogue'[p]) /\ catalogue'[p].id = catalogue[p].id
           /\ catalogue'[p].title = IF catalogue[p].id = e.id THEN e.value ELSE catalogue[p].title
  BY <1>1 DEF LibraryInv, StoreInv, EntryShaped
<1>3. LockInv'
  BY <1>1 DEF LibraryInv, LockInv, EntryShaped
<1>4. StoreInv'
  <2>1. (\A p \in DOMAIN catalogue : EntryShaped(catalogue[p]))'
    BY <1>2 DEF EntryShaped
  <2> QED BY <1>1, <2>1 DEF LibraryInv, StoreInv, DatabaseShaped, FileShaped
<1>5. ReachInv'
  BY <1>1, <1>2 DEF LibraryInv, ReachInv, Known, Refers, ShownIds, IdsIn
<1>6. EditInv'
  <2>1. EditorIds \subseteq EditorIds' \cup {e.id}
    BY <1>1 DEF EditorIds
  <2>2. ASSUME NEW d, Shows(d), e.id \in crossed \/ Title(d.overrides, e.id) = e.value
        PROVE  Shows(d)'
    BY <1>1, <1>2, <2>1, <2>2 DEF Shows
  <2>3. e.id \notin crossed => restore = NoRestore /\ Title(db.overrides, e.id) = e.value
    BY DEF LibraryInv, EditInv, Title
  <2>4. CASE restore = NoRestore
    <3>1. Shows(db)'
      <4>1. PICK d : d = db
        OBVIOUS
      <4> QED BY <1>1, <2>2, <2>3, <2>4, <4>1 DEF LibraryInv, EditInv, Shows
    <3> QED BY <1>1, <2>4, <3>1 DEF LibraryInv, EditInv
  <2>5. CASE restore # NoRestore
    <3>1. Shows(restore.before)'
      <4>1. PICK d : d = restore.before
        OBVIOUS
      <4> QED BY <1>1, <2>2, <2>3, <2>5, <4>1 DEF LibraryInv, EditInv, Shows
    <3> QED BY <1>1, <2>5, <3>1 DEF LibraryInv, EditInv
  <2> QED BY <2>4, <2>5
<1>7. ShrinkInv'
  BY <1>1 DEF LibraryInv, ShrinkInv, Counts, Confirmed
<1> QED BY <1>3, <1>4, <1>5, <1>6, <1>7 DEF LibraryInv

\* A listener saves a place.
LEMMA PlaceSteps ==
  ASSUME LibraryInv, NEW id \in ShownIds, SavePlace(id)
  PROVE  LibraryInv'
<1>1. /\ UNCHANGED <<mounted, file, backups, catalogue, scan, restore, editors, crossed,
                     stranded, observed>>
      /\ restore = NoRestore
      /\ db' = [db EXCEPT !.places = @ \cup {id}]
  BY DEF SavePlace, ghosts
<1>2. PICK w : db' = [db EXCEPT !.places = w] /\ w = db.places \cup {id}
  BY <1>1
<1>3. /\ DatabaseShaped(db') /\ db'.places = db.places \cup {id}
      /\ db'.overrides = db.overrides /\ db'.works = db.works
  BY <1>2 DEF LibraryInv, StoreInv, DatabaseShaped
<1>4. LockInv'
  BY <1>1 DEF LibraryInv, LockInv, EntryShaped
<1>5. StoreInv'
  BY <1>1, <1>3 DEF LibraryInv, StoreInv, DatabaseShaped, EntryShaped, FileShaped
<1>6. ReachInv'
  BY <1>1, <1>3 DEF LibraryInv, ReachInv, Known, Refers, ShownIds, IdsIn
<1>7. EditInv'
  BY <1>1, <1>3 DEF LibraryInv, EditInv, Shows, EditorIds
<1>8. ShrinkInv'
  BY <1>1 DEF LibraryInv, ShrinkInv, Counts, Confirmed
<1> QED BY <1>4, <1>5, <1>6, <1>7, <1>8 DEF LibraryInv

\* A backup is taken.
LEMMA ExportSteps ==
  ASSUME LibraryInv, Export
  PROVE  LibraryInv'
<1>1. /\ UNCHANGED <<mounted, file, db, catalogue, scan, restore, editors, crossed, stranded,
                     observed>>
      /\ restore = NoRestore
  BY DEF Export, ghosts
<1>2. PICK b : /\ b = [db |-> db, file |-> file, seen |-> observed]
               /\ backups' = backups \cup {b}
  BY DEF Export
<1>3. b.db = db /\ b.file = file /\ b.seen = observed
  BY <1>2
<1>4. LockInv'
  BY <1>1 DEF LibraryInv, LockInv, EntryShaped
<1>5. StoreInv'
  BY <1>1, <1>2, <1>3 DEF LibraryInv, StoreInv, DatabaseShaped, EntryShaped, FileShaped
<1>6. ReachInv'
  <2>1. (\A x \in backups : Known(x.db, x.file))'
    BY <1>1, <1>2, <1>3 DEF LibraryInv, ReachInv, Known, Refers
  <2> QED BY <1>1, <2>1 DEF LibraryInv, ReachInv, Known, Refers, ShownIds, IdsIn
<1>7. EditInv'
  BY <1>1 DEF LibraryInv, EditInv, Shows, EditorIds
<1>8. ShrinkInv'
  <2>1. (\A x \in backups : Counts(x.file, x.seen))'
    BY <1>2, <1>3 DEF LibraryInv, ShrinkInv, Counts
  <2> QED BY <1>1, <2>1 DEF LibraryInv, ShrinkInv, Counts, Confirmed
<1> QED BY <1>4, <1>5, <1>6, <1>7, <1>8 DEF LibraryInv

\* A restore puts the database of a backup in place.
LEMMA DatabaseSteps ==
  ASSUME LibraryInv, NEW b \in backups, RestoreDatabase(b)
  PROVE  LibraryInv'
<1>1. /\ UNCHANGED <<mounted, file, backups, catalogue, scan, editors, stranded, observed>>
      /\ restore = NoRestore /\ scan = NoScan /\ db' = b.db
      /\ restore' = [phase |-> "committed", backup |-> b, before |-> db]
      /\ crossed' = crossed \cup EditorIds
  BY DEF RestoreDatabase, EditorIds
<1>2. /\ restore'.phase = "committed" /\ restore'.backup = b /\ restore'.before = db
      /\ restore' # NoRestore /\ scan.phase = "idle"
  BY <1>1 DEF NoRestore, NoScan
<1>3. LockInv'
  BY <1>1, <1>2 DEF LibraryInv, LockInv
<1>4. StoreInv'
  BY <1>1, <1>2 DEF LibraryInv, StoreInv, DatabaseShaped, EntryShaped, FileShaped
<1>5. ReachInv'
  <2>1. (\A x \in backups : Known(x.db, x.file))' /\ Known(restore.before, file)'
        /\ (ShownIds \subseteq DOMAIN file.books \cup stranded)'
    BY <1>1, <1>2 DEF LibraryInv, ReachInv, Known, Refers, ShownIds
  <2> QED BY <1>1, <1>2, <2>1 DEF ReachInv
<1>6. EditInv'
  <2>1. Shows(restore.before)'
    BY <1>1, <1>2 DEF LibraryInv, EditInv, Shows, EditorIds
  <2>2. \A e \in editors' : e.id \in crossed'
    BY <1>1 DEF EditorIds
  <2> QED BY <1>1, <1>2, <2>1, <2>2 DEF EditInv, Resolved
<1>7. ShrinkInv'
  BY <1>1, <1>2 DEF LibraryInv, ShrinkInv, Counts
<1> QED BY <1>3, <1>4, <1>5, <1>6, <1>7 DEF LibraryInv

\* And the identities, or neither.
LEMMA RestoreSteps ==
  ASSUME LibraryInv, RestoreIdentities \/ RestoreFails
  PROVE  LibraryInv'
<1>1. /\ UNCHANGED <<mounted, backups, catalogue, scan, editors>>
      /\ restore' = NoRestore /\ restore # NoRestore /\ scan = NoScan /\ scan.phase = "idle"
  BY DEF RestoreIdentities, RestoreFails, LibraryInv, LockInv, store, NoRestore, NoScan
<1>2. /\ restore.backup \in backups /\ db = restore.backup.db /\ DatabaseShaped(restore.before)
      /\ FileShaped(restore.backup.file)
  BY <1>1 DEF LibraryInv, StoreInv
<1>3. \A e \in editors : e.id \in crossed
  BY <1>1 DEF LibraryInv, EditInv
<1>4. LockInv'
  BY <1>1 DEF LibraryInv, LockInv
<1>5. CASE RestoreIdentities
  <2>1. /\ db' = db /\ file' = restore.backup.file /\ observed' = restore.backup.seen
        /\ crossed' = crossed \cup ShownIds
        /\ stranded' = stranded \cup (ShownIds \ DOMAIN file'.books)
    BY <1>5 DEF RestoreIdentities
  <2>2. StoreInv'
    BY <1>1, <1>2, <2>1 DEF LibraryInv, StoreInv, DatabaseShaped, EntryShaped, FileShaped
  <2>3. ReachInv'
    <3>1. (\A x \in backups : Known(x.db, x.file))'
      BY <1>1, <2>1 DEF LibraryInv, ReachInv, Known, Refers
    <3>2. Known(db, file)'
      BY <1>2, <2>1 DEF LibraryInv, ReachInv, Known, Refers
    <3>3. (ShownIds \subseteq DOMAIN file.books \cup stranded)'
      BY <1>1, <2>1 DEF ShownIds
    <3> QED BY <1>1, <3>1, <3>2, <3>3 DEF ReachInv
  <2>4. EditInv'
    <3>1. Shows(db)'
      BY <1>1, <2>1 DEF Shows, ShownIds
    <3> QED BY <1>1, <1>3, <2>1, <3>1 DEF EditInv, Resolved
  <2>5. ShrinkInv'
    BY <1>1, <1>2, <2>1 DEF LibraryInv, ShrinkInv, Counts
  <2> QED BY <1>4, <2>2, <2>3, <2>4, <2>5 DEF LibraryInv
<1>6. CASE RestoreFails /\ db' = restore.before /\ UNCHANGED <<crossed, stranded>>
  <2>1. db' = restore.before /\ UNCHANGED <<file, observed, crossed, stranded>>
    BY <1>6 DEF RestoreFails
  <2>2. StoreInv'
    BY <1>1, <1>2, <2>1 DEF LibraryInv, StoreInv, DatabaseShaped, EntryShaped, FileShaped
  <2>3. ReachInv'
    BY <1>1, <2>1 DEF LibraryInv, ReachInv, Known, Refers, ShownIds
  <2>4. EditInv'
    BY <1>1, <1>3, <2>1 DEF LibraryInv, EditInv, Shows, EditorIds, Resolved
  <2>5. ShrinkInv'
    BY <1>1, <2>1 DEF LibraryInv, ShrinkInv, Counts
  <2> QED BY <1>4, <2>2, <2>3, <2>4, <2>5 DEF LibraryInv
<1>7. CASE RestoreFails /\ ~(db' = restore.before /\ UNCHANGED <<crossed, stranded>>)
  <2>1. /\ UNCHANGED <<db, file, observed>>
        /\ crossed' = crossed \cup ShownIds
        /\ stranded' = stranded \cup (Refers(db) \ DOMAIN file.books)
    BY <1>7 DEF RestoreFails, Refers
  <2>2. StoreInv'
    BY <1>1, <1>2, <2>1 DEF LibraryInv, StoreInv, DatabaseShaped, EntryShaped, FileShaped
  <2>3. ReachInv'
    BY <1>1, <2>1 DEF LibraryInv, ReachInv, Known, Refers, ShownIds
  <2>4. EditInv'
    <3>1. Shows(db)'
      BY <1>1, <2>1 DEF Shows, ShownIds
    <3> QED BY <1>1, <1>3, <2>1, <3>1 DEF EditInv, Resolved
  <2>5. ShrinkInv'
    BY <1>1, <2>1 DEF LibraryInv, ShrinkInv, Counts
  <2> QED BY <1>4, <2>2, <2>3, <2>4, <2>5 DEF LibraryInv
<1> QED BY <1>5, <1>6, <1>7

\* The process ends and starts again.
LEMMA CrashSteps ==
  ASSUME LibraryInv, Crash
  PROVE  LibraryInv'
<1>1. /\ UNCHANGED <<mounted, file, db, backups, observed>>
      /\ catalogue' = NoFiles /\ scan' = NoScan /\ restore' = NoRestore
      /\ editors' = {} /\ crossed' = {}
      /\ stranded' = stranded \cup
                     (IF restore = NoRestore THEN {} ELSE Refers(db) \ DOMAIN file.books)
  BY DEF Crash, store, Refers
<1>2. DOMAIN catalogue' = {} /\ scan'.phase = "idle"
  BY <1>1 DEF NoFiles, NoScan
<1>3. LockInv'
  BY <1>1 DEF LibraryInv, LockInv
<1>4. StoreInv'
  BY <1>1, <1>2 DEF LibraryInv, StoreInv, DatabaseShaped, FileShaped
<1>5. ReachInv'
  <2>1. (\A x \in backups : Known(x.db, x.file))'
    BY <1>1 DEF LibraryInv, ReachInv, Known, Refers
  <2>2. Known(db, file)'
    BY <1>1 DEF LibraryInv, ReachInv, Known, Refers
  <2>3. ShownIds' = {}
    BY <1>2 DEF ShownIds
  <2> QED BY <1>1, <1>2, <2>1, <2>2, <2>3 DEF ReachInv
<1>6. EditInv'
  BY <1>1, <1>2 DEF EditInv, Shows, Resolved
<1>7. ShrinkInv'
  BY <1>1, <1>2 DEF LibraryInv, ShrinkInv, Counts
<1> QED BY <1>3, <1>4, <1>5, <1>6, <1>7 DEF LibraryInv

--------------------------------------------------------------------------------
(* The theorems.                                                               *)

\* The beginning: a new server, or what an older build left.
LEMMA Beginning == Init => LibraryInv
<1> SUFFICES ASSUME Init
             PROVE  LibraryInv
  OBVIOUS
<1>1. PICK old \in Legacy :
        /\ file = old.file
        /\ db = [places |-> DOMAIN old.file.books, overrides |-> <<>>, works |-> {}]
  BY DEF Init
<1>2. /\ mounted = [seen |-> Paths, broken |-> FALSE]
      /\ catalogue = NoFiles /\ scan = NoScan /\ restore = NoRestore
      /\ editors = {} /\ backups = {} /\ observed = <<>> /\ crossed = {} /\ stranded = {}
  BY DEF Init
<1>3. /\ old.file = [NoFile EXCEPT !.books = old.file.books, !.manifest = old.file.manifest]
      /\ old.file.manifest.size \in Nat
  BY ScanAssumption
<1>4. PICK books, manifest : old.file = [NoFile EXCEPT !.books = books, !.manifest = manifest]
  BY <1>3, Zenon
<1>5. FileShaped(file) /\ file.shrink.times = 0
  BY <1>1, <1>3, <1>4 DEF FileShaped, NoFile
<1>6. DatabaseShaped(db) /\ Refers(db) = DOMAIN file.books
  BY <1>1 DEF DatabaseShaped, Refers
<1>7. DOMAIN catalogue = {} /\ scan.phase = "idle" /\ mounted.broken = FALSE
  BY <1>2 DEF NoFiles, NoScan
<1>8. Counts(file, observed)
  <2>1. observed \in Seq(Observation) /\ Len(observed) = 0 /\ 0 <= Confirmations
    BY <1>2, LibraryConstants
  <2>2. \A k \in 1..Confirmations : ~(k <= file.shrink.times)
    BY <1>5, LibraryConstants
  <2> QED BY <2>1, <2>2 DEF Counts
<1> QED BY <1>2, <1>5, <1>6, <1>7, <1>8
        DEF LibraryInv, LockInv, StoreInv, ReachInv, EditInv, ShrinkInv, Known, ShownIds, Shows,
            Resolved

\* Every step keeps the invariant.
LEMMA NextSteps ==
  ASSUME LibraryInv, [Next]_vars
  PROVE  LibraryInv'
<1>1. CASE Disk
  <2>1. UNCHANGED published /\ UNCHANGED scan
        /\ (UNCHANGED mounted \/ mounted'.broken \in BOOLEAN)
    <3>1. CASE \E changed : EditDisk(changed)
      BY <3>1 DEF EditDisk, published, store, ghosts
    <3>2. CASE \E seen : \E broken \in BOOLEAN : Remount(seen, broken)
      BY <3>2 DEF Remount, published, store, ghosts
    <3>3. \/ \E changed : EditDisk(changed)
          \/ \E seen : \E broken \in BOOLEAN : Remount(seen, broken)
      <4>1. CASE \/ \E p \in Paths, rec \in Recordings : Place(p, rec)
                 \/ \E p, q \in Paths : Move(p, q)
                 \/ \E p \in Paths : Remove(p)
        BY <4>1, Zenon DEF Place, Move, Remove
      <4>2. CASE \/ \E p \in Paths : \E names \in SUBSET DOMAIN disk[p] : Rewrite(p, names)
                 \/ \E p \in Paths : \E n, m \in DOMAIN disk[p] : Shuffle(p, n, m)
        BY <4>2, Zenon DEF Rewrite, Shuffle
      <4>3. CASE (\E seen \in SUBSET Paths : Remount(seen, FALSE)) \/ Remount(Paths, TRUE)
        BY <4>3
      <4> QED BY <1>1, <4>1, <4>2, <4>3 DEF Disk
    <3> QED BY <3>1, <3>2, <3>3
  <2> QED BY <2>1, DiskSteps DEF LibraryInv, LockInv
<1>2. CASE Scanner
  BY <1>2, WalkSteps, ObservationSteps, ReadSteps, ResolveSteps, IdentitiesSteps, WorksSteps,
     FailedScans, PublishSteps DEF Scanner
<1>3. CASE Requests
  BY <1>3, StoreEditSteps, ShowEditSteps, PlaceSteps, ExportSteps, DatabaseSteps, RestoreSteps
  DEF Requests
<1>4. CASE Crash
  BY <1>4, CrashSteps
<1>5. CASE UNCHANGED vars
  BY <1>5, DiskSteps DEF vars, published, LibraryInv, LockInv
<1> QED BY <1>1, <1>2, <1>3, <1>4, <1>5 DEF Next

\* Through scans, edits, failures, kills and restores: one of a scan and a
\* restore at most, and what they and the requests have in hand agrees with what
\* is saved.
THEOREM LibraryIsSound == Spec => []LibraryInv
<1> QED BY Beginning, NextSteps, PTL DEF Spec

\* A place, or an edition of a work, always refers to a book of the identities
\* on the disk, save where a restore left it behind.
THEOREM PlacesStayReachable == Spec => []PlacesAreReachable
<1>1. LibraryInv => PlacesAreReachable
  BY DEF LibraryInv, ReachInv, Known, Refers, PlacesAreReachable
<1> QED BY <1>1, LibraryIsSound, PTL

\* An edit is shown once its request has ended, though a scan may have replaced
\* the books in between.
THEOREM EditsStayShown == Spec => []EditsAreShown
<1>1. LibraryInv => EditsAreShown
  BY DEF LibraryInv, EditInv, Shows, EditorIds, EditsAreShown
<1> QED BY <1>1, LibraryIsSound, PTL

\* The library shrinks to less than half only after the same reduced set of books
\* was found by as many recorded walks in a row as it takes, none of which met
\* an error.
THEOREM ShrinkingIsConfirmed == Spec => ShrinkIsConfirmed
<1>1. LibraryInv /\ [Next]_vars =>
        [scan.phase = "resolved" /\ file' # file
           /\ Shrinks(file.manifest.size, file'.manifest.size)
         => /\ Len(observed') = Confirmations
            /\ \A k \in DOMAIN observed' :
                 observed'[k] = [aliases |-> DOMAIN scan.books, failed |-> FALSE]]_vars
  <2> SUFFICES ASSUME LibraryInv, Next, scan.phase = "resolved", file' # file,
                      Shrinks(file.manifest.size, file'.manifest.size)
               PROVE  /\ Len(observed') = Confirmations
                      /\ \A k \in DOMAIN observed' :
                           observed'[k] = [aliases |-> DOMAIN scan.books, failed |-> FALSE]
    OBVIOUS
  <2>1. restore = NoRestore /\ DOMAIN scan.books \subseteq Paths
    BY DEF LibraryInv, LockInv, NoScan, Resolved
  <2>2. SaveIdentities
    BY <2>1 DEF Next, Disk, Scanner, Requests, Place, Move, Remove, Rewrite, Shuffle, Remount,
                EditDisk, Walk, SaveObservation, ReadFingerprints, ReadTags, ReadFails,
                ResolveScan, SaveWorks, SaveFails, Publish, StoreEdit, ShowEdit, SavePlace,
                Export, RestoreDatabase, RestoreIdentities, RestoreFails, Crash, store, NoScan,
                NoRestore
  <2>3. /\ file' = scan.store
        /\ observed' = LastOf(Append(observed, [aliases |-> DOMAIN scan.books, failed |-> FALSE]),
                              Confirmations)
    BY <2>2 DEF SaveIdentities, Observe
  <2>4. /\ Confirmed(DOMAIN scan.books)
        /\ file'.manifest.size = Cardinality(DOMAIN scan.books)
        /\ Counts(file, observed) /\ FileShaped(file)
    BY <2>3 DEF LibraryInv, ShrinkInv, StoreInv
  <2>5. SeenBefore(file, DOMAIN scan.books) + 1 >= Confirmations
    <3>1. Cardinality(DOMAIN scan.books) = 0 => DOMAIN scan.books = {}
      BY <2>1, FS_Subset, FS_EmptySet, ScanAssumption
    <3> QED BY <2>4, <3>1 DEF Shrinks, Confirmed, Suspect
  <2> DEFINE g == [shrink |-> [seen |-> DOMAIN scan.books,
                               times |-> SeenBefore(file, DOMAIN scan.books) + 1]]
  <2>6. /\ g.shrink.seen = DOMAIN scan.books
        /\ g.shrink.times = (IF file.shrink.seen = DOMAIN scan.books
                             THEN file.shrink.times ELSE 0) + 1
        /\ g.shrink.times >= Confirmations /\ g.shrink.times \in Nat
    BY <2>4, <2>5 DEF SeenBefore, FileShaped
  <2> HIDE DEF g
  <2>7. Counts(g, observed')
    BY <2>1, <2>3, <2>4, <2>6, CountsMore DEF FileShaped
  <2>8. /\ observed' \in Seq(Observation) /\ Len(observed') <= Confirmations
        /\ \A k \in 1..Confirmations :
             /\ k <= Len(observed')
             /\ observed'[Len(observed') + 1 - k]
                  = [aliases |-> DOMAIN scan.books, failed |-> FALSE]
    <3>1. \A k \in 1..Confirmations : k <= g.shrink.times
      BY <2>6, LibraryConstants
    <3> QED BY <2>6, <2>7, <3>1 DEF Counts
  <2>9. Len(observed') = Confirmations
    BY <2>8, LibraryConstants
  <2>10. ASSUME NEW k \in DOMAIN observed'
         PROVE  observed'[k] = [aliases |-> DOMAIN scan.books, failed |-> FALSE]
    <3>1. k \in 1..Confirmations
      BY <2>8, <2>9
    <3>2. Confirmations + 1 - k \in 1..Confirmations
      BY <3>1, LibraryConstants
    <3>3. Confirmations + 1 - (Confirmations + 1 - k) = k
      BY <3>1, LibraryConstants
    <3> QED BY <2>8, <2>9, <3>2, <3>3
  <2> QED BY <2>9, <2>10
<1> QED BY <1>1, LibraryIsSound, PTL DEF Spec, ShrinkIsConfirmed

--------------------------------------------------------------------------------
(* Which recording an identifier stands for.                                   *)

\* The shape of the books with a digest, and what a digest says of a shape. One
\* with a file that is hidden now is the digest of no book of a scan.
Copies(d) == UNION {{f} \X (1..d[f]) : f \in DOMAIN d}
DigestShape(d) == <<Cardinality(Copies(d)), {RunningTime(d)}>>
Hidden(d) == \E f \in DOMAIN d : f.trk \in IgnoredNames
Tells(d, s) == Hidden(d) \/ DigestShape(d) = s

\* The files of a group, and what the disk has.
Plain(files) ==
  /\ IsFiniteSet(DOMAIN files) /\ DOMAIN files # {}
  /\ DOMAIN files \cap IgnoredNames = {}
  /\ \A n \in DOMAIN files : files[n].trk \notin IgnoredNames

DiskInv == DOMAIN disk = Paths /\ \A p \in Paths : IsDirectory(disk[p])

ReadInv ==
  scan.phase = "walked" =>
    /\ \A p \in DOMAIN scan.names :
         /\ IsFiniteSet(scan.names[p]) /\ scan.names[p] # {}
         /\ scan.names[p] \cap IgnoredNames = {}
    /\ "files" \in scan.read =>
         \A p \in DOMAIN scan.files : /\ Plain(scan.contents[p])
                                       /\ DOMAIN scan.files[p] = DOMAIN scan.contents[p]

\* An identity that a scan matched, one that none has, and any.
IdentityShaped(i) ==
  /\ DOMAIN i = {"fp", "history", "paths", "tracks", "seen", "count", "length"}
  /\ i.history \in Seq(Members(i.history))

PlainTracks(tracks) ==
  \A t \in DOMAIN tracks : tracks[t].paths \in Seq(Members(tracks[t].paths)) /\ ~Hides(tracks[t])

Matched(i, s) ==
  /\ Tells(i.fp, s) /\ \A d \in Members(i.history) : Tells(d, s)
  /\ s = <<i.count, i.length>> /\ i.count # 0 /\ i.length # NoLength
  /\ PlainTracks(i.tracks)

Inherited(i, id, s) ==
  \E old \in Legacy : /\ id \in DOMAIN old.books /\ i = old.file.books[id]
                      /\ s = Shape(Audio(old.books[id]))

Has(f, id, s) ==
  id \in DOMAIN f.books =>
    /\ IdentityShaped(f.books[id])
    /\ IF f.books[id].seen = 0 THEN Inherited(f.books[id], id, s) ELSE Matched(f.books[id], s)

\* One shape for all that an identifier was or may be given to.
OneShape(id, s) ==
  /\ id \in DOMAIN heard => \A b \in heard[id] : b.shape = s
  /\ scan.phase \in Resolved =>
       \A p \in DOMAIN scan.books : scan.books[p].id = id => Shape(scan.books[p].contents) = s
  /\ Has(file, id, s) /\ \A b \in backups : Has(b.file, id, s)
  /\ scan.phase = "resolved" => Has(scan.store, id, s)

ShapesInv == \A id : id \notin doubtful => \E s : OneShape(id, s)

\* Identifiers in use are not drawn again.
Drawn(id) == /\ id[1] \in Nat /\ id[1] <= spent.used[Scan]
             /\ scan.phase = "walked" => id[1] < spent.used[Scan]

DrawnInv ==
  /\ DOMAIN spent = {"most", "used"} /\ spent.used \in [1..8 -> Nat]
  /\ \A id \in DOMAIN heard : Drawn(id)
  /\ \A id \in DOMAIN file.books : Drawn(id)
  /\ \A b \in backups : \A id \in DOMAIN b.file.books : Drawn(id)
  /\ scan.phase \in Resolved => \A id \in IdsIn(scan.books) : Drawn(id)
  /\ scan.phase = "resolved" => \A id \in DOMAIN scan.store.books : Drawn(id)

CounterInv ==
  /\ file.counter \in Nat /\ \A b \in backups : b.file.counter \in Nat
  /\ scan.phase = "resolved" => scan.store.counter \in Nat

IdentityInv == DiskInv /\ ReadInv /\ DrawnInv /\ CounterInv /\ ShapesInv

--------------------------------------------------------------------------------
(* Digests and shapes.                                                         *)

\* The shape of a book can be told from its digest.
LEMMA ShapeOfDigest ==
  ASSUME NEW files, IsFiniteSet(DOMAIN files)
  PROVE  Shape(files) = DigestShape(BookFingerprint(files))
<1> DEFINE d == BookFingerprint(files)
           Fibre(f) == {a \in DOMAIN files : files[a] = f}
           Number(f) == CHOOSE b : b \in Bijection(Fibre(f), 1..d[f])
           pair == [a \in DOMAIN files |-> <<files[a], Number(files[a])[a]>>]
<1>1. /\ DOMAIN d = {files[a] : a \in DOMAIN files}
      /\ \A f \in DOMAIN d : d[f] = Cardinality(Fibre(f))
  BY DEF BookFingerprint
<1>2. \A f \in DOMAIN d : Number(f) \in Bijection(Fibre(f), 1..d[f])
  <2> SUFFICES ASSUME NEW f \in DOMAIN d
               PROVE  Number(f) \in Bijection(Fibre(f), 1..d[f])
    OBVIOUS
  <2>1. IsFiniteSet(Fibre(f))
    BY FS_Subset
  <2>2. ExistsBijection(1..d[f], Fibre(f))
    <3> HIDE DEF Fibre
    <3> QED BY <2>1, <1>1, FS_CardinalityType
  <2>3. ExistsBijection(Fibre(f), 1..d[f])
    <3> HIDE DEF Fibre, d
    <3> QED BY <2>2, Fun_ExistsBijSymmetric
  <2> HIDE DEF Fibre, d
  <2> QED BY <2>3 DEF ExistsBijection
<1> HIDE DEF d, Number
<1>3. ASSUME NEW f \in DOMAIN d
      PROVE  /\ Number(f) \in [Fibre(f) -> 1..d[f]]
             /\ \A a, b \in Fibre(f) : Number(f)[a] = Number(f)[b] => a = b
             /\ \A k \in 1..d[f] : \E a \in Fibre(f) : Number(f)[a] = k
  <2>1. Number(f) \in Bijection(Fibre(f), 1..d[f])
    BY <1>2
  <2> HIDE DEF Fibre
  <2>2. Number(f) \in [Fibre(f) -> 1..d[f]]
    BY <2>1, Fun_BijectionProperties
  <2>3. \A a, b \in Fibre(f) : Number(f)[a] = Number(f)[b] => a = b
    BY <2>1, Fun_BijectionProperties, Fun_InjectionProperties
  <2>4. \A k \in 1..d[f] : \E a \in Fibre(f) : Number(f)[a] = k
    <3>1. Number(f) \in Surjection(Fibre(f), 1..d[f])
      BY <2>1, Fun_BijectionProperties
    <3> QED BY <3>1 DEF Surjection
  <2> QED BY <2>2, <2>3, <2>4
<1>4. \A a \in DOMAIN files : files[a] \in DOMAIN d /\ a \in Fibre(files[a])
  BY <1>1
<1>5. pair \in [DOMAIN files -> Copies(d)]
  <2> SUFFICES ASSUME NEW a \in DOMAIN files
               PROVE  pair[a] \in Copies(d)
    OBVIOUS
  <2>1. Number(files[a])[a] \in 1..d[files[a]]
    <3> HIDE DEF Fibre
    <3> QED BY <1>3, <1>4
  <2> QED BY <1>4, <2>1 DEF Copies
<1>6. ASSUME NEW a \in DOMAIN files, NEW b \in DOMAIN files, pair[a] = pair[b]
      PROVE  a = b
  <2>1. files[a] = files[b] /\ Number(files[a])[a] = Number(files[a])[b]
    BY <1>6
  <2>2. a \in Fibre(files[a]) /\ b \in Fibre(files[a]) /\ files[a] \in DOMAIN d
    BY <2>1, <1>4
  <2> HIDE DEF Fibre, pair
  <2> QED BY <1>3, <2>1, <2>2
<1>7. ASSUME NEW c \in Copies(d)
      PROVE  \E a \in DOMAIN files : pair[a] = c
  <2>1. PICK f \in DOMAIN d : c \in {f} \X (1..d[f])
    BY DEF Copies
  <2>2. PICK k \in 1..d[f] : c = <<f, k>>
    BY <2>1
  <2>3. PICK a \in Fibre(f) : Number(f)[a] = k
    <3> HIDE DEF Fibre
    <3> QED BY <1>3
  <2> QED BY <2>2, <2>3
<1>8. ExistsBijection(DOMAIN files, Copies(d))
  <2> HIDE DEF pair
  <2> QED BY <1>5, <1>6, <1>7, Fun_IsBij DEF ExistsBijection
<1>9. Cardinality(Copies(d)) = Cardinality(DOMAIN files)
  <2> HIDE DEF pair
  <2> QED BY <1>8, FS_Bijection
<1> QED BY <1>9 DEF Shape, TrueLength, DigestShape, d

\* Files of the same contents under other names have the same digest.
LEMMA SameContents ==
  ASSUME NEW g, IsFiniteSet(DOMAIN g), NEW h,
         NEW b \in Bijection(DOMAIN g, DOMAIN h), \A n \in DOMAIN g : g[n] = h[b[n]]
  PROVE  BookFingerprint(g) = BookFingerprint(h)
<1> DEFINE In(q, f) == {a \in DOMAIN q : q[a] = f}
<1>1. /\ b \in [DOMAIN g -> DOMAIN h]
      /\ \A n, m \in DOMAIN g : b[n] = b[m] => n = m
      /\ \A m \in DOMAIN h : \E n \in DOMAIN g : b[n] = m
  BY Fun_BijectionProperties, Fun_InjectionProperties DEF Bijection, Surjection
<1>2. {g[a] : a \in DOMAIN g} = {h[a] : a \in DOMAIN h}
  BY <1>1
<1>3. ASSUME NEW f
      PROVE  Cardinality(In(g, f)) = Cardinality(In(h, f))
  <2> DEFINE r == [n \in In(g, f) |-> b[n]]
  <2>1. r \in [In(g, f) -> In(h, f)]
    BY <1>1
  <2>2. \A n, m \in In(g, f) : r[n] = r[m] => n = m
    BY <1>1
  <2>3. \A m \in In(h, f) : \E n \in In(g, f) : r[n] = m
    BY <1>1
  <2>4. IsFiniteSet(In(g, f))
    BY FS_Subset
  <2> HIDE DEF r, In
  <2>5. ExistsBijection(In(g, f), In(h, f))
    BY <2>1, <2>2, <2>3, Fun_IsBij DEF ExistsBijection
  <2> QED BY <2>4, <2>5, FS_Bijection
<1> QED BY <1>2, <1>3 DEF BookFingerprint

\* A digest shows whether a file is hidden.
LEMMA HiddenInDigest ==
  ASSUME NEW files
  PROVE  Hidden(BookFingerprint(files)) <=> \E n \in DOMAIN files : files[n].trk \in IgnoredNames
BY DEF Hidden, BookFingerprint

--------------------------------------------------------------------------------
(* Lists.                                                                      *)

\* A list is one of its own entries.
LEMMA OwnMembers ==
  ASSUME NEW S, NEW s \in Seq(S)
  PROVE  s \in Seq(Members(s)) /\ Members(s) \subseteq S
BY DEF Members

\* The last entries of a list are entries of it.
LEMMA LastOfMembers ==
  ASSUME NEW S, NEW s \in Seq(S), NEW n \in Nat
  PROVE  LastOf(s, n) \in Seq(S) /\ Members(LastOf(s, n)) \subseteq Members(s)
<1>1. CASE Len(s) <= n
  BY <1>1 DEF LastOf
<1>2. CASE ~(Len(s) <= n)
  <2> DEFINE t == SubSeq(s, Len(s) - n + 1, Len(s))
  <2>1. t \in Seq(S) /\ Len(t) = n /\ \A k \in 1..n : t[k] = s[Len(s) - n + k]
    BY <1>2
  <2> HIDE DEF t
  <2>2. Members(t) \subseteq Members(s)
    <3>0. DOMAIN t = 1..n
      BY <2>1
    <3> SUFFICES ASSUME NEW k \in 1..n
                 PROVE  \E j \in DOMAIN s : t[k] = s[j]
      BY <3>0, Zenon DEF Members
    <3>1. Len(s) - n + k \in DOMAIN s
      BY <1>2
    <3> QED BY <2>1, <3>1
  <2>3. LastOf(s, n) = t
    BY <1>2, Zenon DEF LastOf, t
  <2> QED BY <2>1, <2>2, <2>3
<1> QED BY <1>1, <1>2

\* And those of a list without an entry.
LEMMA WithoutMembers ==
  ASSUME NEW S, NEW s \in Seq(S), NEW x
  PROVE  Without(s, x) \in Seq(S) /\ Members(Without(s, x)) \subseteq Members(s)
<1>1. CASE x \notin Members(s)
  BY <1>1 DEF Without
<1>2. CASE x \in Members(s)
  <2> DEFINE k == CHOOSE j \in DOMAIN s : s[j] = x
             a == SubSeq(s, 1, k - 1)
             b == SubSeq(s, k + 1, Len(s))
  <2>1. k \in 1..Len(s)
    BY <1>2 DEF Members
  <2>2. Without(s, x) = a \o b
    BY <1>2, Zenon DEF Without
  <2> HIDE DEF k
  <2>3. a \in Seq(S) /\ Len(a) = k - 1 /\ \A j \in 1..(k - 1) : a[j] = s[j]
    BY <2>1
  <2>4. b \in Seq(S) /\ Len(b) = Len(s) - k /\ \A j \in 1..(Len(s) - k) : b[j] = s[k + j]
    BY <2>1
  <2> HIDE DEF a, b
  <2>5. /\ a \o b \in Seq(S) /\ Len(a \o b) = Len(a) + Len(b)
        /\ \A j \in 1..(Len(a) + Len(b)) :
             (a \o b)[j] = IF j <= Len(a) THEN a[j] ELSE b[j - Len(a)]
    <3>1. a \in Seq(S) /\ b \in Seq(S)
      BY <2>3, <2>4
    <3> QED BY <3>1
  <2>6. ASSUME NEW j \in 1..Len(a \o b)
        PROVE  (a \o b)[j] \in Members(s)
    <3>1. CASE j <= Len(a)
      <4>1. (a \o b)[j] = s[j] /\ j \in DOMAIN s
        BY <2>1, <2>3, <2>4, <2>5, <3>1
      <4> QED BY <4>1 DEF Members
    <3>2. CASE ~(j <= Len(a))
      <4>1. (a \o b)[j] = b[j - Len(a)] /\ j - Len(a) \in 1..(Len(s) - k)
        BY <2>1, <2>3, <2>4, <2>5, <3>2
      <4>2. (a \o b)[j] = s[k + (j - Len(a))] /\ k + (j - Len(a)) \in DOMAIN s
        BY <2>1, <2>3, <2>4, <4>1
      <4> QED BY <4>2 DEF Members
    <3> QED BY <3>1, <3>2
  <2>7. DOMAIN (a \o b) = 1..Len(a \o b)
    BY <2>5
  <2> QED BY <2>2, <2>5, <2>6, <2>7 DEF Members
<1> QED BY <1>1, <1>2

\* What is put at the end of a list, and the last entries kept: nothing but the
\* new entry is new.
LEMMA LastOfMore ==
  ASSUME NEW S, NEW s \in Seq(S), NEW x, NEW n \in Nat
  PROVE  /\ LastOf(Append(s, x), n) \in Seq(Members(LastOf(Append(s, x), n)))
         /\ Members(LastOf(Append(s, x), n)) \subseteq Members(s) \cup {x}
<1> DEFINE a == Append(s, x)
<1>1. a \in Seq(S \cup {x}) /\ Len(a) = Len(s) + 1 /\ a[Len(s) + 1] = x
      /\ \A j \in 1..Len(s) : a[j] = s[j]
  OBVIOUS
<1>2. Members(a) \subseteq Members(s) \cup {x}
  <2> SUFFICES ASSUME NEW j \in 1..(Len(s) + 1)
               PROVE  a[j] \in Members(s) \cup {x}
    BY <1>1 DEF Members
  <2>1. CASE j = Len(s) + 1
    BY <1>1, <2>1
  <2>2. CASE j # Len(s) + 1
    <3>1. j \in 1..Len(s) /\ j \in DOMAIN s
      BY <2>2
    <3> QED BY <1>1, <3>1 DEF Members
  <2> QED BY <2>1, <2>2
<1> HIDE DEF a
<1>3. LastOf(a, n) \in Seq(S \cup {x}) /\ Members(LastOf(a, n)) \subseteq Members(a)
  BY <1>1, LastOfMembers
<1>4. LastOf(a, n) \in Seq(Members(LastOf(a, n)))
  BY <1>3, OwnMembers
<1> QED BY <1>2, <1>3, <1>4 DEF a

\* The paths of a track, and the digests of a book, when one is remembered.
LEMMA PathRemembered ==
  ASSUME NEW paths, paths \in Seq(Members(paths)), NEW path
  PROVE  /\ RememberPath(paths, path) \in Seq(Members(RememberPath(paths, path)))
         /\ Members(RememberPath(paths, path)) \subseteq Members(paths) \cup {path}
<1>1. /\ Without(paths, path) \in Seq(Members(paths))
      /\ Members(Without(paths, path)) \subseteq Members(paths)
  BY WithoutMembers
<1>2. MaxAliases \in Nat
  BY LibraryConstants
<1>3. /\ RememberPath(paths, path) \in Seq(Members(RememberPath(paths, path)))
      /\ Members(RememberPath(paths, path)) \subseteq Members(Without(paths, path)) \cup {path}
  BY <1>1, <1>2, LastOfMore DEF RememberPath
<1> QED BY <1>1, <1>3

\* The digests remembered of a book are those it had, and its last one.
LEMMA DigestRemembered ==
  ASSUME NEW h, h \in Seq(Members(h)), NEW fp, NEW old, NEW t,
         t = LastOf(Append(Without(Without(h, old), fp), old), MaxHistory)
  PROVE  t \in Seq(Members(t)) /\ Members(t) \subseteq Members(h) \cup {old}
<1>1. Without(h, old) \in Seq(Members(h)) /\ Members(Without(h, old)) \subseteq Members(h)
  BY WithoutMembers
<1>2. /\ Without(Without(h, old), fp) \in Seq(Members(h))
      /\ Members(Without(Without(h, old), fp)) \subseteq Members(Without(h, old))
  BY <1>1, WithoutMembers
<1>3. MaxHistory \in Nat
  BY LibraryConstants
<1>4. t \in Seq(Members(t)) /\ Members(t) \subseteq Members(Without(Without(h, old), fp)) \cup {old}
  BY <1>2, <1>3, LastOfMore
<1> QED BY <1>1, <1>2, <1>4

--------------------------------------------------------------------------------
(* What a pass can claim, and what a claim makes of an identity.               *)

\* The groups of a scan, as its digests describe them.
GroupOf(g) == Plain(g.files) /\ g.fp = BookFingerprint(g.files)

\* A group has the shape that its digest tells.
LEMMA GroupShape ==
  ASSUME NEW g, GroupOf(g), NEW s, Tells(g.fp, s)
  PROVE  Shape(g.files) = s
BY HiddenInDigest, ShapeOfDigest DEF GroupOf, Plain, Tells

\* The digests, current and remembered, of a matched identity have its shape, its
\* layout is that shape, and it has no track left to retire.
LEMMA MatchedEvidence ==
  ASSUME NEW g, GroupOf(g), NEW i, NEW s, Matched(i, s), NEW path
  PROVE  /\ MatchesFingerprint(i, g.fp) => Shape(g.files) = s
         /\ LayoutMatches(i, g) => Cardinality(DOMAIN g.files) = s[1] /\ g.length = s[2]
         /\ ~OnlyIgnoredAreGone(i, path, g.files)
<1>1. MatchesFingerprint(i, g.fp) => Tells(g.fp, s)
  BY DEF MatchesFingerprint, Matched
<1>2. LayoutMatches(i, g) => Cardinality(DOMAIN g.files) = s[1] /\ g.length = s[2]
  BY DEF LayoutMatches, Matched
<1>3. ASSUME OnlyIgnoredAreGone(i, path, g.files)
      PROVE  FALSE
  <2>1. PICK t \in DOMAIN i.tracks : LET paths == i.tracks[t].paths IN
               paths # <<>> /\ paths[Len(paths)][2] \in IgnoredNames
    BY <1>3 DEF OnlyIgnoredAreGone
  <2>2. PICK paths : paths = i.tracks[t].paths
    OBVIOUS
  <2>3. paths \in Seq(Members(paths)) /\ paths # <<>> /\ paths[Len(paths)][2] \in IgnoredNames
    BY <2>1, <2>2 DEF Matched, PlainTracks
  <2>4. Len(paths) \in DOMAIN paths
    BY <2>3
  <2>5. paths[Len(paths)] \in Members(paths)
    BY <2>4 DEF Members
  <2>6. Hides(i.tracks[t])
    BY <2>2, <2>3, <2>5 DEF Hides
  <2> QED BY <2>6 DEF Matched, PlainTracks
<1> QED BY <1>1, <1>2, <1>3, GroupShape

\* What an older build left: an identity that no scan matched, with the tracks it
\* had, some of them perhaps hidden now.
LEMMA InheritedIs ==
  ASSUME NEW i, NEW id, NEW s, Inherited(i, id, s)
  PROVE  \E files : /\ IsDirectory(files) /\ s = Shape(Audio(files))
                    /\ i.fp = BookFingerprint(files)
                    /\ i.history = <<>> /\ IdentityShaped(i) /\ i.seen = 0
                    /\ OldTracks(i.tracks, files)
<1>1. PICK old \in Legacy : /\ id \in DOMAIN old.books /\ i = old.file.books[id]
                            /\ s = Shape(Audio(old.books[id]))
  BY DEF Inherited
<1>2. PICK files : files = old.books[id]
  OBVIOUS
<1>3. /\ IsDirectory(files)
      /\ i = [MintedBook([fp |-> BookFingerprint(files)]) EXCEPT
                !.paths = i.paths, !.tracks = i.tracks]
      /\ OldTracks(i.tracks, files)
  BY <1>1, <1>2, ScanAssumption
<1>4. PICK paths, tracks : i = [MintedBook([fp |-> BookFingerprint(files)]) EXCEPT
                                  !.paths = paths, !.tracks = tracks]
  BY <1>3, Zenon
<1>5. /\ i.fp = BookFingerprint(files) /\ i.history = <<>> /\ i.seen = 0
      /\ DOMAIN i = {"fp", "history", "paths", "tracks", "seen", "count", "length"}
  <2> HIDE DEF BookFingerprint
  <2> QED BY <1>4 DEF MintedBook
<1>6. IdentityShaped(i)
  BY <1>5 DEF IdentityShaped
<1> QED BY <1>1, <1>2, <1>3, <1>5, <1>6

\* A directory without hidden files is all audio.
LEMMA NothingHidden ==
  ASSUME NEW files, IsDirectory(files), ~Hidden(BookFingerprint(files))
  PROVE  Audio(files) = files /\ DOMAIN files \cap IgnoredNames = {}
<1>1. \A n \in DOMAIN files : files[n].trk \notin IgnoredNames
  BY HiddenInDigest
<1>2. DOMAIN files \cap IgnoredNames = {}
  <2>1. \A n \in DOMAIN files : n \in IgnoredNames => files[n].trk \in IgnoredNames
    BY DEF IsDirectory
  <2> QED BY <1>1, <2>1
<1>3. DOMAIN files \ IgnoredNames = DOMAIN files
  BY <1>2
<1> QED BY <1>2, <1>3 DEF Audio, IsDirectory

\* By its digest it is found only if nothing of it is hidden.
LEMMA InheritedByDigest ==
  ASSUME NEW g, GroupOf(g), NEW i, NEW id, NEW s, Inherited(i, id, s),
         MatchesFingerprint(i, g.fp)
  PROVE  Shape(g.files) = s /\ PlainTracks(i.tracks) /\ i.fp = g.fp
<1>1. PICK files : /\ IsDirectory(files) /\ s = Shape(Audio(files))
                   /\ i.fp = BookFingerprint(files)
                   /\ i.history = <<>> /\ IdentityShaped(i) /\ i.seen = 0
                   /\ OldTracks(i.tracks, files)
  BY InheritedIs
<1>2. i.fp = g.fp
  BY <1>1 DEF MatchesFingerprint, Members
<1>3. ~Hidden(g.fp)
  BY HiddenInDigest DEF GroupOf, Plain
<1>4. Audio(files) = files /\ DOMAIN files \cap IgnoredNames = {}
  BY <1>1, <1>2, <1>3, NothingHidden
<1>5. Shape(g.files) = s
  <2>1. Shape(g.files) = DigestShape(g.fp)
    BY ShapeOfDigest DEF GroupOf, Plain
  <2>2. Shape(files) = DigestShape(i.fp)
    BY <1>1, ShapeOfDigest DEF IsDirectory
  <2> QED BY <1>1, <1>2, <1>4, <2>1, <2>2
<1>6. PlainTracks(i.tracks)
  <2>1. \A t \in DOMAIN i.tracks : ~Hides(i.tracks[t])
    <3> SUFFICES ASSUME \E t \in DOMAIN i.tracks : Hides(i.tracks[t])
                 PROVE  FALSE
      OBVIOUS
    <3>0. \E fileOf \in Bijection(DOMAIN i.tracks, DOMAIN files) :
            \A t \in DOMAIN i.tracks : /\ i.tracks[t].fp = files[fileOf[t]]
                                       /\ i.tracks[t].paths # <<>>
                                       /\ Hides(i.tracks[t]) <=> fileOf[t] \in IgnoredNames
      BY <1>1, Zenon DEF OldTracks
    <3>1. PICK fileOf \in Bijection(DOMAIN i.tracks, DOMAIN files) :
            \A t \in DOMAIN i.tracks : Hides(i.tracks[t]) <=> fileOf[t] \in IgnoredNames
      BY <3>0
    <3>2. fileOf \in [DOMAIN i.tracks -> DOMAIN files]
      BY Fun_BijectionProperties
    <3> QED BY <1>4, <3>1, <3>2
  <2> QED BY <1>1, <2>1 DEF PlainTracks, OldTracks
<1> QED BY <1>2, <1>5, <1>6

\* By the tracks that are left it is found only if those are its audio, and the
\* others, which are retired, the hidden ones.
LEMMA InheritedBySidecar ==
  ASSUME NEW g, GroupOf(g), NEW i, NEW id, NEW s, Inherited(i, id, s), NEW path,
         OnlyIgnoredAreGone(i, path, g.files)
  PROVE  Shape(g.files) = s /\ Hidden(i.fp) /\ PlainTracks(Retired(i, path, g.files).tracks)
<1>1. PICK files : /\ IsDirectory(files) /\ s = Shape(Audio(files))
                   /\ i.fp = BookFingerprint(files)
                   /\ i.history = <<>> /\ IdentityShaped(i) /\ i.seen = 0
                   /\ OldTracks(i.tracks, files)
  BY InheritedIs
<1>2. PICK tracks : tracks = i.tracks
  OBVIOUS
<1> DEFINE kept == Accounted(i, path, g.files)
           audio == Audio(files)
<1>3. /\ \A t \in DOMAIN tracks :
           /\ tracks[t].paths \in Seq(Members(tracks[t].paths))
           /\ Hides(tracks[t]) => \A way \in Members(tracks[t].paths) : way[2] \in IgnoredNames
      /\ (\E t \in DOMAIN tracks : Hides(tracks[t])) =>
           /\ \E fileOf \in Bijection(DOMAIN tracks, DOMAIN files) :
                \A t \in DOMAIN tracks : /\ tracks[t].fp = files[fileOf[t]]
                                         /\ tracks[t].paths # <<>>
                                         /\ Hides(tracks[t]) <=> fileOf[t] \in IgnoredNames
           /\ \A t, o \in DOMAIN tracks :
                tracks[t].fp = tracks[o].fp /\ t # o =>
                  Members(tracks[t].paths) \cap Members(tracks[o].paths) = {}
  BY <1>1, <1>2, Zenon DEF OldTracks
<1>4. /\ kept \subseteq DOMAIN tracks
      /\ \A t \in kept : \E a \in DOMAIN g.files :
           /\ tracks[t].fp = g.files[a] /\ <<path, a>> \in Members(tracks[t].paths)
  BY <1>2 DEF Accounted
<1>5. /\ DOMAIN tracks \ kept # {} /\ Cardinality(kept) = Cardinality(DOMAIN g.files)
      /\ \A t \in DOMAIN tracks \ kept :
           /\ tracks[t].paths # <<>>
           /\ tracks[t].paths[Len(tracks[t].paths)][2] \in IgnoredNames
  BY <1>2 DEF OnlyIgnoredAreGone
<1> HIDE DEF kept
<1>6. \A t \in DOMAIN tracks \ kept : Hides(tracks[t])
  <2> SUFFICES ASSUME NEW t \in DOMAIN tracks \ kept
               PROVE  Hides(tracks[t])
    OBVIOUS
  <2>1. PICK paths : paths = tracks[t].paths
    OBVIOUS
  <2>2. paths \in Seq(Members(paths)) /\ paths # <<>> /\ paths[Len(paths)][2] \in IgnoredNames
    BY <1>3, <1>5, <2>1
  <2>3. Len(paths) \in DOMAIN paths
    BY <2>2
  <2> QED BY <2>1, <2>2, <2>3 DEF Hides, Members
<1>7. \A t \in kept : ~Hides(tracks[t])
  <2> SUFFICES ASSUME NEW t \in kept, Hides(tracks[t])
               PROVE  FALSE
    OBVIOUS
  <2>1. PICK a \in DOMAIN g.files : <<path, a>> \in Members(tracks[t].paths)
    BY <1>4
  <2>2. <<path, a>>[2] \in IgnoredNames
    BY <1>3, <1>4, <2>1
  <2> QED BY <2>2 DEF GroupOf, Plain
<1>8. PICK fileOf \in Bijection(DOMAIN tracks, DOMAIN files) :
        \A t \in DOMAIN tracks : /\ tracks[t].fp = files[fileOf[t]]
                                 /\ Hides(tracks[t]) <=> fileOf[t] \in IgnoredNames
  BY <1>3, <1>5, <1>6
<1>9. /\ fileOf \in [DOMAIN tracks -> DOMAIN files]
      /\ \A t, o \in DOMAIN tracks : fileOf[t] = fileOf[o] => t = o
      /\ \A n \in DOMAIN files : \E t \in DOMAIN tracks : fileOf[t] = n
  BY Fun_BijectionProperties, Fun_InjectionProperties DEF Bijection, Surjection
<1> DEFINE at == [t \in kept |-> CHOOSE a \in DOMAIN g.files :
                     tracks[t].fp = g.files[a] /\ <<path, a>> \in Members(tracks[t].paths)]
<1>10. \A t \in kept : /\ at[t] \in DOMAIN g.files /\ tracks[t].fp = g.files[at[t]]
                       /\ <<path, at[t]>> \in Members(tracks[t].paths)
  BY <1>4
<1>11. at \in [kept -> DOMAIN g.files]
  BY <1>10
<1> HIDE DEF at
<1>12. \A t, o \in kept : at[t] = at[o] => t = o
  <2> SUFFICES ASSUME NEW t \in kept, NEW o \in kept, at[t] = at[o], t # o
               PROVE  FALSE
    OBVIOUS
  <2>1. tracks[t].fp = tracks[o].fp /\ t \in DOMAIN tracks /\ o \in DOMAIN tracks
    BY <1>4, <1>10
  <2>2. Members(tracks[t].paths) \cap Members(tracks[o].paths) = {}
    BY <1>3, <1>5, <1>6, <2>1
  <2> QED BY <1>10, <2>2
<1>13. IsFiniteSet(DOMAIN g.files)
  BY DEF GroupOf, Plain
<1>14. \A a \in DOMAIN g.files : \E t \in kept : at[t] = a
  <2>1. at \in Injection(kept, DOMAIN g.files)
    BY <1>11, <1>12, Fun_IsInj
  <2>2. at \in Surjection(kept, DOMAIN g.files)
    BY <1>5, <1>13, <2>1, FS_Injection
  <2> QED BY <2>2 DEF Surjection
<1>15. /\ DOMAIN audio = DOMAIN files \ IgnoredNames
       /\ \A n \in DOMAIN audio : audio[n] = files[n]
  BY DEF Audio
<1>16. \A n \in DOMAIN audio : \E t \in kept : fileOf[t] = n
  BY <1>6, <1>8, <1>9, <1>15
<1> DEFINE TrackOf(n) == CHOOSE t \in kept : fileOf[t] = n
           b == [n \in DOMAIN audio |-> at[TrackOf(n)]]
<1>17. \A n \in DOMAIN audio : TrackOf(n) \in kept /\ fileOf[TrackOf(n)] = n
  BY <1>16
<1> HIDE DEF audio, TrackOf
<1>18. b \in [DOMAIN audio -> DOMAIN g.files]
  BY <1>11, <1>17
<1>19. \A n, m \in DOMAIN audio : b[n] = b[m] => n = m
  BY <1>12, <1>17
<1>20. \A a \in DOMAIN g.files : \E n \in DOMAIN audio : b[n] = a
  <2> SUFFICES ASSUME NEW a \in DOMAIN g.files
               PROVE  \E n \in DOMAIN audio : b[n] = a
    OBVIOUS
  <2>1. PICK t \in kept : at[t] = a
    BY <1>14
  <2>2. fileOf[t] \in DOMAIN audio
    BY <1>4, <1>7, <1>8, <1>9, <1>15, <2>1
  <2>3. TrackOf(fileOf[t]) = t
    BY <1>4, <1>9, <1>17, <2>1, <2>2
  <2> QED BY <2>1, <2>2, <2>3
<1>21. \A n \in DOMAIN audio : audio[n] = g.files[b[n]]
  <2> SUFFICES ASSUME NEW n \in DOMAIN audio
               PROVE  audio[n] = g.files[b[n]]
    OBVIOUS
  <2>1. PICK t : t = TrackOf(n)
    OBVIOUS
  <2>2. t \in kept /\ fileOf[t] = n /\ b[n] = at[t]
    BY <1>17, <2>1
  <2> HIDE DEF b
  <2>3. tracks[t].fp = g.files[b[n]]
    BY <1>10, <2>2
  <2>4. tracks[t].fp = files[n]
    BY <1>4, <1>8, <2>2
  <2> QED BY <1>15, <2>3, <2>4
<1>22. b \in Bijection(DOMAIN audio, DOMAIN g.files)
  <2> HIDE DEF b
  <2> QED BY <1>18, <1>19, <1>20, Fun_IsBij
<1>23. IsFiniteSet(DOMAIN audio)
  BY <1>1, <1>15, FS_Subset DEF IsDirectory
<1>24. BookFingerprint(audio) = BookFingerprint(g.files)
  <2> HIDE DEF b
  <2> QED BY <1>21, <1>22, <1>23, SameContents
<1>25. Shape(g.files) = s
  <2>1. Shape(audio) = s
    BY <1>1 DEF audio
  <2> QED BY <1>13, <1>23, <1>24, <2>1, ShapeOfDigest
<1>26. Hidden(i.fp)
  <2>1. PICK t \in DOMAIN tracks : fileOf[t] \in IgnoredNames
    BY <1>5, <1>6, <1>8
  <2>2. fileOf[t] \in DOMAIN files
    BY <1>9
  <2>3. files[fileOf[t]].trk \in IgnoredNames
    BY <1>1, <2>1, <2>2 DEF IsDirectory
  <2> QED BY <1>1, <2>2, <2>3, HiddenInDigest
<1>27. PlainTracks(Retired(i, path, g.files).tracks)
  <2>1. Retired(i, path, g.files).tracks = [t \in kept |-> tracks[t]]
    BY <1>1, <1>2 DEF Retired, IdentityShaped, kept
  <2> QED BY <1>3, <1>4, <1>7, <2>1 DEF PlainTracks
<1> QED BY <1>25, <1>26, <1>27

\* Nothing else of an identity is retired.
LEMMA RetiredKeeps ==
  ASSUME NEW i, IdentityShaped(i), NEW path, NEW files
  PROVE  LET r == Retired(i, path, files)
         IN  /\ IdentityShaped(r) /\ r.fp = i.fp /\ r.history = i.history
             /\ r.length = i.length
<1>1. PICK tracks : Retired(i, path, files) = [i EXCEPT !.tracks = tracks]
  BY DEF Retired
<1> QED BY <1>1 DEF IdentityShaped

\* A scan leaves no track with a hidden file.
LEMMA TracksStayPlain ==
  ASSUME NEW tracks, PlainTracks(tracks), NEW files, Plain(files), NEW path,
         NEW ids, DOMAIN ids = DOMAIN files
  PROVE  PlainTracks(TracksAfter(tracks, path, files, ids))
<1> DEFINE FileOf(t) == CHOOSE a \in DOMAIN ids : ids[a] = t
           OldPaths(t) == IF t \in DOMAIN tracks THEN tracks[t].paths ELSE <<>>
           seen == {ids[a] : a \in DOMAIN ids}
           after == TracksAfter(tracks, path, files, ids)
<1>1. after = [t \in DOMAIN tracks \cup seen |->
                 IF t \notin seen THEN tracks[t]
                 ELSE [fp |-> files[FileOf(t)],
                       paths |-> RememberPath(OldPaths(t), <<path, FileOf(t)>>)]]
  BY DEF TracksAfter
<1>2. \A t \in seen : FileOf(t) \in DOMAIN files
  OBVIOUS
<1>3. \A t : OldPaths(t) \in Seq(Members(OldPaths(t)))
  <2> SUFFICES ASSUME NEW t
               PROVE  OldPaths(t) \in Seq(Members(OldPaths(t)))
    OBVIOUS
  <2>1. CASE t \in DOMAIN tracks
    BY <2>1 DEF PlainTracks
  <2>2. CASE t \notin DOMAIN tracks
    BY <2>2
  <2> QED BY <2>1, <2>2
<1>4. \A t : \A way \in Members(OldPaths(t)) : way[2] \notin IgnoredNames
  <2> SUFFICES ASSUME NEW t, NEW way \in Members(OldPaths(t))
               PROVE  way[2] \notin IgnoredNames
    OBVIOUS
  <2>1. t \in DOMAIN tracks
    BY DEF Members
  <2> QED BY <2>1 DEF PlainTracks, Hides
<1> HIDE DEF FileOf, OldPaths, seen, after
<1>5. SUFFICES ASSUME NEW t \in DOMAIN tracks \cup seen
               PROVE  after[t].paths \in Seq(Members(after[t].paths)) /\ ~Hides(after[t])
  BY <1>1 DEF PlainTracks, after
<1>6. CASE t \notin seen
  BY <1>1, <1>5, <1>6 DEF PlainTracks
<1>7. CASE t \in seen
  <2>1. PICK paths : paths = RememberPath(OldPaths(t), <<path, FileOf(t)>>)
    OBVIOUS
  <2>2. after[t].paths = paths
    BY <1>1, <1>7, <2>1
  <2>3. /\ paths \in Seq(Members(paths))
        /\ Members(paths) \subseteq Members(OldPaths(t)) \cup {<<path, FileOf(t)>>}
    BY <1>3, <2>1, PathRemembered
  <2>4. <<path, FileOf(t)>>[2] \notin IgnoredNames
    BY <1>2, <1>7 DEF Plain
  <2>5. \A way \in Members(paths) : way[2] \notin IgnoredNames
    BY <1>4, <2>3, <2>4
  <2> QED BY <2>2, <2>3, <2>5 DEF Hides
<1> QED BY <1>6, <1>7

\* An identity that was found by its shape is a matched one of that shape.
LEMMA RefreshedMatches ==
  ASSUME NEW i, IdentityShaped(i), NEW s, Tells(i.fp, s),
         \A d \in Members(i.history) : Tells(d, s), PlainTracks(i.tracks),
         NEW g, GroupOf(g), Shape(g.files) = s,
         NEW path, NEW number \in Nat \ {0}, NEW ids, DOMAIN ids = DOMAIN g.files,
         NEW e, e = Refreshed(i, path, g, number, ids), e.length = s[2]
  PROVE  IdentityShaped(e) /\ e.seen # 0 /\ Matched(e, s)
<1> DEFINE r == RecordFingerprint(i, g.fp)
<1>1. Tells(g.fp, s)
  BY ShapeOfDigest DEF Tells, GroupOf, Plain
<1>2. /\ DOMAIN r = DOMAIN i /\ r.fp = g.fp /\ r.tracks = i.tracks
      /\ r.history \in Seq(Members(r.history))
      /\ \A d \in Members(r.history) : Tells(d, s)
  <2>1. CASE i.fp = g.fp
    <3>1. r = i
      BY <2>1 DEF RecordFingerprint
    <3> QED BY <2>1, <3>1 DEF IdentityShaped
  <2>2. CASE i.fp # g.fp
    <3>1. PICK history : history = LastOf(Append(Without(Without(i.history, i.fp), g.fp), i.fp),
                                          MaxHistory)
      OBVIOUS
    <3>2. r = [i EXCEPT !.fp = g.fp, !.history = history]
      BY <2>2, <3>1, Zenon DEF RecordFingerprint
    <3>3. history \in Seq(Members(history)) /\ Members(history) \subseteq Members(i.history) \cup {i.fp}
      BY <3>1, DigestRemembered DEF IdentityShaped
    <3>4. /\ DOMAIN r = DOMAIN i /\ r.fp = g.fp /\ r.tracks = i.tracks /\ r.history = history
      <4> HIDE DEF r
      <4> QED BY <3>2 DEF IdentityShaped
    <3> HIDE DEF r
    <3> QED BY <3>3, <3>4
  <2> QED BY <2>1, <2>2
<1> HIDE DEF r
<1>0. PICK tracks : tracks = TracksAfter(i.tracks, path, g.files, ids)
  OBVIOUS
<1>3. PICK length, paths :
        e = [r EXCEPT !.seen = number, !.count = Cardinality(DOMAIN g.files),
                      !.length = length, !.paths = paths, !.tracks = tracks]
  <2>1. e = [r EXCEPT !.seen = number, !.count = Cardinality(DOMAIN g.files),
                      !.length = IF g.length = NoLength THEN @ ELSE g.length,
                      !.paths = RememberPath(@, path),
                      !.tracks = TracksAfter(@, path, g.files, ids)]
    BY DEF Refreshed, r
  <2>2. e = [r EXCEPT !.seen = number, !.count = Cardinality(DOMAIN g.files),
                      !.length = IF g.length = NoLength THEN r.length ELSE g.length,
                      !.paths = RememberPath(r.paths, path),
                      !.tracks = tracks]
    BY <1>0, <1>2, <2>1
  <2> QED BY <2>2, Zenon
<1>4. /\ DOMAIN e = DOMAIN i /\ e.fp = g.fp /\ e.history = r.history /\ e.seen = number
      /\ e.count = Cardinality(DOMAIN g.files) /\ e.tracks = tracks
  BY <1>2, <1>3 DEF IdentityShaped
<1>5. PlainTracks(e.tracks)
  BY <1>0, <1>4, TracksStayPlain DEF GroupOf
<1>6. s = <<e.count, e.length>> /\ e.length # NoLength
  BY <1>4 DEF Shape, TrueLength, NoLength
<1>7. e.count # 0
  BY <1>4, FS_EmptySet DEF GroupOf, Plain
<1> QED BY <1>1, <1>2, <1>4, <1>5, <1>6, <1>7 DEF IdentityShaped, Matched

\* The length that is stored is the one the tags told, if they did.
LEMMA RefreshedLength ==
  ASSUME NEW i, IdentityShaped(i), NEW g, NEW path, NEW number, NEW ids
  PROVE  Refreshed(i, path, g, number, ids).length
           = IF g.length = NoLength THEN i.length ELSE g.length
<1> DEFINE r == RecordFingerprint(i, g.fp)
<1>1. DOMAIN r = DOMAIN i /\ r.length = i.length
  <2>1. PICK history : r = IF i.fp = g.fp THEN i ELSE [i EXCEPT !.fp = g.fp, !.history = history]
    BY DEF RecordFingerprint
  <2> HIDE DEF r
  <2> QED BY <2>1 DEF IdentityShaped
<1>2. Refreshed(i, path, g, number, ids)
        = [r EXCEPT !.seen = number, !.count = Cardinality(DOMAIN g.files),
                    !.length = IF g.length = NoLength THEN r.length ELSE g.length,
                    !.paths = RememberPath(r.paths, path),
                    !.tracks = TracksAfter(r.tracks, path, g.files, ids)]
  BY <1>1 DEF Refreshed, r
<1> HIDE DEF r
<1>3. PICK count, length, paths, tracks :
        /\ Refreshed(i, path, g, number, ids)
             = [r EXCEPT !.seen = number, !.count = count, !.length = length,
                         !.paths = paths, !.tracks = tracks]
        /\ length = IF g.length = NoLength THEN r.length ELSE g.length
  BY <1>2
<1> QED BY <1>1, <1>3 DEF IdentityShaped

--------------------------------------------------------------------------------
(* What a scan resolves its groups to.                                         *)

\* The evidence of the first five passes, and of the last.
Found(i, g) == MatchesFingerprint(i, g.fp) \/ (i.seen # 0 /\ LayoutMatches(i, g))
LeftOver(i, p, g) == OnlyIgnoredAreGone(i, p, g.files)

ClaimsBy(books, groups, claims) ==
  \A c \in claims : /\ c[1] \in DOMAIN groups /\ c[2] \in DOMAIN books
                    /\ Found(books[c[2]], groups[c[1]])

\* A pass adds nothing but claims it has the evidence for.
LEMMA ClaimAdds ==
  ASSUME NEW claims, NEW edges
  PROVE  claims \subseteq Claim(claims, edges) /\ Claim(claims, edges) \subseteq claims \cup edges
BY DEF Claim

\* The first five passes of a scan claim by evidence.
LEMMA FirstClaims ==
  ASSUME NEW f, NEW groups
  PROVE  ClaimsBy(f.books, groups, FirstFivePasses(f, groups))
<1> DEFINE steady == SteadyClaims(f.books, groups)
           known == RememberedPathClaims(f.books, groups, steady)
           moved == RememberedClaims(f.books, groups, known)
           first == RemuxClaims(f.books, groups, moved, f.counter + 1)
<1>1. ClaimsBy(f.books, groups, steady)
  <2> DEFINE current == {e \in Pairs(DOMAIN groups, DOMAIN f.books) :
                           f.books[e[2]].fp = groups[e[1]].fp}
             here == {e \in current : PathMatches(f.books[e[2]], e[1])}
  <2>1. ClaimsBy(f.books, groups, current)
    BY DEF ClaimsBy, Pairs, Found, MatchesFingerprint
  <2>2. steady = Claim(Claim({}, here), current) /\ here \subseteq current
    BY DEF SteadyClaims
  <2> HIDE DEF steady, current, here
  <2>3. steady \subseteq current
    BY <2>2, ClaimAdds
  <2> QED BY <2>1, <2>3 DEF ClaimsBy
<1>2. ASSUME NEW claims
      PROVE  ClaimsBy(f.books, groups, RemembersContents(f.books, groups, claims))
  BY DEF ClaimsBy, RemembersContents, Pairs, Found
<1>3. ClaimsBy(f.books, groups, known)
  <2> HIDE DEF steady
  <2>1. PICK edges : /\ edges \subseteq RemembersContents(f.books, groups, steady)
                     /\ known = Claim(steady, edges)
    BY DEF RememberedPathClaims
  <2>2. known \subseteq steady \cup RemembersContents(f.books, groups, steady)
    <3> HIDE DEF known
    <3> QED BY <2>1, ClaimAdds
  <2> HIDE DEF known
  <2> QED BY <1>1, <1>2, <2>2 DEF ClaimsBy
<1>4. ClaimsBy(f.books, groups, moved)
  <2> HIDE DEF steady, known
  <2>1. moved \subseteq known \cup RemembersContents(f.books, groups, known)
    BY ClaimAdds DEF RememberedClaims
  <2> HIDE DEF moved
  <2> QED BY <1>2, <1>3, <2>1 DEF ClaimsBy
<1>5. ClaimsBy(f.books, groups, first)
  <2> HIDE DEF steady, known, moved
  <2> DEFINE edges == {e \in PathOnly(f.books, groups, moved) :
                         /\ RecentlySeen(f.books[e[2]], f.counter + 1)
                         /\ LayoutMatches(f.books[e[2]], groups[e[1]])}
  <2>1. first = Claim(moved, edges)
    BY DEF RemuxClaims
  <2>2. ClaimsBy(f.books, groups, edges)
    BY DEF ClaimsBy, PathOnly, Pairs, RecentlySeen, Found
  <2> HIDE DEF first, edges
  <2>3. first \subseteq moved \cup edges
    BY <2>1, ClaimAdds
  <2> QED BY <1>4, <2>2, <2>3 DEF ClaimsBy
<1> QED BY <1>5 DEF FirstFivePasses

\* The last one claims, for groups that none of them placed, identities that only
\* ignored files are missing from.
LEMMA LastClaims ==
  ASSUME NEW f, NEW groups, NEW first
  PROVE  /\ first \subseteq SidecarClaims(f, groups, first)
         /\ \A c \in SidecarClaims(f, groups, first) \ first :
              /\ c[1] \in DOMAIN groups \ Placed(first) /\ c[2] \in DOMAIN f.books
              /\ LeftOver(f.books[c[2]], c[1], groups[c[1]])
<1>1. PICK edges : /\ SidecarClaims(f, groups, first) = Claim(first, edges)
                   /\ \A e \in edges : /\ e \in PathOnly(f.books, groups, first)
                                       /\ LeftOver(f.books[e[2]], e[1], groups[e[1]])
  <2> DEFINE Waiting(i) == /\ i.seen = 0 /\ f.counter = 0
                           /\ i.fp \in f.manifest.fingerprints
             edges == {e \in PathOnly(f.books, groups, first) :
                         /\ RecentlySeen(f.books[e[2]], f.counter + 1) \/ Waiting(f.books[e[2]])
                         /\ OnlyIgnoredAreGone(f.books[e[2]], e[1], groups[e[1]].files)}
  <2>1. SidecarClaims(f, groups, first) = Claim(first, edges)
    BY DEF SidecarClaims
  <2>2. \A e \in edges : /\ e \in PathOnly(f.books, groups, first)
                         /\ LeftOver(f.books[e[2]], e[1], groups[e[1]])
    BY DEF LeftOver
  <2> HIDE DEF edges
  <2> QED BY <2>1, <2>2
<1>2. \A e \in PathOnly(f.books, groups, first) :
        e[1] \in DOMAIN groups \ Placed(first) /\ e[2] \in DOMAIN f.books
  BY DEF PathOnly, Pairs
<1> QED BY <1>1, <1>2, ClaimAdds

\* The entry that a group is matched with, and the evidence for it.
Entry(f, groups, p, id, entry) ==
  IF id \notin DOMAIN f.books THEN id[2] = p /\ entry = MintedBook(groups[p])
  ELSE \/ Found(f.books[id], groups[p]) /\ entry = f.books[id]
       \/ /\ LeftOver(f.books[id], p, groups[p])
          /\ entry = Retired(f.books[id], p, groups[p].files)

\* A group gets the identifier of a known book on evidence or a new one, and the
\* book is refreshed from one of the groups that got it.
LEMMA ResolveMatches ==
  ASSUME NEW f, FileShaped(f), NEW groups, NEW draw,
         \A p \in DOMAIN groups : <<draw, p>> \notin DOMAIN f.books,
         NEW result, result = Resolve(f, groups, draw)
  PROVE  /\ DOMAIN result.ids = DOMAIN groups
         /\ \A p \in DOMAIN groups :
              /\ result.ids[p] \notin DOMAIN f.books => result.ids[p] = <<draw, p>>
              /\ \E entry : Entry(f, groups, p, result.ids[p], entry)
         /\ DOMAIN result.store.books = DOMAIN f.books \cup {result.ids[p] : p \in DOMAIN groups}
         /\ \A id \in DOMAIN f.books :
              (\A p \in DOMAIN groups : result.ids[p] # id) => result.store.books[id] = f.books[id]
         /\ \A q \in DOMAIN groups : \E p \in DOMAIN groups : \E entry, tracks :
              /\ result.ids[p] = result.ids[q] /\ Entry(f, groups, p, result.ids[p], entry)
              /\ DOMAIN tracks = DOMAIN groups[p].files
              /\ result.store.books[result.ids[q]]
                   = Refreshed(entry, p, groups[p], f.counter + 1, tracks)
         /\ result.store.counter = f.counter + 1
<1> DEFINE first == FirstFivePasses(f, groups)
           claims == SidecarClaims(f, groups, first)
           scan0 == f.counter + 1
           ids == [p \in DOMAIN groups |-> IF p \in Placed(claims) THEN ClaimedBy(claims, p)
                                           ELSE <<draw, p>>]
           entries == [p \in DOMAIN groups |->
               IF ids[p] \notin DOMAIN f.books THEN MintedBook(groups[p])
               ELSE IF p \in Placed(first) THEN f.books[ids[p]]
               ELSE Retired(f.books[ids[p]], p, groups[p].files)]
           tracks0 == [p \in DOMAIN groups |->
               TrackIds(entries[p].tracks, p, groups[p].files, draw)]
           PathOf(id) == CHOOSE p \in DOMAIN groups : ids[p] = id
           seen == {ids[p] : p \in DOMAIN groups}
           After(p) == Refreshed(entries[p], p, groups[p], scan0, tracks0[p])
           books == [id \in DOMAIN f.books \cup seen |->
                       IF id \in seen THEN After(PathOf(id)) ELSE f.books[id]]
           manifest == [size |-> Cardinality(DOMAIN groups),
                        fingerprints |-> Digests(groups, DOMAIN groups)]
           shrink == [seen |-> {}, times |-> 0]
           after == [f EXCEPT !.books = books, !.counter = scan0, !.shrink = shrink,
                              !.manifest = manifest]
<1>1. Resolve(f, groups, draw) = [ids |-> ids, tracks |-> tracks0, store |-> after]
  BY DEF Resolve
<1>2. result.ids = ids /\ result.store = after
  <2> HIDE DEF ids, tracks0, after
  <2> QED BY <1>1
<1>3. after.books = books /\ after.counter = scan0
  <2> HIDE DEF books, manifest, shrink, scan0
  <2> QED BY DEF FileShaped
<1> HIDE DEF after, manifest, shrink
<1>4. ClaimsBy(f.books, groups, first)
  BY FirstClaims
<1>5. /\ first \subseteq claims
      /\ \A c \in claims \ first :
           /\ c[1] \in DOMAIN groups \ Placed(first) /\ c[2] \in DOMAIN f.books
           /\ LeftOver(f.books[c[2]], c[1], groups[c[1]])
  BY LastClaims
<1> HIDE DEF first, claims
<1>6. ASSUME NEW p \in DOMAIN groups
      PROVE  /\ ids[p] \notin DOMAIN f.books => ids[p] = <<draw, p>>
             /\ Entry(f, groups, p, ids[p], entries[p])
  <2>1. CASE p \notin Placed(claims)
    <3>1. ids[p] = <<draw, p>>
      BY <2>1
    <3>2. entries[p] = MintedBook(groups[p])
      BY <3>1
    <3> HIDE DEF entries, ids
    <3> QED BY <3>1, <3>2 DEF Entry
  <2>2. CASE p \in Placed(claims)
    <3>1. PICK c \in claims : c[1] = p /\ ids[p] = c[2]
      BY <2>2 DEF Placed, ClaimedBy
    <3>2. c[2] \in DOMAIN f.books
      BY <1>4, <1>5 DEF ClaimsBy
    <3>3. CASE c \in first
      <4>1. p \in Placed(first) /\ Found(f.books[c[2]], groups[p])
        BY <1>4, <3>1, <3>3 DEF Placed, ClaimsBy
      <4>2. entries[p] = f.books[c[2]]
        BY <3>1, <3>2, <4>1
      <4> HIDE DEF entries, ids
      <4> QED BY <3>1, <3>2, <4>1, <4>2 DEF Entry
    <3>4. CASE c \notin first
      <4>1. p \notin Placed(first) /\ LeftOver(f.books[c[2]], p, groups[p])
        BY <1>5, <3>1, <3>4
      <4>2. entries[p] = Retired(f.books[c[2]], p, groups[p].files)
        BY <3>1, <3>2, <4>1
      <4> HIDE DEF entries, ids
      <4> QED BY <3>1, <3>2, <4>1, <4>2 DEF Entry
    <3> QED BY <3>3, <3>4
  <2> QED BY <2>1, <2>2
<1>7. \A p \in DOMAIN groups : DOMAIN tracks0[p] = DOMAIN groups[p].files
  BY DEF TrackIds
<1>8. DOMAIN ids = DOMAIN groups
  OBVIOUS
<1> HIDE DEF ids, entries, tracks0
<1>9. \A q \in DOMAIN groups :
        /\ PathOf(ids[q]) \in DOMAIN groups /\ ids[PathOf(ids[q])] = ids[q]
        /\ books[ids[q]] = After(PathOf(ids[q]))
  OBVIOUS
<1>10. ASSUME NEW q \in DOMAIN groups
       PROVE  \E p \in DOMAIN groups : \E entry, tracks :
              /\ result.ids[p] = result.ids[q] /\ Entry(f, groups, p, result.ids[p], entry)
              /\ DOMAIN tracks = DOMAIN groups[p].files
              /\ result.store.books[result.ids[q]]
                   = Refreshed(entry, p, groups[p], f.counter + 1, tracks)
  <2>1. PICK p : p = PathOf(ids[q])
    OBVIOUS
  <2>2. /\ p \in DOMAIN groups /\ ids[p] = ids[q]
        /\ books[ids[q]] = Refreshed(entries[p], p, groups[p], f.counter + 1, tracks0[p])
    <3>1. p \in DOMAIN groups /\ ids[p] = ids[q] /\ books[ids[q]] = After(p)
      BY <1>9, <2>1, SMTT(30)
    <3> QED BY <3>1
  <2> HIDE DEF books
  <2> QED BY <1>2, <1>3, <1>6, <1>7, <2>2
<1>11. DOMAIN books = DOMAIN f.books \cup {ids[p] : p \in DOMAIN groups}
  OBVIOUS
<1>12. \A id \in DOMAIN f.books :
         (\A p \in DOMAIN groups : ids[p] # id) => books[id] = f.books[id]
  OBVIOUS
<1> HIDE DEF books, scan0
<1>13. \A p \in DOMAIN groups :
              /\ result.ids[p] \notin DOMAIN f.books => result.ids[p] = <<draw, p>>
              /\ \E entry : Entry(f, groups, p, result.ids[p], entry)
  BY <1>2, <1>6
<1>14. result.store.counter = f.counter + 1
  BY <1>2, <1>3 DEF scan0
<1> QED BY <1>2, <1>3, <1>8, <1>10, <1>11, <1>12, <1>13, <1>14

\* Whatever the evidence, the group has the shape of the identity it is matched
\* with, or the count and the length that the identity has, and the entry tells
\* of nothing else.
LEMMA EntryShape ==
  ASSUME NEW f, NEW groups, NEW p, NEW id \in DOMAIN f.books, NEW entry,
         Entry(f, groups, p, id, entry), GroupOf(groups[p]), NEW s, Has(f, id, s)
  PROVE  /\ \/ Shape(groups[p].files) = s
            \/ /\ s = <<Cardinality(DOMAIN groups[p].files), groups[p].length>>
               /\ groups[p].length # NoLength
         /\ IdentityShaped(entry) /\ Tells(entry.fp, s)
         /\ \A d \in Members(entry.history) : Tells(d, s)
         /\ PlainTracks(entry.tracks)
<1>1. PICK g : g = groups[p]
  OBVIOUS
<1>2. PICK i : i = f.books[id]
  OBVIOUS
<1>3. IdentityShaped(i) /\ IF i.seen = 0 THEN Inherited(i, id, s) ELSE Matched(i, s)
  BY <1>2 DEF Has
<1>4. GroupOf(g)
  BY <1>1
<1>5. \/ Found(i, g) /\ entry = i
      \/ OnlyIgnoredAreGone(i, p, g.files) /\ entry = Retired(i, p, g.files)
  BY <1>1, <1>2 DEF Entry, LeftOver
<1>6. CASE i.seen = 0
  <2>1. Inherited(i, id, s)
    BY <1>3, <1>6
  <2>2. i.history = <<>>
    BY <2>1, InheritedIs
  <2>3. CASE Found(i, g) /\ entry = i
    <3>1. MatchesFingerprint(i, g.fp)
      BY <1>6, <2>3 DEF Found
    <3>2. Shape(g.files) = s /\ PlainTracks(i.tracks) /\ i.fp = g.fp
      BY <1>4, <2>1, <3>1, InheritedByDigest
    <3>3. Tells(i.fp, s)
      BY <1>4, <3>2, ShapeOfDigest DEF Tells, GroupOf, Plain
    <3> QED BY <1>1, <1>3, <2>2, <2>3, <3>2, <3>3 DEF Members
  <2>4. CASE OnlyIgnoredAreGone(i, p, g.files) /\ entry = Retired(i, p, g.files)
    <3>1. Shape(g.files) = s /\ Hidden(i.fp) /\ PlainTracks(entry.tracks)
      BY <1>4, <2>1, <2>4, InheritedBySidecar
    <3>2. IdentityShaped(entry) /\ entry.fp = i.fp /\ entry.history = i.history
      BY <1>3, <2>4, RetiredKeeps
    <3> QED BY <1>1, <2>2, <3>1, <3>2 DEF Members, Tells
  <2> QED BY <1>5, <2>3, <2>4
<1>7. CASE i.seen # 0
  <2>1. Matched(i, s)
    BY <1>3, <1>7
  <2>2. /\ MatchesFingerprint(i, g.fp) => Shape(g.files) = s
        /\ LayoutMatches(i, g) => Cardinality(DOMAIN g.files) = s[1] /\ g.length = s[2]
        /\ ~OnlyIgnoredAreGone(i, p, g.files)
    BY <1>4, <2>1, MatchedEvidence
  <2>3. Found(i, g) /\ entry = i
    BY <1>5, <2>2
  <2>4. s = <<s[1], s[2]>> /\ s[2] # NoLength
    BY <2>1 DEF Matched
  <2>5. \/ Shape(g.files) = s
        \/ s = <<Cardinality(DOMAIN g.files), g.length>> /\ g.length # NoLength
    BY <2>2, <2>3, <2>4 DEF Found
  <2> QED BY <1>1, <1>3, <2>1, <2>3, <2>5 DEF Matched
<1> QED BY <1>6, <1>7

\* A group that is matched with an identity of its length has its shape.
LEMMA ShapeByLength ==
  ASSUME NEW f, NEW groups, NEW p, NEW id \in DOMAIN f.books, NEW entry,
         Entry(f, groups, p, id, entry), GroupOf(groups[p]), NEW s, Has(f, id, s),
         TrueLength(groups[p].files) = s[2]
  PROVE  Shape(groups[p].files) = s
<1>1. \/ Shape(groups[p].files) = s
      \/ /\ s = <<Cardinality(DOMAIN groups[p].files), groups[p].length>>
         /\ groups[p].length # NoLength
  BY EntryShape
<1> QED BY <1>1 DEF Shape

\* A scan keeps the shape of every known book, unless the length that is stored
\* is not that of its files, or one of these could not be read.
LEMMA ResolveKeepsShape ==
  ASSUME NEW f, FileShaped(f), f.counter \in Nat, NEW groups, NEW draw,
         \A p \in DOMAIN groups : <<draw, p>> \notin DOMAIN f.books,
         NEW result, result = Resolve(f, groups, draw),
         NEW id \in DOMAIN f.books, NEW s, Has(f, id, s),
         \A p \in DOMAIN groups : result.ids[p] = id =>
           /\ GroupOf(groups[p])
           /\ result.store.books[id].length = TrueLength(groups[p].files)
  PROVE  /\ Has(result.store, id, s)
         /\ \A p \in DOMAIN groups : result.ids[p] = id => Shape(groups[p].files) = s
<1>1. CASE \A p \in DOMAIN groups : result.ids[p] # id
  <2>1. result.store.books[id] = f.books[id]
    BY <1>1, ResolveMatches
  <2> QED BY <1>1, <2>1 DEF Has
<1>2. CASE \E q \in DOMAIN groups : result.ids[q] = id
  <2>1. PICK q \in DOMAIN groups : result.ids[q] = id
    BY <1>2
  <2>0. PICK p \in DOMAIN groups : \E entry, tracks :
          /\ result.ids[p] = id /\ Entry(f, groups, p, id, entry)
          /\ DOMAIN tracks = DOMAIN groups[p].files
          /\ result.store.books[id] = Refreshed(entry, p, groups[p], f.counter + 1, tracks)
    BY <2>1, ResolveMatches
  <2>2. PICK entry, tracks :
          /\ result.ids[p] = id /\ Entry(f, groups, p, id, entry)
          /\ DOMAIN tracks = DOMAIN groups[p].files
          /\ result.store.books[id] = Refreshed(entry, p, groups[p], f.counter + 1, tracks)
    BY <2>0
  <2>3. PICK e : e = result.store.books[id]
    OBVIOUS
  <2>4. /\ \/ Shape(groups[p].files) = s
           \/ /\ s = <<Cardinality(DOMAIN groups[p].files), groups[p].length>>
              /\ groups[p].length # NoLength
        /\ IdentityShaped(entry) /\ Tells(entry.fp, s)
        /\ \A d \in Members(entry.history) : Tells(d, s)
        /\ PlainTracks(entry.tracks)
    BY <2>2, EntryShape
  <2>5. e.length = IF groups[p].length = NoLength THEN entry.length ELSE groups[p].length
    BY <2>2, <2>3, <2>4, RefreshedLength
  <2>6. e.length = TrueLength(groups[p].files)
    BY <2>2, <2>3
  <2>7. e.length = s[2] /\ Shape(groups[p].files) = s
    BY <2>4, <2>5, <2>6 DEF Shape
  <2>8. f.counter + 1 \in Nat \ {0}
    OBVIOUS
  <2>9. IdentityShaped(e) /\ e.seen # 0 /\ Matched(e, s)
    BY <2>2, <2>3, <2>4, <2>7, <2>8, RefreshedMatches
  <2>10. Has(result.store, id, s)
    BY <2>3, <2>9 DEF Has
  <2>11. ASSUME NEW r \in DOMAIN groups, result.ids[r] = id
         PROVE  Shape(groups[r].files) = s
    <3>1. PICK other : Entry(f, groups, r, id, other)
      <4>1. \E other : Entry(f, groups, r, id, other)
        BY <2>11, ResolveMatches
      <4> QED BY <4>1
    <3>2. GroupOf(groups[r]) /\ TrueLength(groups[r].files) = s[2]
      BY <2>3, <2>7, <2>11
    <3> QED BY <3>1, <3>2, ShapeByLength
  <2> QED BY <2>10, <2>11
<1> QED BY <1>1, <1>2

\* A new book has the shape it was first seen with.
LEMMA ResolveGivesShape ==
  ASSUME NEW f, FileShaped(f), f.counter \in Nat, NEW groups, NEW draw,
         \A p \in DOMAIN groups : <<draw, p>> \notin DOMAIN f.books,
         NEW result, result = Resolve(f, groups, draw),
         NEW q \in DOMAIN groups, NEW id, id = result.ids[q], id \notin DOMAIN f.books,
         GroupOf(groups[q]), result.store.books[id].length = TrueLength(groups[q].files)
  PROVE  /\ id = <<draw, q>>
         /\ Has(result.store, id, Shape(groups[q].files))
         /\ \A p \in DOMAIN groups : result.ids[p] = id => p = q
<1>1. \A p \in DOMAIN groups : result.ids[p] = id => id = <<draw, p>>
  BY ResolveMatches
<1>2. id = <<draw, q>> /\ \A p \in DOMAIN groups : result.ids[p] = id => p = q
  BY <1>1
<1>0. PICK p \in DOMAIN groups : \E entry, tracks :
          /\ result.ids[p] = id /\ Entry(f, groups, p, id, entry)
          /\ DOMAIN tracks = DOMAIN groups[p].files
          /\ result.store.books[id] = Refreshed(entry, p, groups[p], f.counter + 1, tracks)
  BY ResolveMatches
<1>3. PICK entry, tracks :
          /\ result.ids[p] = id /\ Entry(f, groups, p, id, entry)
          /\ DOMAIN tracks = DOMAIN groups[p].files
          /\ result.store.books[id] = Refreshed(entry, p, groups[p], f.counter + 1, tracks)
  BY <1>0
<1>4. p = q
  BY <1>2, <1>3
<1>5. PICK e : e = result.store.books[id]
  OBVIOUS
<1>6. PICK g : g = groups[q]
  OBVIOUS
<1>7. entry = MintedBook(g)
  BY <1>3, <1>4, <1>6 DEF Entry
<1>8. IdentityShaped(entry) /\ entry.fp = g.fp /\ entry.history = <<>> /\ entry.tracks = <<>>
  BY <1>7 DEF IdentityShaped, MintedBook
<1>9. GroupOf(g)
  BY <1>6
<1>10. /\ Tells(entry.fp, Shape(g.files)) /\ PlainTracks(entry.tracks)
       /\ \A d \in Members(entry.history) : Tells(d, Shape(g.files))
  <2>1. Tells(g.fp, Shape(g.files))
    BY <1>9, ShapeOfDigest DEF Tells, GroupOf, Plain
  <2> QED BY <1>8, <2>1 DEF PlainTracks, Members
<1>11. e.length = Shape(g.files)[2]
  BY <1>5, <1>6 DEF Shape
<1>12. f.counter + 1 \in Nat \ {0}
  OBVIOUS
<1>13. e = Refreshed(entry, q, g, f.counter + 1, tracks) /\ DOMAIN tracks = DOMAIN g.files
  BY <1>3, <1>4, <1>5, <1>6
<1>14. IdentityShaped(e) /\ e.seen # 0 /\ Matched(e, Shape(g.files))
  BY <1>8, <1>9, <1>10, <1>11, <1>12, <1>13, RefreshedMatches
<1> QED BY <1>2, <1>5, <1>6, <1>14 DEF Has

--------------------------------------------------------------------------------
(* Most steps give nothing to an identifier.                                   *)

\* A file that was there before, but for what it counts.
Was(f) == \/ f.books = file.books /\ f.counter = file.counter
          \/ \E b \in backups : f = b.file
          \/ scan.phase = "resolved" /\ f = scan.store

Quiet ==
  /\ heard' = heard /\ doubtful' = doubtful
  /\ Was(file') /\ \A b \in backups' : Was(b.file)
  /\ scan'.phase \in Resolved => scan.phase \in Resolved /\ scan'.books = scan.books
  /\ scan'.phase = "resolved" => scan.phase = "resolved" /\ scan'.store = scan.store
  /\ DOMAIN spent' = {"most", "used"} /\ spent'.used \in [1..8 -> Nat]
  /\ spent.used[Scan] <= spent'.used[Scan]
  /\ scan'.phase = "walked" => \/ spent.used[Scan] < spent'.used[Scan]
                               \/ scan.phase = "walked" /\ spent'.used[Scan] = spent.used[Scan]

IdentifierInv == DrawnInv /\ CounterInv /\ ShapesInv

\* A step that gives no identifier to a book changes the shape of none.
LEMMA QuietSteps ==
  ASSUME IdentifierInv, Quiet
  PROVE  IdentifierInv'
<1>1. Scan \in 1..8 /\ spent.used[Scan] \in Nat /\ spent'.used[Scan] \in Nat
  BY DEF Scan, IdentifierInv, DrawnInv, Quiet
<1>2. ASSUME NEW id, Drawn(id)
      PROVE  Drawn(id)'
  BY <1>1, <1>2 DEF Drawn, Quiet
<1>3. ASSUME NEW f, Was(f)
      PROVE  /\ f.counter \in Nat /\ \A id \in DOMAIN f.books : Drawn(id)
             /\ \A id, s : OneShape(id, s) => Has(f, id, s)
  <2>1. CASE f.books = file.books /\ f.counter = file.counter
    BY <2>1 DEF IdentifierInv, DrawnInv, CounterInv, OneShape, Has
  <2>2. CASE \E b \in backups : f = b.file
    BY <2>2 DEF IdentifierInv, DrawnInv, CounterInv, OneShape
  <2>3. CASE scan.phase = "resolved" /\ f = scan.store
    BY <2>3 DEF IdentifierInv, DrawnInv, CounterInv, OneShape
  <2> QED BY <1>3, <2>1, <2>2, <2>3 DEF Was
<1>4. CounterInv'
  <2>1. file'.counter \in Nat /\ \A b \in backups' : b.file.counter \in Nat
    BY <1>3 DEF Quiet
  <2>2. scan'.phase = "resolved" => scan'.store.counter \in Nat
    BY DEF Quiet, IdentifierInv, CounterInv
  <2> QED BY <2>1, <2>2 DEF CounterInv
<1>5. DrawnInv'
  <2>1. \A id \in DOMAIN heard' : Drawn(id)'
    BY <1>2 DEF Quiet, IdentifierInv, DrawnInv
  <2>2. \A id \in DOMAIN file'.books : Drawn(id)'
    BY <1>2, <1>3 DEF Quiet
  <2>3. \A b \in backups' : \A id \in DOMAIN b.file.books : Drawn(id)'
    BY <1>2, <1>3 DEF Quiet
  <2>4. scan'.phase \in Resolved => \A id \in IdsIn(scan'.books) : Drawn(id)'
    BY <1>2 DEF Quiet, IdentifierInv, DrawnInv
  <2>5. scan'.phase = "resolved" => \A id \in DOMAIN scan'.store.books : Drawn(id)'
    BY <1>2 DEF Quiet, IdentifierInv, DrawnInv
  <2>6. DOMAIN spent' = {"most", "used"} /\ spent'.used \in [1..8 -> Nat]
    BY DEF Quiet
  <2> QED BY <2>1, <2>2, <2>3, <2>4, <2>5, <2>6 DEF DrawnInv, IdsIn
<1>6. ASSUME NEW id, NEW s, OneShape(id, s)
      PROVE  OneShape(id, s)'
  <2>1. id \in DOMAIN heard' => \A b \in heard'[id] : b.shape = s
    BY <1>6 DEF Quiet, OneShape
  <2>2. scan'.phase \in Resolved =>
          \A p \in DOMAIN scan'.books : scan'.books[p].id = id => Shape(scan'.books[p].contents) = s
    BY <1>6 DEF Quiet, OneShape
  <2>3. Has(file', id, s) /\ \A b \in backups' : Has(b.file, id, s)
    BY <1>3, <1>6 DEF Quiet
  <2>4. scan'.phase = "resolved" => Has(scan'.store, id, s)
    BY <1>6 DEF Quiet, OneShape
  <2> QED BY <2>1, <2>2, <2>3, <2>4 DEF OneShape
<1>7. ShapesInv'
  BY <1>6 DEF Quiet, IdentifierInv, ShapesInv
<1> QED BY <1>4, <1>5, <1>7 DEF IdentifierInv

\* An event that may happen is counted, and nothing else is.
LEMMA Spending ==
  ASSUME DrawnInv, NEW k \in 1..8, Spend(k)
  PROVE  /\ DOMAIN spent' = {"most", "used"} /\ spent'.used \in [1..8 -> Nat]
         /\ spent'.used[Scan] = IF k = Scan THEN spent.used[Scan] + 1 ELSE spent.used[Scan]
<1>1. PICK used : used = [spent.used EXCEPT ![k] = @ + 1] /\ spent' = [spent EXCEPT !.used = used]
  BY DEF Spend
<1>2. used \in [1..8 -> Nat]
      /\ used[Scan] = IF k = Scan THEN spent.used[Scan] + 1 ELSE spent.used[Scan]
  BY <1>1 DEF Scan, DrawnInv
<1>3. DOMAIN spent' = {"most", "used"} /\ spent'.used = used
  BY <1>1 DEF DrawnInv
<1> QED BY <1>2, <1>3

\* Whatever happens to the disk, to a place or an edit, and in a scan until its
\* books are resolved and when they are saved.
LEMMA AreQuiet ==
  ASSUME LibraryInv, DrawnInv, [Next]_vars, ~ResolveScan, ~Publish
  PROVE  Quiet
<1> DEFINE Same == /\ heard' = heard /\ doubtful' = doubtful
                   /\ file' = file /\ backups' = backups
           SameScan == scan' = scan
           Ends == scan' = NoScan
           Spent == /\ DOMAIN spent' = {"most", "used"} /\ spent'.used \in [1..8 -> Nat]
                    /\ spent'.used[Scan] = spent.used[Scan]
<1>0. /\ DOMAIN spent = {"most", "used"} /\ spent.used \in [1..8 -> Nat]
      /\ spent.used[Scan] \in Nat
  BY DEF DrawnInv, Scan
<1>1. spent' = spent => Spent
  BY <1>0
<1>2. ASSUME NEW k \in {Edit, Flip, Fault, Kill, Meta, Keep, Unread}, Spend(k)
      PROVE  Spent
  BY <1>2, Spending DEF Edit, Flip, Fault, Kill, Meta, Keep, Unread, Scan
<1>3. NoScan.phase = "idle"
  BY DEF NoScan
<1>4. ASSUME Same, SameScan \/ Ends, Spent
      PROVE  Quiet
  BY <1>0, <1>3, <1>4 DEF Quiet, Was, Resolved
<1>5. CASE Disk
  <2>1. CASE \E changed : EditDisk(changed)
    <3>1. Same /\ SameScan /\ Spend(Edit)
      BY <2>1 DEF EditDisk, store, ghosts
    <3> QED BY <1>2, <1>4, <3>1
  <2>2. CASE \E seen : \E broken \in BOOLEAN : Remount(seen, broken)
    <3>1. Same /\ SameScan /\ Spend(Flip)
      BY <2>2 DEF Remount, store, ghosts
    <3> QED BY <1>2, <1>4, <3>1
  <2>3. \/ \E changed : EditDisk(changed)
        \/ \E seen : \E broken \in BOOLEAN : Remount(seen, broken)
    <3>1. CASE \/ \E p \in Paths, rec \in Recordings : Place(p, rec)
               \/ \E p, q \in Paths : Move(p, q)
               \/ \E p \in Paths : Remove(p)
      BY <3>1, Zenon DEF Place, Move, Remove
    <3>2. CASE \/ \E p \in Paths : \E names \in SUBSET DOMAIN disk[p] : Rewrite(p, names)
               \/ \E p \in Paths : \E n, m \in DOMAIN disk[p] : Shuffle(p, n, m)
      BY <3>2, Zenon DEF Rewrite, Shuffle
    <3>3. CASE (\E seen \in SUBSET Paths : Remount(seen, FALSE)) \/ Remount(Paths, TRUE)
      BY <3>3
    <3> QED BY <1>5, <3>1, <3>2, <3>3 DEF Disk
  <2> QED BY <2>1, <2>2, <2>3
<1>6. CASE Walk
  <2>1. Same /\ Spend(Scan) /\ scan'.phase \in {"walked", "withheld"}
    BY <1>6 DEF Walk, store, ghosts
  <2>2. /\ DOMAIN spent' = {"most", "used"} /\ spent'.used \in [1..8 -> Nat]
        /\ spent'.used[Scan] = spent.used[Scan] + 1
    BY <2>1, Spending DEF Scan
  <2> QED BY <1>0, <2>1, <2>2 DEF Quiet, Was, Resolved
<1>7. CASE SaveObservation
  <2>1. /\ heard' = heard /\ doubtful' = doubtful /\ backups' = backups /\ Ends /\ Spent
        /\ file' = NoteShrink(file, scan.aliases, scan.failed)
    BY <1>1, <1>7 DEF SaveObservation
  <2>2. Was(file')
    <3>1. PICK shrink : file' = [file EXCEPT !.shrink = shrink]
      BY <2>1, Zenon DEF NoteShrink
    <3> QED BY <3>1 DEF Was, LibraryInv, StoreInv, FileShaped
  <2> QED BY <1>0, <1>3, <2>1, <2>2 DEF Quiet, Was, Resolved
<1>8. CASE ReadFingerprints \/ ReadTags \/ ReadFails
  <2>0. spent' = spent \/ Spend(Unread)
    BY <1>8, Zenon DEF ReadFingerprints, ReadTags, ReadFails, ReadsAllBut
  <2>1. Same /\ Spent /\ scan.phase = "walked"
    <3>1. Same /\ scan.phase = "walked"
      BY <1>8 DEF ReadFingerprints, ReadTags, ReadFails, store, ghosts
    <3>2. Spent
      BY <1>1, <1>2, <2>0
    <3> QED BY <3>1, <3>2
  <2>2. DOMAIN scan = {"phase", "read", "files", "contents", "lengths", "names"}
    BY <2>1 DEF LibraryInv, LockInv, NoScan, Resolved
  <2>3. scan'.phase \in {"walked", "idle"}
    <3>1. PICK read, files, contents, lengths :
            \/ scan' = NoScan
            \/ scan' = [scan EXCEPT !.read = read, !.files = files, !.contents = contents]
            \/ scan' = [scan EXCEPT !.read = read, !.lengths = lengths]
      BY <1>8, Zenon DEF ReadFingerprints, ReadTags, ReadFails
    <3> QED BY <1>3, <2>1, <2>2, <3>1
  <2> QED BY <1>0, <2>1, <2>3 DEF Quiet, Was, Resolved
<1>9. CASE SaveIdentities
  <2>1. /\ heard' = heard /\ doubtful' = doubtful /\ backups' = backups /\ Spent
        /\ scan.phase = "resolved" /\ file' = scan.store
        /\ scan' = [phase |-> "saved", books |-> scan.books, base |-> file.books]
    BY <1>1, <1>9 DEF SaveIdentities
  <2> QED BY <1>0, <2>1 DEF Quiet, Was, Resolved
<1>10. CASE SaveWorks
  <2>1. Same /\ Spent /\ scan.phase = "saved" /\ scan' = [scan EXCEPT !.phase = "recorded"]
    BY <1>1, <1>10 DEF SaveWorks, ghosts
  <2>2. scan'.phase = "recorded" /\ scan'.books = scan.books
    BY <2>1
  <2> QED BY <1>0, <2>1, <2>2 DEF Quiet, Was, Resolved
<1>11. CASE SaveFails
  <2>1. Same /\ Ends /\ Spend(Fault)
    BY <1>11 DEF SaveFails, store, ghosts
  <2> QED BY <1>2, <1>4, <2>1
<1>12. CASE Requests
  <2>1. ASSUME NEW id, StoreEdit(id)
        PROVE  Quiet
    <3>1. Same /\ SameScan /\ Spend(Meta)
      BY <2>1 DEF StoreEdit
    <3> QED BY <1>2, <1>4, <3>1
  <2>2. ASSUME NEW e, ShowEdit(e)
        PROVE  Quiet
    <3>1. Same /\ SameScan /\ spent' = spent
      BY <2>2 DEF ShowEdit, store, ghosts
    <3> QED BY <1>1, <1>4, <3>1
  <2>3. ASSUME NEW id, SavePlace(id)
        PROVE  Quiet
    <3>1. Same /\ SameScan /\ Spend(Keep)
      BY <2>3 DEF SavePlace, ghosts
    <3> QED BY <1>2, <1>4, <3>1
  <2>4. CASE Export
    <3>1. /\ heard' = heard /\ doubtful' = doubtful /\ file' = file /\ SameScan /\ Spend(Keep)
          /\ backups' = backups \cup {[db |-> db, file |-> file, seen |-> observed]}
      BY <2>4 DEF Export, ghosts
    <3>2. Spent
      BY <1>2, <3>1
    <3>3. \A b \in backups' : Was(b.file)
      BY <3>1 DEF Was
    <3> QED BY <1>0, <3>1, <3>2, <3>3 DEF Quiet, Was, Resolved
  <2>5. ASSUME NEW b, RestoreDatabase(b)
        PROVE  Quiet
    <3>1. Same /\ SameScan /\ Spend(Keep)
      BY <2>5 DEF RestoreDatabase
    <3> QED BY <1>2, <1>4, <3>1
  <2>6. CASE RestoreIdentities
    <3>1. /\ heard' = heard /\ doubtful' = doubtful /\ backups' = backups /\ SameScan
          /\ spent' = spent /\ file' = restore.backup.file /\ restore.phase = "committed"
      BY <2>6 DEF RestoreIdentities
    <3>2. restore.backup \in backups
      BY <3>1 DEF LibraryInv, StoreInv, NoRestore
    <3>3. Spent
      BY <1>1, <3>1
    <3> QED BY <1>0, <3>1, <3>2, <3>3 DEF Quiet, Was, Resolved
  <2>7. CASE RestoreFails
    <3>1. Same /\ SameScan /\ Spend(Fault)
      BY <2>7 DEF RestoreFails
    <3> QED BY <1>2, <1>4, <3>1
  <2> QED BY <1>12, <2>1, <2>2, <2>3, <2>4, <2>5, <2>6, <2>7, Zenon DEF Requests
<1>13. CASE Crash
  <2>1. Same /\ Ends /\ Spend(Kill)
    BY <1>13 DEF Crash, store
  <2> QED BY <1>2, <1>4, <2>1
<1>14. CASE UNCHANGED vars
  <2>1. Same /\ SameScan /\ spent' = spent
    BY <1>14 DEF vars
  <2> QED BY <1>1, <1>4, <2>1
<1> HIDE DEF Same, SameScan, Ends, Spent
<1> QED BY <1>5, <1>6, <1>7, <1>8, <1>9, <1>10, <1>11, <1>12, <1>13, <1>14, Zenon DEF Next, Scanner

\* The disk has nothing but directories, and no file is hidden by a change of it.
LEMMA DirectoriesStay ==
  ASSUME DiskInv, [Next]_vars
  PROVE  DiskInv'
<1>1. CASE UNCHANGED disk
  BY <1>1 DEF DiskInv
<1>2. ASSUME NEW p \in Paths, NEW rec \in Recordings, Place(p, rec)
      PROVE  DiskInv'
  <2>1. PICK book : book = FreshBook(rec)
    OBVIOUS
  <2>2. IsDirectory(book)
    <3>1. book = [n \in Tracks[rec] |-> [rec |-> rec, trk |-> n, gen |-> 0]]
      BY <2>1 DEF FreshBook
    <3> QED BY <3>1, ScanAssumption DEF IsDirectory
  <2>3. disk' = [disk EXCEPT ![p] = book]
    BY <1>2, <2>1 DEF Place, EditDisk
  <2> QED BY <2>2, <2>3 DEF DiskInv
<1>3. IsDirectory(NoFiles)
  <2>1. NoFiles = [n \in DOMAIN NoFiles |-> NoFiles[n]] /\ DOMAIN NoFiles = {}
    BY DEF NoFiles
  <2> QED BY <2>1, FS_EmptySet DEF IsDirectory
<1>4. ASSUME NEW p \in Paths, NEW q \in Paths, Move(p, q)
      PROVE  DiskInv'
  <2>1. PICK files : files = disk[p]
    OBVIOUS
  <2>2. IsDirectory(files)
    BY <2>1 DEF DiskInv
  <2>3. disk' = [disk EXCEPT ![q] = files, ![p] = NoFiles]
    BY <1>4, <2>1 DEF Move, EditDisk
  <2> QED BY <1>3, <2>2, <2>3 DEF DiskInv
<1>5. ASSUME NEW p \in Paths, Remove(p)
      PROVE  DiskInv'
  <2>1. disk' = [disk EXCEPT ![p] = NoFiles]
    BY <1>5 DEF Remove, EditDisk
  <2> QED BY <1>3, <2>1 DEF DiskInv
<1>6. ASSUME NEW p \in Paths, NEW names, Rewrite(p, names)
      PROVE  DiskInv'
  <2>1. PICK old : old = disk[p]
    OBVIOUS
  <2>2. IsDirectory(old)
    BY <2>1 DEF DiskInv
  <2>3. PICK new : new = [n \in DOMAIN old |->
                            IF n \in names THEN [old[n] EXCEPT !.gen = @ + 1] ELSE old[n]]
    OBVIOUS
  <2>4. disk' = [disk EXCEPT ![p] = new]
    BY <1>6, <2>1, <2>3 DEF Rewrite, EditDisk
  <2>5. DOMAIN new = DOMAIN old /\ new = [n \in DOMAIN new |-> new[n]]
    BY <2>3
  <2>6. ASSUME NEW n \in DOMAIN old
        PROVE  DOMAIN new[n] = {"rec", "trk", "gen"} /\ new[n].trk = old[n].trk
    BY <2>2, <2>3 DEF IsDirectory
  <2>7. IsDirectory(new)
    BY <2>2, <2>5, <2>6 DEF IsDirectory
  <2> QED BY <2>4, <2>7 DEF DiskInv
<1>7. ASSUME NEW p \in Paths, NEW n, NEW m, Shuffle(p, n, m)
      PROVE  DiskInv'
  <2>1. PICK old : old = disk[p]
    OBVIOUS
  <2>2. IsDirectory(old)
    BY <2>1 DEF DiskInv
  <2>3. {n, m} \subseteq DOMAIN old \ IgnoredNames
    BY <1>7, <2>1 DEF Shuffle, Audio
  <2>4. PICK new : new = [old EXCEPT ![n] = old[m], ![m] = old[n]]
    OBVIOUS
  <2>5. disk' = [disk EXCEPT ![p][n] = disk[p][m], ![p][m] = disk[p][n]]
    BY <1>7 DEF Shuffle, EditDisk
  <2>6. disk' = [disk EXCEPT ![p] = new]
    BY <2>1, <2>4, <2>5 DEF DiskInv
  <2>7. DOMAIN new = DOMAIN old /\ new = [k \in DOMAIN new |-> new[k]]
    BY <2>2, <2>4 DEF IsDirectory
  <2>8. \A k \in DOMAIN old : new[k] = IF k = m THEN old[n] ELSE IF k = n THEN old[m] ELSE old[k]
    BY <2>3, <2>4
  <2>9. IsDirectory(new)
    <3>1. \A k \in DOMAIN old : /\ DOMAIN new[k] = {"rec", "trk", "gen"}
                                /\ k \in IgnoredNames <=> new[k].trk \in IgnoredNames
      BY <2>2, <2>3, <2>8 DEF IsDirectory
    <3> QED BY <2>2, <2>7, <3>1 DEF IsDirectory
  <2> QED BY <2>6, <2>9 DEF DiskInv
<1>8. CASE Disk
  <2>1. ASSUME NEW seen, NEW broken, Remount(seen, broken)
        PROVE  UNCHANGED disk
    BY <2>1 DEF Remount
  <2> QED BY <1>1, <1>2, <1>4, <1>5, <1>6, <1>7, <1>8, <2>1, Zenon DEF Disk
<1>9. CASE Scanner
  <2>1. UNCHANGED disk
    BY <1>9, Zenon DEF Scanner, Walk, SaveObservation, ReadFingerprints, ReadTags, ReadFails,
          ResolveScan, SaveIdentities, SaveWorks, SaveFails, Publish
  <2> QED BY <1>1, <2>1
<1>10. CASE Requests
  <2>1. UNCHANGED disk
    BY <1>10, Zenon DEF Requests, StoreEdit, ShowEdit, SavePlace, Export, RestoreDatabase,
          RestoreIdentities, RestoreFails
  <2> QED BY <1>1, <2>1
<1>11. CASE Crash
  BY <1>1, <1>11 DEF Crash
<1>12. CASE UNCHANGED vars
  BY <1>1, <1>12 DEF vars
<1> QED BY <1>8, <1>9, <1>10, <1>11, <1>12 DEF Next

\* What a walk finds is audio, and so is what is read of it.
LEMMA WalksAreAudio ==
  ASSUME LibraryInv, DiskInv, ReadInv, [Next]_vars
  PROVE  ReadInv'
<1>1. CASE Walk
  <2>1. CASE scan'.phase = "walked"
    <3>1. /\ scan'.names = [p \in Visible |-> DOMAIN Audio(disk[p])] /\ scan'.read = {}
      BY <1>1, <2>1 DEF Walk
    <3>2. ASSUME NEW p \in Visible
          PROVE  LET names == DOMAIN Audio(disk[p])
                 IN  IsFiniteSet(names) /\ names # {} /\ names \cap IgnoredNames = {}
      <4>1. IsDirectory(disk[p]) /\ DOMAIN Audio(disk[p]) # {}
        BY <3>2 DEF Visible, Books, DiskInv
      <4>2. DOMAIN Audio(disk[p]) = DOMAIN disk[p] \ IgnoredNames
        BY DEF Audio
      <4> QED BY <4>1, <4>2, FS_Subset DEF IsDirectory
    <3> QED BY <3>1, <3>2 DEF ReadInv
  <2> QED BY <2>1 DEF ReadInv
<1>2. CASE ReadFingerprints \/ ReadTags
  <2>1. /\ DOMAIN scan = {"phase", "read", "files", "contents", "lengths", "names"}
        /\ scan.phase = "walked" /\ DOMAIN scan.names \subseteq Paths
        /\ "files" \in scan.read => DOMAIN scan.files = DOMAIN scan.names
    <3>1. scan.phase = "walked"
      BY <1>2, Zenon DEF ReadFingerprints, ReadTags
    <3> QED BY <3>1, WalkedScan
  <2>2. /\ \A p \in DOMAIN scan.names :
             /\ IsFiniteSet(scan.names[p]) /\ scan.names[p] # {}
             /\ scan.names[p] \cap IgnoredNames = {}
        /\ "files" \in scan.read =>
             \A p \in DOMAIN scan.files : /\ Plain(scan.contents[p])
                                           /\ DOMAIN scan.files[p] = DOMAIN scan.contents[p]
    BY <2>1 DEF ReadInv
  <2>3. CASE ReadFingerprints
    <3>1. PICK contents : contents = Contents
      OBVIOUS
    <3>2. PICK unread, files :
            /\ files = DigestsBut(unread)
            /\ scan' = [scan EXCEPT !.read = @ \cup {"files"}, !.files = files,
                                    !.contents = contents]
      BY <2>3, <3>1, Zenon DEF ReadFingerprints
    <3>3. DOMAIN files = DOMAIN scan.names
      BY <3>2 DEF DigestsBut
    <3>4. ASSUME NEW p \in DOMAIN scan.names
          PROVE  Plain(contents[p]) /\ DOMAIN files[p] = DOMAIN contents[p]
      <4>1. PICK book, read : book = contents[p] /\ read = files[p]
        OBVIOUS
      <4>2. book = [n \in scan.names[p] |-> disk[p][n]]
        BY <3>1, <4>1 DEF Contents
      <4>3. IsDirectory(disk[p]) /\ scan.names[p] \subseteq DOMAIN disk[p]
        BY <2>1, <2>3, <3>4 DEF DiskInv, ReadFingerprints, Readable
      <4>4. \A n \in scan.names[p] : disk[p][n].trk \notin IgnoredNames
        BY <2>2, <3>4, <4>3 DEF IsDirectory
      <4>5. DOMAIN book = scan.names[p] /\ \A n \in DOMAIN book : book[n].trk \notin IgnoredNames
        BY <4>2, <4>4
      <4>6. DOMAIN read = scan.names[p]
        BY <3>2, <4>1 DEF DigestsBut
      <4> QED BY <2>2, <3>4, <4>1, <4>5, <4>6 DEF Plain
    <3>5. scan'.names = scan.names /\ scan'.files = files /\ scan'.contents = contents
      BY <2>1, <3>2
    <3> QED BY <2>2, <3>3, <3>4, <3>5 DEF ReadInv
  <2>4. CASE ReadTags
    <3>1. PICK lengths : scan' = [scan EXCEPT !.read = @ \cup {"lengths"}, !.lengths = lengths]
      BY <2>4, Zenon DEF ReadTags
    <3>2. /\ scan'.names = scan.names /\ scan'.files = scan.files
          /\ scan'.contents = scan.contents
          /\ "files" \in scan'.read => "files" \in scan.read
      BY <2>1, <3>1
    <3> QED BY <2>2, <3>2 DEF ReadInv
  <2> QED BY <1>2, <2>3, <2>4
<1>3. CASE scan' = scan \/ scan'.phase # "walked"
  BY <1>3 DEF ReadInv
<1>4. CASE SaveObservation \/ ReadFails \/ SaveFails \/ Publish \/ Crash
  BY <1>3, <1>4 DEF SaveObservation, ReadFails, SaveFails, Publish, Crash, NoScan
<1>5. CASE ResolveScan \/ SaveIdentities
  <2>1. PICK books, base, after :
          \/ scan' = [phase |-> "resolved", store |-> after, books |-> books]
          \/ scan' = [phase |-> "saved", books |-> books, base |-> base]
    BY <1>5, Zenon DEF ResolveScan, SaveIdentities
  <2> QED BY <1>3, <2>1
<1>6. CASE SaveWorks
  BY <1>3, <1>6 DEF SaveWorks
<1>7. CASE Disk
  <2>1. ASSUME NEW changed, EditDisk(changed)
        PROVE  scan' = scan
    BY <2>1 DEF EditDisk
  <2>2. ASSUME NEW seen, NEW broken, Remount(seen, broken)
        PROVE  scan' = scan
    BY <2>2 DEF Remount
  <2>3. scan' = scan
    BY <1>7, <2>1, <2>2, Zenon DEF Disk, Place, Move, Remove, Rewrite, Shuffle
  <2> QED BY <1>3, <2>3
<1>8. CASE Requests
  <2>1. scan' = scan
    BY <1>8, Zenon DEF Requests, StoreEdit, ShowEdit, SavePlace, Export, RestoreDatabase,
          RestoreIdentities, RestoreFails
  <2> QED BY <1>3, <2>1
<1>9. CASE UNCHANGED vars
  BY <1>3, <1>9 DEF vars
<1> QED BY <1>1, <1>2, <1>4, <1>5, <1>6, <1>7, <1>8, <1>9, Zenon DEF Next, Scanner

\* Resolving keeps the shape of what is known, and draws the rest anew.
LEMMA ResolveGives ==
  ASSUME LibraryInv, ReadInv, IdentifierInv, ResolveScan
  PROVE  IdentifierInv'
<1>1. PICK draw : draw = spent.used[Scan]
  OBVIOUS
<1>2. PICK groups : groups = GroupsRead
  OBVIOUS
<1>3. PICK result : result = Resolve(file, groups, draw)
  OBVIOUS
<1>4. PICK books : books = [p \in DOMAIN scan.files |->
                             [id |-> result.ids[p], tracks |-> result.tracks[p],
                              files |-> scan.files[p], contents |-> scan.contents[p],
                              title |-> Title(db.overrides, result.ids[p])]]
  OBVIOUS
<1>5. /\ scan.phase = "walked" /\ "files" \in scan.read
      /\ scan' = [phase |-> "resolved", store |-> result.store, books |-> books]
      /\ doubtful' = doubtful \cup
                     {result.ids[p] : p \in {q \in DOMAIN scan.files :
                        \/ scan.files[q] # scan.contents[q]
                        \/ result.store.books[result.ids[q]].length
                             # TrueLength(scan.contents[q])}}
      /\ file' = file /\ backups' = backups /\ spent' = spent /\ heard' = heard
  BY <1>1, <1>2, <1>3, <1>4 DEF ResolveScan, store
<1>6. FileShaped(file) /\ file.counter \in Nat /\ draw \in Nat
  BY <1>1 DEF LibraryInv, StoreInv, IdentifierInv, CounterInv, DrawnInv, Scan
<1>7. /\ DOMAIN groups = DOMAIN scan.files
      /\ \A p \in DOMAIN groups :
           /\ groups[p].files = scan.files[p]
           /\ scan.files[p] = scan.contents[p] => GroupOf(groups[p])
  BY <1>2, <1>5 DEF GroupsRead, ReadInv, GroupOf
<1>8. /\ \A id \in DOMAIN heard : id[1] < draw
      /\ \A id \in DOMAIN file.books : id[1] < draw
      /\ \A b \in backups : \A id \in DOMAIN b.file.books : id[1] < draw
  BY <1>1, <1>5 DEF IdentifierInv, DrawnInv, Drawn
<1>9. \A p : <<draw, p>>[1] = draw /\ ~(draw < draw)
  BY <1>6
<1>10. \A p \in DOMAIN groups : <<draw, p>> \notin DOMAIN file.books
  BY <1>8, <1>9
<1>11. /\ \A p \in DOMAIN groups : result.ids[p] \notin DOMAIN file.books => result.ids[p] = <<draw, p>>
       /\ DOMAIN result.store.books = DOMAIN file.books \cup {result.ids[p] : p \in DOMAIN groups}
       /\ result.store.counter = file.counter + 1
  BY <1>3, <1>6, <1>10, ResolveMatches
<1>12. /\ DOMAIN books = DOMAIN groups
       /\ \A p \in DOMAIN groups : /\ books[p].id = result.ids[p]
                                    /\ books[p].contents = scan.contents[p]
  BY <1>4, <1>7
<1>13. scan'.phase = "resolved" /\ scan'.store = result.store /\ scan'.books = books
  BY <1>5
<1>14. CounterInv'
  BY <1>5, <1>6, <1>11, <1>13 DEF CounterInv, IdentifierInv
<1>15. DrawnInv'
  <2>1. ASSUME NEW id, Drawn(id) \/ \E p : id = <<draw, p>>
        PROVE  Drawn(id)'
    <3>1. CASE Drawn(id)
      BY <1>5, <1>13, <3>1 DEF Drawn
    <3>2. CASE \E p : id = <<draw, p>>
      <4>1. id[1] = draw /\ draw <= draw
        BY <1>6, <3>2
      <4> QED BY <1>1, <1>5, <1>6, <1>13, <4>1 DEF Drawn
    <3> QED BY <2>1, <3>1, <3>2
  <2>2. \A p \in DOMAIN groups : Drawn(result.ids[p])'
    BY <1>11, <2>1 DEF IdentifierInv, DrawnInv
  <2>3. \A id \in DOMAIN heard' : Drawn(id)'
    BY <1>5, <2>1 DEF IdentifierInv, DrawnInv
  <2>4. \A id \in DOMAIN file'.books : Drawn(id)'
    BY <1>5, <2>1 DEF IdentifierInv, DrawnInv
  <2>5. \A b \in backups' : \A id \in DOMAIN b.file.books : Drawn(id)'
    BY <1>5, <2>1 DEF IdentifierInv, DrawnInv
  <2>6. \A id \in IdsIn(scan'.books) : Drawn(id)'
    BY <1>12, <1>13, <2>2 DEF IdsIn
  <2>7. \A id \in DOMAIN scan'.store.books : Drawn(id)'
    BY <1>5, <1>11, <1>13, <2>2, <2>4
  <2>8. DOMAIN spent' = {"most", "used"} /\ spent'.used \in [1..8 -> Nat]
    BY <1>5 DEF IdentifierInv, DrawnInv
  <2> QED BY <2>3, <2>4, <2>5, <2>6, <2>7, <2>8 DEF DrawnInv, IdsIn
<1>16. ASSUME NEW id, id \notin doubtful'
       PROVE  \E s : OneShape(id, s)'
  <2>1. id \notin doubtful
    BY <1>5, <1>16
  <2>2. \A p \in DOMAIN groups : result.ids[p] = id =>
          /\ scan.contents[p] = groups[p].files /\ GroupOf(groups[p])
          /\ result.store.books[id].length = TrueLength(groups[p].files)
    BY <1>5, <1>7, <1>16
  <2>3. PICK s : OneShape(id, s)
    BY <2>1 DEF IdentifierInv, ShapesInv
  <2>4. ASSUME NEW t, Has(result.store, id, t), Has(file, id, t), \A b \in backups : Has(b.file, id, t),
               id \in DOMAIN heard => \A b \in heard[id] : b.shape = t,
               \A p \in DOMAIN groups : result.ids[p] = id => Shape(groups[p].files) = t
        PROVE  OneShape(id, t)'
    <3>1. \A p \in DOMAIN books : books[p].id = id => Shape(books[p].contents) = t
      BY <1>12, <2>2, <2>4
    <3>2. (scan.phase \in Resolved =>
            \A p \in DOMAIN scan.books : scan.books[p].id = id => Shape(scan.books[p].contents) = t)'
      BY <1>13, <3>1
    <3>3. (id \in DOMAIN heard => \A b \in heard[id] : b.shape = t)'
      BY <1>5, <2>4
    <3>4. (Has(file, id, t) /\ \A b \in backups : Has(b.file, id, t))'
      BY <1>5, <2>4
    <3>5. (scan.phase = "resolved" => Has(scan.store, id, t))'
      BY <1>13, <2>4
    <3> QED BY <3>2, <3>3, <3>4, <3>5 DEF OneShape
  <2>5. CASE id \in DOMAIN file.books
    <3>1. Has(file, id, s)
      BY <2>3 DEF OneShape
    <3>2. /\ Has(result.store, id, s)
          /\ \A p \in DOMAIN groups : result.ids[p] = id => Shape(groups[p].files) = s
      BY <1>3, <1>6, <1>7, <1>10, <2>2, <2>5, <3>1, ResolveKeepsShape
    <3> QED BY <2>3, <2>4, <3>2 DEF OneShape
  <2>6. CASE id \notin DOMAIN file.books /\ \A p \in DOMAIN groups : result.ids[p] # id
    <3>1. Has(result.store, id, s)
      BY <1>11, <2>6 DEF Has
    <3> QED BY <2>3, <2>4, <2>6, <3>1 DEF OneShape
  <2>7. CASE id \notin DOMAIN file.books /\ \E q \in DOMAIN groups : result.ids[q] = id
    <3>1. PICK q \in DOMAIN groups : result.ids[q] = id
      BY <2>7
    <3>2. PICK t : t = Shape(groups[q].files)
      OBVIOUS
    <3>3. /\ id = <<draw, q>> /\ Has(result.store, id, t)
          /\ \A p \in DOMAIN groups : result.ids[p] = id => p = q
      BY <1>3, <1>6, <1>7, <1>10, <2>2, <2>7, <3>1, <3>2, ResolveGivesShape
    <3>4. id \notin DOMAIN heard /\ id \notin DOMAIN file.books
          /\ \A b \in backups : id \notin DOMAIN b.file.books
      BY <1>8, <1>9, <3>3
    <3>5. Has(file, id, t) /\ \A b \in backups : Has(b.file, id, t)
      BY <3>4 DEF Has
    <3> QED BY <2>4, <3>2, <3>3, <3>4, <3>5
  <2> QED BY <2>5, <2>6, <2>7
<1>17. ShapesInv'
  BY <1>16 DEF ShapesInv
<1> QED BY <1>14, <1>15, <1>17 DEF IdentifierInv

\* What is published is what was resolved.
LEMMA PublishGives ==
  ASSUME IdentifierInv, Publish
  PROVE  IdentifierInv'
<1>1. PICK fresh : fresh = {scan.books[p].id : p \in DOMAIN scan.books}
  OBVIOUS
<1>2. /\ scan.phase = "recorded" /\ scan' = NoScan
      /\ heard' = [id \in DOMAIN heard \cup fresh |->
                     (IF id \in DOMAIN heard THEN heard[id] ELSE {})
                     \cup {Description(scan.books[p].contents) :
                              p \in {q \in DOMAIN scan.books : scan.books[q].id = id}}]
      /\ doubtful' = doubtful /\ file' = file /\ backups' = backups /\ spent' = spent
  BY <1>1 DEF Publish, store
<1>3. scan.phase \in Resolved /\ scan'.phase = "idle"
  BY <1>2 DEF Resolved, NoScan
<1>4. ASSUME NEW id, Drawn(id)
      PROVE  Drawn(id)'
  BY <1>2, <1>3, <1>4 DEF Drawn
<1>5. DrawnInv'
  <2>1. \A id \in DOMAIN heard' : Drawn(id)'
    <3>1. \A id \in fresh : Drawn(id)
      BY <1>1, <1>3 DEF IdentifierInv, DrawnInv, IdsIn
    <3> QED BY <1>2, <1>4, <3>1 DEF IdentifierInv, DrawnInv
  <2>2. \A id \in DOMAIN file'.books : Drawn(id)'
    BY <1>2, <1>4 DEF IdentifierInv, DrawnInv
  <2>3. \A b \in backups' : \A id \in DOMAIN b.file.books : Drawn(id)'
    BY <1>2, <1>4 DEF IdentifierInv, DrawnInv
  <2>4. DOMAIN spent' = {"most", "used"} /\ spent'.used \in [1..8 -> Nat]
    BY <1>2 DEF IdentifierInv, DrawnInv
  <2> QED BY <1>3, <2>1, <2>2, <2>3, <2>4 DEF DrawnInv, Resolved
<1>6. CounterInv'
  BY <1>2, <1>3 DEF IdentifierInv, CounterInv
<1>7. ASSUME NEW id, NEW s, OneShape(id, s)
      PROVE  OneShape(id, s)'
  <2>1. ASSUME id \in DOMAIN heard', NEW b \in heard'[id]
        PROVE  b.shape = s
    <3>1. CASE id \in DOMAIN heard /\ b \in heard[id]
      BY <1>7, <3>1 DEF OneShape
    <3>2. CASE \E p \in DOMAIN scan.books :
                 scan.books[p].id = id /\ b = Description(scan.books[p].contents)
      <4>1. PICK p \in DOMAIN scan.books :
              scan.books[p].id = id /\ b = Description(scan.books[p].contents)
        BY <3>2
      <4>2. Shape(scan.books[p].contents) = s
        BY <1>3, <1>7, <4>1 DEF OneShape
      <4> QED BY <4>1, <4>2 DEF Description
    <3> QED BY <1>2, <2>1, <3>1, <3>2
  <2>2. Has(file', id, s) /\ \A b \in backups' : Has(b.file, id, s)
    BY <1>2, <1>7 DEF OneShape
  <2> QED BY <1>3, <2>1, <2>2 DEF OneShape, Resolved
<1>8. ShapesInv'
  BY <1>2, <1>7 DEF IdentifierInv, ShapesInv
<1> QED BY <1>5, <1>6, <1>8 DEF IdentifierInv

\* The beginning: each book of an older build has the shape of its audio.
LEMMA IdentitiesBegin == Init => IdentityInv
<1> SUFFICES ASSUME Init
             PROVE  IdentityInv
  OBVIOUS
<1>1. PICK old \in Legacy :
        /\ disk = old.disk /\ file = old.file
        /\ heard = [id \in DOMAIN old.books |-> {Description(Audio(old.books[id]))}]
        /\ \E most \in Bounds : spent = [most |-> most, used |-> [k \in 1..8 |-> 0]]
  BY Zenon DEF Init
<1>2. scan.phase = "idle" /\ backups = {}
  BY DEF Init, NoScan
<1>3. DOMAIN spent = {"most", "used"} /\ spent.used = [k \in 1..8 |-> 0]
  BY <1>1
<1>4. /\ DOMAIN old.disk = Paths /\ \A p \in Paths : IsDirectory(old.disk[p])
      /\ DOMAIN old.books = DOMAIN old.file.books
      /\ \A id \in DOMAIN old.books : id[1] = 0
      /\ old.file = [NoFile EXCEPT !.books = old.file.books, !.manifest = old.file.manifest]
  BY ScanAssumption
<1>5. DiskInv /\ ReadInv
  BY <1>1, <1>2, <1>4 DEF DiskInv, ReadInv
<1>6. CounterInv
  <2>1. PICK books, manifest : old.file = [NoFile EXCEPT !.books = books, !.manifest = manifest]
    BY <1>4, Zenon
  <2> QED BY <1>1, <1>2, <2>1 DEF CounterInv, NoFile
<1>7. DrawnInv
  <2>1. spent.used \in [1..8 -> Nat] /\ spent.used[Scan] = 0
    BY <1>3 DEF Scan
  <2>2. \A id \in DOMAIN old.books : Drawn(id)
    BY <1>2, <1>4, <2>1 DEF Drawn
  <2> QED BY <1>1, <1>2, <1>3, <1>4, <2>1, <2>2 DEF DrawnInv, Resolved
<1>8. ASSUME NEW id
      PROVE  OneShape(id, Shape(Audio(old.books[id])))
  <2>1. PICK s : s = Shape(Audio(old.books[id]))
    OBVIOUS
  <2>2. id \in DOMAIN heard => \A b \in heard[id] : b.shape = s
    BY <1>1, <2>1 DEF Description
  <2>3. ASSUME id \in DOMAIN file.books
        PROVE  IdentityShaped(file.books[id]) /\ file.books[id].seen = 0
               /\ Inherited(file.books[id], id, s)
    <3>1. Inherited(file.books[id], id, s)
      BY <1>1, <1>4, <2>1, <2>3 DEF Inherited
    <3> QED BY <3>1, InheritedIs
  <2>4. Has(file, id, s)
    BY <2>3 DEF Has
  <2> QED BY <1>2, <2>1, <2>2, <2>4 DEF OneShape, Resolved
<1>9. ShapesInv
  BY <1>8 DEF ShapesInv
<1> QED BY <1>5, <1>6, <1>7, <1>9 DEF IdentityInv

\* Every step keeps one shape for every identifier.
LEMMA IdentitySteps ==
  ASSUME LibraryInv, IdentityInv, [Next]_vars
  PROVE  IdentityInv'
<1>1. DiskInv' /\ ReadInv'
  BY DirectoriesStay, WalksAreAudio DEF IdentityInv
<1>2. IdentifierInv
  BY DEF IdentityInv, IdentifierInv
<1>3. IdentifierInv'
  <2>1. CASE ResolveScan
    BY <1>2, <2>1, ResolveGives DEF IdentityInv
  <2>2. CASE Publish
    BY <1>2, <2>2, PublishGives
  <2>3. CASE ~ResolveScan /\ ~Publish
    BY <1>2, <2>3, AreQuiet, QuietSteps DEF IdentityInv
  <2> QED BY <2>1, <2>2, <2>3
<1> QED BY <1>1, <1>3 DEF IdentityInv, IdentifierInv

\* All that an identifier was given to, in the published books, in a scan, in the
\* identities and in every backup of them, has one shape, unless a length or a
\* digest was stored that was not its book's.
THEOREM IdentitiesAreSound == Spec => []IdentityInv
<1> QED BY LibraryIsSound, IdentitiesBegin, IdentitySteps, PTL DEF Spec

\* An identifier never passes to another recording, unless of the same shape,
\* however books are moved, replaced and rewritten between and during scans.
THEOREM RecordingsKeepTheirIds == Spec => []IdsKeepTheirRecording
<1>1. IdentityInv => IdsKeepTheirRecording
  <2> SUFFICES ASSUME IdentityInv, NEW id \in DOMAIN heard \ doubtful,
                      NEW b \in heard[id], NEW c \in heard[id]
               PROVE  b.recordings = c.recordings \/ b.shape = c.shape
    BY DEF IdsKeepTheirRecording
  <2>1. PICK s : OneShape(id, s)
    BY DEF IdentityInv, ShapesInv
  <2> QED BY <2>1 DEF OneShape
<1> QED BY <1>1, IdentitiesAreSound, PTL

--------------------------------------------------------------------------------
(* Which claims a scan makes.                                                  *)

\* Nothing is claimed twice, and nothing claims twice.
OneToOne(claims) == \A c, d \in claims : Conflict(c, d) => c = d

\* A pass keeps it so.
LEMMA ClaimsApart ==
  ASSUME NEW claims, OneToOne(claims), NEW edges
  PROVE  OneToOne(Claim(claims, edges))
<1> DEFINE open == {e \in edges : \A c \in claims : ~Conflict(c, e)}
           added == {e \in open : \A d \in open : Conflict(d, e) => d = e}
<1>1. Claim(claims, edges) = claims \cup added
  BY DEF Claim
<1>2. ASSUME NEW c \in claims \cup added, NEW d \in claims \cup added, Conflict(c, d)
      PROVE  c = d
  <2>1. Conflict(d, c)
    BY <1>2 DEF Conflict
  <2> QED BY <1>2, <2>1 DEF OneToOne
<1> QED BY <1>1, <1>2, Zenon DEF OneToOne

\* A pass claims what nothing else competes with, unless it is claimed already.
LEMMA Unopposed ==
  ASSUME NEW claims, NEW edges, NEW e \in edges,
         \A c \in claims \cup edges : Conflict(c, e) => c = e
  PROVE  e \in Claim(claims, edges)
BY DEF Claim, Conflict

\* What is claimed is told by what claims it.
LEMMA ClaimIsTold ==
  ASSUME NEW claims, OneToOne(claims), NEW c \in claims
  PROVE  c[1] \in Placed(claims) /\ ClaimedBy(claims, c[1]) = c[2]
<1>1. PICK d : d \in claims /\ d[1] = c[1] /\ d = (CHOOSE e \in claims : e[1] = c[1])
  OBVIOUS
<1>2. d = c
  BY <1>1 DEF OneToOne, Conflict
<1> QED BY <1>1, <1>2 DEF Placed, ClaimedBy

\* The passes over the books, one by one: the pairs each chooses among, and the
\* claims after it.
Passes(f, groups, current, here, one, steady, known, second, moved, third, remux) ==
  /\ current = {e \in Pairs(DOMAIN groups, DOMAIN f.books) :
                  f.books[e[2]].fp = groups[e[1]].fp}
  /\ here = {e \in current : PathMatches(f.books[e[2]], e[1])}
  /\ one = Claim({}, here) /\ steady = Claim(one, current)
  /\ known = {e \in RemembersContents(f.books, groups, steady) :
                PathMatches(f.books[e[2]], e[1])}
  /\ second = Claim(steady, known)
  /\ moved = RemembersContents(f.books, groups, second)
  /\ third = Claim(second, moved)
  /\ remux = {e \in PathOnly(f.books, groups, third) :
                /\ RecentlySeen(f.books[e[2]], f.counter + 1)
                /\ LayoutMatches(f.books[e[2]], groups[e[1]])}

\* So the first five choose.
LEMMA PassesAre ==
  ASSUME NEW f, NEW groups
  PROVE  \E current, here, one, steady, known, second, moved, third, remux :
           /\ Passes(f, groups, current, here, one, steady, known, second, moved, third, remux)
           /\ SteadyClaims(f.books, groups) = steady
           /\ FirstFivePasses(f, groups) = Claim(third, remux)
<1> DEFINE current == {e \in Pairs(DOMAIN groups, DOMAIN f.books) :
                         f.books[e[2]].fp = groups[e[1]].fp}
           here == {e \in current : PathMatches(f.books[e[2]], e[1])}
           one == Claim({}, here)
           steady == Claim(one, current)
           known == {e \in RemembersContents(f.books, groups, steady) :
                       PathMatches(f.books[e[2]], e[1])}
           second == Claim(steady, known)
           moved == RemembersContents(f.books, groups, second)
           third == Claim(second, moved)
           remux == {e \in PathOnly(f.books, groups, third) :
                       /\ RecentlySeen(f.books[e[2]], f.counter + 1)
                       /\ LayoutMatches(f.books[e[2]], groups[e[1]])}
<1>1. Passes(f, groups, current, here, one, steady, known, second, moved, third, remux)
  BY DEF Passes
<1>2. SteadyClaims(f.books, groups) = steady
  BY DEF SteadyClaims
<1>3. /\ RememberedPathClaims(f.books, groups, steady) = second
      /\ RememberedClaims(f.books, groups, second) = third
      /\ RemuxClaims(f.books, groups, third, f.counter + 1) = Claim(third, remux)
  BY DEF RememberedPathClaims, RememberedClaims, RemuxClaims
<1> HIDE DEF current, here, one, steady, known, second, moved, third, remux
<1>4. FirstFivePasses(f, groups) = Claim(third, remux)
  BY <1>2, <1>3 DEF FirstFivePasses
<1> WITNESS current, here, one, steady, known, second, moved, third, remux
<1> QED BY <1>1, <1>2, <1>4

\* A book is claimed once, and for one directory.
LEMMA PassesApart ==
  ASSUME NEW f, NEW groups
  PROVE  OneToOne(FirstFivePasses(f, groups)) /\ OneToOne(BookClaims(f, groups))
<1>1. PICK current, here, one, steady, known, second, moved, third, remux :
        /\ Passes(f, groups, current, here, one, steady, known, second, moved, third, remux)
        /\ FirstFivePasses(f, groups) = Claim(third, remux)
  BY PassesAre
<1>0. /\ one = Claim({}, here) /\ steady = Claim(one, current)
      /\ second = Claim(steady, known) /\ third = Claim(second, moved)
      /\ FirstFivePasses(f, groups) = Claim(third, remux)
  BY <1>1, Zenon DEF Passes
<1>2. OneToOne({})
  BY DEF OneToOne
<1>3. OneToOne(one)
  BY <1>0, <1>2, ClaimsApart
<1>4. OneToOne(steady)
  BY <1>0, <1>3, ClaimsApart
<1>5. OneToOne(second)
  BY <1>0, <1>4, ClaimsApart
<1>6. OneToOne(third)
  BY <1>0, <1>5, ClaimsApart
<1>7. OneToOne(FirstFivePasses(f, groups))
  BY <1>0, <1>6, ClaimsApart
<1>8. \E edges : BookClaims(f, groups) = Claim(FirstFivePasses(f, groups), edges)
  BY DEF BookClaims, SidecarClaims
<1> QED BY <1>7, <1>8, ClaimsApart

\* So it is with the files of a book and the tracks of its identity.
LEMMA TracksApart ==
  ASSUME NEW tracks, NEW path, NEW files
  PROVE  /\ OneToOne(TrackClaims(tracks, path, files))
         /\ TrackClaims(tracks, path, files) \subseteq Pairs(DOMAIN files, DOMAIN tracks)
<1> DEFINE edges == Pairs(DOMAIN files, DOMAIN tracks)
<1>1. PICK first, second, third :
        /\ first \subseteq edges /\ second \subseteq edges /\ third \subseteq edges
        /\ TrackClaims(tracks, path, files) = Claim(Claim(Claim({}, first), second), third)
  BY DEF TrackClaims
<1>2. PICK one : one = Claim({}, first)
  OBVIOUS
<1>3. PICK two : two = Claim(one, second)
  OBVIOUS
<1>4. OneToOne({})
  BY DEF OneToOne
<1> HIDE DEF edges
<1>5. OneToOne(one) /\ one \subseteq edges
  BY <1>1, <1>2, <1>4, ClaimsApart, ClaimAdds
<1>6. OneToOne(two) /\ two \subseteq edges
  BY <1>1, <1>3, <1>5, ClaimsApart, ClaimAdds
<1>7. TrackClaims(tracks, path, files) = Claim(two, third)
  BY <1>1, <1>2, <1>3
<1>8. OneToOne(Claim(two, third)) /\ Claim(two, third) \subseteq edges
  BY <1>1, <1>6, ClaimsApart, ClaimAdds
<1> QED BY <1>7, <1>8 DEF edges

--------------------------------------------------------------------------------
(* What a scan writes of the files of a book.                                  *)

\* Every file has an identifier of its own: that of the claimed track, or one
\* that was drawn for it.
LEMMA TrackIdsAre ==
  ASSUME NEW tracks, NEW path, NEW files, NEW draw,
         \A n \in DOMAIN files : <<draw, path, n>> \notin DOMAIN tracks,
         NEW ids, ids = TrackIds(tracks, path, files, draw)
  PROVE  /\ DOMAIN ids = DOMAIN files
         /\ \A c \in TrackClaims(tracks, path, files) : ids[c[1]] = c[2]
         /\ \A n \in DOMAIN files : ids[n] \in DOMAIN tracks \/ ids[n] = <<draw, path, n>>
         /\ \A n, m \in DOMAIN files : ids[n] = ids[m] => n = m
<1>1. PICK claims : claims = TrackClaims(tracks, path, files)
  OBVIOUS
<1>2. OneToOne(claims) /\ claims \subseteq Pairs(DOMAIN files, DOMAIN tracks)
  BY <1>1, TracksApart
<1>3. \A c \in claims : c[1] \in DOMAIN files /\ c[2] \in DOMAIN tracks
  BY <1>2 DEF Pairs
<1>4. ids = [n \in DOMAIN files |-> IF n \in Placed(claims) THEN ClaimedBy(claims, n)
                                    ELSE <<draw, path, n>>]
  BY <1>1 DEF TrackIds
<1>5. \A c \in claims : c[1] \in Placed(claims) /\ ClaimedBy(claims, c[1]) = c[2]
  BY <1>2, ClaimIsTold
<1>6. \A c \in claims : ids[c[1]] = c[2]
  BY <1>3, <1>4, <1>5
<1>7. \A n \in DOMAIN files : n \notin Placed(claims) => ids[n] = <<draw, path, n>>
  BY <1>4
<1>8. \A n \in Placed(claims) : \E c \in claims : c[1] = n
  BY DEF Placed
<1>9. \A n \in DOMAIN files : ids[n] \in DOMAIN tracks \/ ids[n] = <<draw, path, n>>
  BY <1>3, <1>6, <1>7, <1>8
<1>10. ASSUME NEW n \in DOMAIN files, NEW m \in DOMAIN files, ids[n] = ids[m]
       PROVE  n = m
  <2>1. CASE n \in Placed(claims) /\ m \in Placed(claims)
    <3>1. PICK c \in claims : c[1] = n
      BY <1>8, <2>1
    <3>2. PICK d \in claims : d[1] = m
      BY <1>8, <2>1
    <3>3. c[2] = d[2]
      BY <1>6, <1>10, <3>1, <3>2
    <3>4. c = d
      BY <1>2, <3>3 DEF OneToOne, Conflict
    <3> QED BY <3>1, <3>2, <3>4
  <2>2. CASE n \notin Placed(claims) /\ m \notin Placed(claims)
    <3>1. <<draw, path, n>> = <<draw, path, m>>
      BY <1>7, <1>10, <2>2
    <3> QED BY <3>1
  <2>3. CASE ~(n \in Placed(claims) <=> m \in Placed(claims))
    BY <1>3, <1>6, <1>7, <1>8, <1>10, <2>3
  <2> QED BY <2>1, <2>2, <2>3
<1>11. DOMAIN ids = DOMAIN files
  BY <1>4
<1> QED BY <1>1, <1>6, <1>9, <1>10, <1>11

\* What was remembered last is remembered.
LEMMA PathIsRemembered ==
  ASSUME NEW paths, paths \in Seq(Members(paths)), NEW path
  PROVE  path \in Members(RememberPath(paths, path))
<1>1. PICK s : s = Without(paths, path)
  OBVIOUS
<1>2. s \in Seq(Members(paths))
  BY <1>1, WithoutMembers
<1>3. PICK S : S = Members(paths) \cup {path}
  OBVIOUS
<1>4. PICK a : a = Append(s, path)
  OBVIOUS
<1>5. s \in Seq(S)
  BY <1>2, <1>3
<1>6. a \in Seq(S) /\ Len(a) = Len(s) + 1 /\ a[Len(s) + 1] = path /\ Len(s) \in Nat
  BY <1>3, <1>4, <1>5
<1>7. RememberPath(paths, path) = LastOf(a, MaxAliases)
  BY <1>1, <1>4 DEF RememberPath
<1>8. MaxAliases \in Nat \ {0}
  BY LibraryConstants
<1>9. CASE Len(a) <= MaxAliases
  <2>1. RememberPath(paths, path) = a
    BY <1>7, <1>9 DEF LastOf
  <2>2. Len(a) \in DOMAIN a /\ a[Len(a)] = path
    BY <1>6
  <2> QED BY <2>1, <2>2 DEF Members
<1>10. CASE ~(Len(a) <= MaxAliases)
  <2>1. PICK t : t = SubSeq(a, Len(a) - MaxAliases + 1, Len(a))
    OBVIOUS
  <2>2. RememberPath(paths, path) = t
    BY <1>7, <1>10, <2>1 DEF LastOf
  <2>3. MaxAliases \in DOMAIN t /\ t[MaxAliases] = a[Len(a)]
    BY <1>6, <1>8, <1>10, <2>1
  <2> QED BY <1>6, <2>2, <2>3 DEF Members
<1> QED BY <1>9, <1>10

\* The paths of tracks are lists.
ListedTracks(tracks) ==
  \A t \in DOMAIN tracks : tracks[t].paths \in Seq(Members(tracks[t].paths))

\* Every track of a refreshed identity has its file's digest and path.
LEMMA TracksAreRemembered ==
  ASSUME NEW tracks, ListedTracks(tracks), NEW path, NEW files, NEW ids,
         DOMAIN ids = DOMAIN files, \A n, m \in DOMAIN files : ids[n] = ids[m] => n = m,
         NEW after, after = TracksAfter(tracks, path, files, ids)
  PROVE  /\ DOMAIN after = DOMAIN tracks \cup {ids[n] : n \in DOMAIN files}
         /\ ListedTracks(after)
         /\ \A n \in DOMAIN files :
              /\ ids[n] \in DOMAIN after /\ after[ids[n]].fp = files[n]
              /\ <<path, n>> \in Members(after[ids[n]].paths)
<1> DEFINE FileOf(t) == CHOOSE n \in DOMAIN ids : ids[n] = t
           OldPaths(t) == IF t \in DOMAIN tracks THEN tracks[t].paths ELSE <<>>
           seen == {ids[n] : n \in DOMAIN ids}
<1>1. /\ DOMAIN after = DOMAIN tracks \cup seen
      /\ \A t \in DOMAIN tracks \ seen : after[t] = tracks[t]
      /\ \A t \in seen : after[t] = [fp |-> files[FileOf(t)],
                                     paths |-> RememberPath(OldPaths(t), <<path, FileOf(t)>>)]
  BY DEF TracksAfter
<1>2. \A n \in DOMAIN files : FileOf(ids[n]) = n
  <2> SUFFICES ASSUME NEW n \in DOMAIN files
               PROVE  FileOf(ids[n]) = n
    OBVIOUS
  <2>1. FileOf(ids[n]) \in DOMAIN ids /\ ids[FileOf(ids[n])] = ids[n]
    OBVIOUS
  <2> HIDE DEF FileOf
  <2> QED BY <2>1
<1>3. \A t : OldPaths(t) \in Seq(Members(OldPaths(t)))
  <2>1. <<>> \in Seq(Members(<<>>))
    OBVIOUS
  <2> QED BY <2>1 DEF ListedTracks
<1> HIDE DEF FileOf, OldPaths
<1>4. \A n \in DOMAIN files : /\ after[ids[n]].fp = files[n]
                              /\ after[ids[n]].paths = RememberPath(OldPaths(ids[n]), <<path, n>>)
  <2> SUFFICES ASSUME NEW n \in DOMAIN files
               PROVE  /\ after[ids[n]].fp = files[n]
                      /\ after[ids[n]].paths = RememberPath(OldPaths(ids[n]), <<path, n>>)
    OBVIOUS
  <2>1. PICK t : t = ids[n]
    OBVIOUS
  <2>2. t \in seen /\ FileOf(t) = n
    BY <1>2, <2>1
  <2>3. after[t] = [fp |-> files[FileOf(t)],
                    paths |-> RememberPath(OldPaths(t), <<path, FileOf(t)>>)]
    BY <1>1, <2>2
  <2>4. after[t] = [fp |-> files[n], paths |-> RememberPath(OldPaths(t), <<path, n>>)]
    BY <2>2, <2>3
  <2> QED BY <2>1, <2>4
<1>5. \A n \in DOMAIN files :
        /\ <<path, n>> \in Members(after[ids[n]].paths)
        /\ after[ids[n]].paths \in Seq(Members(after[ids[n]].paths))
  BY <1>3, <1>4, PathIsRemembered, PathRemembered
<1>6. ListedTracks(after)
  BY <1>1, <1>5 DEF ListedTracks
<1> QED BY <1>1, <1>4, <1>5, <1>6

--------------------------------------------------------------------------------
(* What a scan writes of its books.                                            *)

\* An identity whose lists are lists, its own and those of its tracks.
Listed(i) ==
  /\ IdentityShaped(i) /\ i.paths \in Seq(Members(i.paths)) /\ ListedTracks(i.tracks)

\* A group gets one identity, from the known or the minted entry, and its files
\* get their identifiers from the tracks of that.
EntryFor(books, group, p, id) ==
  IF id \notin DOMAIN books THEN {MintedBook(group)}
  ELSE {books[id], Retired(books[id], p, group.files)}

\* What one scan writes, group by group.
LEMMA Resolution ==
  ASSUME NEW f, FileShaped(f), NEW groups, NEW draw,
         \A p \in DOMAIN groups : <<draw, p>> \notin DOMAIN f.books,
         NEW result, result = Resolve(f, groups, draw)
  PROVE  /\ \A c \in BookClaims(f, groups) : result.ids[c[1]] = c[2]
         /\ \A p \in DOMAIN groups \ Placed(BookClaims(f, groups)) : result.ids[p] = <<draw, p>>
         /\ \A p, q \in DOMAIN groups : result.ids[p] = result.ids[q] => p = q
         /\ \A c \in FirstFivePasses(f, groups) :
              result.tracks[c[1]]
                = TrackIds(f.books[c[2]].tracks, c[1], groups[c[1]].files, draw)
         /\ \A p \in DOMAIN groups : \E entry \in EntryFor(f.books, groups[p], p, result.ids[p]) :
              /\ result.tracks[p] = TrackIds(entry.tracks, p, groups[p].files, draw)
              /\ result.store.books[result.ids[p]]
                   = Refreshed(entry, p, groups[p], f.counter + 1, result.tracks[p])
<1> DEFINE first == FirstFivePasses(f, groups)
           claims == BookClaims(f, groups)
           scan0 == f.counter + 1
           ids == [p \in DOMAIN groups |-> IF p \in Placed(claims) THEN ClaimedBy(claims, p)
                                           ELSE <<draw, p>>]
           entries == [p \in DOMAIN groups |->
               IF ids[p] \notin DOMAIN f.books THEN MintedBook(groups[p])
               ELSE IF p \in Placed(first) THEN f.books[ids[p]]
               ELSE Retired(f.books[ids[p]], p, groups[p].files)]
           tracks0 == [p \in DOMAIN groups |->
               TrackIds(entries[p].tracks, p, groups[p].files, draw)]
           PathOf(id) == CHOOSE p \in DOMAIN groups : ids[p] = id
           seen == {ids[p] : p \in DOMAIN groups}
           After(p) == Refreshed(entries[p], p, groups[p], scan0, tracks0[p])
           books == [id \in DOMAIN f.books \cup seen |->
                       IF id \in seen THEN After(PathOf(id)) ELSE f.books[id]]
           manifest == [size |-> Cardinality(DOMAIN groups),
                        fingerprints |-> Digests(groups, DOMAIN groups)]
           shrink == [seen |-> {}, times |-> 0]
           after == [f EXCEPT !.books = books, !.counter = scan0, !.shrink = shrink,
                              !.manifest = manifest]
<1>1. Resolve(f, groups, draw) = [ids |-> ids, tracks |-> tracks0, store |-> after]
  BY DEF Resolve, BookClaims
<1>2. result.ids = ids /\ result.tracks = tracks0 /\ result.store = after
  <2> HIDE DEF ids, tracks0, after
  <2> QED BY <1>1
<1>3. after.books = books
  <2> HIDE DEF books, manifest, shrink, scan0
  <2> QED BY DEF FileShaped
<1> HIDE DEF after, manifest, shrink
<1>4. /\ ClaimsBy(f.books, groups, first) /\ OneToOne(first) /\ OneToOne(claims)
  BY FirstClaims, PassesApart
<1>5. /\ first \subseteq claims
      /\ \A c \in claims \ first : c[1] \in DOMAIN groups /\ c[2] \in DOMAIN f.books
  BY LastClaims DEF BookClaims
<1>6. \A c \in claims : c[1] \in DOMAIN groups /\ c[2] \in DOMAIN f.books
  BY <1>4, <1>5 DEF ClaimsBy
<1> HIDE DEF first, claims
<1>7. \A c \in claims : c[1] \in Placed(claims) /\ ClaimedBy(claims, c[1]) = c[2]
  BY <1>4, ClaimIsTold
<1>8. \A c \in claims : ids[c[1]] = c[2]
  BY <1>6, <1>7
<1>9. \A p \in DOMAIN groups \ Placed(claims) : ids[p] = <<draw, p>>
  OBVIOUS
<1>10. \A p \in Placed(claims) : \E c \in claims : c[1] = p
  BY DEF Placed
<1>11. DOMAIN ids = DOMAIN groups
  OBVIOUS
<1>12. \A p \in DOMAIN groups : entries[p] \in EntryFor(f.books, groups[p], p, ids[p])
  BY DEF EntryFor
<1>13. \A c \in first : entries[c[1]] = f.books[c[2]]
  <2>1. \A c \in first : c[1] \in Placed(first) /\ c \in claims
    BY <1>5 DEF Placed
  <2> QED BY <1>6, <1>8, <2>1
<1>14. /\ \A p \in DOMAIN groups : tracks0[p] = TrackIds(entries[p].tracks, p, groups[p].files, draw)
  OBVIOUS
<1> HIDE DEF ids, entries
<1>15. ASSUME NEW p \in DOMAIN groups, NEW q \in DOMAIN groups, ids[p] = ids[q]
       PROVE  p = q
  <2>1. CASE p \in Placed(claims) /\ q \in Placed(claims)
    <3>1. PICK c \in claims : c[1] = p
      BY <1>10, <2>1
    <3>2. PICK d \in claims : d[1] = q
      BY <1>10, <2>1
    <3>3. c[2] = d[2]
      BY <1>8, <1>15, <3>1, <3>2
    <3>4. c = d
      BY <1>4, <3>3 DEF OneToOne, Conflict
    <3> QED BY <3>1, <3>2, <3>4
  <2>2. CASE p \notin Placed(claims) /\ q \notin Placed(claims)
    <3>1. <<draw, p>> = <<draw, q>>
      BY <1>9, <1>15, <2>2
    <3> QED BY <3>1
  <2>3. /\ \A r \in Placed(claims) : ids[r] \in DOMAIN f.books
        /\ \A r \in DOMAIN groups \ Placed(claims) : ids[r] \notin DOMAIN f.books
    BY <1>6, <1>8, <1>9, <1>10
  <2> QED BY <1>15, <2>1, <2>2, <2>3
<1>16. \A p \in DOMAIN groups : PathOf(ids[p]) = p
  <2> SUFFICES ASSUME NEW p \in DOMAIN groups
               PROVE  PathOf(ids[p]) = p
    OBVIOUS
  <2>1. PathOf(ids[p]) \in DOMAIN groups /\ ids[PathOf(ids[p])] = ids[p]
    OBVIOUS
  <2> HIDE DEF PathOf
  <2> QED BY <1>15, <2>1
<1> HIDE DEF PathOf, tracks0
<1>17. ASSUME NEW p \in DOMAIN groups
       PROVE  books[ids[p]] = Refreshed(entries[p], p, groups[p], f.counter + 1, tracks0[p])
  <2>1. ids[p] \in seen
    OBVIOUS
  <2>2. books[ids[p]] = After(PathOf(ids[p]))
    BY <2>1
  <2> QED BY <1>16, <2>2
<1>18. \A c \in first : tracks0[c[1]] = TrackIds(f.books[c[2]].tracks, c[1], groups[c[1]].files, draw)
  BY <1>5, <1>6, <1>13, <1>14
<1> HIDE DEF books, scan0
<1>19. ASSUME NEW p \in DOMAIN groups
       PROVE  \E entry \in EntryFor(f.books, groups[p], p, ids[p]) :
              /\ tracks0[p] = TrackIds(entry.tracks, p, groups[p].files, draw)
              /\ books[ids[p]] = Refreshed(entry, p, groups[p], f.counter + 1, tracks0[p])
  BY <1>12, <1>14, <1>17
<1>20. \A c \in claims : result.ids[c[1]] = c[2]
  BY <1>2, <1>8
<1>21. \A p \in DOMAIN groups \ Placed(claims) : result.ids[p] = <<draw, p>>
  BY <1>2, <1>9
<1>22. \A p, q \in DOMAIN groups : result.ids[p] = result.ids[q] => p = q
  BY <1>2, <1>15
<1>23. \A c \in first : result.tracks[c[1]]
                          = TrackIds(f.books[c[2]].tracks, c[1], groups[c[1]].files, draw)
  BY <1>2, <1>18
<1>24. result.store.books = books
  BY <1>2, <1>3
<1> QED BY <1>2, <1>19, <1>20, <1>21, <1>22, <1>23, <1>24 DEF first, claims

\* An entry that a group is matched with is a list like the others, and its
\* tracks are some of those of the known book.
LEMMA EntriesAreListed ==
  ASSUME NEW books, \A id \in DOMAIN books : Listed(books[id]),
         NEW group, NEW p, NEW id, NEW entry \in EntryFor(books, group, p, id)
  PROVE  /\ Listed(entry)
         /\ \A t \in DOMAIN entry.tracks : id \in DOMAIN books /\ t \in DOMAIN books[id].tracks
<1>1. CASE id \notin DOMAIN books
  <2>1. entry = MintedBook(group)
    BY <1>1 DEF EntryFor
  <2>2. <<>> \in Seq(Members(<<>>)) /\ DOMAIN <<>> = {}
    OBVIOUS
  <2>3. /\ DOMAIN entry = {"fp", "history", "paths", "tracks", "seen", "count", "length"}
        /\ entry.history = <<>> /\ entry.paths = <<>> /\ entry.tracks = <<>>
    BY <2>1 DEF MintedBook
  <2> QED BY <2>2, <2>3 DEF Listed, IdentityShaped, ListedTracks
<1>2. CASE id \in DOMAIN books
  <2>1. PICK i : i = books[id]
    OBVIOUS
  <2>2. Listed(i)
    BY <1>2, <2>1
  <2>3. entry = i \/ entry = Retired(i, p, group.files)
    BY <1>2, <2>1 DEF EntryFor
  <2>4. CASE entry = Retired(i, p, group.files)
    <3>1. PICK kept : kept = [t \in Accounted(i, p, group.files) |-> i.tracks[t]]
      OBVIOUS
    <3>2. entry = [i EXCEPT !.tracks = kept]
      BY <2>4, <3>1 DEF Retired
    <3>3. /\ DOMAIN entry = DOMAIN i /\ entry.history = i.history /\ entry.paths = i.paths
          /\ entry.tracks = kept
      BY <2>2, <3>2 DEF Listed, IdentityShaped
    <3>4. DOMAIN kept \subseteq DOMAIN i.tracks /\ \A t \in DOMAIN kept : kept[t] = i.tracks[t]
      BY <3>1 DEF Accounted
    <3> QED BY <1>2, <2>1, <2>2, <3>3, <3>4 DEF Listed, IdentityShaped, ListedTracks
  <2> QED BY <1>2, <2>1, <2>2, <2>3, <2>4
<1> QED BY <1>1, <1>2

\* A refreshed identity has the digest and the directory of its group, and stays
\* a list.
LEMMA RefreshedIs ==
  ASSUME NEW i, Listed(i), NEW path, NEW g, NEW number, NEW ids,
         DOMAIN ids = DOMAIN g.files, \A n, m \in DOMAIN g.files : ids[n] = ids[m] => n = m,
         NEW e, e = Refreshed(i, path, g, number, ids)
  PROVE  /\ Listed(e) /\ e.fp = g.fp /\ PathMatches(e, path)
         /\ DOMAIN e.tracks = DOMAIN i.tracks \cup {ids[n] : n \in DOMAIN g.files}
         /\ \A n \in DOMAIN g.files :
              /\ ids[n] \in DOMAIN e.tracks /\ e.tracks[ids[n]].fp = g.files[n]
              /\ <<path, n>> \in Members(e.tracks[ids[n]].paths)
<1> DEFINE older == LastOf(Append(Without(Without(i.history, i.fp), g.fp), i.fp), MaxHistory)
<1>1. PICK r : r = RecordFingerprint(i, g.fp)
  OBVIOUS
<1>2. IdentityShaped(r) /\ r.fp = g.fp /\ r.paths = i.paths /\ r.tracks = i.tracks
  <2>1. CASE i.fp = g.fp
    BY <1>1, <2>1 DEF RecordFingerprint, Listed
  <2>2. CASE i.fp # g.fp
    <3>1. PICK h : h = older
      OBVIOUS
    <3>2. h \in Seq(Members(h))
      BY <3>1, DigestRemembered DEF Listed, IdentityShaped
    <3>3. r = [i EXCEPT !.fp = g.fp, !.history = h]
      BY <1>1, <2>2, <3>1 DEF RecordFingerprint
    <3> QED BY <3>2, <3>3 DEF Listed, IdentityShaped
  <2> QED BY <2>1, <2>2
<1>3. PICK count, length, paths, tracks :
        /\ e = [r EXCEPT !.seen = number, !.count = count, !.length = length,
                         !.paths = paths, !.tracks = tracks]
        /\ paths = RememberPath(r.paths, path)
        /\ tracks = TracksAfter(r.tracks, path, g.files, ids)
  BY <1>1 DEF Refreshed
<1>4. /\ DOMAIN e = DOMAIN r /\ e.fp = r.fp /\ e.history = r.history
      /\ e.paths = paths /\ e.tracks = tracks
  BY <1>2, <1>3 DEF IdentityShaped
<1>5. paths \in Seq(Members(paths)) /\ path \in Members(paths)
  BY <1>2, <1>3, PathRemembered, PathIsRemembered DEF Listed
<1>6. /\ DOMAIN tracks = DOMAIN i.tracks \cup {ids[n] : n \in DOMAIN g.files}
      /\ ListedTracks(tracks)
      /\ \A n \in DOMAIN g.files :
           /\ ids[n] \in DOMAIN tracks /\ tracks[ids[n]].fp = g.files[n]
           /\ <<path, n>> \in Members(tracks[ids[n]].paths)
  <2>1. tracks = TracksAfter(i.tracks, path, g.files, ids) /\ ListedTracks(i.tracks)
    BY <1>2, <1>3 DEF Listed
  <2> HIDE DEF Listed
  <2>2. PICK files, known : files = g.files /\ known = i.tracks
    OBVIOUS
  <2> QED BY <2>1, <2>2, TracksAreRemembered
<1> QED BY <1>2, <1>4, <1>5, <1>6 DEF Listed, IdentityShaped, PathMatches

--------------------------------------------------------------------------------
(* What is claimed for sure.                                                   *)

\* A claim of a book that has been where the group is, with its digest, when no
\* copy has been where the other is.
LEMMA ClaimedInPlace ==
  ASSUME NEW f, NEW groups, NEW p \in DOMAIN groups, NEW id \in DOMAIN f.books,
         f.books[id].fp = groups[p].fp, PathMatches(f.books[id], p),
         \A q \in DOMAIN groups \ {p} :
           groups[q].fp = groups[p].fp => ~PathMatches(f.books[id], q),
         \A other \in DOMAIN f.books \ {id} :
           f.books[other].fp = groups[p].fp => ~PathMatches(f.books[other], p)
  PROVE  <<p, id>> \in FirstFivePasses(f, groups)
<1> DEFINE e == <<p, id>>
<1>1. PICK current, here, one, steady, known, second, moved, third, remux :
        /\ Passes(f, groups, current, here, one, steady, known, second, moved, third, remux)
        /\ FirstFivePasses(f, groups) = Claim(third, remux)
  BY PassesAre
<1>2. /\ one = Claim({}, here) /\ steady = Claim(one, current)
      /\ second = Claim(steady, known) /\ third = Claim(second, moved)
  BY <1>1, Zenon DEF Passes
<1>3. current = {d \in Pairs(DOMAIN groups, DOMAIN f.books) :
                   f.books[d[2]].fp = groups[d[1]].fp}
  BY <1>1, Zenon DEF Passes
<1>4. here = {d \in current : PathMatches(f.books[d[2]], d[1])}
  BY <1>1, Zenon DEF Passes
<1>5. e \in here
  BY <1>3, <1>4 DEF Pairs
<1>6. ASSUME NEW d \in here, Conflict(d, e)
      PROVE  d = e
  <2>1. PICK q \in DOMAIN groups, other \in DOMAIN f.books : d = <<q, other>>
    BY <1>3, <1>4, <1>6 DEF Pairs
  <2>2. f.books[other].fp = groups[q].fp /\ PathMatches(f.books[other], q)
    BY <1>3, <1>4, <1>6, <2>1
  <2>3. q = p \/ other = id
    BY <1>6, <2>1 DEF Conflict
  <2> QED BY <2>1, <2>2, <2>3
<1> HIDE DEF e
<1>7. e \in one
  BY <1>2, <1>5, <1>6, Unopposed
<1>8. /\ one \subseteq steady /\ steady \subseteq second /\ second \subseteq third
      /\ third \subseteq FirstFivePasses(f, groups)
  BY <1>1, <1>2, ClaimAdds
<1> QED BY <1>7, <1>8 DEF e

\* A claim by a digest that one group and one identity have.
LEMMA ClaimedByDigest ==
  ASSUME NEW f, NEW groups, NEW p \in DOMAIN groups, NEW id,
         \A q \in DOMAIN groups : groups[q].fp = groups[p].fp => q = p,
         OnlyEntry(f.books, groups[p].fp, id)
  PROVE  <<p, id>> \in SteadyClaims(f.books, groups)
<1> DEFINE e == <<p, id>>
           current == {d \in Pairs(DOMAIN groups, DOMAIN f.books) :
                         f.books[d[2]].fp = groups[d[1]].fp}
           here == {d \in current : PathMatches(f.books[d[2]], d[1])}
<1>1. SteadyClaims(f.books, groups) = Claim(Claim({}, here), current)
  BY DEF SteadyClaims
<1>2. e \in current
  BY DEF Pairs, OnlyEntry
<1>3. ASSUME NEW d \in current, Conflict(d, e)
      PROVE  d = e
  <2>1. PICK q \in DOMAIN groups, other \in DOMAIN f.books : d = <<q, other>>
    BY <1>3 DEF Pairs
  <2>2. f.books[other].fp = groups[q].fp
    BY <1>3, <2>1
  <2>3. q = p \/ other = id
    BY <1>3, <2>1 DEF Conflict
  <2>4. f.books[id].fp = groups[p].fp
    BY DEF OnlyEntry
  <2> QED BY <2>1, <2>2, <2>3, <2>4 DEF OnlyEntry
<1>4. here \subseteq current
  OBVIOUS
<1> HIDE DEF e, current, here
<1>5. Claim({}, here) \subseteq current
  BY <1>4, ClaimAdds
<1>6. e \in Claim(Claim({}, here), current)
  BY <1>2, <1>3, <1>5, Unopposed
<1> QED BY <1>1, <1>6 DEF e

\* The steady claims are made.
LEMMA SteadyAreMade ==
  ASSUME NEW f, NEW groups
  PROVE  SteadyClaims(f.books, groups) \subseteq FirstFivePasses(f, groups)
<1>1. PICK current, here, one, steady, known, second, moved, third, remux :
        /\ Passes(f, groups, current, here, one, steady, known, second, moved, third, remux)
        /\ SteadyClaims(f.books, groups) = steady
        /\ FirstFivePasses(f, groups) = Claim(third, remux)
  BY PassesAre
<1>2. second = Claim(steady, known) /\ third = Claim(second, moved)
  BY <1>1, Zenon DEF Passes
<1>3. /\ steady \subseteq second /\ second \subseteq third
      /\ third \subseteq FirstFivePasses(f, groups)
  BY <1>1, <1>2, ClaimAdds
<1> QED BY <1>1, <1>3

\* A claim of a recently seen book by its directory, its number of files and its
\* length, when nothing else could be the one or the other.
LEMMA ClaimedByLayout ==
  ASSUME NEW f, NEW groups, NEW p \in DOMAIN groups, NEW id \in DOMAIN f.books,
         PathMatches(f.books[id], p), RecentlySeen(f.books[id], f.counter + 1),
         LayoutMatches(f.books[id], groups[p]),
         \A q \in DOMAIN groups \ {p} :
           /\ ~MatchesFingerprint(f.books[id], groups[q].fp)
           /\ PathMatches(f.books[id], q) => q \in Placed(SteadyClaims(f.books, groups)),
         \A other \in DOMAIN f.books \ {id} :
           ~PathMatches(f.books[other], p) /\ ~MatchesFingerprint(f.books[other], groups[p].fp)
  PROVE  <<p, id>> \in FirstFivePasses(f, groups)
<1> DEFINE e == <<p, id>>
           current == {d \in Pairs(DOMAIN groups, DOMAIN f.books) :
                         f.books[d[2]].fp = groups[d[1]].fp}
           here == {d \in current : PathMatches(f.books[d[2]], d[1])}
           steady == SteadyClaims(f.books, groups)
           known == {d \in RemembersContents(f.books, groups, steady) :
                       PathMatches(f.books[d[2]], d[1])}
           second == RememberedPathClaims(f.books, groups, steady)
           moved == RemembersContents(f.books, groups, second)
           third == RememberedClaims(f.books, groups, second)
           remux == {d \in PathOnly(f.books, groups, third) :
                       /\ RecentlySeen(f.books[d[2]], f.counter + 1)
                       /\ LayoutMatches(f.books[d[2]], groups[d[1]])}
           Digested(claims) == \A d \in claims :
             /\ d \in Pairs(DOMAIN groups, DOMAIN f.books)
             /\ MatchesFingerprint(f.books[d[2]], groups[d[1]].fp)
<1>1. /\ steady = Claim(Claim({}, here), current) /\ second = Claim(steady, known)
      /\ third = Claim(second, moved) /\ FirstFivePasses(f, groups) = Claim(third, remux)
  BY DEF SteadyClaims, RememberedPathClaims, RememberedClaims, RemuxClaims, FirstFivePasses
<1>2. /\ Digested({}) /\ Digested(here) /\ Digested(current) /\ Digested(known)
      /\ Digested(moved)
  BY DEF RemembersContents, MatchesFingerprint, Pairs
<1>3. ASSUME NEW d, d \in Pairs(DOMAIN groups, DOMAIN f.books),
             MatchesFingerprint(f.books[d[2]], groups[d[1]].fp), Conflict(d, e)
      PROVE  d = e
  <2>1. PICK q \in DOMAIN groups, other \in DOMAIN f.books : d = <<q, other>>
    BY <1>3 DEF Pairs
  <2>2. q = p \/ other = id
    BY <1>3, <2>1 DEF Conflict
  <2> QED BY <1>3, <2>1, <2>2
<1>4. ASSUME NEW claims, NEW edges, Digested(claims), Digested(edges)
      PROVE  Digested(Claim(claims, edges))
  <2>1. Claim(claims, edges) \subseteq claims \cup edges
    BY ClaimAdds
  <2> QED BY <1>4, <2>1
<1>5. ASSUME NEW claims, Digested(claims), NEW d \in claims, Conflict(d, e)
      PROVE  d = e
  BY <1>3, <1>5
<1>6. ASSUME NEW claims, NEW edges, Digested(claims), Digested(edges), e \in edges
      PROVE  e \in Claim(claims, edges)
  BY <1>5, <1>6, Unopposed
<1>7. e \in Pairs(DOMAIN groups, DOMAIN f.books) /\ e[1] = p /\ e[2] = id
  BY DEF Pairs
<1>8. f.books[id].fp = groups[p].fp => e \in here
  BY <1>7
<1>9. \A q \in DOMAIN groups : f.books[id].fp = groups[q].fp => q = p
  BY DEF MatchesFingerprint
<1>10. \A q \in DOMAIN groups : groups[q].fp \in Members(f.books[id].history) => q = p
  BY DEF MatchesFingerprint
<1>11. ASSUME NEW claims, p \notin Placed(claims), f.books[id].fp # groups[p].fp,
              MatchesFingerprint(f.books[id], groups[p].fp)
       PROVE  e \in RemembersContents(f.books, groups, claims)
  <2>1. f.books[id].fp \notin Digests(groups, DOMAIN groups \ Placed(claims))
    BY <1>9, <1>11 DEF Digests
  <2>2. e \in Pairs(DOMAIN groups \ Placed(claims), DOMAIN f.books)
    BY <1>11 DEF Pairs
  <2> QED BY <1>7, <1>11, <2>1, <2>2 DEF RemembersContents
<1> HIDE DEF here, current, steady, known, second, moved, third, remux, Digested
<1>12. Digested(Claim({}, here))
  BY <1>2, <1>4
<1>13. Digested(steady)
  BY <1>1, <1>2, <1>4, <1>12
<1>14. Digested(second)
  BY <1>1, <1>2, <1>4, <1>13
<1>15. Digested(third)
  BY <1>1, <1>2, <1>4, <1>14
<1>16. Claim({}, here) \subseteq steady /\ steady \subseteq second /\ second \subseteq third
  BY <1>1, ClaimAdds
<1>17. third \subseteq FirstFivePasses(f, groups)
  BY <1>1, ClaimAdds
<1>18. CASE e \in third
  BY <1>17, <1>18 DEF e
<1>19. CASE e \notin third
  <2>1. p \notin Placed(third)
    <3>1. ASSUME NEW c \in third, c[1] = p
          PROVE  FALSE
      <4>1. Conflict(c, e)
        BY <1>7, <3>1 DEF Conflict
      <4> QED BY <1>5, <1>15, <1>19, <4>1
    <3> QED BY <3>1 DEF Placed
  <2>2. p \notin Placed(steady)
    BY <1>16, <2>1 DEF Placed
  <2>3. f.books[id].fp # groups[p].fp
    BY <1>2, <1>6, <1>8, <1>16, <1>19
  <2>4. ~MatchesFingerprint(f.books[id], groups[p].fp)
    <3> SUFFICES ASSUME MatchesFingerprint(f.books[id], groups[p].fp)
                 PROVE  FALSE
      OBVIOUS
    <3>1. e \in known
      BY <1>7, <1>11, <2>2, <2>3 DEF known
    <3> QED BY <1>1, <1>2, <1>6, <1>13, <1>16, <1>19, <3>1
  <2>5. AbsentFromScan(f.books[id], Digests(groups, DOMAIN groups),
                       Digests(groups, DOMAIN groups \ Placed(third)))
    <3>1. f.books[id].fp \notin Digests(groups, DOMAIN groups \ Placed(third))
      BY <1>9, <2>3 DEF Digests
    <3>2. Members(f.books[id].history) \cap Digests(groups, DOMAIN groups) = {}
      BY <1>10, <2>4 DEF Digests, MatchesFingerprint
    <3> QED BY <3>1, <3>2 DEF AbsentFromScan
  <2>6. e \in Pairs(DOMAIN groups \ Placed(third), DOMAIN f.books)
    BY <2>1 DEF Pairs, e
  <2>7. e \in PathOnly(f.books, groups, third)
    BY <1>7, <2>5, <2>6 DEF PathOnly
  <2>8. e \in remux
    BY <1>7, <2>7 DEF remux
  <2>9. ASSUME NEW d \in remux, Conflict(d, e)
        PROVE  d = e
    <3>1. d \in Pairs(DOMAIN groups \ Placed(third), DOMAIN f.books)
          /\ PathMatches(f.books[d[2]], d[1])
      BY <2>9 DEF remux, PathOnly
    <3>2. PICK q \in DOMAIN groups \ Placed(third), other \in DOMAIN f.books : d = <<q, other>>
      BY <3>1 DEF Pairs
    <3>3. q = p \/ other = id
      BY <1>7, <2>9, <3>2 DEF Conflict
    <3>4. PathMatches(f.books[other], q)
      BY <3>1, <3>2
    <3>5. Placed(steady) \subseteq Placed(third)
      BY <1>16 DEF Placed
    <3>6. q \notin Placed(SteadyClaims(f.books, groups))
      BY <3>5 DEF steady
    <3> QED BY <3>2, <3>3, <3>4, <3>6 DEF e
  <2>10. \A c \in third \cup remux : Conflict(c, e) => c = e
    BY <1>5, <1>15, <2>9
  <2> QED BY <1>1, <2>8, <2>10, Unopposed DEF e
<1> QED BY <1>18, <1>19

\* The claims of files: in place, by contents that one file and one track have,
\* and by the path of a file whose old contents are gone.
LEMMA FilesClaimed ==
  ASSUME NEW tracks, NEW p, NEW files, NEW n \in DOMAIN files, NEW t \in DOMAIN tracks,
         \/ /\ tracks[t].fp = files[n] /\ <<p, n>> \in Members(tracks[t].paths)
            /\ \A m \in DOMAIN files \ {n} :
                 files[m] = files[n] => <<p, m>> \notin Members(tracks[t].paths)
            /\ \A u \in DOMAIN tracks \ {t} :
                 tracks[u].fp = files[n] => <<p, n>> \notin Members(tracks[u].paths)
         \/ OnlyFile(files, n) /\ OnlyEntry(tracks, files[n], t)
         \/ /\ <<p, n>> \in Members(tracks[t].paths)
            /\ \A m \in DOMAIN files \ {n} : /\ files[m] # tracks[t].fp
                                             /\ <<p, m>> \notin Members(tracks[t].paths)
            /\ \A u \in DOMAIN tracks \ {t} : /\ tracks[u].fp # files[n]
                                              /\ <<p, n>> \notin Members(tracks[u].paths)
  PROVE  <<n, t>> \in TrackClaims(tracks, p, files)
<1> DEFINE e == <<n, t>>
           edges == Pairs(DOMAIN files, DOMAIN tracks)
           here == {d \in edges : <<p, d[1]>> \in Members(tracks[d[2]].paths)}
           same == {d \in edges : tracks[d[2]].fp = files[d[1]]}
           gone == {u \in DOMAIN tracks : \A m \in DOMAIN files : tracks[u].fp # files[m]}
           third == {d \in here : d[2] \in gone}
           one == Claim({}, here \cap same)
           two == Claim(one, same)
<1>1. TrackClaims(tracks, p, files) = Claim(two, third)
  BY DEF TrackClaims
<1>2. one \subseteq here \cap same /\ one \subseteq two
  BY ClaimAdds
<1>3. two \subseteq same /\ two \subseteq Claim(two, third)
  <2>1. here \cap same \subseteq same
    OBVIOUS
  <2> HIDE DEF here, same, one, third
  <2>2. two \subseteq one \cup same
    BY ClaimAdds
  <2> HIDE DEF two
  <2> QED BY <1>2, <2>1, <2>2, ClaimAdds
<1>4. e \in edges /\ e[1] = n /\ e[2] = t
  BY DEF Pairs
<1>5. ASSUME NEW d \in edges
      PROVE  \E m \in DOMAIN files, u \in DOMAIN tracks :
               d = <<m, u>> /\ (Conflict(d, e) => m = n \/ u = t)
  BY DEF Pairs, Conflict
<1>6. CASE /\ tracks[t].fp = files[n] /\ <<p, n>> \in Members(tracks[t].paths)
           /\ \A m \in DOMAIN files \ {n} :
                files[m] = files[n] => <<p, m>> \notin Members(tracks[t].paths)
           /\ \A u \in DOMAIN tracks \ {t} :
                tracks[u].fp = files[n] => <<p, n>> \notin Members(tracks[u].paths)
  <2>1. e \in here \cap same
    BY <1>4, <1>6
  <2>2. ASSUME NEW d \in here \cap same, Conflict(d, e)
        PROVE  d = e
    <3>1. PICK m \in DOMAIN files, u \in DOMAIN tracks : d = <<m, u>> /\ (m = n \/ u = t)
      BY <1>5, <2>2
    <3>2. <<p, m>> \in Members(tracks[u].paths) /\ tracks[u].fp = files[m]
      BY <2>2, <3>1
    <3> QED BY <1>6, <3>1, <3>2
  <2> HIDE DEF e, here, same
  <2>3. e \in one
    BY <2>1, <2>2, Unopposed DEF one
  <2> HIDE DEF one, two, third
  <2> QED BY <1>1, <1>2, <1>3, <2>3 DEF e
<1>7. CASE OnlyFile(files, n) /\ OnlyEntry(tracks, files[n], t)
  <2>1. e \in same
    BY <1>4, <1>7 DEF OnlyEntry
  <2>2. ASSUME NEW d \in same, Conflict(d, e)
        PROVE  d = e
    <3>1. PICK m \in DOMAIN files, u \in DOMAIN tracks : d = <<m, u>> /\ (m = n \/ u = t)
      BY <1>5, <2>2
    <3>2. tracks[u].fp = files[m] /\ tracks[t].fp = files[n]
      BY <1>7, <2>2, <3>1 DEF OnlyEntry
    <3> QED BY <1>7, <3>1, <3>2 DEF OnlyFile, OnlyEntry
  <2> HIDE DEF e, here, same, one
  <2>3. e \in two
    BY <1>2, <2>1, <2>2, Unopposed DEF two
  <2> HIDE DEF two, third
  <2> QED BY <1>1, <1>3, <2>3 DEF e
<1>8. CASE /\ <<p, n>> \in Members(tracks[t].paths)
           /\ \A m \in DOMAIN files \ {n} : /\ files[m] # tracks[t].fp
                                            /\ <<p, m>> \notin Members(tracks[t].paths)
           /\ \A u \in DOMAIN tracks \ {t} : /\ tracks[u].fp # files[n]
                                             /\ <<p, n>> \notin Members(tracks[u].paths)
  <2>1. ASSUME NEW d \in here \cup same, Conflict(d, e)
        PROVE  d = e
    <3>1. PICK m \in DOMAIN files, u \in DOMAIN tracks : d = <<m, u>> /\ (m = n \/ u = t)
      BY <1>5, <2>1
    <3>2. <<p, m>> \in Members(tracks[u].paths) \/ tracks[u].fp = files[m]
      BY <2>1, <3>1
    <3> QED BY <1>8, <3>1, <3>2
  <2>2. third \subseteq here
    OBVIOUS
  <2>3. tracks[t].fp = files[n] => e \in here \cap same
    BY <1>4, <1>8
  <2>4. tracks[t].fp # files[n] => e \in third
    BY <1>4, <1>8
  <2> HIDE DEF e, here, same, third
  <2>5. CASE tracks[t].fp = files[n]
    <3>1. e \in one
      BY <2>1, <2>3, <2>5, Unopposed DEF one
    <3> HIDE DEF one, two
    <3> QED BY <1>1, <1>2, <1>3, <3>1 DEF e
  <2>6. CASE tracks[t].fp # files[n]
    <3> HIDE DEF two
    <3>1. e \in Claim(two, third)
      BY <1>3, <2>1, <2>2, <2>4, <2>6, Unopposed
    <3> QED BY <1>1, <3>1 DEF e
  <2> QED BY <2>5, <2>6
<1> QED BY <1>6, <1>7, <1>8

--------------------------------------------------------------------------------
(* What becomes of the books of a scan.                                        *)

\* The books of a scan, as resolved from its groups.
Describes(new, groups, result) ==
  /\ DOMAIN new = DOMAIN groups
  /\ \A p \in DOMAIN groups : /\ new[p].id = result.ids[p] /\ new[p].tracks = result.tracks[p]
                              /\ new[p].files = groups[p].files
                              /\ groups[p].fp = BookFingerprint(new[p].files)

\* Nothing of the identities was drawn by this scan.
NotDrawn(f, draw) ==
  \A id \in DOMAIN f.books : /\ id[1] # draw
                             /\ \A t \in DOMAIN f.books[id].tracks : t[1] # draw

\* The tracks of an entry are none that this scan drew.
LEMMA TracksNotDrawn ==
  ASSUME NEW f, NEW draw, NotDrawn(f, draw), NEW tracks,
         \A t \in DOMAIN tracks : \E id \in DOMAIN f.books : t \in DOMAIN f.books[id].tracks,
         NEW p, NEW n
  PROVE  <<draw, p, n>> \notin DOMAIN tracks
<1>1. <<draw, p, n>>[1] = draw
  OBVIOUS
<1> QED BY <1>1 DEF NotDrawn

\* The identities after a scan know what it found, every book and every file.
LEMMA ScanKnows ==
  ASSUME NEW f, FileShaped(f), \A id \in DOMAIN f.books : Listed(f.books[id]),
         NEW groups, NEW draw, NotDrawn(f, draw),
         NEW result, result = Resolve(f, groups, draw)
  PROVE  /\ \A id \in DOMAIN result.store.books :
              /\ Listed(result.store.books[id])
              /\ \A t \in DOMAIN result.store.books[id].tracks :
                   t[1] = draw \/ \E other \in DOMAIN f.books : t \in DOMAIN f.books[other].tracks
         /\ \A new : Describes(new, groups, result) =>
              \A p \in DOMAIN new : Knows(result.store.books, p, new[p])
<1>1. \A p : <<draw, p>> \notin DOMAIN f.books
  <2>1. \A p : <<draw, p>>[1] = draw
    OBVIOUS
  <2> QED BY <2>1 DEF NotDrawn
<1>2. PICK after : after = result.store.books
  OBVIOUS
<1>3. /\ DOMAIN after = DOMAIN f.books \cup {result.ids[p] : p \in DOMAIN groups}
      /\ \A id \in DOMAIN f.books :
           (\A p \in DOMAIN groups : result.ids[p] # id) => after[id] = f.books[id]
  BY <1>1, <1>2, ResolveMatches
<1>4. ASSUME NEW p \in DOMAIN groups
      PROVE  LET e == after[result.ids[p]]
                 ids == result.tracks[p]
             IN  /\ Listed(e) /\ e.fp = groups[p].fp /\ PathMatches(e, p)
                 /\ \A t \in DOMAIN e.tracks :
                      t[1] = draw \/ \E id \in DOMAIN f.books : t \in DOMAIN f.books[id].tracks
                 /\ \A n \in DOMAIN groups[p].files :
                      /\ ids[n] \in DOMAIN e.tracks /\ e.tracks[ids[n]].fp = groups[p].files[n]
                      /\ <<p, n>> \in Members(e.tracks[ids[n]].paths)
  <2>1. PICK g, id, ids : g = groups[p] /\ id = result.ids[p] /\ ids = result.tracks[p]
    OBVIOUS
  <2>2. PICK entry \in EntryFor(f.books, g, p, id) :
          /\ ids = TrackIds(entry.tracks, p, g.files, draw)
          /\ after[id] = Refreshed(entry, p, g, f.counter + 1, ids)
    BY <1>1, <1>2, <2>1, Resolution
  <2>3. PICK e : e = after[id]
    OBVIOUS
  <2>4. /\ Listed(entry)
        /\ \A t \in DOMAIN entry.tracks :
             \E other \in DOMAIN f.books : t \in DOMAIN f.books[other].tracks
    BY EntriesAreListed
  <2>5. \A n \in DOMAIN g.files : <<draw, p, n>> \notin DOMAIN entry.tracks
    BY <2>4, TracksNotDrawn
  <2>6. /\ DOMAIN ids = DOMAIN g.files
        /\ \A n \in DOMAIN g.files : ids[n] \in DOMAIN entry.tracks \/ ids[n] = <<draw, p, n>>
        /\ \A n, m \in DOMAIN g.files : ids[n] = ids[m] => n = m
    BY <2>2, <2>5, TrackIdsAre
  <2>7. e = Refreshed(entry, p, g, f.counter + 1, ids)
    BY <2>2, <2>3
  <2>8. /\ Listed(e) /\ e.fp = g.fp /\ PathMatches(e, p)
        /\ DOMAIN e.tracks = DOMAIN entry.tracks \cup {ids[n] : n \in DOMAIN g.files}
        /\ \A n \in DOMAIN g.files :
             /\ ids[n] \in DOMAIN e.tracks /\ e.tracks[ids[n]].fp = g.files[n]
             /\ <<p, n>> \in Members(e.tracks[ids[n]].paths)
    BY <2>4, <2>6, <2>7, RefreshedIs
  <2>9. \A n : <<draw, p, n>>[1] = draw
    OBVIOUS
  <2>10. \A t \in DOMAIN e.tracks :
           t[1] = draw \/ \E other \in DOMAIN f.books : t \in DOMAIN f.books[other].tracks
    BY <2>4, <2>6, <2>8, <2>9
  <2> QED BY <2>1, <2>3, <2>8, <2>10
<1>5. ASSUME NEW id \in DOMAIN after
      PROVE  /\ Listed(after[id])
             /\ \A t \in DOMAIN after[id].tracks :
                  t[1] = draw \/ \E other \in DOMAIN f.books : t \in DOMAIN f.books[other].tracks
  <2>1. CASE \E p \in DOMAIN groups : result.ids[p] = id
    BY <1>4, <2>1
  <2>2. CASE id \in DOMAIN f.books /\ \A p \in DOMAIN groups : result.ids[p] # id
    BY <1>3, <2>2
  <2> QED BY <1>3, <2>1, <2>2
<1>6. ASSUME NEW new, Describes(new, groups, result), NEW p \in DOMAIN new
      PROVE  Knows(after, p, new[p])
  <2>1. /\ p \in DOMAIN groups /\ new[p].id = result.ids[p] /\ new[p].tracks = result.tracks[p]
        /\ new[p].files = groups[p].files /\ groups[p].fp = BookFingerprint(new[p].files)
    BY <1>6 DEF Describes
  <2>2. result.ids[p] \in DOMAIN after
    BY <1>3, <2>1
  <2>3. after[result.ids[p]].fp = groups[p].fp /\ PathMatches(after[result.ids[p]], p)
    BY <1>4, <2>1
  <2>4. \A n \in DOMAIN groups[p].files :
          LET t == result.tracks[p][n]
              tracks == after[result.ids[p]].tracks
          IN  /\ t \in DOMAIN tracks /\ tracks[t].fp = groups[p].files[n]
              /\ <<p, n>> \in Members(tracks[t].paths)
    BY <1>4, <2>1
  <2> QED BY <2>1, <2>2, <2>3, <2>4 DEF Knows, Digest
<1> QED BY <1>2, <1>5, <1>6

\* A claimed book and its claimed files have the identifiers that were claimed.
LEMMA WhatIsClaimed ==
  ASSUME NEW f, FileShaped(f), NEW groups, NEW draw, NotDrawn(f, draw),
         NEW result, result = Resolve(f, groups, draw),
         NEW p, NEW id, <<p, id>> \in FirstFivePasses(f, groups),
         NEW tracks, tracks = f.books[id].tracks, NEW files, files = groups[p].files
  PROVE  /\ result.ids[p] = id
         /\ \A d \in TrackClaims(tracks, p, files) : result.tracks[p][d[1]] = d[2]
<1> DEFINE c == <<p, id>>
<1>1. c[1] = p /\ c[2] = id
  OBVIOUS
<1>2. \A q : <<draw, q>> \notin DOMAIN f.books
  <2>1. \A q : <<draw, q>>[1] = draw
    OBVIOUS
  <2> QED BY <2>1 DEF NotDrawn
<1>3. FirstFivePasses(f, groups) \subseteq BookClaims(f, groups)
  BY LastClaims DEF BookClaims
<1> HIDE DEF c
<1>4. c \in FirstFivePasses(f, groups)
  BY DEF c
<1>5. result.ids[p] = id
        /\ result.tracks[p] = TrackIds(f.books[id].tracks, p, groups[p].files, draw)
  BY <1>1, <1>2, <1>3, <1>4, Resolution
<1>0. id \in DOMAIN f.books
  BY <1>1, <1>4, FirstClaims DEF ClaimsBy
<1>6. PICK ids : ids = result.tracks[p]
  OBVIOUS
<1>7. \A n \in DOMAIN files : <<draw, p, n>> \notin DOMAIN tracks
  BY <1>0, TracksNotDrawn
<1>8. ids = TrackIds(tracks, p, files, draw)
  BY <1>5, <1>6
<1>9. \A d \in TrackClaims(tracks, p, files) : ids[d[1]] = d[2]
  BY <1>7, <1>8, TrackIdsAre
<1> QED BY <1>5, <1>6, <1>9

\* Books left where they were keep their identifiers, and so do those that were
\* moved.
LEMMA ScanKeepsPlaces ==
  ASSUME NEW f, FileShaped(f), NEW groups, NEW draw, NotDrawn(f, draw),
         NEW result, result = Resolve(f, groups, draw),
         NEW new, Describes(new, groups, result), NEW old
  PROVE  KeptInPlace(old, new, f.books)
<1> SUFFICES ASSUME NEW p \in DOMAIN old \cap DOMAIN new,
                    Knows(f.books, p, old[p]), new[p].files = old[p].files,
                    \A q \in DOMAIN new \ {p} :
                      Digest(new[q]) = Digest(old[p]) => ~PathMatches(f.books[old[p].id], q),
                    \A other \in DOMAIN f.books \ {old[p].id} :
                      f.books[other].fp = Digest(old[p]) => ~PathMatches(f.books[other], p)
             PROVE  /\ new[p].id = old[p].id
                    /\ \A n \in DOMAIN old[p].files :
                         LET files == old[p].files
                             tracks == f.books[old[p].id].tracks
                             t == old[p].tracks[n]
                         IN  /\ \A m \in DOMAIN files \ {n} :
                                   files[m] = files[n] => <<p, m>> \notin Members(tracks[t].paths)
                             /\ \A u \in DOMAIN tracks \ {t} :
                                   tracks[u].fp = files[n] => <<p, n>> \notin Members(tracks[u].paths)
                             => new[p].tracks[n] = t
  BY DEF KeptInPlace
<1>1. PICK id, files, tracks :
        id = old[p].id /\ files = old[p].files /\ tracks = f.books[id].tracks
  OBVIOUS
<1>2. /\ id \in DOMAIN f.books /\ f.books[id].fp = BookFingerprint(files)
      /\ PathMatches(f.books[id], p)
      /\ \A n \in DOMAIN files : LET t == old[p].tracks[n] IN
           /\ t \in DOMAIN tracks
           /\ tracks[t].fp = files[n] /\ <<p, n>> \in Members(tracks[t].paths)
  BY <1>1 DEF Knows, Digest
<1>3. /\ DOMAIN new = DOMAIN groups
      /\ \A q \in DOMAIN groups : /\ new[q].id = result.ids[q] /\ new[q].tracks = result.tracks[q]
                                  /\ new[q].files = groups[q].files
                                  /\ groups[q].fp = Digest(new[q])
  BY DEF Describes, Digest
<1>4. groups[p].fp = BookFingerprint(files) /\ Digest(old[p]) = BookFingerprint(files)
      /\ groups[p].files = files
  BY <1>1, <1>3 DEF Digest
<1>5. <<p, id>> \in FirstFivePasses(f, groups)
  BY <1>1, <1>2, <1>3, <1>4, ClaimedInPlace
<1>6. /\ result.ids[p] = id
      /\ \A d \in TrackClaims(tracks, p, files) : result.tracks[p][d[1]] = d[2]
  <2>1. groups[p].files = files /\ f.books[id].tracks = tracks
    BY <1>1, <1>4
  <2> QED BY <1>5, <2>1, WhatIsClaimed
<1>7. ASSUME NEW n \in DOMAIN files, NEW t, t = old[p].tracks[n],
             \A m \in DOMAIN files \ {n} :
               files[m] = files[n] => <<p, m>> \notin Members(tracks[t].paths),
             \A u \in DOMAIN tracks \ {t} :
               tracks[u].fp = files[n] => <<p, n>> \notin Members(tracks[u].paths)
      PROVE  new[p].tracks[n] = t
  <2>1. t \in DOMAIN tracks /\ tracks[t].fp = files[n] /\ <<p, n>> \in Members(tracks[t].paths)
    BY <1>2, <1>7
  <2>2. <<n, t>> \in TrackClaims(tracks, p, files)
    BY <1>7, <2>1, FilesClaimed
  <2>3. PICK d : d = <<n, t>>
    OBVIOUS
  <2>4. d \in TrackClaims(tracks, p, files) /\ d[1] = n /\ d[2] = t
    BY <2>2, <2>3
  <2>5. result.tracks[p][n] = t
    BY <1>6, <2>4
  <2> QED BY <1>3, <2>5
<1>8. new[p].id = id
  BY <1>3, <1>6
<1> QED BY <1>1, <1>7, <1>8

\* Books that moved have the identifiers that their files were saved with.
LEMMA ScanKeepsMoved ==
  ASSUME NEW f, FileShaped(f), NEW groups, NEW draw, NotDrawn(f, draw),
         NEW result, result = Resolve(f, groups, draw),
         NEW new, Describes(new, groups, result)
  PROVE  KeptWhenMoved(new, f.books)
<1> SUFFICES ASSUME NEW q \in DOMAIN new, NEW id \in DOMAIN f.books,
                    Digest(new[q]) = f.books[id].fp, AloneIn(new, q),
                    OnlyEntry(f.books, f.books[id].fp, id)
             PROVE  /\ new[q].id = id
                    /\ \A m \in DOMAIN new[q].files, t \in DOMAIN f.books[id].tracks :
                         /\ new[q].files[m] = f.books[id].tracks[t].fp /\ OnlyFile(new[q].files, m)
                         /\ OnlyEntry(f.books[id].tracks, new[q].files[m], t)
                         => new[q].tracks[m] = t
  BY DEF KeptWhenMoved
<1>1. PICK files, tracks : files = new[q].files /\ tracks = f.books[id].tracks
  OBVIOUS
<1>3. /\ DOMAIN new = DOMAIN groups
      /\ \A r \in DOMAIN groups : /\ new[r].id = result.ids[r] /\ new[r].tracks = result.tracks[r]
                                  /\ new[r].files = groups[r].files
                                  /\ groups[r].fp = Digest(new[r])
  BY DEF Describes, Digest
<1>4. \A r \in DOMAIN groups : groups[r].fp = groups[q].fp => r = q
  BY <1>3 DEF AloneIn
<1>5. OnlyEntry(f.books, groups[q].fp, id)
  BY <1>3
<1>6. <<q, id>> \in FirstFivePasses(f, groups)
  BY <1>3, <1>4, <1>5, ClaimedByDigest, SteadyAreMade
<1>7. /\ result.ids[q] = id
      /\ \A d \in TrackClaims(tracks, q, files) : result.tracks[q][d[1]] = d[2]
  <2>1. groups[q].files = files /\ f.books[id].tracks = tracks
    BY <1>1, <1>3
  <2> QED BY <1>6, <2>1, WhatIsClaimed
<1>8. ASSUME NEW m \in DOMAIN files, NEW t \in DOMAIN tracks,
             OnlyFile(files, m), OnlyEntry(tracks, files[m], t)
      PROVE  new[q].tracks[m] = t
  <2>2. <<m, t>> \in TrackClaims(tracks, q, files)
    BY <1>8, FilesClaimed
  <2>3. PICK d : d = <<m, t>>
    OBVIOUS
  <2>4. d \in TrackClaims(tracks, q, files) /\ d[1] = m /\ d[2] = t
    BY <2>2, <2>3
  <2>5. result.tracks[q][m] = t
    BY <1>7, <2>4
  <2> QED BY <1>3, <2>5
<1>9. new[q].id = id
  BY <1>3, <1>7
<1> QED BY <1>1, <1>8, <1>9

\* Whatever is claimed has the digest of the group, or has been where it is.
LEMMA ClaimsHaveEvidence ==
  ASSUME NEW f, NEW groups
  PROVE  \A c \in BookClaims(f, groups) :
           /\ c[1] \in DOMAIN groups /\ c[2] \in DOMAIN f.books /\ c = <<c[1], c[2]>>
           /\ \/ MatchesFingerprint(f.books[c[2]], groups[c[1]].fp)
              \/ PathMatches(f.books[c[2]], c[1])
<1> DEFINE Evident(claims) == \A c \in claims :
             /\ c[1] \in DOMAIN groups /\ c[2] \in DOMAIN f.books /\ c = <<c[1], c[2]>>
             /\ \/ MatchesFingerprint(f.books[c[2]], groups[c[1]].fp)
                \/ PathMatches(f.books[c[2]], c[1])
<1>1. ASSUME NEW claims, NEW edges, Evident(claims), Evident(edges)
      PROVE  Evident(Claim(claims, edges))
  BY <1>1, ClaimAdds
<1>2. \A claims : Evident(RemembersContents(f.books, groups, claims))
                  /\ Evident(PathOnly(f.books, groups, claims))
  BY DEF RemembersContents, PathOnly, Pairs
<1>3. PICK current, here, one, steady, known, second, moved, third, remux :
        /\ Passes(f, groups, current, here, one, steady, known, second, moved, third, remux)
        /\ FirstFivePasses(f, groups) = Claim(third, remux)
  BY PassesAre
<1>4. Evident({}) /\ Evident(current) /\ Evident(here)
  <2>1. current = {e \in Pairs(DOMAIN groups, DOMAIN f.books) :
                     f.books[e[2]].fp = groups[e[1]].fp}
    BY <1>3, Zenon DEF Passes
  <2>2. here = {e \in current : PathMatches(f.books[e[2]], e[1])}
    BY <1>3, Zenon DEF Passes
  <2>3. Evident(current)
    BY <2>1 DEF Pairs, MatchesFingerprint
  <2>4. here \subseteq current
    BY <2>2
  <2> QED BY <2>3, <2>4
<1>5. Evident(known) /\ Evident(moved) /\ Evident(remux)
  <2>1. /\ known \subseteq RemembersContents(f.books, groups, steady)
        /\ moved \subseteq RemembersContents(f.books, groups, second)
        /\ remux \subseteq PathOnly(f.books, groups, third)
    BY <1>3 DEF Passes
  <2> QED BY <1>2, <2>1
<1>6. PICK edges : /\ BookClaims(f, groups) = Claim(FirstFivePasses(f, groups), edges)
                   /\ Evident(edges)
  <2>1. PICK first : first = FirstFivePasses(f, groups)
    OBVIOUS
  <2> DEFINE Waiting(i) == /\ i.seen = 0 /\ f.counter = 0
                           /\ i.fp \in f.manifest.fingerprints
             edges == {e \in PathOnly(f.books, groups, first) :
                         /\ RecentlySeen(f.books[e[2]], f.counter + 1) \/ Waiting(f.books[e[2]])
                         /\ OnlyIgnoredAreGone(f.books[e[2]], e[1], groups[e[1]].files)}
  <2>2. BookClaims(f, groups) = Claim(first, edges)
    BY <2>1 DEF BookClaims, SidecarClaims
  <2>3. edges \subseteq PathOnly(f.books, groups, first)
    OBVIOUS
  <2> HIDE DEF edges
  <2>4. Evident(edges)
    BY <1>2, <2>3
  <2> QED BY <2>1, <2>2, <2>4
<1> HIDE DEF Evident
<1>0. /\ one = Claim({}, here) /\ steady = Claim(one, current)
      /\ second = Claim(steady, known) /\ third = Claim(second, moved)
      /\ FirstFivePasses(f, groups) = Claim(third, remux)
  BY <1>3, Zenon DEF Passes
<1>7. Evident(one)
  BY <1>0, <1>1, <1>4
<1>8. Evident(steady)
  BY <1>0, <1>1, <1>4, <1>7
<1>9. Evident(second)
  BY <1>0, <1>1, <1>5, <1>8
<1>10. Evident(third)
  BY <1>0, <1>1, <1>5, <1>9
<1>11. Evident(FirstFivePasses(f, groups))
  BY <1>0, <1>1, <1>5, <1>10
<1>12. Evident(BookClaims(f, groups))
  BY <1>1, <1>6, <1>11
<1> QED BY <1>12 DEF Evident

--------------------------------------------------------------------------------
(* A book rewritten in place.                                                  *)

\* It keeps its identifiers, if it was seen lately and nothing else is as good a
\* match: KeptWhenRewritten, of one book, but for the lengths that are wrong.
KeepsRewritten(old, new, base, counter, p) ==
  LET id == old[p].id IN
  /\ Knows(base, p, old[p])
  /\ DOMAIN new[p].files = DOMAIN old[p].files
  /\ Shape(new[p].contents) = Shape(old[p].contents)
  /\ RecentlySeen(base[id], counter)
  /\ Uncontested(new, base, p, id, {Digest(old[p]), Digest(new[p])})
  => /\ new[p].id = id
     /\ \A n \in DOMAIN old[p].files :
          UncontestedTrack(base[id].tracks, p, old[p].files, new[p].files, n, old[p].tracks[n])
          => new[p].tracks[n] = old[p].tracks[n]

\* The stored length that a scan leaves right was told by its tags, or was there.
LEMMA LengthIsRight ==
  ASSUME NEW f, FileShaped(f), \A id \in DOMAIN f.books : Listed(f.books[id]),
         NEW groups, NEW draw, \A p \in DOMAIN groups : <<draw, p>> \notin DOMAIN f.books,
         NEW result, result = Resolve(f, groups, draw), NEW p \in DOMAIN groups,
         result.store.books[result.ids[p]].length = TrueLength(groups[p].files)
  PROVE  groups[p].length = TrueLength(groups[p].files) \/ p \in Placed(BookClaims(f, groups))
<1> SUFFICES ASSUME p \notin Placed(BookClaims(f, groups))
             PROVE  groups[p].length = TrueLength(groups[p].files)
  OBVIOUS
<1>1. PICK g, id, ids : g = groups[p] /\ id = result.ids[p] /\ ids = result.tracks[p]
  OBVIOUS
<1>2. id = <<draw, p>>
  BY <1>1, Resolution
<1>3. PICK entry \in EntryFor(f.books, g, p, id) :
        result.store.books[id] = Refreshed(entry, p, g, f.counter + 1, ids)
  BY <1>1, Resolution
<1>4. entry = MintedBook(g)
  BY <1>2, <1>3 DEF EntryFor
<1>5. Listed(entry)
  BY EntriesAreListed
<1>6. IdentityShaped(entry) /\ entry.length = NoLength
  BY <1>4, <1>5 DEF Listed, MintedBook
<1>7. Refreshed(entry, p, g, f.counter + 1, ids).length
        = IF g.length = NoLength THEN entry.length ELSE g.length
  BY <1>6, RefreshedLength
<1>8. g.length = TrueLength(g.files) \/ TrueLength(g.files) = NoLength
  BY <1>1, <1>3, <1>6, <1>7
<1>9. TrueLength(g.files) # NoLength
  BY DEF TrueLength, NoLength
<1> QED BY <1>1, <1>8, <1>9

\* A claim that nothing contests, of a matched identity of the shape of the group.
LEMMA ClaimedUncontested ==
  ASSUME NEW f, FileShaped(f), \A id \in DOMAIN f.books : Listed(f.books[id]),
         NEW groups, NEW draw, \A q \in DOMAIN groups : <<draw, q>> \notin DOMAIN f.books,
         NEW result, result = Resolve(f, groups, draw),
         NEW new, Describes(new, groups, result),
         NEW p \in DOMAIN groups, GroupOf(groups[p]), NEW id \in DOMAIN f.books, NEW i, i = f.books[id],
         NEW s, Matched(i, s), Shape(groups[p].files) = s,
         PathMatches(i, p), RecentlySeen(i, f.counter + 1),
         NEW digests, Digest(new[p]) \in digests, Uncontested(new, f.books, p, id, digests),
         result.store.books[result.ids[p]].length = TrueLength(groups[p].files)
  PROVE  <<p, id>> \in FirstFivePasses(f, groups)
<1>1. PICK g : g = groups[p]
  OBVIOUS
<1>2. /\ DOMAIN new = DOMAIN groups
      /\ \A q \in DOMAIN groups : groups[q].fp = Digest(new[q])
  BY DEF Describes, Digest
<1>3. /\ \A q \in DOMAIN groups \ {p} :
           /\ ~MatchesFingerprint(i, groups[q].fp)
           /\ PathMatches(i, q) =>
                /\ \A r \in DOMAIN groups : groups[r].fp = groups[q].fp => r = q
                /\ \E other : OnlyEntry(f.books, groups[q].fp, other)
      /\ \A other \in DOMAIN f.books \ {id} :
           ~PathMatches(f.books[other], p) /\ ~MatchesFingerprint(f.books[other], g.fp)
  BY <1>1, <1>2 DEF Uncontested, AloneIn
<1>4. s = <<i.count, i.length>> /\ s = <<Cardinality(DOMAIN g.files), TrueLength(g.files)>>
  BY <1>1 DEF Matched, Shape
<1>5. i.count = Cardinality(DOMAIN g.files) /\ i.length = TrueLength(g.files)
  BY <1>4
<1>6. CASE g.length = TrueLength(g.files)
  <2>1. LayoutMatches(i, g)
    BY <1>5, <1>6 DEF LayoutMatches
  <2>2. ASSUME NEW q \in DOMAIN groups \ {p}, PathMatches(i, q)
        PROVE  q \in Placed(SteadyClaims(f.books, groups))
    <3>1. PICK other : OnlyEntry(f.books, groups[q].fp, other)
      BY <1>3, <2>2
    <3>2. \A r \in DOMAIN groups : groups[r].fp = groups[q].fp => r = q
      BY <1>3, <2>2
    <3>3. <<q, other>> \in SteadyClaims(f.books, groups)
      BY <3>1, <3>2, ClaimedByDigest
    <3>4. PICK c : c = <<q, other>>
      OBVIOUS
    <3>5. c \in SteadyClaims(f.books, groups) /\ c[1] = q
      BY <3>3, <3>4
    <3> QED BY <3>5 DEF Placed
  <2> QED BY <1>1, <1>3, <2>1, <2>2, ClaimedByLayout
<1>7. CASE g.length # TrueLength(g.files)
  <2>1. p \in Placed(BookClaims(f, groups))
    BY <1>1, <1>7, LengthIsRight
  <2>2. PICK c \in BookClaims(f, groups) : c[1] = p
    BY <2>1 DEF Placed
  <2>3. /\ c[2] \in DOMAIN f.books /\ c = <<c[1], c[2]>>
        /\ MatchesFingerprint(f.books[c[2]], g.fp) \/ PathMatches(f.books[c[2]], p)
    BY <1>1, <2>2, ClaimsHaveEvidence
  <2>4. c[2] = id
    BY <1>3, <2>3
  <2>5. c = <<p, id>>
    BY <2>2, <2>3, <2>4
  <2>6. c \in FirstFivePasses(f, groups)
    <3>1. PICK first : first = FirstFivePasses(f, groups)
      OBVIOUS
    <3>2. c \in SidecarClaims(f, groups, first)
      BY <3>1 DEF BookClaims
    <3>3. c \notin first => LeftOver(f.books[c[2]], c[1], groups[c[1]])
      BY <3>2, LastClaims
    <3>4. ~OnlyIgnoredAreGone(i, p, g.files)
      BY <1>1, MatchedEvidence
    <3> QED BY <1>1, <2>2, <2>4, <3>1, <3>3, <3>4 DEF LeftOver
  <2> QED BY <2>5, <2>6
<1> QED BY <1>6, <1>7

\* A book of audio, every file of which could be read.
WasRead(entry) == Plain(entry.files) /\ entry.contents = entry.files

\* A book rewritten in place, that was seen lately and whose length is known.
LEMMA ScanKeepsRewritten ==
  ASSUME NEW f, FileShaped(f), \A id \in DOMAIN f.books : Listed(f.books[id]),
         NEW groups, NEW draw, NotDrawn(f, draw),
         NEW result, result = Resolve(f, groups, draw),
         NEW new, Describes(new, groups, result),
         NEW old, NEW p \in DOMAIN old \cap DOMAIN new, WasRead(old[p]), WasRead(new[p]),
         NEW s, Has(f, old[p].id, s),
         result.store.books[result.ids[p]].length = TrueLength(groups[p].files)
  PROVE  KeepsRewritten(old, new, f.books, f.counter + 1, p)
<1>1. PICK id, before, after, tracks :
        id = old[p].id /\ before = old[p].files /\ after = new[p].files
        /\ tracks = f.books[id].tracks
  OBVIOUS
<1> SUFFICES ASSUME Knows(f.books, p, old[p]), DOMAIN after = DOMAIN before,
                    Shape(after) = Shape(before),
                    RecentlySeen(f.books[id], f.counter + 1),
                    Uncontested(new, f.books, p, id, {Digest(old[p]), Digest(new[p])})
             PROVE  /\ new[p].id = id
                    /\ \A n \in DOMAIN before :
                         UncontestedTrack(tracks, p, before, after, n, old[p].tracks[n])
                         => new[p].tracks[n] = old[p].tracks[n]
  BY <1>1 DEF KeepsRewritten, WasRead
<1>2. /\ id \in DOMAIN f.books /\ f.books[id].fp = BookFingerprint(before)
      /\ PathMatches(f.books[id], p)
      /\ \A n \in DOMAIN before : LET t == old[p].tracks[n] IN
           /\ t \in DOMAIN tracks
           /\ tracks[t].fp = before[n] /\ <<p, n>> \in Members(tracks[t].paths)
  BY <1>1 DEF Knows, Digest
<1>3. /\ p \in DOMAIN groups
      /\ new[p].id = result.ids[p] /\ new[p].tracks = result.tracks[p] /\ groups[p].files = after
      /\ GroupOf(groups[p])
  BY <1>1 DEF Describes, GroupOf, WasRead
<1>4. PICK i : i = f.books[id]
  OBVIOUS
<1>5. i.seen # 0
  BY <1>4 DEF RecentlySeen
<1>6. Matched(i, s)
  BY <1>1, <1>2, <1>4, <1>5 DEF Has
<1>7. Shape(before) = s
  <2>1. Tells(BookFingerprint(before), s)
    BY <1>2, <1>4, <1>6 DEF Matched
  <2>2. Plain(before)
    BY <1>1 DEF WasRead
  <2> QED BY <2>1, <2>2, HiddenInDigest, ShapeOfDigest DEF Plain, Tells
<1>8. \A q \in DOMAIN groups : <<draw, q>> \notin DOMAIN f.books
  <2>1. \A q : <<draw, q>>[1] = draw
    OBVIOUS
  <2> QED BY <2>1 DEF NotDrawn
<1>9. <<p, id>> \in FirstFivePasses(f, groups)
  <2>1. PICK digests : digests = {Digest(old[p]), Digest(new[p])}
    OBVIOUS
  <2>2. Uncontested(new, f.books, p, id, digests) /\ Digest(new[p]) \in digests
    BY <2>1
  <2>3. Shape(groups[p].files) = s
    BY <1>3, <1>7
  <2> QED BY <1>2, <1>3, <1>4, <1>6, <1>8, <2>2, <2>3, ClaimedUncontested
<1>10. /\ result.ids[p] = id
       /\ \A d \in TrackClaims(tracks, p, after) : result.tracks[p][d[1]] = d[2]
  <2>1. groups[p].files = after /\ f.books[id].tracks = tracks
    BY <1>1, <1>3
  <2> QED BY <1>9, <2>1, WhatIsClaimed
<1>11. ASSUME NEW n \in DOMAIN before, NEW t, t = old[p].tracks[n],
              UncontestedTrack(tracks, p, before, after, n, t)
       PROVE  new[p].tracks[n] = t
  <2>1. t \in DOMAIN tracks /\ tracks[t].fp = before[n] /\ <<p, n>> \in Members(tracks[t].paths)
    BY <1>2, <1>11
  <2>2. n \in DOMAIN after
    OBVIOUS
  <2>3. /\ \A m \in DOMAIN after \ {n} : /\ after[m] # tracks[t].fp
                                         /\ <<p, m>> \notin Members(tracks[t].paths)
        /\ \A u \in DOMAIN tracks \ {t} : /\ tracks[u].fp # after[n]
                                          /\ <<p, n>> \notin Members(tracks[u].paths)
    BY <1>11, <2>1 DEF UncontestedTrack
  <2>4. <<n, t>> \in TrackClaims(tracks, p, after)
    BY <2>1, <2>2, <2>3, FilesClaimed
  <2>5. PICK d : d = <<n, t>>
    OBVIOUS
  <2>6. d \in TrackClaims(tracks, p, after) /\ d[1] = n /\ d[2] = t
    BY <2>4, <2>5
  <2>7. result.tracks[p][n] = t
    BY <1>10, <2>6
  <2> QED BY <1>3, <2>7
<1>12. new[p].id = id
  BY <1>3, <1>10
<1> QED BY <1>11, <1>12

--------------------------------------------------------------------------------
(* The books that were known keep their identifiers.                           *)

\* Lists are lists, and tracks in use are not drawn again either.
IdsListed(f) ==
  \A id \in DOMAIN f.books : /\ Listed(f.books[id])
                             /\ \A t \in DOMAIN f.books[id].tracks : Drawn(t)

ListedInv ==
  /\ IdsListed(file) /\ \A b \in backups : IdsListed(b.file)
  /\ scan.phase = "resolved" => IdsListed(scan.store)

\* What is published, and what a scan has resolved, is audio, and could be read
\* where its identifier is not in doubt.
AudioIn(books, wrong) == \A p \in DOMAIN books : books[p].id \notin wrong => WasRead(books[p])

AudioInv ==
  /\ AudioIn(catalogue, doubtful)
  /\ scan.phase \in Resolved => AudioIn(scan.books, doubtful)

\* What a scan resolved from the identities `base` is known to the identities
\* `known`, and keeps what any catalogue of audio files that could be read would
\* have to keep.
Kept(books, base, known, counter, wrong) ==
  /\ \A p \in DOMAIN books : Knows(known, p, books[p])
  /\ \A old : KeptInPlace(old, books, base)
  /\ KeptWhenMoved(books, base)
  /\ \A old : \A p \in DOMAIN old \cap DOMAIN books :
       WasRead(old[p]) /\ {old[p].id, books[p].id} \cap wrong = {}
       => KeepsRewritten(old, books, base, counter, p)

KeptInv ==
  /\ scan.phase = "resolved" =>
       Kept(scan.books, file.books, scan.store.books, scan.store.counter, doubtful)
  /\ scan.phase \in {"saved", "recorded"} =>
       Kept(scan.books, scan.base, file.books, file.counter, doubtful)

KeepingInv == ListedInv /\ AudioInv /\ KeptInv

\* What a scan has resolved stays, with the identities around it, until the scan
\* ends: nothing else writes them.
LEMMA ResolvedStays ==
  ASSUME LibraryInv, [Next]_vars, ~ResolveScan, ~SaveIdentities, ~SaveWorks
  PROVE  \/ scan'.phase \notin Resolved
         \/ /\ scan' = scan /\ doubtful' = doubtful
            /\ scan.phase \in Resolved => file' = file
<1> DEFINE Stays == /\ scan' = scan /\ doubtful' = doubtful
                    /\ scan.phase \in Resolved => file' = file
           Ends == scan'.phase \notin Resolved
<1>1. NoScan.phase \notin Resolved
  BY DEF NoScan, Resolved
<1>2. CASE Disk
  <2>1. ASSUME NEW changed, EditDisk(changed)
        PROVE  Stays
    BY <2>1 DEF EditDisk, store, ghosts
  <2>2. ASSUME NEW seen, NEW broken, Remount(seen, broken)
        PROVE  Stays
    BY <2>2 DEF Remount, store, ghosts
  <2> HIDE DEF Stays
  <2>3. Stays
    BY <1>2, <2>1, <2>2, Zenon DEF Disk, Place, Move, Remove, Rewrite, Shuffle
  <2> QED BY <2>3 DEF Stays
<1>3. CASE Walk \/ SaveObservation \/ ReadFails \/ SaveFails \/ Publish
  <2>1. Ends
    BY <1>1, <1>3 DEF Walk, SaveObservation, ReadFails, SaveFails, Publish, Resolved
  <2> QED BY <2>1
<1>4. CASE ReadFingerprints \/ ReadTags
  <2>1. /\ DOMAIN scan = {"phase", "read", "files", "contents", "lengths", "names"}
        /\ scan.phase = "walked"
    <3>1. scan.phase = "walked"
      BY <1>4, Zenon DEF ReadFingerprints, ReadTags
    <3> QED BY <3>1, WalkedScan
  <2>2. PICK read, files, contents, lengths :
          \/ scan' = [scan EXCEPT !.read = read, !.files = files, !.contents = contents]
          \/ scan' = [scan EXCEPT !.read = read, !.lengths = lengths]
    BY <1>4, Zenon DEF ReadFingerprints, ReadTags
  <2>3. Ends
    BY <2>1, <2>2 DEF Resolved
  <2> QED BY <2>3
<1>5. CASE Requests
  <2>1. scan' = scan /\ doubtful' = doubtful
    BY <1>5, Zenon DEF Requests, StoreEdit, ShowEdit, SavePlace, Export, RestoreDatabase,
          RestoreIdentities, RestoreFails, store, ghosts
  <2>2. CASE RestoreIdentities
    <3>1. scan = NoScan
      BY <2>2 DEF RestoreIdentities, LibraryInv, LockInv, NoRestore
    <3> QED BY <1>1, <2>1, <3>1
  <2>3. CASE ~RestoreIdentities
    <3>1. file' = file
      BY <1>5, <2>3, Zenon DEF Requests, StoreEdit, ShowEdit, SavePlace, Export, RestoreDatabase,
            RestoreFails, store
    <3> QED BY <2>1, <3>1
  <2> QED BY <2>2, <2>3
<1>6. CASE Crash
  BY <1>1, <1>6 DEF Crash
<1>7. CASE UNCHANGED vars
  BY <1>7 DEF vars
<1> HIDE DEF Stays, Ends
<1> QED BY <1>2, <1>3, <1>4, <1>5, <1>6, <1>7, Zenon DEF Next, Scanner

\* A published book is one of the scan, or was published before.
LEMMA PublishedFiles ==
  ASSUME LibraryInv, AudioInv, [Next]_vars
  PROVE  AudioIn(catalogue', doubtful)
<1>1. CASE catalogue' = catalogue
  BY <1>1 DEF AudioInv
<1>2. CASE Publish
  <2>1. /\ catalogue' = Published(scan.books)
        /\ AudioIn(scan.books, doubtful)
        /\ \A p \in DOMAIN scan.books : EntryShaped(scan.books[p])
    BY <1>2 DEF Publish, LibraryInv, LockInv, AudioInv, NoScan, Resolved
  <2>2. ASSUME NEW p \in DOMAIN scan.books
        PROVE  /\ catalogue'[p].id = scan.books[p].id
               /\ catalogue'[p].files = scan.books[p].files
               /\ catalogue'[p].contents = scan.books[p].contents
    <3>1. PICK entry, title : entry = scan.books[p] /\ title = db.overrides[entry.id]
      OBVIOUS
    <3>2. catalogue'[p] = entry \/ catalogue'[p] = [entry EXCEPT !.title = title]
      BY <2>1, <3>1 DEF Published
    <3> QED BY <2>1, <3>1, <3>2 DEF EntryShaped
  <2>3. DOMAIN catalogue' = DOMAIN scan.books
    BY <2>1 DEF Published
  <2> QED BY <2>1, <2>2, <2>3 DEF AudioIn, WasRead
<1>3. CASE \E e \in editors : ShowEdit(e)
  <2>1. PICK e \in editors : ShowEdit(e)
    BY <1>3
  <2>2. PICK id, title : id = e.id /\ title = e.value
    OBVIOUS
  <2>3. catalogue' = [p \in DOMAIN catalogue |->
                        IF catalogue[p].id = id
                        THEN [catalogue[p] EXCEPT !.title = title] ELSE catalogue[p]]
    BY <2>1, <2>2 DEF ShowEdit
  <2>4. ASSUME NEW p \in DOMAIN catalogue
        PROVE  /\ catalogue'[p].id = catalogue[p].id
               /\ catalogue'[p].files = catalogue[p].files
               /\ catalogue'[p].contents = catalogue[p].contents
    <3>1. PICK entry : entry = catalogue[p]
      OBVIOUS
    <3>2. catalogue'[p] = entry \/ catalogue'[p] = [entry EXCEPT !.title = title]
      BY <2>3, <3>1
    <3>3. EntryShaped(entry)
      BY <3>1 DEF LibraryInv, StoreInv
    <3> QED BY <3>1, <3>2, <3>3 DEF EntryShaped
  <2> QED BY <2>3, <2>4 DEF AudioInv, AudioIn, WasRead
<1>4. CASE Crash
  <2>1. DOMAIN catalogue' = {}
    BY <1>4 DEF Crash, NoFiles
  <2> QED BY <2>1 DEF AudioIn
<1>5. CASE Disk
  <2>1. catalogue' = catalogue
    BY <1>5, Zenon DEF Disk, Place, Move, Remove, Rewrite, Shuffle, EditDisk, Remount
  <2> QED BY <1>1, <2>1
<1>6. CASE Scanner /\ ~Publish
  <2>1. catalogue' = catalogue
    BY <1>6, Zenon DEF Scanner, Walk, SaveObservation, ReadFingerprints, ReadTags, ReadFails,
          ResolveScan, SaveIdentities, SaveWorks, SaveFails
  <2> QED BY <1>1, <2>1
<1>7. CASE Requests /\ ~\E e \in editors : ShowEdit(e)
  <2>1. catalogue' = catalogue
    BY <1>7, Zenon DEF Requests, StoreEdit, SavePlace, Export, RestoreDatabase,
          RestoreIdentities, RestoreFails
  <2> QED BY <1>1, <2>1
<1>8. CASE UNCHANGED vars
  BY <1>1, <1>8 DEF vars
<1> QED BY <1>2, <1>3, <1>4, <1>5, <1>6, <1>7, <1>8 DEF Next

\* A step that gives no identifier to a book draws none, and writes the lists of
\* identities that were there.
LEMMA ListsStay ==
  ASSUME LibraryInv, IdentifierInv, ListedInv, [Next]_vars, ~ResolveScan
  PROVE  ListedInv'
<1>1. CASE Publish
  <2>1. /\ file' = file /\ backups' = backups /\ spent' = spent /\ scan' = NoScan
        /\ scan'.phase = "idle"
    BY <1>1 DEF Publish, store, NoScan
  <2>2. ASSUME NEW t, Drawn(t)
        PROVE  Drawn(t)'
    BY <2>1, <2>2 DEF Drawn
  <2>3. ASSUME NEW f, IdsListed(f)
        PROVE  IdsListed(f)'
    BY <2>2, <2>3 DEF IdsListed
  <2>4. IdsListed(file)' /\ (\A b \in backups : IdsListed(b.file))'
    <3>1. IdsListed(file) /\ \A b \in backups : IdsListed(b.file)
      BY DEF ListedInv
    <3> QED BY <2>1, <2>2, <3>1 DEF IdsListed
  <2> QED BY <2>1, <2>4 DEF ListedInv
<1>2. CASE ~Publish
  <2>1. Quiet
    BY <1>2, AreQuiet DEF IdentifierInv
  <2>2. Scan \in 1..8 /\ spent.used[Scan] \in Nat /\ spent'.used[Scan] \in Nat
    BY <2>1 DEF Scan, IdentifierInv, DrawnInv, Quiet
  <2>3. ASSUME NEW t, Drawn(t)
        PROVE  Drawn(t)'
    BY <2>1, <2>2, <2>3 DEF Drawn, Quiet
  <2>4. ASSUME NEW f, Was(f)
        PROVE  IdsListed(f)'
    <3>1. IdsListed(f)
      BY <2>4 DEF Was, ListedInv, IdsListed
    <3> QED BY <2>3, <3>1 DEF IdsListed
  <2>5. PICK f, all : f = file' /\ all = backups'
    OBVIOUS
  <2>6. IdsListed(f)' /\ \A b \in all : IdsListed(b.file)'
    BY <2>1, <2>4, <2>5 DEF Quiet
  <2>7. IdsListed(file)' /\ (\A b \in backups : IdsListed(b.file))'
    BY <2>5, <2>6 DEF IdsListed
  <2>8. (scan.phase = "resolved" => IdsListed(scan.store))'
    <3>1. SUFFICES ASSUME scan'.phase = "resolved"
                   PROVE  IdsListed(scan.store)'
      OBVIOUS
    <3>2. PICK g : g = scan.store
      OBVIOUS
    <3>3. scan.phase = "resolved" /\ scan'.store = g
      BY <2>1, <3>1, <3>2 DEF Quiet
    <3>4. IdsListed(g)'
      BY <2>4, <3>2, <3>3 DEF Was
    <3> QED BY <3>3, <3>4 DEF IdsListed
  <2> QED BY <2>7, <2>8 DEF ListedInv
<1> QED BY <1>1, <1>2

\* What is resolved stays as it is until it is published.
LEMMA ResolvedIsKept ==
  ASSUME LibraryInv, DrawnInv, AudioInv, KeptInv, [Next]_vars, ~ResolveScan
  PROVE  AudioInv' /\ KeptInv'
<1>1. AudioIn(catalogue, doubtful)'
  <2>1. doubtful' = doubtful
    BY AreQuiet DEF Quiet, Publish
  <2> QED BY <2>1, PublishedFiles DEF AudioIn
<1>2. CASE SaveIdentities
  <2>1. PICK books, base : books = scan.books /\ base = file.books
    OBVIOUS
  <2>2. /\ scan.phase = "resolved" /\ file' = scan.store /\ doubtful' = doubtful
        /\ scan' = [phase |-> "saved", books |-> books, base |-> base]
    BY <1>2, <2>1 DEF SaveIdentities
  <2>3. scan'.phase = "saved" /\ scan'.books = books /\ scan'.base = base
    BY <2>2
  <2> QED BY <1>1, <2>1, <2>2, <2>3 DEF AudioInv, AudioIn, KeptInv, Resolved
<1>3. CASE SaveWorks
  <2>1. PICK books, base : books = scan.books /\ base = scan.base
    OBVIOUS
  <2>2. /\ scan.phase = "saved" /\ file' = file /\ doubtful' = doubtful
        /\ scan' = [scan EXCEPT !.phase = "recorded"]
    BY <1>3 DEF SaveWorks, ghosts
  <2>3. scan'.phase = "recorded" /\ scan'.books = books /\ scan'.base = base
    BY <2>1, <2>2
  <2> QED BY <1>1, <2>1, <2>2, <2>3 DEF AudioInv, AudioIn, KeptInv, Resolved
<1>4. CASE ~SaveIdentities /\ ~SaveWorks
  <2>1. CASE scan'.phase \notin Resolved
    BY <1>1, <2>1 DEF AudioInv, AudioIn, KeptInv, Resolved
  <2>2. CASE scan'.phase \in Resolved
    <3>1. scan' = scan /\ doubtful' = doubtful /\ file' = file
      BY <1>4, <2>2, ResolvedStays
    <3> QED BY <1>1, <3>1 DEF AudioInv, AudioIn, KeptInv
  <2> QED BY <2>1, <2>2
<1> QED BY <1>2, <1>3, <1>4

\* A scan keeps the identifiers of all that it can recognise, and knows the rest.
LEMMA ResolveKeeps ==
  ASSUME LibraryInv, ReadInv, IdentifierInv, KeepingInv, ResolveScan
  PROVE  KeepingInv'
<1>1. PICK draw : draw = spent.used[Scan]
  OBVIOUS
<1>2. PICK groups : groups = GroupsRead
  OBVIOUS
<1>3. PICK result : result = Resolve(file, groups, draw)
  OBVIOUS
<1>4. PICK books : books = [p \in DOMAIN scan.files |->
                             [id |-> result.ids[p], tracks |-> result.tracks[p],
                              files |-> scan.files[p], contents |-> scan.contents[p],
                              title |-> Title(db.overrides, result.ids[p])]]
  OBVIOUS
<1>5. PICK misjudged :
        misjudged = {result.ids[p] : p \in {q \in DOMAIN scan.files :
                       \/ scan.files[q] # scan.contents[q]
                       \/ result.store.books[result.ids[q]].length
                            # TrueLength(scan.contents[q])}}
  OBVIOUS
<1>6. /\ scan.phase = "walked" /\ "files" \in scan.read
      /\ scan' = [phase |-> "resolved", store |-> result.store, books |-> books]
      /\ doubtful' = doubtful \cup misjudged
      /\ file' = file /\ backups' = backups /\ spent' = spent /\ catalogue' = catalogue
  BY <1>1, <1>2, <1>3, <1>4, <1>5 DEF ResolveScan, store
<1>7. FileShaped(file) /\ file.counter \in Nat /\ draw \in Nat
  BY <1>1 DEF LibraryInv, StoreInv, IdentifierInv, CounterInv, DrawnInv, Scan
<1>8. /\ DOMAIN groups = DOMAIN scan.files
      /\ \A p \in DOMAIN groups : /\ groups[p].files = scan.files[p]
                                   /\ groups[p].fp = BookFingerprint(scan.files[p])
                                   /\ Plain(scan.contents[p])
  BY <1>2, <1>6 DEF GroupsRead, ReadInv
<1>9. NotDrawn(file, draw)
  <2>1. \A t : Drawn(t) => t[1] \in Nat /\ t[1] < draw
    BY <1>1, <1>6 DEF Drawn
  <2>2. \A id \in DOMAIN file.books : Drawn(id) /\ \A t \in DOMAIN file.books[id].tracks : Drawn(t)
    BY DEF IdentifierInv, DrawnInv, KeepingInv, ListedInv, IdsListed
  <2> QED BY <1>7, <2>1, <2>2 DEF NotDrawn
<1>10. Describes(books, groups, result)
  <2>1. /\ DOMAIN books = DOMAIN groups
        /\ \A p \in DOMAIN groups : /\ books[p].id = result.ids[p]
                                    /\ books[p].tracks = result.tracks[p]
                                    /\ books[p].files = groups[p].files
    BY <1>4, <1>8
  <2>2. \A p \in DOMAIN groups : groups[p].fp = BookFingerprint(books[p].files)
    BY <1>8, <2>1
  <2> QED BY <2>1, <2>2 DEF Describes
<1>11. scan'.phase = "resolved" /\ scan'.store = result.store /\ scan'.books = books
  BY <1>6
<1>12. \A id \in DOMAIN file.books : Listed(file.books[id])
  BY DEF KeepingInv, ListedInv, IdsListed
<1>13. /\ \A id \in DOMAIN result.store.books :
            /\ Listed(result.store.books[id])
            /\ \A t \in DOMAIN result.store.books[id].tracks :
                 t[1] = draw \/ \E other \in DOMAIN file.books : t \in DOMAIN file.books[other].tracks
       /\ \A p \in DOMAIN books : Knows(result.store.books, p, books[p])
  BY <1>3, <1>7, <1>9, <1>10, <1>12, ScanKnows
<1>14. ASSUME NEW t, Drawn(t) \/ t[1] = draw
       PROVE  Drawn(t)'
  BY <1>1, <1>6, <1>7, <1>11, <1>14 DEF Drawn
<1>15. ListedInv'
  <2>1. ASSUME NEW f, IdsListed(f)
        PROVE  IdsListed(f)'
    BY <1>14, <2>1 DEF IdsListed
  <2>2. PICK f, all : f = file /\ all = backups
    OBVIOUS
  <2>3. IdsListed(f)' /\ \A b \in all : IdsListed(b.file)'
    BY <2>1, <2>2 DEF KeepingInv, ListedInv
  <2>4. IdsListed(file)' /\ (\A b \in backups : IdsListed(b.file))'
    BY <1>6, <2>2, <2>3 DEF IdsListed
  <2>5. PICK after : after = result.store
    OBVIOUS
  <2>6. IdsListed(after)'
    <3>1. \A id \in DOMAIN file.books : \A t \in DOMAIN file.books[id].tracks : Drawn(t)
      BY DEF KeepingInv, ListedInv, IdsListed
    <3> QED BY <1>13, <1>14, <2>5, <3>1 DEF IdsListed
  <2>7. IdsListed(scan.store)'
    BY <1>11, <2>5, <2>6 DEF IdsListed
  <2> QED BY <2>4, <2>7 DEF ListedInv
<1>0. ASSUME NEW p \in DOMAIN books, books[p].id \notin misjudged
      PROVE  WasRead(books[p])
  <2>1. /\ p \in DOMAIN scan.files /\ books[p].id = result.ids[p]
        /\ books[p].files = scan.files[p] /\ books[p].contents = scan.contents[p]
    BY <1>0, <1>4
  <2>2. scan.files[p] = scan.contents[p]
    BY <1>0, <1>5, <2>1
  <2> QED BY <1>8, <2>1, <2>2 DEF WasRead
<1>16. AudioInv'
  <2>1. AudioIn(books, doubtful \cup misjudged)
    BY <1>0 DEF AudioIn
  <2> QED BY <1>6, <1>11, <2>1 DEF KeepingInv, AudioInv, AudioIn
<1>17. ASSUME NEW old, NEW p \in DOMAIN old \cap DOMAIN books, WasRead(old[p]),
              {old[p].id, books[p].id} \cap (doubtful \cup misjudged) = {}
       PROVE  KeepsRewritten(old, books, file.books, file.counter + 1, p)
  <2>1. PICK s : OneShape(old[p].id, s)
    BY <1>17 DEF IdentifierInv, ShapesInv
  <2>2. Has(file, old[p].id, s)
    BY <2>1 DEF OneShape
  <2>3. p \in DOMAIN groups /\ books[p].id = result.ids[p]
    BY <1>10 DEF Describes
  <2>4. result.store.books[result.ids[p]].length = TrueLength(groups[p].files)
    BY <1>5, <1>8, <1>17, <2>3
  <2>5. WasRead(books[p])
    BY <1>0, <1>17
  <2> QED BY <1>3, <1>7, <1>9, <1>10, <1>12, <1>17, <2>2, <2>4, <2>5, ScanKeepsRewritten
<1>18. Kept(books, file.books, result.store.books, result.store.counter, doubtful \cup misjudged)
  <2>1. \A p : <<draw, p>> \notin DOMAIN file.books
    <3>1. \A p : <<draw, p>>[1] = draw
      OBVIOUS
    <3> QED BY <1>9, <3>1 DEF NotDrawn
  <2>2. result.store.counter = file.counter + 1
    BY <1>3, <1>7, <2>1, ResolveMatches
  <2>3. (\A old : KeptInPlace(old, books, file.books)) /\ KeptWhenMoved(books, file.books)
    BY <1>3, <1>7, <1>9, <1>10, ScanKeepsPlaces, ScanKeepsMoved
  <2> QED BY <1>13, <1>17, <2>2, <2>3 DEF Kept
<1>19. KeptInv'
  <2>1. PICK wrong : wrong = doubtful \cup misjudged
    OBVIOUS
  <2>2. Kept(books, file.books, result.store.books, result.store.counter, wrong)
    BY <1>18, <2>1
  <2> QED BY <1>6, <1>11, <2>1, <2>2 DEF KeptInv
<1> QED BY <1>15, <1>16, <1>19 DEF KeepingInv

\* What an older build left is listed, and drawn before any scan.
LEMMA KeepingBegins == Init => KeepingInv
<1> SUFFICES ASSUME Init
             PROVE  KeepingInv
  OBVIOUS
<1>1. PICK old \in Legacy :
        /\ file = old.file
        /\ \E most \in Bounds : spent = [most |-> most, used |-> [k \in 1..8 |-> 0]]
  BY Zenon DEF Init
<1>2. scan.phase = "idle" /\ backups = {} /\ DOMAIN catalogue = {}
  BY DEF Init, NoScan, NoFiles
<1>3. spent.used[Scan] = 0
  BY <1>1 DEF Scan
<1>4. ASSUME NEW id \in DOMAIN file.books
      PROVE  /\ Listed(file.books[id])
             /\ \A t \in DOMAIN file.books[id].tracks : Drawn(t)
  <2>1. PICK i : i = old.file.books[id]
    OBVIOUS
  <2>2. id \in DOMAIN old.books /\ i.paths \in Seq(Members(i.paths)) /\ file.books[id] = i
    BY <1>1, <1>4, <2>1, ScanAssumption
  <2>3. Inherited(i, id, Shape(Audio(old.books[id])))
    BY <2>1, <2>2 DEF Inherited
  <2>4. IdentityShaped(i) /\ \E files : OldTracks(i.tracks, files)
    BY <2>3, InheritedIs
  <2>5. ListedTracks(i.tracks) /\ \A t \in DOMAIN i.tracks : t[1] = 0
    BY <2>4 DEF OldTracks, ListedTracks
  <2>6. \A t \in DOMAIN i.tracks : Drawn(t)
    BY <1>2, <1>3, <2>5 DEF Drawn
  <2> QED BY <2>2, <2>4, <2>5, <2>6 DEF Listed
<1>5. ListedInv
  BY <1>2, <1>4 DEF ListedInv, IdsListed
<1> QED BY <1>2, <1>5 DEF KeepingInv, AudioInv, AudioIn, KeptInv, Resolved

\* Every step keeps what the scan in hand will have kept.
LEMMA KeepingSteps ==
  ASSUME LibraryInv, IdentityInv, KeepingInv, [Next]_vars
  PROVE  KeepingInv'
<1>1. IdentifierInv /\ ReadInv
  BY DEF IdentityInv, IdentifierInv
<1>2. CASE ResolveScan
  BY <1>1, <1>2, ResolveKeeps
<1>3. CASE ~ResolveScan
  BY <1>1, <1>3, ListsStay, ResolvedIsKept DEF KeepingInv, IdentifierInv
<1> QED BY <1>2, <1>3

\* The scan in hand keeps what it can recognise of any books whatever, read or
\* not, and the identities know all that it found.
THEOREM ScansKeepBooks == Spec => []KeepingInv
<1> QED BY LibraryIsSound, IdentitiesAreSound, KeepingBegins, KeepingSteps, PTL DEF Spec

\* Between two publications a book that was left alone, moved, renamed or rewritten
\* in place keeps its identifier and those of its files, and the identities know
\* what is published.
THEOREM BooksKeepTheirIds == Spec => KnownBooksKeepTheirIds
<1> DEFINE Keeps == scan.phase = "recorded" /\ scan' = NoScan /\ catalogue' # NoFiles
                    => /\ \A p \in DOMAIN scan.books : Knows(file.books, p, scan.books[p])
                       /\ KeptInPlace(catalogue, scan.books, scan.base)
                       /\ KeptWhenMoved(scan.books, scan.base)
                       /\ KeptWhenRewritten(catalogue, scan.books, scan.base, file.counter)
<1>1. ASSUME KeepingInv
      PROVE  Keeps
  <2> SUFFICES ASSUME scan.phase = "recorded"
               PROVE  /\ \A p \in DOMAIN scan.books : Knows(file.books, p, scan.books[p])
                      /\ KeptInPlace(catalogue, scan.books, scan.base)
                      /\ KeptWhenMoved(scan.books, scan.base)
                      /\ KeptWhenRewritten(catalogue, scan.books, scan.base, file.counter)
    OBVIOUS
  <2>1. PICK books, base, known, counter, old :
          /\ books = scan.books /\ base = scan.base /\ known = file.books
          /\ counter = file.counter /\ old = catalogue
    OBVIOUS
  <2>2. Kept(books, base, known, counter, doubtful)
    BY <1>1, <2>1 DEF KeepingInv, KeptInv
  <2>3. \A p \in DOMAIN old : old[p].id \notin doubtful => WasRead(old[p])
    BY <1>1, <2>1 DEF KeepingInv, AudioInv, AudioIn
  <2>4. \A p \in DOMAIN old \cap DOMAIN books :
          {old[p].id, books[p].id} \cap doubtful = {} => KeepsRewritten(old, books, base, counter, p)
    BY <2>2, <2>3 DEF Kept
  <2>5. KeptWhenRewritten(old, books, base, counter)
    <3> SUFFICES ASSUME NEW p \in DOMAIN old \cap DOMAIN books,
                        Knows(base, p, old[p]), DOMAIN books[p].files = DOMAIN old[p].files,
                        Shape(books[p].contents) = Shape(old[p].contents),
                        RecentlySeen(base[old[p].id], counter),
                        {old[p].id, books[p].id} \cap doubtful = {},
                        Uncontested(books, base, p, old[p].id, {Digest(old[p]), Digest(books[p])})
                 PROVE  /\ books[p].id = old[p].id
                        /\ \A n \in DOMAIN old[p].files :
                             UncontestedTrack(base[old[p].id].tracks, p, old[p].files,
                                              books[p].files, n, old[p].tracks[n])
                             => books[p].tracks[n] = old[p].tracks[n]
      BY DEF KeptWhenRewritten
    <3>1. KeepsRewritten(old, books, base, counter, p)
      BY <2>4
    <3> QED BY <3>1, Zenon DEF KeepsRewritten
  <2>6. /\ \A p \in DOMAIN books : Knows(known, p, books[p])
        /\ KeptInPlace(old, books, base) /\ KeptWhenMoved(books, base)
    BY <2>2 DEF Kept
  <2> QED BY <2>1, <2>5, <2>6
<1>2. KnownBooksKeepTheirIds <=> [][Keeps]_vars
  BY DEF KnownBooksKeepTheirIds
<1> HIDE DEF Keeps
<1> QED BY <1>1, <1>2, ScansKeepBooks, PTL
================================================================================
