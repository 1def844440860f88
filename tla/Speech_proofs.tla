---------------------------- MODULE Speech_proofs -----------------------------
(***************************************************************************)
(* Theorems about AudioAssets, for any number of threads, assets and slugs,  *)
(* and about Speech, for any number of callers, texts and requests.         *)
(***************************************************************************)
EXTENDS Speech, FiniteSetTheorems, SequenceTheorems, WellFoundedInduction, TLAPS

Rows ==
  [slug : Slugs, status : UPLOADABLE_STATUS, is_deleted : BOOLEAN,
   metadata : SUBSET Notes, text : {None}]

Requests ==
  [pc : {"idle", "write", "insert", "unlink", "save", "note"},
   op : {None, "upload", "update", "delete"} \cup Notes, asset : Assets \cup {None},
   row : Rows \cup {NoAsset}, new : Rows \cup {NoAsset}]

TypesHold ==
  /\ asset \in [Assets -> Rows \cup {NoAsset}]
  /\ files \subseteq Assets
  /\ req \in [Threads -> Requests]

(* What is known of an upload: nobody has taken its slug unseen, and its    *)
(* file has no row yet.                                                     *)
Uploading(t, r) ==
  /\ r.pc \in {"write", "insert"} =>
       /\ r.op = "upload"
       /\ r.new \in Rows /\ r.new.is_deleted = FALSE /\ r.new.metadata = {}
       /\ <<t, r.new.slug>> \in claims
       /\ r.new.slug \notin raced => Named(r.new.slug) = {}
  /\ r.pc = "insert" =>
       /\ r.asset \in Assets
       /\ r.asset \in files
       /\ ~ Exists(r.asset)

(* ... of an update or a deletion: which columns it writes, that the status *)
(* is the one it has read, unless it races, and that the file is gone by the*)
(* time a deletion is committed.                                            *)
Changing(t, r) ==
  r.pc \in {"unlink", "save"} =>
    /\ r.asset \in Assets /\ Exists(r.asset)
    /\ r.row \in Rows /\ r.new \in Rows
    /\ r.row.is_deleted = FALSE /\ r.new.metadata = r.row.metadata
    /\ <<t, r.asset>> \in claims
    /\ r.asset \notin raced => /\ asset[r.asset].status = r.row.status
                               /\ asset[r.asset].is_deleted = FALSE
    /\ \/ /\ r.op = "update" /\ r.pc = "save"
          /\ r.new.is_deleted = FALSE
          /\ r.new.slug # r.row.slug => /\ <<t, r.new.slug>> \in claims
                                        /\ r.new.slug \notin raced => Named(r.new.slug) \subseteq {r.asset}
       \/ /\ r.op = "delete"
          /\ r.new.is_deleted = TRUE /\ r.new.status = "deleted" /\ r.new.slug = r.row.slug
          /\ r.pc = "save" => r.asset \notin files

(* ... and of a note: it forgets none that it has not raced with.           *)
Noting(t, r) ==
  r.pc = "note" =>
    /\ r.asset \in Assets /\ Exists(r.asset)
    /\ r.op \in Notes
    /\ r.new \in Rows /\ r.op \in r.new.metadata
    /\ <<t, <<r.asset, "metadata">>>> \in claims
    /\ <<r.asset, "metadata">> \notin raced => asset[r.asset].metadata \subseteq r.new.metadata

Sound(t, r) == Uploading(t, r) /\ Changing(t, r) /\ Noting(t, r)

RequestsHold == \A t \in Threads : \A r \in Requests : r = req[t] => Sound(t, r)

(* A file is of one upload.                                                 *)
FilesAreOwn ==
  \A t, u \in Threads :
    t # u /\ req[t].pc = "insert" /\ req[u].pc = "insert" => req[t].asset # req[u].asset

(* No two live assets of this slug.                                         *)
Single(slug) == \A k, m \in Named(slug) : k = m

SlugsHold == \A slug \in Slugs \ raced : Single(slug)

DeletedHold ==
  \A k \in Assets :
    asset[k].is_deleted => /\ k \notin files
                           /\ k \notin raced => asset[k].status = "deleted"

IInv ==
  /\ TypesHold /\ RequestsHold /\ FilesAreOwn
  /\ LiveAssetsHaveFiles /\ DeletedHold /\ SlugsHold /\ NotesAreKept

-----------------------------------------------------------------------------
LEMMA RowsAreThere ==
  /\ NoAsset \notin Rows
  /\ NoAsset.is_deleted = FALSE /\ NoAsset.metadata = {}
<1>1. NoAsset.status = "none"
  BY DEF NoAsset
<1>2. QED
  BY <1>1 DEF NoAsset, Rows, UPLOADABLE_STATUS

LEMMA ExistingIsRow ==
  ASSUME TypesHold, NEW k \in Assets
  PROVE  /\ Exists(k) <=> asset[k] \in Rows
         /\ asset[k] \in Rows \cup {NoAsset}
         /\ Live(k) <=> asset[k] \in Rows /\ asset[k].is_deleted = FALSE
  BY RowsAreThere DEF TypesHold, Exists, Live, Rows

LEMMA NewUuidIsUnused ==
  ASSUME Unused # {}
  PROVE  NewUuid \in Unused
  BY DEF NewUuid

LEMMA WrittenIsRow ==
  ASSUME NEW now \in Rows, NEW old \in Rows, NEW new \in Rows, NEW w, w = Written(now, old, new)
  PROVE  /\ w \in Rows
         /\ w.slug = IF new.slug # old.slug THEN new.slug ELSE now.slug
         /\ w.status = IF new.status # old.status THEN new.status ELSE now.status
         /\ w.is_deleted = IF new.is_deleted # old.is_deleted THEN new.is_deleted ELSE now.is_deleted
         /\ w.metadata = IF new.metadata # old.metadata THEN new.metadata ELSE now.metadata
<1> DEFINE r == [slug |-> IF new.slug # old.slug THEN new.slug ELSE now.slug,
                 status |-> IF new.status # old.status THEN new.status ELSE now.status,
                 is_deleted |-> IF new.is_deleted # old.is_deleted THEN new.is_deleted ELSE now.is_deleted,
                 metadata |-> IF new.metadata # old.metadata THEN new.metadata ELSE now.metadata,
                 text |-> IF new.text # old.text THEN new.text ELSE now.text]
<1>1. DOMAIN now = {"slug", "status", "is_deleted", "metadata", "text"}
  BY DEF Rows
<1>2. DOMAIN w = {"slug", "status", "is_deleted", "metadata", "text"}
  BY <1>1 DEF Written
<1>3. /\ w.slug = r.slug /\ w.status = r.status /\ w.is_deleted = r.is_deleted
      /\ w.metadata = r.metadata /\ w.text = r.text
  BY <1>1 DEF Written
<1>4. r \in Rows
  BY DEF Rows
<1>5. w = r
  BY <1>1, <1>2, <1>3 DEF Written
<1>6. QED
  BY <1>3, <1>4, <1>5

(* What a commit does to the claims of the others.                          *)
LEMMA ClaimsOfOthersStay ==
  ASSUME NEW p, NEW wrote, Commit(p, wrote), NEW u, u # p, NEW x, <<u, x>> \in claims
  PROVE  <<u, x>> \in claims' /\ (x \in wrote => x \in raced')
<1>1. <<u, x>>[1] = u /\ <<u, x>>[2] = x
  OBVIOUS
<1>2. x \in ClaimsOfOthers(p)
  BY <1>1 DEF ClaimsOfOthers
<1>3. QED
  BY <1>1, <1>2 DEF Commit

-----------------------------------------------------------------------------
(* What a step of one thread does to what the others know.                  *)
Keeps(t) ==
  /\ raced \subseteq raced'
  /\ \A u \in Threads \ {t} : \A x : <<u, x>> \in claims => <<u, x>> \in claims'
  /\ \A k \in Assets :
       /\ Exists(k) => Exists(k)' /\ (k \notin files => k \notin files')
       /\ ~ Exists(k) /\ k \in files => k \in files'
       /\ ~ Exists(k) /\ Exists(k)' => req[t].pc = "insert" /\ req[t].asset = k
  /\ \A u \in Threads \ {t} :
       /\ \A s \in Slugs : <<u, s>> \in claims /\ s \notin raced' => Named(s)' \subseteq Named(s)
       /\ \A k \in Assets : Exists(k) =>
            /\ <<u, k>> \in claims /\ k \notin raced' =>
                 asset'[k].status = asset[k].status /\ asset'[k].is_deleted = asset[k].is_deleted
            /\ <<u, <<k, "metadata">>>> \in claims /\ <<k, "metadata">> \notin raced' =>
                 asset'[k].metadata = asset[k].metadata

LEMMA OthersStaySound ==
  ASSUME TypesHold, FilesAreOwn, NEW t \in Threads, Keeps(t),
         NEW u \in Threads \ {t}, NEW r \in Requests, r = req[u], Sound(u, r)
  PROVE  Sound(u, r)'
<1>1. Uploading(u, r)'
  <2>1. ASSUME r.pc \in {"write", "insert"}
        PROVE  /\ r.op = "upload"
               /\ r.new \in Rows /\ r.new.is_deleted = FALSE /\ r.new.metadata = {}
               /\ <<u, r.new.slug>> \in claims'
               /\ r.new.slug \notin raced' => Named(r.new.slug)' = {}
    <3>1. /\ r.op = "upload"
          /\ r.new \in Rows /\ r.new.is_deleted = FALSE /\ r.new.metadata = {}
          /\ <<u, r.new.slug>> \in claims
          /\ r.new.slug \notin raced => Named(r.new.slug) = {}
      BY <2>1 DEF Sound, Uploading
    <3>2. PICK s \in Slugs : s = r.new.slug
      BY <3>1 DEF Rows
    <3>3. <<u, s>> \in claims'
      BY <3>1, <3>2 DEF Keeps
    <3>4. s \notin raced' => Named(s)' = {}
      BY <3>1, <3>2 DEF Keeps
    <3>5. QED
      BY <3>1, <3>2, <3>3, <3>4
  <2>2. ASSUME r.pc = "insert"
        PROVE  r.asset \in Assets /\ r.asset \in files' /\ ~ Exists(r.asset)'
    <3>1. r.asset \in Assets /\ r.asset \in files /\ ~ Exists(r.asset)
      BY <2>2 DEF Sound, Uploading
    <3>2. ~ (req[t].pc = "insert" /\ req[t].asset = r.asset)
      BY <2>2 DEF FilesAreOwn
    <3>3. QED
      BY <3>1, <3>2 DEF Keeps
  <2>3. QED
    BY <2>1, <2>2 DEF Uploading
<1>2. Changing(u, r)'
  <2> SUFFICES ASSUME r.pc \in {"unlink", "save"}
               PROVE  Changing(u, r)'
    BY DEF Changing
  <2> PICK k \in Assets : k = r.asset
    BY DEF Sound, Changing
  <2>1. /\ Exists(k)
        /\ r.row \in Rows /\ r.new \in Rows
        /\ r.row.is_deleted = FALSE /\ r.new.metadata = r.row.metadata
        /\ <<u, k>> \in claims
        /\ k \notin raced => asset[k].status = r.row.status /\ asset[k].is_deleted = FALSE
    BY DEF Sound, Changing
  <2>2. /\ Exists(k)'
        /\ <<u, k>> \in claims'
        /\ k \notin raced' => asset'[k].status = r.row.status /\ asset'[k].is_deleted = FALSE
    BY <2>1 DEF Keeps
  <2>3. CASE /\ r.op = "update" /\ r.pc = "save"
             /\ r.new.is_deleted = FALSE
             /\ r.new.slug # r.row.slug => /\ <<u, r.new.slug>> \in claims
                                           /\ r.new.slug \notin raced => Named(r.new.slug) \subseteq {k}
    <3>1. PICK s \in Slugs : s = r.new.slug
      BY <2>1 DEF Rows
    <3>2. s # r.row.slug => /\ <<u, s>> \in claims'
                            /\ s \notin raced' => Named(s)' \subseteq {k}
      BY <2>3, <3>1 DEF Keeps
    <3>3. QED
      BY <2>1, <2>2, <2>3, <3>1, <3>2 DEF Changing
  <2>4. CASE /\ r.op = "delete"
             /\ r.new.is_deleted = TRUE /\ r.new.status = "deleted" /\ r.new.slug = r.row.slug
             /\ r.pc = "save" => k \notin files
    <3>1. r.pc = "save" => k \notin files'
      BY <2>1, <2>4 DEF Keeps
    <3>2. QED
      BY <2>1, <2>2, <2>4, <3>1 DEF Changing
  <2>5. QED
    BY <2>3, <2>4 DEF Sound, Changing
<1>3. Noting(u, r)'
  <2> SUFFICES ASSUME r.pc = "note"
               PROVE  Noting(u, r)'
    BY DEF Noting
  <2> PICK k \in Assets : k = r.asset
    BY DEF Sound, Noting
  <2>1. /\ Exists(k)
        /\ r.op \in Notes
        /\ r.new \in Rows /\ r.op \in r.new.metadata
        /\ <<u, <<k, "metadata">>>> \in claims
        /\ <<k, "metadata">> \notin raced => asset[k].metadata \subseteq r.new.metadata
    BY DEF Sound, Noting
  <2>2. /\ Exists(k)'
        /\ <<u, <<k, "metadata">>>> \in claims'
        /\ <<k, "metadata">> \notin raced' => asset'[k].metadata \subseteq r.new.metadata
    BY <2>1 DEF Keeps
  <2>3. QED
    BY <2>1, <2>2 DEF Noting
<1>4. QED
  BY <1>1, <1>2, <1>3 DEF Sound

(* A step of one thread, after which it does what it knows.                 *)
LEMMA RequestsStay ==
  ASSUME TypesHold, RequestsHold, FilesAreOwn, NEW t \in Threads, NEW s \in Requests,
         req' = [req EXCEPT ![t] = s], Keeps(t), Sound(t, s)',
         s.pc = "insert" => s.asset \notin files
  PROVE  RequestsHold' /\ FilesAreOwn' /\ req' \in [Threads -> Requests]
<1>1. req' \in [Threads -> Requests]
  BY DEF TypesHold
<1>2. RequestsHold'
  <2> SUFFICES ASSUME NEW u \in Threads, NEW r \in Requests, r = req'[u]
               PROVE  Sound(u, r)'
    BY DEF RequestsHold
  <2>1. CASE u = t
    <3>1. r = s
      BY <2>1 DEF TypesHold
    <3>2. QED
      BY <2>1, <3>1
  <2>2. CASE u # t
    <3>1. r = req[u]
      BY <2>2 DEF TypesHold
    <3>2. Sound(u, r)
      BY <3>1 DEF RequestsHold
    <3>3. QED
      BY <2>2, <3>1, <3>2, OthersStaySound
  <2>3. QED
    BY <2>1, <2>2
<1>3. FilesAreOwn'
  <2> SUFFICES ASSUME NEW u \in Threads, NEW v \in Threads, u # v,
                      req'[u].pc = "insert", req'[v].pc = "insert"
               PROVE  req'[u].asset # req'[v].asset
    BY DEF FilesAreOwn
  <2>1. \A w \in Threads \ {t} : req[w].pc = "insert" => req[w].asset \in files
    BY DEF RequestsHold, Sound, Uploading, TypesHold
  <2>2. \A w \in Threads \ {t} : req'[w] = req[w]
    BY DEF TypesHold
  <2>3. req'[t] = s
    BY DEF TypesHold
  <2>4. QED
    BY <2>1, <2>2, <2>3 DEF FilesAreOwn
<1>4. QED
  BY <1>1, <1>2, <1>3

LEMMA IdleIsSound ==
  ASSUME NEW t \in Threads
  PROVE  Idle \in Requests /\ Sound(t, Idle) /\ Sound(t, Idle)' /\ Idle.pc = "idle"
<1>1. Idle \in Requests /\ Idle.pc = "idle"
  BY DEF Idle, Requests
<1>2. QED
  BY <1>1 DEF Sound, Uploading, Changing, Noting

-----------------------------------------------------------------------------
(* Steps that write no row.                                                 *)
LEMMA RowsStay ==
  ASSUME IInv, UNCHANGED <<asset, noted>>, raced \subseteq raced',
         \A k \in Assets : Exists(k) /\ k \notin files => k \notin files'
  PROVE  DeletedHold' /\ SlugsHold' /\ NotesAreKept'
<1>1. \A k \in Assets : asset[k].is_deleted => Exists(k)
  BY RowsAreThere DEF Exists
<1>2. DeletedHold'
  BY <1>1 DEF IInv, DeletedHold
<1>3. SlugsHold'
  BY DEF IInv, SlugsHold, Single, Named, Live, Exists
<1>4. NotesAreKept'
  BY DEF IInv, NotesAreKept
<1>5. QED
  BY <1>2, <1>3, <1>4

LEMMA QuietKeeps ==
  ASSUME NEW t \in Threads, UNCHANGED asset, raced \subseteq raced',
         \A u \in Threads \ {t} : \A x : <<u, x>> \in claims => <<u, x>> \in claims',
         \A k \in Assets : IF Exists(k) THEN k \notin files => k \notin files'
                           ELSE k \in files => k \in files'
  PROVE  Keeps(t)
<1>1. \A s : Named(s)' = Named(s)
  BY DEF Named, Live, Exists
<1>2. \A k \in Assets : Exists(k)' = Exists(k)
  BY DEF Exists
<1>3. QED
  BY <1>1, <1>2 DEF Keeps

(* A request begins with what it has read.                                  *)
LEMMA BeginHolds ==
  ASSUME IInv, NEW t \in Threads, NEW s \in Requests, req[t].pc = "idle", s.pc # "insert",
         req' = [req EXCEPT ![t] = s], claims \subseteq claims',
         UNCHANGED <<asset, files, raced, cut, noted>>, Sound(t, s)'
  PROVE  IInv'
<1>1. Keeps(t)
  BY QuietKeeps
<1>2. RequestsHold' /\ FilesAreOwn' /\ req' \in [Threads -> Requests]
  BY <1>1, RequestsStay DEF IInv
<1>3. LiveAssetsHaveFiles'
  <2> SUFFICES ASSUME NEW k \in Assets, Live(k)', k \notin files', k \notin cut'
               PROVE  \E u \in Threads : req'[u].asset = k /\ req'[u].op = "delete" /\ req'[u].pc = "save"
    BY DEF LiveAssetsHaveFiles
  <2>1. Live(k) /\ k \notin files /\ k \notin cut
    BY DEF Live, Exists
  <2>2. PICK u \in Threads : req[u].asset = k /\ req[u].op = "delete" /\ req[u].pc = "save"
    BY <2>1 DEF IInv, LiveAssetsHaveFiles
  <2>3. req'[u] = req[u]
    BY <2>2 DEF IInv, TypesHold
  <2>4. QED
    BY <2>2, <2>3
<1>4. DeletedHold' /\ SlugsHold' /\ NotesAreKept'
  BY RowsStay
<1>5. QED
  BY <1>2, <1>3, <1>4 DEF IInv, TypesHold

LEMMA SameRows ==
  ASSUME UNCHANGED asset
  PROVE  /\ \A n : Named(n)' = Named(n)
         /\ \A k : Exists(k)' = Exists(k)
  BY DEF Named, Live, Exists

LEMMA BeginIsRequest ==
  ASSUME NEW t \in Threads, NEW op, NEW k, NEW n, NEW pc, Begin(t, op, k, n, pc),
         NEW row, row = IF k = None THEN NoAsset ELSE asset[k]
  PROVE  req' = [req EXCEPT ![t] = [pc |-> pc, op |-> op, asset |-> k, row |-> row, new |-> n]]
<1>1. PICK r : r = [Idle EXCEPT !.op = op, !.asset = k, !.new = n,
                                !.row = IF k = None THEN NoAsset ELSE asset[k]]
  OBVIOUS
<1>2. req' = [req EXCEPT ![t] = [r EXCEPT !.pc = pc]]
  BY <1>1 DEF Begin, Goto
<1>3. r = [pc |-> "idle", op |-> op, asset |-> k, row |-> row, new |-> n]
  BY <1>1 DEF Idle
<1>4. [r EXCEPT !.pc = pc] = [pc |-> pc, op |-> op, asset |-> k, row |-> row, new |-> n]
  BY <1>3
<1>5. QED
  BY <1>2, <1>4

LEMMA UploadHolds ==
  ASSUME IInv, NEW t \in Threads, UploadAudioAsset(t)
  PROVE  IInv'
<1>1. PICK slug \in Slugs, status \in UPLOADABLE_STATUS :
        /\ Named(slug) = {}
        /\ Begin(t, "upload", None, Asset(slug, status, None), "write")
        /\ Claim(t, slug)
  BY DEF UploadAudioAsset
<1>2. PICK n : n = Asset(slug, status, None)
  OBVIOUS
<1>3. n \in Rows /\ n.slug = slug /\ n.is_deleted = FALSE /\ n.metadata = {}
  BY <1>2 DEF Asset, Rows
<1> DEFINE s == [pc |-> "write", op |-> "upload", asset |-> None, row |-> NoAsset, new |-> n]
<1>4. s \in Requests /\ s.pc = "write" /\ s.op = "upload" /\ s.new = n
  BY <1>3 DEF Requests
<1>5. req' = [req EXCEPT ![t] = s]
  BY <1>1, <1>2, BeginIsRequest
<1>6. UNCHANGED <<asset, files, raced, cut, noted>> /\ req[t].pc = "idle"
  BY <1>1 DEF Begin
<1>7. claims' = claims \cup {<<t, slug>>}
  BY <1>1 DEF Claim
<1> HIDE DEF s
<1>8. Sound(t, s)'
  <2>1. Named(slug)' = {}
    BY <1>1, <1>6, SameRows
  <2>2. QED
    BY <1>3, <1>4, <1>7, <2>1 DEF Sound, Uploading, Changing, Noting
<1>9. QED
  BY <1>4, <1>5, <1>6, <1>7, <1>8, BeginHolds

LEMMA UpdateHolds ==
  ASSUME IInv, NEW t \in Threads, NEW k \in Assets, UpdateAudioAsset(t, k)
  PROVE  IInv'
<1>1. PICK slug \in Slugs \cup {asset[k].slug}, status \in UPLOADABLE_STATUS \cup {asset[k].status} :
        /\ Live(k)
        /\ slug \in Slugs => Named(slug) \subseteq {k}
        /\ Begin(t, "update", k, [asset[k] EXCEPT !.slug = slug, !.status = status], "save")
        /\ claims' = claims \cup {<<t, k>>} \cup (IF slug = asset[k].slug THEN {} ELSE {<<t, slug>>})
  BY DEF UpdateAudioAsset
<1>2. PICK row : row = asset[k]
  OBVIOUS
<1>3. Exists(k) /\ row \in Rows /\ row.is_deleted = FALSE
  BY <1>1, <1>2, ExistingIsRow DEF IInv
<1>4. PICK n : n = [row EXCEPT !.slug = slug, !.status = status]
  OBVIOUS
<1>5. /\ n \in Rows /\ n.slug = slug
      /\ n.is_deleted = row.is_deleted /\ n.metadata = row.metadata
  BY <1>2, <1>3, <1>4 DEF Rows
<1>6. slug \in Slugs
  BY <1>2, <1>3 DEF Rows
<1> DEFINE s == [pc |-> "save", op |-> "update", asset |-> k, row |-> row, new |-> n]
<1>7. /\ s \in Requests
      /\ s.pc = "save" /\ s.op = "update" /\ s.asset = k /\ s.row = row /\ s.new = n
  BY <1>3, <1>5 DEF Requests
<1>8. req' = [req EXCEPT ![t] = s]
  BY <1>1, <1>2, <1>4, NoneIsNoAsset, BeginIsRequest
<1>9. UNCHANGED <<asset, files, raced, cut, noted>> /\ req[t].pc = "idle"
  BY <1>1 DEF Begin
<1> HIDE DEF s
<1>10. Sound(t, s)'
  <2>1. Named(slug)' \subseteq {k} /\ Exists(k)'
    BY <1>1, <1>3, <1>6, <1>9, SameRows
  <2>2. <<t, k>> \in claims' /\ (slug # row.slug => <<t, slug>> \in claims')
    BY <1>1, <1>2
  <2>3. Changing(t, s)'
    BY <1>2, <1>3, <1>5, <1>7, <1>9, <2>1, <2>2 DEF Changing
  <2>4. QED
    BY <1>7, <2>3 DEF Sound, Uploading, Noting
<1>11. QED
  BY <1>1, <1>7, <1>8, <1>9, <1>10, BeginHolds

LEMMA DeleteHolds ==
  ASSUME IInv, NEW t \in Threads, NEW k \in Assets, DeleteAudioAsset(t, k)
  PROVE  IInv'
<1>1. /\ Live(k)
      /\ Begin(t, "delete", k, [asset[k] EXCEPT !.is_deleted = TRUE, !.status = "deleted"], "unlink")
      /\ claims' = claims \cup {<<t, k>>}
  BY DEF DeleteAudioAsset, Claim
<1>2. PICK row : row = asset[k]
  OBVIOUS
<1>3. Exists(k) /\ row \in Rows /\ row.is_deleted = FALSE
  BY <1>1, <1>2, ExistingIsRow DEF IInv
<1>4. PICK n : n = [row EXCEPT !.is_deleted = TRUE, !.status = "deleted"]
  OBVIOUS
<1>5. /\ n \in Rows /\ n.slug = row.slug
      /\ n.is_deleted = TRUE /\ n.status = "deleted" /\ n.metadata = row.metadata
  BY <1>3, <1>4 DEF Rows, UPLOADABLE_STATUS
<1> DEFINE s == [pc |-> "unlink", op |-> "delete", asset |-> k, row |-> row, new |-> n]
<1>6. /\ s \in Requests
      /\ s.pc = "unlink" /\ s.op = "delete" /\ s.asset = k /\ s.row = row /\ s.new = n
  BY <1>3, <1>5 DEF Requests
<1>7. req' = [req EXCEPT ![t] = s]
  BY <1>1, <1>2, <1>4, NoneIsNoAsset, BeginIsRequest
<1>8. UNCHANGED <<asset, files, raced, cut, noted>> /\ req[t].pc = "idle"
  BY <1>1 DEF Begin
<1> HIDE DEF s
<1>9. Sound(t, s)'
  <2>1. Exists(k)'
    BY <1>3, <1>8, SameRows
  <2>2. Changing(t, s)'
    BY <1>1, <1>2, <1>3, <1>5, <1>6, <1>8, <2>1 DEF Changing
  <2>3. QED
    BY <1>6, <2>2 DEF Sound, Uploading, Noting
<1>10. QED
  BY <1>1, <1>6, <1>7, <1>8, <1>9, BeginHolds

LEMMA NoteHolds ==
  ASSUME IInv, NEW t \in Threads, NEW k \in Assets, NoteInMetadata(t, k)
  PROVE  IInv'
<1>1. PICK note \in Notes :
        /\ Live(k)
        /\ Begin(t, note, k, [asset[k] EXCEPT !.metadata = @ \cup {note}], "note")
        /\ claims' = claims \cup {<<t, <<k, "metadata">>>>}
  BY DEF NoteInMetadata, Claim
<1>2. PICK row : row = asset[k]
  OBVIOUS
<1>3. Exists(k) /\ row \in Rows
  BY <1>1, <1>2, ExistingIsRow DEF IInv
<1>4. PICK n : n = [row EXCEPT !.metadata = row.metadata \cup {note}]
  OBVIOUS
<1>5. n \in Rows /\ n.metadata = row.metadata \cup {note}
  BY <1>3, <1>4 DEF Rows
<1> DEFINE s == [pc |-> "note", op |-> note, asset |-> k, row |-> row, new |-> n]
<1>6. /\ s \in Requests
      /\ s.pc = "note" /\ s.op = note /\ s.asset = k /\ s.new = n
  BY <1>3, <1>5 DEF Requests
<1>7. req' = [req EXCEPT ![t] = s]
  <2>1. [asset[k] EXCEPT !.metadata = @ \cup {note}] = n
    BY <1>2, <1>3, <1>4 DEF Rows
  <2>2. QED
    BY <1>1, <1>2, <2>1, NoneIsNoAsset, BeginIsRequest
<1>8. UNCHANGED <<asset, files, raced, cut, noted>> /\ req[t].pc = "idle"
  BY <1>1 DEF Begin
<1> HIDE DEF s
<1>9. Sound(t, s)'
  <2>1. Exists(k)'
    BY <1>3, <1>8, SameRows
  <2>2. Noting(t, s)'
    BY <1>1, <1>2, <1>5, <1>6, <1>8, <2>1 DEF Noting
  <2>3. QED
    BY <1>6, <2>2 DEF Sound, Uploading, Changing
<1>10. QED
  BY <1>1, <1>6, <1>7, <1>8, <1>9, BeginHolds

-----------------------------------------------------------------------------
(* A live asset without a file is one that was, or one that t deletes now.  *)
LEMMA LiveStay ==
  ASSUME IInv, NEW t \in Threads, NEW s, req' = [req EXCEPT ![t] = s],
         \A k \in Assets : Live(k)' /\ k \notin files' /\ k \notin cut' =>
           \/ /\ Live(k) /\ k \notin files /\ k \notin cut
              /\ ~ (req[t].asset = k /\ req[t].op = "delete" /\ req[t].pc = "save")
           \/ s.asset = k /\ s.op = "delete" /\ s.pc = "save"
  PROVE  LiveAssetsHaveFiles'
<1> SUFFICES ASSUME NEW k \in Assets, Live(k)', k \notin files', k \notin cut'
             PROVE  \E u \in Threads : req'[u].asset = k /\ req'[u].op = "delete" /\ req'[u].pc = "save"
  BY DEF LiveAssetsHaveFiles
<1>1. CASE s.asset = k /\ s.op = "delete" /\ s.pc = "save"
  BY <1>1 DEF IInv, TypesHold
<1>2. CASE /\ Live(k) /\ k \notin files /\ k \notin cut
           /\ ~ (req[t].asset = k /\ req[t].op = "delete" /\ req[t].pc = "save")
  <2>1. PICK u \in Threads : req[u].asset = k /\ req[u].op = "delete" /\ req[u].pc = "save"
    BY <1>2 DEF IInv, LiveAssetsHaveFiles
  <2>2. u # t
    BY <1>2, <2>1
  <2>3. QED
    BY <2>1, <2>2 DEF IInv, TypesHold
<1>3. QED
  BY <1>1, <1>2

(* The thread and its request, as rigid values.                             *)
LEMMA RequestIsSound ==
  ASSUME IInv, NEW t \in Threads
  PROVE  \E r \in Requests : r = req[t] /\ Sound(t, r)
<1>1. PICK r \in Requests : r = req[t]
  BY DEF IInv, TypesHold
<1>2. QED
  BY <1>1 DEF IInv, RequestsHold

LEMMA WriteFileHolds ==
  ASSUME IInv, NEW t \in Threads, WriteFile(t)
  PROVE  IInv'
<1>1. PICK r \in Requests : r = req[t] /\ Sound(t, r)
  BY RequestIsSound
<1>2. PICK k : k = NewUuid
  OBVIOUS
<1>3. k \in Assets /\ k \notin files /\ ~ Exists(k)
  BY <1>2, NewUuidIsUnused DEF WriteFile, Unused
<1>4. r.pc = "write" /\ files' = files \cup {k} /\ UNCHANGED <<asset, claims, raced, cut, noted>>
  BY <1>1, <1>2 DEF WriteFile
<1> DEFINE s == [r EXCEPT !.asset = k, !.pc = "insert"]
<1>5. s \in Requests /\ s.pc = "insert" /\ s.asset = k /\ s.op = r.op /\ s.new = r.new
  BY <1>3 DEF Requests
<1>6. req' = [req EXCEPT ![t] = s]
  <2>1. [[r EXCEPT !.asset = k] EXCEPT !.pc = "insert"] = s
    OBVIOUS
  <2>2. QED
    BY <1>1, <1>2, <2>1 DEF WriteFile, Goto
<1> HIDE DEF s
<1>7. Keeps(t)
  BY <1>3, <1>4, QuietKeeps
<1>8. Sound(t, s)'
  <2>1. ~ Exists(k)' /\ Named(r.new.slug)' = Named(r.new.slug)
    BY <1>3, <1>4, SameRows
  <2>2. Uploading(t, s)'
    BY <1>1, <1>3, <1>4, <1>5, <2>1 DEF Sound, Uploading
  <2>3. QED
    BY <1>5, <2>2 DEF Sound, Changing, Noting
<1>9. RequestsHold' /\ FilesAreOwn' /\ req' \in [Threads -> Requests]
  BY <1>3, <1>5, <1>6, <1>7, <1>8, RequestsStay DEF IInv
<1>10. LiveAssetsHaveFiles'
  <2>1. \A m \in Assets : Live(m)' => Live(m)
    BY <1>4 DEF Live, Exists
  <2>2. QED
    BY <1>1, <1>4, <1>6, <2>1, LiveStay
<1>11. DeletedHold' /\ SlugsHold' /\ NotesAreKept'
  BY <1>3, <1>4, RowsStay
<1>12. QED
  BY <1>3, <1>4, <1>9, <1>10, <1>11 DEF IInv, TypesHold

LEMMA UnlinkHolds ==
  ASSUME IInv, NEW t \in Threads, Unlink(t)
  PROVE  IInv'
<1>1. PICK r \in Requests : r = req[t] /\ Sound(t, r)
  BY RequestIsSound
<1>2. PICK k : k = r.asset
  OBVIOUS
<1>3. r.pc = "unlink" /\ files' = files \ {k} /\ UNCHANGED <<asset, claims, raced, cut, noted>>
  BY <1>1, <1>2 DEF Unlink
<1>4. k \in Assets /\ Exists(k) /\ r.op = "delete"
  BY <1>1, <1>2, <1>3 DEF Sound, Changing
<1> DEFINE s == [r EXCEPT !.pc = "save"]
<1>5. /\ s \in Requests
      /\ s.pc = "save" /\ s.asset = k /\ s.op = "delete" /\ s.row = r.row /\ s.new = r.new
  BY <1>2, <1>4 DEF Requests
<1>6. req' = [req EXCEPT ![t] = s]
  BY <1>1 DEF Unlink, Goto
<1> HIDE DEF s
<1>7. Keeps(t)
  BY <1>3, <1>4, QuietKeeps
<1>8. Sound(t, s)'
  <2>1. Exists(k)'
    BY <1>3, <1>4, SameRows
  <2>2. Changing(t, s)'
    BY <1>1, <1>2, <1>3, <1>4, <1>5, <2>1 DEF Sound, Changing
  <2>3. QED
    BY <1>5, <2>2 DEF Sound, Uploading, Noting
<1>9. RequestsHold' /\ FilesAreOwn' /\ req' \in [Threads -> Requests]
  BY <1>5, <1>6, <1>7, <1>8, RequestsStay DEF IInv
<1>10. LiveAssetsHaveFiles'
  <2>1. \A m \in Assets : Live(m)' => Live(m)
    BY <1>3 DEF Live, Exists
  <2>2. QED
    BY <1>1, <1>3, <1>5, <1>6, <2>1, LiveStay
<1>11. DeletedHold' /\ SlugsHold' /\ NotesAreKept'
  BY <1>3, RowsStay
<1>12. QED
  BY <1>3, <1>9, <1>10, <1>11 DEF IInv, TypesHold

(* A request that ends without a commit.                                    *)
LEMMA EndHolds ==
  ASSUME IInv, NEW t \in Threads, End(t), files' = files, cut \subseteq cut',
         req[t].pc = "save" /\ req[t].op = "delete" => req[t].asset \in cut'
  PROVE  IInv'
<1>1. Idle \in Requests /\ Sound(t, Idle)' /\ Idle.pc = "idle"
  BY IdleIsSound
<1>2. req' = [req EXCEPT ![t] = Idle] /\ UNCHANGED <<asset, noted>> /\ Commit(t, {})
  BY DEF End
<1>3. raced' = raced
  BY <1>2 DEF Commit
<1>4. Keeps(t)
  BY <1>2, <1>3, ClaimsOfOthersStay, QuietKeeps
<1>5. RequestsHold' /\ FilesAreOwn' /\ req' \in [Threads -> Requests]
  BY <1>1, <1>2, <1>4, RequestsStay DEF IInv
<1>6. LiveAssetsHaveFiles'
  <2>1. \A m \in Assets : Live(m)' => Live(m)
    BY <1>2 DEF Live, Exists
  <2>2. QED
    BY <1>2, <2>1, LiveStay
<1>7. DeletedHold' /\ SlugsHold' /\ NotesAreKept'
  BY <1>2, <1>3, RowsStay
<1>8. QED
  BY <1>2, <1>5, <1>6, <1>7 DEF IInv, TypesHold

LEMMA UnlinkFailsHolds ==
  ASSUME IInv, NEW t \in Threads, UnlinkFails(t)
  PROVE  IInv'
  BY EndHolds DEF UnlinkFails

LEMMA AbortHolds ==
  ASSUME IInv, NEW t \in Threads, Abort(t)
  PROVE  IInv'
  BY EndHolds DEF Abort

-----------------------------------------------------------------------------
(* The steps that write a row.                                              *)
LEMMA InsertHolds ==
  ASSUME IInv, NEW t \in Threads, Insert(t)
  PROVE  IInv'
<1>1. PICK r \in Requests : r = req[t] /\ Sound(t, r)
  BY RequestIsSound
<1>2. PICK k, n, slug : k = r.asset /\ n = r.new /\ slug = n.slug
  OBVIOUS
<1>3. /\ r.pc = "insert"
      /\ asset' = [asset EXCEPT ![k] = n]
      /\ Commit(t, {slug})
      /\ req' = [req EXCEPT ![t] = Idle]
      /\ UNCHANGED <<files, cut, noted>>
  BY <1>1, <1>2 DEF Insert
<1>4. /\ k \in Assets /\ k \in files /\ ~ Exists(k)
      /\ n \in Rows /\ n.is_deleted = FALSE /\ n.metadata = {}
      /\ slug \notin raced => Named(slug) = {}
  BY <1>1, <1>2, <1>3 DEF Sound, Uploading
<1>5. /\ asset' \in [Assets -> Rows \cup {NoAsset}]
      /\ asset'[k] = n
      /\ \A m \in Assets \ {k} : asset'[m] = asset[m]
  BY <1>3, <1>4 DEF IInv, TypesHold
<1>6. raced \subseteq raced'
  BY <1>3 DEF Commit
<1>7. \A s : Named(s)' \subseteq Named(s) \cup (IF s = slug THEN {k} ELSE {})
  BY <1>2, <1>5 DEF Named, Live, Exists
<1>8. \A m \in Assets : Exists(m) => m # k /\ Exists(m)'
  BY <1>4, <1>5 DEF Exists
<1>9. Keeps(t)
  <2>1. \A u \in Threads \ {t} : \A x : <<u, x>> \in claims => <<u, x>> \in claims'
    BY <1>3, ClaimsOfOthersStay
  <2>2. \A u \in Threads \ {t} : <<u, slug>> \in claims => slug \in raced'
    BY <1>3, ClaimsOfOthersStay
  <2>3. \A u \in Threads \ {t} : \A s \in Slugs :
          <<u, s>> \in claims /\ s \notin raced' => Named(s)' \subseteq Named(s)
    BY <1>7, <2>2
  <2>4. \A m \in Assets : ~ Exists(m) /\ Exists(m)' => req[t].pc = "insert" /\ req[t].asset = m
    BY <1>1, <1>2, <1>3, <1>5 DEF Exists
  <2>5. QED
    BY <1>3, <1>5, <1>6, <1>8, <2>1, <2>3, <2>4 DEF Keeps
<1>10. RequestsHold' /\ FilesAreOwn' /\ req' \in [Threads -> Requests]
  BY <1>3, <1>9, IdleIsSound, RequestsStay DEF IInv
<1>11. LiveAssetsHaveFiles'
  <2>1. \A m \in Assets \ {k} : Live(m)' => Live(m)
    BY <1>5 DEF Live, Exists
  <2>2. QED
    BY <1>1, <1>3, <1>4, <2>1, LiveStay
<1>12. DeletedHold'
  BY <1>3, <1>4, <1>5, <1>6 DEF IInv, DeletedHold
<1>13. SlugsHold'
  <2> SUFFICES ASSUME NEW s \in Slugs, s \notin raced' PROVE Single(s)'
    BY DEF SlugsHold
  <2>1. s \notin raced
    BY <1>6
  <2>2. CASE s = slug
    <3>1. Named(s)' \subseteq {k}
      BY <1>4, <1>7, <2>1, <2>2
    <3>2. QED
      BY <3>1 DEF Single
  <2>3. CASE s # slug
    <3>1. Named(s)' \subseteq Named(s)
      BY <1>7, <2>3
    <3>2. QED
      BY <2>1, <3>1 DEF IInv, SlugsHold, Single
  <2>4. QED
    BY <2>2, <2>3
<1>14. NotesAreKept'
  <2> SUFFICES ASSUME NEW m \in Assets, <<m, "metadata">> \notin raced'
               PROVE  {x \in Notes : <<m, x>> \in noted} \subseteq asset'[m].metadata
    BY <1>3 DEF NotesAreKept
  <2>1. {x \in Notes : <<m, x>> \in noted} \subseteq asset[m].metadata
    BY <1>6 DEF IInv, NotesAreKept
  <2>2. CASE m = k
    <3>1. asset[m].metadata = {}
      BY <1>4, <2>2, RowsAreThere DEF Exists
    <3>2. QED
      BY <2>1, <3>1
  <2>3. CASE m # k
    BY <1>5, <2>1, <2>3
  <2>4. QED
    BY <2>2, <2>3
<1>15. QED
  BY <1>3, <1>5, <1>10, <1>11, <1>12, <1>13, <1>14 DEF IInv, TypesHold

LEMMA SaveHolds ==
  ASSUME IInv, NEW t \in Threads, Save(t)
  PROVE  IInv'
<1>1. PICK r \in Requests : r = req[t] /\ Sound(t, r)
  BY RequestIsSound
<1>2. PICK k, row, n : k = r.asset /\ row = r.row /\ n = r.new
  OBVIOUS
<1>3. PICK now, w : now = asset[k] /\ w = Written(now, row, n)
  OBVIOUS
<1>4. PICK wrote : wrote = {k} \cup (IF n.slug = row.slug THEN {} ELSE {n.slug})
  OBVIOUS
<1>5. /\ r.pc = "save"
      /\ asset' = [asset EXCEPT ![k] = w]
      /\ Commit(t, wrote)
      /\ req' = [req EXCEPT ![t] = Idle]
      /\ UNCHANGED <<files, cut, noted>>
  BY <1>1, <1>2, <1>3, <1>4 DEF Save
<1>6. /\ k \in Assets /\ Exists(k)
      /\ row \in Rows /\ n \in Rows
      /\ row.is_deleted = FALSE /\ n.metadata = row.metadata
      /\ k \notin raced => now.status = row.status /\ now.is_deleted = FALSE
      /\ \/ /\ r.op = "update"
            /\ n.is_deleted = FALSE
            /\ n.slug # row.slug /\ n.slug \notin raced => Named(n.slug) \subseteq {k}
         \/ /\ r.op = "delete"
            /\ n.is_deleted = TRUE /\ n.status = "deleted" /\ n.slug = row.slug
            /\ k \notin files
  BY <1>1, <1>2, <1>3, <1>5 DEF Sound, Changing
<1>7. now \in Rows
  BY <1>3, <1>6, ExistingIsRow DEF IInv
<1>8. /\ w \in Rows
      /\ w.slug = IF n.slug # row.slug THEN n.slug ELSE now.slug
      /\ w.status = IF n.status # row.status THEN n.status ELSE now.status
      /\ w.is_deleted = IF n.is_deleted # row.is_deleted THEN n.is_deleted ELSE now.is_deleted
      /\ w.metadata = now.metadata
  BY <1>3, <1>6, <1>7, WrittenIsRow
<1>9. /\ asset' \in [Assets -> Rows \cup {NoAsset}]
      /\ asset'[k] = w
      /\ \A m \in Assets \ {k} : asset'[m] = asset[m]
  BY <1>5, <1>6, <1>8 DEF IInv, TypesHold
<1>10. raced \subseteq raced'
  BY <1>5 DEF Commit
<1>11. \A m \in Assets : Exists(m)' <=> Exists(m)
  <2>1. Exists(k)'
    BY <1>8, <1>9, RowsAreThere DEF Exists
  <2>2. QED
    BY <1>6, <1>9, <2>1 DEF Exists
<1>12. \A m \in Assets : Live(m)' => Live(m)
  <2>1. Live(k)' => Live(k)
    BY <1>3, <1>6, <1>8, <1>9 DEF Live
  <2>2. QED
    BY <1>9, <2>1 DEF Live, Exists
<1>13. \A s : s \notin wrote \/ n.slug = row.slug \/ s # n.slug => Named(s)' \subseteq Named(s)
  <2> SUFFICES ASSUME NEW s, s \notin wrote \/ n.slug = row.slug \/ s # n.slug, NEW m \in Named(s)'
               PROVE  m \in Named(s)
    OBVIOUS
  <2>1. m \in Assets /\ Live(m)' /\ asset'[m].slug = s
    BY DEF Named
  <2>2. asset[m].slug = s
    BY <1>3, <1>4, <1>8, <1>9, <2>1
  <2>3. QED
    BY <1>12, <2>1, <2>2 DEF Named
<1>14. Keeps(t)
  <2>1. \A u \in Threads \ {t} : \A x : <<u, x>> \in claims => <<u, x>> \in claims'
    BY <1>5, ClaimsOfOthersStay
  <2>2. \A u \in Threads \ {t} : \A x \in wrote : <<u, x>> \in claims => x \in raced'
    BY <1>5, ClaimsOfOthersStay
  <2>3. \A u \in Threads \ {t} : \A s \in Slugs :
          <<u, s>> \in claims /\ s \notin raced' => Named(s)' \subseteq Named(s)
    BY <1>13, <2>2
  <2>4. \A u \in Threads \ {t} : \A m \in Assets :
          <<u, m>> \in claims /\ m \notin raced' =>
            asset'[m].status = asset[m].status /\ asset'[m].is_deleted = asset[m].is_deleted
    <3>1. k \in wrote
      BY <1>4
    <3>2. QED
      BY <1>9, <2>2, <3>1
  <2>5. \A m \in Assets : asset'[m].metadata = asset[m].metadata
    BY <1>3, <1>8, <1>9
  <2>6. QED
    BY <1>5, <1>10, <1>11, <2>1, <2>3, <2>4, <2>5 DEF Keeps
<1>15. RequestsHold' /\ FilesAreOwn' /\ req' \in [Threads -> Requests]
  BY <1>5, <1>14, IdleIsSound, RequestsStay DEF IInv
<1>16. LiveAssetsHaveFiles'
  <2>1. Live(k)' => r.op = "update"
    BY <1>6, <1>8, <1>9 DEF Live
  <2>2. \A m \in Assets : Live(m)' => ~ (req[t].asset = m /\ req[t].op = "delete" /\ req[t].pc = "save")
    BY <1>1, <1>2, <2>1
  <2>3. QED
    BY <1>5, <1>12, <2>2, LiveStay
<1>17. DeletedHold'
  <2>1. w.is_deleted => k \notin files
    BY <1>3, <1>6, <1>8 DEF IInv, DeletedHold
  <2>2. w.is_deleted /\ k \notin raced' => w.status = "deleted"
    BY <1>3, <1>6, <1>8, <1>10
  <2>3. QED
    BY <1>5, <1>9, <1>10, <2>1, <2>2 DEF IInv, DeletedHold
<1>18. SlugsHold'
  <2> SUFFICES ASSUME NEW s \in Slugs, s \notin raced' PROVE Single(s)'
    BY DEF SlugsHold
  <2>1. s \notin raced
    BY <1>10
  <2>2. CASE s = n.slug /\ n.slug # row.slug
    <3>1. Named(s) \subseteq {k}
      BY <1>6, <2>1, <2>2
    <3>2. Named(s)' \subseteq {k}
      <4> SUFFICES ASSUME NEW m \in Named(s)', m # k PROVE FALSE
        OBVIOUS
      <4>1. m \in Named(s)
        BY <1>9 DEF Named, Live, Exists
      <4>2. QED
        BY <3>1, <4>1
    <3>3. QED
      BY <3>2 DEF Single
  <2>3. CASE ~ (s = n.slug /\ n.slug # row.slug)
    <3>1. Named(s)' \subseteq Named(s)
      BY <1>13, <2>3
    <3>2. QED
      BY <2>1, <3>1 DEF IInv, SlugsHold, Single
  <2>4. QED
    BY <2>2, <2>3
<1>19. NotesAreKept'
  <2>1. \A m \in Assets : asset'[m].metadata = asset[m].metadata
    BY <1>3, <1>8, <1>9
  <2>2. QED
    BY <1>5, <1>10, <2>1 DEF IInv, NotesAreKept
<1>20. QED
  BY <1>5, <1>9, <1>15, <1>16, <1>17, <1>18, <1>19 DEF IInv, TypesHold

LEMMA SaveMetadataHolds ==
  ASSUME IInv, NEW t \in Threads, SaveMetadata(t)
  PROVE  IInv'
<1>1. PICK r \in Requests : r = req[t] /\ Sound(t, r)
  BY RequestIsSound
<1>2. PICK k, n, op : k = r.asset /\ n = r.new /\ op = r.op
  OBVIOUS
<1>3. PICK now, w : now = asset[k] /\ w = [now EXCEPT !.metadata = n.metadata]
  OBVIOUS
<1>4. /\ r.pc = "note"
      /\ Commit(t, {<<k, "metadata">>})
      /\ req' = [req EXCEPT ![t] = Idle]
      /\ noted' = noted \cup {<<k, op>>}
      /\ UNCHANGED <<files, cut>>
  BY <1>1, <1>2 DEF SaveMetadata
<1>5. /\ k \in Assets /\ Exists(k)
      /\ n \in Rows /\ op \in n.metadata
      /\ <<k, "metadata">> \notin raced => now.metadata \subseteq n.metadata
  BY <1>1, <1>2, <1>3, <1>4 DEF Sound, Noting
<1>6. now \in Rows
  BY <1>3, <1>5, ExistingIsRow DEF IInv
<1>7. /\ w \in Rows
      /\ w.slug = now.slug /\ w.status = now.status /\ w.is_deleted = now.is_deleted
      /\ w.metadata = n.metadata
  BY <1>3, <1>5, <1>6 DEF Rows
<1>8. asset' = [asset EXCEPT ![k] = w]
  <2>1. asset' = [asset EXCEPT ![k].metadata = n.metadata]
    BY <1>1, <1>2 DEF SaveMetadata
  <2>2. asset \in [Assets -> Rows \cup {NoAsset}]
    BY DEF IInv, TypesHold
  <2>3. QED
    BY <1>3, <1>5, <2>1, <2>2
<1>9. /\ asset' \in [Assets -> Rows \cup {NoAsset}]
      /\ asset'[k] = w
      /\ \A m \in Assets \ {k} : asset'[m] = asset[m]
  BY <1>5, <1>7, <1>8 DEF IInv, TypesHold
<1>10. raced \subseteq raced'
  BY <1>4 DEF Commit
<1>11. /\ \A m \in Assets : Exists(m)' <=> Exists(m)
       /\ \A m \in Assets : asset'[m].slug = asset[m].slug /\ asset'[m].status = asset[m].status
                              /\ asset'[m].is_deleted = asset[m].is_deleted
  <2>1. Exists(k)'
    BY <1>7, <1>9, RowsAreThere DEF Exists
  <2>2. QED
    BY <1>3, <1>5, <1>7, <1>9, <2>1 DEF Exists
<1>12. \A m \in Assets : Live(m)' => Live(m)
  BY <1>11 DEF Live
<1>13. \A s : Named(s)' \subseteq Named(s)
  BY <1>11, <1>12 DEF Named
<1>14. Keeps(t)
  <2>1. \A u \in Threads \ {t} : \A x : <<u, x>> \in claims => <<u, x>> \in claims'
    BY <1>4, ClaimsOfOthersStay
  <2>2. \A u \in Threads \ {t} : <<u, <<k, "metadata">>>> \in claims => <<k, "metadata">> \in raced'
    BY <1>4, ClaimsOfOthersStay
  <2>3. \A u \in Threads \ {t} : \A m \in Assets :
          <<u, <<m, "metadata">>>> \in claims /\ <<m, "metadata">> \notin raced' =>
            asset'[m].metadata = asset[m].metadata
    BY <1>9, <2>2
  <2>4. QED
    BY <1>4, <1>10, <1>11, <1>13, <2>1, <2>3 DEF Keeps
<1>15. RequestsHold' /\ FilesAreOwn' /\ req' \in [Threads -> Requests]
  BY <1>4, <1>14, IdleIsSound, RequestsStay DEF IInv
<1>16. LiveAssetsHaveFiles'
  BY <1>1, <1>4, <1>12, LiveStay
<1>17. DeletedHold'
  BY <1>4, <1>10, <1>11 DEF IInv, DeletedHold
<1>18. SlugsHold'
  BY <1>10, <1>13 DEF IInv, SlugsHold, Single
<1>19. NotesAreKept'
  <2> SUFFICES ASSUME NEW m \in Assets, <<m, "metadata">> \notin raced'
               PROVE  {x \in Notes : <<m, x>> \in noted'} \subseteq asset'[m].metadata
    BY DEF NotesAreKept
  <2>1. {x \in Notes : <<m, x>> \in noted} \subseteq asset[m].metadata
    BY <1>10 DEF IInv, NotesAreKept
  <2>2. CASE m = k
    BY <1>3, <1>4, <1>5, <1>7, <1>9, <1>10, <2>1, <2>2
  <2>3. CASE m # k
    BY <1>4, <1>9, <2>1, <2>3
  <2>4. QED
    BY <2>2, <2>3
<1>20. QED
  BY <1>4, <1>9, <1>15, <1>16, <1>17, <1>18, <1>19 DEF IInv, TypesHold

-----------------------------------------------------------------------------
LEMMA InitHolds == AssetsInit => IInv
<1> SUFFICES ASSUME AssetsInit PROVE IInv
  OBVIOUS
<1>1. \A t \in Threads : req[t] = Idle
  BY DEF AssetsInit
<1>2. TypesHold
  <2>1. req \in [Threads -> Requests]
    BY IdleIsSound DEF AssetsInit
  <2>2. QED
    BY <2>1 DEF AssetsInit, TypesHold
<1>3. RequestsHold /\ FilesAreOwn
  BY <1>1, IdleIsSound DEF RequestsHold, FilesAreOwn
<1>4. \A k \in Assets : asset[k] = NoAsset
  BY DEF AssetsInit
<1>5. \A k \in Assets : ~ Exists(k) /\ ~ Live(k)
  BY <1>4 DEF Exists, Live
<1>6. LiveAssetsHaveFiles /\ SlugsHold
  BY <1>5 DEF LiveAssetsHaveFiles, SlugsHold, Single, Named
<1>7. DeletedHold
  BY <1>4, RowsAreThere DEF DeletedHold
<1>8. NotesAreKept
  BY DEF AssetsInit, NotesAreKept
<1>9. QED
  BY <1>2, <1>3, <1>6, <1>7, <1>8 DEF IInv

LEMMA StutterHolds ==
  ASSUME IInv, UNCHANGED assetVars
  PROVE  IInv'
<1> USE DEF assetVars
<1>1. TypesHold' /\ FilesAreOwn'
  BY DEF IInv, TypesHold, FilesAreOwn
<1>2. RequestsHold'
  <2> SUFFICES ASSUME NEW t \in Threads, NEW r \in Requests, r = req'[t]
               PROVE  Sound(t, r)'
    BY DEF RequestsHold
  <2>1. Sound(t, r)
    BY DEF IInv, RequestsHold
  <2>2. Uploading(t, r)'
    BY <2>1, SameRows DEF Sound, Uploading
  <2>3. Changing(t, r)'
    BY <2>1, SameRows DEF Sound, Changing
  <2>4. Noting(t, r)'
    BY <2>1, SameRows DEF Sound, Noting
  <2>5. QED
    BY <2>2, <2>3, <2>4 DEF Sound
<1>3. LiveAssetsHaveFiles'
  BY DEF IInv, LiveAssetsHaveFiles, Live, Exists
<1>4. DeletedHold' /\ SlugsHold' /\ NotesAreKept'
  BY RowsStay
<1>5. QED
  BY <1>1, <1>2, <1>3, <1>4 DEF IInv

LEMMA StepHolds == IInv /\ [AssetsNext]_assetVars => IInv'
<1> SUFFICES ASSUME IInv, [AssetsNext]_assetVars PROVE IInv'
  OBVIOUS
<1>1. ASSUME NEW t \in Threads,
             \/ UploadAudioAsset(t) \/ WriteFile(t) \/ Insert(t)
             \/ \E k \in Assets : UpdateAudioAsset(t, k) \/ DeleteAudioAsset(t, k) \/ NoteInMetadata(t, k)
             \/ Unlink(t) \/ UnlinkFails(t)
             \/ Save(t) \/ SaveMetadata(t) \/ Abort(t)
      PROVE  IInv'
  BY <1>1, UploadHolds, WriteFileHolds, InsertHolds, UpdateHolds, DeleteHolds, NoteHolds,
     UnlinkHolds, UnlinkFailsHolds, SaveHolds, SaveMetadataHolds, AbortHolds
<1>2. QED
  BY <1>1, StutterHolds DEF AssetsNext

LEMMA Inductive == AssetsSpec => []IInv
  BY InitHolds, StepHolds, PTL DEF AssetsSpec

(* RowsAndFilesAgree holds: a live asset has its file, a deleted one has    *)
(* none, but for deletions cut off or overlapped by an update.              *)
THEOREM RowsAndFilesDoAgree == AssetsSpec => []RowsAndFilesAgree
<1>1. IInv => RowsAndFilesAgree
  <2> SUFFICES ASSUME IInv PROVE RowsAndFilesAgree
    OBVIOUS
  <2>1. AssetsTypeOK
    <3>1. ASSUME NEW k \in Assets, Exists(k)
          PROVE  /\ asset[k].status \in UPLOADABLE_STATUS
                 /\ asset[k].is_deleted \in BOOLEAN
                 /\ asset[k].metadata \subseteq Notes
      <4>1. asset[k] \in Rows
        BY <3>1, ExistingIsRow DEF IInv
      <4>2. QED
        BY <4>1 DEF Rows
    <3>2. \A t \in Threads : req[t].pc \in {"idle", "write", "insert", "unlink", "save", "note"}
      BY DEF IInv, TypesHold, Requests
    <3>3. QED
      BY <3>1, <3>2 DEF IInv, TypesHold, AssetsTypeOK
  <2>2. DeletedAssetsHaveNoFile /\ DeletedHasItsStatus
    BY DEF IInv, DeletedHold, DeletedAssetsHaveNoFile, DeletedHasItsStatus
  <2>3. QED
    BY <2>1, <2>2 DEF IInv, RowsAndFilesAgree
<1>2. QED
  BY <1>1, Inductive, PTL

(* SlugsAreUnique holds: of two live assets with one slug, both were looked *)
(* up before the other was committed.                                       *)
THEOREM SlugsStayUnique == AssetsSpec => []SlugsAreUnique
<1>1. IInv => SlugsAreUnique
  <2> SUFFICES ASSUME IInv, NEW s \in Slugs \ raced PROVE Cardinality(Named(s)) <= 1
    BY DEF SlugsAreUnique
  <2>1. Single(s)
    BY DEF IInv, SlugsHold
  <2>2. CASE Named(s) = {}
    BY <2>2, FS_EmptySet
  <2>3. CASE Named(s) # {}
    <3>1. PICK k : Named(s) = {k}
      BY <2>1, <2>3 DEF Single
    <3>2. Cardinality({k}) = 1
      BY FS_Singleton
    <3>3. Cardinality(Named(s)) = 1
      BY <3>1, <3>2
    <3>4. QED
      BY <3>3
  <2>4. QED
    BY <2>2, <2>3
<1>2. QED
  BY <1>1, Inductive, PTL

(* NotesAreKept holds: a note is lost to an overlapping one only.           *)
THEOREM NotesStay == AssetsSpec => []NotesAreKept
<1>1. IInv => NotesAreKept
  BY DEF IInv
<1>2. QED
  BY <1>1, Inductive, PTL

-----------------------------------------------------------------------------
(* Text to speech *)

AllSlugs == Slugs \cup (Slugs \X Assets)

AssetRows ==
  [slug : AllSlugs, status : UPLOADABLE_STATUS, is_deleted : BOOLEAN,
   metadata : SUBSET Notes, text : Texts \cup {None}]

AssetRequests ==
  [pc : {"idle", "write", "insert", "unlink", "save", "note"},
   op : {None, "upload", "update", "delete"} \cup Notes, asset : Assets \cup {None},
   row : AssetRows \cup {NoAsset}, new : AssetRows \cup {NoAsset}]

TtsRows ==
  [text : Texts, status : {"processing", "completed", "failed"}, asset : Assets \cup {None},
   error : {"none", "generation failed", "deleted_by_user"}]

Jobs ==
  [pc : {"idle", "hit", "insert", "enqueue", "start", "load", "generate", "complete",
         "failed", "delete"},
   op : {None, "generate", "runtime", "delete"}, text : Texts \cup {None}, id : Nat,
   asset : Assets \cup {None}, slug : AllSlugs \cup {None}, row : TtsRows \cup {NoTts}]

RowsHold ==
  /\ asset \in [Assets -> AssetRows \cup {NoAsset}]
  /\ files \subseteq Assets
  /\ req \in [Threads -> AssetRequests]
  /\ tts \in Seq(TtsRows)
  /\ queue \in Seq(Nat)
  /\ job \in [Processes -> Jobs]

(* What a request about assets knows: that the asset of an upload has its    *)
(* file and no row yet, and any other its row, whose text it does not write. *)
AssetKnown(r) ==
  /\ r.pc \in {"write", "insert"} => r.new \in AssetRows
  /\ r.pc = "insert" => r.asset \in Assets /\ r.asset \in files /\ ~ Exists(r.asset)
  /\ r.pc \in {"unlink", "save", "note"} =>
       /\ r.asset \in Assets /\ Exists(r.asset)
       /\ r.row \in AssetRows /\ r.new \in AssetRows
       /\ r.new.text = r.row.text
  /\ r.pc \in {"unlink", "save"} =>
       /\ r.row.is_deleted = FALSE
       /\ \/ r.op = "update" /\ r.new.is_deleted = FALSE
          \/ r.op = "delete" /\ r.new.is_deleted = TRUE /\ r.new.status = "deleted"

AssetsKnown == \A t \in Threads : AssetKnown(req[t])

(* Of a key whose asset was looked for in vain: if another can be served all  *)
(* the same, the exceptions of SpeechIsShared are met.                      *)
MissIsRight(key) ==
  \/ key \in raced \/ Disturbed(key)
  \/ \A i \in Made(key) : Servable(tts[i].asset) => Overtaken(tts[i].asset, key)

SharedOf(key) ==
  \A i, j \in Made(key) :
    Servable(tts[i].asset) /\ Servable(tts[j].asset) =>
      \/ tts[i].asset = tts[j].asset
      \/ key \in raced \/ Disturbed(key)
      \/ Overtaken(tts[i].asset, key) \/ Overtaken(tts[j].asset, key)

KeysAreShared == \A key \in Keys : SharedOf(key)

(* Somebody is at it: it has no asset, and its key is claimed.               *)
Hands == {"enqueue", "start", "load", "generate", "complete", "failed"}

InWork(i) ==
  /\ i \in Ids
  /\ tts[i].asset = None /\ tts[i].status # "completed"
  /\ <<i, KeyOf[tts[i].text]>> \in claims
  /\ MissIsRight(KeyOf[tts[i].text])

JobKnown(p, r) ==
  /\ r.pc \in {"idle", "hit", "insert"} => r.id = 0
  /\ r.pc \in {"hit", "insert"} => r.text \in Texts
  /\ r.pc = "hit" => \E i \in Made(KeyOf[r.text]) : tts[i].asset = r.asset
  /\ r.pc = "insert" => <<p, KeyOf[r.text]>> \in claims /\ MissIsRight(KeyOf[r.text])
  /\ r.pc \in Hands => InWork(r.id) /\ r.text = tts[r.id].text
  /\ r.pc \in {"insert"} \cup Hands => r.row.asset = None /\ r.row.status # "completed"
  /\ r.pc = "complete" =>
       /\ r.asset \in Assets /\ r.asset \in files /\ ~ Exists(r.asset)
       /\ r.slug \in AllSlugs
  /\ r.pc = "delete" => r.id \in Ids /\ r.row \in TtsRows

JobsKnown == \A p \in Processes : JobKnown(p, job[p])

QueueHolds == \A i \in ToSet(queue) : InWork(i)

(* No two are at one request, and none that waits is anybody's.              *)
HandsAreOne ==
  /\ \A p, q \in Processes :
       p # q /\ job[p].pc \in Hands /\ job[q].pc \in Hands => job[p].id # job[q].id
  /\ \A p \in Processes : job[p].pc \in Hands => job[p].id \notin ToSet(queue)
  /\ \A m, n \in DOMAIN queue : queue[m] = queue[n] => m = n

(* No two have a file without a row in common.                              *)
UuidsAreOwn ==
  /\ \A t, u \in Threads :
       t # u /\ req[t].pc = "insert" /\ req[u].pc = "insert" => req[t].asset # req[u].asset
  /\ \A p, q \in Processes :
       p # q /\ job[p].pc = "complete" /\ job[q].pc = "complete" => job[p].asset # job[q].asset
  /\ \A t \in Threads, p \in Processes :
       req[t].pc = "insert" /\ job[p].pc = "complete" => req[t].asset # job[p].asset

(* A request with an asset has been completed, and then perhaps failed.      *)
StatusFits ==
  \A i \in Ids : /\ tts[i].status = "completed" => tts[i].asset # None
                 /\ tts[i].asset # None => tts[i].status # "processing"

SpeechInv ==
  /\ RowsHold /\ StatusFits /\ AssetsKnown /\ JobsKnown /\ QueueHolds /\ HandsAreOne /\ UuidsAreOwn
  /\ KeysAreShared /\ AssetIsForTheText /\ ProcessingIsAtWork

-----------------------------------------------------------------------------
LEMMA AssetRowsAreThere ==
  /\ NoAsset \notin AssetRows
  /\ NoAsset.is_deleted = FALSE
  /\ NoAsset.status # "ready"
<1>1. NoAsset.status = "none"
  BY DEF NoAsset
<1>2. NoAsset.is_deleted = FALSE
  BY DEF NoAsset
<1>3. NoAsset \notin AssetRows
  BY <1>1 DEF AssetRows, UPLOADABLE_STATUS
<1>4. QED
  BY <1>1, <1>2, <1>3

LEMMA WhatExists ==
  ASSUME RowsHold, NEW k \in Assets
  PROVE  /\ Exists(k) <=> asset[k] \in AssetRows
         /\ Live(k) <=> asset[k] \in AssetRows /\ asset[k].is_deleted = FALSE
         /\ Servable(k) <=> Live(k) /\ asset[k].status = "ready"
  BY AssetRowsAreThere DEF RowsHold, Exists, Live, Servable, AssetRows

LEMMA WrittenIsAssetRow ==
  ASSUME NEW now \in AssetRows, NEW old \in AssetRows, NEW new \in AssetRows, new.text = old.text,
         NEW w, w = Written(now, old, new)
  PROVE  /\ w \in AssetRows
         /\ w.text = now.text
         /\ w.status = IF new.status # old.status THEN new.status ELSE now.status
         /\ w.is_deleted = IF new.is_deleted # old.is_deleted THEN new.is_deleted ELSE now.is_deleted
<1> DEFINE r == [slug |-> IF new.slug # old.slug THEN new.slug ELSE now.slug,
                 status |-> IF new.status # old.status THEN new.status ELSE now.status,
                 is_deleted |-> IF new.is_deleted # old.is_deleted THEN new.is_deleted ELSE now.is_deleted,
                 metadata |-> IF new.metadata # old.metadata THEN new.metadata ELSE now.metadata,
                 text |-> now.text]
<1>1. DOMAIN now = {"slug", "status", "is_deleted", "metadata", "text"}
  BY DEF AssetRows
<1>2. DOMAIN w = {"slug", "status", "is_deleted", "metadata", "text"}
  BY <1>1 DEF Written
<1>3. /\ w.slug = r.slug /\ w.status = r.status /\ w.is_deleted = r.is_deleted
      /\ w.metadata = r.metadata /\ w.text = r.text
  BY <1>1 DEF Written
<1>4. r \in AssetRows
  BY DEF AssetRows
<1>5. w = r
  BY <1>1, <1>2, <1>3 DEF Written
<1>6. QED
  BY <1>3, <1>4, <1>5

(* The tts_requests table, with a row changed or added.                     *)
LEMMA RowChanged ==
  ASSUME tts \in Seq(TtsRows), NEW id \in Ids, NEW row \in TtsRows, tts' = [tts EXCEPT ![id] = row]
  PROVE  /\ tts' \in Seq(TtsRows) /\ Ids' = Ids /\ tts'[id] = row
         /\ \A i \in Ids \ {id} : tts'[i] = tts[i]
         /\ \A i \in Ids : tts[i] \in TtsRows
<1>1. Ids = DOMAIN tts /\ Ids = 1 .. Len(tts)
  BY DEF Ids
<1>2. tts' \in Seq(TtsRows) /\ Len(tts') = Len(tts)
  BY <1>1, ExceptSeq
<1>3. QED
  BY <1>1, <1>2, ElementOfSeq DEF Ids

LEMMA RowAppended ==
  ASSUME tts \in Seq(TtsRows), NEW row \in TtsRows, tts' = Append(tts, row)
  PROVE  /\ tts' \in Seq(TtsRows)
         /\ Len(tts) + 1 \in Nat \ {0} /\ Len(tts) + 1 \notin Ids
         /\ Ids' = Ids \cup {Len(tts) + 1}
         /\ tts'[Len(tts) + 1] = row
         /\ \A i \in Ids : tts'[i] = tts[i] /\ tts[i] \in TtsRows /\ i \in Nat \ {0} /\ i < Len(tts) + 1
<1>1. /\ tts' \in Seq(TtsRows) /\ Len(tts') = Len(tts) + 1 /\ Len(tts) \in Nat
      /\ tts'[Len(tts) + 1] = row
      /\ \A i \in 1 .. Len(tts) : tts'[i] = tts[i] /\ tts[i] \in TtsRows
  OBVIOUS
<1>2. QED
  BY <1>1 DEF Ids

LEMMA IdsAreTyped ==
  ASSUME RowsHold
  PROVE  \A i \in Ids : i \in Nat \ {0} /\ tts[i] \in TtsRows
  BY DEF RowsHold, Ids

-----------------------------------------------------------------------------
(* What is known of a key stays known while rows keep their assets, nothing  *)
(* comes back that an update has not brought back, and what is new has an   *)
(* asset that was there.                                                    *)
LEMMA SharingStays ==
  ASSUME RowsHold, NEW key, raced \subseteq raced', edited \subseteq edited',
         \A i \in Made(key) :
           /\ i \in Made(key)' /\ tts'[i].asset = tts[i].asset
           /\ tts[i].asset \in Assets /\ Exists(tts[i].asset)
           /\ tts[i].status = "failed" => tts'[i].status = "failed",
         \A i \in Made(key)' : \E j \in Made(key) : tts[j].asset = tts'[i].asset,
         \A k \in Assets : Exists(k) /\ Servable(k)' => Servable(k) \/ k \in edited'
  PROVE  /\ MissIsRight(key) => MissIsRight(key)'
         /\ SharedOf(key) => SharedOf(key)'
<1>1. Disturbed(key) => Disturbed(key)'
  BY DEF Disturbed
<1>2. ASSUME NEW k, Overtaken(k, key)
      PROVE  Overtaken(k, key)' \/ Disturbed(key)'
  <2>1. PICK i \in Made(key), j \in Made(key) :
          i < j /\ tts[i].asset = k /\ ~ Servable(tts[j].asset)
    BY <1>2 DEF Overtaken
  <2>2. PICK m : m = tts[j].asset
    OBVIOUS
  <2>3. j \in Made(key)' /\ tts'[j].asset = m /\ m \in Assets /\ Exists(m) /\ ~ Servable(m)
    BY <2>1, <2>2
  <2>4. CASE Servable(m)'
    BY <2>3, <2>4 DEF Disturbed
  <2>5. CASE ~ Servable(m)'
    BY <2>1, <2>3, <2>5 DEF Overtaken
  <2>6. QED
    BY <2>4, <2>5
<1>3. ASSUME NEW i \in Made(key)', NEW k, k = tts'[i].asset, Servable(k)', ~ Disturbed(key)'
      PROVE  \E j \in Made(key) : tts[j].asset = k /\ Servable(k)
  <2>1. PICK j \in Made(key) : tts[j].asset = k
    BY <1>3
  <2>2. k \in Assets /\ Exists(k) /\ j \in Made(key)' /\ tts'[j].asset = k
    BY <2>1
  <2>3. k \notin edited'
    BY <1>3, <2>2 DEF Disturbed
  <2>4. QED
    BY <1>3, <2>1, <2>2, <2>3
<1>4. ASSUME MissIsRight(key)
      PROVE  MissIsRight(key)'
  <2> SUFFICES ASSUME key \notin raced', ~ Disturbed(key)', NEW i \in Made(key)',
                      NEW k, k = tts'[i].asset, Servable(k)'
               PROVE  Overtaken(k, key)'
    BY DEF MissIsRight
  <2>1. PICK j \in Made(key) : tts[j].asset = k /\ Servable(k)
    BY <1>3
  <2>2. Overtaken(k, key)
    BY <1>1, <1>4, <2>1 DEF MissIsRight
  <2>3. QED
    BY <1>2, <2>2
<1>5. ASSUME SharedOf(key)
      PROVE  SharedOf(key)'
  <2> SUFFICES ASSUME key \notin raced', ~ Disturbed(key)',
                      NEW i \in Made(key)', NEW j \in Made(key)',
                      NEW k, k = tts'[i].asset, NEW m, m = tts'[j].asset,
                      Servable(k)', Servable(m)', k # m
               PROVE  Overtaken(k, key)' \/ Overtaken(m, key)'
    BY DEF SharedOf
  <2>1. PICK x \in Made(key) : tts[x].asset = k /\ Servable(k)
    BY <1>3
  <2>2. PICK y \in Made(key) : tts[y].asset = m /\ Servable(m)
    BY <1>3
  <2>3. Overtaken(k, key) \/ Overtaken(m, key)
    BY <1>1, <1>5, <2>1, <2>2 DEF SharedOf
  <2>4. QED
    BY <1>2, <2>3
<1>6. QED
  BY <1>4, <1>5

-----------------------------------------------------------------------------
(* What a step leaves as it is of the requests, but for the one at hand.      *)
KeepsRequests(id) ==
  /\ raced \subseteq raced' /\ edited \subseteq edited'
  /\ \A k \in Assets : Exists(k) =>
       /\ Exists(k)' /\ asset'[k].text = asset[k].text
       /\ Servable(k)' => Servable(k) \/ k \in edited'
  /\ \A i \in Ids :
       /\ i \in Ids' /\ tts'[i].text = tts[i].text
       /\ tts[i].asset # None => /\ tts'[i].asset = tts[i].asset
                                 /\ tts[i].status = "failed" => tts'[i].status = "failed"
       /\ i # id => /\ tts[i].asset = None => tts'[i].asset = None
                    /\ tts[i].status # "completed" => tts'[i].status # "completed"

(* Nothing is given an asset that none with its key has been given.          *)
NothingIsNew(key) == \A i \in Made(key)' : \E j \in Made(key) : tts[j].asset = tts'[i].asset

LEMMA MadeStays ==
  ASSUME SpeechInv, NEW id, KeepsRequests(id), NEW key, NEW i \in Made(key)
  PROVE  /\ i \in Made(key)' /\ tts'[i].asset = tts[i].asset
         /\ tts[i].asset \in Assets /\ Exists(tts[i].asset)
         /\ tts[i].status = "failed" => tts'[i].status = "failed"
<1>1. i \in Ids /\ tts[i].asset # None /\ KeyOf[tts[i].text] = key /\ tts[i] \in TtsRows
  BY IdsAreTyped DEF Made, SpeechInv
<1>2. tts[i].asset \in Assets
  BY <1>1 DEF TtsRows
<1>3. Exists(tts[i].asset)
  BY <1>1 DEF SpeechInv, AssetIsForTheText
<1>4. i \in Ids' /\ tts'[i].text = tts[i].text /\ tts'[i].asset = tts[i].asset
  BY <1>1 DEF KeepsRequests
<1>5. i \in Made(key)'
  BY <1>1, <1>4 DEF Made
<1>6. tts[i].status = "failed" => tts'[i].status = "failed"
  BY <1>1 DEF KeepsRequests
<1>7. QED
  BY <1>2, <1>3, <1>4, <1>5, <1>6

LEMMA KeyStays ==
  ASSUME SpeechInv, NEW id, KeepsRequests(id), NEW key, NothingIsNew(key)
  PROVE  /\ MissIsRight(key) => MissIsRight(key)'
         /\ SharedOf(key) => SharedOf(key)'
<1>1. \A i \in Made(key) :
        /\ i \in Made(key)' /\ tts'[i].asset = tts[i].asset
        /\ tts[i].asset \in Assets /\ Exists(tts[i].asset)
        /\ tts[i].status = "failed" => tts'[i].status = "failed"
  BY MadeStays
<1>2. \A k \in Assets : Exists(k) /\ Servable(k)' => Servable(k) \/ k \in edited'
  BY DEF KeepsRequests
<1>3. raced \subseteq raced' /\ edited \subseteq edited' /\ RowsHold
  BY DEF KeepsRequests, SpeechInv
<1>4. QED
  BY <1>1, <1>2, <1>3, SharingStays DEF NothingIsNew

LEMMA AssetsStayRight ==
  ASSUME SpeechInv, NEW id, KeepsRequests(id), \A key \in Keys : NothingIsNew(key), RowsHold', StatusFits'
  PROVE  KeysAreShared' /\ AssetIsForTheText'
<1>1. KeysAreShared'
  BY KeyStays DEF SpeechInv, KeysAreShared
<1>2. ASSUME NEW i \in Ids', NEW m, m = tts'[i].asset, m # None
      PROVE  Exists(m)' /\ KeyOf[asset'[m].text] = KeyOf[tts'[i].text]
  <2>1. tts'[i].text \in Texts
    <3>1. tts' \in Seq(TtsRows)
      BY DEF RowsHold
    <3>2. i \in 1 .. Len(tts')
      BY DEF Ids
    <3>3. tts'[i] \in TtsRows
      BY <3>1, <3>2, ElementOfSeq
    <3>4. QED
      BY <3>3 DEF TtsRows
  <2>2. PICK key \in Keys : key = KeyOf[tts'[i].text]
    BY <2>1, KeysAndSlugs
  <2>3. i \in Made(key)'
    BY <1>2, <2>2 DEF Made
  <2>4. PICK j \in Made(key) : tts[j].asset = tts'[i].asset
    BY <2>3 DEF NothingIsNew
  <2>5. PICK k \in Assets : k = tts[j].asset
    BY MadeStays
  <2>6. Exists(k) /\ KeyOf[asset[k].text] = key
    BY <2>5 DEF SpeechInv, AssetIsForTheText, Made
  <2>7. Exists(k)' /\ asset'[k].text = asset[k].text
    BY <2>6 DEF KeepsRequests
  <2>8. m = k
    BY <1>2, <2>4, <2>5
  <2>9. QED
    BY <2>2, <2>6, <2>7, <2>8 DEF Exists
<1>3. QED
  BY <1>1, <1>2 DEF AssetIsForTheText, StatusFits

(* Nobody but p, who may be at the request id, loses a claim or what it knows *)
(* of its key.                                                              *)
KeepsClaims(p, id) ==
  \A q \in (Processes \ {p}) \cup (Ids \ {id}) : \A key \in Keys :
    <<q, key>> \in claims /\ MissIsRight(key) => <<q, key>> \in claims' /\ MissIsRight(key)'

LEMMA WorkStays ==
  ASSUME SpeechInv, NEW p, NEW id, KeepsRequests(id), KeepsClaims(p, id),
         NEW i \in Ids \ {id}, InWork(i)
  PROVE  InWork(i)'
<1>1. tts[i] \in TtsRows
  BY IdsAreTyped DEF SpeechInv
<1>2. PICK key \in Keys : key = KeyOf[tts[i].text]
  BY <1>1, KeysAndSlugs DEF TtsRows
<1>3. /\ i \in Ids' /\ tts'[i].text = tts[i].text
      /\ tts'[i].asset = None /\ tts'[i].status # "completed"
  BY DEF InWork, KeepsRequests
<1>4. <<i, key>> \in claims' /\ MissIsRight(key)'
  BY <1>2 DEF InWork, KeepsClaims
<1>5. KeyOf[tts'[i].text] = key
  BY <1>2, <1>3
<1>6. QED
  BY <1>3, <1>4, <1>5 DEF InWork

(* What another is doing is as it knows it, after a step of p.                *)
LEMMA JobStays ==
  ASSUME SpeechInv, NEW p, NEW id, KeepsRequests(id), KeepsClaims(p, id),
         NEW q \in Processes \ {p}, NEW r \in Jobs, JobKnown(q, r),
         r.pc \in Hands => r.id # id,
         r.pc = "complete" => r.asset \in files' /\ ~ Exists(r.asset)'
  PROVE  JobKnown(q, r)'
<1>1. r.pc = "hit" => \E i \in Made(KeyOf[r.text])' : tts'[i].asset = r.asset
  BY MadeStays DEF JobKnown
<1>2. ASSUME r.pc = "insert"
      PROVE  <<q, KeyOf[r.text]>> \in claims' /\ MissIsRight(KeyOf[r.text])'
  <2>1. PICK key \in Keys : key = KeyOf[r.text]
    BY <1>2, KeysAndSlugs DEF JobKnown
  <2>2. <<q, key>> \in claims /\ MissIsRight(key)
    BY <1>2, <2>1 DEF JobKnown
  <2>3. QED
    BY <2>1, <2>2 DEF KeepsClaims
<1>3. ASSUME r.pc \in Hands
      PROVE  InWork(r.id)' /\ r.text = tts'[r.id].text
  <2>1. InWork(r.id) /\ r.id \in Ids \ {id}
    BY <1>3 DEF JobKnown, InWork
  <2>2. InWork(r.id)'
    BY <2>1, WorkStays
  <2>3. QED
    BY <1>3, <2>1, <2>2 DEF JobKnown, KeepsRequests
<1>4. r.pc = "delete" => r.id \in Ids'
  BY DEF JobKnown, KeepsRequests
<1>5. QED
  BY <1>1, <1>2, <1>3, <1>4 DEF JobKnown

LEMMA JobsStay ==
  ASSUME SpeechInv, NEW p, NEW id, KeepsRequests(id), KeepsClaims(p, id),
         \A q \in Processes \ {p} :
           /\ job'[q] = job[q]
           /\ job[q].pc \in Hands => job[q].id # id
           /\ job[q].pc = "complete" => job[q].asset \in files' /\ ~ Exists(job[q].asset)',
         NEW s, p \in Processes => job'[p] = s /\ JobKnown(p, s)',
         \A i \in ToSet(queue') : i \in ToSet(queue) \ {id} \/ InWork(i)'
  PROVE  JobsKnown' /\ QueueHolds'
<1>1. ASSUME NEW q \in Processes \ {p}, NEW r \in Jobs, r = job[q]
      PROVE  JobKnown(q, r)'
  <2>1. JobKnown(q, r)
    BY <1>1 DEF SpeechInv, JobsKnown
  <2>2. /\ r.pc \in Hands => r.id # id
        /\ r.pc = "complete" => r.asset \in files' /\ ~ Exists(r.asset)'
    BY <1>1
  <2>3. QED
    BY <2>1, <2>2, JobStays
<1>2. ASSUME NEW q \in Processes, NEW r, r = job'[q]
      PROVE  JobKnown(q, r)'
  <2>1. CASE q = p
    BY <1>2, <2>1
  <2>2. CASE q # p
    <3>1. r = job[q] /\ r \in Jobs
      BY <1>2, <2>2 DEF SpeechInv, RowsHold
    <3>2. QED
      BY <1>1, <2>2, <3>1
  <2>3. QED
    BY <2>1, <2>2
<1>3. JobsKnown'
  BY <1>2 DEF JobsKnown
<1>4. QueueHolds'
  <2>1. \A i \in ToSet(queue) : InWork(i) /\ i \in Ids
    BY DEF SpeechInv, QueueHolds, InWork
  <2>2. QED
    BY <2>1, WorkStays DEF QueueHolds
<1>5. QED
  BY <1>3, <1>4

-----------------------------------------------------------------------------
LEMMA NobodyIsAtZero ==
  ASSUME SpeechInv
  PROVE  /\ 0 \notin Ids
         /\ \A p \in Processes : job[p] \in Jobs /\ JobKnown(p, job[p])
         /\ \A p \in Processes : job[p].pc \in Hands => job[p].id \in Ids /\ job[p].id # 0
         /\ \A i \in ToSet(queue) : i \in Ids /\ i # 0
<1>1. 0 \notin Ids
  BY DEF Ids
<1>2. \A p \in Processes : job[p] \in Jobs /\ JobKnown(p, job[p])
  BY DEF SpeechInv, RowsHold, JobsKnown
<1>3. QED
  BY <1>1, <1>2 DEF JobKnown, InWork, SpeechInv, QueueHolds

(* A step of p that leaves the queue alone, and begins no request.           *)
LEMMA HandsStay ==
  ASSUME SpeechInv, NEW p \in Processes, NEW s, job' = [job EXCEPT ![p] = s], queue' = queue,
         s.pc \in Hands => job[p].pc \in Hands /\ s.id = job[p].id
  PROVE  HandsAreOne'
<1>1. \A q \in Processes : job'[q] = IF q = p THEN s ELSE job[q]
  BY DEF SpeechInv, RowsHold
<1>2. QED
  BY <1>1 DEF SpeechInv, HandsAreOne

(* What is processed stays in somebody's hands.                             *)
LEMMA BusyStays ==
  ASSUME SpeechInv, NEW p \in Processes, NEW s, job' = [job EXCEPT ![p] = s], lost \subseteq lost',
         \A i \in ToSet(queue) : i \in ToSet(queue') \/ (s.id = i /\ s.pc # "delete"),
         job[p].id \in Ids /\ job[p].pc # "delete" =>
           \/ job[p].id \in ToSet(queue') \cup lost' \/ tts'[job[p].id].status # "processing"
           \/ (s.id = job[p].id /\ s.pc # "delete"),
         \A i \in Ids' : tts'[i].status = "processing" =>
           (i \in Ids /\ tts[i].status = "processing") \/ (s.id = i /\ s.pc # "delete")
  PROVE  ProcessingIsAtWork'
<1>1. \A q \in Processes : job'[q] = IF q = p THEN s ELSE job[q]
  BY DEF SpeechInv, RowsHold
<1>2. SUFFICES ASSUME NEW i \in Ids', tts'[i].status = "processing",
                      i \notin ToSet(queue'), i \notin lost', ~ (s.id = i /\ s.pc # "delete")
               PROVE  \E q \in Processes : job'[q].id = i /\ job'[q].pc # "delete"
  BY <1>1 DEF ProcessingIsAtWork
<1>3. i \in Ids /\ tts[i].status = "processing" /\ i \notin ToSet(queue) /\ i \notin lost
  BY <1>2
<1>4. PICK q \in Processes : job[q].id = i /\ job[q].pc # "delete"
  BY <1>3 DEF SpeechInv, ProcessingIsAtWork
<1>5. q # p
  BY <1>2, <1>3, <1>4
<1>6. QED
  BY <1>1, <1>4, <1>5

(* A step of p that writes no row of an asset.                              *)
LEMMA ActorHolds ==
  ASSUME SpeechInv, NEW p \in Processes, NEW r, r = job[p],
         NEW s \in Jobs, job' = [job EXCEPT ![p] = s],
         NEW id, id = 0 \/ (r.pc \in Hands /\ id = r.id),
         KeepsRequests(id), \A key \in Keys : NothingIsNew(key),
         UNCHANGED <<asset, req>>, files \subseteq files', files' \subseteq Assets,
         tts' \in Seq(TtsRows), queue' \in Seq(Nat),
         \A q : q # p /\ q # id => \A x : <<q, x>> \in claims => <<q, x>> \in claims',
         JobKnown(p, s)', HandsAreOne',
         s.pc = "complete" => s.asset \notin files \/ (r.pc = "complete" /\ s.asset = r.asset),
         \A i \in ToSet(queue') : i \in ToSet(queue) \/ InWork(i)',
         StatusFits', ProcessingIsAtWork'
  PROVE  SpeechInv'
<1>1. \A q \in Processes : job'[q] = IF q = p THEN s ELSE job[q]
  BY DEF SpeechInv, RowsHold
<1>2. job' \in [Processes -> Jobs]
  BY DEF SpeechInv, RowsHold
<1>3. RowsHold'
  BY <1>2 DEF SpeechInv, RowsHold
<1>4. \A k : Exists(k)' = Exists(k)
  BY DEF Exists
<1>5. KeysAreShared' /\ AssetIsForTheText'
  BY <1>3, AssetsStayRight
<1>6. AssetsKnown'
  <2> SUFFICES ASSUME NEW t \in Threads PROVE AssetKnown(req[t])'
    BY DEF AssetsKnown
  <2>1. AssetKnown(req[t]) /\ req'[t] = req[t]
    BY DEF SpeechInv, AssetsKnown
  <2>2. QED
    BY <2>1, <1>4 DEF AssetKnown
<1>7. JobsKnown' /\ QueueHolds'
  <2>1. KeepsClaims(p, id)
    <3>1. \A key \in Keys : MissIsRight(key) => MissIsRight(key)'
      BY KeyStays
    <3>2. id \in Nat /\ p \notin Nat /\ \A q \in Processes : q \notin Nat
      BY NobodyIsAtZero, ClaimsAreOwn DEF Processes, Ids
    <3>3. \A q \in (Processes \ {p}) \cup (Ids \ {id}) : q # p /\ q # id
      BY <3>2 DEF Ids
    <3>4. QED
      BY <3>1, <3>3 DEF KeepsClaims
  <2>2. \A q \in Processes \ {p} : job[q].pc \in Hands => job[q].id # id
    BY NobodyIsAtZero DEF SpeechInv, HandsAreOne
  <2>3. \A i \in ToSet(queue) : i # id
    BY NobodyIsAtZero DEF SpeechInv, HandsAreOne
  <2>4. \A q \in Processes : job[q].pc = "complete" => job[q].asset \in files /\ ~ Exists(job[q].asset)
    BY NobodyIsAtZero DEF JobKnown
  <2>5. \A q \in Processes \ {p} :
          job[q].pc = "complete" => job[q].asset \in files' /\ ~ Exists(job[q].asset)'
    BY <2>4, <1>4 DEF Exists
  <2>6. QED
    BY <1>1, <2>1, <2>2, <2>3, <2>5, JobsStay
<1>8. UuidsAreOwn'
  <2>1. \A q \in Processes : job[q].pc = "complete" => job[q].asset \in files
    BY NobodyIsAtZero DEF JobKnown
  <2>2. \A t \in Threads : req[t].pc = "insert" => req[t].asset \in files
    BY DEF SpeechInv, AssetsKnown, AssetKnown
  <2>3. \A q, u \in Processes : q # u /\ job'[q].pc = "complete" /\ job'[u].pc = "complete"
          => job'[q].asset # job'[u].asset
    BY <1>1, <2>1 DEF SpeechInv, UuidsAreOwn
  <2>4. \A t \in Threads, q \in Processes : req[t].pc = "insert" /\ job'[q].pc = "complete"
          => req[t].asset # job'[q].asset
    BY <1>1, <2>2 DEF SpeechInv, UuidsAreOwn
  <2>5. \A t, u \in Threads : t # u /\ req[t].pc = "insert" /\ req[u].pc = "insert"
          => req[t].asset # req[u].asset
    BY DEF SpeechInv, UuidsAreOwn
  <2>6. QED
    BY <2>3, <2>4, <2>5 DEF UuidsAreOwn
<1>9. QED
  BY <1>3, <1>5, <1>6, <1>7, <1>8 DEF SpeechInv

(* Nothing but what somebody knows of is changed.                           *)
LEMMA QuietKeepsRequests ==
  ASSUME SpeechInv, UNCHANGED <<asset, tts, edited>>, raced \subseteq raced', NEW id
  PROVE  /\ KeepsRequests(id) /\ \A key \in Keys : NothingIsNew(key)
         /\ tts' \in Seq(TtsRows) /\ Ids' = Ids
         /\ \A key : Made(key)' = Made(key)
         /\ StatusFits'
         /\ \A i : InWork(i) /\ <<i, KeyOf[tts[i].text]>> \in claims' => InWork(i)'
<1>1. Ids' = Ids
  BY DEF Ids
<1>2. \A k : Exists(k)' = Exists(k) /\ Servable(k)' = Servable(k)
  BY DEF Exists, Servable, Live
<1>3. KeepsRequests(id)
  BY <1>1, <1>2 DEF KeepsRequests
<1>4. \A key : Made(key)' = Made(key)
  BY <1>1 DEF Made
<1>5. \A key : NothingIsNew(key)
  BY <1>4 DEF NothingIsNew
<1>6. \A key : MissIsRight(key) => MissIsRight(key)'
  BY <1>3, <1>5, KeyStays
<1>7. \A i : InWork(i) /\ <<i, KeyOf[tts[i].text]>> \in claims' => InWork(i)'
  BY <1>1, <1>6 DEF InWork
<1>8. QED
  BY <1>1, <1>3, <1>4, <1>5, <1>7 DEF SpeechInv, RowsHold, StatusFits

-----------------------------------------------------------------------------
LEMMA MaxIsGreatest ==
  ASSUME NEW S, NEW n \in Nat, S \subseteq 1 .. n, S # {}
  PROVE  Max(S) \in S /\ \A x \in S : Max(S) >= x
<1> DEFINE T == {n - x : x \in S}
<1>1. T \subseteq Nat /\ T # {}
  <2>1. \A x \in S : n - x \in Nat
    OBVIOUS
  <2>2. PICK x : x \in S
    OBVIOUS
  <2>3. n - x \in T
    BY <2>2
  <2>4. QED
    BY <2>1, <2>3
<1>2. PICK m \in T : \A y \in T : <<y, m>> \notin OpToRel(<, Nat)
  <2> HIDE DEF T
  <2>1. QED
    BY <1>1, NatLessThanWellFounded, WFMin
<1>3. \A y \in T : ~ (y < m)
  <2> HIDE DEF T
  <2>1. \A y \in T : <<y, m>> \in Nat \X Nat
    BY <1>1
  <2>2. QED
    BY <1>2, <2>1 DEF OpToRel
<1>4. PICK x \in S : m = n - x
  BY <1>2
<1>5. \A y \in S : x >= y
  <2> SUFFICES ASSUME NEW y \in S PROVE x >= y
    OBVIOUS
  <2>1. ~ (n - y < n - x)
    BY <1>3, <1>4
  <2>2. QED
    BY <2>1
<1>6. QED
  BY <1>5 DEF Max

(* What is found of a text has been given to a request with its key, and if   *)
(* nothing is found, it is right to begin anew.                             *)
LEMMA WhatIsFound ==
  ASSUME SpeechInv, NEW text \in Texts
  PROVE  /\ Cached(text) # None =>
              Cached(text) \in Assets /\ \E i \in Made(KeyOf[text]) : tts[i].asset = Cached(text)
         /\ Cached(text) = None => MissIsRight(KeyOf[text])
<1> DEFINE key == KeyOf[text]
           done == Completed(key)
           m == Max(done)
<1>1. done \subseteq 1 .. Len(tts) /\ Len(tts) \in Nat
  BY DEF Completed, Ids, SpeechInv, RowsHold
<1>2. \A i \in done : i \in Made(key) /\ i \in Ids /\ tts[i].asset \in Assets /\ tts[i].asset # None
  BY IdsAreTyped DEF Completed, Made, SpeechInv, StatusFits, TtsRows
<1>3. \A i \in Made(key) : i \in done \/ tts[i].status = "failed"
  BY IdsAreTyped DEF Completed, Made, SpeechInv, StatusFits, TtsRows
<1>4. CASE done = {}
  <2>1. Cached(text) = None
    BY <1>4 DEF Cached
  <2>2. Disturbed(key) \/ Made(key) = {}
    BY <1>3, <1>4 DEF Disturbed
  <2>3. QED
    BY <2>1, <2>2 DEF MissIsRight
<1>5. CASE done # {}
  <2>1. m \in done /\ \A i \in done : m >= i
    BY <1>1, <1>5, MaxIsGreatest
  <2>2. Cached(text) = IF Servable(tts[m].asset) THEN tts[m].asset ELSE None
    BY <1>5 DEF Cached
  <2> HIDE DEF m
  <2>3. CASE Servable(tts[m].asset)
    BY <1>2, <2>1, <2>2, <2>3
  <2>4. CASE ~ Servable(tts[m].asset)
    <3>1. ASSUME NEW i \in Made(key), Servable(tts[i].asset), ~ Disturbed(key)
          PROVE  Overtaken(tts[i].asset, key)
      <4>1. i \in done
        BY <1>3, <3>1 DEF Disturbed
      <4>2. i # m /\ i \in Nat /\ m \in Nat
        BY <1>1, <2>1, <2>4, <3>1, <4>1
      <4>3. i < m /\ m \in Made(key)
        BY <1>2, <2>1, <4>1, <4>2
      <4>4. QED
        BY <2>4, <4>3 DEF Overtaken
    <3>2. MissIsRight(key)
      BY <3>1 DEF MissIsRight
    <3>3. QED
      BY <2>2, <2>4, <3>2
  <2>5. QED
    BY <2>3, <2>4
<1>6. QED
  BY <1>4, <1>5

-----------------------------------------------------------------------------
LEMMA RestIsJob ==
  ASSUME NEW p
  PROVE  /\ Rest \in Jobs /\ Rest.pc = "idle" /\ Rest.id = 0
         /\ JobKnown(p, Rest) /\ JobKnown(p, Rest)'
         /\ Rest.row.asset = None /\ Rest.row.status # "completed"
<1>1. Rest \in Jobs /\ Rest.pc = "idle" /\ Rest.id = 0
  BY DEF Rest, Jobs
<1>2. Rest.row.asset = None /\ Rest.row.status # "completed"
  BY DEF Rest, NoTts
<1>3. JobKnown(p, Rest) /\ JobKnown(p, Rest)'
  BY <1>1 DEF JobKnown, Hands
<1>4. QED
  BY <1>1, <1>2, <1>3

LEMMA IdleIsAtNothing ==
  ASSUME SpeechInv, NEW p \in Processes, job[p].pc \in {"idle", "hit", "insert"}
  PROVE  job[p].id = 0 /\ job[p].id \notin Ids
  BY NobodyIsAtZero DEF JobKnown

LEMMA PrepareHitHolds ==
  ASSUME SpeechInv, NEW c \in Callers, NEW text \in Texts, PrepareHit(c, text)
  PROVE  SpeechInv'
<1> USE DEF assetVars
<1> DEFINE new == [[Rest EXCEPT !.op = "generate", !.text = text, !.asset = Cached(text)] EXCEPT !.pc = "hit"]
<1>1. Cached(text) \in Assets /\ \E i \in Made(KeyOf[text]) : tts[i].asset = Cached(text)
  BY WhatIsFound DEF PrepareHit
<1>2. PICK s \in Jobs : s = new
  BY <1>1, RestIsJob DEF Jobs
<1>3. s.pc = "hit" /\ s.text = text /\ s.asset = Cached(text) /\ s.id = 0
  BY <1>2, RestIsJob DEF Jobs, Rest
<1>4. job' = [job EXCEPT ![c] = s]
  BY <1>2 DEF PrepareHit, Step
<1>5. c \in Processes
  BY DEF Processes
<1>6. \A key : Made(key)' = Made(key)
  BY QuietKeepsRequests DEF PrepareHit
<1>7. \E i \in Made(KeyOf[text])' : tts'[i].asset = Cached(text)
  BY <1>1, <1>6 DEF PrepareHit
<1>8. JobKnown(c, s)'
  BY <1>3, <1>7 DEF JobKnown, Hands
<1>9. HandsAreOne'
  BY <1>3, <1>4, <1>5, HandsStay DEF PrepareHit, Hands
<1>10. job[c].id \notin Ids
  BY <1>5, IdleIsAtNothing DEF PrepareHit
<1>11. ProcessingIsAtWork'
  BY <1>4, <1>5, <1>10, BusyStays, QuietKeepsRequests DEF PrepareHit
<1>12. /\ KeepsRequests(0) /\ \A key \in Keys : NothingIsNew(key)
       /\ tts' \in Seq(TtsRows) /\ StatusFits'
  BY QuietKeepsRequests DEF PrepareHit
<1>13. files' \subseteq Assets /\ queue' \in Seq(Nat)
  BY DEF SpeechInv, RowsHold, PrepareHit
<1>14. QED
  BY <1>3, <1>4, <1>5, <1>8, <1>9, <1>11, <1>12, <1>13, ActorHolds DEF PrepareHit

(* The key is claimed before anything is made for it.                       *)
LEMMA PrepareMissHolds ==
  ASSUME SpeechInv, NEW c \in Callers, NEW text \in Texts, PrepareMiss(c, text)
  PROVE  SpeechInv'
<1>1. PICK op \in {"generate", "runtime"} :
        /\ job[c].pc = "idle"
        /\ Cached(text) = None
        /\ Step(c, [Rest EXCEPT !.op = op, !.text = text], "insert")
        /\ Claim(c, KeyOf[text])
        /\ UNCHANGED <<asset, files, req, begun, raced, cut, noted, edited>>
        /\ UNCHANGED <<async, tts, queue, alive, lost>>
  BY DEF PrepareMiss
<1>2. PICK s \in Jobs : s = [[Rest EXCEPT !.op = op, !.text = text] EXCEPT !.pc = "insert"]
  BY RestIsJob DEF Jobs
<1>3. s.pc = "insert" /\ s.text = text /\ s.id = 0 /\ s.row = Rest.row
  BY <1>2, RestIsJob DEF Jobs, Rest
<1>4. job' = [job EXCEPT ![c] = s]
  BY <1>1, <1>2 DEF Step
<1>5. c \in Processes
  BY DEF Processes
<1>6. /\ KeepsRequests(0) /\ \A key \in Keys : NothingIsNew(key)
      /\ tts' \in Seq(TtsRows) /\ Ids' = Ids /\ StatusFits'
  BY <1>1, QuietKeepsRequests
<1>7. PICK key \in Keys : key = KeyOf[text]
  BY KeysAndSlugs
<1>8. MissIsRight(key)'
  BY <1>1, <1>6, <1>7, WhatIsFound, KeyStays
<1>9. <<c, key>> \in claims' /\ claims \subseteq claims'
  BY <1>1, <1>7 DEF Claim
<1>10. JobKnown(c, s)'
  BY <1>3, <1>7, <1>8, <1>9, RestIsJob DEF JobKnown, Hands
<1>11. HandsAreOne'
  BY <1>1, <1>3, <1>4, <1>5, HandsStay DEF Hands
<1>12. job[c].id \notin Ids
  BY <1>1, <1>5, IdleIsAtNothing
<1>13. ProcessingIsAtWork'
  BY <1>1, <1>4, <1>5, <1>6, <1>12, BusyStays
<1>14. files' \subseteq Assets /\ queue' \in Seq(Nat)
  BY <1>1 DEF SpeechInv, RowsHold
<1>15. QED
  BY <1>1, <1>3, <1>4, <1>5, <1>6, <1>9, <1>10, <1>11, <1>13, <1>14, ActorHolds

-----------------------------------------------------------------------------
(* A row is added; if it has an asset, one with its key has had it before.   *)
LEMMA AppendKeepsRequests ==
  ASSUME SpeechInv, UNCHANGED <<asset, edited>>, raced \subseteq raced',
         NEW row \in TtsRows, tts' = Append(tts, row),
         row.status = "completed" => row.asset # None,
         row.asset # None => /\ row.status # "processing"
                             /\ \E i \in Made(KeyOf[row.text]) : tts[i].asset = row.asset
  PROVE  /\ KeepsRequests(0) /\ \A key \in Keys : NothingIsNew(key)
         /\ tts' \in Seq(TtsRows) /\ StatusFits'
         /\ Len(tts) + 1 \in Ids' /\ Len(tts) + 1 \notin Ids /\ tts'[Len(tts) + 1] = row
         /\ Ids' = Ids \cup {Len(tts) + 1}
         /\ Len(tts) + 1 \in Nat
         /\ \A i \in Ids : tts'[i] = tts[i]
<1>1. /\ tts' \in Seq(TtsRows)
      /\ Len(tts) + 1 \in Nat \ {0} /\ Len(tts) + 1 \notin Ids
      /\ Ids' = Ids \cup {Len(tts) + 1}
      /\ tts'[Len(tts) + 1] = row
      /\ \A i \in Ids : tts'[i] = tts[i]
  BY RowAppended DEF SpeechInv, RowsHold
<1>2. \A k : Exists(k)' = Exists(k) /\ Servable(k)' = Servable(k)
  BY DEF Exists, Servable, Live
<1>3. KeepsRequests(0)
  BY <1>1, <1>2 DEF KeepsRequests
<1>4. StatusFits'
  BY <1>1 DEF SpeechInv, StatusFits
<1>5. ASSUME NEW key \in Keys, NEW i \in Made(key)'
      PROVE  \E j \in Made(key) : tts[j].asset = tts'[i].asset
  <2>1. i \in Ids' /\ tts'[i].asset # None /\ KeyOf[tts'[i].text] = key
    BY <1>5 DEF Made
  <2>2. CASE i \in Ids
    BY <1>1, <2>1, <2>2 DEF Made
  <2>3. CASE i = Len(tts) + 1
    BY <1>1, <2>1, <2>3
  <2>4. QED
    BY <1>1, <2>1, <2>2, <2>3
<1>6. QED
  BY <1>1, <1>3, <1>4, <1>5 DEF NothingIsNew

LEMMA InsertHitHolds ==
  ASSUME SpeechInv, NEW c \in Callers, InsertHit(c)
  PROVE  SpeechInv'
<1> USE DEF assetVars
<1>1. c \in Processes
  BY DEF Processes
<1>2. PICK r \in Jobs : r = job[c] /\ JobKnown(c, r)
  BY <1>1, NobodyIsAtZero
<1>3. /\ r.pc = "hit"
      /\ tts' = Append(tts, Tts(r.text, "completed", r.asset))
      /\ job' = [job EXCEPT ![c] = Rest]
      /\ UNCHANGED <<asset, files, req, raced, claims, edited, queue, lost>>
  BY <1>2 DEF InsertHit, Leave
<1>4. r.text \in Texts /\ \E i \in Made(KeyOf[r.text]) : tts[i].asset = r.asset
  BY <1>2, <1>3 DEF JobKnown
<1>5. r.asset \in Assets /\ r.asset # None
  BY <1>4, IdsAreTyped, NoneIsNoAsset DEF Made, SpeechInv, TtsRows
<1>6. PICK row \in TtsRows : row = Tts(r.text, "completed", r.asset)
  BY <1>4, <1>5 DEF Tts, TtsRows
<1>7. row.text = r.text /\ row.status = "completed" /\ row.asset = r.asset
  BY <1>6 DEF Tts
<1>8. /\ KeepsRequests(0) /\ \A key \in Keys : NothingIsNew(key)
      /\ tts' \in Seq(TtsRows) /\ StatusFits'
      /\ tts'[Len(tts) + 1] = row /\ Ids' = Ids \cup {Len(tts) + 1}
      /\ \A i \in Ids : tts'[i] = tts[i]
  BY <1>3, <1>4, <1>5, <1>6, <1>7, AppendKeepsRequests
<1>9. HandsAreOne'
  BY <1>1, <1>3, RestIsJob, HandsStay DEF Hands
<1>10. job[c].id \notin Ids
  BY <1>1, <1>2, <1>3, IdleIsAtNothing
<1>11. \A i \in Ids' : tts'[i].status = "processing" => i \in Ids /\ tts[i].status = "processing"
  BY <1>7, <1>8
<1>12. ProcessingIsAtWork'
  BY <1>1, <1>3, <1>10, <1>11, BusyStays
<1>13. files' \subseteq Assets /\ queue' \in Seq(Nat)
  BY <1>3 DEF SpeechInv, RowsHold
<1>14. QED
  BY <1>1, <1>2, <1>3, <1>8, <1>9, <1>12, <1>13, RestIsJob, ActorHolds

(* The claim is handed on, from who inserts the row to the row.              *)
LEMMA InsertRowHolds ==
  ASSUME SpeechInv, NEW c \in Callers, InsertRow(c)
  PROVE  SpeechInv'
<1>1. c \in Processes
  BY DEF Processes
<1>2. PICK r \in Jobs : r = job[c] /\ JobKnown(c, r)
  BY <1>1, NobodyIsAtZero
<1>3. PICK id : id = Len(tts) + 1
  OBVIOUS
<1>4. PICK pc \in {"generate", "enqueue", "load"} :
      /\ r.pc = "insert"
      /\ tts' = Append(tts, Tts(r.text, "processing", None))
      /\ job' = [job EXCEPT ![c] = [[r EXCEPT !.id = id] EXCEPT !.pc = pc]]
      /\ claims' = {d \in claims : d[1] # c} \cup {<<id, KeyOf[r.text]>>}
      /\ UNCHANGED <<asset, files, req, raced, edited, queue, lost>>
  BY <1>2, <1>3 DEF InsertRow, Step
<1>5. /\ r.text \in Texts
      /\ MissIsRight(KeyOf[r.text])
      /\ r.row.asset = None /\ r.row.status # "completed"
  BY <1>2, <1>4 DEF JobKnown
<1>6. PICK row \in TtsRows : row = Tts(r.text, "processing", None)
  BY <1>5 DEF Tts, TtsRows
<1>7. row.text = r.text /\ row.status = "processing" /\ row.asset = None
  BY <1>6 DEF Tts
<1>8. /\ KeepsRequests(0) /\ \A key \in Keys : NothingIsNew(key)
      /\ tts' \in Seq(TtsRows) /\ StatusFits'
      /\ id \in Ids' /\ id \notin Ids /\ id \in Nat
      /\ tts'[id] = row /\ Ids' = Ids \cup {id}
      /\ \A i \in Ids : tts'[i] = tts[i]
  BY <1>3, <1>4, <1>6, <1>7, AppendKeepsRequests
<1>9. PICK s \in Jobs : s = [[r EXCEPT !.id = id] EXCEPT !.pc = pc]
  BY <1>8 DEF Jobs
<1>10. s.pc = pc /\ s.id = id /\ s.text = r.text /\ s.row = r.row
  BY <1>9 DEF Jobs
<1>11. PICK key \in Keys : key = KeyOf[r.text]
  BY <1>5, KeysAndSlugs
<1>12. InWork(id)'
  <2>1. MissIsRight(key)'
    BY <1>5, <1>8, <1>11, KeyStays
  <2>2. <<id, key>> \in claims'
    BY <1>4, <1>11
  <2>3. QED
    BY <1>7, <1>8, <1>11, <2>1, <2>2 DEF InWork
<1>13. JobKnown(c, s)'
  BY <1>5, <1>7, <1>8, <1>10, <1>12 DEF JobKnown, Hands
<1>14. \A q \in Processes : job'[q] = IF q = c THEN s ELSE job[q]
  BY <1>1, <1>4, <1>9 DEF SpeechInv, RowsHold
<1>15. HandsAreOne'
  <2>1. \A q \in Processes : job[q].pc \in Hands => job[q].id # id
    BY <1>8, NobodyIsAtZero
  <2>2. id \notin ToSet(queue)
    BY <1>8, NobodyIsAtZero
  <2>3. queue' = queue
    BY <1>4
  <2>4. QED
    BY <1>10, <1>14, <2>1, <2>2, <2>3 DEF SpeechInv, HandsAreOne
<1>16. ProcessingIsAtWork'
  <2>1. job[c].id \notin Ids
    BY <1>1, <1>2, <1>4, IdleIsAtNothing
  <2>2. \A i \in Ids' : tts'[i].status = "processing" =>
          (i \in Ids /\ tts[i].status = "processing") \/ (s.id = i /\ s.pc # "delete")
    BY <1>8, <1>10
  <2>3. job' = [job EXCEPT ![c] = s]
    BY <1>4, <1>9
  <2>4. QED
    BY <1>1, <1>4, <2>1, <2>2, <2>3, BusyStays
<1>17. files' \subseteq Assets /\ queue' \in Seq(Nat)
  BY <1>4 DEF SpeechInv, RowsHold
<1>18. \A q : q # c => \A x : <<q, x>> \in claims => <<q, x>> \in claims'
  BY <1>4
<1>19. job' = [job EXCEPT ![c] = s]
  BY <1>4, <1>9
<1>20. QED
  BY <1>1, <1>2, <1>4, <1>8, <1>10, <1>13, <1>15, <1>16, <1>17, <1>18, <1>19, ActorHolds

-----------------------------------------------------------------------------
LEMMA EnqueueHolds ==
  ASSUME SpeechInv, NEW c \in Callers, EnqueueTtsJob(c)
  PROVE  SpeechInv'
<1> USE DEF assetVars
<1>1. c \in Processes
  BY DEF Processes
<1>2. PICK r \in Jobs : r = job[c] /\ JobKnown(c, r)
  BY <1>1, NobodyIsAtZero
<1>3. /\ r.pc = "enqueue" /\ r.pc \in Hands
      /\ queue' = Append(queue, r.id)
      /\ job' = [job EXCEPT ![c] = Rest]
      /\ UNCHANGED <<asset, files, req, raced, claims, edited, tts, lost>>
  BY <1>2 DEF EnqueueTtsJob, Leave, Hands
<1>4. queue \in Seq(Nat) /\ r.id \in Nat
  BY DEF SpeechInv, RowsHold, Jobs
<1>5. /\ queue' \in Seq(Nat) /\ DOMAIN queue = 1 .. Len(queue) /\ Len(queue) \in Nat
      /\ DOMAIN queue' = 1 .. Len(queue) + 1
      /\ queue'[Len(queue) + 1] = r.id
      /\ \A i \in 1 .. Len(queue) : queue'[i] = queue[i]
  BY <1>3, <1>4
<1>6. ToSet(queue') = ToSet(queue) \cup {r.id}
  <2>1. ToSet(queue') \subseteq ToSet(queue) \cup {r.id}
    BY <1>5 DEF ToSet
  <2>2. ToSet(queue) \cup {r.id} \subseteq ToSet(queue')
    BY <1>5 DEF ToSet
  <2>3. QED
    BY <2>1, <2>2
<1>7. /\ KeepsRequests(0) /\ \A key \in Keys : NothingIsNew(key)
      /\ tts' \in Seq(TtsRows) /\ StatusFits' /\ Ids' = Ids
      /\ \A i : InWork(i) /\ <<i, KeyOf[tts[i].text]>> \in claims' => InWork(i)'
  BY <1>3, QuietKeepsRequests
<1>8. InWork(r.id) /\ InWork(r.id)'
  BY <1>2, <1>3, <1>7 DEF JobKnown, InWork
<1>9. \A q \in Processes : job'[q] = IF q = c THEN Rest ELSE job[q]
  BY <1>3 DEF SpeechInv, RowsHold
<1>10. r.id \notin ToSet(queue) /\ \A q \in Processes \ {c} : job[q].pc \in Hands => job[q].id # r.id
  BY <1>1, <1>2, <1>3 DEF SpeechInv, HandsAreOne
<1>11. HandsAreOne'
  <2>1. \A p, q \in Processes :
          p # q /\ job'[p].pc \in Hands /\ job'[q].pc \in Hands => job'[p].id # job'[q].id
    BY <1>9, RestIsJob DEF SpeechInv, HandsAreOne, Hands
  <2>2. \A q \in Processes : job'[q].pc \in Hands => job'[q].id \notin ToSet(queue')
    BY <1>6, <1>9, <1>10, RestIsJob DEF SpeechInv, HandsAreOne, Hands
  <2>3. \A i \in 1 .. Len(queue) : queue[i] # r.id
    BY <1>5, <1>10 DEF ToSet
  <2>4. \A m, n \in DOMAIN queue' : queue'[m] = queue'[n] => m = n
    <3>1. \A m \in DOMAIN queue' : m \in 1 .. Len(queue) \/ m = Len(queue) + 1
      BY <1>5
    <3>2. \A m, n \in 1 .. Len(queue) : queue[m] = queue[n] => m = n
      BY <1>5 DEF SpeechInv, HandsAreOne
    <3>3. QED
      BY <1>5, <2>3, <3>1, <3>2
  <2>5. QED
    BY <2>1, <2>2, <2>4 DEF HandsAreOne
<1>12. ProcessingIsAtWork'
  BY <1>1, <1>2, <1>3, <1>6, <1>7, BusyStays
<1>13. files' \subseteq Assets
  BY <1>3 DEF SpeechInv, RowsHold
<1>14. QED
  BY <1>1, <1>2, <1>3, <1>5, <1>6, <1>7, <1>8, <1>11, <1>12, <1>13, RestIsJob, ActorHolds

LEMMA TakeJobHolds ==
  ASSUME SpeechInv, TakeJob
  PROVE  SpeechInv'
<1> USE DEF assetVars
<1>1. Worker \in Processes
  BY DEF Processes
<1>2. PICK id : id = Head(queue)
  OBVIOUS
<1>3. PICK text : text = tts[id].text
  OBVIOUS
<1>4. /\ job[Worker].pc = "idle" /\ queue # <<>> /\ queue' = Tail(queue)
      /\ job' = [job EXCEPT ![Worker] = [[Rest EXCEPT !.id = id, !.text = text] EXCEPT !.pc = "start"]]
      /\ UNCHANGED <<asset, files, req, raced, claims, edited, tts, lost>>
  BY <1>2, <1>3 DEF TakeJob, Step
<1>5. queue \in Seq(Nat)
  BY DEF SpeechInv, RowsHold
<1>6. /\ queue' \in Seq(Nat) /\ DOMAIN queue = 1 .. Len(queue) /\ Len(queue) \in Nat \ {0}
      /\ DOMAIN queue' = 1 .. Len(queue) - 1
      /\ queue[1] = id
      /\ \A i \in 1 .. Len(queue) - 1 : queue'[i] = queue[i + 1]
  BY <1>2, <1>4, <1>5
<1>7. \A m, n \in DOMAIN queue : queue[m] = queue[n] => m = n
  BY DEF SpeechInv, HandsAreOne
<1>8. /\ \A i \in ToSet(queue') : i \in ToSet(queue) /\ i # id
      /\ \A i \in ToSet(queue) : i \in ToSet(queue') \/ i = id
      /\ id \in ToSet(queue)
  <2>1. \A m \in DOMAIN queue' : m + 1 \in DOMAIN queue /\ m + 1 # 1 /\ queue'[m] = queue[m + 1]
    BY <1>6
  <2>2. \A m \in DOMAIN queue : m = 1 \/ (m - 1 \in DOMAIN queue' /\ queue'[m - 1] = queue[m])
    BY <1>6
  <2>3. 1 \in DOMAIN queue
    BY <1>6
  <2>4. \A i \in ToSet(queue') : i \in ToSet(queue) /\ i # id
    BY <1>6, <1>7, <2>1, <2>3 DEF ToSet
  <2>5. \A i \in ToSet(queue) : i \in ToSet(queue') \/ i = id
    BY <1>6, <2>2 DEF ToSet
  <2>6. QED
    BY <1>6, <2>3, <2>4, <2>5 DEF ToSet
<1>9. InWork(id)
  BY <1>8 DEF SpeechInv, QueueHolds
<1>10. id \in Ids /\ id \in Nat /\ text \in Texts
  BY <1>3, <1>9, IdsAreTyped DEF InWork, SpeechInv, TtsRows
<1>11. PICK s \in Jobs : s = [[Rest EXCEPT !.id = id, !.text = text] EXCEPT !.pc = "start"]
  BY <1>10, RestIsJob DEF Jobs
<1>12. s.pc = "start" /\ s.id = id /\ s.text = text /\ s.row = Rest.row
  BY <1>11, RestIsJob DEF Jobs, Rest
<1>13. /\ KeepsRequests(0) /\ \A key \in Keys : NothingIsNew(key)
       /\ tts' \in Seq(TtsRows) /\ StatusFits' /\ Ids' = Ids
       /\ \A i : InWork(i) /\ <<i, KeyOf[tts[i].text]>> \in claims' => InWork(i)'
  BY <1>4, QuietKeepsRequests
<1>14. JobKnown(Worker, s)'
  <2>1. InWork(id)'
    BY <1>4, <1>9, <1>13 DEF InWork
  <2>2. QED
    BY <1>3, <1>4, <1>12, <2>1, RestIsJob DEF JobKnown, Hands
<1>15. job' = [job EXCEPT ![Worker] = s]
  BY <1>4, <1>11
<1>16. \A q \in Processes : job'[q] = IF q = Worker THEN s ELSE job[q]
  BY <1>15 DEF SpeechInv, RowsHold
<1>17. HandsAreOne'
  <2>1. \A q \in Processes : job[q].pc \in Hands => job[q].id # id /\ job[q].id \notin ToSet(queue')
    BY <1>8 DEF SpeechInv, HandsAreOne
  <2>2. id \notin ToSet(queue')
    BY <1>8
  <2>3. \A m, n \in DOMAIN queue' : queue'[m] = queue'[n] => m = n
    <3>1. \A m \in DOMAIN queue' : m \in Nat /\ m + 1 \in DOMAIN queue /\ queue'[m] = queue[m + 1]
      BY <1>6
    <3>2. QED
      BY <1>7, <3>1
  <2>4. QED
    BY <1>12, <1>16, <2>1, <2>2, <2>3 DEF SpeechInv, HandsAreOne
<1>18. ProcessingIsAtWork'
  <2>1. job[Worker].id \notin Ids
    BY <1>1, <1>4, IdleIsAtNothing
  <2>2. \A i \in ToSet(queue) : i \in ToSet(queue') \/ (s.id = i /\ s.pc # "delete")
    BY <1>8, <1>12
  <2>3. QED
    BY <1>1, <1>4, <1>13, <1>15, <2>1, <2>2, BusyStays
<1>19. files' \subseteq Assets
  BY <1>4 DEF SpeechInv, RowsHold
<1>20. \A i \in ToSet(queue') : i \in ToSet(queue)
  BY <1>8
<1>21. QED
  BY <1>1, <1>4, <1>6, <1>12, <1>13, <1>14, <1>15, <1>17, <1>18, <1>19, <1>20, ActorHolds

-----------------------------------------------------------------------------
(* A row is changed, but for its text and its asset.                        *)
LEMMA RowKeepsRequests ==
  ASSUME SpeechInv, UNCHANGED <<asset, edited>>, raced \subseteq raced',
         NEW id \in Ids, NEW row \in TtsRows, tts' = [tts EXCEPT ![id] = row],
         row.text = tts[id].text, row.asset = tts[id].asset,
         row.status = "completed" => row.asset # None,
         row.asset # None => row.status # "processing",
         row.asset # None /\ tts[id].status = "failed" => row.status = "failed",
         NEW at, at = id \/ (row.status = "completed" => tts[id].status = "completed")
  PROVE  /\ KeepsRequests(at) /\ \A key \in Keys : NothingIsNew(key)
         /\ tts' \in Seq(TtsRows) /\ StatusFits'
         /\ Ids' = Ids /\ tts'[id] = row /\ \A i \in Ids \ {id} : tts'[i] = tts[i]
<1>1. /\ tts' \in Seq(TtsRows) /\ Ids' = Ids /\ tts'[id] = row
      /\ \A i \in Ids \ {id} : tts'[i] = tts[i]
  BY RowChanged DEF SpeechInv, RowsHold
<1>2. \A k : Exists(k)' = Exists(k) /\ Servable(k)' = Servable(k)
  BY DEF Exists, Servable, Live
<1>3. KeepsRequests(at)
  BY <1>1, <1>2 DEF KeepsRequests
<1>4. StatusFits'
  BY <1>1 DEF SpeechInv, StatusFits
<1>5. \A key : Made(key)' = Made(key) /\ \A i \in Made(key) : tts'[i].asset = tts[i].asset
  BY <1>1 DEF Made
<1>6. \A key : NothingIsNew(key)
  BY <1>5 DEF NothingIsNew
<1>7. QED
  BY <1>1, <1>3, <1>4, <1>6

(* Whoever goes on with a request keeps what it knows of it.                 *)
LEMMA WorkGoesOn ==
  ASSUME SpeechInv, NEW id, InWork(id), UNCHANGED <<asset, edited>>, raced \subseteq raced',
         NEW at, KeepsRequests(at), \A key \in Keys : NothingIsNew(key),
         <<id, KeyOf[tts[id].text]>> \in claims',
         tts'[id].asset = None, tts'[id].status # "completed"
  PROVE  InWork(id)' /\ tts'[id].text = tts[id].text
<1>1. id \in Ids /\ tts[id] \in TtsRows
  BY IdsAreTyped DEF InWork, SpeechInv
<1>2. PICK key \in Keys : key = KeyOf[tts[id].text]
  BY <1>1, KeysAndSlugs DEF TtsRows
<1>3. id \in Ids' /\ tts'[id].text = tts[id].text
  BY <1>1 DEF KeepsRequests
<1>4. MissIsRight(key)'
  BY <1>2, KeyStays DEF InWork
<1>5. QED
  BY <1>2, <1>3, <1>4 DEF InWork

LEMMA StartJobHolds ==
  ASSUME SpeechInv, StartJob
  PROVE  SpeechInv'
<1> USE DEF assetVars
<1>1. Worker \in Processes
  BY DEF Processes
<1>2. PICK r \in Jobs : r = job[Worker] /\ JobKnown(Worker, r)
  BY <1>1, NobodyIsAtZero
<1>3. PICK id : id = r.id
  OBVIOUS
<1>4. /\ r.pc = "start" /\ r.pc \in Hands
      /\ tts' = [tts EXCEPT ![id].status = "processing"]
      /\ job' = [job EXCEPT ![Worker] = [r EXCEPT !.pc = "load"]]
      /\ UNCHANGED <<asset, files, req, raced, claims, edited, queue, lost>>
  BY <1>2, <1>3 DEF StartJob, Step, Hands
<1>5. /\ InWork(id) /\ r.text = tts[id].text
      /\ r.row.asset = None /\ r.row.status # "completed"
  BY <1>2, <1>3, <1>4 DEF JobKnown
<1>6. id \in Ids /\ tts[id] \in TtsRows /\ tts[id].asset = None
  BY <1>5, IdsAreTyped DEF InWork, SpeechInv
<1>7. PICK row \in TtsRows : row = [tts[id] EXCEPT !.status = "processing"]
  BY <1>6 DEF TtsRows
<1>8. row.text = tts[id].text /\ row.asset = None /\ row.status = "processing"
  BY <1>6, <1>7 DEF TtsRows
<1>9. /\ KeepsRequests(id) /\ \A key \in Keys : NothingIsNew(key)
      /\ tts' \in Seq(TtsRows) /\ StatusFits'
      /\ Ids' = Ids /\ tts'[id] = row /\ \A i \in Ids \ {id} : tts'[i] = tts[i]
  <2>1. tts' = [tts EXCEPT ![id] = row]
    BY <1>4, <1>7
  <2>2. UNCHANGED <<asset, edited>> /\ raced \subseteq raced'
    BY <1>4
  <2>3. QED
    BY <1>6, <1>8, <2>1, <2>2, RowKeepsRequests
<1>10. PICK s \in Jobs : s = [r EXCEPT !.pc = "load"]
  BY DEF Jobs
<1>11. s.pc = "load" /\ s.id = id /\ s.text = r.text /\ s.row = r.row
  BY <1>3, <1>10 DEF Jobs
<1>12. InWork(id)' /\ tts'[id].text = tts[id].text
  BY <1>4, <1>5, <1>8, <1>9, WorkGoesOn DEF InWork
<1>13. JobKnown(Worker, s)'
  BY <1>5, <1>11, <1>12 DEF JobKnown, Hands
<1>14. job' = [job EXCEPT ![Worker] = s]
  BY <1>4, <1>10
<1>15. HandsAreOne' /\ ProcessingIsAtWork'
  <2>1. /\ queue' = queue /\ lost' = lost /\ s.id = job[Worker].id
        /\ job[Worker].pc \in Hands /\ s.pc # "delete"
    BY <1>2, <1>3, <1>4, <1>11
  <2>2. \A i \in Ids' : tts'[i].status = "processing" =>
          (i \in Ids /\ tts[i].status = "processing") \/ (s.id = i /\ s.pc # "delete")
    BY <1>3, <1>9, <1>11
  <2>3. HandsAreOne'
    BY <1>1, <1>14, <2>1, HandsStay
  <2>4. ProcessingIsAtWork'
    BY <1>1, <1>14, <2>1, <2>2, BusyStays
  <2>5. QED
    BY <2>3, <2>4
<1>16. files' \subseteq Assets /\ queue' \in Seq(Nat)
  BY <1>4 DEF SpeechInv, RowsHold
<1>17. QED
  BY <1>1, <1>2, <1>3, <1>4, <1>9, <1>11, <1>13, <1>14, <1>15, <1>16, ActorHolds

LEMMA FailedHolds ==
  ASSUME SpeechInv, NEW p \in Processes, Failed(p)
  PROVE  SpeechInv'
<1>2. PICK r \in Jobs : r = job[p] /\ JobKnown(p, r)
  BY NobodyIsAtZero
<1>3. PICK id : id = r.id
  OBVIOUS
<1>4. /\ r.pc = "failed" /\ r.pc \in Hands
      /\ tts' = [tts EXCEPT ![id].status = "failed", ![id].error = "generation failed"]
      /\ Commit(id, {})
      /\ job' = [job EXCEPT ![p] = Rest]
      /\ UNCHANGED <<asset, files, req, edited, queue, lost>>
  BY <1>2, <1>3 DEF Failed, Leave, Hands
<1>5. /\ raced \subseteq raced'
      /\ \A q : q # id => \A x : <<q, x>> \in claims => <<q, x>> \in claims'
  BY <1>4 DEF Commit
<1>6. id \in Ids /\ tts[id] \in TtsRows /\ tts[id].asset = None
  BY <1>2, <1>3, <1>4, IdsAreTyped DEF JobKnown, InWork, SpeechInv
<1>7. PICK row \in TtsRows : row = [tts[id] EXCEPT !.status = "failed", !.error = "generation failed"]
  BY <1>6 DEF TtsRows
<1>8. row.text = tts[id].text /\ row.asset = None /\ row.status = "failed"
  BY <1>6, <1>7 DEF TtsRows
<1>9. /\ KeepsRequests(id) /\ \A key \in Keys : NothingIsNew(key)
      /\ tts' \in Seq(TtsRows) /\ StatusFits'
      /\ Ids' = Ids /\ tts'[id] = row /\ \A i \in Ids \ {id} : tts'[i] = tts[i]
  <2>1. tts' = [tts EXCEPT ![id] = row]
    <3>1. tts \in Seq(TtsRows) /\ id \in DOMAIN tts
      BY <1>6 DEF SpeechInv, RowsHold, Ids
    <3>2. QED
      BY <1>4, <1>7, <3>1
  <2>2. UNCHANGED <<asset, edited>>
    BY <1>4
  <2>3. QED
    BY <1>5, <1>6, <1>8, <2>1, <2>2, RowKeepsRequests
<1>10. HandsAreOne'
  BY <1>4, RestIsJob, HandsStay DEF Hands
<1>11. ProcessingIsAtWork'
  <2>1. /\ queue' = queue /\ lost' = lost /\ job[p].id = id
        /\ tts'[id].status # "processing"
        /\ \A i \in Ids' : tts'[i].status = "processing" => i \in Ids /\ tts[i].status = "processing"
    BY <1>2, <1>3, <1>4, <1>8, <1>9
  <2>2. job' = [job EXCEPT ![p] = Rest]
    BY <1>4
  <2>3. QED
    BY <2>1, <2>2, BusyStays
<1>12. files' \subseteq Assets /\ queue' \in Seq(Nat)
  BY <1>4 DEF SpeechInv, RowsHold
<1>13. QED
  BY <1>2, <1>3, <1>4, <1>5, <1>9, <1>10, <1>11, <1>12, RestIsJob, ActorHolds

-----------------------------------------------------------------------------
(* A step of p at its request that writes no row.                           *)
LEMMA GoingOnHolds ==
  ASSUME SpeechInv, NEW p \in Processes, NEW r \in Jobs, r = job[p], r.pc \in Hands,
         NEW s \in Jobs, s.id = r.id, s.text = r.text, s.pc \in Hands,
         s.row.asset = None, s.row.status # "completed",
         job' = [job EXCEPT ![p] = s],
         UNCHANGED <<asset, req, edited, raced, tts, queue, lost>>,
         files \subseteq files', files' \subseteq Assets, claims \subseteq claims',
         s.pc = "complete" =>
           /\ s.asset \in Assets /\ s.asset \in files' \ files /\ ~ Exists(s.asset)
           /\ s.slug \in AllSlugs
  PROVE  SpeechInv'
<1>1. InWork(r.id) /\ r.text = tts[r.id].text
  BY NobodyIsAtZero DEF JobKnown
<1>2. /\ KeepsRequests(0) /\ \A key \in Keys : NothingIsNew(key)
      /\ tts' \in Seq(TtsRows) /\ StatusFits' /\ Ids' = Ids
      /\ \A i : InWork(i) /\ <<i, KeyOf[tts[i].text]>> \in claims' => InWork(i)'
  BY QuietKeepsRequests
<1>3. InWork(r.id)' /\ s.text = tts'[r.id].text
  BY <1>1, <1>2 DEF InWork
<1>4. s.pc = "complete" => ~ Exists(s.asset)'
  BY DEF Exists
<1>5. JobKnown(p, s)'
  BY <1>3, <1>4 DEF JobKnown, Hands
<1>6. s.pc # "delete"
  BY DEF Hands
<1>7. HandsAreOne'
  BY HandsStay
<1>8. ProcessingIsAtWork'
  BY <1>2, <1>6, BusyStays
<1>9. queue' \in Seq(Nat)
  BY DEF SpeechInv, RowsHold
<1>10. QED
  BY <1>2, <1>5, <1>7, <1>8, <1>9, ActorHolds

LEMMA LoadHolds ==
  ASSUME SpeechInv, NEW p \in Processes, Load(p)
  PROVE  SpeechInv'
<1> USE DEF assetVars
<1>1. PICK r \in Jobs : r = job[p] /\ JobKnown(p, r)
  BY NobodyIsAtZero
<1>2. /\ r.pc = "load" /\ r.pc \in Hands
      /\ job' = [job EXCEPT ![p] = [[r EXCEPT !.row = tts[r.id]] EXCEPT !.pc = "generate"]]
      /\ UNCHANGED <<asset, files, req, raced, claims, edited, tts, queue, lost>>
  BY <1>1 DEF Load, Step, Hands
<1>3. InWork(r.id) /\ tts[r.id] \in TtsRows
  BY <1>1, <1>2, IdsAreTyped DEF JobKnown, InWork, SpeechInv
<1>4. PICK s \in Jobs : s = [[r EXCEPT !.row = tts[r.id]] EXCEPT !.pc = "generate"]
  BY <1>3 DEF Jobs
<1>5. s.pc = "generate" /\ s.pc \in Hands /\ s.id = r.id /\ s.text = r.text /\ s.row = tts[r.id]
  BY <1>4 DEF Jobs, Hands
<1>6. s.row.asset = None /\ s.row.status # "completed"
  BY <1>3, <1>5 DEF InWork
<1>7. files' \subseteq Assets
  BY <1>2 DEF SpeechInv, RowsHold
<1>8. QED
  BY <1>1, <1>2, <1>4, <1>5, <1>6, <1>7, GoingOnHolds

LEMMA GenerationFailsHolds ==
  ASSUME SpeechInv, NEW p \in Processes, GenerationFails(p)
  PROVE  SpeechInv'
<1> USE DEF assetVars
<1>1. PICK r \in Jobs : r = job[p] /\ JobKnown(p, r)
  BY NobodyIsAtZero
<1>2. /\ r.pc \in Hands
      /\ job' = [job EXCEPT ![p] = [r EXCEPT !.pc = "failed"]]
      /\ UNCHANGED <<asset, files, req, raced, claims, edited, tts, queue, lost>>
  BY <1>1 DEF GenerationFails, Step, Hands
<1>3. PICK s \in Jobs : s = [r EXCEPT !.pc = "failed"]
  BY DEF Jobs
<1>4. s.pc = "failed" /\ s.pc \in Hands /\ s.id = r.id /\ s.text = r.text /\ s.row = r.row
  BY <1>3 DEF Jobs, Hands
<1>5. s.row.asset = None /\ s.row.status # "completed"
  BY <1>1, <1>2, <1>4 DEF JobKnown
<1>6. files' \subseteq Assets
  BY <1>2 DEF SpeechInv, RowsHold
<1>7. QED
  BY <1>1, <1>2, <1>3, <1>4, <1>5, <1>6, GoingOnHolds

LEMMA GenerateHolds ==
  ASSUME SpeechInv, NEW p \in Processes, Generate(p)
  PROVE  SpeechInv'
<1>1. PICK r \in Jobs : r = job[p] /\ JobKnown(p, r)
  BY NobodyIsAtZero
<1>2. PICK k \in Unused : k = NewUuid
  BY <1>1, NewUuidIsUnused DEF Generate
<1>3. PICK slug : slug = IF Named(SlugOf[r.text]) = {} THEN SlugOf[r.text] ELSE <<SlugOf[r.text], k>>
  OBVIOUS
<1>4. /\ r.pc = "generate" /\ r.pc \in Hands
      /\ files' = files \cup {k}
      /\ job' = [job EXCEPT ![p] = [[r EXCEPT !.asset = k, !.slug = slug] EXCEPT !.pc = "complete"]]
      /\ claims \subseteq claims'
      /\ UNCHANGED <<asset, req, raced, edited, tts, queue, lost>>
  BY <1>1, <1>2, <1>3 DEF Generate, Step, Hands, Claim
<1>5. k \in Assets /\ k \notin files /\ ~ Exists(k)
  BY DEF Unused
<1>6. InWork(r.id) /\ r.text = tts[r.id].text /\ tts[r.id] \in TtsRows
  BY <1>1, <1>4, IdsAreTyped DEF JobKnown, InWork, SpeechInv
<1>7. SlugOf[r.text] \in Slugs
  BY <1>6, KeysAndSlugs DEF TtsRows
<1>8. slug \in AllSlugs
  BY <1>3, <1>5, <1>7 DEF AllSlugs
<1>9. PICK s \in Jobs : s = [[r EXCEPT !.asset = k, !.slug = slug] EXCEPT !.pc = "complete"]
  BY <1>5, <1>8 DEF Jobs
<1>10. /\ s.pc = "complete" /\ s.pc \in Hands /\ s.id = r.id /\ s.text = r.text /\ s.row = r.row
       /\ s.asset = k /\ s.slug = slug
  BY <1>9 DEF Jobs, Hands
<1>11. s.row.asset = None /\ s.row.status # "completed"
  BY <1>1, <1>4, <1>10 DEF JobKnown
<1>12. files' \subseteq Assets
  BY <1>4, <1>5 DEF SpeechInv, RowsHold
<1>13. job' = [job EXCEPT ![p] = s]
  BY <1>4, <1>9
<1>14. /\ s.asset \in Assets /\ s.asset \in files' \ files /\ ~ Exists(s.asset)
       /\ s.slug \in AllSlugs
  BY <1>4, <1>5, <1>8, <1>10 DEF Exists
<1>15. files \subseteq files' /\ claims \subseteq claims'
  BY <1>4
<1>16. s.id = r.id /\ s.text = r.text /\ r.pc \in Hands /\ s.pc \in Hands /\ r = job[p]
  BY <1>1, <1>4, <1>10
<1>17. UNCHANGED <<asset, req, edited, raced, tts, queue, lost>>
  BY <1>4
<1>18. QED
  BY <1>11, <1>12, <1>13, <1>14, <1>15, <1>16, <1>17, GoingOnHolds

-----------------------------------------------------------------------------
LEMMA EscapesHolds ==
  ASSUME SpeechInv, NEW p \in Processes, Escapes(p)
  PROVE  SpeechInv'
<1>1. PICK r \in Jobs : r = job[p] /\ JobKnown(p, r)
  BY NobodyIsAtZero
<1>2. PICK id : id = r.id
  OBVIOUS
<1>3. /\ r.pc \in {"insert", "start", "load", "failed"}
      /\ lost' = IF r.pc = "insert" THEN lost ELSE lost \cup {id}
      /\ claims' = {d \in claims : d[1] \notin {p, id}}
      /\ job' = [job EXCEPT ![p] = Rest]
      /\ UNCHANGED <<asset, files, req, raced, edited, tts, queue>>
  BY <1>1, <1>2 DEF Escapes, Leave
<1>4. id = 0 \/ (r.pc \in Hands /\ id = r.id)
  BY <1>1, <1>2, <1>3 DEF JobKnown, Hands
<1>5. \A q : q # p /\ q # id => \A x : <<q, x>> \in claims => <<q, x>> \in claims'
  BY <1>3
<1>6. /\ KeepsRequests(id) /\ \A key \in Keys : NothingIsNew(key)
      /\ tts' \in Seq(TtsRows) /\ StatusFits' /\ Ids' = Ids
  BY <1>3, QuietKeepsRequests
<1>7. HandsAreOne'
  BY <1>3, RestIsJob, HandsStay DEF Hands
<1>8. ProcessingIsAtWork'
  <2>1. job[p].id \in Ids => job[p].id \in lost'
    BY <1>1, <1>2, <1>3, <1>4, NobodyIsAtZero DEF Hands
  <2>2. lost \subseteq lost' /\ queue' = queue /\ tts' = tts
    BY <1>3
  <2>3. QED
    BY <1>3, <1>6, <2>1, <2>2, BusyStays
<1>9. files' \subseteq Assets /\ queue' \in Seq(Nat)
  BY <1>3 DEF SpeechInv, RowsHold
<1>10. QED
  BY <1>1, <1>3, <1>4, <1>5, <1>6, <1>7, <1>8, <1>9, RestIsJob, ActorHolds

LEMMA DeleteTtsRequestHolds ==
  ASSUME SpeechInv, NEW c \in Callers, DeleteTtsRequest(c)
  PROVE  SpeechInv'
<1> USE DEF assetVars
<1>1. c \in Processes
  BY DEF Processes
<1>2. PICK id \in Ids :
        /\ job[c].pc = "idle"
        /\ job' = [job EXCEPT ![c] = [[Rest EXCEPT !.op = "delete", !.id = id, !.row = tts[id]]
                                        EXCEPT !.pc = "delete"]]
        /\ UNCHANGED <<asset, files, req, raced, claims, edited, tts, queue, lost>>
  BY DEF DeleteTtsRequest, Step
<1>3. id \in Nat /\ tts[id] \in TtsRows
  BY IdsAreTyped DEF SpeechInv
<1>4. PICK s \in Jobs : s = [[Rest EXCEPT !.op = "delete", !.id = id, !.row = tts[id]] EXCEPT !.pc = "delete"]
  BY <1>3, RestIsJob DEF Jobs
<1>5. s.pc = "delete" /\ s.id = id /\ s.row = tts[id]
  BY <1>4, RestIsJob DEF Jobs, Rest
<1>6. job' = [job EXCEPT ![c] = s]
  BY <1>2, <1>4
<1>7. /\ KeepsRequests(0) /\ \A key \in Keys : NothingIsNew(key)
      /\ tts' \in Seq(TtsRows) /\ StatusFits' /\ Ids' = Ids
  BY <1>2, QuietKeepsRequests
<1>8. JobKnown(c, s)'
  BY <1>3, <1>5, <1>7 DEF JobKnown, Hands
<1>9. HandsAreOne'
  BY <1>1, <1>2, <1>5, <1>6, HandsStay DEF Hands
<1>10. ProcessingIsAtWork'
  <2>1. job[c].id \notin Ids
    BY <1>1, <1>2, IdleIsAtNothing
  <2>2. QED
    BY <1>1, <1>2, <1>6, <1>7, <2>1, BusyStays
<1>11. files' \subseteq Assets /\ queue' \in Seq(Nat)
  BY <1>2 DEF SpeechInv, RowsHold
<1>12. QED
  BY <1>1, <1>2, <1>5, <1>6, <1>7, <1>8, <1>9, <1>10, <1>11, ActorHolds

(* What a deletion writes: the status, if it changes it, and the error.      *)
LEMMA WrittenIsTtsRow ==
  ASSUME NEW now \in TtsRows, NEW old \in TtsRows, NEW new \in TtsRows,
         new.text = old.text, new.asset = old.asset, NEW w, w = Written(now, old, new)
  PROVE  /\ w \in TtsRows
         /\ w.text = now.text /\ w.asset = now.asset
         /\ w.status = IF new.status # old.status THEN new.status ELSE now.status
<1> DEFINE r == [text |-> now.text,
                 status |-> IF new.status # old.status THEN new.status ELSE now.status,
                 asset |-> now.asset,
                 error |-> IF new.error # old.error THEN new.error ELSE now.error]
<1>1. DOMAIN now = {"text", "status", "asset", "error"}
  BY DEF TtsRows
<1>2. DOMAIN w = {"text", "status", "asset", "error"}
  BY <1>1 DEF Written
<1>3. w.text = r.text /\ w.status = r.status /\ w.asset = r.asset /\ w.error = r.error
  BY <1>1 DEF Written
<1>4. r \in TtsRows
  BY DEF TtsRows
<1>5. w = r
  BY <1>1, <1>2, <1>3 DEF Written
<1>6. QED
  BY <1>3, <1>4, <1>5

LEMMA SaveDeletionHolds ==
  ASSUME SpeechInv, NEW c \in Callers, SaveDeletion(c)
  PROVE  SpeechInv'
<1> USE DEF assetVars
<1>1. c \in Processes
  BY DEF Processes
<1>2. PICK r \in Jobs : r = job[c] /\ JobKnown(c, r)
  BY <1>1, NobodyIsAtZero
<1>3. PICK id : id = r.id
  OBVIOUS
<1>4. PICK old : old = r.row
  OBVIOUS
<1>5. PICK status : status = IF old.status \in {"completed", "failed"} THEN old.status ELSE "failed"
  OBVIOUS
<1>6. PICK new : new = [old EXCEPT !.status = status, !.error = "deleted_by_user"]
  OBVIOUS
<1>7. /\ r.pc = "delete"
      /\ tts' = [tts EXCEPT ![id] = Written(tts[id], old, new)]
      /\ job' = [job EXCEPT ![c] = Rest]
      /\ UNCHANGED <<asset, files, req, raced, claims, edited, queue, lost>>
  BY <1>2, <1>3, <1>4, <1>5, <1>6 DEF SaveDeletion, Leave
<1>8. id \in Ids /\ old \in TtsRows /\ tts[id] \in TtsRows
  BY <1>2, <1>3, <1>4, <1>7, IdsAreTyped DEF JobKnown, SpeechInv
<1>9. /\ new \in TtsRows /\ new.text = old.text /\ new.asset = old.asset
      /\ new.status = status /\ status \in {"completed", "failed"}
      /\ status = "completed" => old.status = "completed"
  BY <1>5, <1>6, <1>8 DEF TtsRows
<1>10. PICK row : row = Written(tts[id], old, new)
  OBVIOUS
<1>11. /\ row \in TtsRows /\ row.text = tts[id].text /\ row.asset = tts[id].asset
       /\ row.status \in {tts[id].status, "failed"}
  BY <1>8, <1>9, <1>10, WrittenIsTtsRow
<1>12. /\ row.status = "completed" => tts[id].status = "completed" /\ row.asset # None
       /\ row.status = "processing" => tts[id].status = "processing"
       /\ row.asset # None => row.status # "processing"
       /\ row.asset # None /\ tts[id].status = "failed" => row.status = "failed"
  BY <1>8, <1>11 DEF SpeechInv, StatusFits
<1>13. /\ KeepsRequests(0) /\ \A key \in Keys : NothingIsNew(key)
       /\ tts' \in Seq(TtsRows) /\ StatusFits'
       /\ Ids' = Ids /\ tts'[id] = row /\ \A i \in Ids \ {id} : tts'[i] = tts[i]
  <2>1. tts' = [tts EXCEPT ![id] = row]
    BY <1>7, <1>10
  <2>2. UNCHANGED <<asset, edited>> /\ raced \subseteq raced'
    BY <1>7
  <2>3. QED
    BY <1>8, <1>11, <1>12, <2>1, <2>2, RowKeepsRequests
<1>14. HandsAreOne'
  BY <1>1, <1>7, RestIsJob, HandsStay DEF Hands
<1>15. ProcessingIsAtWork'
  <2>1. \A i \in Ids' : tts'[i].status = "processing" => i \in Ids /\ tts[i].status = "processing"
    BY <1>12, <1>13
  <2>2. job' = [job EXCEPT ![c] = Rest] /\ queue' = queue /\ lost' = lost /\ job[c].pc = "delete"
    BY <1>2, <1>7
  <2>3. QED
    BY <1>1, <2>1, <2>2, BusyStays
<1>16. files' \subseteq Assets /\ queue' \in Seq(Nat)
  BY <1>7 DEF SpeechInv, RowsHold
<1>17. QED
  BY <1>1, <1>2, <1>7, <1>13, <1>14, <1>15, <1>16, RestIsJob, ActorHolds

-----------------------------------------------------------------------------
(* What completion writes, whether or not the row was read before.           *)
LEMMA WrittenIsDone ==
  ASSUME NEW now \in TtsRows, NEW old \in TtsRows \cup {NoTts}, NEW k \in Assets,
         old.asset = None, old.status # "completed",
         NEW w, w = Written(now, old, Tts(now.text, "completed", k))
  PROVE  w \in TtsRows /\ w.text = now.text /\ w.asset = k /\ w.status = "completed"
<1> DEFINE new == Tts(now.text, "completed", k)
           r == [text |-> now.text, status |-> "completed", asset |-> k,
                 error |-> IF new.error # old.error THEN "none" ELSE now.error]
<1>1. DOMAIN now = {"text", "status", "asset", "error"}
  BY DEF TtsRows
<1>2. new.text = now.text /\ new.status = "completed" /\ new.asset = k /\ new.error = "none"
  BY DEF Tts
<1>3. k # None
  BY NoneIsNoAsset
<1>4. DOMAIN w = {"text", "status", "asset", "error"}
  BY <1>1 DEF Written
<1>5. w.text = r.text /\ w.status = r.status /\ w.asset = r.asset /\ w.error = r.error
  <2> HIDE DEF new
  <2>1. \A f \in DOMAIN now : w[f] = IF new[f] # old[f] THEN new[f] ELSE now[f]
    BY DEF Written, new
  <2>2. QED
    BY <1>1, <1>2, <1>3, <2>1
<1>6. r \in TtsRows
  BY DEF TtsRows
<1>7. w = r
  BY <1>1, <1>4, <1>5 DEF Written
<1>8. QED
  BY <1>5, <1>6, <1>7

(* The commit of a request: an asset for it, where there was none.           *)
LEMMA CompleteFacts ==
  ASSUME SpeechInv, NEW p \in Processes, Complete(p)
  PROVE  \E r \in Jobs, key \in Keys, row \in TtsRows :
           /\ r = job[p] /\ r.pc = "complete" /\ r.pc \in Hands
           /\ InWork(r.id) /\ r.id \in Nat /\ tts[r.id] \in TtsRows
           /\ key = KeyOf[tts[r.id].text]
           /\ r.asset \in Assets /\ r.asset \in files /\ ~ Exists(r.asset)
           /\ asset' = [asset EXCEPT ![r.asset] = Asset(r.slug, "ready", tts[r.id].text)]
           /\ Asset(r.slug, "ready", tts[r.id].text) \in AssetRows
           /\ row.text = tts[r.id].text /\ row.asset = r.asset /\ row.status = "completed"
           /\ tts' = [tts EXCEPT ![r.id] = row]
           /\ Commit(r.id, {r.slug, key})
           /\ job' = [job EXCEPT ![p] = Rest]
           /\ UNCHANGED <<files, req, edited, queue, lost>>
<1>1. PICK r \in Jobs : r = job[p] /\ JobKnown(p, r)
  BY NobodyIsAtZero
<1>2. r.pc = "complete" /\ r.pc \in Hands
  BY <1>1 DEF Complete, Hands
<1>3. /\ InWork(r.id) /\ r.text = tts[r.id].text
      /\ r.row.asset = None /\ r.row.status # "completed"
      /\ r.asset \in Assets /\ r.asset \in files /\ ~ Exists(r.asset)
      /\ r.slug \in AllSlugs
  BY <1>1, <1>2 DEF JobKnown
<1>4. r.id \in Nat /\ tts[r.id] \in TtsRows
  BY <1>3, IdsAreTyped DEF InWork, SpeechInv
<1>5. PICK text \in Texts : text = tts[r.id].text
  BY <1>4 DEF TtsRows
<1>6. PICK key \in Keys : key = KeyOf[text]
  BY KeysAndSlugs
<1>7. PICK row : row = Written(tts[r.id], r.row, Tts(text, "completed", r.asset))
  OBVIOUS
<1>8. row \in TtsRows /\ row.text = text /\ row.asset = r.asset /\ row.status = "completed"
  <2>1. r.row \in TtsRows \cup {NoTts}
    BY DEF Jobs
  <2>2. QED
    BY <1>3, <1>4, <1>5, <1>7, <2>1, WrittenIsDone
<1>9. Asset(r.slug, "ready", text) \in AssetRows
  BY <1>3 DEF Asset, AssetRows, UPLOADABLE_STATUS
<1>10. /\ asset' = [asset EXCEPT ![r.asset] = Asset(r.slug, "ready", text)]
       /\ tts' = [tts EXCEPT ![r.id] = row]
       /\ Commit(r.id, {r.slug, key})
       /\ job' = [job EXCEPT ![p] = Rest]
       /\ UNCHANGED <<files, req, edited, queue, lost>>
  BY <1>1, <1>3, <1>5, <1>6, <1>7 DEF Complete, Leave
<1>11. QED
  BY <1>1, <1>2, <1>3, <1>4, <1>5, <1>6, <1>8, <1>9, <1>10

(* What is new of a key is shared: nothing of it could be found, or another   *)
(* was at it.                                                               *)
LEMMA NewIsShared ==
  ASSUME SpeechInv, NEW id, KeepsRequests(id), NEW key, MissIsRight(key),
         NEW k, \A i \in Made(key)' : i \in Made(key) \/ tts'[i].asset = k,
         \A m \in Assets : Exists(m) => asset'[m] = asset[m]
  PROVE  SharedOf(key)'
<1>1. SUFFICES ASSUME key \notin raced', ~ Disturbed(key)',
                      NEW i \in Made(key)', NEW j \in Made(key)',
                      NEW x, x = tts'[i].asset, NEW y, y = tts'[j].asset,
                      Servable(x)', Servable(y)', x # y
               PROVE  Overtaken(x, key)' \/ Overtaken(y, key)'
  BY DEF SharedOf
<1>2. key \notin raced /\ ~ Disturbed(key)
  <2>1. raced \subseteq raced' /\ edited \subseteq edited'
    BY DEF KeepsRequests
  <2>2. Disturbed(key) => Disturbed(key)'
    BY <2>1, MadeStays DEF Disturbed
  <2>3. QED
    BY <1>1, <2>1, <2>2
<1>3. \A m \in Assets : Exists(m) => (Servable(m)' <=> Servable(m))
  BY DEF Servable, Live, Exists
<1>4. ASSUME NEW n \in Made(key), NEW m, m = tts[n].asset, Servable(m)'
      PROVE  Overtaken(m, key)'
  <2>1. m \in Assets /\ Exists(m)
    BY <1>4, MadeStays
  <2>2. Servable(m)
    BY <1>3, <1>4, <2>1
  <2>3. Overtaken(m, key)
    BY <1>2, <1>4, <2>2 DEF MissIsRight
  <2>4. PICK a \in Made(key), b \in Made(key) :
          a < b /\ tts[a].asset = m /\ ~ Servable(tts[b].asset)
    BY <2>3 DEF Overtaken
  <2>5. PICK z : z = tts[b].asset
    OBVIOUS
  <2>6. /\ a \in Made(key)' /\ tts'[a].asset = m
        /\ b \in Made(key)' /\ tts'[b].asset = z /\ z \in Assets /\ Exists(z)
    BY <2>4, <2>5, MadeStays
  <2>7. ~ Servable(z)'
    BY <1>3, <2>4, <2>5, <2>6
  <2>8. QED
    BY <2>4, <2>6, <2>7 DEF Overtaken
<1>5. i \in Made(key) \/ j \in Made(key)
  BY <1>1
<1>6. CASE i \in Made(key)
  <2>1. tts[i].asset = x
    BY <1>1, <1>6, MadeStays
  <2>2. QED
    BY <1>1, <1>4, <1>6, <2>1
<1>7. CASE j \in Made(key)
  <2>1. tts[j].asset = y
    BY <1>1, <1>7, MadeStays
  <2>2. QED
    BY <1>1, <1>4, <1>7, <2>1
<1>8. QED
  BY <1>5, <1>6, <1>7

LEMMA CompleteHolds ==
  ASSUME SpeechInv, NEW p \in Processes, Complete(p)
  PROVE  SpeechInv'
<1>1. PICK r \in Jobs, key \in Keys, row \in TtsRows :
        /\ r = job[p] /\ r.pc = "complete" /\ r.pc \in Hands
        /\ InWork(r.id) /\ r.id \in Nat /\ tts[r.id] \in TtsRows
        /\ key = KeyOf[tts[r.id].text]
        /\ r.asset \in Assets /\ r.asset \in files /\ ~ Exists(r.asset)
        /\ asset' = [asset EXCEPT ![r.asset] = Asset(r.slug, "ready", tts[r.id].text)]
        /\ Asset(r.slug, "ready", tts[r.id].text) \in AssetRows
        /\ row.text = tts[r.id].text /\ row.asset = r.asset /\ row.status = "completed"
        /\ tts' = [tts EXCEPT ![r.id] = row]
        /\ Commit(r.id, {r.slug, key})
        /\ job' = [job EXCEPT ![p] = Rest]
        /\ UNCHANGED <<files, req, edited, queue, lost>>
  BY CompleteFacts
<1>2. PICK id, k, text, new :
        id = r.id /\ k = r.asset /\ text = tts[r.id].text /\ new = Asset(r.slug, "ready", text)
  OBVIOUS
<1>3. /\ id \in Ids /\ id \in Nat /\ tts[id].asset = None /\ text = tts[id].text
      /\ <<id, key>> \in claims /\ MissIsRight(key) /\ key = KeyOf[text]
  BY <1>1, <1>2 DEF InWork
<1>4. /\ new \in AssetRows /\ new.text = text
      /\ asset' = [asset EXCEPT ![k] = new] /\ k \in Assets /\ ~ Exists(k) /\ k \in files
      /\ files' = files /\ req' = req /\ edited' = edited /\ queue' = queue /\ lost' = lost
  BY <1>1, <1>2 DEF Asset
<1>5. asset' \in [Assets -> AssetRows \cup {NoAsset}] /\ asset'[k] = new
  BY <1>4 DEF SpeechInv, RowsHold
<1>6. \A m \in Assets \ {k} : asset'[m] = asset[m] /\ Exists(m)' = Exists(m)
  BY <1>4 DEF SpeechInv, RowsHold, Exists
<1>7. Exists(k)'
  BY <1>4, <1>5, AssetRowsAreThere DEF Exists
<1>8. \A m \in Assets : Exists(m) => m # k /\ Exists(m)' /\ asset'[m] = asset[m]
  BY <1>4, <1>6
<1>9. /\ tts' \in Seq(TtsRows) /\ Ids' = Ids /\ tts'[id] = row
      /\ \A i \in Ids \ {id} : tts'[i] = tts[i]
  BY <1>1, <1>2, <1>3, RowChanged DEF SpeechInv, RowsHold
<1>10. /\ raced \subseteq raced'
       /\ \A q : q # id => \A x : <<q, x>> \in claims =>
            /\ <<q, x>> \in claims'
            /\ x = key => key \in raced'
  <2>1. Commit(id, {r.slug, key})
    BY <1>1, <1>2
  <2>2. \A q : q # id => \A x : <<q, x>> \in claims =>
          <<q, x>> \in claims' /\ (x \in {r.slug, key} => x \in raced')
    BY <2>1, ClaimsOfOthersStay
  <2>3. raced \subseteq raced'
    BY <2>1 DEF Commit
  <2>4. QED
    BY <2>2, <2>3
<1>11. KeepsRequests(id)
  <2>1. \A m \in Assets : Exists(m) => (Servable(m)' => Servable(m))
    BY <1>8 DEF Servable, Live
  <2>2. /\ row.text = tts[id].text /\ tts[id].asset = None
    BY <1>1, <1>2, <1>3
  <2>3. QED
    BY <1>4, <1>8, <1>9, <1>10, <2>1, <2>2 DEF KeepsRequests
<1>12. /\ row.text = text /\ row.asset = k /\ row.status = "completed" /\ k # None
  BY <1>1, <1>2, <1>4, NoneIsNoAsset
<1>13. \A other \in Keys \ {key} : NothingIsNew(other)
  <2> SUFFICES ASSUME NEW other \in Keys \ {key}, NEW i \in Made(other)'
               PROVE  \E j \in Made(other) : tts[j].asset = tts'[i].asset
    BY DEF NothingIsNew
  <2>1. i \in Ids /\ i # id
    BY <1>3, <1>9, <1>12 DEF Made
  <2>2. QED
    BY <1>9, <2>1 DEF Made
<1>14. KeepsClaims(p, id)
  <2> SUFFICES ASSUME NEW q \in (Processes \ {p}) \cup (Ids \ {id}), NEW other \in Keys,
                      <<q, other>> \in claims, MissIsRight(other)
               PROVE  <<q, other>> \in claims' /\ MissIsRight(other)'
    BY DEF KeepsClaims
  <2>1. q # id
    BY <1>3, ClaimsAreOwn DEF Processes
  <2>2. CASE other = key
    BY <1>10, <2>1, <2>2 DEF MissIsRight
  <2>3. CASE other # key
    <3>1. MissIsRight(other)'
      BY <1>11, <1>13, <2>3, KeyStays
    <3>2. QED
      BY <1>10, <2>1, <3>1
  <2>4. QED
    BY <2>2, <2>3
<1>15. KeysAreShared'
  <2>1. SharedOf(key)'
    <3>1. \A i \in Made(key)' : i \in Made(key) \/ tts'[i].asset = k
      BY <1>9, <1>12 DEF Made
    <3>2. QED
      BY <1>3, <1>8, <1>11, <3>1, NewIsShared
  <2>2. \A other \in Keys \ {key} : SharedOf(other)'
    BY <1>11, <1>13, KeyStays DEF SpeechInv, KeysAreShared
  <2>3. QED
    BY <2>1, <2>2 DEF KeysAreShared
<1>16. StatusFits'
  BY <1>9, <1>12 DEF SpeechInv, StatusFits
<1>17. AssetIsForTheText'
  <2>1. ASSUME NEW i \in Ids', NEW m, m = tts'[i].asset, m # None
        PROVE  Exists(m)' /\ KeyOf[asset'[m].text] = KeyOf[tts'[i].text]
    <3>1. CASE i = id
      BY <1>4, <1>5, <1>7, <1>9, <1>12, <2>1, <3>1
    <3>2. CASE i # id
      <4>1. i \in Ids /\ tts'[i] = tts[i] /\ tts[i] \in TtsRows
        BY <1>9, <3>2, IdsAreTyped DEF SpeechInv
      <4>2. m \in Assets /\ Exists(m) /\ KeyOf[asset[m].text] = KeyOf[tts[i].text]
        BY <2>1, <4>1 DEF SpeechInv, AssetIsForTheText, TtsRows
      <4>3. QED
        BY <1>8, <4>1, <4>2
    <3>3. QED
      BY <3>1, <3>2
  <2>2. QED
    BY <1>16, <2>1 DEF AssetIsForTheText, StatusFits
<1>18. job' = [job EXCEPT ![p] = Rest] /\ job[p].pc = "complete" /\ job[p].asset = k /\ job[p].id = id
       /\ job[p].pc \in Hands
  BY <1>1, <1>2
<1>19. \A q \in Processes : job'[q] = IF q = p THEN Rest ELSE job[q]
  BY <1>18 DEF SpeechInv, RowsHold
<1>20. job' \in [Processes -> Jobs]
  BY <1>18, RestIsJob DEF SpeechInv, RowsHold
<1>21. RowsHold'
  BY <1>4, <1>5, <1>9, <1>20 DEF SpeechInv, RowsHold
<1>22. AssetsKnown'
  <2> SUFFICES ASSUME NEW t \in Threads PROVE AssetKnown(req[t])'
    BY DEF AssetsKnown
  <2>1. AssetKnown(req[t]) /\ req'[t] = req[t]
    BY <1>4 DEF SpeechInv, AssetsKnown
  <2>2. req[t].pc = "insert" => req[t].asset # k
    BY <1>18 DEF SpeechInv, UuidsAreOwn
  <2>3. QED
    BY <1>4, <1>6, <1>8, <2>1, <2>2 DEF AssetKnown
<1>23. JobsKnown' /\ QueueHolds'
  <2>1. \A q \in Processes \ {p} :
          /\ job[q].pc \in Hands => job[q].id # id
          /\ job[q].pc = "complete" => job[q].asset \in files' /\ ~ Exists(job[q].asset)'
    <3>1. \A q \in Processes \ {p} : job[q].pc = "complete" =>
            job[q].asset \in Assets \ {k} /\ job[q].asset \in files /\ ~ Exists(job[q].asset)
      BY <1>18, NobodyIsAtZero DEF JobKnown, SpeechInv, UuidsAreOwn
    <3>2. \A q \in Processes \ {p} : job[q].pc = "complete" =>
            job[q].asset \in files' /\ ~ Exists(job[q].asset)'
      <4> SUFFICES ASSUME NEW q \in Processes \ {p}, NEW m, m = job[q].asset, job[q].pc = "complete"
                   PROVE  m \in files' /\ ~ (asset'[m] # NoAsset)
        BY <1>19 DEF Exists
      <4>1. m \in Assets \ {k} /\ m \in files /\ asset[m] = NoAsset
        BY <3>1 DEF Exists
      <4>2. QED
        BY <1>4, <1>6, <4>1
    <3>3. \A q \in Processes \ {p} : job[q].pc \in Hands => job[q].id # id
      BY <1>18 DEF SpeechInv, HandsAreOne
    <3>4. QED
      BY <3>2, <3>3
  <2>2. \A i \in ToSet(queue') : i \in ToSet(queue) \ {id}
    BY <1>4, <1>18 DEF SpeechInv, HandsAreOne
  <2>3. QED
    BY <1>11, <1>14, <1>19, <2>1, <2>2, RestIsJob, JobsStay
<1>24. HandsAreOne'
  BY <1>4, <1>18, RestIsJob, HandsStay DEF Hands
<1>25. UuidsAreOwn'
  BY <1>4, <1>19, RestIsJob DEF SpeechInv, UuidsAreOwn
<1>26. ProcessingIsAtWork'
  <2>1. tts'[id].status # "processing"
    BY <1>9, <1>12
  <2>2. \A i \in Ids' : tts'[i].status = "processing" => i \in Ids /\ tts[i].status = "processing"
    BY <1>9, <2>1
  <2>3. QED
    BY <1>4, <1>18, <2>1, <2>2, BusyStays
<1>27. QED
  BY <1>15, <1>16, <1>17, <1>21, <1>22, <1>23, <1>24, <1>25, <1>26 DEF SpeechInv

-----------------------------------------------------------------------------
LEMMA CrashHolds ==
  ASSUME SpeechInv, Crash
  PROVE  SpeechInv'
<1>1. /\ req' = [t \in Threads |-> Idle]
      /\ job' = [p \in Processes |-> Rest]
      /\ lost' = lost \cup ToSet(queue)
                   \cup {job[p].id : p \in {q \in {o \in Processes : job[o].pc # "idle"} :
                                              job[q].pc # "delete" /\ job[q].id # 0}}
      /\ queue' = <<>>
      /\ UNCHANGED <<asset, files, raced, edited, tts>>
  BY DEF Crash
<1>2. Idle \in AssetRequests /\ Idle.pc = "idle"
  BY DEF Idle, AssetRequests
<1>3. RowsHold'
  <2>1. req' \in [Threads -> AssetRequests] /\ job' \in [Processes -> Jobs] /\ queue' \in Seq(Nat)
    BY <1>1, <1>2, RestIsJob
  <2>2. QED
    BY <1>1, <2>1 DEF SpeechInv, RowsHold
<1>4. AssetsKnown'
  <2>1. \A t \in Threads : req'[t].pc = "idle"
    BY <1>1, <1>2
  <2>2. QED
    BY <2>1 DEF AssetsKnown, AssetKnown
<1>5. JobsKnown'
  <2> SUFFICES ASSUME NEW p \in Processes PROVE JobKnown(p, job[p])'
    BY DEF JobsKnown
  <2>1. job'[p] = Rest
    BY <1>1
  <2>2. QED
    BY <2>1, RestIsJob DEF JobKnown, Hands
<1>6. QueueHolds' /\ HandsAreOne' /\ UuidsAreOwn'
  <2>1. ToSet(queue') = {} /\ DOMAIN queue' = {}
    BY <1>1 DEF ToSet
  <2>2. \A p \in Processes : job'[p].pc = "idle"
    BY <1>1, RestIsJob
  <2>3. \A t \in Threads : req'[t].pc = "idle"
    BY <1>1, <1>2
  <2>4. QED
    BY <2>1, <2>2, <2>3 DEF QueueHolds, HandsAreOne, UuidsAreOwn, Hands
<1>7. Ids' = Ids
  BY <1>1 DEF Ids
<1>8. /\ KeepsRequests(0) /\ \A key \in Keys : NothingIsNew(key)
      /\ StatusFits'
  BY <1>1, QuietKeepsRequests
<1>9. KeysAreShared' /\ AssetIsForTheText'
  BY <1>3, <1>8, AssetsStayRight
<1>10. ProcessingIsAtWork'
  <2> SUFFICES ASSUME NEW i \in Ids, tts[i].status = "processing"
               PROVE  i \in lost'
    BY <1>1, <1>7 DEF ProcessingIsAtWork
  <2>1. CASE i \in ToSet(queue) \cup lost
    BY <1>1, <2>1
  <2>2. CASE \E p \in Processes : job[p].id = i /\ job[p].pc # "delete"
    <3>1. PICK p \in Processes : job[p].id = i /\ job[p].pc # "delete"
      BY <2>2
    <3>2. job[p].id # 0 /\ job[p].pc # "idle"
      BY <3>1, NobodyIsAtZero, IdleIsAtNothing
    <3>3. QED
      BY <1>1, <3>1, <3>2
  <2>3. QED
    BY <2>1, <2>2 DEF SpeechInv, ProcessingIsAtWork
<1>11. QED
  BY <1>3, <1>4, <1>5, <1>6, <1>8, <1>9, <1>10 DEF SpeechInv

-----------------------------------------------------------------------------
(* A step of a thread that is at an asset.                                  *)
LEMMA ThreadHolds ==
  ASSUME SpeechInv, NEW t \in Threads, NEW s \in AssetRequests, req' = [req EXCEPT ![t] = s],
         UNCHANGED ttsVars, asset' \in [Assets -> AssetRows \cup {NoAsset}], files' \subseteq Assets,
         raced \subseteq raced', edited \subseteq edited',
         \A q : q # t => \A x : <<q, x>> \in claims => <<q, x>> \in claims',
         \A k \in Assets : Exists(k) =>
           /\ Exists(k)' /\ asset'[k].text = asset[k].text
           /\ Servable(k)' => Servable(k) \/ k \in edited',
         \A k \in Assets : ~ Exists(k) =>
           /\ k \in files => k \in files'
           /\ Exists(k)' => req[t].pc = "insert" /\ req[t].asset = k,
         AssetKnown(s)', s.pc = "insert" => s.asset \notin files
  PROVE  SpeechInv'
<1> USE DEF ttsVars
<1>1. \A u \in Threads : req'[u] = IF u = t THEN s ELSE req[u]
  BY DEF SpeechInv, RowsHold
<1>2. RowsHold'
  <2>1. req' \in [Threads -> AssetRequests]
    BY DEF SpeechInv, RowsHold
  <2>2. tts' \in Seq(TtsRows) /\ queue' \in Seq(Nat) /\ job' \in [Processes -> Jobs]
    BY DEF SpeechInv, RowsHold
  <2>3. QED
    BY <2>1, <2>2 DEF RowsHold
<1>3. t \notin Processes /\ t \notin Nat /\ t \notin Ids
  BY ClaimsAreOwn, IdsAreNoThreads DEF Processes, Ids
<1>4. Ids' = Ids
  BY DEF Ids
<1>5. KeepsRequests(t)
  BY <1>4 DEF KeepsRequests
<1>6. \A key : NothingIsNew(key)
  BY <1>4 DEF NothingIsNew, Made
<1>7. StatusFits'
  BY <1>4 DEF SpeechInv, StatusFits
<1>8. KeysAreShared' /\ AssetIsForTheText'
  BY <1>2, <1>5, <1>6, <1>7, AssetsStayRight
<1>9. KeepsClaims(t, t)
  <2>1. \A key \in Keys : MissIsRight(key) => MissIsRight(key)'
    BY <1>5, <1>6, KeyStays
  <2>2. QED
    BY <2>1 DEF KeepsClaims
<1>10. AssetsKnown'
  <2> SUFFICES ASSUME NEW u \in Threads, NEW r, r = req'[u] PROVE AssetKnown(r)'
    BY DEF AssetsKnown
  <2>1. CASE u = t
    BY <1>1, <2>1
  <2>2. CASE u # t
    <3>1. r = req[u] /\ AssetKnown(r)
      BY <1>1, <2>2 DEF SpeechInv, AssetsKnown
    <3>2. r.pc = "insert" => ~ (req[t].pc = "insert" /\ req[t].asset = r.asset)
      BY <2>2, <3>1 DEF SpeechInv, UuidsAreOwn
    <3>3. QED
      BY <3>1, <3>2 DEF AssetKnown
  <2>3. QED
    BY <2>1, <2>2
<1>11. JobsKnown' /\ QueueHolds'
  <2>1. ASSUME NEW q \in Processes
        PROVE  /\ job[q].pc \in Hands => job[q].id # t
               /\ job[q].pc = "complete" => job[q].asset \in files' /\ ~ Exists(job[q].asset)'
    <3>1. job[q].pc \in Hands => job[q].id # t
      BY <1>3, NobodyIsAtZero
    <3>2. ASSUME job[q].pc = "complete", NEW k, k = job[q].asset
          PROVE  k \in files' /\ ~ Exists(k)'
      <4>1. k \in Assets /\ k \in files /\ ~ Exists(k)
        BY <3>2, NobodyIsAtZero DEF JobKnown
      <4>2. ~ (req[t].pc = "insert" /\ req[t].asset = k)
        BY <3>2 DEF SpeechInv, UuidsAreOwn
      <4>3. QED
        BY <4>1, <4>2
    <3>3. job'[q] = job[q]
      OBVIOUS
    <3>4. QED
      BY <3>1, <3>2, <3>3 DEF Exists
  <2>2. \A i \in ToSet(queue') : i \in ToSet(queue) \ {t}
    BY <1>3, NobodyIsAtZero
  <2>3. \A q \in Processes \ {t} : job'[q] = job[q]
    OBVIOUS
  <2>4. QED
    BY <1>3, <1>5, <1>9, <2>1, <2>2, <2>3, JobsStay
<1>12. HandsAreOne'
  BY DEF SpeechInv, HandsAreOne
<1>13. UuidsAreOwn'
  <2>1. \A u \in Threads : req[u].pc = "insert" => req[u].asset \in files
    BY DEF SpeechInv, AssetsKnown, AssetKnown
  <2>2. \A q \in Processes : job[q].pc = "complete" => job[q].asset \in files
    BY NobodyIsAtZero DEF JobKnown
  <2>3. job' = job
    OBVIOUS
  <2>4. QED
    BY <1>1, <2>1, <2>2, <2>3 DEF SpeechInv, UuidsAreOwn
<1>14. ProcessingIsAtWork'
  BY <1>4 DEF SpeechInv, ProcessingIsAtWork
<1>15. QED
  BY <1>2, <1>7, <1>8, <1>10, <1>11, <1>12, <1>13, <1>14 DEF SpeechInv

LEMMA ThreadsRequest ==
  ASSUME SpeechInv, NEW t \in Threads
  PROVE  req[t] \in AssetRequests /\ AssetKnown(req[t])
  BY DEF SpeechInv, RowsHold, AssetsKnown

LEMMA IdleIsKnown == Idle \in AssetRequests /\ Idle.pc = "idle" /\ AssetKnown(Idle)'
<1>1. Idle \in AssetRequests /\ Idle.pc = "idle"
  BY DEF Idle, AssetRequests
<1>2. QED
  BY <1>1 DEF AssetKnown

(* No row of an asset is written.                                           *)
LEMMA QuietThreadHolds ==
  ASSUME SpeechInv, NEW t \in Threads, NEW s \in AssetRequests, req' = [req EXCEPT ![t] = s],
         UNCHANGED ttsVars, UNCHANGED <<asset, edited>>, files' \subseteq Assets,
         raced \subseteq raced',
         \A q : q # t => \A x : <<q, x>> \in claims => <<q, x>> \in claims',
         \A k \in Assets : ~ Exists(k) /\ k \in files => k \in files',
         AssetKnown(s)', s.pc = "insert" => s.asset \notin files
  PROVE  SpeechInv'
<1>1. \A k : Exists(k)' = Exists(k) /\ Servable(k)' = Servable(k)
  BY DEF Exists, Servable, Live
<1>2. asset' \in [Assets -> AssetRows \cup {NoAsset}]
  BY DEF SpeechInv, RowsHold
<1>3. QED
  BY <1>1, <1>2, ThreadHolds

(* A request begins, about a live asset or a new one.                       *)
LEMMA BeginHoldsToo ==
  ASSUME SpeechInv, UNCHANGED ttsVars, NEW t \in Threads, NEW op, NEW k, NEW new, NEW pc,
         Begin(t, op, k, new, pc), claims \subseteq claims',
         op \in {"upload", "update", "delete"} \cup Notes,
         new \in AssetRows,
         \/ k = None /\ pc = "write"
         \/ /\ k \in Assets /\ Live(k) /\ new.text = asset[k].text
            /\ \/ pc = "note"
               \/ pc = "save" /\ op = "update" /\ new.is_deleted = FALSE
               \/ pc = "unlink" /\ op = "delete" /\ new.is_deleted = TRUE /\ new.status = "deleted"
  PROVE  SpeechInv'
<1>1. PICK row : row = IF k = None THEN NoAsset ELSE asset[k]
  OBVIOUS
<1>2. row \in AssetRows \cup {NoAsset} /\ k \in Assets \cup {None}
  BY <1>1 DEF SpeechInv, RowsHold
<1>3. k \in Assets => k # None /\ row = asset[k]
  BY <1>1, NoneIsNoAsset
<1>4. PICK s \in AssetRequests :
        s = [[Idle EXCEPT !.op = op, !.asset = k, !.new = new, !.row = row] EXCEPT !.pc = pc]
  BY <1>2 DEF Idle, AssetRequests
<1>5. s.pc = pc /\ s.op = op /\ s.asset = k /\ s.new = new /\ s.row = row
  BY <1>4 DEF Idle
<1>6. req' = [req EXCEPT ![t] = s] /\ UNCHANGED <<asset, files, raced, edited>>
  BY <1>1, <1>4 DEF Begin, Goto
<1>7. AssetKnown(s)' /\ s.pc # "insert"
  <2>1. CASE k = None /\ pc = "write"
    BY <1>5, <2>1 DEF AssetKnown
  <2>2. CASE /\ k \in Assets /\ Live(k) /\ new.text = asset[k].text
             /\ \/ pc = "note"
                \/ pc = "save" /\ op = "update" /\ new.is_deleted = FALSE
                \/ pc = "unlink" /\ op = "delete" /\ new.is_deleted = TRUE /\ new.status = "deleted"
    <3>1. Exists(k) /\ row \in AssetRows /\ row.is_deleted = FALSE /\ new.text = row.text
      BY <1>3, <2>2, WhatExists DEF SpeechInv
    <3>2. Exists(k)'
      BY <1>6, <3>1 DEF Exists
    <3>3. pc # "insert" /\ pc # "write"
      BY <2>2
    <3>4. QED
      BY <1>5, <2>2, <3>1, <3>2, <3>3 DEF AssetKnown
  <2>3. QED
    BY <2>1, <2>2
<1>8. files' \subseteq Assets
  BY <1>6 DEF SpeechInv, RowsHold
<1>9. QED
  BY <1>6, <1>7, <1>8, QuietThreadHolds

LEMMA BeginningsHold ==
  ASSUME SpeechInv, UNCHANGED ttsVars, NEW t \in Threads, NEW k,
         \/ UploadAudioAsset(t)
         \/ /\ k \in Assets
            /\ UpdateAudioAsset(t, k) \/ DeleteAudioAsset(t, k) \/ NoteInMetadata(t, k)
  PROVE  SpeechInv'
<1>1. k \in Assets /\ Live(k) => asset[k] \in AssetRows /\ asset[k].is_deleted = FALSE
  BY WhatExists DEF SpeechInv
<1>2. CASE UploadAudioAsset(t)
  <2>1. PICK slug \in Slugs, status \in UPLOADABLE_STATUS :
          /\ Begin(t, "upload", None, Asset(slug, status, None), "write")
          /\ Claim(t, slug)
    BY <1>2 DEF UploadAudioAsset
  <2>2. Asset(slug, status, None) \in AssetRows
    BY DEF Asset, AssetRows, AllSlugs
  <2>3. QED
    BY <2>1, <2>2, BeginHoldsToo DEF Claim
<1>3. CASE k \in Assets /\ UpdateAudioAsset(t, k)
  <2>1. PICK slug \in Slugs \cup {asset[k].slug}, status \in UPLOADABLE_STATUS \cup {asset[k].status} :
          /\ Live(k)
          /\ Begin(t, "update", k, [asset[k] EXCEPT !.slug = slug, !.status = status], "save")
          /\ claims' = claims \cup {<<t, k>>} \cup (IF slug = asset[k].slug THEN {} ELSE {<<t, slug>>})
    BY <1>3 DEF UpdateAudioAsset
  <2>2. PICK new : new = [asset[k] EXCEPT !.slug = slug, !.status = status]
    OBVIOUS
  <2>3. new \in AssetRows /\ new.text = asset[k].text /\ new.is_deleted = FALSE
    BY <1>1, <1>3, <2>1, <2>2 DEF AssetRows, AllSlugs
  <2>4. claims \subseteq claims' /\ Begin(t, "update", k, new, "save")
    BY <2>1, <2>2
  <2>5. QED
    BY <1>3, <2>1, <2>3, <2>4, BeginHoldsToo
<1>4. CASE k \in Assets /\ DeleteAudioAsset(t, k)
  <2>1. PICK new : new = [asset[k] EXCEPT !.is_deleted = TRUE, !.status = "deleted"]
    OBVIOUS
  <2>2. Live(k) /\ Begin(t, "delete", k, new, "unlink") /\ claims \subseteq claims'
    BY <1>4, <2>1 DEF DeleteAudioAsset, Claim
  <2>3. new \in AssetRows /\ new.text = asset[k].text /\ new.is_deleted = TRUE /\ new.status = "deleted"
    BY <1>1, <1>4, <2>1, <2>2 DEF AssetRows, UPLOADABLE_STATUS
  <2>4. QED
    BY <1>4, <2>2, <2>3, BeginHoldsToo
<1>5. CASE k \in Assets /\ NoteInMetadata(t, k)
  <2>1. PICK note \in Notes :
          /\ Live(k)
          /\ Begin(t, note, k, [asset[k] EXCEPT !.metadata = @ \cup {note}], "note")
          /\ Claim(t, <<k, "metadata">>)
    BY <1>5 DEF NoteInMetadata
  <2>2. PICK new : new = [asset[k] EXCEPT !.metadata = @ \cup {note}]
    OBVIOUS
  <2>3. new \in AssetRows /\ new.text = asset[k].text
    BY <1>1, <1>5, <2>1, <2>2 DEF AssetRows
  <2>4. claims \subseteq claims' /\ Begin(t, note, k, new, "note")
    BY <2>1, <2>2 DEF Claim
  <2>5. QED
    BY <1>5, <2>1, <2>3, <2>4, BeginHoldsToo
<1>6. QED
  BY <1>2, <1>3, <1>4, <1>5

LEMMA WriteFileHoldsToo ==
  ASSUME SpeechInv, UNCHANGED ttsVars, NEW t \in Threads, WriteFile(t)
  PROVE  SpeechInv'
<1>1. PICK r \in AssetRequests : r = req[t] /\ AssetKnown(r)
  BY ThreadsRequest
<1>2. PICK k \in Unused : k = NewUuid
  BY NewUuidIsUnused DEF WriteFile
<1>3. /\ r.pc = "write"
      /\ files' = files \cup {k}
      /\ req' = [req EXCEPT ![t] = [[r EXCEPT !.asset = k] EXCEPT !.pc = "insert"]]
      /\ UNCHANGED <<asset, claims, raced, edited>>
  BY <1>1, <1>2 DEF WriteFile, Goto
<1>4. k \in Assets /\ k \notin files /\ ~ Exists(k)
  BY DEF Unused
<1>5. PICK s \in AssetRequests : s = [[r EXCEPT !.asset = k] EXCEPT !.pc = "insert"]
  BY <1>4 DEF AssetRequests
<1>6. s.pc = "insert" /\ s.asset = k /\ s.new = r.new
  BY <1>5 DEF AssetRequests
<1>7. AssetKnown(s)'
  BY <1>1, <1>3, <1>4, <1>6 DEF AssetKnown, Exists
<1>8. files' \subseteq Assets
  BY <1>3, <1>4 DEF SpeechInv, RowsHold
<1>9. QED
  BY <1>3, <1>4, <1>5, <1>6, <1>7, <1>8, QuietThreadHolds

LEMMA InsertHoldsToo ==
  ASSUME SpeechInv, UNCHANGED ttsVars, NEW t \in Threads, Insert(t)
  PROVE  SpeechInv'
<1>1. PICK r \in AssetRequests : r = req[t] /\ AssetKnown(r)
  BY ThreadsRequest
<1>2. /\ r.pc = "insert"
      /\ asset' = [asset EXCEPT ![r.asset] = r.new]
      /\ Commit(t, {r.new.slug})
      /\ req' = [req EXCEPT ![t] = Idle]
      /\ UNCHANGED <<files, edited>>
  BY <1>1 DEF Insert
<1>3. r.asset \in Assets /\ ~ Exists(r.asset) /\ r.new \in AssetRows
  BY <1>1, <1>2 DEF AssetKnown
<1>4. /\ asset' \in [Assets -> AssetRows \cup {NoAsset}]
      /\ \A k \in Assets \ {r.asset} : asset'[k] = asset[k]
  BY <1>2, <1>3 DEF SpeechInv, RowsHold
<1>5. raced \subseteq raced' /\ \A q : q # t => \A x : <<q, x>> \in claims => <<q, x>> \in claims'
  BY <1>2 DEF Commit
<1>6. \A k \in Assets : Exists(k) =>
        /\ Exists(k)' /\ asset'[k].text = asset[k].text
        /\ Servable(k)' => Servable(k) \/ k \in edited'
  <2> SUFFICES ASSUME NEW k \in Assets, Exists(k)
               PROVE  /\ Exists(k)' /\ asset'[k].text = asset[k].text
                      /\ Servable(k)' => Servable(k)
    OBVIOUS
  <2>1. asset'[k] = asset[k]
    BY <1>3, <1>4
  <2>2. QED
    BY <2>1 DEF Exists, Servable, Live
<1>7. \A k \in Assets : ~ Exists(k) =>
        /\ k \in files => k \in files'
        /\ Exists(k)' => req[t].pc = "insert" /\ req[t].asset = k
  BY <1>1, <1>2, <1>4 DEF Exists
<1>8. files' \subseteq Assets
  BY <1>2 DEF SpeechInv, RowsHold
<1>9. QED
  BY <1>2, <1>4, <1>5, <1>6, <1>7, <1>8, IdleIsKnown, ThreadHolds

LEMMA UnlinkHoldsToo ==
  ASSUME SpeechInv, UNCHANGED ttsVars, NEW t \in Threads, Unlink(t)
  PROVE  SpeechInv'
<1>1. PICK r \in AssetRequests : r = req[t] /\ AssetKnown(r)
  BY ThreadsRequest
<1>2. /\ r.pc = "unlink"
      /\ files' = files \ {r.asset}
      /\ req' = [req EXCEPT ![t] = [r EXCEPT !.pc = "save"]]
      /\ UNCHANGED <<asset, claims, raced, edited>>
  BY <1>1 DEF Unlink, Goto
<1>3. Exists(r.asset)
  BY <1>1, <1>2 DEF AssetKnown
<1>4. PICK s \in AssetRequests : s = [r EXCEPT !.pc = "save"]
  BY DEF AssetRequests
<1>5. s.pc = "save" /\ s.asset = r.asset /\ s.op = r.op /\ s.row = r.row /\ s.new = r.new
  BY <1>4 DEF AssetRequests
<1>6. AssetKnown(s)'
  BY <1>1, <1>2, <1>5 DEF AssetKnown, Exists
<1>7. files' \subseteq Assets
  BY <1>2 DEF SpeechInv, RowsHold
<1>8. QED
  BY <1>2, <1>3, <1>4, <1>5, <1>6, <1>7, QuietThreadHolds

LEMMA EndHoldsToo ==
  ASSUME SpeechInv, UNCHANGED ttsVars, NEW t \in Threads, UnlinkFails(t) \/ Abort(t)
  PROVE  SpeechInv'
<1>1. /\ req' = [req EXCEPT ![t] = Idle] /\ Commit(t, {})
      /\ UNCHANGED <<asset, edited, files>>
  BY DEF UnlinkFails, Abort, End
<1>2. raced \subseteq raced' /\ \A q : q # t => \A x : <<q, x>> \in claims => <<q, x>> \in claims'
  BY <1>1 DEF Commit
<1>3. files' \subseteq Assets
  BY <1>1 DEF SpeechInv, RowsHold
<1>4. QED
  BY <1>1, <1>2, <1>3, IdleIsKnown, QuietThreadHolds

(* A row that is there is written, and nothing of a deleted one comes back.   *)
LEMMA RowOfThreadHolds ==
  ASSUME SpeechInv, UNCHANGED ttsVars, NEW t \in Threads, req' = [req EXCEPT ![t] = Idle],
         NEW wrote, Commit(t, wrote), NEW k \in Assets, Exists(k),
         NEW row \in AssetRows, asset' = [asset EXCEPT ![k] = row],
         row.text = asset[k].text, files' = files, edited \subseteq edited',
         Servable(k)' => Servable(k) \/ k \in edited'
  PROVE  SpeechInv'
<1>1. /\ asset' \in [Assets -> AssetRows \cup {NoAsset}]
      /\ asset'[k] = row
      /\ \A m \in Assets \ {k} : asset'[m] = asset[m]
  BY DEF SpeechInv, RowsHold
<1>2. raced \subseteq raced' /\ \A q : q # t => \A x : <<q, x>> \in claims => <<q, x>> \in claims'
  BY DEF Commit
<1>3. Exists(k)'
  BY <1>1, AssetRowsAreThere DEF Exists
<1>4. \A m \in Assets \ {k} : Exists(m)' = Exists(m) /\ Servable(m)' = Servable(m)
  BY <1>1 DEF Exists, Servable, Live
<1>5. \A m \in Assets : Exists(m) =>
        /\ Exists(m)' /\ asset'[m].text = asset[m].text
        /\ Servable(m)' => Servable(m) \/ m \in edited'
  <2> SUFFICES ASSUME NEW m \in Assets, Exists(m)
               PROVE  /\ Exists(m)' /\ asset'[m].text = asset[m].text
                      /\ Servable(m)' => Servable(m) \/ m \in edited'
    OBVIOUS
  <2>1. CASE m = k
    BY <1>1, <1>3, <2>1
  <2>2. CASE m # k
    BY <1>1, <1>4, <2>2
  <2>3. QED
    BY <2>1, <2>2
<1>6. \A m \in Assets : ~ Exists(m) => ~ Exists(m)'
  BY <1>4
<1>7. files' \subseteq Assets
  BY DEF SpeechInv, RowsHold
<1>8. QED
  BY <1>1, <1>2, <1>5, <1>6, <1>7, IdleIsKnown, ThreadHolds

LEMMA SaveHoldsToo ==
  ASSUME SpeechInv, UNCHANGED ttsVars, NEW t \in Threads, Save(t)
  PROVE  SpeechInv'
<1>1. PICK r \in AssetRequests : r = req[t] /\ AssetKnown(r)
  BY ThreadsRequest
<1>2. PICK k : k = r.asset
  OBVIOUS
<1>3. PICK row : row = Written(asset[k], r.row, r.new)
  OBVIOUS
<1>4. PICK wrote : wrote = {k} \cup (IF r.new.slug = r.row.slug THEN {} ELSE {r.new.slug})
  OBVIOUS
<1>5. /\ r.pc = "save"
      /\ asset' = [asset EXCEPT ![k] = row]
      /\ Commit(t, wrote)
      /\ req' = [req EXCEPT ![t] = Idle]
      /\ files' = files
      /\ edited' = IF r.op = "update" /\ asset'[k].status # asset[k].status
                     THEN edited \cup {k} ELSE edited
  BY <1>1, <1>2, <1>3, <1>4 DEF Save
<1>6. /\ k \in Assets /\ Exists(k)
      /\ r.row \in AssetRows /\ r.new \in AssetRows /\ r.new.text = r.row.text
      /\ r.row.is_deleted = FALSE
      /\ \/ r.op = "update" /\ r.new.is_deleted = FALSE
         \/ r.new.is_deleted = TRUE
  BY <1>1, <1>2, <1>5 DEF AssetKnown
<1>7. asset[k] \in AssetRows
  BY <1>6, WhatExists DEF SpeechInv
<1>8. /\ row \in AssetRows /\ row.text = asset[k].text
      /\ row.is_deleted = IF r.new.is_deleted # r.row.is_deleted THEN r.new.is_deleted
                          ELSE asset[k].is_deleted
  BY <1>3, <1>6, <1>7, WrittenIsAssetRow
<1>9. asset'[k] = row
  BY <1>5, <1>6 DEF SpeechInv, RowsHold
<1>10. edited \subseteq edited'
  BY <1>5
<1>11. Servable(k)' => Servable(k) \/ k \in edited'
  <2>1. CASE r.op = "update" /\ r.new.is_deleted = FALSE
    <3>1. row.is_deleted = asset[k].is_deleted
      BY <1>6, <1>8, <2>1
    <3>2. row.status = asset[k].status \/ k \in edited'
      BY <1>5, <1>9, <2>1
    <3>3. QED
      BY <1>6, <1>9, <3>1, <3>2 DEF Servable, Live
  <2>2. CASE r.new.is_deleted = TRUE
    <3>1. row.is_deleted = TRUE
      BY <1>6, <1>8, <2>2
    <3>2. QED
      BY <1>9, <3>1 DEF Servable, Live
  <2>3. QED
    BY <1>6, <2>1, <2>2
<1>12. QED
  BY <1>5, <1>6, <1>8, <1>10, <1>11, RowOfThreadHolds

LEMMA SaveMetadataHoldsToo ==
  ASSUME SpeechInv, UNCHANGED ttsVars, NEW t \in Threads, SaveMetadata(t)
  PROVE  SpeechInv'
<1>1. PICK r \in AssetRequests : r = req[t] /\ AssetKnown(r)
  BY ThreadsRequest
<1>2. PICK k : k = r.asset
  OBVIOUS
<1>3. PICK row : row = [asset[k] EXCEPT !.metadata = r.new.metadata]
  OBVIOUS
<1>4. /\ r.pc = "note"
      /\ asset' = [asset EXCEPT ![k] = row]
      /\ Commit(t, {<<k, "metadata">>})
      /\ req' = [req EXCEPT ![t] = Idle]
      /\ UNCHANGED <<files, edited>>
  BY <1>1, <1>2, <1>3 DEF SaveMetadata
<1>5. k \in Assets /\ Exists(k) /\ r.new \in AssetRows
  BY <1>1, <1>2, <1>4 DEF AssetKnown
<1>6. asset[k] \in AssetRows
  BY <1>5, WhatExists DEF SpeechInv
<1>7. /\ row \in AssetRows /\ row.text = asset[k].text
      /\ row.is_deleted = asset[k].is_deleted /\ row.status = asset[k].status
  BY <1>3, <1>5, <1>6 DEF AssetRows
<1>8. asset'[k] = row
  BY <1>4, <1>5 DEF SpeechInv, RowsHold
<1>9. Servable(k)' => Servable(k)
  BY <1>5, <1>7, <1>8 DEF Servable, Live
<1>10. QED
  BY <1>4, <1>5, <1>7, <1>9, RowOfThreadHolds

-----------------------------------------------------------------------------
LEMMA SpeechBegins == Init => SpeechInv
<1> SUFFICES ASSUME Init PROVE SpeechInv
  OBVIOUS
<1>1. /\ asset = [k \in Assets |-> NoAsset] /\ files = {}
      /\ req = [t \in Threads |-> Idle]
      /\ tts = <<>> /\ queue = <<>> /\ job = [p \in Processes |-> Rest]
  BY DEF Init, AssetsInit, TtsInit
<1>2. Idle \in AssetRequests /\ Idle.pc = "idle"
  BY IdleIsKnown
<1>3. RowsHold
  BY <1>1, <1>2, RestIsJob DEF RowsHold
<1>4. Ids = {} /\ ToSet(queue) = {} /\ DOMAIN queue = {}
  BY <1>1 DEF Ids, ToSet
<1>5. StatusFits /\ AssetIsForTheText /\ ProcessingIsAtWork /\ QueueHolds
  BY <1>4 DEF StatusFits, AssetIsForTheText, ProcessingIsAtWork, QueueHolds
<1>6. KeysAreShared
  BY <1>4 DEF KeysAreShared, SharedOf, Made
<1>7. \A t \in Threads : req[t].pc = "idle"
  BY <1>1, <1>2
<1>8. \A p \in Processes : job[p] = Rest
  BY <1>1
<1>9. AssetsKnown
  BY <1>7 DEF AssetsKnown, AssetKnown
<1>10. JobsKnown
  BY <1>8, RestIsJob DEF JobsKnown
<1>11. HandsAreOne /\ UuidsAreOwn
  BY <1>4, <1>7, <1>8, RestIsJob DEF HandsAreOne, UuidsAreOwn, Hands
<1>12. QED
  BY <1>3, <1>5, <1>6, <1>9, <1>10, <1>11 DEF SpeechInv

LEMMA SpeechStutters ==
  ASSUME SpeechInv, UNCHANGED vars
  PROVE  SpeechInv'
<1> USE DEF vars, assetVars, ttsVars
<1>1. RowsHold' /\ HandsAreOne' /\ UuidsAreOwn'
  BY DEF SpeechInv, RowsHold, HandsAreOne, UuidsAreOwn
<1>2. /\ KeepsRequests(0) /\ \A key \in Keys : NothingIsNew(key)
      /\ StatusFits' /\ Ids' = Ids
      /\ \A key : Made(key)' = Made(key)
      /\ \A i : InWork(i) /\ <<i, KeyOf[tts[i].text]>> \in claims' => InWork(i)'
  BY QuietKeepsRequests
<1>3. KeysAreShared' /\ AssetIsForTheText'
  BY <1>1, <1>2, AssetsStayRight
<1>4. ProcessingIsAtWork'
  BY <1>2 DEF SpeechInv, ProcessingIsAtWork
<1>5. KeepsClaims(None, 0)
  <2>1. \A key \in Keys : MissIsRight(key) => MissIsRight(key)'
    BY <1>2, KeyStays
  <2>2. QED
    BY <2>1 DEF KeepsClaims
<1>6. AssetsKnown'
  BY DEF SpeechInv, AssetsKnown, AssetKnown, Exists
<1>7. \A i : InWork(i) => InWork(i)'
  BY <1>2 DEF InWork
<1>8. QueueHolds'
  BY <1>7 DEF SpeechInv, QueueHolds
<1>9. JobsKnown'
  <2> SUFFICES ASSUME NEW p \in Processes, NEW r, r = job[p] PROVE JobKnown(p, r)'
    BY DEF JobsKnown
  <2>1. JobKnown(p, r) /\ r \in Jobs
    BY NobodyIsAtZero
  <2>2. r.pc = "insert" => MissIsRight(KeyOf[r.text])'
    <3> SUFFICES ASSUME r.pc = "insert" PROVE MissIsRight(KeyOf[r.text])'
      OBVIOUS
    <3>1. PICK key \in Keys : key = KeyOf[r.text]
      BY <2>1, KeysAndSlugs DEF JobKnown
    <3>2. MissIsRight(key)'
      BY <1>2, <2>1, <3>1, KeyStays DEF JobKnown
    <3>3. QED
      BY <3>1, <3>2
  <2>3. r.pc = "complete" => ~ Exists(r.asset)'
    BY <2>1 DEF JobKnown, Exists
  <2>4. QED
    BY <1>2, <1>7, <2>1, <2>2, <2>3 DEF JobKnown
<1>10. QED
  BY <1>1, <1>2, <1>3, <1>4, <1>6, <1>8, <1>9 DEF SpeechInv

LEMMA SpeechGoesOn == SpeechInv /\ [Next]_vars => SpeechInv'
<1> SUFFICES ASSUME SpeechInv, [Next]_vars PROVE SpeechInv'
  OBVIOUS
<1>1. CASE AssetsNext /\ UNCHANGED ttsVars
  BY <1>1, BeginningsHold, WriteFileHoldsToo, InsertHoldsToo, UnlinkHoldsToo, EndHoldsToo,
     SaveHoldsToo, SaveMetadataHoldsToo DEF AssetsNext
<1>2. CASE WorkerStep
  <2>1. Worker \in Processes
    BY DEF Processes
  <2>2. QED
    BY <1>2, <2>1, TakeJobHolds, StartJobHolds, LoadHolds, GenerateHolds, CompleteHolds,
       GenerationFailsHolds, FailedHolds DEF WorkerStep
<1>3. CASE \E c \in Callers : Call(c)
  <2>1. PICK c \in Callers : Call(c)
    BY <1>3
  <2>2. c \in Processes
    BY DEF Processes
  <2>3. QED
    BY <2>1, <2>2, PrepareHitHolds, PrepareMissHolds, InsertHitHolds, InsertRowHolds, EnqueueHolds,
       LoadHolds, GenerateHolds, CompleteHolds, GenerationFailsHolds, FailedHolds,
       DeleteTtsRequestHolds, SaveDeletionHolds DEF Call
<1>4. CASE \E p \in Processes : Escapes(p)
  BY <1>4, EscapesHolds
<1>5. CASE Crash
  BY <1>5, CrashHolds
<1>6. CASE UNCHANGED vars
  BY <1>6, SpeechStutters
<1>7. QED
  BY <1>1, <1>2, <1>3, <1>4, <1>5, <1>6 DEF Next

LEMMA SpeechIsInductive == Spec => []SpeechInv
  BY SpeechBegins, SpeechGoesOn, PTL DEF Spec

(* RequestsAreSound holds: the asset of a request is there and was made for   *)
(* its key, and a request that is processed is in somebody's hands, waits,   *)
(* or was lost.                                                             *)
THEOREM RequestsStaySound == Spec => []RequestsAreSound
<1>1. SpeechInv => RequestsAreSound
  <2> SUFFICES ASSUME SpeechInv PROVE RequestsAreSound
    OBVIOUS
  <2>1. AssetsTypeOK
    <3>1. ASSUME NEW k \in Assets, Exists(k)
          PROVE  /\ asset[k].status \in UPLOADABLE_STATUS
                 /\ asset[k].is_deleted \in BOOLEAN
                 /\ asset[k].metadata \subseteq Notes
      <4>1. asset[k] \in AssetRows
        BY <3>1, WhatExists DEF SpeechInv
      <4>2. QED
        BY <4>1 DEF AssetRows
    <3>2. \A t \in Threads : req[t].pc \in {"idle", "write", "insert", "unlink", "save", "note"}
      BY ThreadsRequest DEF AssetRequests
    <3>3. QED
      BY <3>1, <3>2 DEF SpeechInv, RowsHold, AssetsTypeOK
  <2>2. \A i \in Ids : /\ tts[i].text \in Texts
                       /\ tts[i].status \in {"processing", "completed", "failed"}
                       /\ tts[i].asset \in Assets \cup {None}
    BY IdsAreTyped DEF SpeechInv, TtsRows
  <2>3. ToSet(queue) \subseteq Ids
    BY NobodyIsAtZero
  <2>4. \A p \in Processes : job[p].id \in Ids \cup {0}
    <3> SUFFICES ASSUME NEW p \in Processes PROVE job[p].id \in Ids \cup {0}
      OBVIOUS
    <3>1. job[p] \in Jobs /\ JobKnown(p, job[p])
      BY NobodyIsAtZero
    <3>2. QED
      BY <3>1 DEF Jobs, JobKnown, InWork, Hands
  <2>5. TypeOK
    BY <2>1, <2>2, <2>3, <2>4 DEF TypeOK
  <2>6. QED
    BY <2>5 DEF SpeechInv, RequestsAreSound
<1>2. QED
  BY <1>1, SpeechIsInductive, PTL

(* SpeechIsShared holds: requests with one key share their asset, unless two  *)
(* were at it at once, one was disturbed or one was overtaken.               *)
THEOREM SpeechStaysShared == Spec => []SpeechIsShared
<1>1. SpeechInv => SpeechIsShared
  <2> SUFFICES ASSUME SpeechInv, NEW i \in Ids, NEW j \in Ids, NEW key, key = KeyOf[tts[i].text],
                      {tts[i].status, tts[j].status} = {"completed"},
                      KeyOf[tts[j].text] = key,
                      Servable(tts[i].asset), Servable(tts[j].asset)
               PROVE  \/ tts[i].asset = tts[j].asset
                      \/ key \in raced \/ Disturbed(key)
                      \/ \E k \in {tts[i].asset, tts[j].asset} : Overtaken(k, key)
    BY DEF SpeechIsShared
  <2>1. tts[i].status = "completed" /\ tts[j].status = "completed"
    OBVIOUS
  <2>2. i \in Made(key) /\ j \in Made(key)
    BY <2>1 DEF SpeechInv, StatusFits, Made
  <2>3. key \in Keys
    <3>1. tts[i].text \in Texts
      BY IdsAreTyped DEF SpeechInv, TtsRows
    <3>2. QED
      BY <3>1, KeysAndSlugs
  <2>4. SharedOf(key)
    BY <2>3 DEF SpeechInv, KeysAreShared
  <2>5. QED
    BY <2>2, <2>4 DEF SharedOf
<1>2. QED
  BY <1>1, SpeechIsInductive, PTL

(* CompletedStaysCompleted holds: only a deletion that has read a request     *)
(* before it was completed takes that back.                                 *)
THEOREM CompletedStays == Spec => CompletedStaysCompleted
<1> DEFINE Stays ==
      \A i \in Ids :
        tts[i].status = "completed" =>
          \/ tts'[i].status = "completed"
          \/ \E c \in Callers :
               job[c].pc = "delete" /\ job[c].id = i /\ job[c].row.status = "processing"
<1>1. SpeechInv /\ [Next]_vars => [Stays]_vars
  <2> SUFFICES ASSUME SpeechInv, [Next]_vars, ~ UNCHANGED vars PROVE Stays
    OBVIOUS
  <2>1. CASE tts' = tts
    BY <2>1
  <2>2. ASSUME NEW c \in Callers, InsertHit(c) \/ InsertRow(c) PROVE Stays
    <3>1. PICK row : tts' = Append(tts, row)
      BY <2>2 DEF InsertHit, InsertRow
    <3>2. \A i \in Ids : tts'[i] = tts[i]
      BY <3>1 DEF SpeechInv, RowsHold, Ids
    <3>3. QED
      BY <3>2
  <2>3. ASSUME NEW p \in Processes, (p = Worker /\ StartJob) \/ Complete(p) \/ Failed(p) PROVE Stays
    <3>1. PICK id : id = job[p].id
      OBVIOUS
    <3>2. job[p].pc \in Hands
      BY <2>3 DEF StartJob, Complete, Failed, Hands
    <3>3. id \in Ids /\ tts[id].status # "completed"
      BY <3>1, <3>2, NobodyIsAtZero DEF JobKnown, InWork
    <3>4. tts \in Seq(TtsRows) /\ DOMAIN tts = Ids
      BY DEF SpeechInv, RowsHold, Ids
    <3>5. \A i \in Ids \ {id} : tts'[i] = tts[i]
      <4>1. CASE p = Worker /\ StartJob
        BY <3>1, <3>3, <3>4, <4>1 DEF StartJob
      <4>2. CASE Complete(p)
        <5>1. PICK row : tts' = [tts EXCEPT ![id] = row]
          BY <3>1, <4>2 DEF Complete
        <5>2. QED
          BY <3>3, <3>4, <5>1
      <4>3. CASE Failed(p)
        BY <3>1, <3>3, <3>4, <4>3 DEF Failed
      <4>4. QED
        BY <2>3, <4>1, <4>2, <4>3
    <3>6. QED
      BY <3>3, <3>5
  <2>4. ASSUME NEW c \in Callers, SaveDeletion(c) PROVE Stays
    <3>1. c \in Processes
      BY DEF Processes
    <3>2. PICK r \in Jobs : r = job[c] /\ JobKnown(c, r)
      BY <3>1, NobodyIsAtZero
    <3>3. PICK id, old : id = r.id /\ old = r.row
      OBVIOUS
    <3>4. PICK new : new = [old EXCEPT
            !.status = IF old.status \in {"completed", "failed"} THEN old.status ELSE "failed",
            !.error = "deleted_by_user"]
      OBVIOUS
    <3>5. r.pc = "delete" /\ tts' = [tts EXCEPT ![id] = Written(tts[id], old, new)]
      BY <2>4, <3>2, <3>3, <3>4 DEF SaveDeletion
    <3>6. id \in Ids /\ old \in TtsRows /\ tts[id] \in TtsRows
      BY <3>2, <3>3, <3>5, IdsAreTyped DEF JobKnown, SpeechInv
    <3>7. /\ new \in TtsRows /\ new.text = old.text /\ new.asset = old.asset
          /\ new.status # old.status => old.status = "processing"
      BY <3>4, <3>6 DEF TtsRows
    <3>8. /\ tts'[id].status = IF new.status # old.status THEN new.status ELSE tts[id].status
          /\ \A i \in Ids \ {id} : tts'[i] = tts[i]
      <4>1. PICK row : row = Written(tts[id], old, new)
        OBVIOUS
      <4>2. row \in TtsRows /\ row.status = IF new.status # old.status THEN new.status ELSE tts[id].status
        BY <3>6, <3>7, <4>1, WrittenIsTtsRow
      <4>3. tts' = [tts EXCEPT ![id] = row]
        BY <3>5, <4>1
      <4>4. tts'[id] = row /\ \A i \in Ids \ {id} : tts'[i] = tts[i]
        BY <3>6, <4>2, <4>3, RowChanged DEF SpeechInv, RowsHold
      <4>5. QED
        BY <4>2, <4>4
    <3>9. QED
      BY <3>2, <3>3, <3>5, <3>7, <3>8
  <2>5. \/ tts' = tts
        \/ \E c \in Callers : InsertHit(c) \/ InsertRow(c) \/ SaveDeletion(c)
        \/ \E p \in Processes : (p = Worker /\ StartJob) \/ Complete(p) \/ Failed(p)
    <3>1. CASE AssetsNext /\ UNCHANGED ttsVars
      BY <3>1 DEF ttsVars
    <3>2. CASE WorkerStep
      BY <3>2 DEF WorkerStep, TakeJob, Load, Generate, GenerationFails, Processes
    <3>3. ASSUME NEW c \in Callers, Call(c)
          PROVE  \/ tts' = tts
                 \/ InsertHit(c) \/ InsertRow(c) \/ SaveDeletion(c) \/ Complete(c) \/ Failed(c)
      BY <3>3 DEF Call, PrepareHit, PrepareMiss, EnqueueTtsJob, Load, Generate, GenerationFails,
         DeleteTtsRequest
    <3>4. CASE \E p \in Processes : Escapes(p)
      BY <3>4 DEF Escapes
    <3>5. CASE Crash
      BY <3>5 DEF Crash
    <3>6. Callers \subseteq Processes
      BY DEF Processes
    <3>7. QED
      BY <3>1, <3>2, <3>3, <3>4, <3>5, <3>6 DEF Next
  <2>6. QED
    BY <2>1, <2>2, <2>3, <2>4, <2>5
<1>2. QED
  BY <1>1, SpeechIsInductive, PTL DEF Spec, CompletedStaysCompleted
=============================================================================
