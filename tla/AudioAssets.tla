------------------------------ MODULE AudioAssets ------------------------------
(***************************************************************************)
(* Audio assets: rows of a table, each naming a file of its own.            *)
(* A file is written before its row and removed before the row is marked;   *)
(* a slug is looked up before either.  Requests run on threads of the web    *)
(* server and may end with the process.  An asset stands for its uuid, which *)
(* names the file, whether there is a row or not.                           *)
(***************************************************************************)
EXTENDS Integers, FiniteSets, Orm

CONSTANTS
  Threads,      \* requests about assets
  Assets,
  Slugs,        \* of names given by users
  MaxRequests,  \* bound: requests that begin
  None

ASSUME NoneIsNoAsset == None \notin Assets

VARIABLES
  asset,    \* the audio_assets table
  files,    \* the directory they are stored in
  req,      \* what each thread is doing, with its local variables
  begun,    \* history: how many requests have begun
  claims,   \* history: <<process, slug or key>> looked up and not yet committed
  raced,    \* history: slugs, keys and assets that two were at, at once
  cut,      \* history: assets whose deletion ended once the file was gone
  noted,    \* history: <<asset, note>> that have been recorded
  edited    \* history: assets whose status an update has changed

assetVars == <<asset, files, req, begun, claims, raced, cut, noted, edited>>

-----------------------------------------------------------------------------
UPLOADABLE_STATUS == {"processing", "ready", "failed", "deleted"}
Notes == {"asterisk_sync", "playback_test"}

NoAsset ==
  [slug |-> None, status |-> "none", is_deleted |-> FALSE, metadata |-> {}, text |-> None]

(* An asset that was uploaded has no text.                                  *)
Asset(slug, status, text) ==
  [slug |-> slug, status |-> status, is_deleted |-> FALSE, metadata |-> {}, text |-> text]

Idle == [pc |-> "idle", op |-> None, asset |-> None, row |-> NoAsset, new |-> NoAsset]

Exists(k) == asset[k] # NoAsset
Live(k) == Exists(k) /\ ~ asset[k].is_deleted

(* The live assets with this slug.                                          *)
Named(slug) == {k \in Assets : Live(k) /\ asset[k].slug = slug}

(* uuid4: one that no row and no file has.                                  *)
Unused == {k \in Assets : ~ Exists(k) /\ k \notin files}
NewUuid == CHOOSE k \in Unused : TRUE

Claim(p, what) == claims' = claims \cup {<<p, what>>}
ClaimsOfOthers(p) == {c[2] : c \in {d \in claims : d[1] # p}}

(* What p commits of what it claimed, with what others claim too.           *)
Commit(p, wrote) ==
  /\ claims' = {c \in claims : c[1] # p}
  /\ raced' = raced \cup (wrote \cap ClaimsOfOthers(p))

-----------------------------------------------------------------------------
AssetsInit ==
  /\ asset = [k \in Assets |-> NoAsset]
  /\ files = {}
  /\ req = [t \in Threads |-> Idle]
  /\ begun = 0
  /\ claims = {}
  /\ raced = {}
  /\ cut = {}
  /\ noted = {}
  /\ edited = {}

Goto(t, r, pc) == req' = [req EXCEPT ![t] = [r EXCEPT !.pc = pc]]

Begin(t, op, k, new, pc) ==
  /\ req[t].pc = "idle"
  /\ begun < MaxRequests
  /\ begun' = begun + 1
  /\ Goto(t, [Idle EXCEPT !.op = op, !.asset = k, !.new = new,
                          !.row = IF k = None THEN NoAsset ELSE asset[k]], pc)
  /\ UNCHANGED <<asset, files, raced, cut, noted, edited>>

(* The end of a request that has committed nothing.                         *)
End(t) ==
  /\ req' = [req EXCEPT ![t] = Idle]
  /\ Commit(t, {})
  /\ UNCHANGED <<asset, begun, noted, edited>>

-----------------------------------------------------------------------------
(* Slip: the slug is not looked up.                                         *)
UploadAnyway(t) ==
  \E slug \in Slugs : \E status \in UPLOADABLE_STATUS :
    /\ Begin(t, "upload", None, Asset(slug, status, None), "write")
    /\ Claim(t, slug)

UploadAudioAsset(t) ==
  \E slug \in Slugs : \E status \in UPLOADABLE_STATUS :
    /\ Named(slug) = {}
    /\ Begin(t, "upload", None, Asset(slug, status, None), "write")
    /\ Claim(t, slug)

WriteFile(t) ==
  LET r == req[t] IN
  /\ r.pc = "write"
  /\ Unused # {}
  /\ files' = files \cup {NewUuid}
  /\ Goto(t, [r EXCEPT !.asset = NewUuid], "insert")
  /\ UNCHANGED <<asset, begun, claims, raced, cut, noted, edited>>

Insert(t) ==
  LET r == req[t] IN
  /\ r.pc = "insert"
  /\ asset' = [asset EXCEPT ![r.asset] = r.new]
  /\ Commit(t, {r.new.slug})
  /\ req' = [req EXCEPT ![t] = Idle]
  /\ UNCHANGED <<files, begun, cut, noted, edited>>

(* A name is optional, and so is a status.                                  *)
UpdateAudioAsset(t, k) ==
  \E slug \in Slugs \cup {asset[k].slug} : \E status \in UPLOADABLE_STATUS \cup {asset[k].status} :
    /\ Live(k)
    /\ slug \in Slugs => Named(slug) \subseteq {k}
    /\ Begin(t, "update", k, [asset[k] EXCEPT !.slug = slug, !.status = status], "save")
    /\ claims' = claims \cup {<<t, k>>} \cup (IF slug = asset[k].slug THEN {} ELSE {<<t, slug>>})

DeleteAudioAsset(t, k) ==
  /\ Live(k)
  /\ Begin(t, "delete", k, [asset[k] EXCEPT !.is_deleted = TRUE, !.status = "deleted"], "unlink")
  /\ Claim(t, k)

(* A file that is not there is no reason to stop.                           *)
Unlink(t) ==
  LET r == req[t] IN
  /\ r.pc = "unlink"
  /\ files' = files \ {r.asset}
  /\ Goto(t, r, "save")
  /\ UNCHANGED <<asset, begun, claims, raced, cut, noted, edited>>

(* Slip: the failure is noted and the row is marked all the same.           *)
UnlinkFailsUnseen(t) ==
  LET r == req[t] IN
  /\ r.pc = "unlink"
  /\ Goto(t, r, "save")
  /\ UNCHANGED <<asset, files, begun, claims, raced, cut, noted, edited>>

UnlinkFails(t) ==
  /\ req[t].pc = "unlink"
  /\ End(t)
  /\ UNCHANGED <<files, cut>>

(* The commit that ends an update or a deletion.                            *)
Save(t) ==
  LET r == req[t]
      same == r.new.slug = r.row.slug
  IN
  /\ r.pc = "save"
  /\ asset' = [asset EXCEPT ![r.asset] = Written(asset[r.asset], r.row, r.new)]
  /\ Commit(t, {r.asset} \cup (IF same THEN {} ELSE {r.new.slug}))
  /\ req' = [req EXCEPT ![t] = Idle]
  /\ edited' = IF r.op = "update" /\ asset'[r.asset].status # asset[r.asset].status
                 THEN edited \cup {r.asset} ELSE edited
  /\ UNCHANGED <<files, begun, cut, noted>>

(* Slip: the new note takes the place of those there were.                  *)
ForgetfulNote(t, k) ==
  \E note \in Notes :
    /\ Live(k) /\ k \in files
    /\ Begin(t, note, k, [asset[k] EXCEPT !.metadata = {note}], "note")
    /\ Claim(t, <<k, "metadata">>)

(* POST /sync-to-asterisk and /test-playback, which first plays the file: a   *)
(* note is added to those there were when the request began.                *)
NoteInMetadata(t, k) ==
  \E note \in Notes :
    /\ Live(k) /\ k \in files
    /\ Begin(t, note, k, [asset[k] EXCEPT !.metadata = @ \cup {note}], "note")
    /\ Claim(t, <<k, "metadata">>)

(* The time in it makes a note always differ: all of them are written.      *)
SaveMetadata(t) ==
  LET r == req[t] IN
  /\ r.pc = "note"
  /\ asset' = [asset EXCEPT ![r.asset].metadata = r.new.metadata]
  /\ noted' = noted \cup {<<r.asset, r.op>>}
  /\ Commit(t, {<<r.asset, "metadata">>})
  /\ req' = [req EXCEPT ![t] = Idle]
  /\ UNCHANGED <<files, begun, cut, edited>>

(* The file of an upload is left when nothing can be committed.              *)
Abort(t) ==
  LET r == req[t] IN
  /\ r.pc \in {"write", "insert", "save", "note"}
  /\ End(t)
  /\ cut' = IF r.op = "delete" THEN cut \cup {r.asset} ELSE cut
  /\ UNCHANGED files

AssetsNext ==
  \E t \in Threads :
    \/ UploadAudioAsset(t) \/ WriteFile(t) \/ Insert(t)
    \/ \E k \in Assets : UpdateAudioAsset(t, k) \/ DeleteAudioAsset(t, k) \/ NoteInMetadata(t, k)
    \/ Unlink(t) \/ UnlinkFails(t)
    \/ Save(t) \/ SaveMetadata(t) \/ Abort(t)

AssetsSpec == AssetsInit /\ [][AssetsNext]_assetVars

-----------------------------------------------------------------------------
(* Rows, files and requests have their types.                               *)
AssetsTypeOK ==
  /\ \A k \in Assets : Exists(k) =>
       /\ asset[k].status \in UPLOADABLE_STATUS
       /\ asset[k].is_deleted \in BOOLEAN
       /\ asset[k].metadata \subseteq Notes
  /\ files \subseteq Assets
  /\ \A t \in Threads : req[t].pc \in {"idle", "write", "insert", "unlink", "save", "note"}

(* An asset that is not deleted has its file, but while it is deleted or when *)
(* a deletion ended half way: no update brings a deleted one back.          *)
LiveAssetsHaveFiles ==
  \A k \in Assets : Live(k) /\ k \notin files =>
    \/ k \in cut
    \/ \E t \in Threads : req[t].asset = k /\ req[t].op = "delete" /\ req[t].pc = "save"

(* An asset is marked deleted only once its file is gone: a file that cannot *)
(* be removed leaves its asset as it is.                                    *)
DeletedAssetsHaveNoFile == \A k \in Assets : asset[k].is_deleted => k \notin files

(* A deleted asset has the status deleted, unless an update overlapped the   *)
(* deletion.                                                                *)
DeletedHasItsStatus ==
  \A k \in Assets \ raced : asset[k].is_deleted => asset[k].status = "deleted"

(* No two live assets share a slug that two requests did not look up at once. *)
SlugsAreUnique == \A slug \in Slugs \ raced : Cardinality(Named(slug)) <= 1

(* What was noted of an asset stays noted, unless two notes overlapped.      *)
NotesAreKept ==
  \A k \in Assets : <<k, "metadata">> \notin raced =>
    {n \in Notes : <<k, n>> \in noted} \subseteq asset[k].metadata

(* Rows and files agree: a live asset has its file, a deleted one has none  *)
(* and says so, but for deletions that were cut off or that an update       *)
(* overlapped.                                                              *)
RowsAndFilesAgree ==
  /\ AssetsTypeOK
  /\ LiveAssetsHaveFiles
  /\ DeletedAssetsHaveNoFile
  /\ DeletedHasItsStatus
=============================================================================
