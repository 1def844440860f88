-------------------------------- MODULE Speech --------------------------------
(***************************************************************************)
(* Text to speech: requests for the speech of a text, each with a row, and   *)
(* the audio assets made for them, which later requests with the same key   *)
(* share.  A caller generates itself or, by the settings, leaves it to one   *)
(* worker thread with a queue in memory; a flow at work always generates     *)
(* itself.  The files and rows of audio assets are those of AudioAssets,      *)
(* whose requests go on meanwhile.                                          *)
(***************************************************************************)
EXTENDS AudioAssets, Sequences, SequencesExt

CONSTANTS
  Callers,   \* requests for speech, and flows at work
  Worker,
  Texts,     \* with language, voice and provider
  Keys,      \* cache keys
  KeyOf,     \* [Texts -> Keys]
  SlugOf,    \* [Texts -> Slugs]: of the beginning of the text
  MaxTts     \* bound: rows

ASSUME KeysAndSlugs == KeyOf \in [Texts -> Keys] /\ SlugOf \in [Texts -> Slugs]
ASSUME ClaimsAreOwn ==
  \A p \in Callers \cup {Worker} : p \notin Threads /\ p \notin Nat
ASSUME IdsAreNoThreads == \A t \in Threads : t \notin Nat

VARIABLES
  async,   \* TTS_ASYNC_ENABLED
  tts,     \* the tts_requests table, by id
  queue,   \* ids of the jobs that wait
  alive,   \* is there a worker thread?
  job,     \* what callers and worker are doing, with their local variables
  lost     \* history: ids whose generation was given up half way

ttsVars == <<async, tts, queue, alive, job, lost>>
vars == <<assetVars, ttsVars>>

-----------------------------------------------------------------------------
Processes == Callers \cup {Worker}

NoTts == [text |-> None, status |-> "none", asset |-> None, error |-> "unread"]
Tts(text, status, k) == [text |-> text, status |-> status, asset |-> k, error |-> "none"]

Rest == [pc |-> "idle", op |-> None, text |-> None, id |-> 0, asset |-> None, slug |-> None,
         row |-> NoTts]

Ids == 1..Len(tts)

Servable(k) == Live(k) /\ asset[k].status = "ready"

Completed(key) == {i \in Ids : tts[i].status = "completed" /\ KeyOf[tts[i].text] = key}

(* Slip: the latest completed request, of any key.                          *)
CachedForAny(text) ==
  LET done == {i \in Ids : tts[i].status = "completed"} IN
  IF done # {} /\ Servable(tts[Max(done)].asset) THEN tts[Max(done)].asset ELSE None

(* The asset of the latest request completed with the key of the text, if it *)
(* is still there.                                                          *)
Cached(text) ==
  LET done == Completed(KeyOf[text]) IN
  IF done # {} /\ Servable(tts[Max(done)].asset) THEN tts[Max(done)].asset ELSE None

(* Is there room for one more row, within the bound?                         *)
Room == Len(tts) + Cardinality({p \in Processes : job[p].pc \in {"hit", "insert"}}) < MaxTts

Step(p, r, pc) == job' = [job EXCEPT ![p] = [r EXCEPT !.pc = pc]]
Leave(p) == job' = [job EXCEPT ![p] = Rest]

TtsInit ==
  /\ async \in BOOLEAN
  /\ tts = <<>>
  /\ queue = <<>>
  /\ alive = async
  /\ job = [p \in Processes |-> Rest]
  /\ lost = {}

-----------------------------------------------------------------------------
(* POST /generate, and a speak node without an asset, which only looks.      *)
PrepareHit(c, text) ==
  /\ job[c].pc = "idle"
  /\ Room
  /\ Cached(text) # None
  /\ Step(c, [Rest EXCEPT !.op = "generate", !.text = text, !.asset = Cached(text)], "hit")
  /\ UNCHANGED <<assetVars, async, tts, queue, alive, lost>>

(* Slip: what was made before is not looked for.                            *)
PrepareAlways(c, text) ==
  \E op \in {"generate", "runtime"} :
    /\ job[c].pc = "idle"
    /\ Room
    /\ Step(c, [Rest EXCEPT !.op = op, !.text = text], "insert")
    /\ Claim(c, KeyOf[text])
    /\ UNCHANGED <<asset, files, req, begun, raced, cut, noted, edited>>
    /\ UNCHANGED <<async, tts, queue, alive, lost>>

PrepareMiss(c, text) ==
  \E op \in {"generate", "runtime"} :
    /\ job[c].pc = "idle"
    /\ Room
    /\ Cached(text) = None
    /\ Step(c, [Rest EXCEPT !.op = op, !.text = text], "insert")
    /\ Claim(c, KeyOf[text])
    /\ UNCHANGED <<asset, files, req, begun, raced, cut, noted, edited>>
    /\ UNCHANGED <<async, tts, queue, alive, lost>>

InsertHit(c) ==
  LET r == job[c] IN
  /\ r.pc = "hit"
  /\ tts' = Append(tts, Tts(r.text, "completed", r.asset))
  /\ Leave(c)
  /\ UNCHANGED <<assetVars, async, queue, alive, lost>>

(* The row of a runtime request is not read again before it is completed.    *)
InsertRow(c) ==
  LET r == job[c]
      id == Len(tts) + 1
  IN
  /\ r.pc = "insert"
  /\ tts' = Append(tts, Tts(r.text, "processing", None))
  /\ Step(c, [r EXCEPT !.id = id],
          IF r.op = "runtime" THEN "generate" ELSE IF async THEN "enqueue" ELSE "load")
  /\ claims' = {d \in claims : d[1] # c} \cup {<<id, KeyOf[r.text]>>}
  /\ UNCHANGED <<asset, files, req, begun, raced, cut, noted, edited>>
  /\ UNCHANGED <<async, queue, alive, lost>>

EnqueueTtsJob(c) ==
  LET r == job[c] IN
  /\ r.pc = "enqueue"
  /\ queue' = Append(queue, r.id)
  /\ Leave(c)
  /\ UNCHANGED <<assetVars, async, tts, alive, lost>>

(* Slip: the job waits until the worker has done it.                        *)
TakeJobAndKeepIt ==
  /\ alive
  /\ job[Worker].pc = "idle"
  /\ queue # <<>>
  /\ queue' = queue
  /\ Step(Worker, [Rest EXCEPT !.id = Head(queue), !.text = tts[Head(queue)].text], "start")
  /\ UNCHANGED <<assetVars, async, tts, alive, lost>>

TakeJob ==
  /\ alive
  /\ job[Worker].pc = "idle"
  /\ queue # <<>>
  /\ queue' = Tail(queue)
  /\ Step(Worker, [Rest EXCEPT !.id = Head(queue), !.text = tts[Head(queue)].text], "start")
  /\ UNCHANGED <<assetVars, async, tts, alive, lost>>

(* A request that was deleted while it waited is processed nevertheless.     *)
StartJob ==
  LET r == job[Worker] IN
  /\ r.pc = "start"
  /\ tts' = [tts EXCEPT ![r.id].status = "processing"]
  /\ Step(Worker, r, "load")
  /\ UNCHANGED <<assetVars, async, queue, alive, lost>>

Load(p) ==
  LET r == job[p] IN
  /\ r.pc = "load"
  /\ Step(p, [r EXCEPT !.row = tts[r.id]], "generate")
  /\ UNCHANGED <<assetVars, async, tts, queue, alive, lost>>

(* Slip: nothing tells apart assets of texts that begin alike.               *)
GenerateSameSlug(p) ==
  LET r == job[p] IN
  /\ r.pc = "generate"
  /\ Unused # {}
  /\ files' = files \cup {NewUuid}
  /\ Step(p, [r EXCEPT !.asset = NewUuid, !.slug = SlugOf[r.text]], "complete")
  /\ Claim(r.id, SlugOf[r.text])
  /\ UNCHANGED <<asset, req, begun, raced, cut, noted, edited>>
  /\ UNCHANGED <<async, tts, queue, alive, lost>>

(* The provider writes the file; a slug that is taken is made unique.        *)
Generate(p) ==
  LET r == job[p]
      plain == SlugOf[r.text]
      slug == IF Named(plain) = {} THEN plain ELSE <<plain, NewUuid>>
  IN
  /\ r.pc = "generate"
  /\ Unused # {}
  /\ files' = files \cup {NewUuid}
  /\ Step(p, [r EXCEPT !.asset = NewUuid, !.slug = slug], "complete")
  /\ Claim(r.id, slug)
  /\ UNCHANGED <<asset, req, begun, raced, cut, noted, edited>>
  /\ UNCHANGED <<async, tts, queue, alive, lost>>

(* The asset and the request are committed together.                        *)
Complete(p) ==
  LET r == job[p]
      done == Tts(r.text, "completed", r.asset)
  IN
  /\ r.pc = "complete"
  /\ asset' = [asset EXCEPT ![r.asset] = Asset(r.slug, "ready", r.text)]
  /\ tts' = [tts EXCEPT ![r.id] = Written(tts[r.id], r.row, done)]
  /\ Commit(r.id, {r.slug, KeyOf[r.text]})
  /\ Leave(p)
  /\ UNCHANGED <<files, req, begun, cut, noted, edited>>
  /\ UNCHANGED <<async, queue, alive, lost>>

(* By the provider, without a file, or in the commit.                       *)
GenerationFails(p) ==
  LET r == job[p] IN
  /\ r.pc \in {"generate", "complete"}
  /\ Step(p, r, "failed")
  /\ UNCHANGED <<assetVars, async, tts, queue, alive, lost>>

Failed(p) ==
  LET r == job[p] IN
  /\ r.pc = "failed"
  /\ tts' = [tts EXCEPT ![r.id].status = "failed", ![r.id].error = "generation failed"]
  /\ Commit(r.id, {})
  /\ Leave(p)
  /\ UNCHANGED <<asset, files, req, begun, cut, noted, edited>>
  /\ UNCHANGED <<async, queue, alive, lost>>

(* The database does not answer where nothing catches it: a request ends, and *)
(* with its loop the worker does.                                           *)
Escapes(p) ==
  LET r == job[p] IN
  /\ r.pc \in {"insert", "start", "load", "failed"}
  /\ lost' = IF r.pc = "insert" THEN lost ELSE lost \cup {r.id}
  /\ alive' = (alive /\ p # Worker)
  /\ claims' = {d \in claims : d[1] \notin {p, r.id}}
  /\ Leave(p)
  /\ UNCHANGED <<asset, files, req, begun, raced, cut, noted, edited>>
  /\ UNCHANGED <<async, tts, queue>>

(* DELETE /<id>                                                             *)
DeleteTtsRequest(c) ==
  \E id \in Ids :
    /\ job[c].pc = "idle"
    /\ tts[id].error # "deleted_by_user"
    /\ Step(c, [Rest EXCEPT !.op = "delete", !.id = id, !.row = tts[id]], "delete")
    /\ UNCHANGED <<assetVars, async, tts, queue, alive, lost>>

(* Slip: what was completed is marked failed, too.                          *)
SaveDeletionOfAny(c) ==
  LET r == job[c] IN
  /\ r.pc = "delete"
  /\ tts' = [tts EXCEPT ![r.id].status = "failed", ![r.id].error = "deleted_by_user"]
  /\ Leave(c)
  /\ UNCHANGED <<assetVars, async, queue, alive, lost>>

SaveDeletion(c) ==
  LET r == job[c]
      status == IF r.row.status \in {"completed", "failed"} THEN r.row.status ELSE "failed"
      new == [r.row EXCEPT !.status = status, !.error = "deleted_by_user"]
  IN
  /\ r.pc = "delete"
  /\ tts' = [tts EXCEPT ![r.id] = Written(tts[r.id], r.row, new)]
  /\ Leave(c)
  /\ UNCHANGED <<assetVars, async, queue, alive, lost>>

(* The process ends and is started again: the queue was in memory.           *)
Crash ==
  LET working == {t \in Threads : req[t].pc # "idle"}
      talking == {p \in Processes : job[p].pc # "idle"}
      deleting == {t \in working : req[t].op = "delete" /\ req[t].pc = "save"}
      given == {p \in talking : job[p].pc # "delete" /\ job[p].id # 0}
  IN
  /\ working # {} \/ talking # {} \/ queue # <<>> \/ alive # async
  /\ req' = [t \in Threads |-> Idle]
  /\ job' = [p \in Processes |-> Rest]
  /\ claims' = {}
  /\ cut' = cut \cup {req[t].asset : t \in deleting}
  /\ lost' = lost \cup ToSet(queue) \cup {job[p].id : p \in given}
  /\ queue' = <<>>
  /\ alive' = async
  /\ UNCHANGED <<asset, files, begun, raced, noted, edited>>
  /\ UNCHANGED <<async, tts>>

WorkerStep ==
  \/ TakeJob \/ StartJob
  \/ Load(Worker) \/ Generate(Worker) \/ Complete(Worker)
  \/ GenerationFails(Worker) \/ Failed(Worker)

Call(c) ==
  \/ \E text \in Texts : PrepareHit(c, text) \/ PrepareMiss(c, text)
  \/ InsertHit(c) \/ InsertRow(c) \/ EnqueueTtsJob(c)
  \/ Load(c) \/ Generate(c) \/ Complete(c) \/ GenerationFails(c) \/ Failed(c)
  \/ DeleteTtsRequest(c) \/ SaveDeletion(c)

Init == AssetsInit /\ TtsInit

Next ==
  \/ AssetsNext /\ UNCHANGED ttsVars
  \/ WorkerStep
  \/ \E c \in Callers : Call(c)
  \/ \E p \in Processes : Escapes(p)
  \/ Crash

(* The worker goes on while it is alive and the process runs.                *)
Spec == Init /\ [][Next]_vars /\ WF_vars(WorkerStep)

-----------------------------------------------------------------------------
(* Rows, jobs and queue have their types.                                   *)
TypeOK ==
  /\ AssetsTypeOK
  /\ \A i \in Ids :
       /\ tts[i].text \in Texts
       /\ tts[i].status \in {"processing", "completed", "failed"}
       /\ tts[i].asset \in Assets \cup {None}
  /\ ToSet(queue) \subseteq Ids
  /\ \A p \in Processes : job[p].pc # "idle" => job[p].id \in Ids \cup {0}

(* The asset of a request was made for a text with the key of its own, even   *)
(* if another request made it, and is in the table for good.                *)
AssetIsForTheText ==
  \A i \in Ids :
    /\ tts[i].status = "completed" => tts[i].asset # None
    /\ tts[i].asset # None =>
         /\ Exists(tts[i].asset)
         /\ KeyOf[asset[tts[i].asset].text] = KeyOf[tts[i].text]

(* The requests with a key that have been given an asset.                   *)
Made(key) == {i \in Ids : tts[i].asset # None /\ KeyOf[tts[i].text] = key}

(* A request given this asset is followed by one whose asset is gone: found   *)
(* before it was deleted, and noted in a row only after the next was made.   *)
Overtaken(k, key) ==
  \E i, j \in Made(key) : i < j /\ tts[i].asset = k /\ ~ Servable(tts[j].asset)

(* An update has changed the status of an asset made for the key, or a        *)
(* deletion that of a request completed with it.                            *)
Disturbed(key) ==
  \E i \in Made(key) : tts[i].asset \in edited \/ tts[i].status = "failed"

(* What was made once is used again: requests completed with one key share    *)
(* the asset while it can be served, unless two were at it at once, one was   *)
(* disturbed, or what was found of the key last was gone already.            *)
SpeechIsShared ==
  \A i, j \in Ids :
    LET key == KeyOf[tts[i].text] IN
    /\ {tts[i].status, tts[j].status} = {"completed"}
    /\ KeyOf[tts[j].text] = key
    /\ Servable(tts[i].asset) /\ Servable(tts[j].asset)
    => \/ tts[i].asset = tts[j].asset
       \/ key \in raced \/ Disturbed(key)
       \/ \E k \in {tts[i].asset, tts[j].asset} : Overtaken(k, key)

(* A request that is being processed waits in the queue or is in somebody's   *)
(* hands, unless it was lost by a crash or by an exception nothing caught.   *)
ProcessingIsAtWork ==
  \A i \in Ids :
    tts[i].status = "processing" =>
      \/ i \in ToSet(queue) \cup lost
      \/ \E p \in Processes : job[p].id = i /\ job[p].pc # "delete"

(* A completed request stays completed, except for a deletion that read it    *)
(* before: its commit says failed of speech that is there.                  *)
CompletedStaysCompleted ==
  [][\A i \in Ids :
       tts[i].status = "completed" =>
         \/ tts'[i].status = "completed"
         \/ \E c \in Callers :
              job[c].pc = "delete" /\ job[c].id = i /\ job[c].row.status = "processing"]_vars

(* Every job that was queued comes to an end, unless the process or the       *)
(* worker ended before: those behind a dead worker wait for ever.           *)
JobsEnd ==
  \A i \in 1..MaxTts :
    i \in ToSet(queue) ~>
      \/ i \in lost \/ ~ alive
      \/ /\ i \in Ids /\ tts[i].status \in {"completed", "failed"}
         /\ i \notin ToSet(queue) /\ job[Worker].id # i

(* A request is sound: its asset is speech of its text, and while it is     *)
(* being processed somebody is at it, or it was lost.                       *)
RequestsAreSound == TypeOK /\ AssetIsForTheText /\ ProcessingIsAtWork
=============================================================================
