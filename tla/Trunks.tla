-------------------------------- MODULE Trunks --------------------------------
(***************************************************************************)
(* SIP trunks: their rows, and the configuration of Asterisk made of them.  *)
(* By its settings a deployment writes one file for all trunks, which        *)
(* Asterisk reads when told to reload, or rows of the tables Asterisk reads  *)
(* as it needs them; these are in the database of the application, written   *)
(* in the transaction of the request, or in one of their own, committed      *)
(* separately.  Requests run on threads of the web server, two statements    *)
(* of one interleaved with those of others, and may end with the process.   *)
(* The database is PostgreSQL, at READ COMMITTED.                            *)
(***************************************************************************)
EXTENDS Integers, Sequences, FiniteSets, Orm

CONSTANTS
  Threads,
  Trunks,
  Businesses,   \* a trunk is one's, or global
  Names,
  Blank,        \* the name that is empty
  Confs,        \* everything configured but the name
  Registers,    \* confs of type "registration"
  Logins,       \* confs of type "ip" with user and password
  MaxRequests,  \* bound: requests that begin
  None

ASSUME ConfsAreTyped ==
  Registers \subseteq Confs /\ Logins \subseteq Confs \ Registers

ASSUME NoneIsOther == None \notin Businesses \cup Names

VARIABLES
  mode,       \* the settings: "file", "shared" or "external" tables
  trunk,      \* the sip_trunks table
  table,      \* the ps_ tables: [trunk, name, part] to the conf written last
  file,       \* the configuration file: what it has for each trunk
  loaded,     \* the file as Asterisk has read it
  req,        \* what each thread is doing, with its local variables
  begun,      \* history: how many requests have begun
  disturbed,  \* history: trunks with requests that overlapped or were cut off
  renamed,    \* history: trunks that have had another name
  stranded,   \* history: trunks whose application was cut off
  clashed,    \* history: trunks whose name was not kept free for them
  torn        \* history: the rows written last while others deleted them

vars ==
  <<mode, trunk, table, file, loaded, req, begun, disturbed, renamed, stranded,
    clashed, torn>>

-----------------------------------------------------------------------------
Modes == {"file", "shared", "external"}
Realtime == mode # "file"

(* What the file says of a trunk.                                           *)
Entry == [name : Names, conf : Confs]
NoEntry == [name |-> None, conf |-> None]
EmptyFile == [k \in Trunks |-> NoEntry]

(* previous_config_json: the columns alone, as an update stores them, or     *)
(* the columns and the file.                                                *)
NoSnapshot == [kind |-> "none", name |-> None, conf |-> None, active |-> FALSE, file |-> EmptyFile]

Snapshot(kind, row, content) ==
  [kind |-> kind, name |-> row.name, conf |-> row.conf, active |-> row.active,
   file |-> content]

NoTrunk ==
  [business |-> None, name |-> None, conf |-> None, active |-> FALSE, apply |-> "none",
   prev |-> NoSnapshot]

Statuses == {"pending", "applying", "active", "failed", "rolled_back"}

(* at, gone: how many parts a deletion has gone through, the rows it found.  *)
Idle == [pc |-> "idle", op |-> "none", trunk |-> None, row |-> NoTrunk, new |-> NoTrunk,
         content |-> EmptyFile, at |-> 0, gone |-> {}]

(* Has another trunk of the business this name?                              *)
IsTaken(k, business, name) ==
  \E j \in Trunks \ {k} : trunk[j].business = business /\ trunk[j].name = name

(* The rows of the ps_ tables a trunk with this conf needs.                  *)
Parts(conf) ==
  {"aor", "endpoint"}
    \cup (IF conf \in Registers \cup Logins THEN {"auth"} ELSE {})
    \cup (IF conf \in Registers THEN {"registration"} ELSE {"identify"})

RowsOf(k, name) == {key \in DOMAIN table : key[1] = k /\ key[2] = name}

(* Slip: rows the trunk no longer needs are kept.                            *)
UpsertOnly(k, row) ==
  LET mine == {<<k, row.name, part>> : part \in Parts(row.conf)} IN
  [key \in DOMAIN table \cup mine |-> IF key \in mine THEN row.conf ELSE table[key]]

(* upsert_trunk                                                             *)
Upsert(k, row) ==
  LET mine == {<<k, row.name, part>> : part \in Parts(row.conf)} IN
  [key \in (DOMAIN table \ RowsOf(k, row.name)) \cup mine |->
     IF key \in mine THEN row.conf ELSE table[key]]

(* delete_trunk: a statement for each part, in this order.                   *)
PurgeOrder == <<"registration", "auth", "identify", "endpoint", "aor">>

(* The commit of a deletion: the rows its statements found.                 *)
Purged(r) == [key \in DOMAIN table \ r.gone |-> table[key]]

(* Rows that a request has deleted are locked until it commits.  There is    *)
(* nothing to lock where it found none.                                     *)
LockedRows(t) == UNION {req[u].gone : u \in Threads \ {t}}

MayUpsert(t, k, name) == RowsOf(k, name) \cap LockedRows(t) = {}

(* Rows written now are torn by a deletion half through its statements.      *)
Torn(k, name) ==
  IF \E u \in Threads :
       /\ req[u].pc = "purge" /\ req[u].trunk = k /\ req[u].row.name = name
       /\ 0 < req[u].at /\ req[u].at < Len(PurgeOrder)
    THEN torn \cup {<<k, name>>}
    ELSE torn \ {<<k, name>>}

(* render_full_config of the active trunks.                                 *)
Rendered ==
  [k \in Trunks |->
     IF trunk[k].active THEN [name |-> trunk[k].name, conf |-> trunk[k].conf] ELSE NoEntry]

-----------------------------------------------------------------------------
Init ==
  /\ mode \in Modes
  /\ trunk = [k \in Trunks |-> NoTrunk]
  /\ table = [key \in {} |-> None]
  /\ file = EmptyFile
  /\ loaded = EmptyFile
  /\ req = [t \in Threads |-> Idle]
  /\ begun = 0
  /\ disturbed = {}
  /\ renamed = {}
  /\ stranded = {}
  /\ clashed = {}
  /\ torn = {}

Goto(t, r, pc) == req' = [req EXCEPT ![t] = [r EXCEPT !.pc = pc]]
End(t) == req' = [req EXCEPT ![t] = Idle]

(* A request as it goes on once its row is committed: it has none in memory.  *)
Expired(r) == [Idle EXCEPT !.op = r.op, !.trunk = r.trunk]

(* Which trunks does a request that begins disturb?  The file is one for all. *)
Disturbs(t, k, op) ==
  LET others == {u \in Threads \ {t} : req[u].pc # "idle" /\ req[u].op # "create"} IN
  IF ~ Realtime
    THEN IF others # {} \/ op = "rollback" THEN Trunks ELSE {}
    ELSE IF \E u \in others : req[u].trunk = k THEN {k} ELSE {}

(* A global trunk is to have a name that another request, having found it    *)
(* free too, is about to give one.                                          *)
Clashes(business, name) ==
  /\ business = None
  /\ \E t \in Threads :
       /\ req[t].pc # "idle" /\ req[t].new.business = None /\ req[t].new.name = name
       /\ req[t].row.name # name

Begin(t, k, op, new, pc) ==
  /\ req[t].pc = "idle"
  /\ begun < MaxRequests
  /\ trunk[k] # NoTrunk
  /\ begun' = begun + 1
  /\ disturbed' = disturbed \cup Disturbs(t, k, op)
  /\ Goto(t, [Idle EXCEPT !.op = op, !.trunk = k, !.row = trunk[k], !.new = new], pc)
  /\ clashed' = IF new.name # trunk[k].name /\ (op = "rollback" \/ Clashes(new.business, new.name))
                  THEN clashed \cup {k} ELSE clashed
  /\ UNCHANGED <<mode, trunk, table, file, loaded, renamed, stranded, torn>>

(* The commit of what a request set in the row it read.  The name is unique *)
(* in a business, or the commit fails; nothing keeps it so for global trunks. *)
SaveRow(k, old, new) ==
  LET row == Written(trunk[k], old, new) IN
  /\ row.business = None \/ ~ IsTaken(k, row.business, row.name)
  /\ trunk' = [trunk EXCEPT ![k] = row]
  /\ renamed' = IF row.name # trunk[k].name THEN renamed \cup {k} ELSE renamed

Set(k, status) == trunk' = [trunk EXCEPT ![k].apply = status]

-----------------------------------------------------------------------------
(* The row is inserted after the name was found free; k is the id it will    *)
(* get.                                                                     *)
CreateSipTrunk(t, k) ==
  \E business \in Businesses \cup {None} : \E name \in Names :
  \E conf \in Confs : \E active \in BOOLEAN :
    /\ req[t].pc = "idle"
    /\ trunk[k] = NoTrunk
    /\ \A u \in Threads : req[u].trunk # k
    /\ ~ IsTaken(k, business, name)
    /\ Goto(t, [Idle EXCEPT !.op = "create", !.trunk = k, !.new =
         [business |-> business, name |-> name, conf |-> conf, active |-> active,
          apply |-> "pending", prev |-> NoSnapshot]], "insert")
    /\ clashed' = IF Clashes(business, name) THEN clashed \cup {k} ELSE clashed
    /\ UNCHANGED <<mode, trunk, table, file, loaded, begun, disturbed, renamed, stranded, torn>>

Insert(t) ==
  LET r == req[t] IN
  /\ r.pc = "insert"
  /\ r.new.business = None \/ ~ IsTaken(r.trunk, r.new.business, r.new.name)
  /\ trunk' = [trunk EXCEPT ![r.trunk] = r.new]
  /\ End(t)
  /\ UNCHANGED <<mode, table, file, loaded, begun, disturbed, renamed, stranded, clashed, torn>>

(* The name of an update: none, the empty one, which is not looked for, or    *)
(* one that no other global trunk has.  With another name, the query of a    *)
(* trunk of a business is no SQL: IS with a number.                         *)
IsAllowedName(k, name) ==
  \/ name = trunk[k].name
  \/ name = Blank
  \/ trunk[k].business = None /\ ~ IsTaken(k, None, name)

(* Slip: the snapshot has the form that apply gives it.                      *)
UpdateWithFile(t, k) ==
  \E name \in Names : \E conf \in Confs : \E active \in BOOLEAN :
    /\ IsAllowedName(k, name)
    /\ Begin(t, k, "update",
         [trunk[k] EXCEPT !.name = name, !.conf = conf, !.active = active, !.apply = "pending",
                          !.prev = Snapshot("whole", trunk[k], file)], "save")

UpdateSipTrunk(t, k) ==
  \E name \in Names : \E conf \in Confs : \E active \in BOOLEAN :
    /\ IsAllowedName(k, name)
    /\ Begin(t, k, "update",
         [trunk[k] EXCEPT !.name = name, !.conf = conf, !.active = active, !.apply = "pending",
                          !.prev = Snapshot("columns", trunk[k], EmptyFile)], "save")

DeleteSipTrunk(t, k) ==
  Begin(t, k, "delete",
    [trunk[k] EXCEPT !.active = FALSE, !.apply = "pending",
                     !.prev = Snapshot("whole", trunk[k], file)],
    IF Realtime THEN "purge" ELSE "save")

(* A statement of the deletion: the row of one part, under the name read, if  *)
(* there is one; it waits for another deletion of the row.                  *)
PurgePart(t) ==
  LET r == req[t]
      key == <<r.trunk, r.row.name, PurgeOrder[r.at + 1]>>
  IN
  /\ r.pc = "purge"
  /\ r.at < Len(PurgeOrder)
  /\ key \notin LockedRows(t)
  /\ Goto(t, [r EXCEPT !.at = @ + 1, !.gone = @ \cup ({key} \cap DOMAIN table)],
          IF mode = "shared" /\ r.at + 1 = Len(PurgeOrder) THEN "save" ELSE "purge")
  /\ UNCHANGED <<mode, trunk, table, file, loaded, begun, disturbed, renamed, stranded,
                 clashed, torn>>

(* The transaction of their own that the statements are in is committed.     *)
PurgeOutside(t) ==
  LET r == req[t] IN
  /\ r.pc = "purge"
  /\ r.at = Len(PurgeOrder)
  /\ table' = Purged(r)
  /\ Goto(t, [r EXCEPT !.gone = {}], "save")
  /\ UNCHANGED <<mode, trunk, file, loaded, begun, disturbed, renamed, stranded, clashed, torn>>

(* The commit that ends an update or a deletion.                            *)
Save(t) ==
  LET r == req[t] IN
  /\ r.pc = "save"
  /\ SaveRow(r.trunk, r.row, r.new)
  /\ table' = Purged(r)
  /\ End(t)
  /\ UNCHANGED <<mode, file, loaded, begun, disturbed, stranded, clashed, torn>>

(* Nothing of a request that fails before a commit remains but what it has   *)
(* written elsewhere: a name that is taken, or tables that cannot be written. *)
Fail(t) ==
  LET r == req[t]
      row == IF r.pc = "insert" THEN r.new ELSE Written(trunk[r.trunk], r.row, r.new)
  IN
  /\ \/ /\ r.pc \in {"insert", "save", "restore"}
        /\ row.business # None /\ IsTaken(r.trunk, row.business, row.name)
     \/ r.pc \in {"purge", "resync", "rewrite"}
     \/ r.pc = "restore" /\ mode = "shared"
  /\ End(t)
  /\ disturbed' = IF r.pc = "restore" /\ mode = "external" THEN disturbed \cup {r.trunk}
                  ELSE disturbed
  /\ UNCHANGED <<mode, trunk, table, file, loaded, begun, renamed, stranded, clashed, torn>>

-----------------------------------------------------------------------------
(* POST /apply and /reload *)

ReloadSipTrunk(t, k) ==
  Begin(t, k, "reload",
    [trunk[k] EXCEPT !.apply = "applying", !.prev = Snapshot("whole", trunk[k], file)],
    "applying")

Applying(t) ==
  LET r == req[t] IN
  /\ r.pc = "applying"
  /\ SaveRow(r.trunk, r.row, r.new)
  /\ Goto(t, Expired(r), IF Realtime THEN "read" ELSE "render")
  /\ UNCHANGED <<mode, table, file, loaded, begun, disturbed, stranded, clashed, torn>>

(* Tables that are missing or cannot be written, or a file that cannot and    *)
(* may be left empty: noted in the row.                                     *)
SyncFails(t) ==
  LET r == req[t] IN
  /\ r.pc \in {"read", "upsert", "write"}
  /\ file' \in {file} \cup (IF r.pc = "write" THEN {EmptyFile} ELSE {})
  /\ Goto(t, Expired(r), "failed")
  /\ UNCHANGED <<mode, trunk, table, loaded, begun, disturbed, renamed, stranded, clashed, torn>>

(* Looking for the tables is not guarded: its failure ends the request.      *)
TablesAreUnreachable(t) ==
  LET r == req[t] IN
  /\ r.pc = "read"
  /\ End(t)
  /\ stranded' = stranded \cup {r.trunk}
  /\ UNCHANGED <<mode, trunk, table, file, loaded, begun, disturbed, renamed, clashed, torn>>

(* After a commit the row is read anew.                                     *)
ReadRow(t) ==
  LET r == req[t] IN
  /\ r.pc = "read"
  /\ Goto(t, [r EXCEPT !.row = trunk[r.trunk]], "upsert")
  /\ UNCHANGED <<mode, trunk, table, file, loaded, begun, disturbed, renamed, stranded, clashed, torn>>

UpsertTrunk(t) ==
  LET r == req[t] IN
  /\ r.pc = "upsert"
  /\ MayUpsert(t, r.trunk, r.row.name)
  /\ table' = Upsert(r.trunk, r.row)
  /\ torn' = Torn(r.trunk, r.row.name)
  /\ Goto(t, Expired(r), "ami")
  /\ UNCHANGED <<mode, trunk, file, loaded, begun, disturbed, renamed, stranded, clashed>>

(* Slip: only the trunk that is applied is rendered.                         *)
RenderOne(t) ==
  LET r == req[t] IN
  /\ r.pc = "render"
  /\ Goto(t, [r EXCEPT !.content = [EmptyFile EXCEPT ![r.trunk] = Rendered[r.trunk]]], "write")
  /\ UNCHANGED <<mode, trunk, table, file, loaded, begun, disturbed, renamed, stranded, clashed, torn>>

Render(t) ==
  LET r == req[t] IN
  /\ r.pc = "render"
  /\ Goto(t, [r EXCEPT !.content = Rendered], "write")
  /\ UNCHANGED <<mode, trunk, table, file, loaded, begun, disturbed, renamed, stranded, clashed, torn>>

WriteConfig(t) ==
  LET r == req[t] IN
  /\ r.pc = "write"
  /\ file' = r.content
  /\ Goto(t, Expired(r), "ami")
  /\ UNCHANGED <<mode, trunk, table, loaded, begun, disturbed, renamed, stranded, clashed, torn>>

(* "pjsip reload": Asterisk may have read the file whatever the request is    *)
(* told, and has when it is told so.                                        *)
PjsipReload(t) ==
  LET r == req[t] IN
  \E told \in {"active", "failed"} :
    /\ r.pc = "ami"
    /\ loaded' \in {file} \cup (IF told = "active" THEN {} ELSE {loaded})
    /\ IF r.op = "rollback" THEN End(t) ELSE Goto(t, r, told)
    /\ UNCHANGED <<mode, trunk, table, file, begun, disturbed, renamed, stranded, clashed, torn>>

Applied(t) ==
  LET r == req[t] IN
  /\ r.pc \in {"active", "failed"}
  /\ Set(r.trunk, r.pc)
  /\ End(t)
  /\ UNCHANGED <<mode, table, file, loaded, begun, disturbed, renamed, stranded, clashed, torn>>

-----------------------------------------------------------------------------
(* POST /rollback *)

RollbackSipTrunk(t, k) ==
  LET prev == trunk[k].prev IN
  /\ prev.kind = "whole"
  /\ Begin(t, k, "rollback",
       [trunk[k] EXCEPT !.name = prev.name, !.conf = prev.conf, !.active = prev.active,
                        !.apply = "rolled_back"],
       IF mode = "file" THEN "rewrite" ELSE IF mode = "external" THEN "resync" ELSE "restore")

ResyncOutside(t) ==
  LET r == req[t] IN
  /\ r.pc = "resync"
  /\ MayUpsert(t, r.trunk, r.new.name)
  /\ table' = Upsert(r.trunk, r.new)
  /\ torn' = Torn(r.trunk, r.new.name)
  /\ Goto(t, r, "restore")
  /\ UNCHANGED <<mode, trunk, file, loaded, begun, disturbed, renamed, stranded, clashed>>

(* The whole file is put back, other trunks' entries included.              *)
RewriteConfig(t) ==
  LET r == req[t] IN
  /\ r.pc = "rewrite"
  /\ file' = r.row.prev.file
  /\ Goto(t, r, "restore")
  /\ UNCHANGED <<mode, trunk, table, loaded, begun, disturbed, renamed, stranded, clashed, torn>>

Restore(t) ==
  LET r == req[t] IN
  /\ r.pc = "restore"
  /\ SaveRow(r.trunk, r.row, r.new)
  /\ IF mode = "shared"
       THEN /\ MayUpsert(t, r.trunk, r.new.name)
            /\ table' = Upsert(r.trunk, r.new)
            /\ torn' = Torn(r.trunk, r.new.name)
       ELSE UNCHANGED <<table, torn>>
  /\ Goto(t, Expired(r), "ami")
  /\ UNCHANGED <<mode, file, loaded, begun, disturbed, stranded, clashed>>

-----------------------------------------------------------------------------
(* The process ends: requests are forgotten where they are.                 *)
Crash ==
  LET working == {t \in Threads : req[t].pc # "idle"} IN
  /\ working # {}
  /\ req' = [t \in Threads |-> Idle]
  /\ disturbed' = disturbed \cup {req[t].trunk : t \in {u \in working : req[u].op # "create"}}
  /\ stranded' = stranded \cup {req[t].trunk : t \in {u \in working : req[u].op = "reload"}}
  /\ UNCHANGED <<mode, trunk, table, file, loaded, begun, renamed, clashed, torn>>

Next ==
  \/ \E t \in Threads :
       \/ \E k \in Trunks :
            CreateSipTrunk(t, k) \/ UpdateSipTrunk(t, k) \/ DeleteSipTrunk(t, k)
              \/ ReloadSipTrunk(t, k) \/ RollbackSipTrunk(t, k)
       \/ Insert(t) \/ PurgePart(t) \/ PurgeOutside(t) \/ Save(t) \/ Fail(t)
       \/ Applying(t) \/ SyncFails(t) \/ TablesAreUnreachable(t)
       \/ ReadRow(t) \/ UpsertTrunk(t) \/ Render(t) \/ WriteConfig(t)
       \/ PjsipReload(t) \/ Applied(t)
       \/ ResyncOutside(t) \/ RewriteConfig(t) \/ Restore(t)
  \/ Crash

Spec == Init /\ [][Next]_vars

-----------------------------------------------------------------------------
(* Rows, file and requests have their types.                                *)
TypeOK ==
  /\ \A k \in Trunks : trunk[k] # NoTrunk =>
       /\ trunk[k].name \in Names /\ trunk[k].conf \in Confs
       /\ trunk[k].active \in BOOLEAN /\ trunk[k].apply \in Statuses
       /\ trunk[k].prev.kind \in {"none", "columns", "whole"}
       /\ trunk[k].business \in Businesses \cup {None}
  /\ \A key \in DOMAIN table : key[1] \in Trunks /\ key[2] \in Names /\ table[key] \in Confs
  /\ {file, loaded} \subseteq [Trunks -> Entry \cup {NoEntry}]
  /\ \A t \in Threads : req[t].pc # "idle" =>
       /\ req[t].trunk \in Trunks
       /\ trunk[req[t].trunk] = NoTrunk <=> req[t].op = "create"
       /\ req[t].gone \subseteq DOMAIN table

(* Trunks of one business have different names whatever requests overlap, or  *)
(* bring an old one back.  Of two global ones this holds only as far as the   *)
(* check before the commit goes: not for the empty name, and not of a trunk   *)
(* named while another was being given that name, or by a rollback.         *)
NamesAreUnique ==
  \A j, k \in Trunks :
    /\ j # k /\ trunk[j] # NoTrunk /\ trunk[k] # NoTrunk
    /\ trunk[j].business = trunk[k].business /\ trunk[j].name = trunk[k].name
    => /\ trunk[j].business = None
       /\ trunk[j].name = Blank \/ j \in clashed \/ k \in clashed

(* A row is there only with those a deletion goes through before it.         *)
IsCutOff(k, name, conf) ==
  \A i, j \in DOMAIN PurgeOrder :
    /\ i < j /\ PurgeOrder[i] \in Parts(conf)
    /\ <<k, name, PurgeOrder[j]>> \in DOMAIN table
    => <<k, name, PurgeOrder[i]>> \in DOMAIN table

(* What is in the tables for a name of a trunk is of one configuration, with  *)
(* all the rows its type needs and none a former type has left; only rows    *)
(* written while a deletion was between its statements may lack some, and of *)
(* these the aor goes first, then the endpoint, which is never there without *)
(* its authentication.                                                      *)
EndpointsAreWhole ==
  \A k \in Trunks : \A name \in Names :
    LET rows == RowsOf(k, name) IN
    \/ rows = {}
    \/ \E conf \in Confs :
         /\ rows \subseteq {<<k, name, part>> : part \in Parts(conf)}
         /\ \A key \in rows : table[key] = conf
         /\ IsCutOff(k, name, conf)
         /\ \/ <<k, name>> \in torn
            \/ rows = {<<k, name, part>> : part \in Parts(conf)}

(* A trunk said to be applied is the one Asterisk works with, unless requests *)
(* overlapped or were cut off, the file went back for another trunk, or it is *)
(* being deleted, its rows in tables elsewhere before its own.               *)
AppliedIsServed ==
  \A k \in Trunks \ (disturbed \cup {req[t].trunk : t \in {u \in Threads : req[u].op = "delete"}}) :
    trunk[k].apply = "active" =>
      IF Realtime
        THEN \A part \in Parts(trunk[k].conf) :
               /\ <<k, trunk[k].name, part>> \in DOMAIN table
               /\ table[<<k, trunk[k].name, part>>] = trunk[k].conf
        ELSE loaded[k] = Rendered[k]

(* A snapshot that a rollback accepts has the configuration of the row: but   *)
(* for a deletion, a rollback has nothing to go back to in the row.         *)
RollbackKeepsTheRow ==
  \A k \in Trunks \ disturbed :
    trunk[k].prev.kind = "whole" =>
      trunk[k].prev.name = trunk[k].name /\ trunk[k].prev.conf = trunk[k].conf

(* Of a trunk that was deleted, and nothing done about since, no row is left  *)
(* in the tables, unless it had another name before: those rows stay.        *)
DeletedIsPurged ==
  \A k \in Trunks \ (disturbed \cup renamed \cup {req[t].trunk : t \in Threads}) :
    /\ Realtime
    /\ trunk[k].prev.kind = "whole" /\ ~ trunk[k].active /\ trunk[k].apply = "pending"
    => \A name \in Names : RowsOf(k, name) = {}

(* A trunk is being applied only while a request applies it, unless one was   *)
(* cut off by the end of the process or by tables out of reach.             *)
ApplyingIsAtWork ==
  \A k \in Trunks \ stranded :
    trunk[k].apply = "applying" =>
      \E t \in Threads : req[t].op = "reload" /\ req[t].trunk = k /\ req[t].pc # "applying"

(* What the tables hold is in order: names are unique as far as they are    *)
(* kept so, what is there for a name is one whole configuration but for what *)
(* a deletion cut off, and nothing is left of what was deleted.             *)
TablesAreInOrder == TypeOK /\ NamesAreUnique /\ EndpointsAreWhole /\ DeletedIsPurged

(* What the row says of the application of a trunk is true: applied means   *)
(* that Asterisk works with it, being applied that a request is at it.      *)
StatusIsTrue == AppliedIsServed /\ ApplyingIsAtWork
=============================================================================
