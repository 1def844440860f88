------------------------ MODULE Administration_proofs ------------------------
(***************************************************************************)
(* Theorems about what is administered: the SIP trunks of Trunks, for any    *)
(* number of threads, trunks, names, configurations and requests, in each    *)
(* deployment; and the businesses, members and owners of Workspaces, for any *)
(* number of threads, users, businesses and requests.                       *)
(***************************************************************************)
EXTENDS Administration, FiniteSetTheorems, TLAPS

-----------------------------------------------------------------------------
(* Trunks                                                                   *)
PartNames == {"aor", "endpoint", "auth", "registration", "identify"}

Files == [Trunks -> Entry \cup {NoEntry}]

Snapshots ==
  {s \in [kind : {"none", "columns", "whole"}, name : Names \cup {None},
          conf : Confs \cup {None}, active : BOOLEAN, file : Files] :
     s.kind # "none" => s.name \in Names /\ s.conf \in Confs}

Rows ==
  [business : Businesses \cup {None}, name : Names, conf : Confs, active : BOOLEAN,
   apply : Statuses, prev : Snapshots]

Places ==
  {"idle", "insert", "purge", "save", "applying", "read", "upsert", "render", "write", "ami",
   "active", "failed", "resync", "rewrite", "restore"}

Keys == Trunks \X Names \X PartNames

Requests ==
  [pc : Places, op : {"create", "update", "delete", "reload", "rollback", "none"},
   trunk : Trunks \cup {None}, row : Rows \cup {NoTrunk}, new : Rows \cup {NoTrunk},
   content : Files, at : 0..5, gone : SUBSET Keys]

RowsHold ==
  /\ mode \in Modes
  /\ trunk \in [Trunks -> Rows \cup {NoTrunk}]
  /\ table = [key \in DOMAIN table |-> table[key]]
  /\ DOMAIN table \subseteq Keys
  /\ \A key \in DOMAIN table : table[key] \in Confs
  /\ file \in Files /\ loaded \in Files
  /\ req \in [Threads -> Requests]

-----------------------------------------------------------------------------
(* A request has a row and what it will write of it until it has committed, *)
(* and reads the row again before it writes the tables.                     *)
BeforeCommit == {"purge", "save", "applying", "resync", "rewrite", "restore"}

(* Where a request of each kind can be.                                     *)
IsAtItsPlace(r) ==
  /\ r.pc = "idle" => r.op = "none" /\ r.trunk = None
  /\ r.pc # "idle" =>
       r.trunk \in Trunks /\ (trunk[r.trunk] = NoTrunk <=> r.op = "create")
  /\ r.op = "create" =>
       /\ r.pc = "insert" /\ r.row = NoTrunk /\ r.new \in Rows
       /\ r.new.apply = "pending" /\ r.new.prev.kind = "none"
  /\ r.op = "update" => r.pc = "save"
  /\ r.op = "delete" => r.pc \in {"save"} \cup (IF Realtime THEN {"purge"} ELSE {})
  /\ r.op = "reload" =>
       r.pc \in {"applying", "ami", "active", "failed"}
                  \cup (IF Realtime THEN {"read", "upsert"} ELSE {"render", "write"})
  /\ r.op = "rollback" =>
       r.pc \in {"restore", "ami"}
                  \cup (IF mode = "file" THEN {"rewrite"} ELSE {})
                  \cup (IF mode = "external" THEN {"resync"} ELSE {})
  /\ r.op = "none" => r.pc = "idle"
  /\ r.pc \in BeforeCommit => r.row \in Rows /\ r.new \in Rows
  /\ r.pc = "upsert" => r.row \in Rows

(* A snapshot of a row, as a deletion and an application take one.          *)
IsSnapshotOf(s, row) == s.kind = "whole" /\ s.name = row.name /\ s.conf = row.conf

(* What a request will write of its row, by its kind.                       *)
IsIntended(r) ==
  r.pc \in BeforeCommit =>
    /\ r.op = "update" => r.new.apply = "pending" /\ r.new.prev.kind = "columns"
    /\ r.op = "delete" =>
         /\ r.new.name = r.row.name /\ r.new.conf = r.row.conf
         /\ r.new.apply = "pending" /\ IsSnapshotOf(r.new.prev, r.row)
    /\ r.op = "reload" =>
         /\ r.new.name = r.row.name /\ r.new.conf = r.row.conf
         /\ r.new.apply = "applying" /\ IsSnapshotOf(r.new.prev, r.row)
    /\ r.op = "rollback" =>
         /\ IsSnapshotOf(r.row.prev, r.new)
         /\ r.new.apply = "rolled_back" /\ r.new.prev = r.row.prev

(* The tables have what the row of a trunk says.                            *)
Served(k) ==
  \A part \in Parts(trunk[k].conf) :
    /\ <<k, trunk[k].name, part>> \in DOMAIN table
    /\ table[<<k, trunk[k].name, part>>] = trunk[k].conf

(* What a deletion has gone through is not there, or it has deleted it.      *)
HasPassed(r) ==
  \A i \in 1..r.at :
    <<r.trunk, r.row.name, PurgeOrder[i]>> \in DOMAIN table
      => <<r.trunk, r.row.name, PurgeOrder[i]>> \in r.gone

(* What a request knows of a trunk that is not disturbed: the row as it is; *)
(* and of what it has written of it.                                        *)
Knows(r) ==
  r.pc # "idle" /\ r.trunk \notin disturbed =>
    /\ r.pc \in BeforeCommit \cup {"upsert"} => r.row = trunk[r.trunk]
    /\ r.op = "reload" /\ r.pc # "applying" => trunk[r.trunk].apply = "applying"
    /\ Realtime /\ r.op = "reload" /\ r.pc \in {"ami", "active"} => Served(r.trunk)
    /\ mode = "external" /\ r.op = "delete" /\ r.pc = "save" =>
         RowsOf(r.trunk, trunk[r.trunk].name) = {}
    /\ Realtime /\ r.op = "delete" => HasPassed(r)

(* Where all trunks are in one file: what a request makes of the file is     *)
(* right for its own trunk and for those that are applied.                  *)
KnowsFile(r, k) ==
  ~ Realtime =>
    /\ r.op # "rollback"
    /\ trunk[k].apply = "active" \/ r.trunk = k =>
         /\ r.pc = "write" => r.content[k] = Rendered[k]
         /\ r.pc = "ami" => file[k] = Rendered[k]
    /\ r.pc = "active" /\ r.trunk = k => loaded[k] = Rendered[k]

RequestsHold ==
  /\ \A t \in Threads : IsAtItsPlace(req[t]) /\ IsIntended(req[t]) /\ Knows(req[t])
  /\ \A t \in Threads : \A k \in Trunks \ disturbed : KnowsFile(req[t], k)

IsBusy(r) == r.pc # "idle" /\ r.op # "create"

(* A trunk that is not disturbed has one request at most, and the file has;  *)
(* one that is not yet there has the one that creates it.                   *)
RequestsAreAlone ==
  /\ \A k \in Trunks \ disturbed : \A t, u \in Threads :
       t # u /\ IsBusy(req[t]) /\ IsBusy(req[u]) =>
         Realtime /\ ~ (req[t].trunk = k /\ req[u].trunk = k)
  /\ \A t, u \in Threads :
       t # u /\ req[t].op = "create" /\ req[u].pc # "idle" => req[u].trunk # req[t].trunk

-----------------------------------------------------------------------------
IsDeleted(row) == row.prev.kind = "whole" /\ ~ row.active /\ row.apply = "pending"

IsRestored(k) ==
  mode = "external" /\ \E t \in Threads : req[t].pc = "restore" /\ req[t].trunk = k

IsPurged(k) ==
  /\ mode = "external"
  /\ \E t \in Threads : req[t].op = "delete" /\ req[t].pc = "save" /\ req[t].trunk = k

(* What holds of a trunk that is not disturbed: its rows in the tables have  *)
(* its name, unless it had others; they are gone when it is deleted, and    *)
(* there when it is applied.                                                *)
RowsAreNamed(k) ==
  Realtime /\ k \notin renamed =>
    \A key \in DOMAIN table : key[1] = k => trunk[k] # NoTrunk /\ key[2] = trunk[k].name

RowsAreGone(k) ==
  Realtime /\ k \notin renamed /\ IsDeleted(trunk[k]) =>
    IsRestored(k) \/ RowsOf(k, trunk[k].name) = {}

IsServed(k) ==
  trunk[k].apply = "active" =>
    IF Realtime THEN Served(k) \/ IsPurged(k) ELSE loaded[k] = Rendered[k]

KeepsItsRow(k) == trunk[k].prev.kind = "whole" => IsSnapshotOf(trunk[k].prev, trunk[k])

TrunkHolds(k) == RowsAreNamed(k) /\ RowsAreGone(k) /\ IsServed(k) /\ KeepsItsRow(k)

TrunksHold == \A k \in Trunks \ disturbed : TrunkHolds(k)

CoreHolds ==
  RowsHold /\ RequestsHold /\ RequestsAreAlone /\ TrunksHold /\ ApplyingIsAtWork

-----------------------------------------------------------------------------
(* Names: a request keeps the business of the row it read, and a global      *)
(* trunk's name that it is to commit is given to no other, or clashes.      *)
IsNaming(r) ==
  /\ r.pc \in BeforeCommit \cup {"insert"}
  /\ r.new.business = None /\ r.new.name # r.row.name

KeepsBusiness(r) ==
  r.pc \in BeforeCommit =>
    r.row.business = trunk[r.trunk].business /\ r.new.business = r.row.business

IsFree(name, k) ==
  \/ name = Blank \/ k \in clashed
  \/ \A i \in Trunks \ {k} :
       /\ trunk[i] # NoTrunk /\ trunk[i].business = None /\ trunk[i].name = name
       => i \in clashed

Differ(r, s) ==
  r.trunk # s.trunk /\ r.new.name = s.new.name =>
    r.new.name = Blank \/ r.trunk \in clashed \/ s.trunk \in clashed

NamesHold ==
  /\ NamesAreUnique
  /\ \A t \in Threads : KeepsBusiness(req[t])
  /\ \A t \in Threads : IsNaming(req[t]) => IsFree(req[t].new.name, req[t].trunk)
  /\ \A t, u \in Threads : IsNaming(req[t]) /\ IsNaming(req[u]) => Differ(req[t], req[u])

-----------------------------------------------------------------------------
(* Deletions: the rows deleted and not committed are of parts gone through;  *)
(* no other has deleted them, and they are there.  A row of such a part that *)
(* is still there was written after, so that it comes before all deleted,   *)
(* and is there only of a trunk and name that are torn.                     *)
IsPurging(r) ==
  /\ r.op # "delete" => r.at = 0
  /\ r.op = "delete" /\ r.pc = "save" /\ Realtime => r.at = 5
  /\ r.gone \subseteq {<<r.trunk, r.row.name, PurgeOrder[i]>> : i \in 1..r.at}
  /\ r.gone # {} => r.pc = "purge" \/ (r.pc = "save" /\ mode = "shared")
  /\ 0 < r.at /\ r.at < 5 => r.pc = "purge"
  /\ r.pc = "purge" /\ mode = "shared" => r.at < 5

DeletesFirst(r) ==
  \A i, j \in 1..5 :
    /\ i \leq r.at /\ <<r.trunk, r.row.name, PurgeOrder[i]>> \in DOMAIN table \ r.gone
    /\ <<r.trunk, r.row.name, PurgeOrder[j]>> \in r.gone
    => i < j

IsUntorn(r) ==
  <<r.trunk, r.row.name>> \notin torn /\ (r.at < 5 \/ r.gone # {}) => HasPassed(r)

PurgesHold ==
  /\ EndpointsAreWhole
  /\ \A t \in Threads :
       /\ IsPurging(req[t]) /\ DeletesFirst(req[t]) /\ IsUntorn(req[t])
       /\ req[t].gone \subseteq DOMAIN table
  /\ \A t, u \in Threads : t # u => req[t].gone \cap req[u].gone = {}

IInv == CoreHolds /\ NamesHold /\ PurgesHold

-----------------------------------------------------------------------------
(* Rows and what is made of them.                                           *)
LEMMA NoTrunkIsNoRow ==
  /\ NoTrunk \notin Rows
  /\ NoTrunk.name = None /\ NoTrunk.business = None /\ NoTrunk.active = FALSE /\ NoTrunk.apply = "none"
  /\ NoTrunk.prev.kind = "none"
<1>1. NoTrunk.apply = "none"
  BY DEF NoTrunk
<1>2. NoTrunk \notin Rows
  BY <1>1 DEF Rows, Statuses
<1>3. QED
  BY <1>2 DEF NoTrunk, NoSnapshot

LEMMA EmptyIsTyped ==
  /\ EmptyFile \in Files /\ NoSnapshot \in Snapshots
  /\ Idle \in Requests /\ Idle.pc = "idle" /\ Idle.op = "none" /\ Idle.trunk = None
  /\ Idle.row = NoTrunk /\ Idle.new = NoTrunk /\ Idle.at = 0 /\ Idle.gone = {}
<1>1. EmptyFile \in Files
  BY DEF EmptyFile, Files
<1>2. NoSnapshot \in Snapshots
  BY <1>1 DEF NoSnapshot, Snapshots
<1>3. QED
  BY <1>1, <1>2 DEF Idle, Requests, Places

LEMMA RenderedIsFile ==
  ASSUME RowsHold
  PROVE  Rendered \in Files
<1>1. \A k \in Trunks : trunk[k].active =>
        [name |-> trunk[k].name, conf |-> trunk[k].conf] \in Entry
  BY NoTrunkIsNoRow DEF RowsHold, Rows, Entry
<1>2. QED
  BY <1>1 DEF Rendered, Files

LEMMA SnapshotIs ==
  ASSUME NEW kind \in {"columns", "whole"}, NEW row \in Rows, NEW content \in Files
  PROVE  /\ Snapshot(kind, row, content) \in Snapshots
         /\ Snapshot(kind, row, content).kind = kind
         /\ kind = "whole" => IsSnapshotOf(Snapshot(kind, row, content), row)
  BY DEF Snapshot, Snapshots, Rows, IsSnapshotOf

LEMMA OrderIs ==
  /\ PurgeOrder \in [1..5 -> PartNames] /\ Len(PurgeOrder) = 5 /\ DOMAIN PurgeOrder = 1..5
  /\ \A part \in PartNames : \E i \in 1..5 : PurgeOrder[i] = part
  /\ \A i, j \in 1..5 : PurgeOrder[i] = PurgeOrder[j] => i = j
<1>1. /\ PurgeOrder[1] = "registration" /\ PurgeOrder[2] = "auth" /\ PurgeOrder[3] = "identify"
      /\ PurgeOrder[4] = "endpoint" /\ PurgeOrder[5] = "aor"
      /\ Len(PurgeOrder) = 5 /\ PurgeOrder \in Seq(PartNames)
  BY DEF PurgeOrder, PartNames
<1>2. DOMAIN PurgeOrder = 1..5
  BY <1>1
<1>3. \A i \in 1..5 : i = 1 \/ i = 2 \/ i = 3 \/ i = 4 \/ i = 5
  OBVIOUS
<1>4. QED
  BY <1>1, <1>2, <1>3 DEF PartNames

LEMMA PartsAre ==
  ASSUME NEW conf
  PROVE  Parts(conf) \subseteq PartNames /\ "aor" \in Parts(conf)
  BY DEF Parts, PartNames

(* What a commit makes of a row: each column is the one read or the one set. *)
LEMMA WrittenIsRow ==
  ASSUME NEW now \in Rows, NEW old \in Rows, NEW new \in Rows
  PROVE  /\ Written(now, old, new) \in Rows
         /\ now = old => Written(now, old, new) = new
         /\ Written(now, old, new).apply =
              IF new.apply # old.apply THEN new.apply ELSE now.apply
         /\ Written(now, old, new).name =
              IF new.name # old.name THEN new.name ELSE now.name
         /\ Written(now, old, new).business =
              IF new.business # old.business THEN new.business ELSE now.business
<1> DEFINE w == Written(now, old, new)
<1>1. /\ DOMAIN now = {"business", "name", "conf", "active", "apply", "prev"}
      /\ DOMAIN new = {"business", "name", "conf", "active", "apply", "prev"}
  BY DEF Rows
<1>2. /\ w.name = (IF new.name # old.name THEN new.name ELSE now.name)
      /\ w.conf = (IF new.conf # old.conf THEN new.conf ELSE now.conf)
      /\ w.active = (IF new.active # old.active THEN new.active ELSE now.active)
      /\ w.apply = (IF new.apply # old.apply THEN new.apply ELSE now.apply)
      /\ w.prev = (IF new.prev # old.prev THEN new.prev ELSE now.prev)
      /\ w.business = (IF new.business # old.business THEN new.business ELSE now.business)
  BY <1>1 DEF Written
<1>3. w = [business |-> w.business, name |-> w.name, conf |-> w.conf, active |-> w.active, apply |-> w.apply,
           prev |-> w.prev]
  BY <1>1 DEF Written
<1>4. w \in Rows
  BY <1>2, <1>3 DEF Rows
<1>5. now = old => w = new
  BY <1>2, <1>3 DEF Rows
<1>6. QED
  BY <1>2, <1>4, <1>5

(* The commit of a row: no other changes.                                   *)
LEMMA SaveEffect ==
  ASSUME RowsHold, NEW k \in Trunks, trunk[k] \in Rows,
         NEW old \in Rows, NEW new \in Rows, SaveRow(k, old, new)
  PROVE  /\ trunk' \in [Trunks -> Rows \cup {NoTrunk}] /\ trunk'[k] \in Rows
         /\ \A j \in Trunks \ {k} : trunk'[j] = trunk[j]
         /\ renamed \subseteq renamed'
         /\ k \notin renamed' => trunk'[k].name = trunk[k].name
         /\ trunk[k] = old => trunk'[k] = new
         /\ trunk'[k].apply = IF new.apply # old.apply THEN new.apply ELSE trunk[k].apply
<1> DEFINE row == Written(trunk[k], old, new)
<1>1. /\ row \in Rows
      /\ trunk[k] = old => row = new
      /\ row.apply = IF new.apply # old.apply THEN new.apply ELSE trunk[k].apply
  BY WrittenIsRow
<1>2. /\ trunk' = [trunk EXCEPT ![k] = row]
      /\ renamed' = IF row.name # trunk[k].name THEN renamed \cup {k} ELSE renamed
  BY DEF SaveRow
<1> HIDE DEF row
<1>3. /\ trunk' \in [Trunks -> Rows \cup {NoTrunk}] /\ trunk'[k] = row
      /\ \A j \in Trunks \ {k} : trunk'[j] = trunk[j]
  <2>1. trunk \in [Trunks -> Rows \cup {NoTrunk}]
    BY DEF RowsHold
  <2>2. QED
    BY <1>1, <1>2, <2>1
<1>4. /\ renamed \subseteq renamed'
      /\ k \notin renamed' => trunk'[k].name = trunk[k].name
  BY <1>2, <1>3
<1>5. QED
  BY <1>1, <1>3, <1>4

-----------------------------------------------------------------------------
(* The tables: what is written for a trunk under a name leaves the rest as   *)
(* it is, and is whole or nothing.                                          *)
IsOf(key, k, name) == key[1] = k /\ key[2] = name

TablesHold ==
  /\ table = [key \in DOMAIN table |-> table[key]]
  /\ DOMAIN table \subseteq Keys
  /\ \A key \in DOMAIN table : table[key] \in Confs

OnlyOf(k, name) ==
  \A key : ~ IsOf(key, k, name) =>
    /\ key \in DOMAIN table' <=> key \in DOMAIN table
    /\ key \in DOMAIN table => table'[key] = table[key]

LEMMA UpsertEffect ==
  ASSUME TablesHold, NEW k \in Trunks, NEW row \in Rows, table' = Upsert(k, row)
  PROVE  /\ TablesHold' /\ OnlyOf(k, row.name)
         /\ \A key : IsOf(key, k, row.name) =>
              (key \in DOMAIN table' <=> \E part \in Parts(row.conf) : key = <<k, row.name, part>>)
         /\ \A part \in Parts(row.conf) :
              /\ <<k, row.name, part>> \in DOMAIN table'
              /\ table'[<<k, row.name, part>>] = row.conf
<1> DEFINE mine == {<<k, row.name, part>> : part \in Parts(row.conf)}
           old == RowsOf(k, row.name)
<1>1. row.name \in Names /\ row.conf \in Confs /\ Parts(row.conf) \subseteq PartNames
  BY PartsAre DEF Rows
<1>2. /\ mine \subseteq Keys
      /\ \A key \in mine : IsOf(key, k, row.name)
  BY <1>1 DEF Keys, IsOf
<1>3. \A key \in DOMAIN table : key \in old <=> IsOf(key, k, row.name)
  BY DEF RowsOf, IsOf
<1>4. table' = [key \in (DOMAIN table \ old) \cup mine |->
                  IF key \in mine THEN row.conf ELSE table[key]]
  BY DEF Upsert
<1>5. /\ \A part \in Parts(row.conf) : <<k, row.name, part>> \in mine
      /\ \A key : key \in mine <=> \E part \in Parts(row.conf) : key = <<k, row.name, part>>
  OBVIOUS
<1> HIDE DEF mine, old
<1>6. TablesHold'
  BY <1>1, <1>2, <1>4 DEF TablesHold
<1>7. OnlyOf(k, row.name)
  BY <1>2, <1>3, <1>4 DEF OnlyOf
<1>8. \A key : IsOf(key, k, row.name) => (key \in DOMAIN table' <=> key \in mine)
  BY <1>2, <1>3, <1>4
<1>9. \A key \in mine : table'[key] = row.conf
  BY <1>4
<1>10. QED
  BY <1>4, <1>5, <1>6, <1>7, <1>8, <1>9

LEMMA PurgeEffect ==
  ASSUME TablesHold, NEW k \in Trunks, NEW name, NEW r, table' = Purged(r),
         \A key \in r.gone : IsOf(key, k, name)
  PROVE  /\ TablesHold' /\ OnlyOf(k, name)
         /\ DOMAIN table' = DOMAIN table \ r.gone
         /\ \A key \in DOMAIN table' : table'[key] = table[key]
<1>1. table' = [key \in DOMAIN table \ r.gone |-> table[key]]
  BY DEF Purged
<1>2. QED
  BY <1>1 DEF TablesHold, OnlyOf

-----------------------------------------------------------------------------
(* A step for trunk j: it changes the row and the table's rows of j alone,   *)
(* and one request, t, which is now s.                                      *)
IsOnlyFor(j) ==
  /\ mode' = mode
  /\ \A i \in Trunks \ {j} : trunk'[i] = trunk[i]
  /\ \A key : key[1] # j =>
       /\ key \in DOMAIN table' <=> key \in DOMAIN table
       /\ key \in DOMAIN table => table'[key] = table[key]
  /\ disturbed \subseteq disturbed' /\ renamed \subseteq renamed' /\ stranded \subseteq stranded'

IsForTrunk(j) == IsOnlyFor(j) /\ trunk[j] # NoTrunk /\ trunk'[j] # NoTrunk

IsTurn(t, j, s) ==
  /\ req' = [req EXCEPT ![t] = s]
  /\ req[t].pc = "idle" \/ req[t].trunk = j
  /\ s.pc = "idle" \/ s.trunk = j
  /\ req[t].op # "create" /\ s.op # "create"

IsAlone(t, j) ==
  \A i \in Trunks \ disturbed' : \A u \in Threads \ {t} :
    IsBusy(req[u]) => Realtime /\ ~ (i = j /\ req[u].trunk = i)

RequestHolds(s) ==
  /\ IsAtItsPlace(s) /\ IsIntended(s) /\ Knows(s)
  /\ \A i \in Trunks \ disturbed : KnowsFile(s, i)

FileServes == ~ Realtime => \A i \in Trunks \ disturbed : IsServed(i)

AtWork(k) ==
  k \notin stranded /\ trunk[k].apply = "applying" =>
    \E t \in Threads : req[t].op = "reload" /\ req[t].trunk = k /\ req[t].pc # "applying"

(* What is said of another trunk stays true.                                *)
LEMMA OtherTrunk ==
  ASSUME NEW j \in Trunks, IsOnlyFor(j), NEW i \in Trunks, i # j
  PROVE  /\ trunk'[i] = trunk[i]
         /\ \A key : key[1] = i => (key \in DOMAIN table' <=> key \in DOMAIN table)
         /\ Served(i) => Served(i)'
         /\ \A name : RowsOf(i, name)' = RowsOf(i, name)
         /\ RowsAreNamed(i) => RowsAreNamed(i)'
         /\ KeepsItsRow(i) => KeepsItsRow(i)'
         /\ Rendered'[i] = Rendered[i]
<1>1. /\ trunk'[i] = trunk[i] /\ mode' = mode /\ renamed \subseteq renamed'
      /\ \A key : key[1] = i =>
           /\ key \in DOMAIN table' <=> key \in DOMAIN table
           /\ key \in DOMAIN table => table'[key] = table[key]
  BY DEF IsOnlyFor
<1>2. Served(i) => Served(i)'
  <2> SUFFICES ASSUME Served(i), NEW part \in Parts(trunk[i].conf)
               PROVE  /\ <<i, trunk[i].name, part>> \in DOMAIN table'
                      /\ table'[<<i, trunk[i].name, part>>] = trunk[i].conf
    BY <1>1 DEF Served, Parts
  <2>1. /\ <<i, trunk[i].name, part>> \in DOMAIN table
        /\ table[<<i, trunk[i].name, part>>] = trunk[i].conf
    BY DEF Served
  <2> DEFINE key == <<i, trunk[i].name, part>>
  <2>2. key[1] = i
    OBVIOUS
  <2>3. QED
    BY <1>1, <2>1, <2>2
<1>3. \A name : RowsOf(i, name)' = RowsOf(i, name)
  BY <1>1 DEF RowsOf
<1>4. RowsAreNamed(i) => RowsAreNamed(i)'
  BY <1>1 DEF RowsAreNamed, Realtime
<1>5. KeepsItsRow(i) => KeepsItsRow(i)'
  BY <1>1 DEF KeepsItsRow, IsSnapshotOf
<1>6. Rendered'[i] = Rendered[i]
  BY <1>1 DEF Rendered
<1>7. QED
  BY <1>1, <1>2, <1>3, <1>4, <1>5, <1>6

(* A request that does nothing disturbs nobody, and knows all of nothing.    *)
LEMMA IdleHolds == RequestHolds(Idle) /\ RequestHolds(Idle)'
<1>1. Idle.pc = "idle" /\ Idle.op = "none" /\ Idle.trunk = None
  BY EmptyIsTyped
<1>2. /\ IsAtItsPlace(Idle) /\ IsAtItsPlace(Idle)'
      /\ IsIntended(Idle) /\ Knows(Idle) /\ Knows(Idle)'
  BY <1>1 DEF IsAtItsPlace, IsIntended, Knows, BeforeCommit
<1>3. QED
  BY <1>1, <1>2 DEF RequestHolds, KnowsFile

(* A step for a trunk preserves the invariant if it does for that trunk and  *)
(* the request that takes it.                                               *)
LEMMA StepOfRequest ==
  ASSUME IInv, NEW t \in Threads, NEW j \in Trunks, NEW s \in Requests,
         IsForTrunk(j), IsTurn(t, j, s), IsAlone(t, j),
         trunk' \in [Trunks -> Rows \cup {NoTrunk}], TablesHold', file' \in Files, loaded' \in Files,
         RequestHolds(s)', FileServes', j \notin disturbed' => TrunkHolds(j)', AtWork(j)'
  PROVE  CoreHolds'
<1>1. /\ req \in [Threads -> Requests] /\ mode \in Modes
      /\ \A u \in Threads : RequestHolds(req[u])
      /\ RequestsAreAlone
      /\ \A i \in Trunks \ disturbed : TrunkHolds(i)
      /\ \A k \in Trunks : AtWork(k)
  <2>1. \A k \in Trunks : AtWork(k)
    BY DEF IInv, CoreHolds, ApplyingIsAtWork, AtWork
  <2>2. QED
    BY <2>1 DEF IInv, CoreHolds, RowsHold, RequestsHold, RequestHolds, TrunksHold
<1>2. /\ \A u \in Threads \ {t} : req'[u] = req[u]
      /\ req'[t] = s /\ req' \in [Threads -> Requests]
  BY <1>1 DEF IsTurn
<1>3. /\ mode' = mode /\ (Realtime)' = Realtime
      /\ disturbed \subseteq disturbed' /\ stranded \subseteq stranded'
      /\ \A i \in Trunks : trunk[i] = NoTrunk <=> trunk'[i] = NoTrunk
      /\ IsOnlyFor(j) /\ trunk[j] # NoTrunk
  BY DEF IsForTrunk, IsOnlyFor, Realtime
<1>4. RowsHold'
  BY <1>1, <1>2, <1>3 DEF RowsHold, TablesHold, Keys
<1>5. RequestsHold'
  <2>1. ASSUME NEW u \in Threads \ {t}
        PROVE  RequestHolds(req[u])'
    <3> DEFINE i == req[u].trunk
    <3>0. RequestHolds(req[u])
      BY <1>1
    <3>1. CASE req[u].pc = "idle"
      <4>1. req[u].op = "none" /\ req[u].trunk = None
        BY <3>0, <3>1 DEF RequestHolds, IsAtItsPlace
      <4>2. IsAtItsPlace(req[u])' /\ IsIntended(req[u])' /\ Knows(req[u])'
        BY <3>1, <4>1, <1>2 DEF IsAtItsPlace, IsIntended, Knows, BeforeCommit
      <4>3. QED
        BY <3>1, <4>1, <4>2, <1>2 DEF RequestHolds, KnowsFile
    <3>2. CASE req[u].op = "create"
      <4>1. req[u].pc = "insert" /\ IsAtItsPlace(req[u])
        BY <3>0, <3>2 DEF RequestHolds, IsAtItsPlace
      <4>2. IsAtItsPlace(req[u])'
        BY <3>2, <4>1, <1>2, <1>3 DEF IsAtItsPlace, BeforeCommit
      <4>3. QED
        BY <3>2, <4>1, <4>2, <1>2
        DEF RequestHolds, IsIntended, Knows, KnowsFile, BeforeCommit
    <3>3. CASE IsBusy(req[u])
      <4> DEFINE r == req[u]
      <4>0. r.pc # "idle" /\ r.op # "create"
        BY <3>3 DEF IsBusy
      <4>1. r' = r
        BY <1>2
      <4>2. IsAtItsPlace(r) /\ IsIntended(r) /\ Knows(r)
        BY <3>0 DEF RequestHolds
      <4>3. i \in Trunks
        BY <4>0, <4>2 DEF IsAtItsPlace
      <4>4. IsAtItsPlace(r)'
        BY <4>1, <4>2, <1>3 DEF IsAtItsPlace, Realtime
      <4>5. IsIntended(r)'
        BY <4>1, <4>2 DEF IsIntended, IsSnapshotOf
      <4>6. Knows(r)'
        <5>1. CASE i \in disturbed'
          BY <5>1, <4>1 DEF Knows
        <5>2. CASE i \notin disturbed'
          <6>1. PICK k : k = r.trunk
            OBVIOUS
          <6>2. k \in Trunks /\ k # j /\ k \notin disturbed /\ r'.trunk = k
            BY <5>2, <6>1, <4>1, <4>3, <3>3, <1>3 DEF IsAlone
          <6>3. /\ trunk'[k] = trunk[k]
                /\ Served(k) => Served(k)'
                /\ \A name : RowsOf(k, name)' = RowsOf(k, name)
                /\ \A key : key[1] = k => (key \in DOMAIN table' <=> key \in DOMAIN table)
            BY <6>2, <1>3, OtherTrunk
          <6>4. Served(r.trunk) => Served(r.trunk)'
            BY <6>1, <6>2, <6>3 DEF Served, Parts
          <6>5. RowsOf(r.trunk, trunk[r.trunk].name) = RowsOf(r.trunk, trunk[r.trunk].name)'
            BY <6>1, <6>2, <6>3 DEF RowsOf
          <6>6. HasPassed(r) => HasPassed(r)'
            BY <6>1, <6>2, <6>3, <4>1 DEF HasPassed
          <6>7. QED
            BY <6>1, <6>2, <6>3, <6>4, <6>5, <6>6, <4>0, <4>1, <4>2, <1>3 DEF Knows
        <5>3. QED
          BY <5>1, <5>2
      <4>7. ASSUME NEW k \in Trunks \ disturbed'
            PROVE  KnowsFile(r, k)'
        <5>1. Realtime
          BY <3>3 DEF IsAlone
        <5>2. QED
          BY <5>1, <1>3 DEF KnowsFile
      <4>8. QED
        BY <4>4, <4>5, <4>6, <4>7 DEF RequestHolds
    <3>4. QED
      BY <3>1, <3>2, <3>3 DEF IsBusy
  <2>2. \A u \in Threads : RequestHolds(req[u])'
    <3>1. RequestHolds(req[t])'
      BY <1>2 DEF RequestHolds, IsAtItsPlace, IsIntended, Knows, KnowsFile, IsSnapshotOf, HasPassed
    <3>2. QED
      BY <2>1, <3>1
  <2>3. QED
    BY <2>2 DEF RequestsHold, RequestHolds
<1>6. RequestsAreAlone'
  <2>1. ASSUME NEW i \in Trunks \ disturbed', NEW u \in Threads, NEW v \in Threads,
               u # v, IsBusy(req'[u]), IsBusy(req'[v])
        PROVE  Realtime /\ ~ (req'[u].trunk = i /\ req'[v].trunk = i)
    <3>0. i \in Trunks \ disturbed
      BY <1>3
    <3>1. CASE u = t
      BY <2>1, <3>1, <1>2 DEF IsAlone, IsTurn, IsBusy
    <3>2. CASE v = t
      BY <2>1, <3>2, <1>2 DEF IsAlone, IsTurn, IsBusy
    <3>3. CASE u # t /\ v # t
      BY <2>1, <3>0, <3>3, <1>1, <1>2 DEF RequestsAreAlone
    <3>4. QED
      BY <3>1, <3>2, <3>3
  <2>2. ASSUME NEW u \in Threads, NEW v \in Threads, u # v,
               req'[u].op = "create", req'[v].pc # "idle"
        PROVE  req'[v].trunk # req'[u].trunk
    <3>1. u # t /\ req'[u] = req[u]
      BY <2>2, <1>2 DEF IsTurn
    <3>2. trunk[req[u].trunk] = NoTrunk
      <4>1. IsAtItsPlace(req[u])
        BY <1>1 DEF RequestHolds
      <4>2. QED
        BY <2>2, <3>1, <4>1 DEF IsAtItsPlace
    <3>3. CASE v = t
      BY <2>2, <3>1, <3>2, <3>3, <1>2, <1>3 DEF IsTurn
    <3>4. CASE v # t
      BY <2>2, <3>1, <3>4, <1>1, <1>2 DEF RequestsAreAlone
    <3>5. QED
      BY <3>3, <3>4
  <2>3. QED
    BY <2>1, <2>2, <1>3 DEF RequestsAreAlone, IsBusy
<1>7. TrunksHold'
  <2> SUFFICES ASSUME NEW i \in Trunks, i \notin disturbed', i # j
               PROVE  TrunkHolds(i)'
    BY DEF TrunksHold
  <2>1. /\ RowsAreNamed(i) /\ RowsAreGone(i) /\ IsServed(i) /\ KeepsItsRow(i)
    BY <1>1, <1>3 DEF TrunkHolds
  <2>2. /\ trunk'[i] = trunk[i] 
        /\ Served(i) => Served(i)'
        /\ \A name : RowsOf(i, name)' = RowsOf(i, name)
        /\ RowsAreNamed(i)' /\ KeepsItsRow(i)'
    BY <2>1, <1>3, OtherTrunk
  <2>3. ASSUME NEW u \in Threads, req[u].trunk = i, req[u].pc # "idle"
        PROVE  req'[u] = req[u]
    BY <2>3, <1>2 DEF IsTurn
  <2>4. IsRestored(i) => IsRestored(i)'
    BY <2>3, <1>3 DEF IsRestored
  <2>5. IsPurged(i) => IsPurged(i)'
    BY <2>3, <1>3 DEF IsPurged
  <2>6. RowsAreGone(i)'
    BY <2>1, <2>2, <2>4, <1>3 DEF RowsAreGone, IsDeleted, IsOnlyFor
  <2>7. IsServed(i)'
    <3>1. CASE Realtime
      BY <3>1, <2>1, <2>2, <2>5, <1>3 DEF IsServed
    <3>2. CASE ~ Realtime
      BY <3>2, <1>3 DEF FileServes
    <3>3. QED
      BY <3>1, <3>2
  <2>8. QED
    BY <2>2, <2>6, <2>7 DEF TrunkHolds
<1>8. ApplyingIsAtWork'
  <2> SUFFICES ASSUME NEW i \in Trunks \ stranded', i # j, trunk'[i].apply = "applying"
               PROVE  \E u \in Threads : req'[u].op = "reload" /\ req'[u].trunk = i
                                           /\ req'[u].pc # "applying"
    BY DEF ApplyingIsAtWork, AtWork
  <2>1. PICK u \in Threads : req[u].op = "reload" /\ req[u].trunk = i /\ req[u].pc # "applying"
    <3>1. trunk[i].apply = "applying" /\ i \notin stranded
      BY <1>3 DEF IsOnlyFor
    <3>2. QED
      BY <3>1, <1>1 DEF AtWork
  <2>2. req[u].pc # "idle"
    <3>1. IsAtItsPlace(req[u])
      BY <1>1 DEF RequestHolds
    <3>2. QED
      BY <2>1, <3>1 DEF IsAtItsPlace
  <2>3. req'[u] = req[u]
    BY <2>1, <2>2, <1>2 DEF IsTurn
  <2>4. QED
    BY <2>1, <2>3
<1>9. QED
  BY <1>4, <1>5, <1>6, <1>7, <1>8 DEF CoreHolds

-----------------------------------------------------------------------------
(* What the invariant says of a request that is under way.                  *)
LEMMA AtRequest ==
  ASSUME IInv, NEW t \in Threads, NEW r, r = req[t], r.pc \notin {"idle", "insert"},
         NEW j, j = r.trunk
  PROVE  /\ r \in Requests /\ RequestHolds(r)
         /\ IsAtItsPlace(r) /\ IsIntended(r) /\ Knows(r)
         /\ j \in Trunks /\ trunk \in [Trunks -> Rows \cup {NoTrunk}] /\ trunk[j] \in Rows
         /\ file \in Files /\ loaded \in Files /\ mode \in Modes
         /\ TablesHold /\ r.op # "create" /\ IsPurging(r)
         /\ \A key \in r.gone : IsOf(key, j, r.row.name)
         /\ j \notin disturbed => TrunkHolds(j)
         /\ disturbed \subseteq disturbed' => IsAlone(t, j)
<1>1. RowsHold /\ RequestsHold /\ RequestsAreAlone /\ TrunksHold /\ PurgesHold
  BY DEF IInv, CoreHolds
<1>2. r \in Requests /\ RequestHolds(r) /\ IsAtItsPlace(r) /\ IsIntended(r) /\ Knows(r)
  BY <1>1 DEF RowsHold, RequestsHold, RequestHolds
<1>3. /\ TablesHold /\ file \in Files /\ loaded \in Files /\ mode \in Modes
      /\ trunk \in [Trunks -> Rows \cup {NoTrunk}]
  BY <1>1 DEF RowsHold, TablesHold, Keys
<1>4. j \in Trunks /\ trunk[j] # NoTrunk /\ r.op # "create"
  BY <1>2 DEF IsAtItsPlace
<1>5. trunk[j] \in Rows
  BY <1>3, <1>4
<1>6. j \notin disturbed => TrunkHolds(j)
  BY <1>1, <1>4 DEF TrunksHold
<1>7. disturbed \subseteq disturbed' => IsAlone(t, j)
  BY <1>1, <1>4 DEF RequestsAreAlone, IsAlone, IsBusy
<1>8. IsPurging(r) /\ \A key \in r.gone : IsOf(key, j, r.row.name)
  BY <1>1 DEF PurgesHold, IsPurging, IsOf
<1>9. QED
  BY <1>2, <1>3, <1>4, <1>5, <1>6, <1>7, <1>8

(* Asterisk goes on with the file it has read.                              *)
LEMMA FileStays ==
  ASSUME IInv, NEW j \in Trunks, IsForTrunk(j), loaded' = loaded,
         ~ Realtime /\ j \notin disturbed' => IsServed(j)'
  PROVE  FileServes'
<1> SUFFICES ASSUME ~ Realtime, NEW i \in Trunks \ disturbed', i # j
             PROVE  IsServed(i)'
  BY DEF FileServes, IsForTrunk, IsOnlyFor, Realtime
<1>1. mode' = mode /\ i \notin disturbed /\ IsOnlyFor(j)
  BY DEF IsForTrunk, IsOnlyFor
<1>2. IsServed(i)
  BY <1>1 DEF IInv, CoreHolds, TrunksHold, TrunkHolds
<1>3. trunk'[i] = trunk[i] /\ Rendered'[i] = Rendered[i]
  BY <1>1, OtherTrunk
<1>4. QED
  BY <1>1, <1>2, <1>3 DEF IsServed, Realtime

(* A trunk goes on being applied by the request that applies it.            *)
LEMMA AtWorkStays ==
  ASSUME IInv, NEW t \in Threads, NEW j \in Trunks, NEW s, IsTurn(t, j, s),
         stranded \subseteq stranded',
         trunk'[j].apply = "applying" => trunk[j].apply = "applying",
         \/ req[t].op # "reload" \/ req[t].pc = "applying"
         \/ s.op = "reload" /\ s.trunk = j /\ s.pc # "applying"
  PROVE  AtWork(j)'
<1> SUFFICES ASSUME j \notin stranded', trunk'[j].apply = "applying"
             PROVE  \E u \in Threads : req'[u].op = "reload" /\ req'[u].trunk = j
                                         /\ req'[u].pc # "applying"
  BY DEF AtWork
<1>1. PICK u \in Threads : req[u].op = "reload" /\ req[u].trunk = j /\ req[u].pc # "applying"
  BY DEF IInv, CoreHolds, ApplyingIsAtWork
<1>2. req'[t] = s /\ \A v \in Threads \ {t} : req'[v] = req[v]
  BY DEF IInv, CoreHolds, RowsHold, IsTurn
<1>3. CASE u = t
  BY <1>1, <1>2, <1>3
<1>4. CASE u # t
  BY <1>1, <1>2, <1>4
<1>5. QED
  BY <1>3, <1>4

(* A request that does not change the row or the tables.                    *)
LEMMA QuietTrunk ==
  ASSUME IInv, NEW t \in Threads, NEW j \in Trunks, NEW s, IsTurn(t, j, s),
         UNCHANGED <<mode, trunk, table, renamed>>,
         TrunkHolds(j), ~ Realtime => IsServed(j)',
         mode = "external" =>
           req[t].pc # "restore" /\ ~ (req[t].op = "delete" /\ req[t].pc = "save")
  PROVE  TrunkHolds(j)'
<1>1. \A v \in Threads \ {t} : req'[v] = req[v]
  BY DEF IInv, CoreHolds, RowsHold, IsTurn
<1>2. RowsAreNamed(j) /\ RowsAreGone(j) /\ IsServed(j) /\ KeepsItsRow(j)
  BY DEF TrunkHolds
<1>3. IsRestored(j) => IsRestored(j)'
  BY <1>1 DEF IsRestored
<1>4. IsPurged(j) => IsPurged(j)'
  BY <1>1 DEF IsPurged
<1>5. RowsAreNamed(j)' /\ KeepsItsRow(j)'
  BY <1>2 DEF RowsAreNamed, KeepsItsRow, IsSnapshotOf, Realtime
<1>6. RowsAreGone(j)'
  BY <1>2, <1>3 DEF RowsAreGone, RowsOf, IsDeleted, Realtime
<1>7. IsServed(j)'
  <2>1. CASE Realtime
    <3>1. trunk[j].apply = "active" => Served(j) \/ IsPurged(j)
      BY <1>2, <2>1 DEF IsServed
    <3>2. Served(j)' <=> Served(j)
      BY DEF Served, Parts
    <3>3. QED
      BY <3>1, <3>2, <1>4, <2>1 DEF IsServed, Realtime
  <2>2. QED
    BY <2>1
<1>8. QED
  BY <1>5, <1>6, <1>7 DEF TrunkHolds

LEMMA QuietStep ==
  ASSUME IInv, NEW t \in Threads, NEW j \in Trunks, NEW s \in Requests,
         UNCHANGED <<mode, trunk, table, renamed>>,
         disturbed \subseteq disturbed', stranded \subseteq stranded',
         trunk[j] # NoTrunk, IsTurn(t, j, s), IsAlone(t, j), file' \in Files, loaded' \in Files,
         RequestHolds(s)', loaded' = loaded \/ FileServes',
         mode = "external" /\ j \notin disturbed' =>
           req[t].pc # "restore" /\ ~ (req[t].op = "delete" /\ req[t].pc = "save"),
         \/ j \in stranded' \/ req[t].op # "reload" \/ req[t].pc = "applying"
         \/ s.op = "reload" /\ s.trunk = j /\ s.pc # "applying"
  PROVE  CoreHolds'
<1>1. RowsHold /\ TablesHold
  BY DEF IInv, CoreHolds, RowsHold, TablesHold, Keys
<1>2. trunk' \in [Trunks -> Rows \cup {NoTrunk}] /\ TablesHold'
  BY <1>1 DEF RowsHold, TablesHold
<1>4. IsForTrunk(j)
  BY DEF IsForTrunk, IsOnlyFor
<1>5. j \notin disturbed => TrunkHolds(j)
  BY DEF IInv, CoreHolds, TrunksHold
<1>6. FileServes'
  <2>1. ~ Realtime /\ j \notin disturbed' /\ loaded' = loaded => IsServed(j)'
    BY <1>5 DEF TrunkHolds, IsServed, Rendered, Realtime
  <2>2. QED
    BY <1>4, <2>1, FileStays
<1>7. j \notin disturbed' => TrunkHolds(j)'
  <2> SUFFICES ASSUME j \notin disturbed'
               PROVE  TrunkHolds(j)'
    OBVIOUS
  <2>1. ~ Realtime => IsServed(j)'
    BY <1>6 DEF FileServes, Realtime
  <2>2. TrunkHolds(j)
    BY <1>5
  <2>3. QED
    BY <2>1, <2>2, QuietTrunk
<1>8. AtWork(j)'
  <2>1. CASE j \in stranded'
    BY <2>1 DEF AtWork
  <2>2. CASE j \notin stranded'
    BY <2>2, AtWorkStays
  <2>3. QED
    BY <2>1, <2>2
<1>9. QED
  BY <1>2, <1>4, <1>6, <1>7, <1>8, StepOfRequest

LEMMA IdleThread ==
  ASSUME IInv, NEW t \in Threads, req[t].pc = "idle"
  PROVE  req[t].op = "none" /\ req[t].op # "reload" /\ req[t].op # "create"
BY DEF IInv, CoreHolds, RequestsHold, IsAtItsPlace

-----------------------------------------------------------------------------
(* Requests begin: with the row as it is, and alone if their trunk is not    *)
(* disturbed.                                                               *)
LEMMA BeginStep ==
  ASSUME IInv, NEW t \in Threads, NEW k \in Trunks,
         NEW op \in {"update", "delete", "reload", "rollback"}, NEW new \in Rows,
         NEW pc \in BeforeCommit, Begin(t, k, op, new, pc),
         op = "update" => pc = "save",
         op = "delete" => pc = IF Realtime THEN "purge" ELSE "save",
         op = "reload" => pc = "applying",
         op = "rollback" =>
           pc = IF mode = "file" THEN "rewrite"
                ELSE IF mode = "external" THEN "resync" ELSE "restore",
         trunk[k] \in Rows =>
           IsIntended([Idle EXCEPT !.pc = pc, !.op = op, !.trunk = k, !.row = trunk[k],
                                   !.new = new])
  PROVE  CoreHolds'
<1>1. /\ trunk \in [Trunks -> Rows \cup {NoTrunk}] /\ mode \in Modes
      /\ file \in Files /\ loaded \in Files /\ req \in [Threads -> Requests]
  BY DEF IInv, CoreHolds, RowsHold
<1>2. PICK s : s = [Idle EXCEPT !.pc = pc, !.op = op, !.trunk = k, !.row = trunk[k],
                                !.new = new]
  OBVIOUS
<1>3. /\ req[t].pc = "idle" /\ trunk[k] # NoTrunk
      /\ disturbed' = disturbed \cup Disturbs(t, k, op)
      /\ req' = [req EXCEPT ![t] = s]
      /\ UNCHANGED <<mode, trunk, table, file, loaded, renamed, stranded>>
  BY <1>2 DEF Begin, Goto, Idle
<1>4. trunk[k] \in Rows
  BY <1>1, <1>3
<1>5. /\ s \in Requests /\ s.pc = pc /\ s.op = op /\ s.trunk = k /\ s.row = trunk[k]
      /\ s.new = new /\ s.at = 0 /\ s.gone = {}
  BY <1>2, <1>4, EmptyIsTyped DEF Idle, Requests, Places, BeforeCommit
<1>6. IsTurn(t, k, s)
  BY <1>3, <1>5, IdleThread DEF IsTurn
<1>7. IsAlone(t, k)
  <2> SUFFICES ASSUME NEW i \in Trunks \ disturbed', NEW u \in Threads \ {t},
                      IsBusy(req[u])
               PROVE  Realtime /\ ~ (i = k /\ req[u].trunk = i)
    BY DEF IsAlone
  <2>1. i \notin Disturbs(t, k, op)
    BY <1>3
  <2>2. QED
    BY <2>1 DEF Disturbs, IsBusy
<1>8. RequestHolds(s)'
  <2>1. pc # "idle" /\ op # "none"
    BY DEF BeforeCommit
  <2>2. IsAtItsPlace(s)'
    BY <1>3, <1>4, <1>5, <2>1 DEF IsAtItsPlace, BeforeCommit, Realtime, Modes
  <2>3. IsIntended(s)'
    BY <1>2, <1>4 DEF IsIntended, IsSnapshotOf
  <2>4. Knows(s)'
    <3>1. HasPassed(s)'
      BY <1>5 DEF HasPassed
    <3>2. QED
      BY <1>3, <1>5, <3>1 DEF Knows, BeforeCommit, Realtime
  <2>5. ASSUME NEW i \in Trunks \ disturbed'
        PROVE  KnowsFile(s, i)'
    <3>1. ~ Realtime => op # "rollback"
      BY <1>3 DEF Disturbs
    <3>2. QED
      BY <1>3, <1>5, <3>1 DEF KnowsFile, BeforeCommit, Realtime
  <2>6. QED
    BY <2>2, <2>3, <2>4, <2>5 DEF RequestHolds
<1>9. QED
  BY <1>1, <1>3, <1>5, <1>6, <1>7, <1>8, QuietStep,
     IdleThread

LEMMA UpdateStep ==
  ASSUME IInv, NEW t \in Threads, NEW k \in Trunks, UpdateSipTrunk(t, k)
  PROVE  CoreHolds'
<1>1. PICK name \in Names, conf \in Confs, active \in BOOLEAN :
        Begin(t, k, "update",
          [trunk[k] EXCEPT !.name = name, !.conf = conf, !.active = active, !.apply = "pending",
                           !.prev = Snapshot("columns", trunk[k], EmptyFile)], "save")
  BY DEF UpdateSipTrunk
<1>2. PICK new :
        new = [trunk[k] EXCEPT !.name = name, !.conf = conf, !.active = active,
                               !.apply = "pending",
                               !.prev = Snapshot("columns", trunk[k], EmptyFile)]
  OBVIOUS
<1>3. trunk[k] \in Rows
  BY <1>1 DEF Begin, IInv, CoreHolds, RowsHold
<1>4. new \in Rows /\ new.apply = "pending" /\ new.prev.kind = "columns"
  <2>1. /\ Snapshot("columns", trunk[k], EmptyFile) \in Snapshots
        /\ Snapshot("columns", trunk[k], EmptyFile).kind = "columns"
    BY <1>3, SnapshotIs, EmptyIsTyped
  <2>2. QED
    BY <1>2, <1>3, <2>1 DEF Rows, Statuses
<1>5. IsIntended([Idle EXCEPT !.pc = "save", !.op = "update", !.trunk = k,
                              !.row = trunk[k], !.new = new])
  BY <1>4 DEF IsIntended, Idle
<1>6. Begin(t, k, "update", new, "save")
  BY <1>1, <1>2
<1>7. QED
  BY <1>4, <1>5, <1>6, BeginStep DEF BeforeCommit

LEMMA DeleteStep ==
  ASSUME IInv, NEW t \in Threads, NEW k \in Trunks, DeleteSipTrunk(t, k)
  PROVE  CoreHolds'
<1>1. PICK new : new = [trunk[k] EXCEPT !.active = FALSE, !.apply = "pending",
                                        !.prev = Snapshot("whole", trunk[k], file)]
  OBVIOUS
<1>2. PICK pc : pc = IF Realtime THEN "purge" ELSE "save"
  OBVIOUS
<1>3. Begin(t, k, "delete", new, pc)
  BY <1>1, <1>2 DEF DeleteSipTrunk
<1>4. trunk[k] \in Rows /\ file \in Files
  BY <1>3 DEF Begin, IInv, CoreHolds, RowsHold
<1>5. /\ Snapshot("whole", trunk[k], file) \in Snapshots
      /\ IsSnapshotOf(Snapshot("whole", trunk[k], file), trunk[k])
  BY <1>4, SnapshotIs
<1>6. /\ new \in Rows /\ new.name = trunk[k].name /\ new.conf = trunk[k].conf
      /\ new.apply = "pending" /\ new.prev = Snapshot("whole", trunk[k], file)
  BY <1>1, <1>4, <1>5 DEF Rows, Statuses
<1>7. IsIntended([Idle EXCEPT !.pc = pc, !.op = "delete", !.trunk = k,
                              !.row = trunk[k], !.new = new])
  BY <1>5, <1>6 DEF IsIntended, Idle
<1>8. QED
  BY <1>2, <1>3, <1>6, <1>7, BeginStep DEF BeforeCommit

LEMMA ReloadStep ==
  ASSUME IInv, NEW t \in Threads, NEW k \in Trunks, ReloadSipTrunk(t, k)
  PROVE  CoreHolds'
<1>1. PICK new : new = [trunk[k] EXCEPT !.apply = "applying",
                                        !.prev = Snapshot("whole", trunk[k], file)]
  OBVIOUS
<1>3. Begin(t, k, "reload", new, "applying")
  BY <1>1 DEF ReloadSipTrunk
<1>4. trunk[k] \in Rows /\ file \in Files
  BY <1>3 DEF Begin, IInv, CoreHolds, RowsHold
<1>5. /\ Snapshot("whole", trunk[k], file) \in Snapshots
      /\ IsSnapshotOf(Snapshot("whole", trunk[k], file), trunk[k])
  BY <1>4, SnapshotIs
<1>6. /\ new \in Rows /\ new.name = trunk[k].name /\ new.conf = trunk[k].conf
      /\ new.apply = "applying" /\ new.prev = Snapshot("whole", trunk[k], file)
  BY <1>1, <1>4, <1>5 DEF Rows, Statuses
<1>7. IsIntended([Idle EXCEPT !.pc = "applying", !.op = "reload", !.trunk = k,
                              !.row = trunk[k], !.new = new])
  BY <1>5, <1>6 DEF IsIntended, Idle
<1>8. QED
  BY <1>3, <1>6, <1>7, BeginStep DEF BeforeCommit

LEMMA RollbackStep ==
  ASSUME IInv, NEW t \in Threads, NEW k \in Trunks, RollbackSipTrunk(t, k)
  PROVE  CoreHolds'
<1>1. PICK new : new = [trunk[k] EXCEPT !.name = trunk[k].prev.name,
                                        !.conf = trunk[k].prev.conf,
                                        !.active = trunk[k].prev.active,
                                        !.apply = "rolled_back"]
  OBVIOUS
<1>2. PICK pc : pc = IF mode = "file" THEN "rewrite"
                     ELSE IF mode = "external" THEN "resync" ELSE "restore"
  OBVIOUS
<1>3. Begin(t, k, "rollback", new, pc) /\ trunk[k].prev.kind = "whole"
  BY <1>1, <1>2 DEF RollbackSipTrunk
<1>4. trunk[k] \in Rows
  BY <1>3 DEF Begin, IInv, CoreHolds, RowsHold
<1>5. /\ trunk[k].prev.name \in Names /\ trunk[k].prev.conf \in Confs
      /\ trunk[k].prev.active \in BOOLEAN
  BY <1>3, <1>4 DEF Rows, Snapshots
<1>6. /\ new \in Rows /\ new.apply = "rolled_back" /\ new.prev = trunk[k].prev
      /\ new.name = trunk[k].prev.name /\ new.conf = trunk[k].prev.conf
  BY <1>1, <1>4, <1>5 DEF Rows, Statuses
<1>7. IsIntended([Idle EXCEPT !.pc = pc, !.op = "rollback", !.trunk = k,
                              !.row = trunk[k], !.new = new])
  BY <1>3, <1>6 DEF IsIntended, Idle, IsSnapshotOf
<1>8. QED
  BY <1>2, <1>3, <1>6, <1>7, BeginStep DEF BeforeCommit

-----------------------------------------------------------------------------
(* Steps of an application that leave rows and tables as they are.          *)
LEMMA GotoIs ==
  ASSUME NEW r \in Requests, NEW pc \in Places, NEW s, s = [r EXCEPT !.pc = pc]
  PROVE  /\ s \in Requests /\ s.pc = pc /\ s.op = r.op /\ s.trunk = r.trunk
         /\ s.row = r.row /\ s.new = r.new /\ s.content = r.content
         /\ s.at = r.at /\ s.gone = r.gone
BY DEF Requests

LEMMA ExpiredIs ==
  ASSUME NEW r \in Requests
  PROVE  /\ Expired(r) \in Requests /\ Expired(r).op = r.op /\ Expired(r).trunk = r.trunk
         /\ Expired(r).at = 0 /\ Expired(r).gone = {}
BY EmptyIsTyped DEF Expired, Requests, Idle

(* A request to create that begins or ends is no one else's concern.        *)
LEMMA AsideStep ==
  ASSUME IInv, NEW t \in Threads, NEW s \in Requests, req' = [req EXCEPT ![t] = s],
         UNCHANGED <<mode, trunk, table, file, loaded, disturbed, renamed, stranded>>,
         req[t].op \in {"none", "create"}, s.op \in {"none", "create"}, RequestHolds(s)',
         s.op = "create" => \A u \in Threads : req[u].trunk # s.trunk
  PROVE  CoreHolds'
<1>1. RowsHold /\ RequestsHold /\ RequestsAreAlone /\ TrunksHold /\ ApplyingIsAtWork
  BY DEF IInv, CoreHolds
<1>2. /\ req' \in [Threads -> Requests] /\ req'[t] = s
      /\ \A u \in Threads \ {t} : req'[u] = req[u]
      /\ (Realtime)' = Realtime
  BY <1>1 DEF RowsHold, Realtime
<1>3. RowsHold'
  BY <1>1, <1>2 DEF RowsHold
<1>4. RequestsHold'
  <2>1. ASSUME NEW u \in Threads
        PROVE  RequestHolds(req[u])'
    <3>1. CASE u = t
      BY <3>1, <1>2 DEF RequestHolds, IsAtItsPlace, IsIntended, Knows, KnowsFile, IsSnapshotOf,
                        HasPassed
    <3>2. CASE u # t
      <4>1. RequestHolds(req[u])
        BY <1>1 DEF RequestsHold, RequestHolds
      <4>2. req'[u] = req[u]
        BY <1>2, <3>2
      <4>3. QED
        BY <4>1, <4>2, <1>2
        DEF RequestHolds, IsAtItsPlace, IsIntended, Knows, KnowsFile, IsSnapshotOf, HasPassed,
            Served, RowsOf, Parts, Rendered, Realtime
    <3>3. QED
      BY <3>1, <3>2
  <2>2. QED
    BY <2>1 DEF RequestsHold, RequestHolds
<1>5. s.pc # "idle" => s.op = "create"
  BY DEF RequestHolds, IsAtItsPlace
<1>6. RequestsAreAlone'
  <2>1. \A u \in Threads : IsBusy(req'[u]) => u # t
    BY <1>2, <1>5 DEF IsBusy
  <2>2. ASSUME NEW u \in Threads, NEW v \in Threads, u # v,
               req'[u].op = "create", req'[v].pc # "idle"
        PROVE  req'[v].trunk # req'[u].trunk
    <3>1. CASE u = t
      BY <2>2, <3>1, <1>2
    <3>2. CASE v = t
      BY <2>2, <3>2, <1>2, <1>5
    <3>3. CASE u # t /\ v # t
      BY <2>2, <3>3, <1>1, <1>2 DEF RequestsAreAlone
    <3>4. QED
      BY <3>1, <3>2, <3>3
  <2>3. QED
    BY <2>1, <2>2, <1>1, <1>2 DEF RequestsAreAlone, IsBusy
<1>7. TrunksHold'
  <2> SUFFICES ASSUME NEW i \in Trunks, i \notin disturbed
               PROVE  TrunkHolds(i)'
    BY DEF TrunksHold
  <2>1. RowsAreNamed(i) /\ RowsAreGone(i) /\ IsServed(i) /\ KeepsItsRow(i)
    BY <1>1 DEF TrunksHold, TrunkHolds
  <2>2. req[t].pc # "restore" /\ req[t].op # "delete"
    BY <1>1 DEF RequestsHold, IsAtItsPlace
  <2>3. IsRestored(i) => IsRestored(i)'
    BY <2>2, <1>2 DEF IsRestored
  <2>4. IsPurged(i) => IsPurged(i)'
    BY <2>2, <1>2 DEF IsPurged
  <2>5. RowsAreNamed(i)' /\ KeepsItsRow(i)'
    BY <2>1 DEF RowsAreNamed, KeepsItsRow, IsSnapshotOf, Realtime
  <2>6. RowsAreGone(i)'
    BY <2>1, <2>3 DEF RowsAreGone, IsDeleted, RowsOf, Realtime
  <2>7. IsServed(i)'
    BY <2>1, <2>4 DEF IsServed, Served, Parts, Rendered, Realtime
  <2>8. QED
    BY <2>5, <2>6, <2>7 DEF TrunkHolds
<1>8. ApplyingIsAtWork'
  BY <1>1, <1>2 DEF ApplyingIsAtWork
<1>9. QED
  BY <1>3, <1>4, <1>6, <1>7, <1>8 DEF CoreHolds

LEMMA FailStep ==
  ASSUME IInv, NEW t \in Threads, Fail(t)
  PROVE  CoreHolds'
<1>1. PICK r, j : r = req[t] /\ j = r.trunk
  OBVIOUS
<1> DEFINE row == Written(trunk[j], r.row, r.new)
<1>2. /\ \/ r.pc = "insert"
         \/ r.pc \in {"save", "restore"} /\ row.business # None
            /\ IsTaken(j, row.business, row.name)
         \/ r.pc \in {"purge", "resync", "rewrite"}
         \/ r.pc = "restore" /\ mode = "shared"
      /\ req' = [req EXCEPT ![t] = Idle]
      /\ UNCHANGED <<mode, trunk, table, file, loaded, begun, renamed, stranded>>
      /\ disturbed' = IF r.pc = "restore" /\ mode = "external" THEN disturbed \cup {j}
                      ELSE disturbed
  BY <1>1 DEF Fail, End
<1> HIDE DEF row
<1>3. PICK s \in Requests : s = Idle
  BY EmptyIsTyped
<1>4. RequestHolds(s)'
  BY <1>3, IdleHolds
<1>5. CASE r.pc = "insert"
  <2>1. r.op = "create"
    BY <1>1, <1>5 DEF IInv, CoreHolds, RowsHold, RequestsHold, IsAtItsPlace, Requests
  <2>2. s.op = "none" /\ disturbed' = disturbed
    BY <1>2, <1>3, <1>5, EmptyIsTyped
  <2>3. QED
    BY <1>1, <1>2, <1>3, <1>4, <2>1, <2>2, AsideStep
<1>6. CASE r.pc # "insert"
  <2>1. r.pc \in BeforeCommit \ {"applying"}
    BY <1>2, <1>6 DEF BeforeCommit
  <2>2. disturbed \subseteq disturbed' /\ r.pc \notin {"idle", "insert"}
    BY <1>2, <2>1 DEF BeforeCommit
  <2>3. /\ r \in Requests /\ IsAtItsPlace(r) /\ IsIntended(r) /\ Knows(r)
        /\ j \in Trunks /\ trunk[j] \in Rows /\ trunk[j] # NoTrunk
        /\ file \in Files /\ loaded \in Files
        /\ IsAlone(t, j) /\ r.op # "create"
    BY <1>1, <2>2, AtRequest, NoTrunkIsNoRow
  <2>4. r.op # "reload"
    BY <2>1, <2>3 DEF IsAtItsPlace, BeforeCommit, Realtime
  <2>5. mode = "external" /\ j \notin disturbed' =>
          r.pc # "restore" /\ ~ (r.op = "delete" /\ r.pc = "save")
    <3> SUFFICES ASSUME mode = "external", j \notin disturbed', r.op = "delete", r.pc = "save"
                 PROVE  FALSE
      BY <1>2
    <3>1. r.row = trunk[j] /\ r.new.name = r.row.name /\ r.row \in Rows /\ r.new \in Rows
      BY <1>1, <2>2, <2>3 DEF Knows, IsIntended, IsAtItsPlace, BeforeCommit
    <3>2. r.new.business = r.row.business
      BY <1>1, <2>1 DEF IInv, NamesHold, KeepsBusiness
    <3>3. row.name = trunk[j].name /\ row.business = trunk[j].business
      BY <3>1, <3>2, <2>3, WrittenIsRow DEF row
    <3>4. PICK i \in Trunks \ {j} :
            trunk[i].name = trunk[j].name /\ trunk[i].business = trunk[j].business
      BY <1>2, <3>3 DEF IsTaken
    <3>5. trunk[j].name \in Names /\ trunk[j].business # None
      BY <1>2, <3>3, <2>3 DEF Rows
    <3>6. trunk[i] # NoTrunk
      BY <3>4, <3>5, NoTrunkIsNoRow
    <3>7. QED
      BY <2>3, <3>4, <3>5, <3>6 DEF IInv, NamesHold, NamesAreUnique
  <2>6. IsTurn(t, j, s)
    BY <1>1, <1>2, <1>3, <2>3, EmptyIsTyped DEF IsTurn
  <2>7. stranded \subseteq stranded' /\ UNCHANGED <<mode, trunk, table, renamed>>
        /\ file' \in Files /\ loaded' \in Files /\ loaded' = loaded
    BY <1>2, <2>3
  <2>8. QED
    BY <1>1, <1>4, <2>2, <2>3, <2>4, <2>5, <2>6, <2>7, QuietStep
<1>7. QED
  BY <1>5, <1>6

LEMMA SyncFailsStep ==
  ASSUME IInv, NEW t \in Threads, SyncFails(t)
  PROVE  CoreHolds'
<1>1. PICK r, j : r = req[t] /\ j = r.trunk
  OBVIOUS
<1>2. PICK s : s = [Expired(r) EXCEPT !.pc = "failed"]
  OBVIOUS
<1>3. /\ r.pc \in {"read", "upsert", "write"} /\ file' \in {file, EmptyFile}
      /\ req' = [req EXCEPT ![t] = s]
      /\ UNCHANGED <<mode, trunk, table, loaded, begun, disturbed, renamed, stranded>>
  BY <1>1, <1>2 DEF SyncFails, Goto
<1>4. /\ r \in Requests /\ RequestHolds(r) /\ IsAtItsPlace(r) /\ Knows(r)
      /\ j \in Trunks /\ trunk[j] \in Rows /\ trunk[j] # NoTrunk /\ r.op # "create"
      /\ file \in Files /\ loaded \in Files /\ IsAlone(t, j)
  BY <1>1, <1>3, AtRequest, NoTrunkIsNoRow
<1>5. r.op = "reload"
  BY <1>3, <1>4 DEF IsAtItsPlace, Requests
<1>6. s \in Requests /\ s.pc = "failed" /\ s.op = "reload" /\ s.trunk = j
  BY <1>1, <1>2, <1>4, <1>5, ExpiredIs, GotoIs DEF Places
<1>7. RequestHolds(s)'
  <2>1. IsAtItsPlace(s)'
    BY <1>3, <1>4, <1>6, NoTrunkIsNoRow
    DEF IsAtItsPlace, BeforeCommit
  <2>2. IsIntended(s)'
    BY <1>6 DEF IsIntended, BeforeCommit
  <2>3. Knows(s)'
    BY <1>1, <1>3, <1>4, <1>5, <1>6 DEF Knows, BeforeCommit
  <2>4. QED
    BY <1>6, <2>1, <2>2, <2>3 DEF RequestHolds, KnowsFile
<1>8. IsTurn(t, j, s) /\ file' \in Files /\ loaded' \in Files
  BY <1>1, <1>3, <1>4, <1>6, EmptyIsTyped DEF IsTurn
<1>9. QED
  BY <1>1, <1>3, <1>4, <1>6, <1>7, <1>8, QuietStep

LEMMA TablesAreUnreachableStep ==
  ASSUME IInv, NEW t \in Threads, TablesAreUnreachable(t)
  PROVE  CoreHolds'
<1>1. PICK r, j : r = req[t] /\ j = r.trunk
  OBVIOUS
<1>2. PICK s \in Requests : s = Idle
  BY EmptyIsTyped
<1>3. /\ r.pc = "read" /\ req' = [req EXCEPT ![t] = s] /\ stranded' = stranded \cup {j}
      /\ UNCHANGED <<mode, trunk, table, file, loaded, begun, disturbed, renamed>>
  BY <1>1, <1>2 DEF TablesAreUnreachable, End
<1>4. /\ j \in Trunks /\ trunk[j] # NoTrunk /\ r.op # "create" /\ file \in Files /\ loaded \in Files /\ IsAlone(t, j)
  BY <1>1, <1>3, AtRequest, NoTrunkIsNoRow
<1>5. RequestHolds(s)'
  BY <1>2, IdleHolds
<1>6. IsTurn(t, j, s)
  BY <1>1, <1>2, <1>3, <1>4, EmptyIsTyped DEF IsTurn
<1>7. QED
  BY <1>1, <1>3, <1>4, <1>5, <1>6, QuietStep

LEMMA ReadRowStep ==
  ASSUME IInv, NEW t \in Threads, ReadRow(t)
  PROVE  CoreHolds'
<1>1. PICK r, j : r = req[t] /\ j = r.trunk
  OBVIOUS
<1>2. PICK s : s = [[r EXCEPT !.row = trunk[j]] EXCEPT !.pc = "upsert"]
  OBVIOUS
<1>3. /\ r.pc = "read" /\ req' = [req EXCEPT ![t] = s]
      /\ UNCHANGED <<mode, trunk, table, file, loaded, begun, disturbed, renamed, stranded>>
  BY <1>1, <1>2 DEF ReadRow, Goto
<1>4. /\ r \in Requests /\ RequestHolds(r) /\ IsAtItsPlace(r) /\ Knows(r)
      /\ j \in Trunks /\ trunk[j] \in Rows /\ trunk[j] # NoTrunk /\ r.op # "create"
      /\ file \in Files /\ loaded \in Files /\ IsAlone(t, j)
  BY <1>1, <1>3, AtRequest, NoTrunkIsNoRow
<1>5. r.op = "reload" /\ Realtime
  BY <1>3, <1>4 DEF IsAtItsPlace, Requests
<1>6. s \in Requests /\ s.pc = "upsert" /\ s.op = "reload" /\ s.trunk = j /\ s.row = trunk[j]
  BY <1>1, <1>2, <1>4, <1>5 DEF Requests, Places
<1>7. RequestHolds(s)'
  <2>1. IsAtItsPlace(s)'
    BY <1>3, <1>4, <1>5, <1>6, NoTrunkIsNoRow
    DEF IsAtItsPlace, BeforeCommit, Realtime
  <2>2. IsIntended(s)'
    BY <1>6 DEF IsIntended, BeforeCommit
  <2>3. Knows(s)'
    BY <1>1, <1>3, <1>4, <1>5, <1>6 DEF Knows, BeforeCommit
  <2>4. QED
    BY <1>3, <1>5, <1>6, <2>1, <2>2, <2>3 DEF RequestHolds, KnowsFile, Realtime
<1>8. IsTurn(t, j, s)
  BY <1>1, <1>3, <1>4, <1>6 DEF IsTurn
<1>9. QED
  BY <1>1, <1>3, <1>4, <1>6, <1>7, <1>8, QuietStep

LEMMA RenderStep ==
  ASSUME IInv, NEW t \in Threads, Render(t)
  PROVE  CoreHolds'
<1>1. PICK r, j : r = req[t] /\ j = r.trunk
  OBVIOUS
<1>2. PICK s : s = [[r EXCEPT !.content = Rendered] EXCEPT !.pc = "write"]
  OBVIOUS
<1>3. /\ r.pc = "render" /\ req' = [req EXCEPT ![t] = s]
      /\ UNCHANGED <<mode, trunk, table, file, loaded, begun, disturbed, renamed, stranded>>
  BY <1>1, <1>2 DEF Render, Goto
<1>4. /\ r \in Requests /\ RequestHolds(r) /\ IsAtItsPlace(r) /\ Knows(r)
      /\ j \in Trunks /\ trunk[j] \in Rows /\ trunk[j] # NoTrunk /\ r.op # "create"
      /\ file \in Files /\ loaded \in Files /\ IsAlone(t, j)
  BY <1>1, <1>3, AtRequest, NoTrunkIsNoRow
<1>5. r.op = "reload" /\ ~ Realtime
  BY <1>3, <1>4 DEF IsAtItsPlace, Requests
<1>6. Rendered \in Files
  BY RenderedIsFile DEF IInv, CoreHolds
<1>7. /\ s \in Requests /\ s.pc = "write" /\ s.op = "reload" /\ s.trunk = j
      /\ s.content = Rendered
  BY <1>1, <1>2, <1>4, <1>5, <1>6 DEF Requests, Places
<1>8. RequestHolds(s)'
  <2>1. IsAtItsPlace(s)'
    BY <1>3, <1>4, <1>5, <1>7, NoTrunkIsNoRow
    DEF IsAtItsPlace, BeforeCommit, Realtime
  <2>2. IsIntended(s)'
    BY <1>7 DEF IsIntended, BeforeCommit
  <2>3. Knows(s)'
    BY <1>1, <1>3, <1>4, <1>5, <1>7 DEF Knows, BeforeCommit
  <2>4. Rendered' = Rendered
    BY <1>3 DEF Rendered
  <2>5. QED
    BY <1>3, <1>7, <2>1, <2>2, <2>3, <2>4 DEF RequestHolds, KnowsFile
<1>9. IsTurn(t, j, s)
  BY <1>1, <1>3, <1>4, <1>7 DEF IsTurn
<1>10. QED
  BY <1>1, <1>3, <1>4, <1>7, <1>8, <1>9, QuietStep

LEMMA WriteConfigStep ==
  ASSUME IInv, NEW t \in Threads, WriteConfig(t)
  PROVE  CoreHolds'
<1>1. PICK r, j : r = req[t] /\ j = r.trunk
  OBVIOUS
<1>2. PICK s : s = [Expired(r) EXCEPT !.pc = "ami"]
  OBVIOUS
<1>3. /\ r.pc = "write" /\ req' = [req EXCEPT ![t] = s] /\ file' = r.content
      /\ UNCHANGED <<mode, trunk, table, loaded, begun, disturbed, renamed, stranded>>
  BY <1>1, <1>2 DEF WriteConfig, Goto
<1>4. /\ r \in Requests /\ RequestHolds(r) /\ IsAtItsPlace(r) /\ Knows(r)
      /\ j \in Trunks /\ trunk[j] \in Rows /\ trunk[j] # NoTrunk /\ r.op # "create"
      /\ file \in Files /\ loaded \in Files /\ IsAlone(t, j)
  BY <1>1, <1>3, AtRequest, NoTrunkIsNoRow
<1>5. r.op = "reload" /\ ~ Realtime
  BY <1>3, <1>4 DEF IsAtItsPlace, Requests
<1>6. s \in Requests /\ s.pc = "ami" /\ s.op = "reload" /\ s.trunk = j
  BY <1>1, <1>2, <1>4, <1>5, ExpiredIs, GotoIs DEF Places
<1>7. RequestHolds(s)'
  <2>1. IsAtItsPlace(s)'
    BY <1>3, <1>4, <1>6, NoTrunkIsNoRow DEF IsAtItsPlace, BeforeCommit
  <2>2. IsIntended(s)'
    BY <1>6 DEF IsIntended, BeforeCommit
  <2>3. Knows(s)'
    BY <1>1, <1>3, <1>4, <1>5, <1>6 DEF Knows, BeforeCommit, Realtime
  <2>4. ASSUME NEW i \in Trunks \ disturbed'
        PROVE  KnowsFile(s, i)'
    <3>1. Rendered' = Rendered
      BY <1>3 DEF Rendered
    <3>2. KnowsFile(r, i)
      BY <1>3, <1>4 DEF RequestHolds
    <3>3. trunk[i].apply = "active" \/ j = i => r.content[i] = Rendered[i]
      BY <1>1, <1>3, <1>5, <3>2 DEF KnowsFile
    <3>4. QED
      BY <1>3, <1>6, <3>1, <3>3 DEF KnowsFile
  <2>5. QED
    BY <2>1, <2>2, <2>3, <2>4 DEF RequestHolds
<1>8. IsTurn(t, j, s) /\ file' \in Files
  BY <1>1, <1>3, <1>4, <1>6 DEF IsTurn, Requests
<1>9. QED
  BY <1>1, <1>3, <1>4, <1>6, <1>7, <1>8, QuietStep

LEMMA PjsipReloadStep ==
  ASSUME IInv, NEW t \in Threads, PjsipReload(t)
  PROVE  CoreHolds'
<1>1. PICK r, j : r = req[t] /\ j = r.trunk
  OBVIOUS
<1>2. PICK told \in {"active", "failed"} :
        /\ r.pc = "ami"
        /\ loaded' \in {file} \cup (IF told = "active" THEN {} ELSE {loaded})
        /\ IF r.op = "rollback" THEN End(t) ELSE Goto(t, r, told)
        /\ UNCHANGED <<mode, trunk, table, file, begun, disturbed, renamed, stranded>>
  BY <1>1 DEF PjsipReload
<1>3. PICK s : s = IF r.op = "rollback" THEN Idle ELSE [r EXCEPT !.pc = told]
  OBVIOUS
<1>4. req' = [req EXCEPT ![t] = s]
  BY <1>2, <1>3 DEF End, Goto
<1>5. /\ r \in Requests /\ RequestHolds(r) /\ IsAtItsPlace(r) /\ Knows(r)
      /\ j \in Trunks /\ trunk[j] \in Rows /\ trunk[j] # NoTrunk /\ r.op # "create"
      /\ file \in Files /\ loaded \in Files /\ IsAlone(t, j)
  BY <1>1, <1>2, AtRequest, NoTrunkIsNoRow
<1>6. r.op \in {"reload", "rollback"}
  BY <1>2, <1>5 DEF IsAtItsPlace, Requests
<1>7. Rendered' = Rendered
  BY <1>2 DEF Rendered
<1>8. ASSUME NEW i \in Trunks \ disturbed', ~ Realtime
      PROVE  /\ r.op = "reload"
             /\ trunk[i].apply = "active" \/ j = i => file[i] = Rendered[i]
  <2>1. KnowsFile(r, i)
    BY <1>2, <1>5 DEF RequestHolds
  <2>2. QED
    BY <1>1, <1>2, <1>6, <1>8, <2>1 DEF KnowsFile
<1>9. FileServes'
  <2> SUFFICES ASSUME ~ Realtime, NEW i \in Trunks \ disturbed', trunk[i].apply = "active"
               PROVE  loaded'[i] = Rendered[i]
    BY <1>2, <1>7 DEF FileServes, IsServed, Realtime
  <2>1. IsServed(i)
    BY <1>2 DEF IInv, CoreHolds, TrunksHold, TrunkHolds
  <2>2. QED
    BY <1>2, <1>8, <2>1 DEF IsServed
<1>10. RequestHolds(s)' /\ s \in Requests /\ IsTurn(t, j, s)
  <2>1. CASE r.op = "rollback"
    <3>1. s = Idle
      BY <1>3, <2>1
    <3>2. QED
      BY <1>1, <1>4, <1>5, <3>1, IdleHolds, EmptyIsTyped DEF IsTurn
  <2>2. CASE r.op = "reload"
    <3>1. /\ s \in Requests /\ s.pc = told /\ s.op = "reload" /\ s.trunk = j
      BY <1>1, <1>3, <1>5, <2>2, GotoIs DEF Places
    <3>2. IsAtItsPlace(s)'
      BY <1>2, <1>5, <3>1, NoTrunkIsNoRow DEF IsAtItsPlace, BeforeCommit
    <3>3. IsIntended(s)'
      BY <3>1 DEF IsIntended, BeforeCommit
    <3>4. Knows(s)'
      <4>1. Served(j) => Served(j)'
        BY <1>2 DEF Served, Parts
      <4>2. QED
        BY <1>1, <1>2, <1>5, <2>2, <3>1, <4>1 DEF Knows, BeforeCommit, Realtime
    <3>5. ASSUME NEW i \in Trunks \ disturbed'
          PROVE  KnowsFile(s, i)'
      <4>1. told = "active" /\ ~ Realtime /\ j = i => loaded'[i] = Rendered[i]
        BY <1>2, <1>8
      <4>2. QED
        BY <1>2, <1>7, <3>1, <4>1 DEF KnowsFile, Realtime
    <3>6. QED
      BY <1>1, <1>4, <1>5, <3>1, <3>2, <3>3, <3>4, <3>5 DEF RequestHolds, IsTurn
  <2>3. QED
    BY <1>6, <2>1, <2>2
<1>11. r.op # "reload" \/ (s.op = "reload" /\ s.trunk = j /\ s.pc # "applying")
  BY <1>1, <1>2, <1>3, <1>5, <1>6, GotoIs DEF Places
<1>12. loaded' \in Files
  BY <1>2, <1>5
<1>13. QED
  BY <1>1, <1>2, <1>5, <1>9, <1>10, <1>11, <1>12, QuietStep

LEMMA RewriteConfigStep ==
  ASSUME IInv, NEW t \in Threads, RewriteConfig(t)
  PROVE  CoreHolds'
<1>1. PICK r, j : r = req[t] /\ j = r.trunk
  OBVIOUS
<1>2. PICK s : s = [r EXCEPT !.pc = "restore"]
  OBVIOUS
<1>3. /\ r.pc = "rewrite" /\ req' = [req EXCEPT ![t] = s] /\ file' = r.row.prev.file
      /\ UNCHANGED <<mode, trunk, table, loaded, begun, disturbed, renamed, stranded>>
  BY <1>1, <1>2 DEF RewriteConfig, Goto
<1>4. /\ r \in Requests /\ RequestHolds(r) /\ IsAtItsPlace(r) /\ IsIntended(r) /\ Knows(r)
      /\ j \in Trunks /\ trunk[j] \in Rows /\ trunk[j] # NoTrunk /\ r.op # "create"
      /\ loaded \in Files /\ IsAlone(t, j)
  BY <1>1, <1>3, AtRequest, NoTrunkIsNoRow
<1>5. r.op = "rollback" /\ mode = "file" /\ r.row \in Rows /\ r.new \in Rows
  BY <1>3, <1>4 DEF IsAtItsPlace, Requests, BeforeCommit, Realtime
<1>6. /\ s \in Requests /\ s.pc = "restore" /\ s.op = "rollback" /\ s.trunk = j
      /\ s.row = r.row /\ s.new = r.new
  BY <1>1, <1>2, <1>4, <1>5, GotoIs DEF Places
<1>7. ASSUME NEW i \in Trunks \ disturbed
      PROVE  FALSE
  <2>1. KnowsFile(r, i)
    BY <1>4 DEF RequestHolds
  <2>2. QED
    BY <1>5, <2>1 DEF KnowsFile, Realtime
<1>8. RequestHolds(s)'
  <2>1. IsAtItsPlace(s)'
    BY <1>3, <1>4, <1>5, <1>6, NoTrunkIsNoRow DEF IsAtItsPlace, BeforeCommit
  <2>2. IsIntended(s)'
    BY <1>3, <1>4, <1>5, <1>6 DEF IsIntended, BeforeCommit, IsSnapshotOf
  <2>3. Knows(s)'
    BY <1>1, <1>3, <1>4, <1>6, <1>7 DEF Knows
  <2>4. QED
    BY <1>3, <1>7, <2>1, <2>2, <2>3 DEF RequestHolds
<1>9. IsTurn(t, j, s) /\ file' \in Files
  BY <1>1, <1>3, <1>4, <1>5, <1>6 DEF IsTurn, Rows, Snapshots
<1>10. QED
  BY <1>1, <1>3, <1>4, <1>5, <1>6, <1>8, <1>9, QuietStep

-----------------------------------------------------------------------------
(* Steps that change the row or the tables.                                 *)
LEMMA TableStays ==
  ASSUME TablesHold, table' = table, NEW k, NEW name
  PROVE  TablesHold' /\ OnlyOf(k, name)
BY DEF TablesHold, OnlyOf

LEMMA ForTrunk ==
  ASSUME NEW j \in Trunks, NEW name, OnlyOf(j, name), mode' = mode,
         \A i \in Trunks \ {j} : trunk'[i] = trunk[i],
         trunk[j] # NoTrunk, trunk'[j] # NoTrunk,
         disturbed \subseteq disturbed', renamed \subseteq renamed', stranded \subseteq stranded'
  PROVE  IsForTrunk(j)
<1>1. \A key : key[1] # j => ~ IsOf(key, j, name)
  BY DEF IsOf
<1>2. QED
  BY <1>1 DEF IsForTrunk, IsOnlyFor, OnlyOf

(* What is written of a trunk under the name it has leaves its rows named so. *)
LEMMA NamedStays ==
  ASSUME NEW j \in Trunks, NEW name, OnlyOf(j, name), mode' = mode, renamed \subseteq renamed',
         RowsAreNamed(j), trunk'[j] # NoTrunk, j \notin renamed' => trunk'[j].name = trunk[j].name,
         name = trunk[j].name \/ DOMAIN table' \subseteq DOMAIN table
  PROVE  RowsAreNamed(j)'
<1> SUFFICES ASSUME Realtime, j \notin renamed', NEW key \in DOMAIN table', key[1] = j
             PROVE  key[2] = trunk[j].name
  BY DEF RowsAreNamed, Realtime
<1>1. key \in DOMAIN table => key[2] = trunk[j].name
  BY DEF RowsAreNamed
<1>2. CASE IsOf(key, j, name)
  BY <1>1, <1>2 DEF IsOf
<1>3. CASE ~ IsOf(key, j, name)
  BY <1>1, <1>3 DEF OnlyOf
<1>4. QED
  BY <1>2, <1>3

(* Where all parts have been gone through, the commit leaves none.          *)
LEMMA PurgeIsDone ==
  ASSUME TablesHold, NEW r, NEW j, j = r.trunk, r.at = 5, HasPassed(r), table' = Purged(r)
  PROVE  RowsOf(j, r.row.name)' = {}
<1>1. DOMAIN table' = DOMAIN table \ r.gone
  BY DEF Purged
<1> SUFFICES ASSUME NEW key \in DOMAIN table', key[1] = j, key[2] = r.row.name
             PROVE  FALSE
  BY DEF RowsOf
<1>2. key \in Keys /\ key \in DOMAIN table /\ key \notin r.gone
  BY <1>1 DEF TablesHold
<1>3. PICK part \in PartNames : key = <<j, r.row.name, part>>
  BY <1>2 DEF Keys
<1>4. PICK i \in 1..5 : PurgeOrder[i] = part
  BY OrderIs
<1>5. QED
  BY <1>2, <1>3, <1>4 DEF HasPassed

LEMMA PurgePartStep ==
  ASSUME IInv, NEW t \in Threads, PurgePart(t)
  PROVE  CoreHolds'
<1>1. PICK r, j : r = req[t] /\ j = r.trunk
  OBVIOUS
<1>2. PICK key, pc, s :
        /\ key = <<j, r.row.name, PurgeOrder[r.at + 1]>>
        /\ pc = IF mode = "shared" /\ r.at + 1 = 5 THEN "save" ELSE "purge"
        /\ s = [[r EXCEPT !.at = @ + 1, !.gone = @ \cup ({key} \cap DOMAIN table)] EXCEPT !.pc = pc]
  OBVIOUS
<1>3. /\ r.pc = "purge" /\ r.at < 5 /\ req' = [req EXCEPT ![t] = s]
      /\ UNCHANGED <<mode, trunk, table, file, loaded, begun, disturbed, renamed, stranded>>
  BY <1>1, <1>2, OrderIs DEF PurgePart, Goto
<1>4. /\ r \in Requests /\ RequestHolds(r) /\ IsAtItsPlace(r) /\ IsIntended(r) /\ Knows(r)
      /\ j \in Trunks /\ trunk[j] \in Rows /\ trunk[j] # NoTrunk /\ r.op # "create"
      /\ file \in Files /\ loaded \in Files /\ IsAlone(t, j) /\ TablesHold
  BY <1>1, <1>3, AtRequest, NoTrunkIsNoRow
<1>5. r.op = "delete" /\ Realtime /\ r.row \in Rows /\ r.new \in Rows
  BY <1>3, <1>4 DEF IsAtItsPlace, Requests, BeforeCommit
<1>6. /\ s \in Requests /\ s.pc = pc /\ s.op = "delete" /\ s.trunk = j
      /\ s.row = r.row /\ s.new = r.new
      /\ s.at = r.at + 1 /\ s.gone = r.gone \cup ({key} \cap DOMAIN table)
  <2>1. r.at + 1 \in 0..5
    BY <1>3, <1>4 DEF Requests
  <2>2. r.gone \cup ({key} \cap DOMAIN table) \subseteq Keys
    BY <1>4 DEF Requests, TablesHold
  <2>3. pc \in Places
    BY <1>2 DEF Places
  <2>4. PICK at, gone : at = r.at + 1 /\ gone = r.gone \cup ({key} \cap DOMAIN table)
    OBVIOUS
  <2>5. s = [pc |-> pc, op |-> r.op, trunk |-> r.trunk, row |-> r.row, new |-> r.new,
             content |-> r.content, at |-> at, gone |-> gone]
    BY <1>2, <1>4, <2>4 DEF Requests
  <2>6. s \in Requests
    BY <1>4, <2>1, <2>2, <2>3, <2>4, <2>5 DEF Requests
  <2>7. QED
    BY <1>1, <1>5, <2>4, <2>5, <2>6
<1>7. RequestHolds(s)'
  <2>1. IsAtItsPlace(s)'
    BY <1>2, <1>3, <1>4, <1>5, <1>6 DEF IsAtItsPlace, BeforeCommit, Realtime
  <2>2. IsIntended(s)'
    BY <1>3, <1>4, <1>5, <1>6 DEF IsIntended, BeforeCommit, IsSnapshotOf
  <2>3. j \notin disturbed => HasPassed(s)'
    <3> SUFFICES ASSUME j \notin disturbed, NEW i \in 1..(r.at + 1),
                        <<j, r.row.name, PurgeOrder[i]>> \in DOMAIN table
                 PROVE  <<j, r.row.name, PurgeOrder[i]>> \in s.gone
      BY <1>3, <1>6 DEF HasPassed
    <3>1. HasPassed(r)
      BY <1>1, <1>3, <1>4, <1>5 DEF Knows
    <3>2. i \in 1..r.at \/ i = r.at + 1
      BY <1>4 DEF Requests
    <3>3. QED
      BY <1>1, <1>2, <1>6, <3>1, <3>2 DEF HasPassed
  <2>4. Knows(s)'
    BY <1>1, <1>2, <1>3, <1>4, <1>5, <1>6, <2>3 DEF Knows, BeforeCommit, Realtime
  <2>5. QED
    BY <1>3, <1>5, <2>1, <2>2, <2>4 DEF RequestHolds, KnowsFile, Realtime
<1>8. IsTurn(t, j, s)
  BY <1>1, <1>3, <1>4, <1>6 DEF IsTurn
<1>9. QED
  BY <1>1, <1>3, <1>4, <1>5, <1>6, <1>7, <1>8, QuietStep

LEMMA PurgeOutsideStep ==
  ASSUME IInv, NEW t \in Threads, PurgeOutside(t)
  PROVE  CoreHolds'
<1>1. PICK r, j : r = req[t] /\ j = r.trunk
  OBVIOUS
<1>2. PICK s : s = [[r EXCEPT !.gone = {}] EXCEPT !.pc = "save"]
  OBVIOUS
<1>3. /\ r.pc = "purge" /\ r.at = 5 /\ req' = [req EXCEPT ![t] = s] /\ table' = Purged(r)
      /\ UNCHANGED <<mode, trunk, file, loaded, begun, disturbed, renamed, stranded>>
  BY <1>1, <1>2, OrderIs DEF PurgeOutside, Goto
<1>4. /\ r \in Requests /\ RequestHolds(r) /\ IsAtItsPlace(r) /\ IsIntended(r) /\ Knows(r)
      /\ j \in Trunks /\ trunk \in [Trunks -> Rows \cup {NoTrunk}] /\ trunk[j] \in Rows
      /\ file \in Files /\ loaded \in Files /\ TablesHold /\ r.op # "create" /\ IsPurging(r)
      /\ j \notin disturbed => TrunkHolds(j)
      /\ \A key \in r.gone : IsOf(key, j, r.row.name)
      /\ IsAlone(t, j)
  BY <1>1, <1>3, AtRequest
<1>5. r.op = "delete" /\ mode = "external" /\ r.row \in Rows /\ r.new \in Rows
  <2>1. r.op = "delete" /\ Realtime /\ mode # "shared"
    BY <1>3, <1>4 DEF IsAtItsPlace, Requests, IsPurging
  <2>2. mode \in Modes
    BY DEF IInv, CoreHolds, RowsHold
  <2>3. QED
    BY <1>3, <1>4, <2>1, <2>2 DEF IsAtItsPlace, BeforeCommit, Realtime, Modes
<1>6. /\ s \in Requests /\ s.pc = "save" /\ s.op = "delete" /\ s.trunk = j
      /\ s.row = r.row /\ s.new = r.new /\ s.at = r.at /\ s.gone = {}
  BY <1>1, <1>2, <1>4, <1>5 DEF Requests, Places
<1>7. /\ TablesHold' /\ OnlyOf(j, r.row.name) /\ DOMAIN table' \subseteq DOMAIN table
  BY <1>3, <1>4, <1>5, PurgeEffect
<1>8. IsForTrunk(j) /\ IsTurn(t, j, s) /\ trunk' \in [Trunks -> Rows \cup {NoTrunk}]
      /\ file' \in Files /\ loaded' \in Files /\ Realtime /\ (Realtime)'
  BY <1>1, <1>3, <1>4, <1>5, <1>6, <1>7, NoTrunkIsNoRow, ForTrunk DEF IsTurn, Realtime
<1>9. j \notin disturbed =>
        RowsOf(j, trunk[j].name)' = {} /\ r.row = trunk[j] /\ HasPassed(s)'
  <2> SUFFICES ASSUME j \notin disturbed
               PROVE  RowsOf(j, trunk[j].name)' = {} /\ r.row = trunk[j] /\ HasPassed(s)'
    OBVIOUS
  <2>1. r.row = trunk[j] /\ HasPassed(r)
    BY <1>1, <1>3, <1>4, <1>5, <1>8 DEF Knows, BeforeCommit
  <2>2. RowsOf(j, r.row.name)' = {}
    BY <1>1, <1>3, <1>4, <2>1, PurgeIsDone
  <2>3. RowsOf(j, trunk[j].name)' = {}
    BY <1>1, <1>3, <2>1, <2>2 DEF RowsOf
  <2>4. HasPassed(s)'
    BY <1>1, <1>3, <1>6, <2>2 DEF HasPassed, RowsOf
  <2>5. QED
    BY <2>1, <2>3, <2>4
<1>10. RequestHolds(s)'
  <2>1. IsAtItsPlace(s)'
    BY <1>3, <1>4, <1>5, <1>6, NoTrunkIsNoRow DEF IsAtItsPlace, BeforeCommit
  <2>2. IsIntended(s)'
    BY <1>3, <1>4, <1>5, <1>6 DEF IsIntended, BeforeCommit, IsSnapshotOf
  <2>3. Knows(s)'
    BY <1>3, <1>6, <1>9 DEF Knows, BeforeCommit
  <2>4. QED
    BY <1>8, <2>1, <2>2, <2>3 DEF RequestHolds, KnowsFile
<1>11. j \notin disturbed' => TrunkHolds(j)'
  <2> SUFFICES ASSUME j \notin disturbed'
               PROVE  TrunkHolds(j)'
    OBVIOUS
  <2>1. RowsAreNamed(j) /\ KeepsItsRow(j)
    BY <1>3, <1>4 DEF TrunkHolds
  <2>2. RowsAreNamed(j)'
    BY <1>3, <1>4, <1>7, <2>1, NamedStays, NoTrunkIsNoRow
  <2>3. RowsAreGone(j)'
    BY <1>3, <1>9 DEF RowsAreGone, IsRestored, IsDeleted
  <2>4. IsPurged(j)'
    <3>1. req'[t] = s
      BY <1>3 DEF IInv, CoreHolds, RowsHold
    <3>2. QED
      BY <1>3, <1>5, <1>6, <3>1 DEF IsPurged
  <2>5. KeepsItsRow(j)'
    BY <1>3, <2>1 DEF KeepsItsRow, IsSnapshotOf
  <2>6. QED
    BY <1>8, <2>2, <2>3, <2>4, <2>5 DEF TrunkHolds, IsServed
<1>12. AtWork(j)'
  BY <1>1, <1>3, <1>4, <1>5, <1>8, AtWorkStays
<1>13. FileServes'
  BY <1>8 DEF FileServes
<1>14. QED
  BY <1>4, <1>6, <1>7, <1>8, <1>10, <1>11, <1>12, <1>13, StepOfRequest

LEMMA SaveStep ==
  ASSUME IInv, NEW t \in Threads, Save(t)
  PROVE  CoreHolds'
<1>1. PICK r, j : r = req[t] /\ j = r.trunk
  OBVIOUS
<1>2. PICK s \in Requests : s = Idle
  BY EmptyIsTyped
<1>3. /\ r.pc = "save" /\ req' = [req EXCEPT ![t] = s]
      /\ SaveRow(j, r.row, r.new)
      /\ table' = Purged(r)
      /\ UNCHANGED <<mode, file, loaded, begun, disturbed, stranded>>
  BY <1>1, <1>2 DEF Save, End
<1>4. /\ r \in Requests /\ RequestHolds(r) /\ IsAtItsPlace(r) /\ IsIntended(r) /\ Knows(r)
      /\ j \in Trunks /\ trunk \in [Trunks -> Rows \cup {NoTrunk}] /\ trunk[j] \in Rows
      /\ mode \in Modes
      /\ file \in Files /\ loaded \in Files /\ TablesHold /\ r.op # "create" /\ IsPurging(r)
      /\ j \notin disturbed => TrunkHolds(j)
      /\ \A key \in r.gone : IsOf(key, j, r.row.name)
      /\ IsAlone(t, j)
  BY <1>1, <1>3, AtRequest
<1>5. r.op \in {"update", "delete"} /\ r.row \in Rows /\ r.new \in Rows
  BY <1>3, <1>4 DEF IsAtItsPlace, Requests, BeforeCommit, Realtime
<1>6. /\ trunk' \in [Trunks -> Rows \cup {NoTrunk}] /\ trunk'[j] \in Rows
      /\ \A i \in Trunks \ {j} : trunk'[i] = trunk[i]
      /\ renamed \subseteq renamed'
      /\ j \notin renamed' => trunk'[j].name = trunk[j].name
      /\ trunk[j] = r.row => trunk'[j] = r.new
      /\ trunk'[j].apply = IF r.new.apply # r.row.apply THEN r.new.apply ELSE trunk[j].apply
  <2>1. RowsHold
    BY DEF IInv, CoreHolds
  <2>2. QED
    BY <2>1, <1>3, <1>4, <1>5, SaveEffect
<1>7. TablesHold' /\ OnlyOf(j, r.row.name) /\ DOMAIN table' \subseteq DOMAIN table
  BY <1>3, <1>4, <1>5, PurgeEffect
<1>8. /\ IsTurn(t, j, s) /\ IsForTrunk(j)
  BY <1>1, <1>2, <1>3, <1>4, <1>6, <1>7, NoTrunkIsNoRow, EmptyIsTyped, ForTrunk DEF IsTurn
<1>9. RequestHolds(s)'
  BY <1>2, IdleHolds
<1>10. /\ r.new.apply = "pending"
       /\ r.op = "update" => r.new.prev.kind = "columns"
       /\ r.op = "delete" =>
            /\ r.new.name = r.row.name /\ r.new.conf = r.row.conf
            /\ IsSnapshotOf(r.new.prev, r.row)
  BY <1>3, <1>4, <1>5 DEF IsIntended, BeforeCommit
<1>11. ASSUME j \notin disturbed'
       PROVE  TrunkHolds(j)'
  <2>1. j \notin disturbed /\ RowsAreNamed(j)
    BY <1>3, <1>4, <1>11 DEF TrunkHolds
  <2>2. r.row = trunk[j] /\ trunk'[j] = r.new
    BY <1>1, <1>3, <1>4, <1>6, <2>1 DEF Knows, BeforeCommit
  <2>3. RowsAreNamed(j)'
    BY <1>3, <1>4, <1>6, <1>7, <2>1, NamedStays, NoTrunkIsNoRow
  <2>4. RowsAreGone(j)'
    <3>1. CASE r.op = "update"
      BY <3>1, <1>10, <2>2 DEF RowsAreGone, IsDeleted
    <3>2. CASE r.op = "delete"
      <4>1. CASE Realtime
        <5>1. r.at = 5 /\ HasPassed(r)
          BY <1>1, <1>3, <1>4, <2>1, <3>2, <4>1 DEF IsPurging, Knows
        <5>2. RowsOf(j, r.row.name)' = {}
          BY <1>1, <1>3, <1>4, <5>1, PurgeIsDone
        <5>3. QED
          BY <5>2, <3>2, <1>10, <2>2 DEF RowsAreGone, RowsOf
      <4>2. CASE ~ Realtime
        BY <4>2, <1>3 DEF RowsAreGone, Realtime
      <4>3. QED
        BY <4>1, <4>2
    <3>3. QED
      BY <3>1, <3>2, <1>5
  <2>5. IsServed(j)'
    BY <2>2, <1>10 DEF IsServed
  <2>6. KeepsItsRow(j)'
    BY <2>2, <1>5, <1>10 DEF KeepsItsRow, IsSnapshotOf
  <2>7. QED
    BY <2>3, <2>4, <2>5, <2>6 DEF TrunkHolds
<1>12. FileServes'
  BY <1>3, <1>4, <1>8, <1>11, FileStays DEF TrunkHolds
<1>13. AtWork(j)'
  <2>1. trunk'[j].apply = "applying" => trunk[j].apply = "applying"
    BY <1>6, <1>10
  <2>2. QED
    BY <1>1, <1>3, <1>4, <1>5, <1>8, <2>1, AtWorkStays
<1>14. QED
  BY <1>3, <1>4, <1>6, <1>7, <1>8, <1>9, <1>11, <1>12, <1>13, StepOfRequest

LEMMA ApplyingStep ==
  ASSUME IInv, NEW t \in Threads, Applying(t)
  PROVE  CoreHolds'
<1>1. PICK r, j : r = req[t] /\ j = r.trunk
  OBVIOUS
<1>2. PICK s, pc : pc = (IF Realtime THEN "read" ELSE "render") /\ s = [Expired(r) EXCEPT !.pc = pc]
  OBVIOUS
<1>3. /\ r.pc = "applying" /\ req' = [req EXCEPT ![t] = s]
      /\ SaveRow(j, r.row, r.new)
      /\ UNCHANGED <<mode, table, file, loaded, begun, disturbed, stranded>>
  BY <1>1, <1>2 DEF Applying, Goto
<1>4. /\ r \in Requests /\ RequestHolds(r) /\ IsAtItsPlace(r) /\ IsIntended(r) /\ Knows(r)
      /\ j \in Trunks /\ trunk \in [Trunks -> Rows \cup {NoTrunk}] /\ trunk[j] \in Rows
      /\ mode \in Modes
      /\ file \in Files /\ loaded \in Files /\ TablesHold /\ r.op # "create" /\ IsPurging(r)
      /\ j \notin disturbed => TrunkHolds(j)
      /\ IsAlone(t, j)
  BY <1>1, <1>3, AtRequest
<1>5. r.op = "reload" /\ r.row \in Rows /\ r.new \in Rows
  BY <1>3, <1>4 DEF IsAtItsPlace, Requests, BeforeCommit, Realtime
<1>6. /\ trunk' \in [Trunks -> Rows \cup {NoTrunk}] /\ trunk'[j] \in Rows
      /\ \A i \in Trunks \ {j} : trunk'[i] = trunk[i]
      /\ renamed \subseteq renamed'
      /\ j \notin renamed' => trunk'[j].name = trunk[j].name
      /\ trunk[j] = r.row => trunk'[j] = r.new
  <2>1. RowsHold
    BY DEF IInv, CoreHolds
  <2>2. QED
    BY <2>1, <1>3, <1>4, <1>5, SaveEffect
<1>7. TablesHold' /\ OnlyOf(j, r.row.name)
  BY <1>3, <1>4, TableStays
<1>8. s \in Requests /\ s.pc = pc /\ s.op = "reload" /\ s.trunk = j
  BY <1>1, <1>2, <1>4, <1>5, ExpiredIs, GotoIs DEF Places
<1>9. /\ IsTurn(t, j, s) /\ IsForTrunk(j)
  BY <1>1, <1>3, <1>4, <1>6, <1>7, <1>8, NoTrunkIsNoRow, ForTrunk DEF IsTurn
<1>10. /\ r.new.apply = "applying" /\ IsSnapshotOf(r.new.prev, r.row)
       /\ r.new.name = r.row.name /\ r.new.conf = r.row.conf
  BY <1>3, <1>4, <1>5 DEF IsIntended, BeforeCommit
<1>11. j \notin disturbed => r.row = trunk[j] /\ trunk'[j] = r.new
  BY <1>1, <1>3, <1>4, <1>6 DEF Knows, BeforeCommit
<1>12. RequestHolds(s)'
  <2>1. IsAtItsPlace(s)'
    BY <1>2, <1>3, <1>4, <1>6, <1>8, NoTrunkIsNoRow
    DEF IsAtItsPlace, BeforeCommit, Realtime
  <2>2. IsIntended(s)'
    BY <1>2, <1>8 DEF IsIntended, BeforeCommit
  <2>3. Knows(s)'
    BY <1>2, <1>3, <1>8, <1>10, <1>11 DEF Knows, BeforeCommit
  <2>4. QED
    BY <1>2, <1>3, <1>8, <2>1, <2>2, <2>3 DEF RequestHolds, KnowsFile, Realtime
<1>13. ASSUME j \notin disturbed'
       PROVE  TrunkHolds(j)'
  <2>1. j \notin disturbed /\ RowsAreNamed(j)
    BY <1>3, <1>4, <1>13 DEF TrunkHolds
  <2>2. RowsAreNamed(j)'
    BY <1>3, <1>4, <1>6, <1>7, <2>1, NamedStays, NoTrunkIsNoRow
  <2>3. RowsAreGone(j)' /\ IsServed(j)'
    BY <1>10, <1>11, <2>1 DEF RowsAreGone, IsServed, IsDeleted
  <2>4. KeepsItsRow(j)'
    BY <1>5, <1>10, <1>11, <2>1 DEF KeepsItsRow, IsSnapshotOf
  <2>5. QED
    BY <2>2, <2>3, <2>4 DEF TrunkHolds
<1>14. FileServes'
  BY <1>3, <1>4, <1>9, <1>13, FileStays DEF TrunkHolds
<1>15. AtWork(j)'
  <2>1. req'[t] = s
    BY <1>3 DEF IInv, CoreHolds, RowsHold
  <2>2. QED
    BY <1>2, <1>8, <2>1 DEF AtWork
<1>16. QED
  BY <1>3, <1>4, <1>6, <1>7, <1>8, <1>9, <1>12, <1>13, <1>14, <1>15, StepOfRequest

LEMMA UpsertStep ==
  ASSUME IInv, NEW t \in Threads, UpsertTrunk(t)
  PROVE  CoreHolds'
<1>1. PICK r, j : r = req[t] /\ j = r.trunk
  OBVIOUS
<1>2. PICK s : s = [Expired(r) EXCEPT !.pc = "ami"]
  OBVIOUS
<1>3. /\ r.pc = "upsert" /\ req' = [req EXCEPT ![t] = s] /\ table' = Upsert(j, r.row)
      /\ UNCHANGED <<mode, trunk, file, loaded, begun, disturbed, renamed, stranded>>
  BY <1>1, <1>2 DEF UpsertTrunk, Goto
<1>4. /\ r \in Requests /\ RequestHolds(r) /\ IsAtItsPlace(r) /\ Knows(r)
      /\ j \in Trunks /\ trunk \in [Trunks -> Rows \cup {NoTrunk}] /\ trunk[j] \in Rows
      /\ file \in Files /\ loaded \in Files /\ TablesHold /\ r.op # "create" /\ IsPurging(r)
      /\ j \notin disturbed => TrunkHolds(j)
      /\ IsAlone(t, j)
  BY <1>1, <1>3, AtRequest
<1>5. r.op = "reload" /\ r.row \in Rows /\ Realtime
  BY <1>3, <1>4 DEF IsAtItsPlace, Requests, BeforeCommit
<1>6. s \in Requests /\ s.pc = "ami" /\ s.op = "reload" /\ s.trunk = j
  BY <1>1, <1>2, <1>4, <1>5, ExpiredIs, GotoIs DEF Places
<1>7. /\ TablesHold' /\ OnlyOf(j, r.row.name)
      /\ \A part \in Parts(r.row.conf) :
           /\ <<j, r.row.name, part>> \in DOMAIN table'
           /\ table'[<<j, r.row.name, part>>] = r.row.conf
  BY <1>3, <1>4, <1>5, UpsertEffect
<1>8. IsForTrunk(j) /\ IsTurn(t, j, s) /\ trunk' \in [Trunks -> Rows \cup {NoTrunk}]
      /\ file' \in Files /\ loaded' \in Files /\ (Realtime)'
  BY <1>1, <1>3, <1>4, <1>5, <1>6, <1>7, NoTrunkIsNoRow, ForTrunk DEF IsTurn, Realtime
<1>9. j \notin disturbed => r.row = trunk[j] /\ trunk[j].apply = "applying" /\ Served(j)'
  BY <1>1, <1>3, <1>4, <1>5, <1>7 DEF Knows, Served, Parts
<1>10. RequestHolds(s)'
  <2>1. IsAtItsPlace(s)'
    BY <1>3, <1>4, <1>6, NoTrunkIsNoRow DEF IsAtItsPlace, BeforeCommit
  <2>2. IsIntended(s)'
    BY <1>6 DEF IsIntended, BeforeCommit
  <2>3. Knows(s)'
    BY <1>3, <1>6, <1>9 DEF Knows, BeforeCommit
  <2>4. QED
    BY <1>8, <2>1, <2>2, <2>3 DEF RequestHolds, KnowsFile
<1>11. ASSUME j \notin disturbed'
       PROVE  TrunkHolds(j)'
  <2>1. j \notin disturbed /\ RowsAreNamed(j) /\ KeepsItsRow(j)
    BY <1>3, <1>4, <1>11 DEF TrunkHolds
  <2>2. RowsAreNamed(j)'
    BY <1>3, <1>4, <1>7, <1>9, <2>1, NamedStays, NoTrunkIsNoRow
  <2>3. RowsAreGone(j)' /\ IsServed(j)'
    BY <1>3, <1>9, <2>1 DEF RowsAreGone, IsServed, IsDeleted
  <2>4. KeepsItsRow(j)'
    BY <1>3, <2>1 DEF KeepsItsRow, IsSnapshotOf
  <2>5. QED
    BY <2>2, <2>3, <2>4 DEF TrunkHolds
<1>12. FileServes'
  BY <1>8 DEF FileServes
<1>13. AtWork(j)'
  BY <1>3, <1>4, <1>6, <1>8, AtWorkStays
<1>14. QED
  BY <1>4, <1>6, <1>7, <1>8, <1>10, <1>11, <1>12, <1>13, StepOfRequest

LEMMA AppliedStep ==
  ASSUME IInv, NEW t \in Threads, Applied(t)
  PROVE  CoreHolds'
<1>1. PICK r, j : r = req[t] /\ j = r.trunk
  OBVIOUS
<1>2. PICK s \in Requests : s = Idle
  BY EmptyIsTyped
<1>3. /\ r.pc \in {"active", "failed"} /\ req' = [req EXCEPT ![t] = s]
      /\ trunk' = [trunk EXCEPT ![j].apply = r.pc]
      /\ UNCHANGED <<mode, table, file, loaded, begun, disturbed, renamed, stranded>>
  BY <1>1, <1>2 DEF Applied, End, Set
<1>4. /\ r \in Requests /\ RequestHolds(r) /\ IsAtItsPlace(r) /\ Knows(r)
      /\ j \in Trunks /\ trunk \in [Trunks -> Rows \cup {NoTrunk}] /\ trunk[j] \in Rows
      /\ file \in Files /\ loaded \in Files /\ TablesHold /\ r.op # "create" /\ IsPurging(r)
      /\ j \notin disturbed => TrunkHolds(j)
      /\ IsAlone(t, j)
  BY <1>1, <1>3, AtRequest
<1>5. r.op = "reload"
  BY <1>3, <1>4 DEF IsAtItsPlace, Requests
<1>6. /\ trunk'[j] = [trunk[j] EXCEPT !.apply = r.pc]
      /\ \A i \in Trunks \ {j} : trunk'[i] = trunk[i]
      /\ trunk' \in [Trunks -> Rows \cup {NoTrunk}] /\ trunk'[j] \in Rows
      /\ trunk'[j].name = trunk[j].name /\ trunk'[j].conf = trunk[j].conf
      /\ trunk'[j].active = trunk[j].active /\ trunk'[j].apply = r.pc
      /\ trunk'[j].prev = trunk[j].prev
  <2>1. /\ trunk'[j] = [trunk[j] EXCEPT !.apply = r.pc]
        /\ \A i \in Trunks \ {j} : trunk'[i] = trunk[i]
        /\ DOMAIN trunk' = Trunks
        /\ trunk' = [i \in Trunks |-> trunk'[i]]
    BY <1>3, <1>4
  <2>2. [trunk[j] EXCEPT !.apply = r.pc] \in Rows
    BY <1>3, <1>4 DEF Rows, Statuses
  <2>3. trunk' \in [Trunks -> Rows \cup {NoTrunk}]
    BY <1>4, <2>1, <2>2
  <2>4. QED
    BY <1>4, <2>1, <2>2, <2>3 DEF Rows
<1>7. /\ TablesHold' /\ OnlyOf(j, None)
  BY <1>3, <1>4, TableStays
<1>9. IsForTrunk(j) /\ IsTurn(t, j, s)
  BY <1>1, <1>2, <1>3, <1>4, <1>6, <1>7, NoTrunkIsNoRow, EmptyIsTyped, ForTrunk DEF IsTurn
<1>10. RequestHolds(s)'
  BY <1>2, IdleHolds
<1>11. ASSUME j \notin disturbed'
       PROVE  TrunkHolds(j)'
  <2>1. j \notin disturbed /\ RowsAreNamed(j) /\ KeepsItsRow(j)
    BY <1>3, <1>4, <1>11 DEF TrunkHolds
  <2>2. RowsAreNamed(j)'
    BY <1>3, <1>6, <1>4, <2>1, NoTrunkIsNoRow DEF RowsAreNamed, Realtime
  <2>3. RowsAreGone(j)'
    BY <1>3, <1>6 DEF RowsAreGone, IsDeleted
  <2>4. KeepsItsRow(j)'
    BY <1>6, <2>1 DEF KeepsItsRow, IsSnapshotOf
  <2>5. IsServed(j)'
    <3>1. CASE r.pc = "failed"
      BY <3>1, <1>6 DEF IsServed
    <3>2. CASE r.pc = "active" /\ Realtime
      <4>1. Served(j)
        BY <1>1, <1>4, <1>5, <2>1, <3>2 DEF Knows
      <4>2. Served(j)'
        BY <4>1, <1>3, <1>6 DEF Served, Parts
      <4>3. QED
        BY <3>2, <4>2, <1>3 DEF IsServed, Realtime
    <3>3. CASE r.pc = "active" /\ ~ Realtime
      <4>1. KnowsFile(r, j)
        BY <1>4, <2>1 DEF RequestHolds
      <4>2. loaded[j] = Rendered[j]
        BY <1>1, <3>3, <4>1 DEF KnowsFile
      <4>3. Rendered'[j] = Rendered[j]
        BY <1>4, <1>6 DEF Rendered
      <4>4. QED
        BY <3>3, <4>2, <4>3, <1>3 DEF IsServed, Realtime
    <3>4. QED
      BY <3>1, <3>2, <3>3, <1>3
  <2>6. QED
    BY <2>2, <2>3, <2>4, <2>5 DEF TrunkHolds
<1>12. FileServes'
  BY <1>3, <1>4, <1>9, <1>11, FileStays DEF TrunkHolds
<1>13. AtWork(j)'
  BY <1>3, <1>6 DEF AtWork
<1>14. QED
  BY <1>3, <1>4, <1>6, <1>7, <1>9, <1>10, <1>11, <1>12, <1>13, StepOfRequest

LEMMA ResyncOutsideStep ==
  ASSUME IInv, NEW t \in Threads, ResyncOutside(t)
  PROVE  CoreHolds'
<1>1. PICK r, j : r = req[t] /\ j = r.trunk
  OBVIOUS
<1>2. PICK s : s = [r EXCEPT !.pc = "restore"]
  OBVIOUS
<1>3. /\ r.pc = "resync" /\ req' = [req EXCEPT ![t] = s] /\ table' = Upsert(j, r.new)
      /\ UNCHANGED <<mode, trunk, file, loaded, begun, disturbed, renamed, stranded>>
  BY <1>1, <1>2 DEF ResyncOutside, Goto
<1>4. /\ r \in Requests /\ RequestHolds(r) /\ IsAtItsPlace(r) /\ IsIntended(r) /\ Knows(r)
      /\ j \in Trunks /\ trunk \in [Trunks -> Rows \cup {NoTrunk}] /\ trunk[j] \in Rows
      /\ file \in Files /\ loaded \in Files /\ TablesHold /\ r.op # "create" /\ IsPurging(r)
      /\ j \notin disturbed => TrunkHolds(j)
      /\ IsAlone(t, j)
  BY <1>1, <1>3, AtRequest
<1>5. r.op = "rollback" /\ mode = "external" /\ r.row \in Rows /\ r.new \in Rows
  BY <1>3, <1>4 DEF IsAtItsPlace, Requests, BeforeCommit, Realtime
<1>6. /\ s \in Requests /\ s.pc = "restore" /\ s.op = "rollback" /\ s.trunk = j
      /\ s.row = r.row /\ s.new = r.new
  BY <1>1, <1>2, <1>4, <1>5, GotoIs DEF Places
<1>7. /\ TablesHold' /\ OnlyOf(j, r.new.name)
      /\ \A part \in Parts(r.new.conf) :
           /\ <<j, r.new.name, part>> \in DOMAIN table'
           /\ table'[<<j, r.new.name, part>>] = r.new.conf
  BY <1>3, <1>4, <1>5, UpsertEffect
<1>8. IsForTrunk(j) /\ IsTurn(t, j, s) /\ trunk' \in [Trunks -> Rows \cup {NoTrunk}]
      /\ file' \in Files /\ loaded' \in Files /\ Realtime /\ (Realtime)'
  BY <1>1, <1>3, <1>4, <1>5, <1>6, <1>7, NoTrunkIsNoRow, ForTrunk DEF IsTurn, Realtime
<1>9. IsSnapshotOf(r.row.prev, r.new)
  BY <1>3, <1>4, <1>5 DEF IsIntended, BeforeCommit
<1>10. ASSUME j \notin disturbed
       PROVE  r.row = trunk[j] /\ r.new.name = trunk[j].name /\ r.new.conf = trunk[j].conf
  <2>1. r.row = trunk[j] /\ KeepsItsRow(j)
    BY <1>1, <1>3, <1>4, <1>10 DEF Knows, BeforeCommit, TrunkHolds
  <2>2. QED
    BY <1>9, <2>1 DEF KeepsItsRow, IsSnapshotOf
<1>11. RequestHolds(s)'
  <2>1. IsAtItsPlace(s)'
    BY <1>3, <1>4, <1>5, <1>6, NoTrunkIsNoRow DEF IsAtItsPlace, BeforeCommit
  <2>2. IsIntended(s)'
    BY <1>3, <1>4, <1>5, <1>6 DEF IsIntended, BeforeCommit, IsSnapshotOf
  <2>3. Knows(s)'
    BY <1>3, <1>6, <1>10 DEF Knows, BeforeCommit
  <2>4. QED
    BY <1>8, <2>1, <2>2, <2>3 DEF RequestHolds, KnowsFile
<1>12. ASSUME j \notin disturbed'
       PROVE  TrunkHolds(j)'
  <2>1. j \notin disturbed /\ RowsAreNamed(j) /\ KeepsItsRow(j)
    BY <1>3, <1>4, <1>12 DEF TrunkHolds
  <2>2. RowsAreNamed(j)'
    BY <1>3, <1>4, <1>7, <1>10, <2>1, NamedStays, NoTrunkIsNoRow
  <2>3. IsRestored(j)'
    <3>1. req'[t] = s
      BY <1>3 DEF IInv, CoreHolds, RowsHold
    <3>2. QED
      BY <1>3, <1>5, <1>6, <3>1 DEF IsRestored
  <2>4. Served(j)'
    BY <1>3, <1>7, <1>10, <2>1 DEF Served, Parts
  <2>5. RowsAreGone(j)' /\ IsServed(j)'
    BY <1>8, <2>3, <2>4 DEF RowsAreGone, IsServed
  <2>6. KeepsItsRow(j)'
    BY <1>3, <2>1 DEF KeepsItsRow, IsSnapshotOf
  <2>7. QED
    BY <2>2, <2>5, <2>6 DEF TrunkHolds
<1>13. FileServes'
  BY <1>8 DEF FileServes
<1>14. AtWork(j)'
  BY <1>1, <1>3, <1>4, <1>5, <1>8, AtWorkStays
<1>15. QED
  BY <1>4, <1>6, <1>7, <1>8, <1>11, <1>12, <1>13, <1>14, StepOfRequest

LEMMA RestoreStep ==
  ASSUME IInv, NEW t \in Threads, Restore(t)
  PROVE  CoreHolds'
<1>1. PICK r, j : r = req[t] /\ j = r.trunk
  OBVIOUS
<1>2. PICK s : s = [Expired(r) EXCEPT !.pc = "ami"]
  OBVIOUS
<1>3. /\ r.pc = "restore" /\ req' = [req EXCEPT ![t] = s]
      /\ SaveRow(j, r.row, r.new)
      /\ IF mode = "shared" THEN table' = Upsert(j, r.new) ELSE table' = table
      /\ UNCHANGED <<mode, file, loaded, begun, disturbed, stranded>>
  BY <1>1, <1>2 DEF Restore, Goto
<1>4. /\ r \in Requests /\ RequestHolds(r) /\ IsAtItsPlace(r) /\ IsIntended(r) /\ Knows(r)
      /\ j \in Trunks /\ trunk \in [Trunks -> Rows \cup {NoTrunk}] /\ trunk[j] \in Rows
      /\ mode \in Modes
      /\ file \in Files /\ loaded \in Files /\ TablesHold /\ r.op # "create" /\ IsPurging(r)
      /\ j \notin disturbed => TrunkHolds(j)
      /\ IsAlone(t, j)
  BY <1>1, <1>3, AtRequest
<1>5. r.op = "rollback" /\ r.row \in Rows /\ r.new \in Rows
  BY <1>3, <1>4 DEF IsAtItsPlace, Requests, BeforeCommit, Realtime
<1>6. /\ trunk' \in [Trunks -> Rows \cup {NoTrunk}] /\ trunk'[j] \in Rows
      /\ \A i \in Trunks \ {j} : trunk'[i] = trunk[i]
      /\ renamed \subseteq renamed'
      /\ j \notin renamed' => trunk'[j].name = trunk[j].name
      /\ trunk[j] = r.row => trunk'[j] = r.new
      /\ trunk'[j].apply = IF r.new.apply # r.row.apply THEN r.new.apply ELSE trunk[j].apply
  <2>1. RowsHold
    BY DEF IInv, CoreHolds
  <2>2. QED
    BY <2>1, <1>3, <1>4, <1>5, SaveEffect
<1>7. TablesHold' /\ OnlyOf(j, r.new.name)
  <2>1. CASE mode = "shared"
    BY <2>1, <1>3, <1>4, <1>5, UpsertEffect
  <2>2. CASE mode # "shared"
    BY <2>2, <1>3, <1>4, TableStays
  <2>3. QED
    BY <2>1, <2>2
<1>8. s \in Requests /\ s.pc = "ami" /\ s.op = "rollback" /\ s.trunk = j
  BY <1>1, <1>2, <1>4, <1>5, ExpiredIs, GotoIs DEF Places
<1>9. /\ IsTurn(t, j, s) /\ IsForTrunk(j)
  BY <1>1, <1>3, <1>4, <1>6, <1>7, <1>8, NoTrunkIsNoRow, ForTrunk DEF IsTurn
<1>10. /\ r.new.apply = "rolled_back" /\ IsSnapshotOf(r.row.prev, r.new)
       /\ r.new.prev = r.row.prev
  BY <1>3, <1>4, <1>5 DEF IsIntended, BeforeCommit
<1>11. ASSUME j \notin disturbed
       PROVE  r.row = trunk[j] /\ trunk'[j] = r.new /\ r.new.name = trunk[j].name
  <2>1. r.row = trunk[j] /\ KeepsItsRow(j)
    BY <1>1, <1>3, <1>4, <1>11 DEF Knows, BeforeCommit, TrunkHolds
  <2>2. QED
    BY <1>6, <1>10, <2>1 DEF KeepsItsRow, IsSnapshotOf
<1>12. ASSUME ~ Realtime, NEW i \in Trunks \ disturbed
       PROVE  FALSE
  <2>1. KnowsFile(r, i)
    BY <1>4, <1>12 DEF RequestHolds
  <2>2. QED
    BY <1>5, <1>12, <2>1 DEF KnowsFile
<1>13. RequestHolds(s)'
  <2>1. IsAtItsPlace(s)'
    BY <1>3, <1>4, <1>6, <1>8, NoTrunkIsNoRow DEF IsAtItsPlace, BeforeCommit
  <2>2. IsIntended(s)'
    BY <1>8 DEF IsIntended, BeforeCommit
  <2>3. Knows(s)'
    BY <1>8 DEF Knows, BeforeCommit
  <2>4. ASSUME NEW i \in Trunks \ disturbed'
        PROVE  KnowsFile(s, i)'
    BY <1>3, <1>12 DEF KnowsFile, Realtime
  <2>5. QED
    BY <2>1, <2>2, <2>3, <2>4 DEF RequestHolds
<1>14. ASSUME j \notin disturbed'
       PROVE  TrunkHolds(j)'
  <2>1. j \notin disturbed /\ RowsAreNamed(j)
    BY <1>3, <1>4, <1>14 DEF TrunkHolds
  <2>2. RowsAreNamed(j)'
    BY <1>3, <1>4, <1>6, <1>7, <1>11, <2>1, NamedStays, NoTrunkIsNoRow
  <2>3. RowsAreGone(j)' /\ IsServed(j)'
    BY <1>10, <1>11, <2>1 DEF RowsAreGone, IsServed, IsDeleted
  <2>4. KeepsItsRow(j)'
    BY <1>10, <1>11, <2>1 DEF KeepsItsRow
  <2>5. QED
    BY <2>2, <2>3, <2>4 DEF TrunkHolds
<1>15. FileServes'
  BY <1>3, <1>12 DEF FileServes, Realtime
<1>16. AtWork(j)'
  <2>1. trunk'[j].apply = "applying" => trunk[j].apply = "applying"
    BY <1>6, <1>10
  <2>2. QED
    BY <1>1, <1>3, <1>4, <1>5, <1>9, <2>1, AtWorkStays
<1>17. QED
  BY <1>3, <1>4, <1>6, <1>7, <1>8, <1>9, <1>13, <1>14, <1>15, <1>16, StepOfRequest

-----------------------------------------------------------------------------
(* A request to create takes an id that no request is about.                *)
LEMMA CreateStep ==
  ASSUME IInv, NEW t \in Threads, NEW k \in Trunks, CreateSipTrunk(t, k)
  PROVE  CoreHolds'
<1>1. PICK business \in Businesses \cup {None}, name \in Names, conf \in Confs,
           active \in BOOLEAN :
        /\ req[t].pc = "idle" /\ trunk[k] = NoTrunk
        /\ \A u \in Threads : req[u].trunk # k
        /\ Goto(t, [Idle EXCEPT !.op = "create", !.trunk = k, !.new =
             [business |-> business, name |-> name, conf |-> conf, active |-> active,
              apply |-> "pending", prev |-> NoSnapshot]], "insert")
        /\ UNCHANGED <<mode, trunk, table, file, loaded, begun, disturbed, renamed, stranded>>
  BY DEF CreateSipTrunk
<1>2. PICK new : new = [business |-> business, name |-> name, conf |-> conf, active |-> active,
                        apply |-> "pending", prev |-> NoSnapshot]
  OBVIOUS
<1>3. new \in Rows /\ new.apply = "pending" /\ new.prev.kind = "none"
  BY <1>2, EmptyIsTyped, NoTrunkIsNoRow DEF Rows, Statuses, NoSnapshot
<1>4. PICK s : s = [[Idle EXCEPT !.op = "create", !.trunk = k, !.new = new]
                      EXCEPT !.pc = "insert"]
  OBVIOUS
<1>5. req' = [req EXCEPT ![t] = s]
  BY <1>1, <1>2, <1>4 DEF Goto
<1>6. /\ s \in Requests /\ s.pc = "insert" /\ s.op = "create" /\ s.trunk = k
      /\ s.row = NoTrunk /\ s.new = new
  BY <1>3, <1>4, EmptyIsTyped DEF Idle, Requests, Places
<1>7. RequestHolds(s)'
  BY <1>1, <1>3, <1>6
  DEF RequestHolds, IsAtItsPlace, IsIntended, Knows, KnowsFile, BeforeCommit
<1>8. req[t].op = "none"
  BY <1>1, IdleThread
<1>9. QED
  BY <1>1, <1>5, <1>6, <1>7, <1>8, AsideStep

(* A new trunk has no other request, and no rows in the tables.             *)
LEMMA InsertStep ==
  ASSUME IInv, NEW t \in Threads, Insert(t)
  PROVE  CoreHolds'
<1>1. PICK r, k : r = req[t] /\ k = r.trunk
  OBVIOUS
<1>2. RowsHold /\ RequestsHold /\ RequestsAreAlone /\ TrunksHold /\ ApplyingIsAtWork
  BY DEF IInv, CoreHolds
<1>3. /\ r.pc = "insert" /\ trunk' = [trunk EXCEPT ![k] = r.new]
      /\ req' = [req EXCEPT ![t] = Idle]
      /\ UNCHANGED <<mode, table, file, loaded, begun, disturbed, renamed, stranded>>
  BY <1>1 DEF Insert, End
<1>4. trunk \in [Trunks -> Rows \cup {NoTrunk}] /\ req \in [Threads -> Requests]
  BY <1>2 DEF RowsHold
<1>5. /\ r.op = "create" /\ k \in Trunks /\ trunk[k] = NoTrunk
      /\ r.new \in Rows /\ r.new.apply = "pending" /\ r.new.prev.kind = "none"
  <2>1. IsAtItsPlace(r) /\ r \in Requests
    BY <1>1, <1>2, <1>4 DEF RequestsHold
  <2>2. r.op = "create"
    BY <1>3, <2>1 DEF IsAtItsPlace, Requests
  <2>3. QED
    BY <1>1, <1>3, <2>1, <2>2 DEF IsAtItsPlace
<1>6. /\ trunk'[k] = r.new /\ \A i \in Trunks \ {k} : trunk'[i] = trunk[i]
      /\ trunk' \in [Trunks -> Rows \cup {NoTrunk}] /\ trunk'[k] # NoTrunk
  BY <1>3, <1>4, <1>5, NoTrunkIsNoRow
<1>7. /\ req'[t] = Idle /\ \A u \in Threads \ {t} : req'[u] = req[u]
      /\ req' \in [Threads -> Requests]
  BY <1>3, <1>4, EmptyIsTyped
<1>8. IsOnlyFor(k) /\ (Realtime)' = Realtime
  BY <1>3, <1>6 DEF IsOnlyFor, Realtime
<1>9. \A u \in Threads \ {t} : req[u].pc # "idle" => req[u].trunk # k
  BY <1>1, <1>2, <1>5 DEF RequestsAreAlone
<1>10. RowsHold'
  BY <1>2, <1>3, <1>6, <1>7 DEF RowsHold
<1>11. RequestsHold'
  <2> SUFFICES ASSUME NEW u \in Threads
               PROVE  RequestHolds(req[u])'
    BY DEF RequestsHold, RequestHolds
  <2>1. CASE u = t
    <3>1. RequestHolds(Idle)'
      BY IdleHolds
    <3>2. QED
      BY <2>1, <3>1, <1>7
      DEF RequestHolds, IsAtItsPlace, IsIntended, Knows, KnowsFile, IsSnapshotOf, HasPassed
  <2>2. CASE u # t
    <3>1. PICK q, j : q = req[u] /\ j = q.trunk
      OBVIOUS
    <3>2. /\ IsAtItsPlace(q) /\ IsIntended(q) /\ Knows(q)
          /\ \A i \in Trunks \ disturbed : KnowsFile(q, i)
      BY <1>2, <3>1 DEF RequestsHold
    <3>3. q.pc # "idle" => j \in Trunks /\ j # k
      BY <1>9, <2>2, <3>1, <3>2 DEF IsAtItsPlace
    <3>4. IsAtItsPlace(q)'
      BY <1>3, <1>6, <1>8, <3>1, <3>2, <3>3 DEF IsAtItsPlace
    <3>5. Knows(q)'
      <4> SUFFICES ASSUME q.pc # "idle", j \notin disturbed
                   PROVE  Knows(q)'
        BY <1>3, <3>1 DEF Knows
      <4>1. /\ trunk'[j] = trunk[j]
            /\ Served(j) => Served(j)'
            /\ \A n : RowsOf(j, n)' = RowsOf(j, n)
        BY <1>8, <3>3, <1>5, OtherTrunk
      <4>2. RowsOf(j, trunk[j].name) = RowsOf(j, trunk[j].name)'
        BY <4>1 DEF RowsOf
      <4>3. HasPassed(q) => HasPassed(q)'
        BY <1>3 DEF HasPassed
      <4>4. QED
        BY <1>3, <1>8, <3>1, <3>2, <4>1, <4>2, <4>3 DEF Knows
    <3>6. ASSUME NEW i \in Trunks \ disturbed'
          PROVE  KnowsFile(q, i)'
      <4>1. KnowsFile(q, i)
        BY <1>3, <3>2
      <4>2. CASE i = k
        <5>1. trunk[k].apply # "active" /\ trunk'[k].apply # "active"
          BY <1>5, <1>6, NoTrunkIsNoRow
        <5>2. q.pc # "idle" => q.trunk # k
          BY <3>1, <3>3
        <5>3. QED
          BY <4>1, <4>2, <5>1, <5>2, <1>3, <1>8 DEF KnowsFile
      <4>3. CASE i # k
        <5>1. trunk'[i] = trunk[i] /\ Rendered'[i] = Rendered[i]
          BY <1>5, <1>8, <4>3, OtherTrunk
        <5>2. QED
          BY <4>1, <5>1, <1>3, <1>8 DEF KnowsFile
      <4>4. QED
        BY <4>2, <4>3
    <3>7. req'[u] = q
      BY <1>7, <2>2, <3>1
    <3>8. QED
      BY <3>2, <3>4, <3>5, <3>6, <3>7
      DEF RequestHolds, IsAtItsPlace, IsIntended, IsSnapshotOf, Knows, KnowsFile, HasPassed
  <2>3. QED
    BY <2>1, <2>2
<1>12. RequestsAreAlone'
  BY <1>2, <1>3, <1>7, <1>8, EmptyIsTyped DEF RequestsAreAlone, IsBusy
<1>13. TrunksHold'
  <2> SUFFICES ASSUME NEW i \in Trunks, i \notin disturbed
               PROVE  TrunkHolds(i)'
    BY <1>3 DEF TrunksHold
  <2>1. RowsAreNamed(i) /\ RowsAreGone(i) /\ IsServed(i) /\ KeepsItsRow(i)
    BY <1>2 DEF TrunksHold, TrunkHolds
  <2>2. CASE i = k
    <3>1. RowsAreNamed(k)'
      <4> SUFFICES ASSUME Realtime, k \notin renamed, NEW key \in DOMAIN table, key[1] = k
                   PROVE  FALSE
        BY <1>3, <1>8 DEF RowsAreNamed
      <4>1. trunk[k] # NoTrunk
        BY <2>1, <2>2 DEF RowsAreNamed
      <4>2. QED
        BY <1>5, <4>1
    <3>2. RowsAreGone(k)' /\ IsServed(k)' /\ KeepsItsRow(k)'
      BY <1>5, <1>6 DEF RowsAreGone, IsDeleted, IsServed, KeepsItsRow
    <3>3. QED
      BY <2>2, <3>1, <3>2 DEF TrunkHolds
  <2>3. CASE i # k
    <3>1. /\ trunk'[i] = trunk[i] /\ Rendered'[i] = Rendered[i]
          /\ Served(i) => Served(i)'
          /\ \A n : RowsOf(i, n)' = RowsOf(i, n)
          /\ RowsAreNamed(i)' /\ KeepsItsRow(i)'
      BY <1>5, <1>8, <2>1, <2>3, OtherTrunk
    <3>2. /\ IsRestored(i) => IsRestored(i)'
          /\ IsPurged(i) => IsPurged(i)'
      BY <1>1, <1>3, <1>5, <1>7 DEF IsRestored, IsPurged
    <3>3. RowsAreGone(i)'
      BY <1>3, <1>8, <2>1, <3>1, <3>2 DEF RowsAreGone, IsDeleted
    <3>4. IsServed(i)'
      BY <1>3, <1>8, <2>1, <3>1, <3>2 DEF IsServed
    <3>5. QED
      BY <3>1, <3>3, <3>4 DEF TrunkHolds
  <2>4. QED
    BY <2>2, <2>3
<1>14. ApplyingIsAtWork'
  BY <1>1, <1>2, <1>3, <1>5, <1>6, <1>7 DEF ApplyingIsAtWork
<1>15. QED
  BY <1>10, <1>11, <1>12, <1>13, <1>14 DEF CoreHolds

(* The trunks that requests were at when the process ended are disturbed.    *)
LEMMA CrashStep ==
  ASSUME IInv, Crash
  PROVE  CoreHolds'
<1> DEFINE working == {t \in Threads : req[t].pc # "idle"}
<1>1. /\ req' = [t \in Threads |-> Idle]
      /\ disturbed' = disturbed \cup {req[t].trunk : t \in {u \in working : req[u].op # "create"}}
      /\ stranded' = stranded \cup {req[t].trunk : t \in {u \in working : req[u].op = "reload"}}
      /\ UNCHANGED <<mode, trunk, table, file, loaded, begun, renamed>>
  BY DEF Crash
<1>2. RowsHold /\ RequestsHold /\ RequestsAreAlone /\ TrunksHold
      /\ ApplyingIsAtWork
  BY DEF IInv, CoreHolds
<1>3. RowsHold'
  BY <1>1, <1>2, EmptyIsTyped DEF RowsHold
<1>4. RequestsHold'
  <2> SUFFICES ASSUME NEW t \in Threads
               PROVE  RequestHolds(req[t])'
    BY DEF RequestsHold, RequestHolds
  <2>1. req'[t] = Idle
    BY <1>1
  <2>2. RequestHolds(Idle)'
    BY IdleHolds
  <2>3. QED
    BY <2>1, <2>2
    DEF RequestHolds, IsAtItsPlace, IsIntended, Knows, KnowsFile, IsSnapshotOf, HasPassed
<1>5. RequestsAreAlone'
  BY <1>1, EmptyIsTyped DEF RequestsAreAlone, IsBusy
<1>6. TrunksHold'
  <2> SUFFICES ASSUME NEW i \in Trunks, i \notin disturbed'
               PROVE  TrunkHolds(i)'
    BY DEF TrunksHold
  <2>1. RowsAreNamed(i) /\ RowsAreGone(i) /\ IsServed(i) /\ KeepsItsRow(i)
    BY <1>1, <1>2 DEF TrunksHold, TrunkHolds
  <2>2. \A t \in Threads : req[t].pc # "idle" /\ req[t].op # "create" => req[t].trunk # i
    BY <1>1
  <2>3. ~ IsRestored(i)
    BY <2>2, <1>2 DEF IsRestored, RequestsHold, IsAtItsPlace
  <2>4. ~ IsPurged(i)
    BY <2>2 DEF IsPurged
  <2>5. RowsAreNamed(i)' /\ KeepsItsRow(i)'
    BY <1>1, <2>1 DEF RowsAreNamed, KeepsItsRow, IsSnapshotOf, Realtime
  <2>6. RowsAreGone(i)'
    BY <1>1, <2>1, <2>3 DEF RowsAreGone, IsDeleted, RowsOf, Realtime
  <2>7. IsServed(i)'
    BY <1>1, <2>1, <2>4 DEF IsServed, Served, Parts, Rendered, Realtime
  <2>8. QED
    BY <2>5, <2>6, <2>7 DEF TrunkHolds
<1>8. ApplyingIsAtWork'
  <2> SUFFICES ASSUME NEW k \in Trunks \ stranded', trunk[k].apply = "applying"
               PROVE  FALSE
    BY <1>1 DEF ApplyingIsAtWork
  <2>1. PICK t \in Threads : req[t].op = "reload" /\ req[t].trunk = k
    BY <1>1, <1>2 DEF ApplyingIsAtWork
  <2>2. req[t].pc # "idle"
    BY <1>2, <2>1 DEF RequestsHold, IsAtItsPlace
  <2>3. QED
    BY <1>1, <2>1, <2>2
<1>9. QED
  BY <1>3, <1>4, <1>5, <1>6, <1>8 DEF CoreHolds

-----------------------------------------------------------------------------
(* Names. Until a request has committed, it holds on to the row it read and  *)
(* to what it will write.                                                   *)
Uncommitted == BeforeCommit \cup {"insert"}

GoesOn(r, s) ==
  s.pc \in Uncommitted =>
    /\ r.pc \in Uncommitted /\ (s.pc = "insert" => r.pc = "insert")
    /\ r.pc = "insert" => s.pc = "insert"
    /\ s.row = r.row /\ s.new = r.new /\ s.trunk = r.trunk

(* Names stay as they are where no row gets another, and none is to.         *)
LEMMA NamesStay ==
  ASSUME IInv, clashed' = clashed,
         \A k \in Trunks :
           /\ trunk'[k] = NoTrunk <=> trunk[k] = NoTrunk
           /\ trunk'[k].name = trunk[k].name /\ trunk'[k].business = trunk[k].business,
         \A u \in Threads : GoesOn(req[u], req'[u])
  PROVE  NamesHold'
<1>1. NamesHold /\ RequestsHold
  BY DEF IInv, CoreHolds
<1>2. NamesAreUnique'
  BY <1>1 DEF NamesHold, NamesAreUnique
<1>3. ASSUME NEW u \in Threads
      PROVE  KeepsBusiness(req[u])'
  <2> SUFFICES ASSUME req'[u].pc \in BeforeCommit
               PROVE  /\ req'[u].row.business = trunk'[req'[u].trunk].business
                      /\ req'[u].new.business = req'[u].row.business
    BY DEF KeepsBusiness
  <2>1. /\ req[u].pc \in BeforeCommit /\ req'[u].row = req[u].row
        /\ req'[u].new = req[u].new /\ req'[u].trunk = req[u].trunk
    BY DEF GoesOn, Uncommitted, BeforeCommit
  <2>2. KeepsBusiness(req[u]) /\ IsAtItsPlace(req[u])
    BY <1>1 DEF NamesHold, RequestsHold
  <2>3. req[u].trunk \in Trunks
    BY <2>1, <2>2 DEF IsAtItsPlace, BeforeCommit
  <2>4. QED
    BY <2>1, <2>2, <2>3 DEF KeepsBusiness
<1>4. ASSUME NEW u \in Threads, IsNaming(req[u])'
      PROVE  /\ IsNaming(req[u]) /\ req'[u].new.name = req[u].new.name
             /\ req'[u].trunk = req[u].trunk
  BY <1>4 DEF IsNaming, GoesOn, Uncommitted
<1>5. ASSUME NEW u \in Threads, IsNaming(req[u])'
      PROVE  IsFree(req[u].new.name, req[u].trunk)'
  <2>1. PICK name, j : name = req[u].new.name /\ j = req[u].trunk
    OBVIOUS
  <2>2. IsFree(name, j)
    BY <1>1, <1>4, <1>5, <2>1 DEF NamesHold
  <2>3. req'[u].new.name = name /\ req'[u].trunk = j
    BY <1>4, <1>5, <2>1
  <2>4. QED
    BY <2>2, <2>3 DEF IsFree
<1>6. ASSUME NEW u \in Threads, NEW v \in Threads, IsNaming(req[u])', IsNaming(req[v])'
      PROVE  Differ(req[u], req[v])'
  <2>1. Differ(req[u], req[v])
    BY <1>1, <1>4, <1>6 DEF NamesHold
  <2>2. QED
    BY <2>1, <1>4, <1>6 DEF Differ
<1>7. QED
  BY <1>2, <1>3, <1>5, <1>6 DEF NamesHold

(* The commit of a row whose name was kept free, or is the one it had.       *)
Commits(r, j, row) ==
  /\ j = r.trunk /\ j \in Trunks /\ row \in Rows
  /\ trunk'[j] = row /\ \A i \in Trunks \ {j} : trunk'[i] = trunk[i]
  /\ row.business = None \/ ~ IsTaken(j, row.business, row.name)
  /\ trunk[j] # NoTrunk => row.business = trunk[j].business
  /\ \/ trunk[j] # NoTrunk /\ row.name = trunk[j].name
     \/ row.business = None => IsNaming(r) /\ row.name = r.new.name

LEMMA NamesAreCommitted ==
  ASSUME IInv, NEW t \in Threads, NEW r, r = req[t], NEW j, NEW row, Commits(r, j, row),
         NEW s, s.pc \notin Uncommitted, req' = [req EXCEPT ![t] = s], clashed' = clashed
  PROVE  NamesHold'
<1>1. NamesHold /\ RequestsHold /\ RowsHold
  BY DEF IInv, CoreHolds
<1>2. req'[t] = s /\ \A u \in Threads \ {t} : req'[u] = req[u]
  BY <1>1 DEF RowsHold
<1>3. /\ j = r.trunk /\ j \in Trunks /\ row \in Rows /\ row # NoTrunk
      /\ trunk'[j] = row /\ \A i \in Trunks \ {j} : trunk'[i] = trunk[i]
      /\ row.business = None \/ ~ IsTaken(j, row.business, row.name)
      /\ trunk[j] # NoTrunk => row.business = trunk[j].business
      /\ \/ trunk[j] # NoTrunk /\ row.name = trunk[j].name
         \/ row.business = None => IsNaming(r) /\ row.name = r.new.name
  BY NoTrunkIsNoRow DEF Commits
<1>4. ASSUME NEW i \in Trunks \ {j}, trunk[i] # NoTrunk,
             trunk[i].business = row.business, trunk[i].name = row.name
      PROVE  row.business = None /\ (row.name = Blank \/ i \in clashed \/ j \in clashed)
  <2>1. row.business = None
    BY <1>3, <1>4 DEF IsTaken
  <2>2. CASE trunk[j] # NoTrunk /\ row.name = trunk[j].name
    BY <1>1, <1>3, <1>4, <2>1, <2>2 DEF NamesHold, NamesAreUnique
  <2>3. CASE IsNaming(r) /\ row.name = r.new.name
    <3>1. IsFree(row.name, j)
      BY <1>1, <1>3, <2>3 DEF NamesHold
    <3>2. QED
      BY <1>4, <2>1, <3>1 DEF IsFree
  <2>4. QED
    BY <1>3, <2>1, <2>2, <2>3
<1>5. NamesAreUnique'
  <2> SUFFICES ASSUME NEW i \in Trunks, NEW k \in Trunks, i # k,
                      trunk'[i] # NoTrunk, trunk'[k] # NoTrunk,
                      trunk'[i].business = trunk'[k].business, trunk'[i].name = trunk'[k].name
               PROVE  /\ trunk'[i].business = None
                      /\ trunk'[i].name = Blank \/ i \in clashed \/ k \in clashed
    BY DEF NamesAreUnique
  <2>1. CASE i = j
    BY <1>3, <1>4, <2>1
  <2>2. CASE k = j
    BY <1>3, <1>4, <2>2
  <2>3. CASE i # j /\ k # j
    BY <1>1, <1>3, <2>3 DEF NamesHold, NamesAreUnique
  <2>4. QED
    BY <2>1, <2>2, <2>3
<1>6. ASSUME NEW u \in Threads
      PROVE  KeepsBusiness(req[u])'
  <2>1. CASE u = t
    BY <1>2, <2>1 DEF KeepsBusiness, Uncommitted
  <2>2. CASE u # t
    <3> SUFFICES ASSUME req[u].pc \in BeforeCommit
                 PROVE  /\ req[u].row.business = trunk'[req[u].trunk].business
                        /\ req[u].new.business = req[u].row.business
      BY <1>2, <2>2 DEF KeepsBusiness
    <3>1. KeepsBusiness(req[u]) /\ IsAtItsPlace(req[u])
      BY <1>1 DEF NamesHold, RequestsHold
    <3>2. req[u].trunk \in Trunks /\ trunk[req[u].trunk] # NoTrunk
      BY <3>1 DEF IsAtItsPlace, BeforeCommit
    <3>3. QED
      BY <1>3, <3>1, <3>2 DEF KeepsBusiness
  <2>3. QED
    BY <2>1, <2>2
<1>7. ASSUME NEW u \in Threads, IsNaming(req[u])'
      PROVE  u # t /\ req'[u] = req[u] /\ IsNaming(req[u])
  BY <1>2, <1>7 DEF IsNaming, Uncommitted
<1>8. ASSUME NEW u \in Threads, IsNaming(req[u])'
      PROVE  IsFree(req[u].new.name, req[u].trunk)'
  <2>1. PICK name, k : name = req[u].new.name /\ k = req[u].trunk
    OBVIOUS
  <2>2. req'[u].new.name = name /\ req'[u].trunk = k
    BY <1>7, <1>8, <2>1
  <2>3. IsFree(name, k)
    BY <1>1, <1>7, <1>8, <2>1 DEF NamesHold
  <2>4. ASSUME j # k, row.business = None, row.name = name
        PROVE  name = Blank \/ k \in clashed \/ j \in clashed
    <3>1. CASE trunk[j] # NoTrunk /\ row.name = trunk[j].name
      BY <1>3, <2>3, <2>4, <3>1 DEF IsFree
    <3>2. CASE IsNaming(r) /\ row.name = r.new.name
      <4>1. Differ(r, req[u])
        BY <1>1, <1>7, <1>8, <3>2 DEF NamesHold
      <4>2. QED
        BY <1>3, <2>1, <2>4, <3>2, <4>1 DEF Differ
    <3>3. QED
      BY <1>3, <2>4, <3>1, <3>2
  <2>5. IsFree(name, k)'
    <3> SUFFICES ASSUME name # Blank, k \notin clashed, NEW i \in Trunks \ {k},
                        trunk'[i] # NoTrunk, trunk'[i].business = None, trunk'[i].name = name
                 PROVE  i \in clashed
      BY DEF IsFree
    <3>1. CASE i = j
      BY <1>3, <2>4, <3>1
    <3>2. CASE i # j
      BY <1>3, <2>3, <3>2 DEF IsFree
    <3>3. QED
      BY <3>1, <3>2
  <2>6. QED
    BY <2>2, <2>5 DEF IsFree
<1>9. ASSUME NEW u \in Threads, NEW v \in Threads, IsNaming(req[u])', IsNaming(req[v])'
      PROVE  Differ(req[u], req[v])'
  <2>1. Differ(req[u], req[v]) /\ req'[u] = req[u] /\ req'[v] = req[v]
    BY <1>1, <1>7, <1>9 DEF NamesHold
  <2>2. QED
    BY <2>1 DEF Differ
<1>10. QED
  BY <1>5, <1>6, <1>8, <1>9 DEF NamesHold

(* A request that begins, with a name that is free or is noted to clash.     *)
LEMMA NamingBegins ==
  ASSUME IInv, NEW t \in Threads, NEW s, req' = [req EXCEPT ![t] = s], trunk' = trunk,
         clashed \subseteq clashed',
         s.pc \in BeforeCommit =>
           s.row.business = trunk[s.trunk].business /\ s.new.business = s.row.business,
         IsNaming(s) => IsFree(s.new.name, s.trunk)',
         IsNaming(s) => s.trunk \in clashed' \/ ~ Clashes(s.new.business, s.new.name)
  PROVE  NamesHold'
<1>1. NamesHold /\ RequestsHold /\ RowsHold
  BY DEF IInv, CoreHolds
<1>2. req'[t] = s /\ \A u \in Threads \ {t} : req'[u] = req[u]
  BY <1>1 DEF RowsHold
<1>3. NamesAreUnique'
  BY <1>1 DEF NamesHold, NamesAreUnique
<1>4. \A u \in Threads : KeepsBusiness(req[u])'
  BY <1>1, <1>2 DEF NamesHold, KeepsBusiness
<1>5. ASSUME NEW u \in Threads, IsNaming(req[u])'
      PROVE  IsFree(req[u].new.name, req[u].trunk)'
  <2>1. CASE u = t
    BY <1>2, <1>5, <2>1 DEF IsNaming, IsFree
  <2>2. CASE u # t
    <3>1. req'[u] = req[u] /\ IsNaming(req[u])
      BY <1>2, <1>5, <2>2 DEF IsNaming
    <3>2. IsFree(req[u].new.name, req[u].trunk)
      BY <1>1, <3>1 DEF NamesHold
    <3>3. QED
      BY <3>1, <3>2 DEF IsFree
  <2>3. QED
    BY <2>1, <2>2
<1>6. ASSUME NEW u \in Threads \ {t}, IsNaming(req[u])', IsNaming(s)
      PROVE  Differ(req[u], s)' /\ Differ(s, req[u])'
  <2>1. req'[u] = req[u] /\ IsNaming(req[u])
    BY <1>2, <1>6 DEF IsNaming
  <2>2. req[u].new.name = s.new.name => Clashes(s.new.business, s.new.name)
    BY <1>6, <2>1 DEF Clashes, IsNaming, BeforeCommit
  <2>3. QED
    BY <1>6, <2>1, <2>2 DEF Differ
<1>7. ASSUME NEW u \in Threads, NEW v \in Threads, IsNaming(req[u])', IsNaming(req[v])'
      PROVE  Differ(req[u], req[v])'
  <2>1. CASE u = t /\ v = t
    BY <2>1 DEF Differ
  <2>2. CASE u = t /\ v # t
    <3>1. IsNaming(s)
      BY <1>2, <1>7, <2>2 DEF IsNaming
    <3>2. QED
      BY <1>2, <1>6, <1>7, <2>2, <3>1 DEF Differ
  <2>3. CASE u # t /\ v = t
    <3>1. IsNaming(s)
      BY <1>2, <1>7, <2>3 DEF IsNaming
    <3>2. QED
      BY <1>2, <1>6, <1>7, <2>3, <3>1 DEF Differ
  <2>4. CASE u # t /\ v # t
    <3>1. /\ req'[u] = req[u] /\ req'[v] = req[v]
          /\ IsNaming(req[u]) /\ IsNaming(req[v])
      BY <1>2, <1>7, <2>4 DEF IsNaming
    <3>2. Differ(req[u], req[v])
      BY <1>1, <3>1 DEF NamesHold
    <3>3. QED
      BY <3>1, <3>2 DEF Differ
  <2>5. QED
    BY <2>1, <2>2, <2>3, <2>4
<1>8. QED
  BY <1>3, <1>4, <1>5, <1>7 DEF NamesHold

LEMMA BeginNames ==
  ASSUME IInv, NEW t \in Threads, NEW k \in Trunks, NEW op, NEW new, NEW pc \in BeforeCommit,
         Begin(t, k, op, new, pc),
         trunk[k] \in Rows => new.business = trunk[k].business,
         trunk[k] \in Rows =>
           op = "rollback" \/ new.name = trunk[k].name \/ IsAllowedName(k, new.name)
  PROVE  NamesHold'
<1>1. PICK s : s = [[Idle EXCEPT !.op = op, !.trunk = k, !.row = trunk[k], !.new = new]
                      EXCEPT !.pc = pc]
  OBVIOUS
<1>2. /\ req' = [req EXCEPT ![t] = s] /\ trunk[k] # NoTrunk /\ trunk' = trunk
      /\ clashed' = IF new.name # trunk[k].name
                          /\ (op = "rollback" \/ Clashes(new.business, new.name))
                      THEN clashed \cup {k} ELSE clashed
  BY <1>1 DEF Begin, Goto
<1>3. s.pc = pc /\ s.trunk = k /\ s.row = trunk[k] /\ s.new = new
  BY <1>1 DEF Idle
<1>4. trunk[k] \in Rows
  BY <1>2 DEF IInv, CoreHolds, RowsHold
<1>5. IsNaming(s) => IsFree(s.new.name, s.trunk)'
  <2> SUFFICES ASSUME new.name # trunk[k].name, new.name # Blank, k \notin clashed'
               PROVE  IsFree(new.name, k)'
    BY <1>3 DEF IsNaming, IsFree
  <2>1. trunk[k].business = None /\ ~ IsTaken(k, None, new.name)
    BY <1>2, <1>4 DEF IsAllowedName
  <2>2. \A i \in Trunks \ {k} : ~ (trunk[i].business = None /\ trunk[i].name = new.name)
    BY <2>1 DEF IsTaken
  <2>3. QED
    BY <1>2, <2>2 DEF IsFree
<1>6. IsNaming(s) => s.trunk \in clashed' \/ ~ Clashes(s.new.business, s.new.name)
  BY <1>2, <1>3 DEF IsNaming
<1>7. QED
  BY <1>2, <1>3, <1>4, <1>5, <1>6, NamingBegins

LEMMA UpdateNames ==
  ASSUME IInv, NEW t \in Threads, NEW k \in Trunks, UpdateSipTrunk(t, k)
  PROVE  NamesHold'
<1>1. PICK name \in Names, conf \in Confs, active \in BOOLEAN :
        /\ IsAllowedName(k, name)
        /\ Begin(t, k, "update",
             [trunk[k] EXCEPT !.name = name, !.conf = conf, !.active = active,
                              !.apply = "pending",
                              !.prev = Snapshot("columns", trunk[k], EmptyFile)], "save")
  BY DEF UpdateSipTrunk
<1>2. PICK new :
        new = [trunk[k] EXCEPT !.name = name, !.conf = conf, !.active = active,
                               !.apply = "pending",
                               !.prev = Snapshot("columns", trunk[k], EmptyFile)]
  OBVIOUS
<1>3. trunk[k] \in Rows => new.business = trunk[k].business /\ new.name = name
  BY <1>2 DEF Rows
<1>4. Begin(t, k, "update", new, "save") /\ "save" \in BeforeCommit
  BY <1>1, <1>2 DEF BeforeCommit
<1>5. QED
  BY <1>1, <1>3, <1>4, BeginNames

LEMMA DeleteNames ==
  ASSUME IInv, NEW t \in Threads, NEW k \in Trunks, DeleteSipTrunk(t, k)
  PROVE  NamesHold'
<1>1. PICK new : new = [trunk[k] EXCEPT !.active = FALSE, !.apply = "pending",
                                        !.prev = Snapshot("whole", trunk[k], file)]
  OBVIOUS
<1>2. PICK pc : pc = IF Realtime THEN "purge" ELSE "save"
  OBVIOUS
<1>3. trunk[k] \in Rows => new.business = trunk[k].business /\ new.name = trunk[k].name
  BY <1>1 DEF Rows
<1>4. Begin(t, k, "delete", new, pc) /\ pc \in BeforeCommit
  BY <1>1, <1>2 DEF DeleteSipTrunk, BeforeCommit
<1>5. QED
  BY <1>3, <1>4, BeginNames

LEMMA ReloadNames ==
  ASSUME IInv, NEW t \in Threads, NEW k \in Trunks, ReloadSipTrunk(t, k)
  PROVE  NamesHold'
<1>1. PICK new : new = [trunk[k] EXCEPT !.apply = "applying",
                                        !.prev = Snapshot("whole", trunk[k], file)]
  OBVIOUS
<1>2. trunk[k] \in Rows => new.business = trunk[k].business /\ new.name = trunk[k].name
  BY <1>1 DEF Rows
<1>3. Begin(t, k, "reload", new, "applying") /\ "applying" \in BeforeCommit
  BY <1>1 DEF ReloadSipTrunk, BeforeCommit
<1>4. QED
  BY <1>2, <1>3, BeginNames

LEMMA RollbackNames ==
  ASSUME IInv, NEW t \in Threads, NEW k \in Trunks, RollbackSipTrunk(t, k)
  PROVE  NamesHold'
<1>1. PICK new : new = [trunk[k] EXCEPT !.name = trunk[k].prev.name,
                                        !.conf = trunk[k].prev.conf,
                                        !.active = trunk[k].prev.active,
                                        !.apply = "rolled_back"]
  OBVIOUS
<1>2. PICK pc : pc = IF mode = "file" THEN "rewrite"
                     ELSE IF mode = "external" THEN "resync" ELSE "restore"
  OBVIOUS
<1>3. trunk[k] \in Rows => new.business = trunk[k].business
  BY <1>1 DEF Rows
<1>4. Begin(t, k, "rollback", new, pc) /\ pc \in BeforeCommit
  BY <1>1, <1>2 DEF RollbackSipTrunk, BeforeCommit
<1>5. QED
  BY <1>3, <1>4, BeginNames

LEMMA CreateNames ==
  ASSUME IInv, NEW t \in Threads, NEW k \in Trunks, CreateSipTrunk(t, k)
  PROVE  NamesHold'
<1>1. PICK business \in Businesses \cup {None}, name \in Names, conf \in Confs,
           active \in BOOLEAN :
        /\ trunk' = trunk /\ ~ IsTaken(k, business, name)
        /\ Goto(t, [Idle EXCEPT !.op = "create", !.trunk = k, !.new =
             [business |-> business, name |-> name, conf |-> conf, active |-> active,
              apply |-> "pending", prev |-> NoSnapshot]], "insert")
        /\ clashed' = IF Clashes(business, name) THEN clashed \cup {k} ELSE clashed
  BY DEF CreateSipTrunk
<1>2. PICK new : new = [business |-> business, name |-> name, conf |-> conf, active |-> active,
                        apply |-> "pending", prev |-> NoSnapshot]
  OBVIOUS
<1>3. PICK s : s = [[Idle EXCEPT !.op = "create", !.trunk = k, !.new = new]
                      EXCEPT !.pc = "insert"]
  OBVIOUS
<1>4. req' = [req EXCEPT ![t] = s]
  BY <1>1, <1>2, <1>3 DEF Goto
<1>5. /\ s.pc = "insert" /\ s.trunk = k /\ s.new = new
      /\ s.new.business = business /\ s.new.name = name
  BY <1>2, <1>3 DEF Idle
<1>6. IsNaming(s) => IsFree(s.new.name, s.trunk)'
  <2>1. business = None =>
          \A i \in Trunks \ {k} : ~ (trunk[i].business = None /\ trunk[i].name = name)
    BY <1>1 DEF IsTaken
  <2>2. QED
    BY <1>1, <1>5, <2>1 DEF IsNaming, IsFree
<1>7. IsNaming(s) => s.trunk \in clashed' \/ ~ Clashes(s.new.business, s.new.name)
  BY <1>1, <1>5
<1>8. s.pc \notin BeforeCommit /\ clashed \subseteq clashed'
  BY <1>1, <1>5 DEF BeforeCommit
<1>9. QED
  BY <1>1, <1>4, <1>6, <1>7, <1>8, NamingBegins

LEMMA InsertNames ==
  ASSUME IInv, NEW t \in Threads, Insert(t)
  PROVE  NamesHold'
<1>1. PICK r, j : r = req[t] /\ j = r.trunk
  OBVIOUS
<1>2. /\ r.pc = "insert" /\ trunk' = [trunk EXCEPT ![j] = r.new]
      /\ r.new.business = None \/ ~ IsTaken(j, r.new.business, r.new.name)
      /\ req' = [req EXCEPT ![t] = Idle] /\ clashed' = clashed
  BY <1>1 DEF Insert, End
<1>3. IsAtItsPlace(r) /\ r \in Requests /\ trunk \in [Trunks -> Rows \cup {NoTrunk}]
  BY <1>1 DEF IInv, CoreHolds, RowsHold, RequestsHold
<1>4. r.op = "create"
  BY <1>2, <1>3 DEF IsAtItsPlace, Requests
<1>5. /\ j \in Trunks /\ trunk[j] = NoTrunk /\ r.new \in Rows /\ r.row = NoTrunk
  BY <1>1, <1>2, <1>3, <1>4 DEF IsAtItsPlace
<1>6. trunk'[j] = r.new /\ \A i \in Trunks \ {j} : trunk'[i] = trunk[i]
  BY <1>2, <1>3, <1>5
<1>7. r.new.business = None => IsNaming(r)
  BY <1>2, <1>5, NoneIsOther, NoTrunkIsNoRow DEF IsNaming, Rows
<1>8. PICK s : s = Idle /\ s.pc \notin Uncommitted
  BY EmptyIsTyped DEF Uncommitted, BeforeCommit
<1>9. Commits(r, j, r.new)
  BY <1>1, <1>2, <1>5, <1>6, <1>7 DEF Commits
<1>10. QED
  BY <1>1, <1>2, <1>8, <1>9, NamesAreCommitted

(* What the commit of a request's row does to its name.                     *)
LEMMA SaveNames ==
  ASSUME IInv, NEW t \in Threads, NEW r, r = req[t], NEW j, j = r.trunk, r.pc \in BeforeCommit,
         SaveRow(j, r.row, r.new), NEW s, s.pc \notin Uncommitted,
         req' = [req EXCEPT ![t] = s], clashed' = clashed
  PROVE  NamesHold'
<1>1. r.pc \notin {"idle", "insert"}
  BY DEF BeforeCommit
<1>2. /\ r \in Requests /\ IsAtItsPlace(r) /\ j \in Trunks /\ trunk[j] \in Rows
      /\ trunk \in [Trunks -> Rows \cup {NoTrunk}]
  BY <1>1, AtRequest
<1>3. r.row \in Rows /\ r.new \in Rows /\ KeepsBusiness(r)
  BY <1>2 DEF IsAtItsPlace, IInv, NamesHold
<1>4. PICK row : row = Written(trunk[j], r.row, r.new)
  OBVIOUS
<1>5. /\ row \in Rows
      /\ row.name = IF r.new.name # r.row.name THEN r.new.name ELSE trunk[j].name
      /\ row.business = trunk[j].business
  BY <1>2, <1>3, <1>4, WrittenIsRow DEF KeepsBusiness
<1>6. /\ row.business = None \/ ~ IsTaken(j, row.business, row.name)
      /\ trunk' = [trunk EXCEPT ![j] = row]
  BY <1>4 DEF SaveRow
<1>7. trunk'[j] = row /\ \A i \in Trunks \ {j} : trunk'[i] = trunk[i]
  BY <1>2, <1>6
<1>8. \/ trunk[j] # NoTrunk /\ row.name = trunk[j].name
      \/ row.business = None => IsNaming(r) /\ row.name = r.new.name
  BY <1>2, <1>3, <1>5, NoTrunkIsNoRow DEF IsNaming, KeepsBusiness
<1>9. Commits(r, j, row)
  BY <1>2, <1>5, <1>6, <1>7, <1>8 DEF Commits
<1>10. QED
  BY <1>9, NamesAreCommitted

(* Names are kept by every step.                                            *)
LEMMA NextNames ==
  ASSUME IInv, [Next]_vars
  PROVE  NamesHold'
<1>1. ASSUME NEW t \in Threads, NEW k \in Trunks,
             CreateSipTrunk(t, k) \/ UpdateSipTrunk(t, k) \/ DeleteSipTrunk(t, k)
               \/ ReloadSipTrunk(t, k) \/ RollbackSipTrunk(t, k)
      PROVE  NamesHold'
  BY <1>1, CreateNames, UpdateNames, DeleteNames, ReloadNames, RollbackNames
<1>2. ASSUME NEW t \in Threads, Insert(t)
      PROVE  NamesHold'
  BY <1>2, InsertNames
<1>3. ASSUME NEW t \in Threads, Save(t) \/ Applying(t) \/ Restore(t)
      PROVE  NamesHold'
  <2>1. PICK r, j : r = req[t] /\ j = r.trunk
    OBVIOUS
  <2>2. r.pc \in BeforeCommit /\ SaveRow(j, r.row, r.new) /\ clashed' = clashed
    BY <1>3, <2>1 DEF Save, Applying, Restore, BeforeCommit
  <2>3. PICK s : s.pc \notin Uncommitted /\ req' = [req EXCEPT ![t] = s]
    <3>1. Idle.pc = "idle"
      BY EmptyIsTyped
    <3>2. \A pc : [Expired(r) EXCEPT !.pc = pc].pc = pc
      BY DEF Expired, Idle
    <3>3. \/ req' = [req EXCEPT ![t] = Idle]
          \/ \E pc \in {"read", "render", "ami"} :
               req' = [req EXCEPT ![t] = [Expired(r) EXCEPT !.pc = pc]]
      BY <1>3, <2>1 DEF Save, Applying, Restore, End, Goto
    <3>4. QED
      BY <3>1, <3>2, <3>3 DEF Uncommitted, BeforeCommit
  <2>4. QED
    BY <2>1, <2>2, <2>3, SaveNames
<1>4. ASSUME NEW t \in Threads, Applied(t)
      PROVE  NamesHold'
  <2>1. PICK r, j : r = req[t] /\ j = r.trunk
    OBVIOUS
  <2>2. /\ r.pc \in {"active", "failed"} /\ trunk' = [trunk EXCEPT ![j].apply = r.pc]
        /\ req' = [req EXCEPT ![t] = Idle] /\ clashed' = clashed
    BY <1>4, <2>1 DEF Applied, Set, End
  <2>3. j \in Trunks /\ trunk[j] \in Rows /\ trunk \in [Trunks -> Rows \cup {NoTrunk}]
    BY <2>1, <2>2, AtRequest
  <2>4. PICK row : row = [trunk[j] EXCEPT !.apply = r.pc]
    OBVIOUS
  <2>5. row.name = trunk[j].name /\ row.business = trunk[j].business /\ row \in Rows
    BY <2>2, <2>3, <2>4 DEF Rows, Statuses
  <2>6. trunk'[j] = row /\ \A i \in Trunks \ {j} : trunk'[i] = trunk[i]
    BY <2>2, <2>3, <2>4
  <2>7. \A k \in Trunks :
          /\ trunk'[k] = NoTrunk <=> trunk[k] = NoTrunk
          /\ trunk'[k].name = trunk[k].name /\ trunk'[k].business = trunk[k].business
    BY <2>3, <2>5, <2>6, NoTrunkIsNoRow
  <2>8. \A u \in Threads : GoesOn(req[u], req'[u])
    <3>1. \A u \in Threads : req'[u] = IF u = t THEN Idle ELSE req[u]
      BY <2>2 DEF IInv, CoreHolds, RowsHold
    <3>2. QED
      BY <3>1, EmptyIsTyped DEF GoesOn, Uncommitted, BeforeCommit
  <2>9. QED
    BY <2>2, <2>7, <2>8, NamesStay
<1>5. ASSUME NEW t \in Threads,
             \/ PurgePart(t) \/ PurgeOutside(t) \/ Fail(t)
             \/ SyncFails(t) \/ TablesAreUnreachable(t)
             \/ ReadRow(t) \/ UpsertTrunk(t) \/ Render(t) \/ WriteConfig(t)
             \/ PjsipReload(t) \/ ResyncOutside(t) \/ RewriteConfig(t)
      PROVE  NamesHold'
  <2>1. PICK r : r = req[t] /\ r \in Requests
    BY DEF IInv, CoreHolds, RowsHold
  <2>2. trunk' = trunk /\ clashed' = clashed
    BY <1>5 DEF PurgePart, PurgeOutside, Fail, SyncFails, TablesAreUnreachable, ReadRow,
                UpsertTrunk, Render, WriteConfig, PjsipReload, ResyncOutside, RewriteConfig
  <2>3. PICK s : req' = [req EXCEPT ![t] = s] /\ GoesOn(r, s)
    <3>1. CASE Fail(t) \/ TablesAreUnreachable(t)
      BY <3>1, EmptyIsTyped DEF Fail, TablesAreUnreachable, End, GoesOn, Uncommitted,
                                BeforeCommit
    <3>2. CASE SyncFails(t) \/ UpsertTrunk(t) \/ WriteConfig(t)
      <4>1. \A pc : [Expired(r) EXCEPT !.pc = pc].pc = pc
        BY DEF Expired, Idle
      <4>2. \E pc \in {"failed", "ami"} : req' = [req EXCEPT ![t] = [Expired(r) EXCEPT !.pc = pc]]
        BY <2>1, <3>2 DEF SyncFails, UpsertTrunk, WriteConfig, Goto
      <4>3. QED
        BY <4>1, <4>2 DEF GoesOn, Uncommitted, BeforeCommit
    <3>3. CASE ReadRow(t) \/ Render(t)
      <4>1. \A x : /\ [[r EXCEPT !.row = x] EXCEPT !.pc = "upsert"].pc = "upsert"
                   /\ [[r EXCEPT !.content = x] EXCEPT !.pc = "write"].pc = "write"
        BY <2>1 DEF Requests
      <4>2. \E x : \/ req' = [req EXCEPT ![t] = [[r EXCEPT !.row = x] EXCEPT !.pc = "upsert"]]
                   \/ req' = [req EXCEPT ![t] = [[r EXCEPT !.content = x] EXCEPT !.pc = "write"]]
        BY <2>1, <3>3 DEF ReadRow, Render, Goto
      <4>3. QED
        BY <4>1, <4>2 DEF GoesOn, Uncommitted, BeforeCommit
    <3>4. CASE PjsipReload(t)
      <4>1. \/ req' = [req EXCEPT ![t] = Idle]
            \/ \E told \in {"active", "failed"} : req' = [req EXCEPT ![t] = [r EXCEPT !.pc = told]]
        BY <2>1, <3>4 DEF PjsipReload, End, Goto
      <4>2. \A told : [r EXCEPT !.pc = told].pc = told
        BY <2>1 DEF Requests
      <4>3. QED
        BY <4>1, <4>2, EmptyIsTyped DEF GoesOn, Uncommitted, BeforeCommit
    <3>5. CASE PurgePart(t) \/ PurgeOutside(t)
      <4>1. r.pc \in BeforeCommit /\ r.pc # "insert"
        BY <2>1, <3>5 DEF PurgePart, PurgeOutside, BeforeCommit
      <4>2. \E at, gone : \E pc \in {"purge", "save"} :
              req' = [req EXCEPT ![t] = [[r EXCEPT !.at = at, !.gone = gone] EXCEPT !.pc = pc]]
        <5>1. CASE PurgePart(t)
          BY <2>1, <5>1 DEF PurgePart, Goto, Requests
        <5>2. CASE PurgeOutside(t)
          <6>1. req' = [req EXCEPT ![t] = [[r EXCEPT !.gone = {}] EXCEPT !.pc = "save"]]
            BY <2>1, <5>2 DEF PurgeOutside, Goto
          <6>2. [r EXCEPT !.gone = {}] = [r EXCEPT !.at = r.at, !.gone = {}]
            BY <2>1 DEF Requests
          <6>3. QED
            BY <6>1, <6>2
        <5>3. QED
          BY <3>5, <5>1, <5>2
      <4>3. PICK at, gone, pc, s :
              /\ pc \in {"purge", "save"} /\ req' = [req EXCEPT ![t] = s]
              /\ s = [[r EXCEPT !.at = at, !.gone = gone] EXCEPT !.pc = pc]
        BY <4>2
      <4>4. s.pc = pc /\ s.row = r.row /\ s.new = r.new /\ s.trunk = r.trunk
        BY <2>1, <4>3 DEF Requests
      <4>5. QED
        BY <4>1, <4>3, <4>4 DEF GoesOn, Uncommitted, BeforeCommit
    <3>6. CASE ResyncOutside(t) \/ RewriteConfig(t)
      <4>1. r.pc \in BeforeCommit /\ req' = [req EXCEPT ![t] = [r EXCEPT !.pc = "restore"]]
        BY <2>1, <3>6 DEF ResyncOutside, RewriteConfig, Goto, BeforeCommit
      <4>2. PICK s : s = [r EXCEPT !.pc = "restore"]
        OBVIOUS
      <4>3. s.pc = "restore" /\ s.row = r.row /\ s.new = r.new /\ s.trunk = r.trunk
        BY <2>1, <4>2, GotoIs DEF Places
      <4>4. QED
        BY <4>1, <4>2, <4>3 DEF GoesOn, Uncommitted, BeforeCommit
    <3>7. QED
      BY <1>5, <3>1, <3>2, <3>3, <3>4, <3>5, <3>6
  <2>4. \A u \in Threads : GoesOn(req[u], req'[u])
    <3>1. \A u \in Threads : req'[u] = IF u = t THEN s ELSE req[u]
      BY <2>3 DEF IInv, CoreHolds, RowsHold
    <3>2. QED
      BY <2>1, <2>3, <3>1 DEF GoesOn
  <2>5. QED
    BY <2>2, <2>4, NamesStay
<1>6. CASE Crash
  <2>1. trunk' = trunk /\ clashed' = clashed /\ req' = [t \in Threads |-> Idle]
    BY <1>6 DEF Crash
  <2>2. \A u \in Threads : GoesOn(req[u], req'[u])
    BY <2>1, EmptyIsTyped DEF GoesOn, Uncommitted, BeforeCommit
  <2>3. QED
    BY <2>1, <2>2, NamesStay
<1>7. CASE UNCHANGED vars
  <2>1. trunk' = trunk /\ clashed' = clashed /\ req' = req
    BY <1>7 DEF vars
  <2>2. \A u \in Threads : GoesOn(req[u], req'[u])
    BY <2>1 DEF GoesOn
  <2>3. QED
    BY <2>1, <2>2, NamesStay
<1>8. QED
  BY <1>1, <1>2, <1>3, <1>4, <1>5, <1>6, <1>7 DEF Next

-----------------------------------------------------------------------------
(* Deletions. What the tables hold for one name of a trunk.                  *)
WholeAt(k, name) ==
  LET rows == RowsOf(k, name) IN
  \/ rows = {}
  \/ \E conf \in Confs :
       /\ rows \subseteq {<<k, name, part>> : part \in Parts(conf)}
       /\ \A key \in rows : table[key] = conf
       /\ IsCutOff(k, name, conf)
       /\ \/ <<k, name>> \in torn
          \/ rows = {<<k, name, part>> : part \in Parts(conf)}

PurgeHolds(r) ==
  IsPurging(r) /\ DeletesFirst(r) /\ IsUntorn(r) /\ r.gone \subseteq DOMAIN table

LEMMA PurgesAre ==
  PurgesHold <=>
    /\ \A k \in Trunks : \A name \in Names : WholeAt(k, name)
    /\ \A t \in Threads : PurgeHolds(req[t])
    /\ \A t, u \in Threads : t # u => req[t].gone \cap req[u].gone = {}
BY DEF PurgesHold, EndpointsAreWhole, WholeAt, PurgeHolds

(* Where the rows of a name of a trunk are as they were.                    *)
LEMMA WholeStays ==
  ASSUME NEW k, NEW name, WholeAt(k, name),
         \A key : IsOf(key, k, name) =>
           /\ key \in DOMAIN table' <=> key \in DOMAIN table
           /\ key \in DOMAIN table => table'[key] = table[key],
         <<k, name>> \in torn => <<k, name>> \in torn'
  PROVE  WholeAt(k, name)'
<1>1. RowsOf(k, name)' = RowsOf(k, name)
  BY DEF RowsOf, IsOf
<1>2. \A key \in RowsOf(k, name) : table'[key] = table[key]
  BY DEF RowsOf, IsOf
<1>3. CASE RowsOf(k, name) = {}
  BY <1>1, <1>3 DEF WholeAt
<1>4. CASE RowsOf(k, name) # {}
  <2>1. PICK conf \in Confs :
          /\ RowsOf(k, name) \subseteq {<<k, name, part>> : part \in Parts(conf)}
          /\ \A key \in RowsOf(k, name) : table[key] = conf
          /\ IsCutOff(k, name, conf)
          /\ \/ <<k, name>> \in torn
             \/ RowsOf(k, name) = {<<k, name, part>> : part \in Parts(conf)}
    BY <1>4 DEF WholeAt
  <2>2. IsCutOff(k, name, conf)'
    <3>1. \A i \in DOMAIN PurgeOrder :
            <<k, name, PurgeOrder[i]>> \in DOMAIN table'
              <=> <<k, name, PurgeOrder[i]>> \in DOMAIN table
      BY DEF IsOf
    <3>2. QED
      BY <2>1, <3>1 DEF IsCutOff, Parts
  <2>3. Parts(conf)' = Parts(conf)
    BY DEF Parts
  <2>4. QED
    BY <1>1, <1>2, <2>1, <2>2, <2>3 DEF WholeAt
<1>5. QED
  BY <1>3, <1>4

(* A request with nothing deleted, and nothing it has to have gone through.  *)
LEMMA NothingPurged ==
  ASSUME NEW s, s.gone = {}, s.at = 0, ~ (s.op = "delete" /\ s.pc = "save" /\ Realtime),
         mode' = mode
  PROVE  PurgeHolds(s)'
<1>1. IsPurging(s)'
  BY DEF IsPurging, Realtime
<1>2. DeletesFirst(s)' /\ IsUntorn(s)'
  BY DEF DeletesFirst, IsUntorn, HasPassed
<1>3. QED
  BY <1>1, <1>2 DEF PurgeHolds

(* Steps that write no table, of requests that delete nothing.              *)
LEMMA PurgesStay ==
  ASSUME IInv, NEW t \in Threads, NEW s, req' = [req EXCEPT ![t] = s],
         UNCHANGED <<mode, table, torn>>, s.gone = {}, PurgeHolds(s)'
  PROVE  PurgesHold'
<1>1. /\ \A k \in Trunks : \A name \in Names : WholeAt(k, name)
      /\ \A u \in Threads : PurgeHolds(req[u])
      /\ \A u, v \in Threads : u # v => req[u].gone \cap req[v].gone = {}
  BY PurgesAre DEF IInv
<1>2. req'[t] = s /\ \A u \in Threads \ {t} : req'[u] = req[u]
  BY DEF IInv, CoreHolds, RowsHold
<1>3. \A k \in Trunks : \A name \in Names : WholeAt(k, name)'
  BY <1>1, WholeStays
<1>4. ASSUME NEW u \in Threads
      PROVE  PurgeHolds(req[u])'
  <2>1. CASE u = t
    BY <1>2, <2>1 DEF PurgeHolds, IsPurging, DeletesFirst, IsUntorn, HasPassed, Realtime
  <2>2. CASE u # t
    <3>1. PurgeHolds(req[u]) /\ req'[u] = req[u]
      BY <1>1, <1>2, <2>2
    <3>2. QED
      BY <3>1 DEF PurgeHolds, IsPurging, DeletesFirst, IsUntorn, HasPassed, Realtime
  <2>3. QED
    BY <2>1, <2>2
<1>5. \A u, v \in Threads : u # v => (req[u].gone \cap req[v].gone = {})'
  BY <1>1, <1>2
<1>6. QED
  BY <1>3, <1>4, <1>5 DEF PurgesHold, EndpointsAreWhole, WholeAt, PurgeHolds

(* The commit of a deletion: the rows of its name are gone, or those that are *)
(* left were written in between, and come first.                            *)
LEMMA PurgeIsCommitted ==
  ASSUME IInv, NEW t \in Threads, NEW r, r = req[t], r.gone # {} => r.at = 5,
         table' = Purged(r), UNCHANGED <<mode, torn>>,
         NEW s, req' = [req EXCEPT ![t] = s], s.gone = {}, PurgeHolds(s)'
  PROVE  PurgesHold'
<1>1. /\ \A k \in Trunks : \A name \in Names : WholeAt(k, name)
      /\ \A u \in Threads : PurgeHolds(req[u])
      /\ \A u, v \in Threads : u # v => req[u].gone \cap req[v].gone = {}
  BY PurgesAre DEF IInv
<1>2. req'[t] = s /\ (\A u \in Threads \ {t} : req'[u] = req[u]) /\ TablesHold
  BY DEF IInv, CoreHolds, RowsHold, TablesHold
<1>3. /\ DOMAIN table' = DOMAIN table \ r.gone
      /\ \A key \in DOMAIN table' : table'[key] = table[key]
  BY DEF Purged
<1>4. /\ IsPurging(r) /\ DeletesFirst(r) /\ IsUntorn(r)
      /\ \A key \in r.gone : IsOf(key, r.trunk, r.row.name)
  BY <1>1 DEF PurgeHolds, IsPurging, IsOf
<1>5. ASSUME NEW k \in Trunks, NEW name \in Names
      PROVE  WholeAt(k, name)'
  <2>0. WholeAt(k, name)
    BY <1>1
  <2>1. CASE r.gone = {} \/ ~ (k = r.trunk /\ name = r.row.name)
    <3>1. \A key : IsOf(key, k, name) => key \notin r.gone
      BY <1>4, <2>1 DEF IsOf
    <3>2. \A key : IsOf(key, k, name) =>
            /\ key \in DOMAIN table' <=> key \in DOMAIN table
            /\ key \in DOMAIN table => table'[key] = table[key]
      BY <1>3, <3>1
    <3>3. QED
      BY <2>0, <3>2, WholeStays
  <2>2. CASE r.gone # {} /\ k = r.trunk /\ name = r.row.name
    <3>1. CASE <<k, name>> \notin torn
      <4>1. HasPassed(r) /\ r.at = 5
        BY <1>4, <2>2, <3>1 DEF IsUntorn
      <4>2. RowsOf(k, name)' = {}
        <5>1. RowsOf(r.trunk, r.row.name)' = {}
          BY <1>2, <4>1, PurgeIsDone
        <5>2. QED
          BY <2>2, <5>1 DEF RowsOf
      <4>3. QED
        BY <4>2 DEF WholeAt
    <3>2. CASE <<k, name>> \in torn /\ RowsOf(k, name)' # {}
      <4>1. RowsOf(k, name)' \subseteq RowsOf(k, name)
        BY <1>3 DEF RowsOf
      <4>2. PICK conf \in Confs :
              /\ RowsOf(k, name) \subseteq {<<k, name, part>> : part \in Parts(conf)}
              /\ \A key \in RowsOf(k, name) : table[key] = conf
              /\ IsCutOff(k, name, conf)
        BY <2>0, <3>2, <4>1 DEF WholeAt
      <4>3. /\ RowsOf(k, name)' \subseteq {<<k, name, part>> : part \in Parts(conf)}
            /\ \A key \in RowsOf(k, name)' : table'[key] = conf
        BY <1>3, <4>1, <4>2 DEF RowsOf
      <4>4. IsCutOff(k, name, conf)'
        <5> SUFFICES ASSUME NEW i \in 1..5, NEW j \in 1..5, i < j,
                            PurgeOrder[i] \in Parts(conf),
                            <<k, name, PurgeOrder[j]>> \in DOMAIN table'
                     PROVE  <<k, name, PurgeOrder[i]>> \in DOMAIN table'
          BY OrderIs DEF IsCutOff, Parts
        <5>1. <<k, name, PurgeOrder[j]>> \in DOMAIN table \ r.gone
          BY <1>3
        <5>2. <<k, name, PurgeOrder[i]>> \in DOMAIN table
          BY <4>2, <5>1, OrderIs DEF IsCutOff
        <5>3. <<k, name, PurgeOrder[i]>> \in r.gone => j < i
          BY <1>4, <2>2, <5>1 DEF DeletesFirst
        <5>4. QED
          BY <1>3, <5>2, <5>3
      <4>5. QED
        BY <3>2, <4>3, <4>4 DEF WholeAt, Parts
    <3>3. CASE RowsOf(k, name)' = {}
      BY <3>3 DEF WholeAt
    <3>4. QED
      BY <3>1, <3>2, <3>3
  <2>3. QED
    BY <2>1, <2>2
<1>6. ASSUME NEW u \in Threads
      PROVE  PurgeHolds(req[u])'
  <2>1. CASE u = t
    BY <1>2, <2>1 DEF PurgeHolds, IsPurging, DeletesFirst, IsUntorn, HasPassed, Realtime
  <2>2. CASE u # t
    <3>1. PurgeHolds(req[u]) /\ req'[u] = req[u] /\ req[u].gone \cap r.gone = {}
      BY <1>1, <1>2, <2>2
    <3>2. req[u].gone \subseteq DOMAIN table'
      BY <1>3, <3>1 DEF PurgeHolds
    <3>3. DOMAIN table' \subseteq DOMAIN table
      BY <1>3
    <3>4. QED
      BY <3>1, <3>2, <3>3
      DEF PurgeHolds, IsPurging, DeletesFirst, IsUntorn, HasPassed, Realtime
  <2>3. QED
    BY <2>1, <2>2
<1>7. \A u, v \in Threads : u # v => (req[u].gone \cap req[v].gone = {})'
  BY <1>1, <1>2
<1>8. QED
  BY <1>5, <1>6, <1>7 DEF PurgesHold, EndpointsAreWhole, WholeAt, PurgeHolds

(* Rows are written of a name whose rows no one has deleted, uncommitted.    *)
LEMMA UpsertPurges ==
  ASSUME IInv, NEW t \in Threads, NEW k \in Trunks, NEW row \in Rows,
         MayUpsert(t, k, row.name), table' = Upsert(k, row), torn' = Torn(k, row.name),
         mode' = mode, req[t].gone = {},
         NEW s, req' = [req EXCEPT ![t] = s], s.gone = {}, PurgeHolds(s)'
  PROVE  PurgesHold'
<1> DEFINE n == row.name
<1>1. /\ \A i \in Trunks : \A name \in Names : WholeAt(i, name)
      /\ \A u \in Threads : PurgeHolds(req[u])
      /\ \A u, v \in Threads : u # v => req[u].gone \cap req[v].gone = {}
  BY PurgesAre DEF IInv
<1>2. /\ req'[t] = s /\ (\A u \in Threads \ {t} : req'[u] = req[u]) /\ TablesHold
      /\ req \in [Threads -> Requests]
  BY DEF IInv, CoreHolds, RowsHold, TablesHold
<1>3. /\ OnlyOf(k, n)
      /\ \A key : IsOf(key, k, n) =>
           (key \in DOMAIN table' <=> \E part \in Parts(row.conf) : key = <<k, n, part>>)
      /\ \A part \in Parts(row.conf) :
           <<k, n, part>> \in DOMAIN table' /\ table'[<<k, n, part>>] = row.conf
  BY <1>2, UpsertEffect
<1>4. \A pair : pair # <<k, n>> => (pair \in torn' <=> pair \in torn)
  BY DEF Torn
<1>5. <<k, n>> \notin torn' =>
        \A u \in Threads : ~ /\ req[u].pc = "purge" /\ req[u].trunk = k /\ req[u].row.name = n
                             /\ 0 < req[u].at /\ req[u].at < 5
  BY OrderIs DEF Torn
<1>6. ASSUME NEW i \in Trunks, NEW name \in Names
      PROVE  WholeAt(i, name)'
  <2>1. CASE i = k /\ name = n
    <3>1. RowsOf(k, n)' = {<<k, n, part>> : part \in Parts(row.conf)}
      BY <1>3 DEF RowsOf, IsOf
    <3>2. \A key \in RowsOf(k, n)' : table'[key] = row.conf
      BY <1>3, <3>1
    <3>3. IsCutOff(k, n, row.conf)'
      BY <1>3, OrderIs DEF IsCutOff, Parts
    <3>4. row.conf \in Confs
      BY DEF Rows
    <3>5. WholeAt(k, n)'
      BY <3>1, <3>2, <3>3, <3>4 DEF WholeAt, Parts
    <3>6. QED
      BY <2>1, <3>5 DEF WholeAt, RowsOf, IsCutOff
  <2>2. CASE ~ (i = k /\ name = n)
    <3>1. \A key : IsOf(key, i, name) => ~ IsOf(key, k, n)
      BY <2>2 DEF IsOf
    <3>2. \A key : IsOf(key, i, name) =>
            /\ key \in DOMAIN table' <=> key \in DOMAIN table
            /\ key \in DOMAIN table => table'[key] = table[key]
      BY <1>3, <3>1 DEF OnlyOf
    <3>3. <<i, name>> \in torn => <<i, name>> \in torn'
      BY <1>4, <2>2
    <3>4. WholeAt(i, name)
      BY <1>1
    <3>5. QED
      BY <3>2, <3>3, <3>4, WholeStays
  <2>3. QED
    BY <2>1, <2>2
<1>7. ASSUME NEW u \in Threads
      PROVE  PurgeHolds(req[u])'
  <2>1. CASE u = t
    BY <1>2, <2>1 DEF PurgeHolds, IsPurging, DeletesFirst, IsUntorn, HasPassed, Realtime
  <2>2. CASE u # t
    <3>1. PICK q : q = req[u]
      OBVIOUS
    <3>2. /\ IsPurging(q) /\ DeletesFirst(q) /\ IsUntorn(q) /\ q.gone \subseteq DOMAIN table
          /\ q \in Requests /\ q = req'[u]
      BY <1>1, <1>2, <2>2, <3>1 DEF PurgeHolds
    <3>3. IsPurging(q)'
      BY <3>2 DEF IsPurging, Realtime
    <3>4. \A key \in q.gone : IsOf(key, q.trunk, q.row.name)
      BY <3>2 DEF IsPurging, IsOf
    <3>5. CASE q.trunk = k /\ q.row.name = n
      <4>1. q.gone = {}
        <5>1. \A key \in q.gone : key \in RowsOf(k, n)
          BY <3>2, <3>4, <3>5 DEF RowsOf, IsOf
        <5>2. q.gone \subseteq LockedRows(t)
          BY <2>2, <3>1 DEF LockedRows
        <5>3. QED
          BY <5>1, <5>2 DEF MayUpsert
      <4>2. DeletesFirst(q)'
        BY <4>1 DEF DeletesFirst
      <4>3. IsUntorn(q)'
        <5> SUFFICES ASSUME <<k, n>> \notin torn', q.at < 5
                     PROVE  HasPassed(q)'
          BY <3>5, <4>1 DEF IsUntorn
        <5>1. ~ (0 < q.at)
          BY <1>5, <3>1, <3>2, <3>5 DEF IsPurging
        <5>2. q.at = 0
          BY <3>2, <5>1 DEF Requests
        <5>3. QED
          BY <5>2 DEF HasPassed
      <4>4. QED
        BY <3>2, <3>3, <4>1, <4>2, <4>3
        DEF PurgeHolds, IsPurging, DeletesFirst, IsUntorn, HasPassed, Realtime
    <3>6. CASE ~ (q.trunk = k /\ q.row.name = n)
      <4>1. \A part : <<q.trunk, q.row.name, part>> \in DOMAIN table'
                        <=> <<q.trunk, q.row.name, part>> \in DOMAIN table
        BY <1>3, <3>6 DEF OnlyOf, IsOf
      <4>2. q.gone \subseteq DOMAIN table'
        BY <1>3, <3>2, <3>4, <3>6 DEF OnlyOf, IsOf
      <4>3. DeletesFirst(q)'
        BY <3>2, <4>1 DEF DeletesFirst
      <4>4. IsUntorn(q)'
        BY <1>4, <3>2, <3>6, <4>1 DEF IsUntorn, HasPassed
      <4>5. QED
        BY <3>2, <3>3, <4>2, <4>3, <4>4
        DEF PurgeHolds, IsPurging, DeletesFirst, IsUntorn, HasPassed, Realtime
    <3>7. QED
      BY <3>5, <3>6
  <2>3. QED
    BY <2>1, <2>2
<1>8. \A u, v \in Threads : u # v => (req[u].gone \cap req[v].gone = {})'
  BY <1>1, <1>2
<1>9. QED
  BY <1>6, <1>7, <1>8 DEF PurgesHold, EndpointsAreWhole, WholeAt, PurgeHolds

-----------------------------------------------------------------------------
(* A request away from its deletion has deleted nothing.                    *)
LEMMA NothingDeleted ==
  ASSUME IInv, NEW t \in Threads, NEW r, r = req[t],
         r.pc \notin {"idle", "insert", "purge", "save"}
  PROVE  r \in Requests /\ r.op # "delete" /\ r.at = 0 /\ r.gone = {}
<1>1. IsAtItsPlace(r) /\ IsPurging(r) /\ r \in Requests
  BY AtRequest
<1>2. r.op # "delete"
  BY <1>1 DEF IsAtItsPlace
<1>3. QED
  BY <1>1, <1>2 DEF IsPurging

(* A request as it begins, and as it goes on with its row committed.         *)
LEMMA NothingYet ==
  ASSUME NEW op, NEW k, NEW row, NEW new, NEW pc, mode' = mode,
         ~ (op = "delete" /\ pc = "save" /\ Realtime),
         NEW s, s = [[Idle EXCEPT !.op = op, !.trunk = k, !.row = row, !.new = new]
                       EXCEPT !.pc = pc]
  PROVE  s.gone = {} /\ PurgeHolds(s)'
<1>1. s.gone = {} /\ s.at = 0 /\ s.op = op /\ s.pc = pc
  BY DEF Idle
<1>2. QED
  BY <1>1, NothingPurged

LEMMA NothingMore ==
  ASSUME NEW r, NEW pc, mode' = mode, pc # "save",
         NEW s, s = Idle \/ s = [Expired(r) EXCEPT !.pc = pc]
  PROVE  s.gone = {} /\ PurgeHolds(s)'
<1>1. CASE s = Idle
  BY <1>1, EmptyIsTyped, NothingPurged
<1>2. CASE s = [Expired(r) EXCEPT !.pc = pc]
  <2>1. s.gone = {} /\ s.at = 0 /\ s.pc = pc
    BY <1>2 DEF Expired, Idle
  <2>2. QED
    BY <2>1, NothingPurged
<1>3. QED
  BY <1>1, <1>2

LEMMA BeginPurges ==
  ASSUME IInv, NEW t \in Threads, NEW k \in Trunks, NEW op, NEW new, NEW pc,
         Begin(t, k, op, new, pc), ~ (op = "delete" /\ pc = "save" /\ Realtime)
  PROVE  PurgesHold'
<1>1. PICK s : s = [[Idle EXCEPT !.op = op, !.trunk = k, !.row = trunk[k], !.new = new]
                      EXCEPT !.pc = pc]
  OBVIOUS
<1>2. req' = [req EXCEPT ![t] = s] /\ UNCHANGED <<mode, table, torn>>
  BY <1>1 DEF Begin, Goto
<1>3. PICK row : row = trunk[k]
  OBVIOUS
<1>4. s.gone = {} /\ PurgeHolds(s)'
  BY <1>1, <1>2, <1>3, NothingYet
<1>5. QED
  BY <1>2, <1>4, PurgesStay

(* A statement of a deletion.                                               *)
LEMMA PartPurges ==
  ASSUME IInv, NEW t \in Threads, PurgePart(t)
  PROVE  PurgesHold'
<1>1. PICK r, j : r = req[t] /\ j = r.trunk
  OBVIOUS
<1>2. PICK key, pc, s :
        /\ key = <<j, r.row.name, PurgeOrder[r.at + 1]>>
        /\ pc = IF mode = "shared" /\ r.at + 1 = 5 THEN "save" ELSE "purge"
        /\ s = [[r EXCEPT !.at = @ + 1, !.gone = @ \cup ({key} \cap DOMAIN table)] EXCEPT !.pc = pc]
  OBVIOUS
<1>3. /\ r.pc = "purge" /\ r.at < 5 /\ req' = [req EXCEPT ![t] = s]
      /\ \A u \in Threads \ {t} : key \notin req[u].gone
      /\ UNCHANGED <<mode, table, torn>>
  BY <1>1, <1>2, OrderIs DEF PurgePart, Goto, LockedRows
<1>4. r \in Requests /\ IsAtItsPlace(r) /\ IsPurging(r)
  BY <1>1, <1>3, AtRequest
<1>5. r.op = "delete" /\ r.at \in 0..4
  BY <1>3, <1>4 DEF IsAtItsPlace, Requests
<1>6. /\ s.pc = pc /\ s.op = "delete" /\ s.trunk = r.trunk /\ s.row = r.row
      /\ s.at = r.at + 1 /\ s.gone = r.gone \cup ({key} \cap DOMAIN table)
  BY <1>2, <1>4, <1>5 DEF Requests
<1>7. /\ \A k \in Trunks : \A name \in Names : WholeAt(k, name)
      /\ \A u \in Threads : PurgeHolds(req[u])
      /\ \A u, v \in Threads : u # v => req[u].gone \cap req[v].gone = {}
  BY PurgesAre DEF IInv
<1>8. req'[t] = s /\ \A u \in Threads \ {t} : req'[u] = req[u]
  BY <1>3 DEF IInv, CoreHolds, RowsHold
<1>9. DeletesFirst(r) /\ IsUntorn(r) /\ r.gone \subseteq DOMAIN table
  BY <1>1, <1>7 DEF PurgeHolds
<1>10. \A k \in Trunks : \A name \in Names : WholeAt(k, name)'
  BY <1>3, <1>7, WholeStays
<1>11. \A i \in 1..5 : i \leq s.at /\ <<j, r.row.name, PurgeOrder[i]>> \in DOMAIN table \ s.gone
                         => i \leq r.at /\ <<j, r.row.name, PurgeOrder[i]>> \notin r.gone
  BY <1>2, <1>5, <1>6
<1>12. PurgeHolds(s)'
  <2>1. IsPurging(s)'
    <3>1. key \in {<<j, r.row.name, PurgeOrder[i]>> : i \in 1..s.at}
      BY <1>2, <1>5, <1>6
    <3>2. r.gone \subseteq {<<j, r.row.name, PurgeOrder[i]>> : i \in 1..s.at}
      BY <1>1, <1>4, <1>5, <1>6 DEF IsPurging
    <3>3. s.gone \subseteq {<<s.trunk, s.row.name, PurgeOrder[i]>> : i \in 1..s.at}
      BY <1>1, <1>6, <3>1, <3>2
    <3>4. QED
      BY <1>2, <1>3, <1>5, <1>6, <3>3 DEF IsPurging, Realtime
  <2>2. DeletesFirst(s)'
    <3> SUFFICES ASSUME NEW i \in 1..5, NEW l \in 1..5, i \leq s.at,
                        <<j, r.row.name, PurgeOrder[i]>> \in DOMAIN table \ s.gone,
                        <<j, r.row.name, PurgeOrder[l]>> \in s.gone
                 PROVE  i < l
      BY <1>1, <1>3, <1>6 DEF DeletesFirst
    <3>1. i \leq r.at /\ <<j, r.row.name, PurgeOrder[i]>> \in DOMAIN table \ r.gone
      BY <1>11
    <3>2. CASE <<j, r.row.name, PurgeOrder[l]>> \in r.gone
      BY <1>1, <1>9, <3>1, <3>2 DEF DeletesFirst
    <3>3. CASE <<j, r.row.name, PurgeOrder[l]>> = key
      <4>1. PurgeOrder[l] = PurgeOrder[r.at + 1]
        BY <1>2, <3>3
      <4>2. l = r.at + 1
        BY <1>5, <4>1, OrderIs
      <4>3. QED
        BY <1>5, <3>1, <4>2
    <3>4. QED
      BY <1>6, <3>2, <3>3
  <2>3. IsUntorn(s)'
    <3> SUFFICES ASSUME <<j, r.row.name>> \notin torn, NEW i \in 1..s.at,
                        <<j, r.row.name, PurgeOrder[i]>> \in DOMAIN table
                 PROVE  <<j, r.row.name, PurgeOrder[i]>> \in s.gone
      BY <1>1, <1>3, <1>6 DEF IsUntorn, HasPassed
    <3>1. HasPassed(r)
      BY <1>1, <1>3, <1>9 DEF IsUntorn
    <3>2. i \in 1..r.at \/ i = r.at + 1
      BY <1>5, <1>6
    <3>3. QED
      BY <1>1, <1>2, <1>6, <3>1, <3>2 DEF HasPassed
  <2>4. (s.gone \subseteq DOMAIN table)'
    BY <1>3, <1>6, <1>9
  <2>5. QED
    BY <2>1, <2>2, <2>3, <2>4 DEF PurgeHolds
<1>13. \A u \in Threads : PurgeHolds(req[u])'
  <2>1. PurgeHolds(req[t])'
    BY <1>8, <1>12 DEF PurgeHolds, IsPurging, DeletesFirst, IsUntorn, HasPassed, Realtime
  <2>2. ASSUME NEW u \in Threads \ {t}
        PROVE  PurgeHolds(req[u])'
    <3>1. PurgeHolds(req[u]) /\ req'[u] = req[u]
      BY <1>7, <1>8
    <3>2. QED
      BY <1>3, <3>1 DEF PurgeHolds, IsPurging, DeletesFirst, IsUntorn, HasPassed, Realtime
  <2>3. QED
    BY <2>1, <2>2
<1>14. \A u, v \in Threads : u # v => (req[u].gone \cap req[v].gone = {})'
  <2>1. \A u \in Threads \ {t} : s.gone \cap req[u].gone = {}
    BY <1>1, <1>3, <1>6, <1>7
  <2>2. QED
    BY <1>7, <1>8, <2>1
<1>15. QED
  BY <1>10, <1>13, <1>14 DEF PurgesHold, EndpointsAreWhole, WholeAt, PurgeHolds

(* The commits of deletions.                                                *)
LEMMA CommitPurges ==
  ASSUME IInv, NEW t \in Threads, PurgeOutside(t) \/ Save(t)
  PROVE  PurgesHold'
<1>1. PICK r, j : r = req[t] /\ j = r.trunk
  OBVIOUS
<1>2. /\ r.pc \in {"purge", "save"} /\ table' = Purged(r) /\ UNCHANGED <<mode, torn>>
  BY <1>1 DEF PurgeOutside, Save
<1>3. r \in Requests /\ IsAtItsPlace(r) /\ IsPurging(r)
  BY <1>1, <1>2, AtRequest
<1>4. CASE PurgeOutside(t)
  <2>1. PICK s : s = [[r EXCEPT !.gone = {}] EXCEPT !.pc = "save"]
    OBVIOUS
  <2>2. r.pc = "purge" /\ r.at = 5 /\ req' = [req EXCEPT ![t] = s]
    BY <1>1, <1>4, <2>1, OrderIs DEF PurgeOutside, Goto
  <2>3. r.op = "delete"
    BY <1>3, <2>2 DEF IsAtItsPlace, Requests
  <2>4. s.gone = {} /\ s.at = 5 /\ s.op = "delete" /\ s.pc = "save"
    BY <1>3, <2>1, <2>2, <2>3 DEF Requests
  <2>5. IsPurging(s)' /\ DeletesFirst(s)' /\ IsUntorn(s)'
    BY <2>4 DEF IsPurging, DeletesFirst, IsUntorn
  <2>6. PurgeHolds(s)'
    BY <2>4, <2>5 DEF PurgeHolds
  <2>7. QED
    BY <1>1, <1>2, <2>2, <2>4, <2>6, PurgeIsCommitted
<1>5. CASE Save(t)
  <2>1. PICK s : s = Idle
    OBVIOUS
  <2>2. r.pc = "save" /\ req' = [req EXCEPT ![t] = s]
    BY <1>1, <1>5, <2>1 DEF Save, End
  <2>3. s.gone = {} /\ PurgeHolds(s)'
    BY <1>2, <2>1, NothingMore
  <2>4. r.gone # {} => r.at = 5
    <3> SUFFICES ASSUME r.gone # {}
                 PROVE  r.at = 5
      OBVIOUS
    <3>1. r.at # 0 /\ Realtime
      BY <1>3, <2>2 DEF IsPurging, Realtime
    <3>2. QED
      BY <1>3, <2>2, <3>1 DEF IsPurging
  <2>5. QED
    BY <1>1, <1>2, <2>2, <2>3, <2>4, PurgeIsCommitted
<1>6. QED
  BY <1>4, <1>5

(* The steps that write rows.                                               *)
LEMMA UpsertsPurge ==
  ASSUME IInv, NEW t \in Threads,
         UpsertTrunk(t) \/ ResyncOutside(t) \/ (Restore(t) /\ mode = "shared")
  PROVE  PurgesHold'
<1>1. PICK r, j : r = req[t] /\ j = r.trunk
  OBVIOUS
<1>2. r.pc \in {"upsert", "resync", "restore"} /\ mode' = mode
  BY <1>1 DEF UpsertTrunk, ResyncOutside, Restore
<1>3. r \in Requests /\ IsAtItsPlace(r) /\ j \in Trunks
  BY <1>1, <1>2, AtRequest
<1>4. r.op # "delete" /\ r.at = 0 /\ r.gone = {}
  BY <1>1, <1>2, NothingDeleted
<1>5. PICK row \in Rows :
        MayUpsert(t, j, row.name) /\ table' = Upsert(j, row) /\ torn' = Torn(j, row.name)
  <2>1. CASE UpsertTrunk(t)
    <3>1. r.pc = "upsert" /\ r.row \in Rows
      BY <1>1, <1>3, <2>1 DEF UpsertTrunk, IsAtItsPlace
    <3>2. QED
      BY <1>1, <2>1, <3>1 DEF UpsertTrunk
  <2>2. CASE ResyncOutside(t) \/ (Restore(t) /\ mode = "shared")
    <3>1. r.pc \in BeforeCommit /\ r.new \in Rows
      BY <1>1, <1>3, <2>2 DEF ResyncOutside, Restore, IsAtItsPlace, BeforeCommit
    <3>2. QED
      BY <1>1, <2>2, <3>1 DEF ResyncOutside, Restore
  <2>3. QED
    BY <2>1, <2>2
<1>6. PICK s : req' = [req EXCEPT ![t] = s] /\ s.gone = {} /\ PurgeHolds(s)'
  <2>1. CASE UpsertTrunk(t) \/ Restore(t)
    <3>1. PICK s : s = [Expired(r) EXCEPT !.pc = "ami"]
      OBVIOUS
    <3>2. req' = [req EXCEPT ![t] = s]
      BY <1>1, <2>1, <3>1 DEF UpsertTrunk, Restore, Goto
    <3>3. s.gone = {} /\ PurgeHolds(s)'
      BY <1>2, <3>1, NothingMore
    <3>4. QED
      BY <3>2, <3>3
  <2>2. CASE ResyncOutside(t)
    <3>1. PICK s : s = [r EXCEPT !.pc = "restore"]
      OBVIOUS
    <3>2. req' = [req EXCEPT ![t] = s]
      BY <1>1, <2>2, <3>1 DEF ResyncOutside, Goto
    <3>3. s.gone = {} /\ s.at = 0 /\ s.pc = "restore"
      BY <1>3, <1>4, <3>1 DEF Requests
    <3>4. PurgeHolds(s)'
      BY <1>2, <3>3, NothingPurged
    <3>5. QED
      BY <3>2, <3>3, <3>4
  <2>3. QED
    BY <2>1, <2>2
<1>7. QED
  BY <1>1, <1>2, <1>3, <1>4, <1>5, <1>6, UpsertPurges

(* The steps that write nothing in the tables.                              *)
LEMMA OthersPurgeNothing ==
  ASSUME IInv, NEW t \in Threads,
         \/ Insert(t) \/ Fail(t) \/ Applying(t) \/ SyncFails(t) \/ TablesAreUnreachable(t)
         \/ ReadRow(t) \/ Render(t) \/ WriteConfig(t) \/ PjsipReload(t) \/ Applied(t)
         \/ RewriteConfig(t) \/ (Restore(t) /\ mode # "shared")
  PROVE  PurgesHold'
<1>1. PICK r : r = req[t]
  OBVIOUS
<1>2. UNCHANGED <<mode, table, torn>>
  BY DEF Insert, Fail, Applying, SyncFails, TablesAreUnreachable, ReadRow, Render, WriteConfig,
         PjsipReload, Applied, RewriteConfig, Restore
<1>3. PICK s : req' = [req EXCEPT ![t] = s] /\ s.gone = {} /\ PurgeHolds(s)'
  <2>1. CASE \/ req' = [req EXCEPT ![t] = Idle]
             \/ \E pc \in {"read", "render", "failed", "ami"} :
                  req' = [req EXCEPT ![t] = [Expired(r) EXCEPT !.pc = pc]]
    <3>1. PICK pc, s : /\ pc # "save" /\ req' = [req EXCEPT ![t] = s]
                       /\ s = Idle \/ s = [Expired(r) EXCEPT !.pc = pc]
      BY <2>1
    <3>2. s.gone = {} /\ PurgeHolds(s)'
      BY <1>2, <3>1, NothingMore
    <3>3. QED
      BY <3>1, <3>2
  <2>2. CASE /\ r.pc \notin {"idle", "insert", "purge", "save"}
             /\ \E pc \in {"upsert", "write", "active", "failed", "restore"} : \E row, content :
                  req' = [req EXCEPT ![t] =
                           [[r EXCEPT !.row = row, !.content = content] EXCEPT !.pc = pc]]
    <3>1. r \in Requests /\ r.at = 0 /\ r.gone = {}
      BY <1>1, <2>2, NothingDeleted
    <3>2. PICK row, content, pc, s :
            /\ pc # "save" /\ req' = [req EXCEPT ![t] = s]
            /\ s = [[r EXCEPT !.row = row, !.content = content] EXCEPT !.pc = pc]
      BY <2>2
    <3>3. s.gone = {} /\ s.at = 0 /\ s.pc # "save"
      BY <3>1, <3>2 DEF Requests
    <3>4. PurgeHolds(s)'
      BY <1>2, <3>3, NothingPurged
    <3>5. QED
      BY <3>2, <3>3, <3>4
  <2>3. CASE Insert(t) \/ Fail(t) \/ TablesAreUnreachable(t) \/ Applied(t)
    BY <2>1, <2>3 DEF Insert, Fail, TablesAreUnreachable, Applied, End
  <2>4. CASE Applying(t) \/ SyncFails(t) \/ WriteConfig(t) \/ Restore(t)
    BY <1>1, <2>1, <2>4 DEF Applying, SyncFails, WriteConfig, Restore, Goto
  <2>5. CASE ReadRow(t) \/ Render(t) \/ PjsipReload(t) \/ RewriteConfig(t)
    <3>1. r.pc \in {"read", "render", "ami", "rewrite"}
      BY <1>1, <2>5 DEF ReadRow, Render, PjsipReload, RewriteConfig
    <3>2. r \in Requests
      BY <1>1, <3>1, NothingDeleted
    <3>3. \A x, pc :
            /\ [[r EXCEPT !.row = x] EXCEPT !.pc = pc]
                 = [[r EXCEPT !.row = x, !.content = r.content] EXCEPT !.pc = pc]
            /\ [[r EXCEPT !.content = x] EXCEPT !.pc = pc]
                 = [[r EXCEPT !.row = r.row, !.content = x] EXCEPT !.pc = pc]
            /\ [r EXCEPT !.pc = pc]
                 = [[r EXCEPT !.row = r.row, !.content = r.content] EXCEPT !.pc = pc]
      BY <3>2 DEF Requests
    <3>4. \/ req' = [req EXCEPT ![t] = Idle]
          \/ \E x : \E pc \in {"upsert", "write", "active", "failed", "restore"} :
               \/ req' = [req EXCEPT ![t] = [[r EXCEPT !.row = x] EXCEPT !.pc = pc]]
               \/ req' = [req EXCEPT ![t] = [[r EXCEPT !.content = x] EXCEPT !.pc = pc]]
               \/ req' = [req EXCEPT ![t] = [r EXCEPT !.pc = pc]]
      BY <1>1, <2>5 DEF ReadRow, Render, PjsipReload, RewriteConfig, Goto, End
    <3>5. CASE req' # [req EXCEPT ![t] = Idle]
      <4>1. PICK x, pc :
              /\ pc \in {"upsert", "write", "active", "failed", "restore"}
              /\ \/ req' = [req EXCEPT ![t] = [[r EXCEPT !.row = x] EXCEPT !.pc = pc]]
                 \/ req' = [req EXCEPT ![t] = [[r EXCEPT !.content = x] EXCEPT !.pc = pc]]
                 \/ req' = [req EXCEPT ![t] = [r EXCEPT !.pc = pc]]
        BY <3>4, <3>5
      <4>2. \E row, content :
              req' = [req EXCEPT ![t] =
                       [[r EXCEPT !.row = row, !.content = content] EXCEPT !.pc = pc]]
        <5>1. PICK a, b, c :
                /\ a = [[r EXCEPT !.row = x] EXCEPT !.pc = pc]
                /\ b = [[r EXCEPT !.content = x] EXCEPT !.pc = pc]
                /\ c = [r EXCEPT !.pc = pc]
          OBVIOUS
        <5>2. /\ a = [[r EXCEPT !.row = x, !.content = r.content] EXCEPT !.pc = pc]
              /\ b = [[r EXCEPT !.row = r.row, !.content = x] EXCEPT !.pc = pc]
              /\ c = [[r EXCEPT !.row = r.row, !.content = r.content] EXCEPT !.pc = pc]
          BY <3>3, <5>1
        <5>3. req' = [req EXCEPT ![t] = a] \/ req' = [req EXCEPT ![t] = b]
                \/ req' = [req EXCEPT ![t] = c]
          BY <4>1, <5>1
        <5>4. QED
          BY <5>2, <5>3
      <4>3. \E p \in {"upsert", "write", "active", "failed", "restore"} : \E row, content :
              req' = [req EXCEPT ![t] =
                       [[r EXCEPT !.row = row, !.content = content] EXCEPT !.pc = p]]
        <5>1. pc \in {"upsert", "write", "active", "failed", "restore"}
          BY <4>1
        <5>2. QED
          BY <4>2, <5>1
      <4>4. r.pc \notin {"idle", "insert", "purge", "save"}
        BY <3>1
      <4>5. QED
        BY <2>2, <4>3, <4>4
    <3>6. QED
      BY <2>1, <3>5
  <2>6. QED
    BY <2>3, <2>4, <2>5
<1>4. QED
  BY <1>2, <1>3, PurgesStay

(* What the tables hold is kept by every step.                              *)
LEMMA NextPurges ==
  ASSUME IInv, [Next]_vars
  PROVE  PurgesHold'
<1>1. ASSUME NEW t \in Threads, NEW k \in Trunks, CreateSipTrunk(t, k)
      PROVE  PurgesHold'
  <2>1. PICK new, s :
          /\ s = [[Idle EXCEPT !.op = "create", !.trunk = k, !.new = new] EXCEPT !.pc = "insert"]
          /\ req' = [req EXCEPT ![t] = s] /\ UNCHANGED <<mode, table, torn>>
    BY <1>1 DEF CreateSipTrunk, Goto
  <2>2. s.gone = {} /\ s.at = 0 /\ s.pc = "insert"
    BY <2>1 DEF Idle
  <2>3. PurgeHolds(s)'
    BY <2>1, <2>2, NothingPurged
  <2>4. QED
    BY <2>1, <2>2, <2>3, PurgesStay
<1>2. ASSUME NEW t \in Threads, NEW k \in Trunks,
             UpdateSipTrunk(t, k) \/ DeleteSipTrunk(t, k)
               \/ ReloadSipTrunk(t, k) \/ RollbackSipTrunk(t, k)
      PROVE  PurgesHold'
  <2>1. PICK op, new, pc : Begin(t, k, op, new, pc) /\ ~ (op = "delete" /\ pc = "save" /\ Realtime)
    <3>1. CASE UpdateSipTrunk(t, k)
      BY <3>1 DEF UpdateSipTrunk
    <3>2. CASE DeleteSipTrunk(t, k)
      BY <3>2 DEF DeleteSipTrunk
    <3>3. CASE ReloadSipTrunk(t, k)
      BY <3>3 DEF ReloadSipTrunk
    <3>4. CASE RollbackSipTrunk(t, k)
      BY <3>4 DEF RollbackSipTrunk
    <3>5. QED
      BY <1>2, <3>1, <3>2, <3>3, <3>4
  <2>2. QED
    BY <2>1, BeginPurges
<1>3. ASSUME NEW t \in Threads,
             \/ Insert(t) \/ PurgePart(t) \/ PurgeOutside(t) \/ Save(t) \/ Fail(t)
             \/ Applying(t) \/ SyncFails(t) \/ TablesAreUnreachable(t)
             \/ ReadRow(t) \/ UpsertTrunk(t) \/ Render(t) \/ WriteConfig(t)
             \/ PjsipReload(t) \/ Applied(t)
             \/ ResyncOutside(t) \/ RewriteConfig(t) \/ Restore(t)
      PROVE  PurgesHold'
  BY <1>3, PartPurges, CommitPurges, UpsertsPurge, OthersPurgeNothing
<1>4. CASE Crash \/ UNCHANGED vars
  <2>1. UNCHANGED <<mode, table, torn>> /\ (req' = [t \in Threads |-> Idle] \/ req' = req)
    BY <1>4 DEF Crash, vars
  <2>2. /\ \A k \in Trunks : \A name \in Names : WholeAt(k, name)
        /\ \A t \in Threads : PurgeHolds(req[t])
        /\ \A t, u \in Threads : t # u => req[t].gone \cap req[u].gone = {}
    BY PurgesAre DEF IInv
  <2>3. \A k \in Trunks : \A name \in Names : WholeAt(k, name)'
    BY <2>1, <2>2, WholeStays
  <2>4. PICK s : s = Idle /\ s.gone = {} /\ PurgeHolds(s)'
    <3>1. \E s : s = Idle
      OBVIOUS
    <3>2. QED
      BY <2>1, <3>1, NothingMore
  <2>5. ASSUME NEW t \in Threads
        PROVE  PurgeHolds(req[t])'
    <3>1. CASE req'[t] = s
      BY <3>1, <2>4 DEF PurgeHolds, IsPurging, DeletesFirst, IsUntorn, HasPassed, Realtime
    <3>2. CASE req'[t] = req[t]
      BY <3>2, <2>1, <2>2
      DEF PurgeHolds, IsPurging, DeletesFirst, IsUntorn, HasPassed, Realtime
    <3>3. QED
      BY <2>1, <2>4, <3>1, <3>2
  <2>6. \A t, u \in Threads : t # u => (req[t].gone \cap req[u].gone = {})'
    BY <2>1, <2>2, <2>4
  <2>7. QED
    BY <2>3, <2>5, <2>6 DEF PurgesHold, EndpointsAreWhole, WholeAt, PurgeHolds
<1>5. QED
  BY <1>1, <1>2, <1>3, <1>4 DEF Next
-----------------------------------------------------------------------------
LEMMA InitHolds ==
  ASSUME Init
  PROVE  IInv
<1>1. RowsHold
  BY EmptyIsTyped DEF Init, RowsHold
<1>2. RequestsHold
  <2>1. \A t \in Threads : req[t] = Idle
    BY DEF Init
  <2>2. QED
    BY <2>1, IdleHolds DEF RequestsHold, RequestHolds
<1>3. RequestsAreAlone
  BY EmptyIsTyped DEF Init, RequestsAreAlone, IsBusy
<1>4. TrunksHold
  <2> SUFFICES ASSUME NEW k \in Trunks
               PROVE  TrunkHolds(k)
    BY DEF TrunksHold
  <2>1. trunk[k] = NoTrunk /\ DOMAIN table = {}
    BY DEF Init
  <2>2. QED
    BY <2>1, NoTrunkIsNoRow
    DEF TrunkHolds, RowsAreNamed, RowsAreGone, IsServed, KeepsItsRow, IsDeleted
<1>5. ApplyingIsAtWork
  BY NoTrunkIsNoRow DEF Init, ApplyingIsAtWork
<1>6. NamesHold
  <2>1. \A t \in Threads : req[t].pc = "idle"
    BY EmptyIsTyped DEF Init
  <2>2. \A t \in Threads : KeepsBusiness(req[t]) /\ ~ IsNaming(req[t])
    BY <2>1 DEF KeepsBusiness, IsNaming, BeforeCommit
  <2>3. NamesAreUnique
    BY DEF Init, NamesAreUnique
  <2>4. QED
    BY <2>2, <2>3 DEF NamesHold
<1>7. PurgesHold
  <2>1. \A t \in Threads :
          req[t].pc = "idle" /\ req[t].op = "none" /\ req[t].at = 0 /\ req[t].gone = {}
    BY EmptyIsTyped DEF Init
  <2>2. DOMAIN table = {}
    BY DEF Init
  <2>3. EndpointsAreWhole
    BY <2>2 DEF EndpointsAreWhole, RowsOf
  <2>4. \A t \in Threads :
          /\ IsPurging(req[t]) /\ DeletesFirst(req[t]) /\ IsUntorn(req[t])
          /\ req[t].gone \subseteq DOMAIN table
    BY <2>1, <2>2 DEF IsPurging, DeletesFirst, IsUntorn, HasPassed
  <2>5. QED
    BY <2>1, <2>3, <2>4 DEF PurgesHold
<1>8. QED
  BY <1>1, <1>2, <1>3, <1>4, <1>5, <1>6, <1>7 DEF IInv, CoreHolds

LEMMA StutterStep ==
  ASSUME IInv, UNCHANGED vars
  PROVE  CoreHolds'
BY DEF IInv, CoreHolds, vars, RowsHold, RequestsHold, RequestsAreAlone, TrunksHold, TrunkHolds,
       IsBusy, HasPassed, ApplyingIsAtWork, IsAtItsPlace, IsIntended,
       IsSnapshotOf, Knows, KnowsFile, Served, RowsOf, Parts, Rendered, Realtime,
       RowsAreNamed, RowsAreGone, IsServed, KeepsItsRow, IsDeleted, IsRestored, IsPurged

(* The inductive invariant: types; what requests know of trunks that are not *)
(* disturbed, and rows, tables and file in step for those; names, and what    *)
(* requests are about to commit of them; rows deleted and not committed.     *)
THEOREM InvariantHolds == Spec => []IInv
<1>1. Init => IInv
  BY InitHolds
<1>2. IInv /\ [Next]_vars => IInv'
  <2> SUFFICES ASSUME IInv, [Next]_vars
               PROVE  IInv'
    OBVIOUS
  <2>1. ASSUME NEW t \in Threads, NEW k \in Trunks,
               CreateSipTrunk(t, k) \/ UpdateSipTrunk(t, k) \/ DeleteSipTrunk(t, k)
                 \/ ReloadSipTrunk(t, k) \/ RollbackSipTrunk(t, k)
        PROVE  CoreHolds'
    BY <2>1, CreateStep, UpdateStep, DeleteStep, ReloadStep, RollbackStep
  <2>2. ASSUME NEW t \in Threads,
               \/ Insert(t) \/ PurgePart(t) \/ PurgeOutside(t) \/ Save(t) \/ Fail(t)
               \/ Applying(t) \/ SyncFails(t) \/ TablesAreUnreachable(t)
               \/ ReadRow(t) \/ UpsertTrunk(t) \/ Render(t) \/ WriteConfig(t)
               \/ PjsipReload(t) \/ Applied(t)
               \/ ResyncOutside(t) \/ RewriteConfig(t) \/ Restore(t)
        PROVE  CoreHolds'
    BY <2>2, InsertStep, PurgePartStep, PurgeOutsideStep, SaveStep, FailStep, ApplyingStep, SyncFailsStep,
       TablesAreUnreachableStep, ReadRowStep, UpsertStep, RenderStep, WriteConfigStep,
       PjsipReloadStep, AppliedStep, ResyncOutsideStep, RewriteConfigStep, RestoreStep
  <2>3. Crash => CoreHolds'
    BY CrashStep
  <2>4. UNCHANGED vars => CoreHolds'
    BY StutterStep
  <2>5. CoreHolds'
    BY <2>1, <2>2, <2>3, <2>4 DEF Next
  <2>6. QED
    BY <2>5, NextNames, NextPurges DEF IInv
<1>3. QED
  BY <1>1, <1>2, PTL DEF Spec

(* Names are unique in a business, and of global trunks as far as the check   *)
(* goes; rows of a trunk are whole but for those written between statements   *)
(* of a deletion, and nothing is left of what was deleted, whatever requests *)
(* do in whatever order.                                                    *)
THEOREM TablesStayInOrder == Spec => []TablesAreInOrder
<1>1. IInv => TablesAreInOrder
  <2> SUFFICES ASSUME IInv
               PROVE  TablesAreInOrder
    OBVIOUS
  <2>1. RowsHold /\ RequestsHold /\ TrunksHold /\ NamesAreUnique /\ EndpointsAreWhole
    BY DEF IInv, CoreHolds, NamesHold, PurgesHold
  <2>2. TypeOK
    <3>1. \A k \in Trunks : trunk[k] # NoTrunk =>
            /\ trunk[k].name \in Names /\ trunk[k].conf \in Confs
            /\ trunk[k].active \in BOOLEAN /\ trunk[k].apply \in Statuses
            /\ trunk[k].prev.kind \in {"none", "columns", "whole"}
            /\ trunk[k].business \in Businesses \cup {None}
      <4> SUFFICES ASSUME NEW k \in Trunks, trunk[k] \in Rows
                   PROVE  /\ trunk[k].name \in Names /\ trunk[k].conf \in Confs
                          /\ trunk[k].active \in BOOLEAN /\ trunk[k].apply \in Statuses
                          /\ trunk[k].prev.kind \in {"none", "columns", "whole"}
                          /\ trunk[k].business \in Businesses \cup {None}
        BY <2>1 DEF RowsHold
      <4>1. trunk[k].prev \in Snapshots
        BY DEF Rows
      <4>2. QED
        BY <4>1 DEF Rows, Snapshots
    <3>2. /\ \A key \in DOMAIN table :
               key[1] \in Trunks /\ key[2] \in Names /\ table[key] \in Confs
          /\ {file, loaded} \subseteq [Trunks -> Entry \cup {NoEntry}]
      BY <2>1 DEF RowsHold, Files, Keys
    <3>3. \A t \in Threads : req[t].pc # "idle" =>
            /\ req[t].trunk \in Trunks
            /\ trunk[req[t].trunk] = NoTrunk <=> req[t].op = "create"
            /\ req[t].gone \subseteq DOMAIN table
      BY <2>1 DEF RequestsHold, IsAtItsPlace, IInv, PurgesHold
    <3>4. QED
      BY <3>1, <3>2, <3>3 DEF TypeOK
  <2>3. DeletedIsPurged
    <3> SUFFICES ASSUME NEW k \in Trunks, k \notin disturbed, k \notin renamed,
                        \A t \in Threads : req[t].trunk # k, Realtime,
                        trunk[k].prev.kind = "whole", ~ trunk[k].active,
                        trunk[k].apply = "pending", NEW name \in Names
                 PROVE  RowsOf(k, name) = {}
      BY DEF DeletedIsPurged
    <3>1. RowsAreNamed(k) /\ RowsAreGone(k)
      BY <2>1 DEF TrunksHold, TrunkHolds
    <3>2. RowsOf(k, trunk[k].name) = {}
      BY <3>1 DEF RowsAreGone, IsDeleted, IsRestored
    <3>3. \A key \in DOMAIN table : key[1] = k => key[2] = trunk[k].name
      BY <3>1 DEF RowsAreNamed
    <3>4. QED
      BY <3>2, <3>3 DEF RowsOf
  <2>4. QED
    BY <2>1, <2>2, <2>3 DEF TablesAreInOrder
<1>2. QED
  BY <1>1, InvariantHolds, PTL

(* A trunk said to be applied is the one Asterisk works with, and one said to *)
(* be being applied is.                                                     *)
THEOREM StatusStaysTrue == Spec => []StatusIsTrue
<1>1. IInv => StatusIsTrue
  <2> SUFFICES ASSUME IInv
               PROVE  StatusIsTrue
    OBVIOUS
  <2>1. AppliedIsServed
    <3> SUFFICES ASSUME NEW k \in Trunks, k \notin disturbed,
                        \A t \in Threads : req[t].op = "delete" => req[t].trunk # k,
                        trunk[k].apply = "active"
                 PROVE  IF Realtime THEN Served(k) ELSE loaded[k] = Rendered[k]
      BY DEF AppliedIsServed, Served
    <3>1. IsServed(k)
      BY DEF IInv, CoreHolds, TrunksHold, TrunkHolds
    <3>2. ~ IsPurged(k)
      BY DEF IsPurged
    <3>3. QED
      BY <3>1, <3>2 DEF IsServed
  <2>2. QED
    BY <2>1 DEF StatusIsTrue, IInv, CoreHolds
<1>2. QED
  BY <1>1, InvariantHolds, PTL

(* A rollback that is accepted, but for one of a deletion, changes nothing    *)
(* in the row: its snapshot was taken of the row as it is.                   *)
THEOREM RollbackStaysIdle == Spec => []RollbackKeepsTheRow
<1>1. IInv => RollbackKeepsTheRow
  BY DEF IInv, CoreHolds, TrunksHold, TrunkHolds, KeepsItsRow, IsSnapshotOf, RollbackKeepsTheRow
<1>2. QED
  BY <1>1, InvariantHolds, PTL

-----------------------------------------------------------------------------
(* Workspaces                                                               *)
LEMMA LimitsArePositive == Limits \subseteq Nat \ {0}
BY BusinessesAreTyped DEF Biz!ConstantsOK

LEMMA UsersAreFinite == IsFiniteSet(Users) /\ IsFiniteSet(Threads)
BY BusinessesAreTyped DEF Biz!ConstantsOK, Biz!IsFiniteSet, IsFiniteSet

LEMMA ThreadsAreSome == Cardinality(Threads) \in Nat \ {0}
<1>1. Threads # {} /\ IsFiniteSet(Threads)
  BY BusinessesAreTyped, UsersAreFinite DEF Biz!ConstantsOK
<1>2. QED
  BY <1>1, FS_CardinalityType, FS_EmptySet

(* Workspaces counts as everybody does.                                     *)
LEMMA SizesAgree == \A S : Biz!Cardinality(S) = Cardinality(S)
BY DEF Biz!Cardinality, Cardinality

LEMMA NoneIsNobody == None \notin Users \cup Businesses \cup Limits
BY BusinessesAreTyped DEF Biz!ConstantsOK

BizRows == [role : {"admin", "owner"}, status : {"active", "inactive"}]

BizRoles == {"none", "superuser", "stuff", "general", "owner", "admin"}

IsKnown(u) == role[u] # "none"

BizRowsHold ==
  /\ role \in [Users -> BizRoles]
  /\ status \in [Businesses -> {"none", "active", "inactive", "deleted"}]
  /\ owner \in [Businesses -> Users \cup {None}]
  /\ limit \in [Businesses -> Limits \cup {None}]
  /\ member \in [Businesses -> [Users -> BizRows \cup {Biz!NoMember}]]
  /\ DOMAIN work = Threads
  /\ \A b \in Businesses :
       /\ status[b] = "none" => owner[b] = None /\ limit[b] = None
       /\ owner[b] # None => IsKnown(owner[b])
       /\ \A u \in Users : Biz!IsMember(b, u) => status[b] # "none" /\ IsKnown(u)
  /\ \A u \in gave \ {None} : u \in Users /\ IsKnown(u)

(* Two requests at work that share something have raced with all they share. *)
BizRequestsAreAlone ==
  \A t, v \in Threads :
    t # v /\ work[t].pc # "idle" /\ work[v].pc # "idle"
      /\ Biz!About(work[t]) \cap Biz!About(work[v]) # {}
    => Biz!About(work[t]) \cup Biz!About(work[v]) \subseteq raced

(* What a request knows of the rows it is about, and, unless it races for    *)
(* the business, that they are still as it has read them.                   *)
KnowsUser(r) ==
  /\ r.u \in Users
  /\ status[r.b] # "none"
  /\ r.new \in BizRows /\ r.to \in BizRoles \ {"none"}
  /\ r.b \notin raced => Biz!CanAddUserToBusiness(r.b)

KnowsOwner(r) == r.u \in Users

KnowsBusiness(r) ==
  /\ r.new \in {Biz!NoMember, Biz!Member("owner", "active")}
  /\ r.u = None => r.new = Biz!NoMember
  /\ r.u \in Users => IsKnown(r.u)
  /\ r.u \in Users /\ r.new # Biz!NoMember /\ r.b \notin raced => role[r.u] = "stuff"

KnowsStatus(r) ==
  /\ status[r.b] # "none"
  /\ r.to \in Biz!VALID_BUSINESS_STATUSES
  /\ r.b \notin raced => status[r.b] = "active"

KnowsMember(r) ==
  /\ r.u \in Users /\ IsKnown(r.u)
  /\ status[r.b] # "none"
  /\ r.row \in BizRows \cup {Biz!NoMember} /\ r.new \in BizRows
  /\ r.b \notin raced =>
       /\ member[r.b][r.u] = r.row
       /\ status[r.b] # "deleted" /\ r.b \notin legacy =>
            (r.row.role = "owner" => r.new.role = "owner")

KnowsRemoval(r) ==
  /\ r.u \in Users
  /\ r.b \notin raced \cup legacy /\ status[r.b] # "deleted" => owner[r.b] # r.u

(* demote: the previous owner owns nothing else, or version 1 does not ask;   *)
(* otherwise there is no previous owner, or one who owns something else.    *)
KnowsTransfer(r) ==
  /\ r.u \in Users /\ r.u # r.prev /\ IsKnown(r.u)
  /\ status[r.b] # "none"
  /\ r.row \in BizRows /\ r.new \in BizRows
  /\ r.new.role = "owner" /\ r.new.status = r.row.status
  /\ r.to \in {"stuff", "owner"}
  /\ r.prevRow \in BizRows \cup {Biz!NoMember}
  /\ r.prev = None => r.prevRow = Biz!NoMember /\ r.demote = "none"
  /\ r.prev \in Users => IsKnown(r.prev)
  /\ r.demote \in {"none", "general", "admin"}
  /\ owner[r.b] \in {r.prev, r.u, None} \cup raced
  /\ r.demote = "general" =>
       \A b \in Businesses \ (raced \cup {r.b}) : owner[b] = r.prev => status[b] = "deleted"
  /\ r.prev \in Users \ raced /\ r.demote = "none" =>
       \E b \in Businesses \ {r.b} : owner[b] = r.prev
  /\ r.b \notin raced =>
       /\ status[r.b] = "active"
       /\ member[r.b][r.u] = r.row
       /\ r.prev = None => owner[r.b] \in {r.u, None}
       /\ r.prev # None => owner[r.b] = r.prev /\ member[r.b][r.prev] = r.prevRow

BizKnows(r) ==
  /\ r.pc \in {"idle", "user", "business", "status", "member", "remove", "transfer", "register"}
  /\ r.pc # "idle" =>
       /\ r.b \in Businesses
       /\ r.u \in Users \cup {None}
       /\ r.prev \in Users \cup {None}
  /\ r.pc = "user" => KnowsUser(r)
  /\ r.pc = "register" => KnowsOwner(r)
  /\ r.pc = "business" => KnowsBusiness(r)
  /\ r.pc = "status" => KnowsStatus(r)
  /\ r.pc = "member" => KnowsMember(r)
  /\ r.pc = "remove" => KnowsRemoval(r)
  /\ r.pc = "transfer" => KnowsTransfer(r)

BizRequestsHold == \A t \in Threads : BizKnows(work[t])

(* Every request that found room had less than the limit before it.          *)
RoomIsLeft ==
  \A b \in Businesses \ unchecked : limit[b] # None =>
    Cardinality(Biz!ActiveUsers(b)) + Cardinality(Biz!Joining(b)) < limit[b] + Cardinality(Threads)

LimitIsMet ==
  \A b \in Businesses \ (raced \cup unchecked) : limit[b] # None =>
    Cardinality(Biz!ActiveUsers(b)) <= limit[b]

BizIInv ==
  /\ BizRowsHold /\ BizRequestsAreAlone /\ BizRequestsHold
  /\ Biz!OwnerIsTheOwner /\ Biz!OwnersAreStuff /\ Biz!GiversAreDemoted
  /\ RoomIsLeft /\ LimitIsMet

-----------------------------------------------------------------------------
(* What is known of a request at work stays known if a step of another one  *)
(* leaves its rows alone or races with it.                                  *)
LEMMA KnownStays ==
  ASSUME BizRowsHold, NEW r, BizKnows(r),
         raced \subseteq raced', legacy \subseteq legacy',
         \A b \in Businesses : status[b] # "none" => status'[b] # "none",
         \A u \in Users : IsKnown(u) => IsKnown(u)',
         r.pc # "idle" /\ r.b \notin raced' =>
           /\ status'[r.b] = status[r.b] /\ owner'[r.b] = owner[r.b] /\ limit'[r.b] = limit[r.b]
           /\ \A u \in Users : member'[r.b][u] = member[r.b][u]
           /\ r.u \in Users => role'[r.u] = role[r.u],
         r.pc # "idle" => owner'[r.b] \in {owner[r.b], None} \cup raced',
         r.pc # "idle" /\ r.prev \in Users =>
           \A b \in Businesses \ raced' :
             owner'[b] = r.prev =>
               owner[b] = r.prev /\ (status[b] = "deleted" => status'[b] = "deleted"),
         r.pc # "idle" /\ r.prev \in Users \ raced' =>
           \A b \in Businesses : owner[b] = r.prev => owner'[b] = r.prev
  PROVE  BizKnows(r)'
<1>1. CASE r.pc = "idle"
  BY <1>1 DEF BizKnows
<1>2. CASE r.pc # "idle"
  <2>1. r.b \in Businesses /\ r.u \in Users \cup {None} /\ r.prev \in Users \cup {None}
    BY <1>2 DEF BizKnows
  <2>2. r.pc = "user" => KnowsUser(r)'
    <3> SUFFICES ASSUME r.pc = "user" PROVE KnowsUser(r)'
      OBVIOUS
    <3>1. KnowsUser(r)
      BY DEF BizKnows
    <3>2. r.b \notin raced' => Biz!CanAddUserToBusiness(r.b)'
      <4> SUFFICES ASSUME r.b \notin raced' PROVE Biz!CanAddUserToBusiness(r.b)'
        OBVIOUS
      <4>1. Biz!ActiveUsers(r.b)' = Biz!ActiveUsers(r.b) /\ limit'[r.b] = limit[r.b]
        BY <1>2 DEF Biz!ActiveUsers
      <4>2. Biz!CanAddUserToBusiness(r.b)
        BY <3>1 DEF KnowsUser
      <4>3. QED
        BY <4>1, <4>2 DEF Biz!CanAddUserToBusiness
    <3>3. QED
      BY <2>1, <3>1, <3>2 DEF KnowsUser
  <2>3. /\ r.pc = "business" => KnowsBusiness(r)'
        /\ r.pc = "register" => KnowsOwner(r)'
    BY <1>2, <2>1 DEF BizKnows, KnowsBusiness, KnowsOwner
  <2>4. r.pc = "status" => KnowsStatus(r)'
    BY <1>2, <2>1 DEF BizKnows, KnowsStatus
  <2>5. r.pc = "member" => KnowsMember(r)'
    BY <1>2, <2>1 DEF BizKnows, KnowsMember
  <2>6. r.pc = "remove" => KnowsRemoval(r)'
    BY <1>2, <2>1 DEF BizKnows, KnowsRemoval
  <2>7. r.pc = "transfer" => KnowsTransfer(r)'
    <3> SUFFICES ASSUME r.pc = "transfer" PROVE KnowsTransfer(r)'
      OBVIOUS
    <3>1. KnowsTransfer(r)
      BY DEF BizKnows
    <3>2. owner'[r.b] \in {r.prev, r.u, None} \cup raced'
      BY <1>2, <3>1 DEF KnowsTransfer
    <3>3. ASSUME r.demote = "general", NEW b \in Businesses \ (raced' \cup {r.b}), owner'[b] = r.prev
          PROVE  status'[b] = "deleted"
      <4>1. r.prev \in Users
        BY <2>1, <3>1, <3>3, NoneIsNobody DEF KnowsTransfer
      <4>2. owner[b] = r.prev /\ (status[b] = "deleted" => status'[b] = "deleted")
        BY <1>2, <3>3, <4>1
      <4>3. b \in Businesses \ (raced \cup {r.b})
        BY <3>3
      <4>4. status[b] = "deleted"
        BY <3>1, <3>3, <4>2, <4>3, Zenon DEF KnowsTransfer
      <4>5. QED
        BY <4>2, <4>4
    <3>4. ASSUME r.prev \in Users \ raced', r.demote = "none"
          PROVE  \E b \in Businesses \ {r.b} : owner'[b] = r.prev
      <4>1. r.prev \in Users \ raced
        BY <3>4
      <4>2. PICK b \in Businesses \ {r.b} : owner[b] = r.prev
        BY <3>1, <3>4, <4>1, Zenon DEF KnowsTransfer
      <4>3. owner'[b] = r.prev
        BY <1>2, <3>4, <4>2
      <4>4. QED
        BY <4>3
    <3>5. r.b \notin raced' =>
            /\ status'[r.b] = "active"
            /\ member'[r.b][r.u] = r.row
            /\ r.prev = None => owner'[r.b] \in {r.u, None}
            /\ r.prev # None => owner'[r.b] = r.prev /\ member'[r.b][r.prev] = r.prevRow
      BY <1>2, <2>1, <3>1 DEF KnowsTransfer
    <3>6. /\ r.u \in Users /\ r.u # r.prev /\ IsKnown(r.u)'
          /\ status'[r.b] # "none"
          /\ r.row \in BizRows /\ r.new \in BizRows
          /\ r.new.role = "owner" /\ r.new.status = r.row.status
          /\ r.to \in {"stuff", "owner"}
          /\ r.prevRow \in BizRows \cup {Biz!NoMember}
          /\ r.prev = None => r.prevRow = Biz!NoMember /\ r.demote = "none"
          /\ r.prev \in Users => IsKnown(r.prev)'
          /\ r.demote \in {"none", "general", "admin"}
      BY <2>1, <3>1 DEF KnowsTransfer
    <3>7. QED
      BY <3>2, <3>3, <3>4, <3>5, <3>6, Zenon DEF KnowsTransfer
  <2>8. QED
    BY <1>2, <2>1, <2>2, <2>3, <2>4, <2>5, <2>6, <2>7 DEF BizKnows
<1>3. QED
  BY <1>1, <1>2

LEMMA IdleIsKnown == BizKnows(Biz!Idle)
  BY DEF BizKnows, Biz!Idle

(* A request begins: it has raced with those it shares something with.      *)
LEMMA BeginKeepsRequests ==
  ASSUME BizIInv, NEW t \in Threads, NEW q, NEW pc, Biz!Begin(t, q, pc),
         NEW r, r = [q EXCEPT !.pc = pc], BizKnows(r)', r.b = q.b, r.u = q.u, r.prev = q.prev,
         r.pc = pc, pc = "user" => Biz!CanAddUserToBusiness(r.b)
  PROVE  BizIInv'
<1>1. /\ UNCHANGED <<role, status, owner, limit, member, unchecked, gave, legacy>>
      /\ work[t].pc = "idle" /\ work' = [work EXCEPT ![t] = r]
  BY DEF Biz!Begin
<1>2. DOMAIN work = Threads
  BY DEF BizIInv, BizRowsHold
<1>3. work'[t] = r /\ \A v \in Threads \ {t} : work'[v] = work[v]
  BY <1>1, <1>2
<1>4. Biz!About(r) = Biz!About(q)
  BY DEF Biz!About
<1>5. /\ raced \subseteq raced'
      /\ \A v \in Threads : work[v].pc # "idle" /\ Biz!About(work[v]) \cap Biz!About(r) # {}
           => Biz!About(work[v]) \cup Biz!About(r) \subseteq raced'
  BY <1>4 DEF Biz!Begin
<1>6. BizRowsHold'
  BY <1>1, <1>2 DEF BizIInv, BizRowsHold, Biz!IsMember, IsKnown
<1>7. BizRequestsAreAlone'
  <2> SUFFICES ASSUME NEW v \in Threads, NEW w \in Threads, v # w,
                      work'[v].pc # "idle", work'[w].pc # "idle",
                      Biz!About(work'[v]) \cap Biz!About(work'[w]) # {}
               PROVE  Biz!About(work'[v]) \cup Biz!About(work'[w]) \subseteq raced'
    BY DEF BizRequestsAreAlone, Biz!About
  <2>1. CASE v = t
    BY <2>1, <1>3, <1>5, Zenon
  <2>2. CASE w = t
    <3>1. Biz!About(work[v]) \cap Biz!About(r) # {} /\ work[v].pc # "idle"
      BY <2>2, <1>3
    <3>2. Biz!About(work[v]) \cup Biz!About(r) \subseteq raced'
      BY <3>1, <1>5
    <3>3. QED
      BY <2>2, <3>2, <1>3
  <2>3. CASE v # t /\ w # t
    <3>1. Biz!About(work[v]) \cup Biz!About(work[w]) \subseteq raced
      BY <2>3, <1>3 DEF BizIInv, BizRequestsAreAlone
    <3>2. QED
      BY <3>1, <2>3, <1>3, <1>5
  <2>4. QED
    BY <2>1, <2>2, <2>3
<1>8. BizRequestsHold'
  <2> SUFFICES ASSUME NEW v \in Threads
               PROVE  BizKnows(work[v])'
    BY DEF BizRequestsHold
  <2>1. PICK s : s = work'[v]
    OBVIOUS
  <2>2. BizKnows(s)'
    <3>1. CASE v = t
      BY <3>1, <2>1, <1>3
    <3>2. CASE v # t
      <4>1. BizKnows(s)
        BY <3>2, <2>1, <1>3 DEF BizIInv, BizRequestsHold
      <4>2. QED
        BY <4>1, <1>1, <1>5, KnownStays DEF BizIInv, IsKnown
    <3>3. QED
      BY <3>1, <3>2
  <2>3. QED
    BY <2>1, <2>2
<1>9. Biz!OwnerIsTheOwner' /\ Biz!OwnersAreStuff' /\ Biz!GiversAreDemoted'
  BY <1>1, <1>5 DEF BizIInv, Biz!OwnerIsTheOwner, Biz!OwnersAreStuff, Biz!GiversAreDemoted
<1>10. LimitIsMet'
  BY <1>1, <1>5 DEF BizIInv, LimitIsMet, Biz!ActiveUsers
<1>11. RoomIsLeft'
  <2> SUFFICES ASSUME NEW b \in Businesses \ unchecked, limit[b] # None
               PROVE  Cardinality(Biz!ActiveUsers(b)) + Cardinality(Biz!Joining(b)')
                        < limit[b] + Cardinality(Threads)
    BY <1>1 DEF RoomIsLeft, Biz!ActiveUsers
  <2>1. IsFiniteSet(Biz!ActiveUsers(b)) /\ Cardinality(Biz!ActiveUsers(b)) \in Nat /\ limit[b] \in Nat
    BY UsersAreFinite, FS_Subset, FS_CardinalityType, LimitsArePositive DEF Biz!ActiveUsers, BizIInv, BizRowsHold
  <2>2. CASE pc = "user" /\ b = r.b
    <3>1. Cardinality(Biz!ActiveUsers(b)) < limit[b]
      BY <2>2, SizesAgree DEF Biz!CanAddUserToBusiness
    <3>2. Biz!Joining(b)' \subseteq Threads
      BY DEF Biz!Joining
    <3>3. Cardinality(Biz!Joining(b)') <= Cardinality(Threads) /\ Cardinality(Biz!Joining(b)') \in Nat
      BY <3>2, UsersAreFinite, FS_Subset, FS_CardinalityType
    <3>4. QED
      BY <2>1, <3>1, <3>3, ThreadsAreSome
  <2>3. CASE ~ (pc = "user" /\ b = r.b)
    <3>1. r.pc = pc
      BY DEF Biz!Begin
    <3>2. Biz!Joining(b)' \subseteq Biz!Joining(b)
      BY <1>3, <2>3, <3>1 DEF Biz!Joining
    <3>3. IsFiniteSet(Biz!Joining(b))
      BY UsersAreFinite, FS_Subset DEF Biz!Joining
    <3>4. /\ Cardinality(Biz!Joining(b)') <= Cardinality(Biz!Joining(b))
          /\ Cardinality(Biz!Joining(b)') \in Nat /\ Cardinality(Biz!Joining(b)) \in Nat
      BY <3>2, <3>3, FS_Subset, FS_CardinalityType
    <3>5. Cardinality(Biz!ActiveUsers(b)) + Cardinality(Biz!Joining(b)) < limit[b] + Cardinality(Threads)
      BY DEF BizIInv, RoomIsLeft
    <3>6. QED
      BY <2>1, <3>4, <3>5, ThreadsAreSome
  <2>4. QED
    BY <2>2, <2>3
<1>12. QED
  BY <1>6, <1>7, <1>8, <1>9, <1>10, <1>11 DEF BizIInv

-----------------------------------------------------------------------------
LEMMA TypesFollow == BizRowsHold => Biz!TypeOK
  BY DEF BizRowsHold, Biz!TypeOK, Biz!VALID_BUSINESS_STATUSES, Biz!VALID_MEMBER_STATUSES,
         Biz!VALID_MEMBER_ROLES, Biz!USER_ROLES, Biz!IsMember, IsKnown, BizRows, BizRoles

LEMMA MembersAreRows ==
  /\ \A x \in {"admin", "owner"}, s \in {"active", "inactive"} :
       /\ Biz!Member(x, s) \in BizRows
       /\ Biz!Member(x, s).role = x /\ Biz!Member(x, s).status = s
  /\ Biz!NoMember.role = "none" /\ Biz!NoMember.status = "none"
  /\ Biz!NoMember \notin BizRows
  BY DEF Biz!Member, BizRows, Biz!NoMember

(* A user with a membership is added, by either version.                    *)
LEMMA BeginUserKeeps ==
  ASSUME BizIInv, NEW t \in Threads, NEW b \in Businesses, NEW u \in Users,
         NEW new \in BizRows, NEW to \in BizRoles \ {"none"},
         status[b] # "none", Biz!CanAddUserToBusiness(b),
         Biz!Begin(t, [Biz!Idle EXCEPT !.b = b, !.u = u, !.new = new, !.to = to], "user")
  PROVE  BizIInv'
<1>1. PICK q : q = [Biz!Idle EXCEPT !.b = b, !.u = u, !.new = new, !.to = to]
  OBVIOUS
<1>2. PICK r : r = [q EXCEPT !.pc = "user"]
  OBVIOUS
<1>3. /\ r.pc = "user" /\ r.b = b /\ r.u = u /\ r.prev = None /\ r.new = new /\ r.to = to
      /\ r.b = q.b /\ r.u = q.u /\ r.prev = q.prev
  BY <1>1, <1>2 DEF Biz!Idle
<1>4. UNCHANGED <<status, limit, member>> /\ raced \subseteq raced'
  BY DEF Biz!Begin
<1>5. Biz!CanAddUserToBusiness(b)'
  BY <1>4 DEF Biz!CanAddUserToBusiness, Biz!ActiveUsers
<1>6. KnowsUser(r)'
  BY <1>3, <1>4, <1>5 DEF KnowsUser
<1>7. BizKnows(r)'
  BY <1>3, <1>6 DEF BizKnows
<1>8. Biz!Begin(t, q, "user") /\ Biz!CanAddUserToBusiness(r.b)
  BY <1>1, <1>3
<1>9. QED
  BY <1>2, <1>3, <1>7, <1>8, BeginKeepsRequests

LEMMA CreateUserKeeps ==
  ASSUME BizIInv, NEW t \in Threads, NEW b \in Businesses, NEW u \in Users,
         Biz!CreateUserByActor(t, b, u) \/ Biz!CreateMember(t, b, u)
  PROVE  BizIInv'
<1>1. CASE Biz!CreateUserByActor(t, b, u)
  <2>1. PICK r \in {"admin"} :
          Biz!Begin(t, [Biz!Idle EXCEPT !.b = b, !.u = u, !.new = Biz!Member(r, "active"),
                                    !.to = "general"], "user")
    BY <1>1 DEF Biz!CreateUserByActor, Biz!ASSIGNABLE_MEMBER_ROLES
  <2>2. Biz!Member(r, "active") \in BizRows /\ "general" \in BizRoles \ {"none"}
    BY <2>1, MembersAreRows DEF BizRoles
  <2>3. status[b] # "none" /\ Biz!CanAddUserToBusiness(b)
    BY <1>1 DEF Biz!CreateUserByActor
  <2>4. QED
    BY <2>1, <2>2, <2>3, BeginUserKeeps
<1>2. CASE Biz!CreateMember(t, b, u)
  <2>1. PICK r \in {"admin", "owner"} :
          Biz!Begin(t, [Biz!Idle EXCEPT !.b = b, !.u = u, !.new = Biz!Member(r, "active"),
                                    !.to = r], "user")
    BY <1>2 DEF Biz!CreateMember, Biz!VALID_MEMBER_ROLES
  <2>2. Biz!Member(r, "active") \in BizRows /\ r \in BizRoles \ {"none"}
    BY <2>1, MembersAreRows DEF BizRoles
  <2>3. status[b] # "none" /\ Biz!CanAddUserToBusiness(b)
    BY <1>2 DEF Biz!CreateMember
  <2>4. QED
    BY <2>1, <2>2, <2>3, BeginUserKeeps
<1>3. QED
  BY <1>1, <1>2

LEMMA RegisterOwnerKeeps ==
  ASSUME BizIInv, NEW t \in Threads, NEW b \in Businesses, NEW u \in Users,
         Biz!RegisterOwner(t, b, u)
  PROVE  BizIInv'
<1>1. Biz!Begin(t, [Biz!Idle EXCEPT !.b = b, !.u = u], "register")
  BY DEF Biz!RegisterOwner
<1>2. PICK q : q = [Biz!Idle EXCEPT !.b = b, !.u = u]
  OBVIOUS
<1>3. PICK r : r = [q EXCEPT !.pc = "register"]
  OBVIOUS
<1>4. /\ r.pc = "register" /\ r.b = b /\ r.u = u /\ r.prev = None
      /\ r.b = q.b /\ r.u = q.u /\ r.prev = q.prev
  BY <1>2, <1>3 DEF Biz!Idle
<1>5. BizKnows(r)'
  BY <1>4 DEF BizKnows, KnowsOwner
<1>6. QED
  BY <1>1, <1>2, <1>3, <1>4, <1>5, BeginKeepsRequests

LEMMA BeginBusinessKeeps ==
  ASSUME BizIInv, NEW t \in Threads, NEW b \in Businesses, NEW u \in Users \cup {None},
         NEW new \in {Biz!NoMember, Biz!Member("owner", "active")},
         u = None => new = Biz!NoMember,
         u # None => IsKnown(u) /\ (new # Biz!NoMember => role[u] = "stuff"),
         Biz!Begin(t, [Biz!Idle EXCEPT !.b = b, !.u = u, !.new = new], "business")
  PROVE  BizIInv'
<1>1. PICK q : q = [Biz!Idle EXCEPT !.b = b, !.u = u, !.new = new]
  OBVIOUS
<1>2. PICK r : r = [q EXCEPT !.pc = "business"]
  OBVIOUS
<1>3. /\ r.pc = "business" /\ r.b = b /\ r.u = u /\ r.prev = None /\ r.new = new
      /\ r.b = q.b /\ r.u = q.u /\ r.prev = q.prev
  BY <1>1, <1>2 DEF Biz!Idle
<1>4. role' = role
  BY DEF Biz!Begin
<1>5. KnowsBusiness(r)'
  BY <1>3, <1>4, NoneIsNobody DEF KnowsBusiness, IsKnown
<1>6. BizKnows(r)'
  BY <1>3, <1>5 DEF BizKnows
<1>7. Biz!Begin(t, q, "business")
  BY <1>1
<1>8. QED
  BY <1>2, <1>3, <1>6, <1>7, BeginKeepsRequests

LEMMA CreateBusinessKeeps ==
  ASSUME BizIInv, NEW t \in Threads, NEW b \in Businesses,
         Biz!CreateBusiness(t, b) \/ Biz!CreateBusinessOf(t, b)
  PROVE  BizIInv'
<1>1. CASE Biz!CreateBusiness(t, b)
  <2>1. PICK u \in Users \cup {None} :
          /\ u # None => role[u] = "stuff"
          /\ Biz!Begin(t, [Biz!Idle EXCEPT !.b = b, !.u = u, !.new =
                             IF u = None THEN Biz!NoMember ELSE Biz!Member("owner", "active")], "business")
    BY <1>1 DEF Biz!CreateBusiness
  <2>2. PICK new : new = IF u = None THEN Biz!NoMember ELSE Biz!Member("owner", "active")
    OBVIOUS
  <2>3. Biz!Begin(t, [Biz!Idle EXCEPT !.b = b, !.u = u, !.new = new], "business")
    BY <2>1, <2>2
  <2>4. new \in {Biz!NoMember, Biz!Member("owner", "active")} /\ (u = None => new = Biz!NoMember)
    BY <2>2
  <2>5. u # None => IsKnown(u) /\ role[u] = "stuff"
    BY <2>1 DEF IsKnown
  <2>6. QED
    BY <2>3, <2>4, <2>5, BeginBusinessKeeps
<1>2. CASE Biz!CreateBusinessOf(t, b)
  <2>1. PICK u \in Users \cup {None} :
          /\ u # None => role[u] # "none"
          /\ Biz!Begin(t, [Biz!Idle EXCEPT !.b = b, !.u = u, !.new = Biz!NoMember], "business")
    BY <1>2 DEF Biz!CreateBusinessOf
  <2>2. u # None => IsKnown(u)
    BY <2>1 DEF IsKnown
  <2>3. QED
    BY <2>1, <2>2, BeginBusinessKeeps
<1>3. QED
  BY <1>1, <1>2

LEMMA UpdateBusinessKeeps ==
  ASSUME BizIInv, NEW t \in Threads, NEW b \in Businesses, Biz!UpdateBusiness(t, b)
  PROVE  BizIInv'
<1>1. PICK s \in Biz!VALID_BUSINESS_STATUSES :
        /\ status[b] = "active"
        /\ Biz!Begin(t, [Biz!Idle EXCEPT !.b = b, !.from = status[b], !.to = s], "status")
  BY DEF Biz!UpdateBusiness, Biz!Accessible
<1>2. PICK q : q = [Biz!Idle EXCEPT !.b = b, !.from = status[b], !.to = s]
  OBVIOUS
<1>3. PICK r : r = [q EXCEPT !.pc = "status"]
  OBVIOUS
<1>4. /\ r.pc = "status" /\ r.b = b /\ r.u = None /\ r.prev = None /\ r.to = s
      /\ r.b = q.b /\ r.u = q.u /\ r.prev = q.prev
  BY <1>2, <1>3 DEF Biz!Idle
<1>5. status' = status
  BY <1>1 DEF Biz!Begin
<1>6. BizKnows(r)'
  BY <1>1, <1>4, <1>5 DEF BizKnows, KnowsStatus
<1>7. QED
  BY <1>1, <1>2, <1>3, <1>4, <1>6, BeginKeepsRequests

(* A membership is added or changed.                                        *)
LEMMA BeginMemberKeeps ==
  ASSUME BizIInv, NEW t \in Threads, NEW b \in Businesses, NEW u \in Users,
         NEW row \in BizRows \cup {Biz!NoMember}, NEW new \in BizRows,
         member[b][u] = row, status[b] # "none", IsKnown(u),
         b \notin raced \cup legacy /\ status[b] # "deleted" =>
           (row.role = "owner" => new.role = "owner"),
         Biz!Begin(t, [Biz!Idle EXCEPT !.b = b, !.u = u, !.row = row, !.new = new], "member")
  PROVE  BizIInv'
<1>1. PICK q : q = [Biz!Idle EXCEPT !.b = b, !.u = u, !.row = row, !.new = new]
  OBVIOUS
<1>2. PICK r : r = [q EXCEPT !.pc = "member"]
  OBVIOUS
<1>3. /\ r.pc = "member" /\ r.b = b /\ r.u = u /\ r.prev = None /\ r.row = row /\ r.new = new
      /\ r.b = q.b /\ r.u = q.u /\ r.prev = q.prev
  BY <1>1, <1>2 DEF Biz!Idle
<1>4. UNCHANGED <<role, status, member, legacy>> /\ raced \subseteq raced'
  BY DEF Biz!Begin
<1>5. KnowsMember(r)'
  BY <1>3, <1>4 DEF KnowsMember, IsKnown
<1>6. BizKnows(r)'
  BY <1>3, <1>5 DEF BizKnows
<1>7. QED
  BY <1>1, <1>2, <1>3, <1>6, BeginKeepsRequests

(* Who is general owns no business that is not deleted, unless requests      *)
(* raced or version 1 set it apart.                                         *)
LEMMA GeneralIsNoOwner ==
  ASSUME BizIInv, NEW b \in Businesses \ (raced \cup legacy), NEW u \in Users,
         role[u] = "general", status[b] # "deleted"
  PROVE  owner[b] # u
  BY DEF BizIInv, Biz!OwnersAreStuff

LEMMA AddMemberKeeps ==
  ASSUME BizIInv, NEW t \in Threads, NEW b \in Businesses, NEW u \in Users,
         Biz!AddMember(t, b, u) \/ Biz!AddAnyMember(t, b, u)
  PROVE  BizIInv'
<1>1. PICK row : row = member[b][u]
  OBVIOUS
<1>2. PICK new \in BizRows :
        Biz!Begin(t, [Biz!Idle EXCEPT !.b = b, !.u = u, !.row = row, !.new = new], "member")
  <2>1. CASE Biz!AddMember(t, b, u)
    <3>1. PICK new \in Biz!NewMembers :
            Biz!Begin(t, [Biz!Idle EXCEPT !.b = b, !.u = u, !.row = row, !.new = new], "member")
      BY <1>1, <2>1 DEF Biz!AddMember
    <3>2. new \in BizRows
      BY DEF Biz!NewMembers, Biz!ASSIGNABLE_MEMBER_ROLES, Biz!VALID_MEMBER_STATUSES, BizRows
    <3>3. QED
      BY <3>1, <3>2
  <2>2. CASE Biz!AddAnyMember(t, b, u)
    <3>1. PICK r \in {"owner", "admin"}, s \in {"active", "inactive"} :
            Biz!Begin(t, [Biz!Idle EXCEPT !.b = b, !.u = u, !.row = row, !.new = Biz!Member(r, s)], "member")
      BY <1>1, <2>2 DEF Biz!AddAnyMember, Biz!VALID_MEMBER_ROLES, Biz!VALID_MEMBER_STATUSES
    <3>2. Biz!Member(r, s) \in BizRows
      BY <3>1, MembersAreRows
    <3>3. QED
      BY <3>1, <3>2
  <2>3. QED
    BY <2>1, <2>2
<1>3. status[b] # "none" /\ IsKnown(u) /\ row = Biz!NoMember
  BY <1>1 DEF Biz!AddMember, Biz!AddAnyMember, Biz!Accessible, IsKnown, Biz!IsMember
<1>4. row.role # "owner"
  BY <1>3, MembersAreRows
<1>5. QED
  BY <1>1, <1>2, <1>3, <1>4, BeginMemberKeeps

LEMMA UpdateMemberKeeps ==
  ASSUME BizIInv, NEW t \in Threads, NEW b \in Businesses, NEW u \in Users,
         Biz!UpdateMember(t, b, u) \/ Biz!UpdateAnyMember(t, b, u)
  PROVE  BizIInv'
<1>1. PICK row : row = member[b][u]
  OBVIOUS
<1>2. row \in BizRows /\ IsKnown(u) /\ status[b] = "active"
  <2>1. member[b][u] \in BizRows \cup {Biz!NoMember}
    BY DEF BizIInv, BizRowsHold
  <2>2. Biz!IsMember(b, u) /\ status[b] = "active"
    BY DEF Biz!UpdateMember, Biz!UpdateAnyMember, Biz!Accessible
  <2>3. IsKnown(u)
    BY <2>2 DEF BizIInv, BizRowsHold
  <2>4. QED
    BY <1>1, <2>1, <2>2, <2>3 DEF Biz!IsMember
<1>3. PICK new \in BizRows :
        /\ b \notin raced \cup legacy => (row.role = "owner" => new.role = "owner")
        /\ Biz!Begin(t, [Biz!Idle EXCEPT !.b = b, !.u = u, !.row = row, !.new = new], "member")
  <2>1. CASE Biz!UpdateMember(t, b, u)
    <3>1. PICK r \in {"admin", row.role}, s \in {"active", "inactive"} :
            /\ row.role = "owner" => r = "owner"
            /\ Biz!Begin(t, [Biz!Idle EXCEPT !.b = b, !.u = u, !.row = row, !.new = Biz!Member(r, s)], "member")
      BY <1>1, <2>1 DEF Biz!UpdateMember, Biz!ASSIGNABLE_MEMBER_ROLES, Biz!VALID_MEMBER_STATUSES
    <3>2. row.role \in {"admin", "owner"}
      BY <1>2 DEF BizRows
    <3>3. Biz!Member(r, s) \in BizRows /\ Biz!Member(r, s).role = r
      BY <3>1, <3>2, MembersAreRows
    <3>4. QED
      BY <3>1, <3>3
  <2>2. CASE Biz!UpdateAnyMember(t, b, u)
    <3>1. PICK r \in {"owner", "admin"}, s \in {"active", "inactive"} :
            /\ owner[b] = u => r = row.role
            /\ Biz!Begin(t, [Biz!Idle EXCEPT !.b = b, !.u = u, !.row = row, !.new = Biz!Member(r, s)], "member")
      BY <1>1, <2>2 DEF Biz!UpdateAnyMember, Biz!VALID_MEMBER_ROLES, Biz!VALID_MEMBER_STATUSES
    <3>2. Biz!Member(r, s) \in BizRows /\ Biz!Member(r, s).role = r
      BY <3>1, MembersAreRows
    <3>3. b \notin raced \cup legacy => (row.role = "owner" <=> owner[b] = u)
      BY <1>1, <1>2 DEF BizIInv, Biz!OwnerIsTheOwner
    <3>4. QED
      BY <3>1, <3>2, <3>3
  <2>3. QED
    BY <2>1, <2>2
<1>4. QED
  BY <1>1, <1>2, <1>3, BeginMemberKeeps

LEMMA AssignMembershipKeeps ==
  ASSUME BizIInv, NEW t \in Threads, NEW b \in Businesses, NEW u \in Users,
         Biz!AssignGeneralMembership(t, b, u)
  PROVE  BizIInv'
<1>1. PICK row \in BizRows \cup {Biz!NoMember} : row = member[b][u]
  BY DEF BizIInv, BizRowsHold
<1>2. PICK new \in Biz!NewMembers :
        Biz!Begin(t, [Biz!Idle EXCEPT !.b = b, !.u = u, !.row = row, !.new = new], "member")
  BY <1>1 DEF Biz!AssignGeneralMembership
<1>3. new \in BizRows
  BY DEF Biz!NewMembers, Biz!ASSIGNABLE_MEMBER_ROLES, Biz!VALID_MEMBER_STATUSES, BizRows
<1>4. status[b] # "none" /\ role[u] = "general"
  BY DEF Biz!AssignGeneralMembership
<1>5. b \notin raced \cup legacy /\ status[b] # "deleted" => row.role # "owner"
  BY <1>1, <1>4, GeneralIsNoOwner DEF BizIInv, Biz!OwnerIsTheOwner
<1>6. IsKnown(u)
  BY <1>4 DEF IsKnown
<1>7. QED
  BY <1>1, <1>2, <1>3, <1>4, <1>5, <1>6, BeginMemberKeeps

LEMMA BeginRemovalKeeps ==
  ASSUME BizIInv, NEW t \in Threads, NEW b \in Businesses, NEW u \in Users,
         Biz!RemoveMember(t, b, u) \/ Biz!RemoveGeneralMembership(t, b, u)
  PROVE  BizIInv'
<1>1. Biz!Begin(t, [Biz!Idle EXCEPT !.b = b, !.u = u], "remove")
  BY DEF Biz!RemoveMember, Biz!RemoveGeneralMembership
<1>2. PICK q : q = [Biz!Idle EXCEPT !.b = b, !.u = u]
  OBVIOUS
<1>3. PICK r : r = [q EXCEPT !.pc = "remove"]
  OBVIOUS
<1>4. /\ r.pc = "remove" /\ r.b = b /\ r.u = u /\ r.prev = None
      /\ r.b = q.b /\ r.u = q.u /\ r.prev = q.prev
  BY <1>2, <1>3 DEF Biz!Idle
<1>5. b \notin raced \cup legacy /\ status[b] # "deleted" => owner[b] # u
  BY GeneralIsNoOwner DEF Biz!RemoveMember, Biz!RemoveGeneralMembership
<1>6. UNCHANGED <<status, owner, legacy>> /\ raced \subseteq raced'
  BY <1>1 DEF Biz!Begin
<1>7. BizKnows(r)'
  BY <1>4, <1>5, <1>6 DEF BizKnows, KnowsRemoval
<1>8. QED
  BY <1>1, <1>2, <1>3, <1>4, <1>7, BeginKeepsRequests

(* All that a transfer has read is so when it begins.                       *)
LEMMA BeginTransferKeeps ==
  ASSUME BizIInv, NEW t \in Threads, NEW b \in Businesses, NEW u \in Users,
         NEW row \in BizRows, NEW new \in BizRows, NEW to \in {"stuff", "owner"},
         NEW demote \in {"none", "general", "admin"},
         member[b][u] = row, status[b] = "active",
         new.role = "owner", new.status = row.status,
         demote = "general" => Biz!Owned(owner[b]) \subseteq {b},
         demote = "none" => ~ (Biz!Owned(owner[b]) \subseteq {b}),
         Biz!BeginTransfer(t, b, u, new, to, demote)
  PROVE  BizIInv'
<1>1. PICK p \in Users \cup {None} : p = owner[b]
  BY DEF BizIInv, BizRowsHold
<1>2. PICK prev \in Users \cup {None} : prev = IF p = u THEN None ELSE p
  OBVIOUS
<1>3. PICK prevRow : prevRow = IF p \in {u, None} THEN Biz!NoMember ELSE member[b][p]
  OBVIOUS
<1>4. PICK d \in {"none", "general", "admin"} : d = IF p \in {u, None} THEN "none" ELSE demote
  OBVIOUS
<1>5. PICK q : q = [Biz!Idle EXCEPT !.b = b, !.u = u, !.row = row, !.new = new, !.to = to,
                                !.prev = prev, !.prevRow = prevRow, !.demote = d]
  OBVIOUS
<1>6. Biz!Begin(t, q, "transfer")
  BY <1>1, <1>2, <1>3, <1>4, <1>5 DEF Biz!BeginTransfer
<1>7. PICK r : r = [q EXCEPT !.pc = "transfer"]
  OBVIOUS
<1>8. /\ r.pc = "transfer" /\ r.b = b /\ r.u = u /\ r.prev = prev
      /\ r.row = row /\ r.new = new /\ r.to = to /\ r.prevRow = prevRow /\ r.demote = d
      /\ r.b = q.b /\ r.u = q.u /\ r.prev = q.prev
  BY <1>5, <1>7 DEF Biz!Idle
<1>9. UNCHANGED <<role, status, owner, member>> /\ raced \subseteq raced'
  BY <1>6 DEF Biz!Begin
<1>10. IsKnown(u)
  <2>1. Biz!IsMember(b, u)
    BY MembersAreRows DEF Biz!IsMember
  <2>2. QED
    BY <2>1 DEF BizIInv, BizRowsHold
<1>11. prevRow \in BizRows \cup {Biz!NoMember} /\ (prev \in Users => IsKnown(prev))
  BY <1>1, <1>2, <1>3, NoneIsNobody DEF BizIInv, BizRowsHold
<1>12. prev # None <=> p \notin {u, None}
  BY <1>2
<1>13. prev # None => prev = p
  BY <1>2
<1>14. d # "none" => prev # None /\ d = demote
  BY <1>4, <1>12
<1>15. d = "general" => \A c \in Businesses \ {b} : owner[c] = prev => status[c] = "deleted"
  <2> SUFFICES ASSUME d = "general"
               PROVE  \A c \in Businesses \ {b} : owner[c] = prev => status[c] = "deleted"
    OBVIOUS
  <2>1. demote = "general" /\ prev = p
    BY <1>4, <1>12, <1>13, NoneIsNobody
  <2>2. Biz!Owned(prev) \subseteq {b}
    BY <1>1, <2>1
  <2>3. QED
    BY <2>2 DEF Biz!Owned
<1>16. prev \in Users /\ d = "none" => \E c \in Businesses \ {b} : owner[c] = prev
  <2> SUFFICES ASSUME prev \in Users, d = "none"
               PROVE  \E c \in Businesses \ {b} : owner[c] = prev
    OBVIOUS
  <2>1. demote = "none" /\ prev = p
    BY <1>4, <1>12, <1>13, NoneIsNobody
  <2>2. ~ (Biz!Owned(prev) \subseteq {b})
    BY <1>1, <2>1
  <2>3. QED
    BY <2>2 DEF Biz!Owned
<1>17. KnowsTransfer(r)'
  <2>1. /\ r.u \in Users /\ r.u # r.prev /\ IsKnown(r.u)'
        /\ status'[r.b] # "none"
        /\ r.row \in BizRows /\ r.new \in BizRows
        /\ r.new.role = "owner" /\ r.new.status = r.row.status
        /\ r.to \in {"stuff", "owner"}
        /\ r.prevRow \in BizRows \cup {Biz!NoMember}
        /\ r.prev = None => r.prevRow = Biz!NoMember /\ r.demote = "none"
        /\ r.prev \in Users => IsKnown(r.prev)'
        /\ r.demote \in {"none", "general", "admin"}
    BY <1>2, <1>3, <1>4, <1>8, <1>9, <1>10, <1>11, <1>14, NoneIsNobody DEF IsKnown
  <2>2. owner'[r.b] \in {r.prev, r.u, None} \cup raced'
    BY <1>1, <1>2, <1>8, <1>9
  <2>3. r.demote = "general" =>
          \A c \in Businesses \ (raced' \cup {r.b}) : owner'[c] = r.prev => status'[c] = "deleted"
    BY <1>8, <1>9, <1>15
  <2>4. r.prev \in Users \ raced' /\ r.demote = "none" =>
          \E c \in Businesses \ {r.b} : owner'[c] = r.prev
    BY <1>8, <1>9, <1>16
  <2>5. /\ status'[r.b] = "active"
        /\ member'[r.b][r.u] = r.row
        /\ r.prev = None => owner'[r.b] \in {r.u, None}
        /\ r.prev # None => owner'[r.b] = r.prev /\ member'[r.b][r.prev] = r.prevRow
    BY <1>1, <1>2, <1>3, <1>8, <1>9
  <2>6. QED
    BY <2>1, <2>2, <2>3, <2>4, <2>5, Zenon DEF KnowsTransfer
<1>18. BizKnows(r)'
  BY <1>8, <1>17 DEF BizKnows
<1>19. QED
  BY <1>6, <1>7, <1>8, <1>18, BeginKeepsRequests

LEMMA TransferOwnershipKeeps ==
  ASSUME BizIInv, NEW t \in Threads, NEW b \in Businesses, NEW u \in Users,
         Biz!TransferOwnership(t, b, u) \/ Biz!TransferToAnyMember(t, b, u)
  PROVE  BizIInv'
<1>1. PICK row : row = member[b][u]
  OBVIOUS
<1>2. row \in BizRows /\ status[b] = "active"
  <2>1. row \in BizRows \cup {Biz!NoMember} /\ status[b] = "active"
    BY <1>1 DEF BizIInv, BizRowsHold, Biz!TransferOwnership, Biz!TransferToAnyMember, Biz!Accessible
  <2>2. row # Biz!NoMember
    BY <1>1, MembersAreRows DEF Biz!TransferOwnership, Biz!TransferToAnyMember, Biz!IsMember
  <2>3. QED
    BY <2>1, <2>2
<1>3. CASE Biz!TransferOwnership(t, b, u)
  <2>1. PICK new \in BizRows : new = Biz!Member("owner", "active")
    BY MembersAreRows
  <2>2. PICK demote : demote = IF Biz!Owned(owner[b]) \subseteq {b} THEN "general" ELSE "none"
    OBVIOUS
  <2>3. row.status = "active" /\ Biz!BeginTransfer(t, b, u, new, "stuff", demote)
    BY <1>1, <1>3, <2>1, <2>2 DEF Biz!TransferOwnership
  <2>4. new.role = "owner" /\ new.status = row.status
    BY <2>1, <2>3, MembersAreRows
  <2>5. /\ demote \in {"none", "general", "admin"}
        /\ demote = "general" => Biz!Owned(owner[b]) \subseteq {b}
        /\ demote = "none" => ~ (Biz!Owned(owner[b]) \subseteq {b})
    BY <2>2
  <2>6. QED
    BY <1>1, <1>2, <2>3, <2>4, <2>5, BeginTransferKeeps
<1>4. CASE Biz!TransferToAnyMember(t, b, u)
  <2>1. PICK new : new = [row EXCEPT !.role = "owner"]
    OBVIOUS
  <2>2. new \in BizRows /\ new.role = "owner" /\ new.status = row.status
    BY <1>2, <2>1 DEF BizRows
  <2>3. Biz!BeginTransfer(t, b, u, new, "owner", "admin")
    BY <1>1, <1>4, <2>1 DEF Biz!TransferToAnyMember
  <2>4. QED
    BY <1>1, <1>2, <2>2, <2>3, BeginTransferKeeps
<1>5. QED
  BY <1>3, <1>4

-----------------------------------------------------------------------------
(* The rows of other businesses and the roles of other users are left alone. *)
OnlyTouches(r) ==
  /\ \A b \in Businesses \ {r.b} :
       /\ status'[b] = status[b] /\ owner'[b] = owner[b] /\ limit'[b] = limit[b]
       /\ \A u \in Users : member'[b][u] = member[b][u]
  /\ \A u \in Users \ {r.u, r.prev} : role'[u] = role[u]

(* A request commits or fails: what the others know stays known.             *)
LEMMA CommitKeepsRequests ==
  ASSUME BizIInv, NEW t \in Threads, NEW r, r = work[t], r.pc # "idle", Biz!End(t), BizRowsHold',
         OnlyTouches(r),
         status[r.b] # "none" => status'[r.b] # "none",
         r.b \notin raced /\ status[r.b] = "deleted" => status'[r.b] = "deleted",
         \A u \in Users : IsKnown(u) => IsKnown(u)', legacy \subseteq legacy',
         owner'[r.b] \in {owner[r.b], r.u},
         owner'[r.b] # owner[r.b] => owner[r.b] \in {r.prev, r.u, None} \cup raced
  PROVE  BizRequestsAreAlone' /\ BizRequestsHold'
<1>1. DOMAIN work = Threads
  BY DEF BizIInv, BizRowsHold
<1>2. work'[t] = Biz!Idle /\ (\A v \in Threads \ {t} : work'[v] = work[v]) /\ raced' = raced
  BY <1>1 DEF Biz!End
<1>3. r.b \in Businesses /\ r.u \in Users \cup {None} /\ r.prev \in Users \cup {None}
  BY DEF BizIInv, BizRequestsHold, BizKnows
<1>4. BizRequestsAreAlone'
  <2> SUFFICES ASSUME NEW v \in Threads, NEW w \in Threads, v # w,
                      work'[v].pc # "idle", work'[w].pc # "idle",
                      Biz!About(work'[v]) \cap Biz!About(work'[w]) # {}
               PROVE  Biz!About(work'[v]) \cup Biz!About(work'[w]) \subseteq raced
    BY <1>2 DEF BizRequestsAreAlone, Biz!About
  <2>1. v # t /\ w # t
    BY <1>2 DEF Biz!Idle
  <2>2. work'[v] = work[v] /\ work'[w] = work[w]
    BY <1>2, <2>1
  <2>3. QED
    BY <2>2 DEF BizIInv, BizRequestsAreAlone
<1>5. ASSUME NEW v \in Threads \ {t}, NEW s, s = work[v], s.pc # "idle",
             BizKnows(s)
      PROVE  BizKnows(s)'
  <2>1. s.b \in Businesses /\ s.u \in Users \cup {None} /\ s.prev \in Users \cup {None}
    BY <1>5 DEF BizKnows
  <2>2. Biz!About(s) \cap Biz!About(r) # {} => Biz!About(s) \cup Biz!About(r) \subseteq raced
    BY <1>5 DEF BizIInv, BizRequestsAreAlone
  <2>3. r.b \in Biz!About(r) /\ s.b \in Biz!About(s)
    BY <1>3, <2>1, NoneIsNobody DEF Biz!About
  <2>4. /\ r.u \in Users => r.u \in Biz!About(r)
        /\ r.prev \in Users => r.prev \in Biz!About(r)
        /\ s.u \in Users => s.u \in Biz!About(s)
        /\ s.prev \in Users => s.prev \in Biz!About(s)
    BY NoneIsNobody DEF Biz!About
  <2>5. s.b \notin raced' =>
          /\ status'[s.b] = status[s.b] /\ owner'[s.b] = owner[s.b] /\ limit'[s.b] = limit[s.b]
          /\ \A u \in Users : member'[s.b][u] = member[s.b][u]
          /\ s.u \in Users => role'[s.u] = role[s.u]
    <3> SUFFICES ASSUME s.b \notin raced
                 PROVE  /\ status'[s.b] = status[s.b] /\ owner'[s.b] = owner[s.b]
                        /\ limit'[s.b] = limit[s.b]
                        /\ \A u \in Users : member'[s.b][u] = member[s.b][u]
                        /\ s.u \in Users => role'[s.u] = role[s.u]
      BY <1>2
    <3>1. Biz!About(s) \cap Biz!About(r) = {}
      BY <2>2, <2>3
    <3>2. s.b # r.b /\ (s.u \in Users => s.u \notin {r.u, r.prev})
      BY <2>3, <2>4, <3>1
    <3>3. QED
      BY <2>1, <3>2 DEF OnlyTouches
  <2>6. owner'[s.b] \in {owner[s.b], None} \cup raced'
    <3>1. CASE s.b = r.b
      <4>1. r.u \in Users => r.u \in raced
        BY <2>2, <2>3, <2>4, <3>1
      <4>2. QED
        BY <1>2, <1>3, <3>1, <4>1
    <3>2. CASE s.b # r.b
      BY <2>1, <3>2 DEF OnlyTouches
    <3>3. QED
      BY <3>1, <3>2
  <2>7. ASSUME s.prev \in Users, NEW b \in Businesses \ raced, owner'[b] = s.prev
        PROVE  owner[b] = s.prev /\ (status[b] = "deleted" => status'[b] = "deleted")
    <3>1. CASE b = r.b
      <4>1. s.prev # r.u
        BY <2>2, <2>3, <2>4, <2>7, <3>1
      <4>2. QED
        BY <2>7, <3>1, <4>1
    <3>2. CASE b # r.b
      BY <2>7, <3>2 DEF OnlyTouches
    <3>3. QED
      BY <3>1, <3>2
  <2>8. ASSUME s.prev \in Users \ raced, NEW b \in Businesses, owner[b] = s.prev
        PROVE  owner'[b] = s.prev
    <3>1. s.prev \notin {r.prev, r.u, None}
      BY <2>2, <2>4, <2>8, NoneIsNobody
    <3>2. b = r.b => owner'[r.b] = owner[r.b]
      BY <2>8, <3>1
    <3>3. QED
      BY <2>8, <3>2 DEF OnlyTouches
  <2>9. BizRowsHold /\ raced \subseteq raced'
    BY <1>2 DEF BizIInv
  <2>10. \A b \in Businesses : status[b] # "none" => status'[b] # "none"
    BY DEF OnlyTouches
  <2>11. /\ s.prev \in Users =>
             \A b \in Businesses \ raced' :
               owner'[b] = s.prev =>
                 owner[b] = s.prev /\ (status[b] = "deleted" => status'[b] = "deleted")
         /\ s.prev \in Users \ raced' =>
             \A b \in Businesses : owner[b] = s.prev => owner'[b] = s.prev
    BY <1>2, <2>7, <2>8
  <2>12. QED
    BY <1>5, <2>5, <2>6, <2>9, <2>10, <2>11, KnownStays
<1>6. BizRequestsHold'
  <2> SUFFICES ASSUME NEW v \in Threads
               PROVE  BizKnows(work[v])'
    BY DEF BizRequestsHold
  <2>1. PICK s : s = work'[v]
    OBVIOUS
  <2>2. CASE v = t \/ s.pc = "idle"
    <3>1. s.pc = "idle"
      BY <1>2, <2>1, <2>2 DEF Biz!Idle
    <3>2. QED
      BY <2>1, <3>1 DEF BizKnows
  <2>3. CASE v # t /\ s.pc # "idle"
    <3>1. s = work[v] /\ BizKnows(s)
      BY <1>2, <2>1, <2>3 DEF BizIInv, BizRequestsHold
    <3>2. BizKnows(s)'
      BY <1>5, <2>3, <3>1
    <3>3. QED
      BY <2>1, <3>2
  <2>4. QED
    BY <2>2, <2>3
<1>7. QED
  BY <1>4, <1>6

-----------------------------------------------------------------------------
(* What ends is one of the requests at work, and knows what it has read.     *)
LEMMA WhatEnds ==
  ASSUME BizIInv, NEW t \in Threads, work[t].pc # "idle"
  PROVE  /\ work[t].b \in Businesses /\ work[t].u \in Users \cup {None}
         /\ work[t].prev \in Users \cup {None}
         /\ BizKnows(work[t])
  BY DEF BizIInv, BizRequestsHold, BizKnows

LEMMA EndKeepsDomain ==
  ASSUME BizIInv, NEW t \in Threads, Biz!End(t)
  PROVE  /\ DOMAIN work' = Threads /\ raced' = raced
         /\ \A b \in Businesses : Biz!Joining(b)' = Biz!Joining(b) \ {t}
<1>1. DOMAIN work = Threads
  BY DEF BizIInv, BizRowsHold
<1>2. work'[t].pc = "idle" /\ (\A v \in Threads \ {t} : work'[v] = work[v]) /\ raced' = raced
  BY <1>1 DEF Biz!End, Biz!Idle
<1>3. QED
  BY <1>1, <1>2 DEF Biz!End, Biz!Joining

LEMMA CountsAreNumbers ==
  ASSUME BizRowsHold, NEW b \in Businesses
  PROVE  /\ IsFiniteSet(Biz!ActiveUsers(b)) /\ Cardinality(Biz!ActiveUsers(b)) \in Nat
         /\ IsFiniteSet(Biz!Joining(b)) /\ Cardinality(Biz!Joining(b)) \in Nat
         /\ limit[b] # None => limit[b] \in Nat
<1>1. Biz!ActiveUsers(b) \subseteq Users /\ Biz!Joining(b) \subseteq Threads
  BY DEF Biz!ActiveUsers, Biz!Joining
<1>2. QED
  BY <1>1, UsersAreFinite, FS_Subset, FS_CardinalityType, LimitsArePositive DEF BizRowsHold

(* Where no member becomes active and nobody begins to add one, the counts    *)
(* do not grow.                                                             *)
LEMMA FewerActiveKeepTheLimit ==
  ASSUME BizIInv, limit' = limit, raced \subseteq raced', unchecked \subseteq unchecked',
         \A b \in Businesses \ unchecked' : limit[b] # None =>
           /\ \A u \in Users : member'[b][u].status = "active" => member[b][u].status = "active"
           /\ Biz!Joining(b)' \subseteq Biz!Joining(b)
  PROVE  LimitIsMet' /\ RoomIsLeft'
<1>1. ASSUME NEW b \in Businesses \ unchecked', limit[b] # None
      PROVE  /\ Cardinality(Biz!ActiveUsers(b)') <= Cardinality(Biz!ActiveUsers(b))
             /\ Cardinality(Biz!Joining(b)') <= Cardinality(Biz!Joining(b))
             /\ Cardinality(Biz!ActiveUsers(b)') \in Nat /\ Cardinality(Biz!ActiveUsers(b)) \in Nat
             /\ Cardinality(Biz!Joining(b)') \in Nat /\ Cardinality(Biz!Joining(b)) \in Nat
             /\ limit[b] \in Nat
  <2>1. Biz!ActiveUsers(b)' \subseteq Biz!ActiveUsers(b) /\ Biz!Joining(b)' \subseteq Biz!Joining(b)
    BY <1>1 DEF Biz!ActiveUsers
  <2>2. BizRowsHold
    BY DEF BizIInv
  <2>3. /\ IsFiniteSet(Biz!ActiveUsers(b)) /\ Cardinality(Biz!ActiveUsers(b)) \in Nat
        /\ IsFiniteSet(Biz!Joining(b)) /\ Cardinality(Biz!Joining(b)) \in Nat
        /\ limit[b] \in Nat
    BY <1>1, <2>2, CountsAreNumbers
  <2>4. QED
    BY <2>1, <2>3, FS_Subset, FS_CardinalityType
<1>2. LimitIsMet'
  <2> SUFFICES ASSUME NEW b \in Businesses \ (raced' \cup unchecked'), limit[b] # None
               PROVE  Cardinality(Biz!ActiveUsers(b)') <= limit[b]
    BY DEF LimitIsMet
  <2>1. Cardinality(Biz!ActiveUsers(b)) <= limit[b]
    BY DEF BizIInv, LimitIsMet
  <2>2. QED
    BY <1>1, <2>1
<1>3. RoomIsLeft'
  <2> SUFFICES ASSUME NEW b \in Businesses \ unchecked', limit[b] # None
               PROVE  Cardinality(Biz!ActiveUsers(b)') + Cardinality(Biz!Joining(b)')
                        < limit[b] + Cardinality(Threads)
    BY DEF RoomIsLeft
  <2>1. Cardinality(Biz!ActiveUsers(b)) + Cardinality(Biz!Joining(b)) < limit[b] + Cardinality(Threads)
    BY DEF BizIInv, RoomIsLeft
  <2>2. QED
    BY <1>1, <2>1, ThreadsAreSome
<1>4. QED
  BY <1>2, <1>3

LEMMA SaveUserKeeps ==
  ASSUME BizIInv, NEW t \in Threads, Biz!SaveUser(t)
  PROVE  BizIInv'
<1>1. PICK r : r = work[t]
  OBVIOUS
<1>2. /\ r.pc = "user" /\ role[r.u] = "none" /\ Biz!End(t)
      /\ role' = [role EXCEPT ![r.u] = r.to]
      /\ member' = [member EXCEPT ![r.b][r.u] = r.new]
      /\ legacy' = IF r.new.role = "owner" THEN legacy \cup {r.b} ELSE legacy
      /\ UNCHANGED <<status, owner, limit, unchecked, gave>>
  BY <1>1 DEF Biz!SaveUser
<1>3. r.b \in Businesses /\ r.u \in Users /\ r.prev \in Users \cup {None} /\ KnowsUser(r)
  BY <1>1, <1>2, WhatEnds DEF BizKnows, KnowsUser
<1>4. /\ DOMAIN work' = Threads /\ raced' = raced /\ legacy \subseteq legacy'
      /\ \A b \in Businesses : Biz!Joining(b)' = Biz!Joining(b) \ {t}
  BY <1>2, EndKeepsDomain
<1>5. role'[r.u] = r.to /\ r.to # "none" /\ \A u \in Users \ {r.u} : role'[u] = role[u]
  BY <1>2, <1>3 DEF BizIInv, BizRowsHold, KnowsUser
<1>6. /\ member'[r.b][r.u] = r.new
      /\ \A u \in Users \ {r.u} : member'[r.b][u] = member[r.b][u]
      /\ \A b \in Businesses \ {r.b} : \A u \in Users : member'[b][u] = member[b][u]
  BY <1>2, <1>3 DEF BizIInv, BizRowsHold, KnowsUser
<1>7. r.new \in BizRows
  BY <1>3 DEF KnowsUser
<1>8. ~ IsKnown(r.u) /\ \A u \in Users : IsKnown(u) => IsKnown(u)'
  BY <1>2, <1>5 DEF IsKnown
<1>9. BizRowsHold'
  <2>1. /\ role' \in [Users -> BizRoles]
        /\ member' \in [Businesses -> [Users -> BizRows \cup {Biz!NoMember}]]
    BY <1>2, <1>3, <1>7 DEF BizIInv, BizRowsHold, KnowsUser
  <2>2. \A b \in Businesses : \A u \in Users : Biz!IsMember(b, u)' => status[b] # "none" /\ IsKnown(u)'
    BY <1>3, <1>5, <1>6, <1>8 DEF BizIInv, BizRowsHold, Biz!IsMember, KnowsUser, IsKnown
  <2>3. QED
    BY <1>2, <1>4, <1>8, <2>1, <2>2 DEF BizIInv, BizRowsHold, IsKnown
<1>10. OnlyTouches(r)
  BY <1>2, <1>5, <1>6 DEF OnlyTouches
<1>11. BizRequestsAreAlone' /\ BizRequestsHold'
  BY <1>1, <1>2, <1>3, <1>4, <1>8, <1>9, <1>10, CommitKeepsRequests
<1>12. \A b \in Businesses : owner[b] # r.u
  BY <1>3, <1>8, NoneIsNobody DEF BizIInv, BizRowsHold
<1>13. Biz!OwnerIsTheOwner'
  <2>1. r.b \notin legacy' => r.new.role # "owner"
    BY <1>2
  <2>2. QED
    BY <1>2, <1>3, <1>4, <1>6, <1>12, <2>1 DEF BizIInv, Biz!OwnerIsTheOwner
<1>14. Biz!OwnersAreStuff'
  BY <1>2, <1>4, <1>5, <1>12 DEF BizIInv, Biz!OwnersAreStuff
<1>15. Biz!GiversAreDemoted'
  <2>1. r.u \notin gave
    BY <1>3, <1>8, NoneIsNobody DEF BizIInv, BizRowsHold
  <2>2. \A u \in gave \ {None} : u \in Users
    BY DEF BizIInv, BizRowsHold
  <2>3. QED
    BY <1>2, <1>4, <1>5, <2>1, <2>2 DEF BizIInv, Biz!GiversAreDemoted
<1>16. ASSUME NEW b \in Businesses
       PROVE  /\ Biz!ActiveUsers(b)' \subseteq Biz!ActiveUsers(b) \cup {r.u}
              /\ b # r.b => Biz!ActiveUsers(b)' = Biz!ActiveUsers(b)
  BY <1>3, <1>6 DEF Biz!ActiveUsers
<1>17. ASSUME NEW b \in Businesses
       PROVE  /\ Cardinality(Biz!ActiveUsers(b)') <= Cardinality(Biz!ActiveUsers(b)) + 1
              /\ Cardinality(Biz!ActiveUsers(b)') \in Nat /\ Cardinality(Biz!ActiveUsers(b)) \in Nat
  <2>1. IsFiniteSet(Biz!ActiveUsers(b)) /\ Cardinality(Biz!ActiveUsers(b)) \in Nat
    BY CountsAreNumbers DEF BizIInv
  <2>2. /\ IsFiniteSet(Biz!ActiveUsers(b) \cup {r.u})
        /\ Cardinality(Biz!ActiveUsers(b) \cup {r.u}) <= Cardinality(Biz!ActiveUsers(b)) + 1
    <3>1. /\ IsFiniteSet(Biz!ActiveUsers(b) \cup {r.u})
          /\ Cardinality(Biz!ActiveUsers(b) \cup {r.u}) \in
               {Cardinality(Biz!ActiveUsers(b)), Cardinality(Biz!ActiveUsers(b)) + 1}
      BY <2>1, FS_AddElement
    <3>2. QED
      BY <2>1, <3>1
  <2>3. /\ Cardinality(Biz!ActiveUsers(b)') <= Cardinality(Biz!ActiveUsers(b) \cup {r.u})
        /\ Cardinality(Biz!ActiveUsers(b)') \in Nat /\ Cardinality(Biz!ActiveUsers(b) \cup {r.u}) \in Nat
    BY <1>16, <2>2, FS_Subset, FS_CardinalityType
  <2>4. QED
    BY <2>1, <2>2, <2>3
<1>18. LimitIsMet'
  <2> SUFFICES ASSUME NEW b \in Businesses \ (raced \cup unchecked), limit[b] # None
               PROVE  Cardinality(Biz!ActiveUsers(b)') <= limit[b]
    BY <1>2, <1>4 DEF LimitIsMet
  <2>1. limit[b] \in Nat
    BY CountsAreNumbers DEF BizIInv
  <2>2. CASE b = r.b
    <3>1. Cardinality(Biz!ActiveUsers(b)) < limit[b]
      BY <1>3, <2>2, SizesAgree DEF KnowsUser, Biz!CanAddUserToBusiness
    <3>2. QED
      BY <1>17, <2>1, <3>1
  <2>3. CASE b # r.b
    BY <1>16, <2>3 DEF BizIInv, LimitIsMet
  <2>4. QED
    BY <2>2, <2>3
<1>19. RoomIsLeft'
  <2> SUFFICES ASSUME NEW b \in Businesses \ unchecked, limit[b] # None
               PROVE  Cardinality(Biz!ActiveUsers(b)') + Cardinality(Biz!Joining(b)')
                        < limit[b] + Cardinality(Threads)
    BY <1>2 DEF RoomIsLeft
  <2>1. /\ limit[b] \in Nat /\ IsFiniteSet(Biz!Joining(b))
        /\ Cardinality(Biz!Joining(b)) \in Nat /\ Cardinality(Biz!ActiveUsers(b)) \in Nat
    BY CountsAreNumbers DEF BizIInv
  <2>2. Cardinality(Biz!ActiveUsers(b)) + Cardinality(Biz!Joining(b)) < limit[b] + Cardinality(Threads)
    BY DEF BizIInv, RoomIsLeft
  <2>3. CASE b = r.b
    <3>1. t \in Biz!Joining(b)
      BY <1>1, <1>2, <2>3 DEF Biz!Joining
    <3>2. Cardinality(Biz!Joining(b)') = Cardinality(Biz!Joining(b)) - 1
      BY <1>4, <2>1, <3>1, FS_RemoveElement
    <3>3. QED
      BY <1>17, <2>1, <2>2, <3>2, ThreadsAreSome
  <2>4. CASE b # r.b
    <3>1. t \notin Biz!Joining(b)
      BY <1>1, <2>4 DEF Biz!Joining
    <3>2. Biz!Joining(b)' = Biz!Joining(b)
      BY <1>4, <3>1
    <3>3. QED
      BY <1>16, <2>2, <2>4, <3>2
  <2>5. QED
    BY <2>3, <2>4
<1>20. QED
  BY <1>9, <1>11, <1>13, <1>14, <1>15, <1>18, <1>19 DEF BizIInv

(* A business with its owner, by either version.                            *)
LEMMA SaveBusinessKeeps ==
  ASSUME BizIInv, NEW t \in Threads, Biz!SaveBusiness(t)
  PROVE  BizIInv'
<1>1. PICK r : r = work[t]
  OBVIOUS
<1>2. /\ r.pc = "business" /\ status[r.b] = "none" /\ Biz!End(t)
      /\ status' = [status EXCEPT ![r.b] = "active"]
      /\ owner' = [owner EXCEPT ![r.b] = r.u]
      /\ member' = IF r.new = Biz!NoMember THEN member ELSE [member EXCEPT ![r.b][r.u] = r.new]
      /\ legacy' = IF r.u # None /\ r.new = Biz!NoMember THEN legacy \cup {r.b} ELSE legacy
      /\ UNCHANGED <<role, limit, unchecked, gave>>
  BY <1>1 DEF Biz!SaveBusiness
<1>3. r.b \in Businesses /\ r.u \in Users \cup {None} /\ r.prev \in Users \cup {None} /\ KnowsBusiness(r)
  BY <1>1, <1>2, WhatEnds DEF BizKnows
<1>4. /\ DOMAIN work' = Threads /\ raced' = raced /\ legacy \subseteq legacy'
      /\ \A b \in Businesses : Biz!Joining(b)' \subseteq Biz!Joining(b)
  BY <1>2, EndKeepsDomain
<1>5. /\ status'[r.b] = "active" /\ owner'[r.b] = r.u
      /\ \A b \in Businesses \ {r.b} : status'[b] = status[b] /\ owner'[b] = owner[b]
  BY <1>2, <1>3 DEF BizIInv, BizRowsHold
<1>6. owner[r.b] = None /\ limit[r.b] = None /\ \A u \in Users : member[r.b][u] = Biz!NoMember
  BY <1>2, <1>3 DEF BizIInv, BizRowsHold, Biz!IsMember
<1>7. r.new # Biz!NoMember => r.u \in Users /\ r.new = Biz!Member("owner", "active")
  BY <1>3 DEF KnowsBusiness
<1>8. /\ r.u \in Users => member'[r.b][r.u] = r.new
      /\ \A u \in Users \ {r.u} : member'[r.b][u] = Biz!NoMember
      /\ \A b \in Businesses \ {r.b} : \A u \in Users : member'[b][u] = member[b][u]
  BY <1>2, <1>3, <1>6, <1>7, NoneIsNobody DEF BizIInv, BizRowsHold
<1>9. BizRowsHold'
  <2>1. /\ status' \in [Businesses -> {"none", "active", "inactive", "deleted"}]
        /\ owner' \in [Businesses -> Users \cup {None}]
    BY <1>2, <1>3 DEF BizIInv, BizRowsHold
  <2>2. member' \in [Businesses -> [Users -> BizRows \cup {Biz!NoMember}]]
    BY <1>2, <1>3, <1>7, MembersAreRows DEF BizIInv, BizRowsHold
  <2>3. ASSUME NEW b \in Businesses
        PROVE  /\ status'[b] = "none" => owner'[b] = None /\ limit'[b] = None
               /\ owner'[b] # None => IsKnown(owner'[b])
               /\ \A u \in Users : Biz!IsMember(b, u)' => status'[b] # "none" /\ IsKnown(u)
    <3>1. CASE b = r.b
      BY <1>3, <1>5, <1>8, <3>1, NoneIsNobody DEF Biz!IsMember, KnowsBusiness
    <3>2. CASE b # r.b
      BY <1>2, <1>5, <1>8, <3>2 DEF BizIInv, BizRowsHold, Biz!IsMember
    <3>3. QED
      BY <3>1, <3>2
  <2>4. QED
    BY <1>2, <1>4, <2>1, <2>2, <2>3 DEF BizIInv, BizRowsHold, IsKnown
<1>10. OnlyTouches(r)
  BY <1>2, <1>5, <1>8 DEF OnlyTouches
<1>11. BizRequestsAreAlone' /\ BizRequestsHold'
  BY <1>1, <1>2, <1>3, <1>4, <1>5, <1>6, <1>9, <1>10, CommitKeepsRequests DEF IsKnown
<1>12. Biz!OwnerIsTheOwner'
  <2>1. r.b \notin legacy' /\ r.u \in Users => r.new.role = "owner"
    BY <1>2, <1>7, MembersAreRows, NoneIsNobody
  <2>2. QED
    BY <1>3, <1>4, <1>5, <1>8, <2>1, NoneIsNobody, MembersAreRows DEF BizIInv, Biz!OwnerIsTheOwner
<1>13. Biz!OwnersAreStuff'
  <2>1. r.b \notin raced \cup legacy' /\ r.u \in Users => role[r.u] = "stuff"
    BY <1>2, <1>3, NoneIsNobody DEF KnowsBusiness
  <2>2. QED
    BY <1>2, <1>3, <1>4, <1>5, <2>1 DEF BizIInv, Biz!OwnersAreStuff
<1>14. Biz!GiversAreDemoted'
  BY <1>2, <1>4, <1>5, <1>6 DEF BizIInv, Biz!GiversAreDemoted
<1>15. LimitIsMet' /\ RoomIsLeft'
  <2>1. \A b \in Businesses \ unchecked' : limit[b] # None =>
          /\ \A u \in Users : member'[b][u].status = "active" => member[b][u].status = "active"
          /\ Biz!Joining(b)' \subseteq Biz!Joining(b)
    BY <1>4, <1>6, <1>8
  <2>2. QED
    BY <1>2, <1>4, <2>1, FewerActiveKeepTheLimit
<1>16. QED
  BY <1>9, <1>11, <1>12, <1>13, <1>14, <1>15 DEF BizIInv

LEMMA SaveOwnerKeeps ==
  ASSUME BizIInv, NEW t \in Threads, Biz!SaveOwner(t)
  PROVE  BizIInv'
<1>1. PICK r : r = work[t]
  OBVIOUS
<1>2. /\ r.pc = "register" /\ role[r.u] = "none" /\ status[r.b] = "none" /\ Biz!End(t)
      /\ role' = [role EXCEPT ![r.u] = "owner"]
      /\ status' = [status EXCEPT ![r.b] = "active"]
      /\ owner' = [owner EXCEPT ![r.b] = r.u]
      /\ member' = [member EXCEPT ![r.b][r.u] = Biz!Member("owner", "active")]
      /\ UNCHANGED <<limit, unchecked, gave, legacy>>
  BY <1>1 DEF Biz!SaveOwner
<1>3. r.b \in Businesses /\ r.u \in Users /\ r.prev \in Users \cup {None}
  BY <1>1, <1>2, WhatEnds DEF BizKnows, KnowsOwner
<1>4. /\ DOMAIN work' = Threads /\ raced' = raced
      /\ \A b \in Businesses : Biz!Joining(b)' \subseteq Biz!Joining(b)
  BY <1>2, EndKeepsDomain
<1>5. /\ status'[r.b] = "active" /\ owner'[r.b] = r.u
      /\ \A b \in Businesses \ {r.b} : status'[b] = status[b] /\ owner'[b] = owner[b]
      /\ role'[r.u] = "owner" /\ \A u \in Users \ {r.u} : role'[u] = role[u]
  BY <1>2, <1>3 DEF BizIInv, BizRowsHold
<1>6. owner[r.b] = None /\ limit[r.b] = None /\ \A u \in Users : member[r.b][u] = Biz!NoMember
  BY <1>2, <1>3 DEF BizIInv, BizRowsHold, Biz!IsMember
<1>7. /\ member'[r.b][r.u] = Biz!Member("owner", "active")
      /\ \A u \in Users \ {r.u} : member'[r.b][u] = Biz!NoMember
      /\ \A b \in Businesses \ {r.b} : \A u \in Users : member'[b][u] = member[b][u]
  BY <1>2, <1>3, <1>6 DEF BizIInv, BizRowsHold
<1>8. ~ IsKnown(r.u) /\ \A u \in Users : IsKnown(u) => IsKnown(u)'
  BY <1>2, <1>5 DEF IsKnown
<1>9. \A b \in Businesses : owner[b] # r.u
  BY <1>3, <1>8, NoneIsNobody DEF BizIInv, BizRowsHold
<1>10. BizRowsHold'
  <2>1. /\ role' \in [Users -> BizRoles]
        /\ status' \in [Businesses -> {"none", "active", "inactive", "deleted"}]
        /\ owner' \in [Businesses -> Users \cup {None}]
    BY <1>2, <1>3 DEF BizIInv, BizRowsHold, BizRoles
  <2>2. member' \in [Businesses -> [Users -> BizRows \cup {Biz!NoMember}]]
    BY <1>2, <1>3, MembersAreRows DEF BizIInv, BizRowsHold
  <2>3. ASSUME NEW b \in Businesses
        PROVE  /\ status'[b] = "none" => owner'[b] = None /\ limit'[b] = None
               /\ owner'[b] # None => IsKnown(owner[b])'
               /\ \A u \in Users : Biz!IsMember(b, u)' => status'[b] # "none" /\ IsKnown(u)'
    <3>1. CASE b = r.b
      BY <1>3, <1>5, <1>7, <3>1 DEF Biz!IsMember, IsKnown
    <3>2. CASE b # r.b
      <4>1. /\ status[b] = "none" => owner[b] = None /\ limit[b] = None
            /\ owner[b] # None => owner[b] \in Users /\ IsKnown(owner[b])
            /\ \A u \in Users : Biz!IsMember(b, u) => status[b] # "none" /\ IsKnown(u)
        BY DEF BizIInv, BizRowsHold
      <4>2. \A u \in Users : Biz!IsMember(b, u)' <=> Biz!IsMember(b, u)
        BY <1>7, <3>2 DEF Biz!IsMember
      <4>3. owner'[b] # None => IsKnown(owner[b])'
        BY <1>5, <1>8, <3>2, <4>1 DEF IsKnown
      <4>4. QED
        BY <1>2, <1>5, <1>8, <3>2, <4>1, <4>2, <4>3
    <3>3. QED
      BY <3>1, <3>2
  <2>4. \A u \in gave' \ {None} : u \in Users /\ IsKnown(u)'
    BY <1>2, <1>8 DEF BizIInv, BizRowsHold
  <2>5. QED
    BY <1>2, <1>4, <2>1, <2>2, <2>3, <2>4 DEF BizIInv, BizRowsHold, IsKnown
<1>11. OnlyTouches(r)
  BY <1>2, <1>5, <1>7 DEF OnlyTouches
<1>12. BizRequestsAreAlone' /\ BizRequestsHold'
  BY <1>1, <1>2, <1>3, <1>5, <1>6, <1>8, <1>10, <1>11, CommitKeepsRequests
<1>13. Biz!OwnerIsTheOwner'
  BY <1>2, <1>3, <1>4, <1>5, <1>7, MembersAreRows DEF BizIInv, Biz!OwnerIsTheOwner
<1>14. Biz!OwnersAreStuff'
  BY <1>2, <1>3, <1>4, <1>5, <1>9 DEF BizIInv, Biz!OwnersAreStuff
<1>15. Biz!GiversAreDemoted'
  <2>1. \A u \in gave \ {None} : u \in Users /\ u # r.u
    BY <1>8 DEF BizIInv, BizRowsHold
  <2>2. QED
    BY <1>2, <1>4, <1>5, <1>6, <2>1 DEF BizIInv, Biz!GiversAreDemoted
<1>16. LimitIsMet' /\ RoomIsLeft'
  <2>1. \A b \in Businesses \ unchecked' : limit[b] # None =>
          /\ \A u \in Users : member'[b][u].status = "active" => member[b][u].status = "active"
          /\ Biz!Joining(b)' \subseteq Biz!Joining(b)
    BY <1>4, <1>6, <1>7
  <2>2. QED
    BY <1>2, <1>4, <2>1, FewerActiveKeepTheLimit
<1>17. QED
  BY <1>10, <1>12, <1>13, <1>14, <1>15, <1>16 DEF BizIInv

LEMMA SaveStatusKeeps ==
  ASSUME BizIInv, NEW t \in Threads, Biz!SaveStatus(t)
  PROVE  BizIInv'
<1>1. PICK r : r = work[t]
  OBVIOUS
<1>2. /\ r.pc = "status" /\ Biz!End(t)
      /\ status' = [status EXCEPT ![r.b] = IF r.to # r.from THEN r.to ELSE status[r.b]]
      /\ UNCHANGED <<role, owner, limit, member, unchecked, gave, legacy>>
  BY <1>1 DEF Biz!SaveStatus
<1>3. r.b \in Businesses /\ KnowsStatus(r)
  BY <1>1, <1>2, WhatEnds DEF BizKnows
<1>4. /\ DOMAIN work' = Threads /\ raced' = raced
      /\ \A b \in Businesses : Biz!Joining(b)' \subseteq Biz!Joining(b)
  BY <1>2, EndKeepsDomain
<1>5. /\ status'[r.b] \in {r.to, status[r.b]}
      /\ \A b \in Businesses \ {r.b} : status'[b] = status[b]
  BY <1>2, <1>3 DEF BizIInv, BizRowsHold
<1>6. /\ status[r.b] # "none" /\ status'[r.b] # "none"
      /\ r.b \notin raced => status[r.b] = "active"
  BY <1>3, <1>5 DEF KnowsStatus, Biz!VALID_BUSINESS_STATUSES
<1>7. BizRowsHold'
  <2>1. status' \in [Businesses -> {"none", "active", "inactive", "deleted"}]
    BY <1>2, <1>3 DEF BizIInv, BizRowsHold, KnowsStatus, Biz!VALID_BUSINESS_STATUSES
  <2>2. QED
    BY <1>2, <1>4, <1>5, <1>6, <2>1 DEF BizIInv, BizRowsHold, Biz!IsMember, IsKnown
<1>8. OnlyTouches(r)
  BY <1>2, <1>5 DEF OnlyTouches
<1>9. BizRequestsAreAlone' /\ BizRequestsHold'
  <2>1. \A u \in Users : IsKnown(u) => IsKnown(u)'
    BY <1>2 DEF IsKnown
  <2>2. QED
    BY <1>1, <1>2, <1>6, <1>7, <1>8, <2>1, CommitKeepsRequests
<1>10. Biz!OwnerIsTheOwner'
  BY <1>2, <1>4, <1>5, <1>6 DEF BizIInv, Biz!OwnerIsTheOwner
<1>11. Biz!OwnersAreStuff'
  BY <1>2, <1>4, <1>5, <1>6 DEF BizIInv, Biz!OwnersAreStuff
<1>12. Biz!GiversAreDemoted'
  BY <1>2, <1>4 DEF BizIInv, Biz!GiversAreDemoted
<1>13. LimitIsMet' /\ RoomIsLeft'
  BY <1>2, <1>4, FewerActiveKeepTheLimit
<1>14. QED
  BY <1>7, <1>9, <1>10, <1>11, <1>12, <1>13 DEF BizIInv

(* Columns written to a row that is there leave a row; where nothing changed *)
(* since it was read, what was meant.                                       *)
LEMMA WrittenIsARow ==
  ASSUME NEW now \in BizRows, NEW old \in BizRows, NEW new \in BizRows
  PROVE  /\ Biz!Written(now, old, new) \in BizRows
         /\ now = old => Biz!Written(now, old, new) = new
         /\ new.status = old.status => Biz!Written(now, old, new).status = now.status
  BY DEF Biz!Written, BizRows

LEMMA WrittenAnew ==
  ASSUME NEW new \in BizRows
  PROVE  Biz!Written(Biz!NoMember, Biz!NoMember, new) = new
  BY DEF Biz!Written, BizRows, Biz!NoMember

LEMMA SaveMemberKeeps ==
  ASSUME BizIInv, NEW t \in Threads, Biz!SaveMember(t)
  PROVE  BizIInv'
<1>1. PICK r : r = work[t]
  OBVIOUS
<1>2. PICK row : row = Biz!Written(member[r.b][r.u], r.row, r.new)
  OBVIOUS
<1>3. /\ r.pc = "member" /\ Biz!End(t)
      /\ Biz!IsMember(r.b, r.u) <=> r.row # Biz!NoMember
      /\ member' = [member EXCEPT ![r.b][r.u] = row]
      /\ unchecked' = IF row.status = "active" /\ member[r.b][r.u].status # "active"
                        THEN unchecked \cup {r.b} ELSE unchecked
      /\ legacy' = IF r.new.role = "owner" /\ owner[r.b] # r.u THEN legacy \cup {r.b} ELSE legacy
      /\ UNCHANGED <<role, status, owner, limit, gave>>
  BY <1>1, <1>2 DEF Biz!SaveMember
<1>4. r.b \in Businesses /\ r.u \in Users /\ KnowsMember(r)
  BY <1>1, <1>3, WhatEnds DEF BizKnows, KnowsMember
<1>5. /\ DOMAIN work' = Threads /\ raced' = raced
      /\ \A b \in Businesses : Biz!Joining(b)' \subseteq Biz!Joining(b)
  BY <1>3, EndKeepsDomain
<1>6. /\ member'[r.b][r.u] = row
      /\ \A u \in Users \ {r.u} : member'[r.b][u] = member[r.b][u]
      /\ \A b \in Businesses \ {r.b} : \A u \in Users : member'[b][u] = member[b][u]
  BY <1>3, <1>4 DEF BizIInv, BizRowsHold
<1>7. row \in BizRows /\ (r.b \notin raced => row = r.new)
  <2>1. CASE r.row = Biz!NoMember
    BY <1>2, <1>3, <1>4, <2>1, WrittenAnew DEF Biz!IsMember, KnowsMember
  <2>2. CASE r.row # Biz!NoMember
    <3>1. r.row \in BizRows /\ r.new \in BizRows /\ member[r.b][r.u] \in BizRows
      BY <1>3, <1>4, <2>2 DEF BizIInv, BizRowsHold, Biz!IsMember, KnowsMember
    <3>2. QED
      BY <1>2, <1>4, <3>1, WrittenIsARow DEF KnowsMember
  <2>3. QED
    BY <2>1, <2>2
<1>8. BizRowsHold'
  <2>1. member' \in [Businesses -> [Users -> BizRows \cup {Biz!NoMember}]]
    BY <1>3, <1>4, <1>7 DEF BizIInv, BizRowsHold
  <2>2. \A b \in Businesses : \A u \in Users : Biz!IsMember(b, u)' => status[b] # "none" /\ IsKnown(u)
    BY <1>4, <1>6 DEF BizIInv, BizRowsHold, Biz!IsMember, KnowsMember
  <2>3. QED
    BY <1>3, <1>5, <2>1, <2>2 DEF BizIInv, BizRowsHold, IsKnown
<1>9. OnlyTouches(r)
  BY <1>3, <1>6 DEF OnlyTouches
<1>10. BizRequestsAreAlone' /\ BizRequestsHold'
  <2>1. \A u \in Users : IsKnown(u) => IsKnown(u)'
    BY <1>3 DEF IsKnown
  <2>2. QED
    BY <1>1, <1>3, <1>8, <1>9, <2>1, CommitKeepsRequests
<1>11. Biz!OwnerIsTheOwner'
  <2>1. ASSUME r.b \notin raced \cup legacy', status[r.b] # "deleted"
        PROVE  row.role = "owner" <=> owner[r.b] = r.u
    <3>1. r.b \notin raced \cup legacy
      BY <1>3, <2>1
    <3>2. row = r.new /\ member[r.b][r.u] = r.row /\ (r.row.role = "owner" => r.new.role = "owner")
      BY <1>4, <1>7, <2>1, <3>1 DEF KnowsMember
    <3>3. r.row.role = "owner" <=> owner[r.b] = r.u
      BY <1>4, <2>1, <3>1, <3>2 DEF BizIInv, Biz!OwnerIsTheOwner, KnowsMember
    <3>4. r.new.role = "owner" => owner[r.b] = r.u
      BY <1>3, <2>1, <3>1
    <3>5. QED
      BY <3>2, <3>3, <3>4
  <2>2. QED
    BY <1>3, <1>4, <1>5, <1>6, <2>1 DEF BizIInv, Biz!OwnerIsTheOwner
<1>12. Biz!OwnersAreStuff'
  BY <1>3, <1>5 DEF BizIInv, Biz!OwnersAreStuff
<1>13. Biz!GiversAreDemoted'
  BY <1>3, <1>5 DEF BizIInv, Biz!GiversAreDemoted
<1>14. LimitIsMet' /\ RoomIsLeft'
  <2>1. /\ raced \subseteq raced' /\ unchecked \subseteq unchecked' /\ limit' = limit
        /\ \A b \in Businesses : Biz!Joining(b)' \subseteq Biz!Joining(b)
    BY <1>3, <1>5
  <2>2. r.b \notin unchecked' /\ row.status = "active" => member[r.b][r.u].status = "active"
    BY <1>3
  <2>3. \A b \in Businesses \ unchecked' : \A u \in Users :
          member'[b][u].status = "active" => member[b][u].status = "active"
    BY <1>6, <2>2
  <2>4. QED
    BY <2>1, <2>3, FewerActiveKeepTheLimit
<1>15. QED
  BY <1>8, <1>10, <1>11, <1>12, <1>13, <1>14 DEF BizIInv

LEMMA SaveRemovalKeeps ==
  ASSUME BizIInv, NEW t \in Threads, Biz!SaveRemoval(t)
  PROVE  BizIInv'
<1>1. PICK r : r = work[t]
  OBVIOUS
<1>2. /\ r.pc = "remove" /\ Biz!End(t)
      /\ member' = [member EXCEPT ![r.b][r.u] = Biz!NoMember]
      /\ UNCHANGED <<role, status, owner, limit, unchecked, gave, legacy>>
  BY <1>1 DEF Biz!SaveRemoval
<1>3. r.b \in Businesses /\ r.u \in Users /\ KnowsRemoval(r)
  BY <1>1, <1>2, WhatEnds DEF BizKnows, KnowsRemoval
<1>4. /\ DOMAIN work' = Threads /\ raced' = raced
      /\ \A b \in Businesses : Biz!Joining(b)' \subseteq Biz!Joining(b)
  BY <1>2, EndKeepsDomain
<1>5. /\ member'[r.b][r.u] = Biz!NoMember
      /\ \A u \in Users \ {r.u} : member'[r.b][u] = member[r.b][u]
      /\ \A b \in Businesses \ {r.b} : \A u \in Users : member'[b][u] = member[b][u]
  BY <1>2, <1>3 DEF BizIInv, BizRowsHold
<1>6. BizRowsHold'
  <2>1. member' \in [Businesses -> [Users -> BizRows \cup {Biz!NoMember}]]
    BY <1>2, <1>3 DEF BizIInv, BizRowsHold
  <2>2. \A b \in Businesses : \A u \in Users : Biz!IsMember(b, u)' => status[b] # "none" /\ IsKnown(u)
    BY <1>3, <1>5 DEF BizIInv, BizRowsHold, Biz!IsMember
  <2>3. QED
    BY <1>2, <1>4, <2>1, <2>2 DEF BizIInv, BizRowsHold, IsKnown
<1>7. OnlyTouches(r)
  BY <1>2, <1>5 DEF OnlyTouches
<1>8. BizRequestsAreAlone' /\ BizRequestsHold'
  <2>1. \A u \in Users : IsKnown(u) => IsKnown(u)'
    BY <1>2 DEF IsKnown
  <2>2. QED
    BY <1>1, <1>2, <1>6, <1>7, <2>1, CommitKeepsRequests
<1>9. Biz!OwnerIsTheOwner'
  <2>1. Biz!NoMember.role # "owner" /\ (r.b \notin raced \cup legacy /\ status[r.b] # "deleted" => owner[r.b] # r.u)
    BY <1>3 DEF KnowsRemoval, Biz!NoMember
  <2>2. QED
    BY <1>2, <1>3, <1>4, <1>5, <2>1 DEF BizIInv, Biz!OwnerIsTheOwner
<1>10. Biz!OwnersAreStuff'
  BY <1>2, <1>4 DEF BizIInv, Biz!OwnersAreStuff
<1>11. Biz!GiversAreDemoted'
  BY <1>2, <1>4 DEF BizIInv, Biz!GiversAreDemoted
<1>12. LimitIsMet' /\ RoomIsLeft'
  <2>1. Biz!NoMember.status # "active"
    BY DEF Biz!NoMember
  <2>2. \A b \in Businesses : \A u \in Users :
          member'[b][u].status = "active" => member[b][u].status = "active"
    BY <1>5, <2>1
  <2>3. QED
    BY <1>2, <1>4, <2>2, FewerActiveKeepTheLimit
<1>13. QED
  BY <1>6, <1>8, <1>9, <1>10, <1>11, <1>12 DEF BizIInv

(* The new owner is one of the stuff, or an owner, whatever else is written;  *)
(* who is made general owns nothing else, or races for it; who is made an     *)
(* admin and owns something else is set apart.                              *)
LEMMA SaveTransferKeeps ==
  ASSUME BizIInv, NEW t \in Threads, Biz!SaveTransfer(t)
  PROVE  BizIInv'
<1>1. PICK r : r = work[t]
  OBVIOUS
<1>2. PICK demoted : demoted = IF r.demote = "none" THEN {} ELSE {r.prev}
  OBVIOUS
<1>3. PICK row : row = Biz!Written(member[r.b][r.u], r.row, r.new)
  OBVIOUS
<1>4. PICK members : members = [member EXCEPT ![r.b][r.u] = row]
  OBVIOUS
<1>5. /\ r.pc = "transfer" /\ Biz!End(t)
      /\ Biz!IsMember(r.b, r.u)
      /\ r.prevRow # Biz!NoMember => Biz!IsMember(r.b, r.prev)
      /\ owner' = [owner EXCEPT ![r.b] = r.u]
      /\ role' = [u \in Users |-> IF u = r.u THEN r.to ELSE IF u \in demoted THEN r.demote ELSE role[u]]
      /\ gave' = gave \cup {r.prev}
      /\ legacy' = IF r.demote = "admin" /\ Biz!Owned(r.prev) \ {r.b} # {}
                     THEN legacy \cup {r.prev} ELSE legacy
      /\ UNCHANGED <<status, limit, unchecked>>
  BY <1>1, <1>2 DEF Biz!SaveTransfer
<1>6. member' = IF r.prevRow = Biz!NoMember THEN members
                ELSE [members EXCEPT ![r.b][r.prev] =
                        Biz!Written(members[r.b][r.prev], r.prevRow, [r.prevRow EXCEPT !.role = "admin"])]
  BY <1>1, <1>3, <1>4 DEF Biz!SaveTransfer
<1>7. r.b \in Businesses /\ r.u \in Users /\ r.prev \in Users \cup {None} /\ KnowsTransfer(r)
  BY <1>1, <1>5, WhatEnds DEF BizKnows, KnowsTransfer
<1>8. /\ DOMAIN work' = Threads /\ raced' = raced /\ legacy \subseteq legacy'
      /\ \A b \in Businesses : Biz!Joining(b)' \subseteq Biz!Joining(b)
  BY <1>5, EndKeepsDomain
<1>9. /\ r.u # r.prev /\ r.row \in BizRows /\ r.new \in BizRows
      /\ r.new.role = "owner" /\ r.new.status = r.row.status
      /\ r.prevRow \in BizRows \cup {Biz!NoMember}
      /\ r.prev = None => r.prevRow = Biz!NoMember
      /\ r.to \in {"stuff", "owner"} /\ r.demote \in {"none", "general", "admin"}
  BY <1>7 DEF KnowsTransfer
<1>10. /\ row \in BizRows /\ row.status = member[r.b][r.u].status
       /\ r.b \notin raced => row.role = "owner"
  <2>1. member[r.b][r.u] \in BizRows
    BY <1>5, <1>7 DEF BizIInv, BizRowsHold, Biz!IsMember
  <2>2. r.b \notin raced => member[r.b][r.u] = r.row
    BY <1>7 DEF KnowsTransfer
  <2>3. QED
    BY <1>3, <1>9, <2>1, <2>2, WrittenIsARow
<1>11. PICK prevRow : prevRow = Biz!Written(member[r.b][r.prev], r.prevRow, [r.prevRow EXCEPT !.role = "admin"])
  OBVIOUS
<1>12. ASSUME r.prevRow # Biz!NoMember
       PROVE  /\ r.prev \in Users /\ prevRow \in BizRows
              /\ prevRow.status = member[r.b][r.prev].status
              /\ r.b \notin raced => prevRow.role = "admin"
  <2>1. r.prev \in Users /\ r.prevRow \in BizRows
    BY <1>7, <1>9, <1>12
  <2>2. PICK new : new = [r.prevRow EXCEPT !.role = "admin"]
    OBVIOUS
  <2>3. new \in BizRows /\ new.role = "admin" /\ new.status = r.prevRow.status
    BY <2>1, <2>2 DEF BizRows
  <2>4. member[r.b][r.prev] \in BizRows
    BY <1>5, <1>7, <1>12, <2>1 DEF BizIInv, BizRowsHold, Biz!IsMember
  <2>5. r.b \notin raced => member[r.b][r.prev] = r.prevRow
    BY <1>7, <2>1, NoneIsNobody DEF KnowsTransfer
  <2>6. prevRow = Biz!Written(member[r.b][r.prev], r.prevRow, new)
    BY <1>11, <2>2
  <2>7. QED
    BY <2>1, <2>3, <2>4, <2>5, <2>6, WrittenIsARow
<1>13. /\ members \in [Businesses -> [Users -> BizRows \cup {Biz!NoMember}]]
       /\ members[r.b][r.u] = row
       /\ \A u \in Users \ {r.u} : members[r.b][u] = member[r.b][u]
       /\ \A b \in Businesses \ {r.b} : \A u \in Users : members[b][u] = member[b][u]
  BY <1>4, <1>7, <1>10 DEF BizIInv, BizRowsHold
<1>14. /\ member' \in [Businesses -> [Users -> BizRows \cup {Biz!NoMember}]]
       /\ member'[r.b][r.u] = row
       /\ r.prevRow # Biz!NoMember => member'[r.b][r.prev] = prevRow
       /\ r.prevRow = Biz!NoMember => \A u \in Users \ {r.u} : member'[r.b][u] = member[r.b][u]
       /\ \A u \in Users \ {r.u, r.prev} : member'[r.b][u] = member[r.b][u]
       /\ \A b \in Businesses \ {r.b} : \A u \in Users : member'[b][u] = member[b][u]
  <2>1. CASE r.prevRow = Biz!NoMember
    BY <1>6, <1>13, <2>1
  <2>2. CASE r.prevRow # Biz!NoMember
    <3>1. member' = [members EXCEPT ![r.b][r.prev] = prevRow]
      <4>1. members[r.b][r.prev] = member[r.b][r.prev]
        BY <1>9, <1>12, <1>13, <2>2
      <4>2. QED
        BY <1>6, <1>11, <2>2, <4>1
    <3>2. QED
      BY <1>7, <1>9, <1>12, <1>13, <2>2, <3>1
  <2>3. QED
    BY <2>1, <2>2
<1>15. demoted \subseteq {r.prev} \ {None} /\ (r.u \notin demoted)
  <2>1. r.prev = None => r.demote = "none"
    BY <1>7 DEF KnowsTransfer
  <2>2. QED
    BY <1>2, <1>9, <2>1
<1>16. /\ role'[r.u] = r.to /\ r.to \in {"stuff", "owner"}
       /\ \A u \in demoted : u \in Users => role'[u] = r.demote /\ r.demote \in {"general", "admin"}
       /\ \A u \in Users \ ({r.u} \cup demoted) : role'[u] = role[u]
  BY <1>2, <1>5, <1>7, <1>9, <1>15
<1>17. /\ owner'[r.b] = r.u
       /\ \A b \in Businesses \ {r.b} : owner'[b] = owner[b]
  BY <1>5, <1>7 DEF BizIInv, BizRowsHold
<1>18. IsKnown(r.u)' /\ \A u \in Users : IsKnown(u) => IsKnown(u)'
  BY <1>16 DEF IsKnown
<1>19. BizRowsHold'
  <2>1. role' \in [Users -> BizRoles]
    BY <1>2, <1>5, <1>9 DEF BizIInv, BizRowsHold, BizRoles
  <2>2. owner' \in [Businesses -> Users \cup {None}]
    BY <1>5, <1>7 DEF BizIInv, BizRowsHold
  <2>3. status[r.b] # "none"
    BY <1>7 DEF KnowsTransfer
  <2>4. ASSUME NEW b \in Businesses
        PROVE  /\ status[b] = "none" => owner'[b] = None /\ limit[b] = None
               /\ owner'[b] # None => IsKnown(owner[b])'
               /\ \A u \in Users : Biz!IsMember(b, u)' => status[b] # "none" /\ IsKnown(u)'
    <3>1. CASE b = r.b
      <4>1. \A u \in Users : Biz!IsMember(b, u)' => Biz!IsMember(b, u)
        BY <1>5, <1>9, <1>14, <3>1 DEF Biz!IsMember
      <4>2. IsKnown(owner[b])'
        BY <1>16, <1>17, <3>1 DEF IsKnown
      <4>3. QED
        BY <1>17, <1>18, <2>3, <3>1, <4>1, <4>2 DEF BizIInv, BizRowsHold
    <3>2. CASE b # r.b
      <4>1. /\ status[b] = "none" => owner[b] = None /\ limit[b] = None
            /\ owner[b] # None => owner[b] \in Users /\ IsKnown(owner[b])
            /\ \A u \in Users : Biz!IsMember(b, u) => status[b] # "none" /\ IsKnown(u)
        BY DEF BizIInv, BizRowsHold
      <4>2. owner'[b] = owner[b] /\ \A u \in Users : Biz!IsMember(b, u)' <=> Biz!IsMember(b, u)
        BY <1>14, <1>17, <3>2 DEF Biz!IsMember
      <4>3. owner'[b] # None => IsKnown(owner[b])'
        BY <1>18, <4>1, <4>2 DEF IsKnown
      <4>4. QED
        BY <1>18, <4>1, <4>2, <4>3
    <3>3. QED
      BY <3>1, <3>2
  <2>5. \A u \in gave' \ {None} : u \in Users /\ IsKnown(u)'
    <3>1. r.prev \in Users => IsKnown(r.prev)
      BY <1>7 DEF KnowsTransfer
    <3>2. QED
      BY <1>5, <1>7, <1>18, <3>1 DEF BizIInv, BizRowsHold
  <2>6. QED
    BY <1>5, <1>8, <1>14, <2>1, <2>2, <2>4, <2>5 DEF BizIInv, BizRowsHold, IsKnown
<1>20. OnlyTouches(r)
  BY <1>5, <1>14, <1>15, <1>16, <1>17 DEF OnlyTouches
<1>21. owner[r.b] \in {r.prev, r.u, None} \cup raced
  BY <1>7 DEF KnowsTransfer
<1>22. BizRequestsAreAlone' /\ BizRequestsHold'
  BY <1>1, <1>5, <1>8, <1>17, <1>18, <1>19, <1>20, <1>21, CommitKeepsRequests
<1>23. Biz!OwnerIsTheOwner'
  <2> SUFFICES ASSUME NEW b \in Businesses \ (raced \cup legacy'), status[b] \notin {"none", "deleted"},
                      NEW u \in Users
               PROVE  member'[b][u].role = "owner" <=> owner'[b] = u
    BY <1>5, <1>8 DEF Biz!OwnerIsTheOwner
  <2>1. member[b][u].role = "owner" <=> owner[b] = u
    BY <1>8 DEF BizIInv, Biz!OwnerIsTheOwner
  <2>2. CASE b # r.b
    BY <1>14, <1>17, <2>1, <2>2
  <2>3. CASE b = r.b /\ u = r.u
    BY <1>10, <1>14, <1>17, <2>3
  <2>4. CASE b = r.b /\ u # r.u
    <3>1. owner'[b] # u
      BY <1>17, <2>4
    <3>2. CASE u = r.prev /\ r.prevRow # Biz!NoMember
      BY <1>12, <1>14, <2>4, <3>1, <3>2
    <3>3. CASE u = r.prev /\ r.prevRow = Biz!NoMember
      <4>1. member[r.b][r.prev] = Biz!NoMember
        BY <1>7, <2>4, <3>3, NoneIsNobody DEF KnowsTransfer
      <4>2. QED
        BY <1>14, <2>4, <3>1, <3>3, <4>1 DEF Biz!NoMember
    <3>4. CASE u # r.prev
      <4>1. member'[b][u] = member[b][u] /\ owner[b] # u
        BY <1>7, <1>14, <2>4, <3>4, NoneIsNobody DEF KnowsTransfer
      <4>2. QED
        BY <2>1, <3>1, <4>1
    <3>5. QED
      BY <3>2, <3>3, <3>4
  <2>5. QED
    BY <2>2, <2>3, <2>4
<1>24. Biz!OwnersAreStuff'
  <2> SUFFICES ASSUME NEW b \in Businesses \ (raced \cup legacy'), NEW u \in Users,
                      owner'[b] = u, status[b] # "deleted"
               PROVE  role'[u] \in {"stuff", "owner"} \/ (u \in legacy' /\ role'[u] = "admin")
    BY <1>5, <1>8 DEF Biz!OwnersAreStuff
  <2>1. CASE u = r.u
    BY <1>16, <2>1
  <2>2. CASE u # r.u
    <3>1. b # r.b /\ owner[b] = u /\ b \notin raced \cup legacy
      BY <1>8, <1>17, <2>2
    <3>2. CASE u \in demoted
      <4>1. u = r.prev /\ role'[u] = r.demote /\ r.demote \in {"general", "admin"}
        BY <1>15, <1>16, <3>2
      <4>2. r.demote # "general"
        BY <1>7, <3>1, <4>1 DEF KnowsTransfer
      <4>3. b \in Biz!Owned(r.prev) \ {r.b}
        BY <3>1, <4>1 DEF Biz!Owned
      <4>4. u \in legacy'
        BY <1>5, <4>1, <4>2, <4>3
      <4>5. QED
        BY <4>1, <4>2, <4>4
    <3>3. CASE u \notin demoted
      <4>1. role'[u] = role[u]
        BY <1>16, <2>2, <3>3
      <4>2. role[u] \in {"stuff", "owner"} \/ (u \in legacy /\ role[u] = "admin")
        BY <3>1 DEF BizIInv, Biz!OwnersAreStuff
      <4>3. QED
        BY <1>8, <4>1, <4>2
    <3>4. QED
      BY <3>2, <3>3
  <2>3. QED
    BY <2>1, <2>2
<1>25. Biz!GiversAreDemoted'
  <2> SUFFICES ASSUME NEW u \in gave' \ (raced \cup {None}), role'[u] \in {"stuff", "owner"}
               PROVE  \E b \in Businesses : owner'[b] = u
    BY <1>5, <1>8 DEF Biz!GiversAreDemoted
  <2>1. u \in Users
    BY <1>5, <1>7 DEF BizIInv, BizRowsHold
  <2>2. CASE u = r.u
    BY <1>7, <1>17, <2>2
  <2>3. CASE u = r.prev
    <3>1. u \notin demoted
      BY <1>16, <2>1
    <3>2. r.demote = "none"
      BY <1>2, <2>3, <3>1
    <3>3. PICK b \in Businesses \ {r.b} : owner[b] = r.prev
      <4>1. r.prev \in Users \ raced
        BY <2>1, <2>3
      <4>2. QED
        BY <1>7, <3>2, <4>1, Zenon DEF KnowsTransfer
    <3>4. QED
      BY <1>17, <2>3, <3>3
  <2>4. CASE u # r.u /\ u # r.prev
    <3>1. role[u] \in {"stuff", "owner"} /\ u \in gave
      BY <1>5, <1>15, <1>16, <2>1, <2>4
    <3>2. PICK b \in Businesses : owner[b] = u
      BY <3>1 DEF BizIInv, Biz!GiversAreDemoted
    <3>3. b # r.b
      BY <1>21, <2>4, <3>2
    <3>4. QED
      BY <1>17, <3>2, <3>3
  <2>5. QED
    BY <2>2, <2>3, <2>4
<1>26. LimitIsMet' /\ RoomIsLeft'
  <2>1. ASSUME NEW b \in Businesses, NEW u \in Users, member'[b][u].status = "active"
        PROVE  member[b][u].status = "active"
    <3>1. CASE b # r.b
      BY <1>14, <2>1, <3>1
    <3>2. CASE b = r.b /\ u = r.u
      BY <1>10, <1>14, <2>1, <3>2
    <3>3. CASE b = r.b /\ u # r.u /\ (u # r.prev \/ r.prevRow = Biz!NoMember)
      BY <1>14, <2>1, <3>3
    <3>4. CASE b = r.b /\ u = r.prev /\ r.prevRow # Biz!NoMember
      BY <1>12, <1>14, <2>1, <3>4
    <3>5. QED
      BY <3>1, <3>2, <3>3, <3>4
  <2>2. QED
    BY <1>5, <1>8, <2>1, FewerActiveKeepTheLimit
<1>27. QED
  BY <1>19, <1>22, <1>23, <1>24, <1>25, <1>26 DEF BizIInv

LEMMA AbortKeeps ==
  ASSUME BizIInv, NEW t \in Threads, Biz!Abort(t)
  PROVE  BizIInv'
<1>1. PICK r : r = work[t]
  OBVIOUS
<1>2. r.pc # "idle" /\ Biz!End(t) /\ UNCHANGED <<role, status, owner, limit, member, unchecked, gave, legacy>>
  BY <1>1 DEF Biz!Abort
<1>3. /\ DOMAIN work' = Threads /\ raced' = raced
      /\ \A b \in Businesses : Biz!Joining(b)' \subseteq Biz!Joining(b)
  BY <1>2, EndKeepsDomain
<1>4. BizRowsHold'
  BY <1>2, <1>3 DEF BizIInv, BizRowsHold, Biz!IsMember, IsKnown
<1>5. BizRequestsAreAlone' /\ BizRequestsHold'
  BY <1>1, <1>2, <1>4, CommitKeepsRequests DEF OnlyTouches, IsKnown
<1>6. Biz!OwnerIsTheOwner' /\ Biz!OwnersAreStuff' /\ Biz!GiversAreDemoted'
  BY <1>2, <1>3 DEF BizIInv, Biz!OwnerIsTheOwner, Biz!OwnersAreStuff, Biz!GiversAreDemoted
<1>7. LimitIsMet' /\ RoomIsLeft'
  BY <1>2, <1>3, FewerActiveKeepTheLimit
<1>8. QED
  BY <1>4, <1>5, <1>6, <1>7 DEF BizIInv

-----------------------------------------------------------------------------
(* What is done in one transaction *)

LEMMA RegisterUserKeeps ==
  ASSUME BizIInv, NEW u \in Users, Biz!RegisterUser(u)
  PROVE  BizIInv'
<1>1. PICK r \in {"superuser", "stuff", "general"} :
        /\ role[u] = "none"
        /\ \A t \in Threads : work[t].u # u
        /\ role' = [role EXCEPT ![u] = r]
        /\ UNCHANGED <<status, owner, limit, member, work, raced, unchecked, gave, legacy>>
  BY DEF Biz!RegisterUser
<1>2. \A v \in Users \ {u} : role'[v] = role[v]
  BY <1>1 DEF BizIInv, BizRowsHold
<1>3. ~ IsKnown(u) /\ \A v \in Users : IsKnown(v) => v # u /\ IsKnown(v)'
  BY <1>1, <1>2 DEF IsKnown
<1>4. (\A b \in Businesses : owner[b] # u) /\ u \notin gave
  BY <1>3, NoneIsNobody DEF BizIInv, BizRowsHold
<1>5. BizRowsHold'
  <2>1. role' \in [Users -> BizRoles]
    BY <1>1 DEF BizIInv, BizRowsHold, BizRoles
  <2>2. ASSUME NEW b \in Businesses
        PROVE  /\ owner'[b] # None => IsKnown(owner[b])'
               /\ \A v \in Users : Biz!IsMember(b, v)' => status[b] # "none" /\ IsKnown(v)'
    BY <1>1, <1>2, <1>3, <1>4 DEF BizIInv, BizRowsHold, Biz!IsMember, IsKnown
  <2>3. QED
    BY <1>1, <1>2, <1>4, <2>1, <2>2 DEF BizIInv, BizRowsHold, IsKnown
<1>6. BizRequestsHold'
  <2> SUFFICES ASSUME NEW t \in Threads
               PROVE  BizKnows(work[t])'
    BY DEF BizRequestsHold
  <2>1. PICK s : s = work[t]
    OBVIOUS
  <2>2. BizKnows(s) /\ s.u # u /\ work'[t] = s
    BY <1>1, <2>1 DEF BizIInv, BizRequestsHold
  <2>3. s.u \in Users => role'[s.u] = role[s.u]
    BY <1>2, <2>2
  <2>4. BizKnows(s)'
    BY <1>1, <1>3, <2>2, <2>3, KnownStays DEF BizIInv
  <2>5. QED
    BY <2>2, <2>4
<1>7. BizRequestsAreAlone' /\ Biz!OwnerIsTheOwner'
  BY <1>1 DEF BizIInv, BizRequestsAreAlone, Biz!OwnerIsTheOwner
<1>8. Biz!OwnersAreStuff' /\ Biz!GiversAreDemoted'
  <2>1. Biz!OwnersAreStuff'
    BY <1>1, <1>2, <1>4 DEF BizIInv, Biz!OwnersAreStuff
  <2>2. gave \ {None} \subseteq Users
    BY DEF BizIInv, BizRowsHold
  <2>3. QED
    BY <1>1, <1>2, <1>4, <2>1, <2>2 DEF BizIInv, Biz!GiversAreDemoted
<1>9. LimitIsMet' /\ RoomIsLeft'
  <2>1. \A b \in Businesses : Biz!Joining(b)' = Biz!Joining(b)
    BY <1>1 DEF Biz!Joining
  <2>2. QED
    BY <1>1, <2>1, FewerActiveKeepTheLimit
<1>10. QED
  BY <1>5, <1>6, <1>7, <1>8, <1>9 DEF BizIInv

LEMMA UpdateBusinessSettingsKeeps ==
  ASSUME BizIInv, NEW b \in Businesses, Biz!UpdateBusinessSettings(b)
  PROVE  BizIInv'
<1>1. PICK n \in Limits \cup {None} :
        /\ status[b] = "active"
        /\ limit' = [limit EXCEPT ![b] = n]
        /\ unchecked' = IF n = None THEN unchecked
                        ELSE IF Cardinality(Biz!ActiveUsers(b)) + Cardinality(Biz!Joining(b)) > n
                               THEN unchecked \cup {b} ELSE unchecked
        /\ raced' = IF \E t \in Threads : work[t].b = b THEN raced \cup {b} ELSE raced
        /\ UNCHANGED <<role, status, owner, member, work, gave, legacy>>
  BY SizesAgree DEF Biz!UpdateBusinessSettings, Biz!Accessible
<1>2. /\ raced \subseteq raced' /\ unchecked \subseteq unchecked'
      /\ limit'[b] = n /\ \A c \in Businesses \ {b} : limit'[c] = limit[c]
      /\ \A t \in Threads : work[t].b = b => b \in raced'
  BY <1>1 DEF BizIInv, BizRowsHold
<1>3. BizRowsHold'
  <2>1. limit' \in [Businesses -> Limits \cup {None}]
    BY <1>1 DEF BizIInv, BizRowsHold
  <2>2. QED
    BY <1>1, <1>2, <2>1 DEF BizIInv, BizRowsHold, Biz!IsMember, IsKnown
<1>4. BizRequestsHold'
  <2> SUFFICES ASSUME NEW t \in Threads
               PROVE  BizKnows(work[t])'
    BY DEF BizRequestsHold
  <2>1. PICK s : s = work[t]
    OBVIOUS
  <2>2. BizKnows(s) /\ work'[t] = s
    BY <1>1, <2>1 DEF BizIInv, BizRequestsHold
  <2>3. s.pc # "idle" /\ s.b \notin raced' => limit'[s.b] = limit[s.b]
    BY <1>2, <2>1, <2>2 DEF BizKnows
  <2>4. BizKnows(s)'
    BY <1>1, <1>2, <2>2, <2>3, KnownStays DEF BizIInv, IsKnown
  <2>5. QED
    BY <2>2, <2>4
<1>5. BizRequestsAreAlone'
  <2> SUFFICES ASSUME NEW t \in Threads, NEW v \in Threads, t # v,
                      work[t].pc # "idle", work[v].pc # "idle",
                      Biz!About(work[t]) \cap Biz!About(work[v]) # {}
               PROVE  Biz!About(work[t]) \cup Biz!About(work[v]) \subseteq raced'
    BY <1>1 DEF BizRequestsAreAlone, Biz!About
  <2>1. Biz!About(work[t]) \cup Biz!About(work[v]) \subseteq raced
    BY DEF BizIInv, BizRequestsAreAlone
  <2>2. QED
    BY <1>2, <2>1
<1>6. Biz!OwnerIsTheOwner' /\ Biz!OwnersAreStuff' /\ Biz!GiversAreDemoted'
  BY <1>1, <1>2 DEF BizIInv, Biz!OwnerIsTheOwner, Biz!OwnersAreStuff, Biz!GiversAreDemoted
<1>7. ASSUME NEW c \in Businesses \ unchecked', limit'[c] # None
      PROVE  /\ Biz!ActiveUsers(c)' = Biz!ActiveUsers(c) /\ Biz!Joining(c)' = Biz!Joining(c)
             /\ Cardinality(Biz!ActiveUsers(c)) \in Nat /\ Cardinality(Biz!Joining(c)) \in Nat
             /\ c = b => /\ n \in Nat /\ limit'[c] = n
                         /\ Cardinality(Biz!ActiveUsers(c)) + Cardinality(Biz!Joining(c)) <= n
             /\ c # b => limit[c] = limit'[c]
  <2>1. Biz!ActiveUsers(c)' = Biz!ActiveUsers(c) /\ Biz!Joining(c)' = Biz!Joining(c)
    BY <1>1 DEF Biz!ActiveUsers, Biz!Joining
  <2>2. Cardinality(Biz!ActiveUsers(c)) \in Nat /\ Cardinality(Biz!Joining(c)) \in Nat
    BY CountsAreNumbers DEF BizIInv
  <2>3. c = b => n \in Nat /\ limit'[c] = n
    BY <1>1, <1>2, <1>7, LimitsArePositive
  <2>4. c = b => ~ (Cardinality(Biz!ActiveUsers(b)) + Cardinality(Biz!Joining(b)) > n)
    BY <1>1, <1>2, <1>7, <2>3
  <2>5. QED
    BY <1>2, <2>1, <2>2, <2>3, <2>4
<1>8. LimitIsMet'
  <2> SUFFICES ASSUME NEW c \in Businesses \ (raced' \cup unchecked'), limit'[c] # None
               PROVE  Cardinality(Biz!ActiveUsers(c)') <= limit'[c]
    BY DEF LimitIsMet
  <2>1. CASE c = b
    BY <1>7, <2>1
  <2>2. CASE c # b
    BY <1>2, <1>7, <2>2 DEF BizIInv, LimitIsMet
  <2>3. QED
    BY <2>1, <2>2
<1>9. RoomIsLeft'
  <2> SUFFICES ASSUME NEW c \in Businesses \ unchecked', limit'[c] # None
               PROVE  Cardinality(Biz!ActiveUsers(c)') + Cardinality(Biz!Joining(c)')
                        < limit'[c] + Cardinality(Threads)
    BY DEF RoomIsLeft
  <2>1. CASE c = b
    BY <1>7, <2>1, ThreadsAreSome
  <2>2. CASE c # b
    BY <1>2, <1>7, <2>2 DEF BizIInv, RoomIsLeft
  <2>3. QED
    BY <2>1, <2>2
<1>10. QED
  BY <1>3, <1>4, <1>5, <1>6, <1>8, <1>9 DEF BizIInv

-----------------------------------------------------------------------------
LEMMA BizInitHolds == Biz!Init => BizIInv
<1> SUFFICES ASSUME Biz!Init PROVE BizIInv
  OBVIOUS
<1>1. BizRowsHold
  BY NoneIsNobody DEF Biz!Init, Biz!Settled, BizRowsHold, BizRows, BizRoles, Biz!USER_ROLES,
       Biz!VALID_MEMBER_ROLES, Biz!Member, Biz!NoMember, Biz!IsMember, IsKnown
<1>2. BizRequestsAreAlone /\ BizRequestsHold
  <2>1. \A t \in Threads : work[t] = Biz!Idle
    BY DEF Biz!Init
  <2>2. Biz!Idle.pc = "idle"
    BY DEF Biz!Idle
  <2>3. QED
    BY <2>1, <2>2, IdleIsKnown, Zenon DEF BizRequestsAreAlone, BizRequestsHold
<1>3. Biz!OwnerIsTheOwner /\ Biz!OwnersAreStuff /\ Biz!GiversAreDemoted
  BY DEF Biz!Init, Biz!Settled, Biz!OwnerIsTheOwner, Biz!OwnersAreStuff, Biz!GiversAreDemoted, Biz!Member
<1>4. LimitIsMet /\ RoomIsLeft
  BY DEF Biz!Init, LimitIsMet, RoomIsLeft
<1>5. QED
  BY <1>1, <1>2, <1>3, <1>4 DEF BizIInv

LEMMA StutterKeeps == BizIInv /\ UNCHANGED Biz!vars => BizIInv'
<1> SUFFICES ASSUME BizIInv, UNCHANGED Biz!vars PROVE BizIInv'
  OBVIOUS
<1>1. UNCHANGED <<role, status, owner, limit, member, work, raced, unchecked, gave, legacy>>
  BY DEF Biz!vars
<1>2. BizRowsHold'
  BY <1>1 DEF BizIInv, BizRowsHold, Biz!IsMember, IsKnown
<1>3. BizRequestsAreAlone'
  BY <1>1 DEF BizIInv, BizRequestsAreAlone, Biz!About
<1>4. BizRequestsHold'
  <2> SUFFICES ASSUME NEW t \in Threads
               PROVE  BizKnows(work[t])'
    BY DEF BizRequestsHold
  <2>1. PICK s : s = work[t]
    OBVIOUS
  <2>2. BizKnows(s) /\ work'[t] = s
    BY <1>1, <2>1 DEF BizIInv, BizRequestsHold
  <2>3. BizKnows(s)'
    BY <1>1, <2>2, KnownStays DEF BizIInv, IsKnown
  <2>4. QED
    BY <2>2, <2>3
<1>5. /\ Biz!OwnerIsTheOwner' /\ Biz!OwnersAreStuff' /\ Biz!GiversAreDemoted'
      /\ LimitIsMet' /\ RoomIsLeft'
  BY <1>1 DEF BizIInv, Biz!OwnerIsTheOwner, Biz!OwnersAreStuff, Biz!GiversAreDemoted,
       LimitIsMet, RoomIsLeft, Biz!ActiveUsers, Biz!Joining
<1>6. QED
  BY <1>2, <1>3, <1>4, <1>5 DEF BizIInv

LEMMA NextKeeps == BizIInv /\ [Biz!Next]_(Biz!vars) => BizIInv'
<1> SUFFICES ASSUME BizIInv, Biz!Next PROVE BizIInv'
  BY StutterKeeps
<1>1. CASE \E u \in Users : Biz!RegisterUser(u)
  BY <1>1, RegisterUserKeeps
<1>2. CASE \E b \in Businesses : Biz!UpdateBusinessSettings(b)
  BY <1>2, UpdateBusinessSettingsKeeps
<1>3. CASE \E t \in Threads, b \in Businesses :
             Biz!CreateBusiness(t, b) \/ Biz!UpdateBusiness(t, b) \/ Biz!CreateBusinessOf(t, b)
  BY <1>3, CreateBusinessKeeps, UpdateBusinessKeeps
<1>4. CASE \E t \in Threads, b \in Businesses, u \in Users :
             \/ Biz!CreateUserByActor(t, b, u) \/ Biz!CreateMember(t, b, u)
             \/ Biz!AddMember(t, b, u) \/ Biz!AddAnyMember(t, b, u)
             \/ Biz!UpdateMember(t, b, u) \/ Biz!UpdateAnyMember(t, b, u)
             \/ Biz!AssignGeneralMembership(t, b, u)
  BY <1>4, CreateUserKeeps, AddMemberKeeps, UpdateMemberKeeps, AssignMembershipKeeps
<1>5. CASE \E t \in Threads, b \in Businesses, u \in Users :
             \/ Biz!RemoveMember(t, b, u) \/ Biz!RemoveGeneralMembership(t, b, u)
             \/ Biz!TransferOwnership(t, b, u) \/ Biz!TransferToAnyMember(t, b, u)
             \/ Biz!RegisterOwner(t, b, u)
  BY <1>5, BeginRemovalKeeps, TransferOwnershipKeeps, RegisterOwnerKeeps
<1>6. CASE \E t \in Threads : \/ Biz!SaveUser(t) \/ Biz!SaveBusiness(t) \/ Biz!SaveStatus(t)
                              \/ Biz!SaveOwner(t)
  BY <1>6, SaveUserKeeps, SaveBusinessKeeps, SaveStatusKeeps, SaveOwnerKeeps
<1>7. CASE \E t \in Threads : Biz!SaveMember(t) \/ Biz!SaveRemoval(t) \/ Biz!SaveTransfer(t) \/ Biz!Abort(t)
  BY <1>7, SaveMemberKeeps, SaveRemovalKeeps, SaveTransferKeeps, AbortKeeps
<1>8. QED
  BY <1>1, <1>2, <1>3, <1>4, <1>5, <1>6, <1>7 DEF Biz!Next

LEMMA RowsAndRequestsHold == Biz!Spec => []BizIInv
  BY BizInitHolds, NextKeeps, PTL DEF Biz!Spec

LEMMA LimitFollows == BizIInv => Biz!LimitIsKept
<1> SUFFICES ASSUME BizIInv, NEW b \in Businesses \ unchecked, limit[b] # None
             PROVE  /\ Cardinality(Biz!ActiveUsers(b)) < limit[b] + Cardinality(Threads)
                    /\ b \notin raced => Cardinality(Biz!ActiveUsers(b)) <= limit[b]
  BY SizesAgree DEF Biz!LimitIsKept
<1>1. /\ Cardinality(Biz!ActiveUsers(b)) \in Nat /\ Cardinality(Biz!Joining(b)) \in Nat
      /\ limit[b] \in Nat
  BY CountsAreNumbers DEF BizIInv
<1>2. Cardinality(Biz!ActiveUsers(b)) + Cardinality(Biz!Joining(b)) < limit[b] + Cardinality(Threads)
  BY DEF BizIInv, RoomIsLeft
<1>3. b \notin raced => Cardinality(Biz!ActiveUsers(b)) <= limit[b]
  BY DEF BizIInv, LimitIsMet
<1>4. QED
  BY <1>1, <1>2, <1>3, ThreadsAreSome

(* Whatever requests of both versions overlap, and wherever a commit fails,   *)
(* the row of a business that no overlapping request is about and version 1  *)
(* has not set apart, the memberships and the roles agree on who owns it, and *)
(* who gave one away is demoted.                                            *)
THEOREM OwnershipStaysOne == Biz!Spec => []OwnershipIsOne
<1>1. BizIInv => OwnershipIsOne
  BY TypesFollow DEF BizIInv, OwnershipIsOne, Biz!OwnershipIsOne
<1>2. QED
  BY RowsAndRequestsHold, <1>1, PTL

(* Creations of users that check the limit pass it by fewer than there are    *)
(* threads, and not at all where they do not overlap, for any number of       *)
(* users and threads and any limits.                                        *)
THEOREM LimitStaysKept == Biz!Spec => []LimitIsKept
<1>1. BizIInv => LimitIsKept
  BY LimitFollows DEF LimitIsKept
<1>2. QED
  BY RowsAndRequestsHold, <1>1, PTL
=============================================================================
