---------------------------- MODULE PersistStore ----------------------------
(***************************************************************************)
(* The persistent schema store (pkg/store/persiststore): YANG schemas are  *)
(* parsed and exploded into one database entry per schema element, next to *)
(* one record per schema, and looked up through an optional cache.  The    *)
(* store takes no lock of its own.  gRPC runs every request in its own     *)
(* goroutine, so the handlers below interleave at each database            *)
(* transaction and each cache access.                                      *)
(*                                                                         *)
(* A file f.yang defines the module f.  What a parse yields (a "revision") *)
(* is a function from the files it read to their contents, and the element *)
(* stored for an entry is represented by the revision it was made from.    *)
(***************************************************************************)
EXTENDS Integers, FiniteSets, Sequences

CONSTANTS
    Keys,            \* schema keys (name, vendor, version)
    ValidKeys,       \* those with a vendor and a version
    Extends,         \* Extends[k]: keys whose name@vendor@version starts with k's
    Files,           \* YANG files, and the names of the modules they define
    Contents,        \* what a file that parses may contain
    Bad, Absent,     \* a file that does not parse, a file that is not there
    DiskStates,      \* the states of the file system the environment visits
    PathsIn,         \* PathsIn[c]: paths of the elements a module of content c has
    Lex,             \* Lex[f]: position of f in the order of the names
    Deprioritized,   \* modules whose name contains "ietf" or "iana"
    Dir,             \* "all the files there are": a directory given as source
    NoModule,        \* a request path without module prefix
    None,
    Requests,        \* the requests clients send
    WithCache,       \* the configuration has a cache section
    CacheWithDescription,
    Faults,          \* what may fail: "commit", "drop", the process ("crash")
    Procs,           \* request handlers running at the same time
    MaxChanges       \* bound: requests that may be changing schemas at a time

-----------------------------------------------------------------------------
(* Data *)

Root == <<"__root__">>

Revs == UNION {[F -> Contents] : F \in SUBSET Files}

(* The database entries of a revision: the root, a module each, and what   *)
(* the module contains (addSchemaElem, getEntryPath, buildEntryKey).       *)
EntriesOf(r) ==
    {Root} \union {<<m>> : m \in DOMAIN r}
           \union UNION {{<<m>> \o s : s \in PathsIn[r[m]]} : m \in DOMAIN r}

Entries == UNION {EntriesOf(r) : r \in Revs}

Ops == {"create", "reload", "delete", "get"}
PathRequests == {<<q.mod, q.path>> : q \in {x \in Requests : x.op = "get"}}

Replies == [ok : BOOLEAN, rev : Revs \union {None},
            entry : Entries \union {None}, desc : BOOLEAN]
Error == [ok |-> FALSE, rev |-> None, entry |-> None, desc |-> FALSE]
Done(r) == [ok |-> TRUE, rev |-> r, entry |-> None, desc |-> FALSE]
Element(r, e, d) == [ok |-> TRUE, rev |-> r, entry |-> e, desc |-> d]

ASSUME KeysAssumption ==
    /\ ValidKeys \subseteq Keys
    /\ Extends \in [Keys -> SUBSET Keys]
    /\ \A k \in Keys : k \in Extends[k]

ASSUME DataAssumption ==
    /\ Bad \notin Contents /\ Absent \notin Contents
    /\ DiskStates \subseteq [Files -> Contents \union {Bad, Absent}]
    /\ DiskStates # {}
    /\ Lex \in [Files -> Nat]
    /\ \A f, g \in Files : Lex[f] = Lex[g] => f = g
    /\ None \notin Revs /\ None \notin Entries
    /\ \A F \in SUBSET Files : F # None /\ F # Dir
    /\ Dir # None
    /\ WithCache \in BOOLEAN /\ CacheWithDescription \in BOOLEAN 
    /\ Faults \subseteq {"commit", "drop", "crash"}
    /\ MaxChanges \in Nat

ASSUME RequestAssumption ==
    \A q \in Requests :
        /\ q.op \in Ops /\ q.key \in Keys
        /\ q.op = "create" => q.files \in {Dir} \union SUBSET Files
        /\ q.op = "get" => /\ q.mod \in Files \union {NoModule}
                           /\ q.path \in Seq(STRING \union Files)
                           /\ q.desc \in BOOLEAN

VARIABLES
    disk,      \* the YANG files
    schemas,   \* schema records (key prefix 0): the recorded file list, or None
    objects,   \* schema entries (key prefix 1): the revision an entry is of, or None
    cache,     \* cached GetSchema responses, per schema and path
    pc, req, rsp,        \* per handler: where it is, its request, its response
    src, sc, todo, mods, \* per handler: source, parsed schema, batch, modules
    taint,     \* history: what may have spoiled a schema since its last full drop
    dropped,   \* history: schemas dropped since the process started
    quiet      \* history: nobody else wrote the handler's schema since it began

db == <<schemas, objects>>
local == <<src, sc, todo, mods>>
history == <<taint, dropped, quiet>>
vars == <<disk, schemas, objects, cache, pc, req, rsp, src, sc, todo, mods,
          taint, dropped, quiet>>

-----------------------------------------------------------------------------
(* History: who is changing which schema, and what may have gone wrong     *)

Taints == {"contended", "halfDropped", "orphans"}

InWindow == {"parse", "recheck", "drop", "add"}

(* Handler p is in the middle of changing schema k. *)
Mutating(p, k) == pc[p] \in InWindow /\ req[p].key = k

OtherMutator(p, k) == \E o \in Procs \ {p} : Mutating(o, k)

(* Handler p's request starts: no one else is changing its schema.  A      *)
(* change that starts during another change contends with it.              *)
Arrive(p, q) == quiet' = [quiet EXCEPT ![p] = ~ OtherMutator(p, q.key)]

Contend(p, k) ==
    taint' = [taint EXCEPT ![k] =
                 @ \union (IF OtherMutator(p, k) THEN {"contended"} ELSE {})]

(* Handler p has written to the schemas K. *)
Disturb(p, K) ==
    quiet' = [o \in Procs |-> quiet[o] /\ (o = p \/ pc[o] = "idle" \/ req[o].key \notin K)]

-----------------------------------------------------------------------------
(* Steps common to the handlers *)

HasSchema(k) == schemas[k] # None

StoredEntries(k) == {e \in Entries : objects[k][e] # None}

(* The handler returns r to its client. *)
Return(p, r) ==
    /\ pc' = [pc EXCEPT ![p] = "done"]
    /\ rsp' = [rsp EXCEPT ![p] = r]
    /\ src' = [src EXCEPT ![p] = None]
    /\ sc' = [sc EXCEPT ![p] = None]
    /\ todo' = [todo EXCEPT ![p] = {}]
    /\ mods' = [mods EXCEPT ![p] = {}]

Goto(p, l) == pc' = [pc EXCEPT ![p] = l]

(* A request arrives at a handler that serves no other. *)
Start(p, op) ==
    {q \in Requests :
        /\ q.op = op /\ pc[p] \in {"idle", "done"}
        /\ op = "get" \/ Cardinality({o \in Procs : pc[o] \in InWindow}) < MaxChanges}

(* findYangFiles: a directory stands for the files in it, a file for       *)
(* itself.  Parsing fails when a file is missing or does not parse.        *)
Resolve(s) == IF s = Dir THEN {f \in Files : disk[f] # Absent} ELSE s

Parses(F) == \A f \in F : disk[f] \in Contents

-----------------------------------------------------------------------------
(* NewSchema, called by create and reload *)

(* Mutant: a parse that fails is tried again, and again. *)
NewSchema_Retries(p) ==
    /\ pc[p] = "parse"
    /\ LET F == Resolve(src[p])
           r == [f \in F |-> disk[f]]
       IN /\ Parses(F)
          /\ sc' = [sc EXCEPT ![p] = r]
          /\ todo' = [todo EXCEPT ![p] = EntriesOf(r)]
          /\ Goto(p, IF req[p].op = "reload" THEN "recheck" ELSE "add")
    /\ UNCHANGED <<rsp, src, mods, disk, db, cache, req, history>>

(* Mutant: the error of a failed parse is dropped. *)
NewSchema_IgnoresError(p) ==
    /\ pc[p] = "parse"
    /\ LET F == Resolve(src[p])
           r == [f \in F |-> disk[f]]
       IN /\ sc' = [sc EXCEPT ![p] = r]
          /\ todo' = [todo EXCEPT ![p] = IF Parses(F) THEN EntriesOf(r) ELSE {Root}]
          /\ Goto(p, IF req[p].op = "reload" THEN "recheck" ELSE "add")
    /\ UNCHANGED <<rsp, src, mods, disk, db, cache, req, history>>

NewSchema(p) ==
    /\ pc[p] = "parse"
    /\ LET F == Resolve(src[p])
           r == [f \in F |-> disk[f]]
       IN \/ /\ ~ Parses(F)
             /\ Return(p, Error)
          \/ /\ Parses(F)
             /\ sc' = [sc EXCEPT ![p] = r]
             /\ todo' = [todo EXCEPT ![p] = EntriesOf(r)]
             /\ Goto(p, IF req[p].op = "reload" THEN "recheck" ELSE "add")
             /\ UNCHANGED <<rsp, src, mods>>
    /\ UNCHANGED <<disk, db, cache, req, history>>

-----------------------------------------------------------------------------
(* AddSchema: one write batch, the root first, parents before children,    *)
(* the schema record last.  The database commits a large batch in several  *)
(* transactions, in order.                                                 *)

Written(p) == EntriesOf(sc[p]) \ todo[p]

BatchPrefixes(T) ==
    {S \in SUBSET T :
        /\ S # {}
        /\ Root \in T => Root \in S
        /\ \A e \in S : \A n \in 1..(Len(e) - 1) :
              SubSeq(e, 1, n) \in T => SubSeq(e, 1, n) \in S}

Store(p, S) ==
    objects' = [objects EXCEPT ![req[p].key] =
                   [e \in Entries |-> IF e \in S THEN sc[p] ELSE @[e]]]

(* Mutant: the record goes out with the first transaction. *)
CommitChunk_RecordFirst(p) ==
    /\ pc[p] = "add"
    /\ \E S \in BatchPrefixes(todo[p]) :
          /\ Store(p, S)
          /\ todo' = [todo EXCEPT ![p] = @ \ S]
    /\ schemas' = [schemas EXCEPT ![req[p].key] = DOMAIN sc[p]]
    /\ Disturb(p, {req[p].key})
    /\ UNCHANGED <<disk, cache, pc, req, rsp, src, sc, mods, taint, dropped>>

CommitChunk(p) ==
    /\ pc[p] = "add"
    /\ \E S \in BatchPrefixes(todo[p]) :
          /\ Store(p, S)
          /\ todo' = [todo EXCEPT ![p] = @ \ S]
    /\ Disturb(p, {req[p].key})
    /\ UNCHANGED <<disk, schemas, cache, pc, req, rsp, src, sc, mods, taint, dropped>>

(* Mutant: the batch is cancelled instead of flushed. *)
CommitLast_NoFlush(p) ==
    /\ pc[p] = "add"
    /\ Return(p, Done(sc[p]))
    /\ UNCHANGED <<disk, db, cache, req, taint, dropped, quiet>>

CommitLast(p) ==
    /\ pc[p] = "add"
    /\ Store(p, todo[p])
    /\ schemas' = [schemas EXCEPT ![req[p].key] = DOMAIN sc[p]]
    /\ Disturb(p, {req[p].key})
    /\ Return(p, Done(sc[p]))
    /\ UNCHANGED <<disk, cache, req, taint, dropped>>

(* A commit fails (disk full, writes blocked by a drop under way): what    *)
(* earlier transactions of the batch wrote stays.                          *)
CommitFails(p) ==
    /\ "commit" \in Faults
    /\ pc[p] = "add"
    /\ taint' = IF Written(p) = {} THEN taint
                ELSE [taint EXCEPT ![req[p].key] = @ \union {"orphans"}]
    /\ Return(p, Error)
    /\ UNCHANGED <<disk, db, cache, req, dropped, quiet>>

-----------------------------------------------------------------------------
(* DeleteSchema: validation and the check that the schema exists, then one *)
(* DropPrefix over the prefixes of the entries and of the record.  The     *)
(* record's key is used as a prefix too.                                   *)

RecordsUnder(k) == Extends[k]

Deletable(k) == k \in ValidKeys /\ HasSchema(k)

CheckedDelete(p, k) ==
    IF Deletable(k)
    THEN Goto(p, "drop") /\ UNCHANGED <<rsp, local>>
    ELSE Return(p, Error)

DeleteSchema(p) ==
    /\ \E q \in Start(p, "delete") :
          /\ req' = [req EXCEPT ![p] = q]
          /\ Arrive(p, q)
          /\ CheckedDelete(p, q.key)
          /\ IF Deletable(q.key) THEN Contend(p, q.key) ELSE UNCHANGED taint
    /\ UNCHANGED <<disk, db, cache, dropped>>

(* What a drop of k does to the histories: k is clean again unless another *)
(* handler is at it, records it takes with it leave their entries behind.  *)
Dropped(p, k, gone) ==
    /\ taint' = [x \in Keys |->
          IF x = k THEN (IF OtherMutator(p, k) THEN {"contended"} ELSE {})
          ELSE taint[x] \union (IF x \in gone /\ HasSchema(x) THEN {"orphans"} ELSE {})]
    /\ dropped' = dropped \union gone \union {k}
    /\ Disturb(p, gone \union {k})

(* Mutant: only the record is dropped. *)
Drop_RecordOnly(p) ==
    /\ pc[p] = "drop"
    /\ LET k == req[p].key IN
          /\ schemas' = [x \in Keys |-> IF x \in RecordsUnder(k) THEN None ELSE schemas[x]]
          /\ Dropped(p, k, RecordsUnder(k))
    /\ IF req[p].op = "delete"
       THEN Return(p, Done(None))
       ELSE Goto(p, "add") /\ UNCHANGED <<rsp, local>>
    /\ UNCHANGED <<disk, objects, cache, req>>

Drop(p) ==
    /\ pc[p] = "drop"
    /\ LET k == req[p].key IN
          /\ schemas' = [x \in Keys |-> IF x \in RecordsUnder(k) THEN None ELSE schemas[x]]
          /\ objects' = [objects EXCEPT ![k] = [e \in Entries |-> None]]
          /\ Dropped(p, k, RecordsUnder(k))
    /\ IF req[p].op = "delete"
       THEN Return(p, Done(None))
       ELSE Goto(p, "add") /\ UNCHANGED <<rsp, local>>
    /\ UNCHANGED <<disk, cache, req>>

(* DropPrefix returns an error half way. *)
DropFails(p) ==
    /\ "drop" \in Faults
    /\ pc[p] = "drop"
    /\ LET k == req[p].key IN
       \E K \in SUBSET RecordsUnder(k), E \in SUBSET StoredEntries(k) :
          /\ schemas' = [x \in Keys |-> IF x \in K THEN None ELSE schemas[x]]
          /\ objects' = [objects EXCEPT ![k] =
                            [e \in Entries |-> IF e \in E THEN None ELSE @[e]]]
          /\ taint' = [x \in Keys |->
                IF x = k THEN taint[x] \union {"halfDropped"}
                ELSE taint[x] \union (IF x \in K /\ HasSchema(x) THEN {"orphans"} ELSE {})]
          /\ dropped' = dropped \union K \union {k}
          /\ Disturb(p, K \union {k})
    /\ Return(p, Error)
    /\ UNCHANGED <<disk, cache, req>>

-----------------------------------------------------------------------------
(* CreateSchema *)

(* Mutant: the existence check is gone. *)
Creatable_NoCheck(k) == k \in ValidKeys

Creatable(k) == ~ HasSchema(k) /\ k \in ValidKeys

CreateSchema(p) ==
    /\ \E q \in Start(p, "create") :
          /\ req' = [req EXCEPT ![p] = q]
          /\ Arrive(p, q)
          /\ IF Creatable(q.key)
             THEN /\ Goto(p, "parse")
                  /\ src' = [src EXCEPT ![p] = q.files]
                  /\ Contend(p, q.key)
                  /\ UNCHANGED <<rsp, sc, todo, mods>>
             ELSE Return(p, Error) /\ UNCHANGED taint
    /\ UNCHANGED <<disk, db, cache, dropped>>

-----------------------------------------------------------------------------
(* ReloadSchema: read the record, parse, delete, add.  A record that names *)
(* files keeps naming them: a directory is not searched again.             *)

GetSchemaDetails(k) == schemas[k]

(* Mutant: the schema is deleted before the new one is parsed. *)
ReloadSchema_DeletesFirst(p) ==
    /\ \E q \in Start(p, "reload") :
          /\ req' = [req EXCEPT ![p] = q]
          /\ HasSchema(q.key)
          /\ Goto(p, "parse")
          /\ src' = [src EXCEPT ![p] = schemas[q.key]]
          /\ schemas' = [schemas EXCEPT ![q.key] = None]
          /\ Dropped(p, q.key, {q.key})
    /\ UNCHANGED <<disk, objects, cache, rsp, sc, todo, mods>>

ReloadSchema(p) ==
    /\ \E q \in Start(p, "reload") :
          /\ req' = [req EXCEPT ![p] = q]
          /\ Arrive(p, q)
          /\ IF GetSchemaDetails(q.key) # None
             THEN /\ Goto(p, "parse")
                  /\ src' = [src EXCEPT ![p] = GetSchemaDetails(q.key)]
                  /\ Contend(p, q.key)
                  /\ UNCHANGED <<rsp, sc, todo, mods>>
             ELSE Return(p, Error) /\ UNCHANGED taint
    /\ UNCHANGED <<disk, db, cache, dropped>>

ReloadDeletes(p) ==
    /\ pc[p] = "recheck"
    /\ CheckedDelete(p, req[p].key)
    /\ UNCHANGED <<disk, db, cache, req, history>>

-----------------------------------------------------------------------------
(* GetSchema: the existence check, the cache, the module list and the      *)
(* element are four separate reads.                                        *)

GetSchema(p) ==
    /\ \E q \in Start(p, "get") :
          /\ req' = [req EXCEPT ![p] = q]
          /\ Arrive(p, q)
          /\ IF HasSchema(q.key)
             THEN Goto(p, "cache") /\ UNCHANGED <<rsp, local>>
             ELSE Return(p, Error)
    /\ UNCHANGED <<disk, db, cache, taint, dropped>>

(* The cached path keeps the module prefix. *)
CacheKey(q) == <<q.key, <<q.mod, q.path>>>>

(* The modifiers applied to the copy of a hit: a description that was not  *)
(* asked for is removed, when the cache is configured to hold them.        *)
Modified(hit, q) ==
    Element(hit.rev, hit.entry, hit.desc /\ (q.desc \/ ~ CacheWithDescription))

(* Mutant: the cached response itself is modified, not a copy. *)
CacheGet_NoClone(p) ==
    /\ pc[p] = "cache"
    /\ LET q == req[p]
           hit == cache[CacheKey(q)]
       IN \/ /\ WithCache /\ hit # None
             /\ cache' = [cache EXCEPT ![CacheKey(q)] = Modified(hit, q)]
             /\ Return(p, Modified(hit, q))
          \/ /\ ~ (WithCache /\ hit # None)
             /\ Goto(p, IF q.path = <<>> THEN "root"
                         ELSE IF q.mod = NoModule THEN "modules" ELSE "lookup")
             /\ mods' = [mods EXCEPT ![p] = IF q.mod = NoModule THEN {} ELSE {q.mod}]
             /\ UNCHANGED <<rsp, src, sc, todo, cache>>
    /\ UNCHANGED <<disk, db, req, history>>

CacheGet(p) ==
    /\ pc[p] = "cache"
    /\ LET q == req[p]
           hit == cache[CacheKey(q)]
       IN \/ /\ WithCache /\ hit # None
             /\ Return(p, Modified(hit, q))
          \/ /\ ~ (WithCache /\ hit # None)
             /\ Goto(p, IF q.path = <<>> THEN "root"
                         ELSE IF q.mod = NoModule THEN "modules" ELSE "lookup")
             /\ mods' = [mods EXCEPT ![p] = IF q.mod = NoModule THEN {} ELSE {q.mod}]
             /\ UNCHANGED <<rsp, src, sc, todo>>
    /\ UNCHANGED <<disk, db, cache, req, history>>

(* The root element is answered from the database and never cached. *)
ReadRoot(p) ==
    /\ pc[p] = "root"
    /\ LET r == objects[req[p].key][Root] IN
          Return(p, IF r = None THEN Error ELSE Element(r, Root, TRUE))
    /\ UNCHANGED <<disk, db, cache, req, history>>

(* The modules are the children of the stored root. *)
GetModules(p) ==
    /\ pc[p] = "modules"
    /\ LET r == objects[req[p].key][Root] IN
          \/ /\ r = None
             /\ Return(p, Error)
          \/ /\ r # None
             /\ mods' = [mods EXCEPT ![p] = DOMAIN r]
             /\ Goto(p, "lookup")
             /\ UNCHANGED <<rsp, src, sc, todo>>
    /\ UNCHANGED <<disk, db, cache, req, history>>

(* Mutant: modules in the order of their names. *)
Before_ByName(a, b) == Lex[a] < Lex[b]

(* SortModulesAB *)
Before(a, b) ==
    IF (a \in Deprioritized) = (b \in Deprioritized)
    THEN Lex[a] < Lex[b]
    ELSE a \notin Deprioritized

(* The database key tried for module m: a path that starts with the name   *)
(* of the module itself is taken as it is.                                 *)
EntryKey(m, path) == IF Head(path) = m THEN path ELSE <<m>> \o path

Holders(k, M, path) == {m \in M : EntryKey(m, path) \in StoredEntries(k)}

First(M) == CHOOSE m \in M : \A n \in M \ {m} : Before(m, n)

Lookup(p) ==
    /\ pc[p] = "lookup"
    /\ LET k == req[p].key
           M == Holders(k, mods[p], req[p].path)
           e == EntryKey(First(M), req[p].path)
           answer == Element(objects[k][e], e, TRUE)
       IN \/ /\ M = {}
             /\ Return(p, Error)
          \/ /\ M # {} /\ ~ WithCache
             /\ Return(p, answer)
          \/ /\ M # {} /\ WithCache
             /\ rsp' = [rsp EXCEPT ![p] = answer]
             /\ Goto(p, "put")
             /\ UNCHANGED local
    /\ UNCHANGED <<disk, db, cache, req, history>>

CacheSet(p) ==
    /\ pc[p] = "put"
    /\ cache' = [cache EXCEPT ![CacheKey(req[p])] = rsp[p]]
    /\ Return(p, rsp[p])
    /\ UNCHANGED <<disk, db, req, history>>

-----------------------------------------------------------------------------
(* The environment: time and capacity evict cached responses, operators    *)
(* edit YANG files, the process dies and comes back.                       *)

Evict ==
    /\ \E c \in DOMAIN cache :
          cache[c] # None /\ cache' = [cache EXCEPT ![c] = None]
    /\ UNCHANGED <<disk, db, pc, req, rsp, local, history>>

EditFiles ==
    /\ disk' \in DiskStates \ {disk}
    /\ UNCHANGED <<db, cache, pc, req, rsp, local, history>>

CutOff(k) == \E p \in Procs : pc[p] = "add" /\ req[p].key = k /\ Written(p) # {}

Crash ==
    /\ "crash" \in Faults
    /\ pc' = [p \in Procs |-> "idle"]
    /\ req' = [p \in Procs |-> None]
    /\ rsp' = [p \in Procs |-> Error]
    /\ src' = [p \in Procs |-> None]
    /\ sc' = [p \in Procs |-> None]
    /\ todo' = [p \in Procs |-> {}]
    /\ mods' = [p \in Procs |-> {}]
    /\ cache' = [c \in Keys \X PathRequests |-> None]
    /\ dropped' = {}
    /\ quiet' = [p \in Procs |-> FALSE]
    /\ taint' = [k \in Keys |->
                    taint[k] \union (IF CutOff(k) THEN {"orphans"} ELSE {})]
    /\ UNCHANGED <<disk, db>>

-----------------------------------------------------------------------------
Init ==
    /\ pc = [p \in Procs |-> "idle"]
    /\ req = [p \in Procs |-> None]
    /\ rsp = [p \in Procs |-> Error]
    /\ src = [p \in Procs |-> None]
    /\ sc = [p \in Procs |-> None]
    /\ todo = [p \in Procs |-> {}]
    /\ mods = [p \in Procs |-> {}]
    /\ cache = [c \in Keys \X PathRequests |-> None]
    /\ dropped = {}
    /\ quiet = [p \in Procs |-> FALSE]
    /\ disk \in DiskStates
    /\ schemas = [k \in Keys |-> None]
    /\ objects = [k \in Keys |-> [e \in Entries |-> None]]
    /\ taint = [k \in Keys |-> {}]

Handler(p) ==
    \/ NewSchema(p) \/ CommitChunk(p) \/ CommitLast(p) \/ CommitFails(p)
    \/ ReloadDeletes(p) \/ Drop(p) \/ DropFails(p)
    \/ CacheGet(p) \/ ReadRoot(p) \/ GetModules(p) \/ Lookup(p) \/ CacheSet(p)

Arrival(p) == CreateSchema(p) \/ ReloadSchema(p) \/ DeleteSchema(p) \/ GetSchema(p)

Next ==
    \/ \E p \in Procs : Handler(p) \/ Arrival(p)
    \/ Evict \/ EditFiles \/ Crash

Spec == Init /\ [][Next]_vars

-----------------------------------------------------------------------------
(* Properties *)

(* Every variable has its type. *)
TypeOK ==
    /\ disk \in [Files -> Contents \union {Bad, Absent}]
    /\ schemas \in [Keys -> {None} \union SUBSET Files]
    /\ objects \in [Keys -> [Entries -> Revs \union {None}]]
    /\ cache \in [Keys \X PathRequests -> Replies \union {None}]
    /\ pc \in [Procs -> InWindow \union
                 {"idle", "done", "cache", "root", "modules", "lookup", "put"}]
    /\ req \in [Procs -> Requests \union {None}]
    /\ rsp \in [Procs -> Replies]
    /\ src \in [Procs -> {Dir, None} \union SUBSET Files]
    /\ sc \in [Procs -> Revs \union {None}]
    /\ todo \in [Procs -> SUBSET Entries]
    /\ mods \in [Procs -> SUBSET Files]
    /\ taint \in [Keys -> SUBSET Taints]
    /\ dropped \in SUBSET Keys
    /\ quiet \in [Procs -> BOOLEAN]

Adding(p, k) == pc[p] = "add" /\ req[p].key = k

Empty(k) == schemas[k] = None /\ \A e \in Entries : objects[k][e] = None

Complete(k, r) ==
    /\ r # None
    /\ schemas[k] = DOMAIN r
    /\ \A e \in EntriesOf(r) : objects[k][e] = r

Exact(k, r) ==
    /\ Complete(k, r)
    /\ \A e \in Entries \ EntriesOf(r) : objects[k][e] = None

(* AddSchema writes the record in the last transaction of its batch, after *)
(* every entry: a schema that has a record has all the entries of one      *)
(* parse of the recorded files, whatever crashed or failed before, unless  *)
(* two changes of it overlapped or a drop failed half way.                 *)
RecordedIsComplete ==
    \A k \in Keys :
        taint[k] \subseteq {"orphans"} /\ HasSchema(k) => Complete(k, objects[k][Root])

(* Between changes a schema is absent without a trace, or stored exactly:  *)
(* no entry of an earlier parse survives a delete or a reload, unless two  *)
(* changes overlapped or one was cut short.                                *)
StoredExactly ==
    \A k \in Keys :
        taint[k] = {} /\ (\A p \in Procs : ~ Adding(p, k))
            => Empty(k) \/ Exact(k, objects[k][Root])

(* A successful create, reload or delete has done what it says, for as     *)
(* long as no other request writes the schema.  A reload leaves nothing of *)
(* the previous parse, not even what a failed write left behind.           *)
WriteTookEffect ==
    \A p \in Procs :
        pc[p] = "done" /\ rsp[p].ok /\ quiet[p] =>
            LET k == req[p].key IN
            /\ req[p].op = "create" => Complete(k, rsp[p].rev)
            /\ req[p].op = "reload" => Exact(k, rsp[p].rev)
            /\ req[p].op = "delete" => Empty(k)

(* The modules of r in which request q finds its path. *)
Reachable(r, q) ==
    {m \in IF q.mod = NoModule THEN DOMAIN r ELSE {q.mod} :
        EntryKey(m, q.path) \in EntriesOf(r)}

(* What GetSchema owes a client about a schema stored as r: the root, or   *)
(* the element from the preferred module among those that have the path.   *)
Answers(a, r, q) ==
    IF q.path = <<>> THEN a.ok /\ a.rev = r /\ a.entry = Root
    ELSE /\ a.ok <=> Reachable(r, q) # {}
         /\ a.ok => /\ a.rev = r
                    /\ \E m \in Reachable(r, q) :
                          /\ a.entry = EntryKey(m, q.path)
                          /\ \A n \in Reachable(r, q) :
                                /\ m \in Deprioritized => n \in Deprioritized
                                /\ m \in Deprioritized \/ n \notin Deprioritized
                                      => Lex[m] <= Lex[n]

Read(p) == pc[p] = "done" /\ req[p].op = "get" /\ quiet[p] /\ taint[req[p].key] = {}

ReadIsExact(p) ==
    LET k == req[p].key IN
    IF HasSchema(k) THEN Answers(rsp[p], objects[k][Root], req[p]) ELSE ~ rsp[p].ok

(* GetSchema spreads over four reads and a cache, yet answers as one read  *)
(* of the stored schema when nobody writes the schema meanwhile.  With the *)
(* cache this holds for schemas not deleted or reloaded since the start.   *)
QuietReadIsExact ==
    \A p \in Procs :
        Read(p) /\ (WithCache => req[p].key \notin dropped) => ReadIsExact(p)

(* What reload and delete promise readers: the same, cache or no cache.    *)
ReadAfterReloadIsExact == \A p \in Procs : Read(p) => ReadIsExact(p)

(* A description is in the response when the request asks for it, whatever *)
(* became of the cached response since it was put there: requests that do  *)
(* not want the description strip a copy of it.                            *)
DescriptionOnRequest ==
    \A p \in Procs :
        pc[p] = "done" /\ rsp[p].ok /\ req[p].op = "get" /\ req[p].desc => rsp[p].desc

(* CreateSchema fails if the schema exists, as long as changes of a schema *)
(* do not overlap: no create of an uncontended schema replaces a record.   *)
LoneCreateNeverOverwrites ==
    [][\A p \in Procs :
          /\ pc[p] = "add" /\ req[p].op = "create"
          /\ pc'[p] = "done" /\ rsp'[p].ok
          /\ "contended" \notin taint[req[p].key]
          => ~ HasSchema(req[p].key)]_vars

(* Deleting a schema removes no other schema. *)
DeleteTouchesOnlyItsSchema ==
    [][\A p \in Procs, k \in Keys :
          pc[p] = "drop" /\ pc'[p] = "done" /\ k # req[p].key
              => schemas'[k] = schemas[k]]_vars

(* Every request is answered (or dies with the process). *)
RequestsReturn ==
    \A p \in Procs : pc[p] # "idle" ~> pc[p] \in {"idle", "done"}

=============================================================================
