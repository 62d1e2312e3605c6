------------------------------ MODULE MemStore ------------------------------
(***************************************************************************)
(* The in-memory schema store (pkg/store/memstore): a map from keys to     *)
(* parsed schemas under a lock that is held for the map accesses only.     *)
(* Checks, parsing and the final write are separate critical sections.     *)
(* A parsed schema points to its configuration, and a reload parses with   *)
(* the same configuration object: findYangFiles overwrites the file list   *)
(* of the schema that is being served.                                     *)
(***************************************************************************)
EXTENDS Integers, FiniteSets

CONSTANTS
    Keys,           \* schema keys (name, vendor, version)
    ValidKeys,      \* those with a vendor and a version
    Files,          \* YANG files
    Contents,       \* what a file that parses may contain
    Bad, Absent,    \* a file that does not parse, a file that is not there
    DiskStates,     \* the states of the file system the environment visits
    Dir,            \* a directory given as source: "all the files there are"
    None,
    Requests,       \* the requests clients send
    Procs,          \* request handlers running at the same time
    Configs         \* configuration objects

Revs == UNION {[F -> Contents] : F \in SUBSET Files}

ASSUME MemAssumption ==
    /\ ValidKeys \subseteq Keys
    /\ Bad \notin Contents /\ Absent \notin Contents
    /\ DiskStates \subseteq [Files -> Contents \union {Bad, Absent}]
    /\ None \notin Revs /\ None \notin Configs /\ None \notin [cfg : Configs, rev : Revs]
    /\ None \notin [op : {"create", "reload", "delete"}, key : Keys]
    /\ \A F \in SUBSET Files : F # Dir
    /\ \A q \in Requests :
          /\ q # None
          /\ q.op \in {"create", "add", "reload", "delete", "get", "path"}
          /\ q.key \in Keys
          /\ q.op \in {"create", "add"} => q.files \in {Dir} \union SUBSET Files

VARIABLES
    disk,      \* the YANG files
    files,     \* files[c]: the field Files of configuration c
    schemas,   \* the map: a parsed schema (configuration and revision), or None
    pc, req, rsp,   \* per handler: where it is, its request, its response
    cfg, sc,   \* per handler: the configuration it parses with, what it parsed
    lone       \* history: no other change of its schema overlapped with it

vars == <<disk, files, schemas, pc, req, rsp, cfg, sc, lone>>

-----------------------------------------------------------------------------
Schema(c, r) == [cfg |-> c, rev |-> r]

HasSchema(k) == schemas[k] # None

Error == [ok |-> FALSE, rev |-> None]
Ok(r) == [ok |-> TRUE, rev |-> r]

InChange == {"resolve", "read", "write", "drop"}

Changing(p, k) == pc[p] \in InChange /\ req[p].key = k

Return(p, r) ==
    /\ pc' = [pc EXCEPT ![p] = "done"]
    /\ rsp' = [rsp EXCEPT ![p] = r]
    /\ cfg' = [cfg EXCEPT ![p] = None]
    /\ sc' = [sc EXCEPT ![p] = None]

Goto(p, l) == pc' = [pc EXCEPT ![p] = l]

Start(p, ops) == {q \in Requests : q.op \in ops /\ pc[p] \in {"idle", "done"}}

(* Handler p goes on to change schema k. *)
Begin(p, k) ==
    lone' = [o \in Procs |->
                IF o = p THEN \A x \in Procs \ {p} : ~ Changing(x, k)
                ELSE lone[o] /\ ~ Changing(o, k)]

(* A configuration object that nothing points to. *)
Fresh(c) ==
    /\ \A k \in Keys : HasSchema(k) => schemas[k].cfg # c
    /\ \A p \in Procs : cfg[p] # c

-----------------------------------------------------------------------------
(* CreateSchema; the loaders of the server and UploadSchema do the same    *)
(* with HasSchema and AddSchema, but validate nothing ("add").             *)

(* Mutant: the existence check is gone. *)
Creatable_NoCheck(q) == q.op = "add" \/ q.key \in ValidKeys

Creatable(q) == ~ HasSchema(q.key) /\ (q.op = "add" \/ q.key \in ValidKeys)

CreateSchema(p) ==
    /\ \E q \in Start(p, {"create", "add"}) :
          /\ req' = [req EXCEPT ![p] = q]
          /\ \/ /\ ~ Creatable(q)
                /\ Return(p, Error)
                /\ UNCHANGED <<files, lone>>
             \/ /\ Creatable(q)
                /\ \E c \in Configs :
                      /\ Fresh(c)
                      /\ files' = [files EXCEPT ![c] = q.files]
                      /\ cfg' = [cfg EXCEPT ![p] = c]
                /\ Begin(p, q.key)
                /\ Goto(p, "resolve")
                /\ UNCHANGED <<rsp, sc>>
    /\ UNCHANGED <<disk, schemas>>

(* ReloadSchema takes the schema, and with it its configuration, and lets  *)
(* go of the lock.                                                         *)
ReloadSchema(p) ==
    /\ \E q \in Start(p, {"reload"}) :
          /\ req' = [req EXCEPT ![p] = q]
          /\ \/ /\ ~ HasSchema(q.key)
                /\ Return(p, Error)
                /\ UNCHANGED lone
             \/ /\ HasSchema(q.key)
                /\ cfg' = [cfg EXCEPT ![p] = schemas[q.key].cfg]
                /\ Begin(p, q.key)
                /\ Goto(p, "resolve")
                /\ UNCHANGED <<rsp, sc>>
    /\ UNCHANGED <<disk, files, schemas>>

(* NewSchema first replaces the file list by what findYangFiles makes of   *)
(* it: the files of a directory, the same files, or nothing when one of    *)
(* them is missing.                                                        *)
FindYangFiles(F) == IF F = Dir THEN {f \in Files : disk[f] # Absent} ELSE F

Missing(F) == F # Dir /\ \E f \in F : disk[f] = Absent

(* Mutant: the list of a configuration keeps the files that are left. *)
ResolveFiles_Partial(p) ==
    /\ pc[p] = "resolve"
    /\ files' = [files EXCEPT ![cfg[p]] = FindYangFiles(@) \ {f \in Files : disk[f] = Absent}]
    /\ IF Missing(files[cfg[p]])
       THEN Return(p, Error)
       ELSE Goto(p, "read") /\ UNCHANGED <<rsp, cfg, sc>>
    /\ UNCHANGED <<disk, schemas, req, lone>>

ResolveFiles(p) ==
    /\ pc[p] = "resolve"
    /\ LET F == files[cfg[p]] IN
          \/ /\ Missing(F)
             /\ files' = [files EXCEPT ![cfg[p]] = {}]
             /\ Return(p, Error)
          \/ /\ ~ Missing(F)
             /\ files' = [files EXCEPT ![cfg[p]] = FindYangFiles(F)]
             /\ Goto(p, "read")
             /\ UNCHANGED <<rsp, cfg, sc>>
    /\ UNCHANGED <<disk, schemas, req, lone>>

(* Mutant: the error of a file that does not parse is dropped. *)
ReadYANGFiles_IgnoresError(p) ==
    /\ pc[p] = "read"
    /\ sc' = [sc EXCEPT ![p] = Schema(cfg[p], [f \in files[cfg[p]] |-> disk[f]])]
    /\ Goto(p, "write")
    /\ UNCHANGED <<disk, files, schemas, req, rsp, cfg, lone>>

(* ... and then reads the list again.  No files at all make an empty       *)
(* schema.                                                                 *)
ReadYANGFiles(p) ==
    /\ pc[p] = "read"
    /\ LET F == files[cfg[p]] IN
          \/ /\ \E f \in F : disk[f] \notin Contents
             /\ Return(p, Error)
          \/ /\ \A f \in F : disk[f] \in Contents
             /\ sc' = [sc EXCEPT ![p] = Schema(cfg[p], [f \in F |-> disk[f]])]
             /\ Goto(p, "write")
             /\ UNCHANGED <<rsp, cfg>>
    /\ UNCHANGED <<disk, files, schemas, req, lone>>

(* The new schema goes into the map, whatever is there by now. *)
WriteSchema(p) ==
    /\ pc[p] = "write"
    /\ schemas' = [schemas EXCEPT ![req[p].key] = sc[p]]
    /\ Return(p, Ok(sc[p].rev))
    /\ UNCHANGED <<disk, files, req, lone>>

-----------------------------------------------------------------------------
(* DeleteSchema: validation and check, then the removal *)

DeleteSchema(p) ==
    /\ \E q \in Start(p, {"delete"}) :
          /\ req' = [req EXCEPT ![p] = q]
          /\ \/ /\ ~ (q.key \in ValidKeys /\ HasSchema(q.key))
                /\ Return(p, Error)
                /\ UNCHANGED lone
             \/ /\ q.key \in ValidKeys /\ HasSchema(q.key)
                /\ Begin(p, q.key)
                /\ Goto(p, "drop")
                /\ UNCHANGED <<rsp, cfg, sc>>
    /\ UNCHANGED <<disk, files, schemas>>

Remove(p) ==
    /\ pc[p] = "drop"
    /\ schemas' = [schemas EXCEPT ![req[p].key] = None]
    /\ Return(p, Ok(None))
    /\ UNCHANGED <<disk, files, req, lone>>

-----------------------------------------------------------------------------
(* Lookups.  GetSchema, HasSchema, ListSchema and GetSchemaDetails answer  *)
(* under the lock.                                                         *)
GetSchema(p) ==
    /\ \E q \in Start(p, {"get"}) :
          /\ req' = [req EXCEPT ![p] = q]
          /\ Return(p, IF HasSchema(q.key) THEN Ok(schemas[q.key].rev) ELSE Error)
    /\ UNCHANGED <<disk, files, schemas, lone>>

(* ToPath and ExpandPath take the schema out of the map and work on it     *)
(* without the lock.                                                       *)
TakeSchema(p) ==
    /\ \E q \in Start(p, {"path"}) :
          /\ req' = [req EXCEPT ![p] = q]
          /\ \/ /\ ~ (q.key \in ValidKeys /\ HasSchema(q.key))
                /\ Return(p, Error)
             \/ /\ q.key \in ValidKeys /\ HasSchema(q.key)
                /\ sc' = [sc EXCEPT ![p] = schemas[q.key]]
                /\ Goto(p, "answer")
                /\ UNCHANGED <<rsp, cfg>>
    /\ UNCHANGED <<disk, files, schemas, lone>>

AnswerPath(p) ==
    /\ pc[p] = "answer"
    /\ Return(p, Ok(sc[p].rev))
    /\ UNCHANGED <<disk, files, schemas, req, lone>>

-----------------------------------------------------------------------------
EditFiles ==
    /\ disk' \in DiskStates \ {disk}
    /\ UNCHANGED <<files, schemas, pc, req, rsp, cfg, sc, lone>>

Init ==
    /\ disk \in DiskStates
    /\ files = [c \in Configs |-> {}]
    /\ schemas = [k \in Keys |-> None]
    /\ pc = [p \in Procs |-> "idle"]
    /\ req = [p \in Procs |-> None]
    /\ rsp = [p \in Procs |-> Error]
    /\ cfg = [p \in Procs |-> None]
    /\ sc = [p \in Procs |-> None]
    /\ lone = [p \in Procs |-> FALSE]

Handler(p) ==
    \/ CreateSchema(p) \/ ReloadSchema(p) \/ DeleteSchema(p)
    \/ ResolveFiles(p) \/ ReadYANGFiles(p) \/ WriteSchema(p) \/ Remove(p)
    \/ GetSchema(p) \/ TakeSchema(p) \/ AnswerPath(p)

Next == EditFiles \/ \E p \in Procs : Handler(p)

Spec == Init /\ [][Next]_vars

-----------------------------------------------------------------------------
(* Properties *)

(* The abstract change a handler is at: a request refused at once never    *)
(* was one, and a path request is over, for the store, once it has taken   *)
(* the schema.                                                             *)
AbstractOp(p) ==
    IF pc[p] \in InChange
    THEN [op |-> IF req[p].op = "add" THEN "create" ELSE req[p].op, key |-> req[p].key]
    ELSE None

AbstractResult(p) == IF pc[p] = "answer" THEN Ok(sc[p].rev) ELSE rsp[p]

Abstract == INSTANCE SchemaStore WITH
    store <- [k \in Keys |-> IF HasSchema(k) THEN schemas[k].rev ELSE None],
    op <- [p \in Procs |-> AbstractOp(p)],
    result <- [p \in Procs |-> AbstractResult(p)]

(* The in-memory store implements the abstract store: whole revisions, one *)
(* step per request, reloads in place, and checks that hold for every      *)
(* change that did not overlap with another.                               *)
ImplementsSchemaStore == Abstract!Spec

(* Every variable has its type. *)
TypeOK ==
    /\ disk \in [Files -> Contents \union {Bad, Absent}]
    /\ files \in [Configs -> {Dir} \union SUBSET Files]
    /\ schemas \in [Keys -> {None} \union [cfg : Configs, rev : Revs]]
    /\ pc \in [Procs -> InChange \union {"idle", "done", "answer"}]
    /\ req \in [Procs -> Requests \union {None}]
    /\ rsp \in [Procs -> [ok : BOOLEAN, rev : Revs \union {None}]]
    /\ cfg \in [Procs -> Configs \union {None}]
    /\ sc \in [Procs -> {None} \union [cfg : Configs, rev : Revs]]
    /\ lone \in [Procs -> BOOLEAN]

(* The configuration of a stored schema names the files the schema was     *)
(* parsed from, whatever reloads and file edits did, or nothing at all,    *)
(* after a reload that met a missing file: GetSchemaDetails and the next   *)
(* reload never work on some of the files.                                 *)
ConfigMatchesSchema ==
    \A k \in Keys :
        HasSchema(k) => files[schemas[k].cfg] \in {DOMAIN schemas[k].rev, {}}

=============================================================================
