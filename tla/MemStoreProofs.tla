--------------------------- MODULE MemStoreProofs ---------------------------
(***************************************************************************)
(* Proofs about MemStore, for every set of keys, files, requests and       *)
(* handlers: its types, what a configuration shared between a schema and   *)
(* its reloads may become, and that the store implements SchemaStore.      *)
(***************************************************************************)
EXTENDS MemStore, TLAPS

Schemas == [cfg : Configs, rev : Revs]
Replies == [ok : BOOLEAN, rev : Revs \union {None}]

(* What the handlers know at each point of their code. *)
LocalOK ==
    \A p \in Procs :
        /\ pc[p] \in InChange => req[p] \in Requests
        /\ pc[p] \in {"resolve", "read", "write"} =>
              cfg[p] \in Configs /\ req[p].op \in {"create", "add", "reload"}
        /\ pc[p] = "read" => files[cfg[p]] # Dir
        /\ pc[p] = "write" => sc[p] \in Schemas
        /\ pc[p] = "drop" => req[p].op = "delete"
        /\ pc[p] = "answer" => sc[p] \in Schemas

Typing == TypeOK /\ LocalOK

(* None is no schema, no revision and no configuration; a revision is made *)
(* of a set of files, which a directory is not.                            *)
LEMMA NoneIsNothing ==
    /\ None \notin Schemas /\ None \notin Revs /\ None \notin Configs
    /\ \A r \in Revs : DOMAIN r \in SUBSET Files
    /\ \A F \in SUBSET Files : F # Dir
<1>1. \A r \in Revs : DOMAIN r \in SUBSET Files
    BY DEF Revs
<1> QED BY <1>1, MemAssumption DEF Schemas

(* The replies the handlers build are replies. *)
LEMMA RepliesTyped ==
    /\ Error \in Replies
    /\ \A r \in Revs \union {None} : Ok(r) \in Replies
BY DEF Error, Ok, Replies

(* The initial states are well typed. *)
LEMMA InitTyping == Init => Typing
<1> SUFFICES ASSUME Init PROVE Typing
    OBVIOUS
<1>1. TypeOK
    BY MemAssumption, RepliesTyped DEF Init, TypeOK, Replies
<1>2. LocalOK
    BY DEF Init, LocalOK, InChange
<1> QED BY <1>1, <1>2 DEF Typing

(* Returning keeps the handler's own variables typed, and those of the     *)
(* others as they are.                                                     *)
LEMMA ReturnTyping ==
    ASSUME NEW p \in Procs, NEW r \in Replies, Return(p, r), Typing,
           \A o \in Procs \ {p} : req'[o] = req[o],
           \A c \in Configs : files[c] # Dir => files'[c] # Dir
    PROVE  /\ pc' \in [Procs -> InChange \union {"idle", "done", "answer"}]
           /\ rsp' \in [Procs -> Replies]
           /\ cfg' \in [Procs -> Configs \union {None}]
           /\ sc' \in [Procs -> {None} \union Schemas]
           /\ LocalOK'
           /\ pc'[p] = "done" /\ cfg'[p] = None /\ rsp'[p] = r
           /\ \A o \in Procs \ {p} : /\ pc'[o] = pc[o] /\ cfg'[o] = cfg[o]
                                     /\ sc'[o] = sc[o] /\ rsp'[o] = rsp[o]
<1>1. /\ pc' \in [Procs -> InChange \union {"idle", "done", "answer"}]
      /\ rsp' \in [Procs -> Replies]
      /\ cfg' \in [Procs -> Configs \union {None}]
      /\ sc' \in [Procs -> {None} \union Schemas]
    BY DEF Return, Typing, TypeOK, Replies, Schemas
<1>2. /\ pc'[p] = "done" /\ cfg'[p] = None /\ rsp'[p] = r
      /\ \A o \in Procs \ {p} : /\ pc'[o] = pc[o] /\ cfg'[o] = cfg[o]
                                /\ sc'[o] = sc[o] /\ rsp'[o] = rsp[o]
    BY DEF Return, Typing, TypeOK
<1>3. LocalOK'
    BY <1>2 DEF LocalOK, Typing, InChange
<1> QED BY <1>1, <1>2, <1>3

(* A step in which a handler returns, and which writes nothing else badly, *)
(* keeps the types.                                                        *)
LEMMA ReturnStep ==
    ASSUME NEW p \in Procs, NEW r \in Replies, Return(p, r), Typing,
           \/ UNCHANGED req
           \/ \E q \in Requests : req' = [req EXCEPT ![p] = q],
           disk' = disk,
           files' \in [Configs -> {Dir} \union SUBSET Files],
           \A c \in Configs : files[c] # Dir => files'[c] # Dir,
           schemas' \in [Keys -> {None} \union Schemas],
           lone' \in [Procs -> BOOLEAN]
    PROVE  Typing'
<1>1. req' \in [Procs -> Requests \union {None}] /\ \A o \in Procs \ {p} : req'[o] = req[o]
    BY DEF Typing, TypeOK
<1> QED BY <1>1, ReturnTyping DEF Typing, TypeOK, Replies, Schemas

(* Noting who overlaps keeps the history typed. *)
LEMMA BeginTyping ==
    ASSUME NEW p \in Procs, NEW k, Begin(p, k), Typing
    PROVE  lone' \in [Procs -> BOOLEAN]
BY DEF Begin, Typing, TypeOK, Changing

-----------------------------------------------------------------------------
(* The requests that change a schema keep the types. *)

(* A request arrives. *)
LEMMA ArrivalTyping ==
    ASSUME NEW p \in Procs, CreateSchema(p) \/ ReloadSchema(p) \/ DeleteSchema(p), Typing
    PROVE  Typing'
<1>1. CASE CreateSchema(p)
    <2>1. PICK q \in Requests :
              /\ q.op \in {"create", "add"}
              /\ req' = [req EXCEPT ![p] = q]
              /\ \/ Return(p, Error) /\ UNCHANGED <<files, lone>>
                 \/ /\ \E c \in Configs :
                          /\ Fresh(c)
                          /\ files' = [files EXCEPT ![c] = q.files]
                          /\ cfg' = [cfg EXCEPT ![p] = c]
                    /\ Begin(p, q.key) /\ Goto(p, "resolve") /\ UNCHANGED <<rsp, sc>>
        BY <1>1 DEF CreateSchema, Start
    <2>2. UNCHANGED <<disk, schemas>>
        BY <1>1 DEF CreateSchema
    <2>3. CASE Return(p, Error) /\ UNCHANGED <<files, lone>>
        BY <2>1, <2>2, <2>3, RepliesTyped, ReturnStep DEF Typing, TypeOK, Schemas
    <2>4. ASSUME NEW c \in Configs, Fresh(c), files' = [files EXCEPT ![c] = q.files],
                 cfg' = [cfg EXCEPT ![p] = c], Begin(p, q.key), Goto(p, "resolve"),
                 UNCHANGED <<rsp, sc>>
          PROVE  Typing'
        <3>1. q.files \in {Dir} \union SUBSET Files
            BY <2>1, MemAssumption
        <3>2. TypeOK'
            BY <2>1, <2>2, <2>4, <3>1, BeginTyping DEF Goto, Typing, TypeOK, InChange
        <3>3. LocalOK'
            BY <2>1, <2>4 DEF Fresh, Goto, Typing, TypeOK, LocalOK, InChange
        <3> QED BY <3>2, <3>3 DEF Typing
    <2> QED BY <2>1, <2>3, <2>4
<1>2. CASE ReloadSchema(p)
    <2>1. PICK q \in Requests :
              /\ q.op = "reload" /\ q.key \in Keys
              /\ req' = [req EXCEPT ![p] = q]
              /\ \/ Return(p, Error) /\ UNCHANGED lone
                 \/ /\ HasSchema(q.key)
                    /\ cfg' = [cfg EXCEPT ![p] = schemas[q.key].cfg]
                    /\ Begin(p, q.key) /\ Goto(p, "resolve") /\ UNCHANGED <<rsp, sc>>
        BY <1>2, MemAssumption DEF ReloadSchema, Start
    <2>2. UNCHANGED <<disk, files, schemas>>
        BY <1>2 DEF ReloadSchema
    <2>3. CASE Return(p, Error) /\ UNCHANGED lone
        BY <2>1, <2>2, <2>3, RepliesTyped, ReturnStep DEF Typing, TypeOK, Schemas
    <2>4. CASE /\ HasSchema(q.key)
               /\ cfg' = [cfg EXCEPT ![p] = schemas[q.key].cfg]
               /\ Begin(p, q.key) /\ Goto(p, "resolve") /\ UNCHANGED <<rsp, sc>>
        <3>1. schemas[q.key].cfg \in Configs
            BY <2>1, <2>4 DEF HasSchema, Typing, TypeOK
        <3>2. TypeOK'
            BY <2>1, <2>2, <2>4, <3>1, BeginTyping DEF Goto, Typing, TypeOK, InChange
        <3>3. LocalOK'
            BY <2>1, <2>2, <2>4, <3>1 DEF Goto, Typing, TypeOK, LocalOK, InChange
        <3> QED BY <3>2, <3>3 DEF Typing
    <2> QED BY <2>1, <2>3, <2>4
<1>3. CASE DeleteSchema(p)
    <2>1. PICK q \in Requests :
              /\ q.op = "delete"
              /\ req' = [req EXCEPT ![p] = q]
              /\ \/ Return(p, Error) /\ UNCHANGED lone
                 \/ Begin(p, q.key) /\ Goto(p, "drop") /\ UNCHANGED <<rsp, cfg, sc>>
        BY <1>3 DEF DeleteSchema, Start
    <2>2. UNCHANGED <<disk, files, schemas>>
        BY <1>3 DEF DeleteSchema
    <2>3. CASE Return(p, Error) /\ UNCHANGED lone
        BY <2>1, <2>2, <2>3, RepliesTyped, ReturnStep DEF Typing, TypeOK, Schemas
    <2>4. CASE Begin(p, q.key) /\ Goto(p, "drop") /\ UNCHANGED <<rsp, cfg, sc>>
        <3>1. TypeOK'
            BY <2>1, <2>2, <2>4, BeginTyping DEF Goto, Typing, TypeOK, InChange
        <3>2. LocalOK'
            BY <2>1, <2>2, <2>4 DEF Goto, Typing, TypeOK, LocalOK, InChange
        <3> QED BY <3>1, <3>2 DEF Typing
    <2> QED BY <2>1, <2>3, <2>4
<1> QED BY <1>1, <1>2, <1>3

(* The two accesses of NewSchema to the file list keep the types. *)
LEMMA ParseTyping ==
    ASSUME NEW p \in Procs, ResolveFiles(p) \/ ReadYANGFiles(p), Typing
    PROVE  Typing'
<1>1. /\ pc[p] \in {"resolve", "read"} /\ cfg[p] \in Configs /\ req[p] \in Requests
      /\ req[p].op \in {"create", "add", "reload"}
      /\ UNCHANGED <<disk, schemas, req, lone>>
    BY DEF ResolveFiles, ReadYANGFiles, Typing, LocalOK, InChange
<1>2. CASE ResolveFiles(p)
    <2>1. /\ files' \in [Configs -> {Dir} \union SUBSET Files]
          /\ \A c \in Configs : files[c] # Dir => files'[c] # Dir
          /\ files'[cfg[p]] # Dir
        <3>1. files[cfg[p]] \in {Dir} \union SUBSET Files
            BY <1>1 DEF Typing, TypeOK
        <3>2. PICK F \in SUBSET Files : files' = [files EXCEPT ![cfg[p]] = F]
            BY <1>2, <3>1 DEF ResolveFiles, FindYangFiles
        <3>3. F # Dir
            BY NoneIsNothing
        <3> QED BY <1>1, <3>2, <3>3 DEF Typing, TypeOK
    <2>2. CASE Return(p, Error)
        BY <1>1, <2>1, <2>2, RepliesTyped, ReturnStep DEF Typing, TypeOK, Schemas
    <2>3. CASE Goto(p, "read") /\ UNCHANGED <<rsp, cfg, sc>>
        <3>1. TypeOK'
            BY <1>1, <2>1, <2>3 DEF Goto, Typing, TypeOK, InChange
        <3>2. LocalOK'
            BY <1>1, <2>1, <2>3 DEF Goto, Typing, TypeOK, LocalOK, InChange
        <3> QED BY <3>1, <3>2 DEF Typing
    <2> QED BY <1>2, <2>2, <2>3 DEF ResolveFiles
<1>3. CASE ReadYANGFiles(p)
    <2> DEFINE F == files[cfg[p]]
               r == [f \in F |-> disk[f]]
    <2>1. files' = files
        BY <1>3 DEF ReadYANGFiles
    <2>2. CASE Return(p, Error)
        BY <1>1, <2>1, <2>2, RepliesTyped, ReturnStep DEF Typing, TypeOK, Schemas
    <2>3. CASE /\ \A f \in F : disk[f] \in Contents
               /\ sc' = [sc EXCEPT ![p] = Schema(cfg[p], r)]
               /\ Goto(p, "write") /\ UNCHANGED <<rsp, cfg>>
        <3>1. F \in SUBSET Files
            BY <1>1, <1>3 DEF ReadYANGFiles, Typing, TypeOK, LocalOK
        <3>2. r \in Revs
            BY <2>3, <3>1 DEF Revs
        <3> HIDE DEF r, F
        <3>3. Schema(cfg[p], r) \in Schemas
            BY <1>1, <3>2 DEF Schema, Schemas
        <3>4. TypeOK'
            BY <1>1, <2>1, <2>3, <3>3 DEF Goto, Typing, TypeOK, InChange, Schemas
        <3>5. LocalOK'
            BY <1>1, <2>1, <2>3, <3>3 DEF Goto, Typing, TypeOK, LocalOK, InChange
        <3> QED BY <3>4, <3>5 DEF Typing
    <2> QED BY <1>3, <2>2, <2>3 DEF ReadYANGFiles
<1> QED BY <1>2, <1>3

(* The writes of the map keep the types. *)
LEMMA WriteTyping ==
    ASSUME NEW p \in Procs, WriteSchema(p) \/ Remove(p), Typing
    PROVE  Typing'
<1>1. req[p] \in Requests /\ req[p].key \in Keys /\ UNCHANGED <<disk, files, req, lone>>
    BY MemAssumption DEF WriteSchema, Remove, Typing, LocalOK, InChange
<1>2. CASE WriteSchema(p)
    <2>1. sc[p] \in Schemas /\ sc[p].rev \in Revs
        BY <1>2 DEF WriteSchema, Typing, LocalOK, Schemas
    <2>2. schemas' \in [Keys -> {None} \union Schemas]
        BY <1>1, <1>2, <2>1 DEF WriteSchema, Typing, TypeOK, Schemas
    <2> QED BY <1>1, <1>2, <2>1, <2>2, RepliesTyped, ReturnStep DEF WriteSchema, Typing, TypeOK
<1>3. CASE Remove(p)
    <2>1. schemas' \in [Keys -> {None} \union Schemas]
        BY <1>1, <1>3 DEF Remove, Typing, TypeOK, Schemas
    <2> QED BY <1>1, <1>3, <2>1, RepliesTyped, ReturnStep DEF Remove, Typing, TypeOK
<1> QED BY <1>2, <1>3

(* The lookups keep the types. *)
LEMMA ReadTyping ==
    ASSUME NEW p \in Procs, GetSchema(p) \/ TakeSchema(p) \/ AnswerPath(p), Typing
    PROVE  Typing'
<1>1. UNCHANGED <<disk, files, schemas, lone>>
    BY DEF GetSchema, TakeSchema, AnswerPath
<1>2. CASE GetSchema(p)
    <2>1. PICK q \in Requests :
              /\ q.key \in Keys /\ req' = [req EXCEPT ![p] = q]
              /\ Return(p, IF HasSchema(q.key) THEN Ok(schemas[q.key].rev) ELSE Error)
        BY <1>2, MemAssumption DEF GetSchema, Start
    <2> DEFINE a == IF HasSchema(q.key) THEN Ok(schemas[q.key].rev) ELSE Error
    <2>2. a \in Replies
        BY <2>1, RepliesTyped DEF HasSchema, Typing, TypeOK
    <2> HIDE DEF a
    <2> QED BY <1>1, <2>1, <2>2, ReturnStep DEF Typing, TypeOK, Schemas, a
<1>3. CASE TakeSchema(p)
    <2>1. PICK q \in Requests :
              /\ q.key \in Keys /\ req' = [req EXCEPT ![p] = q]
              /\ \/ Return(p, Error)
                 \/ /\ HasSchema(q.key)
                    /\ sc' = [sc EXCEPT ![p] = schemas[q.key]]
                    /\ Goto(p, "answer") /\ UNCHANGED <<rsp, cfg>>
        BY <1>3, MemAssumption DEF TakeSchema, Start
    <2>2. CASE Return(p, Error)
        BY <1>1, <2>1, <2>2, RepliesTyped, ReturnStep DEF Typing, TypeOK, Schemas
    <2>3. CASE /\ HasSchema(q.key)
               /\ sc' = [sc EXCEPT ![p] = schemas[q.key]]
               /\ Goto(p, "answer") /\ UNCHANGED <<rsp, cfg>>
        <3>1. schemas[q.key] \in Schemas
            BY <2>1, <2>3 DEF HasSchema, Typing, TypeOK, Schemas
        <3>2. TypeOK'
            BY <1>1, <2>1, <2>3, <3>1 DEF Goto, Typing, TypeOK, InChange, Schemas
        <3>3. LocalOK'
            BY <1>1, <2>1, <2>3, <3>1 DEF Goto, Typing, TypeOK, LocalOK, InChange
        <3> QED BY <3>2, <3>3 DEF Typing
    <2> QED BY <2>1, <2>2, <2>3
<1>4. CASE AnswerPath(p)
    <2>1. sc[p].rev \in Revs
        BY <1>4 DEF AnswerPath, Typing, LocalOK, Schemas
    <2> QED BY <1>1, <1>4, <2>1, RepliesTyped, ReturnStep
            DEF AnswerPath, Typing, TypeOK, Schemas
<1> QED BY <1>2, <1>3, <1>4

(* Every step keeps the types. *)
LEMMA NextTyping == Typing /\ [Next]_vars => Typing'
<1> SUFFICES ASSUME Typing, [Next]_vars PROVE Typing'
    OBVIOUS
<1>1. CASE UNCHANGED vars
    BY <1>1 DEF vars, Typing, TypeOK, LocalOK
<1>2. CASE EditFiles
    <2>1. TypeOK'
        BY <1>2, MemAssumption DEF EditFiles, Typing, TypeOK
    <2>2. LocalOK'
        BY <1>2 DEF EditFiles, Typing, LocalOK
    <2> QED BY <2>1, <2>2 DEF Typing
<1>3. CASE \E p \in Procs : Handler(p)
    BY <1>3, ArrivalTyping, ParseTyping, WriteTyping, ReadTyping DEF Handler
<1> QED BY <1>1, <1>2, <1>3 DEF Next

(* Every variable of the in-memory store and of its handlers keeps its     *)
(* type.  A file list that is about to be read has been resolved, although *)
(* other requests work with the same configuration.                        *)
THEOREM TypeCorrect == Spec => []TypeOK
<1>1. Spec => []Typing
    BY InitTyping, NextTyping, PTL DEF Spec
<1>2. Typing => TypeOK
    BY DEF Typing
<1> QED BY <1>1, <1>2, PTL

-----------------------------------------------------------------------------
(* The inductive invariant *)

(* What a handler is about to write was parsed from the files its          *)
(* configuration names, or the configuration has lost them.                *)
ParsedMatches ==
    \A p \in Procs :
        pc[p] = "write" => /\ sc[p].cfg = cfg[p]
                           /\ files[cfg[p]] \in {DOMAIN sc[p].rev, {}}

(* Of two handlers changing one schema neither is alone. *)
OverlapNoticed ==
    \A p, o \in Procs :
        p # o /\ pc[p] \in InChange /\ pc[o] \in InChange /\ req[p].key = req[o].key
            => ~ lone[p]

(* A handler alone finds the schema as its check left it. *)
LoneFinds(p, s) ==
    /\ req[p].op \in {"create", "add"} => s = None
    /\ req[p].op \in {"reload", "delete"} => s # None
    /\ req[p].op = "reload" =>
          /\ cfg[p] = s.cfg
          /\ pc[p] = "write" => DOMAIN sc[p].rev \in {DOMAIN s.rev, {}}

LoneChecks ==
    \A p \in Procs : pc[p] \in InChange /\ lone[p] => LoneFinds(p, schemas[req[p].key])

IInv == Typing /\ ConfigMatchesSchema /\ ParsedMatches /\ OverlapNoticed /\ LoneChecks

(* The inductive invariant holds of the empty store. *)
LEMMA InitIInv == Init => IInv
<1> SUFFICES ASSUME Init PROVE IInv
    OBVIOUS
<1>1. Typing
    BY InitTyping
<1>2. ConfigMatchesSchema
    BY DEF Init, ConfigMatchesSchema, HasSchema
<1>3. ParsedMatches /\ OverlapNoticed /\ LoneChecks
    BY DEF Init, ParsedMatches, OverlapNoticed, LoneChecks, InChange
<1> QED BY <1>1, <1>2, <1>3 DEF IInv

(* A step that leaves map, file lists and history alone, and lets no       *)
(* handler begin a change or finish a parse.                               *)
LEMMA NoChange ==
    ASSUME IInv, Typing', UNCHANGED <<files, schemas, lone>>,
           \A p \in Procs :
               pc'[p] \in InChange =>
                  /\ pc[p] \in InChange /\ req'[p] = req[p] /\ cfg'[p] = cfg[p]
                  /\ pc'[p] = "write" => pc[p] = "write" /\ sc'[p] = sc[p]
    PROVE  IInv'
<1>1. ConfigMatchesSchema'
    BY DEF IInv, ConfigMatchesSchema, HasSchema
<1>2. ParsedMatches'
    BY DEF IInv, ParsedMatches, InChange
<1>3. OverlapNoticed'
    BY DEF IInv, OverlapNoticed
<1>4. LoneChecks'
    BY DEF IInv, LoneChecks, LoneFinds
<1> QED BY <1>1, <1>2, <1>3, <1>4 DEF IInv

(* Handler p begins a change of schema k, having checked it. *)
LEMMA BeginIInv ==
    ASSUME IInv, Typing', NEW p \in Procs, NEW q \in Requests, NEW l \in {"resolve", "drop"},
           UNCHANGED <<schemas, sc>>, Begin(p, q.key),
           req' = [req EXCEPT ![p] = q], Goto(p, l), pc[p] \notin InChange,
           \A o \in Procs \ {p} : cfg'[o] = cfg[o],
           \A o \in Procs \ {p} : pc[o] = "write" => files'[cfg[o]] = files[cfg[o]],
           \A k \in Keys : HasSchema(k) => files'[schemas[k].cfg] = files[schemas[k].cfg],
           LoneFinds(p, schemas[q.key])'
    PROVE  IInv'
<1>1. /\ pc'[p] = l /\ req'[p] = q
      /\ \A o \in Procs \ {p} : pc'[o] = pc[o] /\ req'[o] = req[o]
    BY DEF Goto, IInv, Typing, TypeOK
<1>2. /\ \A x \in Procs \ {p} : Changing(x, q.key) => ~ lone'[p] /\ ~ lone'[x]
      /\ \A o \in Procs \ {p} : lone'[o] => lone[o]
    BY DEF Begin
<1>3. ConfigMatchesSchema'
    BY DEF IInv, ConfigMatchesSchema, HasSchema
<1>4. ParsedMatches'
    BY <1>1 DEF IInv, ParsedMatches
<1>5. OverlapNoticed'
    <2> SUFFICES ASSUME NEW a \in Procs, NEW b \in Procs, a # b, pc'[a] \in InChange,
                        pc'[b] \in InChange, req'[a].key = req'[b].key
                 PROVE  ~ lone'[a]
        BY DEF OverlapNoticed
    <2>1. CASE a = p
        <3>1. Changing(b, q.key)
            BY <1>1, <2>1 DEF Changing
        <3> QED BY <1>2, <2>1, <3>1
    <2>2. CASE b = p
        <3>1. Changing(a, q.key)
            BY <1>1, <2>2 DEF Changing
        <3> QED BY <1>2, <2>2, <3>1
    <2>3. CASE a # p /\ b # p
        BY <1>1, <1>2, <2>3 DEF IInv, OverlapNoticed
    <2> QED BY <2>1, <2>2, <2>3
<1>6. LoneChecks'
    <2> SUFFICES ASSUME NEW o \in Procs, pc'[o] \in InChange, lone'[o]
                 PROVE  LoneFinds(o, schemas[req[o].key])'
        BY DEF LoneChecks
    <2>1. CASE o = p
        BY <1>1, <2>1
    <2>2. CASE o # p
        BY <1>1, <1>2, <2>2 DEF IInv, LoneChecks, LoneFinds
    <2> QED BY <2>1, <2>2
<1> QED BY <1>3, <1>4, <1>5, <1>6 DEF IInv

(* A request that changes a schema is refused, or begins.                  *)
LEMMA ArrivalIInv ==
    ASSUME NEW p \in Procs, IInv, CreateSchema(p) \/ ReloadSchema(p) \/ DeleteSchema(p)
    PROVE  IInv'
<1>1. Typing'
    BY ArrivalTyping DEF IInv
<1>2. UNCHANGED schemas
    BY DEF CreateSchema, ReloadSchema, DeleteSchema
<1>3. ASSUME Return(p, Error), UNCHANGED <<files, lone>>,
             NEW q \in Requests, req' = [req EXCEPT ![p] = q]
      PROVE  IInv'
    <2>1. \A o \in Procs \ {p} : /\ req'[o] = req[o] /\ pc'[o] = pc[o]
                                /\ cfg'[o] = cfg[o] /\ sc'[o] = sc[o]
        BY <1>3 DEF Return, IInv, Typing, TypeOK
    <2>2. pc'[p] \notin InChange
        BY <1>3 DEF Return, IInv, Typing, TypeOK, InChange
    <2> QED BY <1>1, <1>2, <1>3, <2>1, <2>2, NoChange
<1>4. CASE CreateSchema(p)
    <2>1. PICK q \in Start(p, {"create", "add"}) :
              /\ req' = [req EXCEPT ![p] = q]
              /\ \/ Return(p, Error) /\ UNCHANGED <<files, lone>>
                 \/ /\ Creatable(q)
                    /\ \E c \in Configs :
                          /\ Fresh(c)
                          /\ files' = [files EXCEPT ![c] = q.files]
                          /\ cfg' = [cfg EXCEPT ![p] = c]
                    /\ Begin(p, q.key) /\ Goto(p, "resolve") /\ UNCHANGED <<rsp, sc>>
        BY <1>4 DEF CreateSchema
    <2>2. q \in Requests /\ q.op \in {"create", "add"} /\ pc[p] \notin InChange
        BY DEF Start, InChange
    <2>3. ASSUME NEW c \in Configs, Creatable(q), Fresh(c), files' = [files EXCEPT ![c] = q.files],
                 cfg' = [cfg EXCEPT ![p] = c], Begin(p, q.key), Goto(p, "resolve"),
                 UNCHANGED <<rsp, sc>>
          PROVE  IInv'
        <3>1. req'[p] = q
            BY <2>1 DEF IInv, Typing, TypeOK
        <3>2. LoneFinds(p, schemas[q.key])'
            BY <1>2, <2>2, <2>3, <3>1 DEF LoneFinds, Creatable, HasSchema
        <3>3. /\ \A o \in Procs \ {p} : cfg'[o] = cfg[o]
              /\ \A o \in Procs \ {p} : pc[o] = "write" => files'[cfg[o]] = files[cfg[o]]
            BY <2>3 DEF Fresh, IInv, Typing, TypeOK, LocalOK
        <3>4. \A k \in Keys : HasSchema(k) => files'[schemas[k].cfg] = files[schemas[k].cfg]
            BY <2>3 DEF Fresh, IInv, Typing, TypeOK, HasSchema
        <3>5. /\ req' = [req EXCEPT ![p] = q] /\ UNCHANGED <<schemas, sc>>
              /\ Begin(p, q.key) /\ Goto(p, "resolve")
            BY <1>2, <2>1, <2>3
        <3> QED BY <1>1, <2>2, <3>2, <3>3, <3>4, <3>5, BeginIInv
    <2> QED BY <1>3, <2>1, <2>2, <2>3
<1>5. CASE ReloadSchema(p)
    <2>1. PICK q \in Start(p, {"reload"}) :
              /\ req' = [req EXCEPT ![p] = q]
              /\ \/ Return(p, Error) /\ UNCHANGED lone
                 \/ /\ HasSchema(q.key)
                    /\ cfg' = [cfg EXCEPT ![p] = schemas[q.key].cfg]
                    /\ Begin(p, q.key) /\ Goto(p, "resolve") /\ UNCHANGED <<rsp, sc>>
        BY <1>5 DEF ReloadSchema
    <2>2. q \in Requests /\ q.op = "reload" /\ pc[p] \notin InChange /\ UNCHANGED files
        BY <1>5 DEF Start, InChange, ReloadSchema
    <2>3. CASE /\ HasSchema(q.key)
               /\ cfg' = [cfg EXCEPT ![p] = schemas[q.key].cfg]
               /\ Begin(p, q.key) /\ Goto(p, "resolve") /\ UNCHANGED <<rsp, sc>>
        <3>1. /\ req'[p] = q /\ pc'[p] = "resolve" /\ cfg'[p] = schemas[q.key].cfg
              /\ \A o \in Procs \ {p} : cfg'[o] = cfg[o]
            BY <2>1, <2>3 DEF Goto, IInv, Typing, TypeOK
        <3>2. LoneFinds(p, schemas[q.key])'
            BY <1>2, <2>2, <2>3, <3>1 DEF LoneFinds, HasSchema
        <3> QED BY <1>1, <1>2, <2>1, <2>2, <2>3, <3>1, <3>2, BeginIInv
    <2> QED BY <1>3, <2>1, <2>2, <2>3
<1>6. CASE DeleteSchema(p)
    <2>1. PICK q \in Start(p, {"delete"}) :
              /\ req' = [req EXCEPT ![p] = q]
              /\ \/ Return(p, Error) /\ UNCHANGED lone
                 \/ /\ HasSchema(q.key)
                    /\ Begin(p, q.key) /\ Goto(p, "drop") /\ UNCHANGED <<rsp, cfg, sc>>
        BY <1>6 DEF DeleteSchema
    <2>2. q \in Requests /\ q.op = "delete" /\ pc[p] \notin InChange /\ UNCHANGED files
        BY <1>6 DEF Start, InChange, DeleteSchema
    <2>3. CASE /\ HasSchema(q.key)
               /\ Begin(p, q.key) /\ Goto(p, "drop") /\ UNCHANGED <<rsp, cfg, sc>>
        <3>1. req'[p] = q
            BY <2>1 DEF IInv, Typing, TypeOK
        <3>2. LoneFinds(p, schemas[q.key])'
            BY <1>2, <2>2, <2>3, <3>1 DEF LoneFinds, HasSchema
        <3> QED BY <1>1, <1>2, <2>1, <2>2, <2>3, <3>2, BeginIInv
    <2> QED BY <1>3, <2>1, <2>2, <2>3
<1> QED BY <1>4, <1>5, <1>6

(* NewSchema resolves the file list of a configuration that others may be  *)
(* serving from: to the same files, or to none.                            *)
LEMMA ResolveIInv ==
    ASSUME NEW p \in Procs, IInv, ResolveFiles(p)
    PROVE  IInv'
<1>1. Typing'
    BY ParseTyping DEF IInv
<1>2. /\ pc[p] = "resolve" /\ cfg[p] \in Configs /\ UNCHANGED <<disk, schemas, req, lone>>
      /\ files[cfg[p]] \in {Dir} \union SUBSET Files
    BY DEF ResolveFiles, IInv, Typing, TypeOK, LocalOK
<1>3. /\ files[cfg[p]] # Dir => files'[cfg[p]] \in {files[cfg[p]], {}}
      /\ \A c \in Configs \ {cfg[p]} : files'[c] = files[c]
    BY <1>2 DEF ResolveFiles, FindYangFiles, IInv, Typing, TypeOK
<1>4. \A c \in Configs, F \in SUBSET Files : files[c] \in {F, {}} => files'[c] \in {F, {}}
    BY <1>3, NoneIsNothing
<1>5. /\ pc'[p] \in {"read", "done"}
      /\ pc'[p] = "read" => cfg'[p] = cfg[p]
      /\ \A o \in Procs \ {p} : pc'[o] = pc[o] /\ cfg'[o] = cfg[o] /\ sc'[o] = sc[o]
    BY DEF ResolveFiles, Return, Goto, IInv, Typing, TypeOK
<1>6. ConfigMatchesSchema'
    <2> SUFFICES ASSUME NEW k \in Keys, schemas[k] # None
                 PROVE  files'[schemas[k].cfg] \in {DOMAIN schemas[k].rev, {}}
        BY <1>2 DEF ConfigMatchesSchema, HasSchema
    <2>1. schemas[k].cfg \in Configs /\ DOMAIN schemas[k].rev \in SUBSET Files
        BY NoneIsNothing DEF IInv, Typing, TypeOK
    <2>2. files[schemas[k].cfg] \in {DOMAIN schemas[k].rev, {}}
        BY DEF IInv, ConfigMatchesSchema, HasSchema
    <2> QED BY <1>4, <2>1, <2>2
<1>7. ParsedMatches'
    <2> SUFFICES ASSUME NEW o \in Procs, pc'[o] = "write"
                 PROVE  /\ sc'[o].cfg = cfg'[o]
                        /\ files'[cfg'[o]] \in {DOMAIN sc'[o].rev, {}}
        BY DEF ParsedMatches
    <2>1. o # p /\ pc[o] = "write" /\ cfg'[o] = cfg[o] /\ sc'[o] = sc[o]
        BY <1>5
    <2>2. cfg[o] \in Configs /\ DOMAIN sc[o].rev \in SUBSET Files
        BY <2>1, NoneIsNothing DEF IInv, Typing, LocalOK, Schemas
    <2>3. sc[o].cfg = cfg[o] /\ files[cfg[o]] \in {DOMAIN sc[o].rev, {}}
        BY <2>1 DEF IInv, ParsedMatches
    <2> QED BY <1>4, <2>1, <2>2, <2>3
<1>8. OverlapNoticed'
    BY <1>2, <1>5 DEF IInv, OverlapNoticed, InChange
<1>9. LoneChecks'
    BY <1>2, <1>5 DEF IInv, LoneChecks, LoneFinds, InChange
<1> QED BY <1>1, <1>6, <1>7, <1>8, <1>9 DEF IInv

(* NewSchema parses what the configuration names by now. *)
LEMMA ReadFilesIInv ==
    ASSUME NEW p \in Procs, IInv, ReadYANGFiles(p)
    PROVE  IInv'
<1>1. Typing'
    BY ParseTyping DEF IInv
<1>2. pc[p] = "read" /\ cfg[p] \in Configs /\ UNCHANGED <<disk, files, schemas, req, lone>>
    BY DEF ReadYANGFiles, IInv, Typing, LocalOK
<1>3. \A o \in Procs \ {p} : pc'[o] = pc[o] /\ cfg'[o] = cfg[o] /\ sc'[o] = sc[o]
    BY DEF ReadYANGFiles, Return, Goto, IInv, Typing, TypeOK
<1>4. CASE Return(p, Error)
    <2>1. pc'[p] \notin InChange
        BY <1>4 DEF Return, IInv, Typing, TypeOK, InChange
    <2> QED BY <1>1, <1>2, <1>3, <2>1, NoChange
<1>5. CASE \E r : /\ DOMAIN r = files[cfg[p]]
                  /\ sc' = [sc EXCEPT ![p] = Schema(cfg[p], r)]
                  /\ Goto(p, "write") /\ UNCHANGED cfg
    <2>1. PICK r : /\ DOMAIN r = files[cfg[p]]
                   /\ sc' = [sc EXCEPT ![p] = Schema(cfg[p], r)]
                   /\ Goto(p, "write") /\ UNCHANGED cfg
        BY <1>5
    <2>2. pc'[p] = "write" /\ sc'[p].cfg = cfg[p] /\ sc'[p].rev = r /\ cfg'[p] = cfg[p]
        BY <2>1 DEF Goto, Schema, IInv, Typing, TypeOK
    <2>3. ConfigMatchesSchema'
        BY <1>2 DEF IInv, ConfigMatchesSchema, HasSchema
    <2>4. ParsedMatches'
        BY <1>2, <1>3, <2>1, <2>2 DEF IInv, ParsedMatches
    <2>5. OverlapNoticed'
        BY <1>2, <1>3 DEF IInv, OverlapNoticed, InChange
    <2>6. LoneChecks'
        <3> SUFFICES ASSUME NEW o \in Procs, pc'[o] \in InChange, lone[o]
                     PROVE  LoneFinds(o, schemas[req[o].key])'
            BY <1>2 DEF LoneChecks
        <3>1. CASE o # p
            BY <1>2, <1>3, <3>1 DEF IInv, LoneChecks, LoneFinds
        <3>2. CASE o = p
            <4>1. LoneFinds(p, schemas[req[p].key]) /\ req[p].key \in Keys
                BY <1>2, <3>2, MemAssumption DEF IInv, Typing, LocalOK, LoneChecks, InChange
            <4>2. req[p].op = "reload" => DOMAIN r \in {DOMAIN schemas[req[p].key].rev, {}}
                BY <2>1, <4>1 DEF LoneFinds, IInv, ConfigMatchesSchema, HasSchema
            <4> QED BY <1>2, <2>2, <3>2, <4>1, <4>2 DEF LoneFinds
        <3> QED BY <3>1, <3>2
    <2> QED BY <1>1, <2>3, <2>4, <2>5, <2>6 DEF IInv
<1>6. \/ Return(p, Error)
      \/ \E r : /\ DOMAIN r = files[cfg[p]]
               /\ sc' = [sc EXCEPT ![p] = Schema(cfg[p], r)]
               /\ Goto(p, "write") /\ UNCHANGED cfg
    <2> DEFINE r == [f \in files[cfg[p]] |-> disk[f]]
    <2>1. DOMAIN r = files[cfg[p]]
        OBVIOUS
    <2> QED BY <2>1 DEF ReadYANGFiles
<1> QED BY <1>4, <1>5, <1>6

(* The map is written, by a create, a reload or a delete that is over. *)
LEMMA WriteIInv ==
    ASSUME NEW p \in Procs, IInv, WriteSchema(p) \/ Remove(p)
    PROVE  IInv'
<1> DEFINE k == req[p].key
<1>1. Typing'
    BY WriteTyping DEF IInv
<1>2. pc[p] \in {"write", "drop"} /\ k \in Keys /\ UNCHANGED <<disk, files, req, lone>>
    BY MemAssumption DEF WriteSchema, Remove, IInv, Typing, LocalOK, InChange
<1>3. /\ pc'[p] = "done"
      /\ \A o \in Procs \ {p} : pc'[o] = pc[o] /\ cfg'[o] = cfg[o] /\ sc'[o] = sc[o]
    BY DEF WriteSchema, Remove, Return, IInv, Typing, TypeOK
<1>4. /\ \A x \in Keys \ {k} : schemas'[x] = schemas[x]
      /\ schemas'[k] = None \/ (pc[p] = "write" /\ schemas'[k] = sc[p])
    BY <1>2 DEF WriteSchema, Remove, IInv, Typing, TypeOK
<1>5. ConfigMatchesSchema'
    BY <1>2, <1>4 DEF IInv, ConfigMatchesSchema, ParsedMatches, HasSchema
<1>6. ParsedMatches'
    BY <1>2, <1>3 DEF IInv, ParsedMatches
<1>7. OverlapNoticed'
    BY <1>2, <1>3 DEF IInv, OverlapNoticed, InChange
<1>8. LoneChecks'
    <2> SUFFICES ASSUME NEW o \in Procs, pc'[o] \in InChange, lone[o]
                 PROVE  LoneFinds(o, schemas[req[o].key])'
        BY <1>2 DEF LoneChecks
    <2>1. o # p /\ pc[o] \in InChange
        BY <1>3 DEF InChange
    <2>2. req[o].key # k /\ req[o].key \in Keys
        BY <1>2, <2>1, MemAssumption DEF IInv, Typing, LocalOK, OverlapNoticed, InChange
    <2>3. LoneFinds(o, schemas[req[o].key])
        BY <2>1 DEF IInv, LoneChecks
    <2> QED BY <1>2, <1>3, <1>4, <2>1, <2>2, <2>3 DEF LoneFinds
<1> QED BY <1>1, <1>5, <1>6, <1>7, <1>8 DEF IInv

(* Lookups change nothing others rely on. *)
LEMMA ReadIInv ==
    ASSUME NEW p \in Procs, IInv, GetSchema(p) \/ TakeSchema(p) \/ AnswerPath(p)
    PROVE  IInv'
<1>1. Typing'
    BY ReadTyping DEF IInv
<1>2. UNCHANGED <<files, schemas, lone>> /\ pc'[p] \in {"done", "answer"}
    BY DEF GetSchema, TakeSchema, AnswerPath, Return, Goto, IInv, Typing, TypeOK
<1>3. \A o \in Procs \ {p} : /\ req'[o] = req[o] /\ pc'[o] = pc[o]
                            /\ cfg'[o] = cfg[o] /\ sc'[o] = sc[o]
    BY DEF GetSchema, TakeSchema, AnswerPath, Return, Goto, IInv, Typing, TypeOK
<1> QED BY <1>1, <1>2, <1>3, NoChange DEF InChange

(* Every step preserves the inductive invariant. *)
LEMMA NextIInv == IInv /\ [Next]_vars => IInv'
<1> SUFFICES ASSUME IInv, [Next]_vars PROVE IInv'
    OBVIOUS
<1>1. Typing'
    BY NextTyping DEF IInv
<1>2. CASE UNCHANGED vars
    BY <1>1, <1>2, NoChange DEF vars
<1>3. CASE EditFiles
    BY <1>1, <1>3, NoChange DEF EditFiles
<1>4. CASE \E p \in Procs : Handler(p)
    BY <1>4, ArrivalIInv, ResolveIInv, ReadFilesIInv, WriteIInv, ReadIInv DEF Handler
<1> QED BY <1>2, <1>3, <1>4 DEF Next

(* The inductive invariant holds in every state the store reaches. *)
THEOREM Invariance == Spec => []IInv
BY InitIInv, NextIInv, PTL DEF Spec

(* A configuration shared between a stored schema and the requests that    *)
(* reload it names the files of the schema or none: no interleaving of     *)
(* reloads and file edits leaves some of them.                             *)
THEOREM ConfigsMatchSchemas == Spec => []ConfigMatchesSchema
<1>1. IInv => ConfigMatchesSchema
    BY DEF IInv
<1> QED BY <1>1, Invariance, PTL

-----------------------------------------------------------------------------
(* The store implements SchemaStore *)

(* The request of handler o, as SchemaStore sees it, only depends on the   *)
(* variables of the handler.                                               *)
LEMMA SameHandler ==
    ASSUME NEW o \in Procs,
           pc'[o] = pc[o], req'[o] = req[o], sc'[o] = sc[o], rsp'[o] = rsp[o]
    PROVE  AbstractOp(o)' = AbstractOp(o) /\ AbstractResult(o)' = AbstractResult(o)
BY DEF AbstractOp, AbstractResult

(* A handler is at an abstract change of a schema exactly when it is       *)
(* changing it.                                                            *)
LEMMA PendingIsChanging ==
    ASSUME Typing, NEW p \in Procs
    PROVE  /\ (AbstractOp(p) # None) <=> pc[p] \in InChange
           /\ pc[p] \in InChange => /\ AbstractOp(p).key = req[p].key
                                    /\ AbstractOp(p).op \in Abstract!Changes
<1>1. CASE pc[p] \in InChange
    <2>1. req[p].key \in Keys /\ req[p].op \in {"create", "add", "reload", "delete"}
        BY <1>1, MemAssumption DEF Typing, LocalOK, InChange
    <2> DEFINE c == IF req[p].op = "add" THEN "create" ELSE req[p].op
    <2>2. AbstractOp(p) = [op |-> c, key |-> req[p].key]
        BY <1>1 DEF AbstractOp
    <2>3. c \in {"create", "reload", "delete"}
        BY <2>1
    <2> HIDE DEF c
    <2>4. AbstractOp(p) \in [op : {"create", "reload", "delete"}, key : Keys]
        BY <2>1, <2>2, <2>3
    <2> QED BY <1>1, <2>2, <2>3, <2>4, MemAssumption DEF Abstract!Changes
<1>2. CASE pc[p] \notin InChange
    BY <1>2 DEF AbstractOp
<1> QED BY <1>1, <1>2

(* The empty store is the abstract empty store. *)
LEMMA InitRefines == Init => Abstract!Init
<1> SUFFICES ASSUME Init PROVE Abstract!Init
    OBVIOUS
<1>1. [k \in Keys |-> IF HasSchema(k) THEN schemas[k].rev ELSE None] = [k \in Keys |-> None]
    BY DEF Init, HasSchema
<1>2. [p \in Procs |-> AbstractOp(p)] = [p \in Procs |-> None]
    BY DEF Init, AbstractOp, InChange
<1>3. [p \in Procs |-> AbstractResult(p)] = [p \in Procs |-> Error]
    BY DEF Init, AbstractResult
<1> QED BY <1>1, <1>2, <1>3 DEF Init, Abstract!Init, Abstract!Failed, Error

(* A request that fails. *)
LEMMA FailRefines ==
    ASSUME NEW p \in Procs, Typing, UNCHANGED <<schemas, lone>>, Return(p, Error),
           \A o \in Procs \ {p} : req'[o] = req[o]
    PROVE  Abstract!Fail(p)
<1>1. /\ pc'[p] = "done" /\ rsp'[p] = Error
      /\ \A o \in Procs \ {p} : pc'[o] = pc[o] /\ sc'[o] = sc[o] /\ rsp'[o] = rsp[o]
    BY DEF Return, Typing, TypeOK
<1>2. AbstractOp(p)' = None /\ AbstractResult(p)' = Error
    BY <1>1 DEF AbstractOp, AbstractResult, InChange
<1>3. \A o \in Procs \ {p} : /\ AbstractOp(o)' = AbstractOp(o)
                            /\ AbstractResult(o)' = AbstractResult(o)
    BY <1>1, SameHandler
<1> QED BY <1>2, <1>3 DEF Abstract!Fail, Abstract!Failed, Error, HasSchema

(* A request that begins a change. *)
LEMMA InvokeRefines ==
    ASSUME NEW p \in Procs, NEW q \in Requests, NEW l \in {"resolve", "drop"}, Typing,
           pc[p] \in {"idle", "done"}, q.op \in {"create", "add", "reload", "delete"}, req' = [req EXCEPT ![p] = q],
           Begin(p, q.key), Goto(p, l), UNCHANGED <<schemas, rsp, sc>>
    PROVE  \E c \in Abstract!Changes, k \in Keys : Abstract!Invoke(p, c, k)
<1>1. /\ pc'[p] = l /\ req'[p] = q
      /\ \A o \in Procs \ {p} : pc'[o] = pc[o] /\ req'[o] = req[o]
    BY DEF Goto, Typing, TypeOK
<1> DEFINE c == IF q.op = "add" THEN "create" ELSE q.op
<1>2. /\ q.key \in Keys /\ c \in Abstract!Changes
      /\ AbstractOp(p)' = [op |-> c, key |-> q.key]
    BY <1>1, MemAssumption DEF AbstractOp, InChange, Abstract!Changes
<1> HIDE DEF c
<1>3. AbstractOp(p) = None /\ AbstractResult(p)' = AbstractResult(p)
    BY <1>1 DEF AbstractOp, AbstractResult, InChange
<1>4. \A o \in Procs \ {p} : /\ AbstractOp(o)' = AbstractOp(o)
                            /\ AbstractResult(o)' = AbstractResult(o)
    BY <1>1, SameHandler
<1>5. \A o \in Procs : Abstract!Pending(o, q.key) <=> Changing(o, q.key)
    BY PendingIsChanging DEF Abstract!Pending, Changing
<1>6. lone' = [o \in Procs |->
                  IF o = p THEN \A x \in Procs \ {p} : ~ Abstract!Pending(x, q.key)
                  ELSE lone[o] /\ ~ Abstract!Pending(o, q.key)]
    BY <1>5 DEF Begin
<1>7. Abstract!Invoke(p, c, q.key)
    BY <1>2, <1>3, <1>4, <1>6 DEF Abstract!Invoke, HasSchema
<1> QED BY <1>2, <1>7

(* A write of the map, by a change that is over. *)
LEMMA CompleteRefines ==
    ASSUME NEW p \in Procs, NEW k \in Keys, NEW s \in {None} \union Schemas,
           NEW r \in {None} \union Revs, Typing,
           s = None => r = None, s # None => r = s.rev,
           schemas' = [schemas EXCEPT ![k] = s], Return(p, Ok(r)), UNCHANGED <<req, lone>>
    PROVE  Abstract!Complete(p, k, r)
<1>1. /\ pc'[p] = "done" /\ rsp'[p] = Ok(r)
      /\ \A o \in Procs \ {p} : pc'[o] = pc[o] /\ sc'[o] = sc[o] /\ rsp'[o] = rsp[o]
    BY DEF Return, Typing, TypeOK, Replies
<1>2. AbstractOp(p)' = None /\ AbstractResult(p)' = Ok(r)
    BY <1>1 DEF AbstractOp, AbstractResult, InChange
<1>3. \A o \in Procs \ {p} : /\ AbstractOp(o)' = AbstractOp(o)
                            /\ AbstractResult(o)' = AbstractResult(o)
    BY <1>1, SameHandler
<1>4. /\ schemas'[k] = s
      /\ \A x \in Keys \ {k} : schemas'[x] = schemas[x]
    BY DEF Typing, TypeOK
<1>5. [x \in Keys |-> IF HasSchema(x)' THEN schemas'[x].rev ELSE None] =
          [[x \in Keys |-> IF HasSchema(x) THEN schemas[x].rev ELSE None] EXCEPT ![k] = r]
    <2>1. (IF HasSchema(k)' THEN schemas'[k].rev ELSE None) = r
        BY <1>4 DEF HasSchema
    <2>2. \A x \in Keys \ {k} : (IF HasSchema(x)' THEN schemas'[x].rev ELSE None) =
                                   (IF HasSchema(x) THEN schemas[x].rev ELSE None)
        BY <1>4 DEF HasSchema
    <2> QED BY <2>1, <2>2
<1>6. /\ [o \in Procs |-> AbstractOp(o)'] = [[o \in Procs |-> AbstractOp(o)] EXCEPT ![p] = None]
      /\ [o \in Procs |-> AbstractResult(o)'] =
            [[o \in Procs |-> AbstractResult(o)] EXCEPT ![p] = Ok(r)]
    BY <1>2, <1>3
<1> QED BY <1>5, <1>6 DEF Abstract!Complete, Abstract!Succeeded, Ok

(* The writes and removals of the map.  This is where a change must find   *)
(* the schema as its check left it, unless it overlapped with another.     *)
LEMMA WriteRefines ==
    ASSUME NEW p \in Procs, IInv, WriteSchema(p) \/ Remove(p)
    PROVE  Abstract!Next
<1> DEFINE k == req[p].key
<1>1. /\ pc[p] \in InChange /\ k \in Keys /\ Typing /\ UNCHANGED <<req, lone>>
      /\ lone[p] => LoneFinds(p, schemas[k])
    BY MemAssumption DEF WriteSchema, Remove, IInv, Typing, LocalOK, LoneChecks, InChange
<1>2. Abstract!Pending(p, k)
    BY <1>1, PendingIsChanging DEF Abstract!Pending
<1> DEFINE old == [x \in Keys |-> IF HasSchema(x) THEN schemas[x].rev ELSE None]
<1>3. schemas[k] = None => old[k] = None
    BY <1>1 DEF HasSchema
<1>4. schemas[k] # None => old[k] # None /\ old[k] = schemas[k].rev
    BY <1>1, NoneIsNothing DEF HasSchema, Typing, TypeOK
<1> HIDE DEF old
<1>5. CASE WriteSchema(p)
    <2>1. PICK s \in Schemas, r \in Revs : sc[p] = s /\ r = s.rev /\ s # None
        BY <1>1, <1>5, NoneIsNothing DEF WriteSchema, Typing, LocalOK, Schemas
    <2>2. req[p].op \in {"create", "add", "reload"} /\ pc[p] = "write"
        BY <1>1, <1>5 DEF WriteSchema, Typing, LocalOK
    <2>3. Abstract!Complete(p, k, r)
        <3>1. schemas' = [schemas EXCEPT ![k] = s] /\ Return(p, Ok(r))
            BY <1>5, <2>1 DEF WriteSchema
        <3> HIDE DEF k
        <3> QED BY <1>1, <2>1, <3>1, CompleteRefines
    <2>4. CASE req[p].op = "reload"
        <3>1. AbstractOp(p).op = "reload"
            BY <1>1, <2>4 DEF AbstractOp
        <3>2. lone[p] => old[k] # None /\ DOMAIN r \in {DOMAIN old[k], {}}
            BY <1>1, <1>4, <2>1, <2>2, <2>4 DEF LoneFinds
        <3>3. Abstract!Reload(p, k, r)
            BY <1>2, <2>3, <3>1, <3>2 DEF Abstract!Reload, old
        <3> QED BY <1>1, <2>1, <3>3 DEF Abstract!Next
    <2>5. CASE req[p].op \in {"create", "add"}
        <3>1. AbstractOp(p).op = "create"
            BY <1>1, <2>5 DEF AbstractOp
        <3>2. lone[p] => old[k] = None
            BY <1>1, <1>3, <2>5 DEF LoneFinds
        <3>3. Abstract!Create(p, k, r)
            BY <1>2, <2>3, <3>1, <3>2 DEF Abstract!Create, old
        <3> QED BY <1>1, <2>1, <3>3 DEF Abstract!Next
    <2> QED BY <2>2, <2>4, <2>5
<1>6. CASE Remove(p)
    <2>1. req[p].op = "delete"
        BY <1>1, <1>6 DEF Remove, Typing, LocalOK
    <2>2. Abstract!Complete(p, k, None)
        BY <1>1, <1>6, CompleteRefines DEF Remove
    <2>3. AbstractOp(p).op = "delete"
        BY <1>1, <2>1 DEF AbstractOp
    <2>4. lone[p] => old[k] # None
        BY <1>1, <1>4, <2>1 DEF LoneFinds
    <2>5. Abstract!Delete(p, k)
        BY <1>2, <2>2, <2>3, <2>4 DEF Abstract!Delete, old
    <2> QED BY <1>1, <2>5 DEF Abstract!Next
<1> QED BY <1>5, <1>6

(* A lookup answers from the schema it finds. *)
LEMMA LookupRefines ==
    ASSUME NEW p \in Procs, NEW k \in Keys, Typing, HasSchema(k),
           pc[p] \in {"idle", "done"}, pc'[p] \notin InChange,
           AbstractResult(p)' = Ok(schemas[k].rev), UNCHANGED <<schemas, lone>>,
           \A o \in Procs \ {p} : /\ pc'[o] = pc[o] /\ req'[o] = req[o]
                                  /\ sc'[o] = sc[o] /\ rsp'[o] = rsp[o]
    PROVE  Abstract!Read(p, k)
<1>1. AbstractOp(p) = None /\ AbstractOp(p)' = None
    BY DEF AbstractOp, InChange
<1>2. \A o \in Procs \ {p} : /\ AbstractOp(o)' = AbstractOp(o)
                            /\ AbstractResult(o)' = AbstractResult(o)
    BY SameHandler
<1>3. schemas[k].rev # None
    BY NoneIsNothing DEF HasSchema, Typing, TypeOK
<1> DEFINE old == [x \in Keys |-> IF HasSchema(x) THEN schemas[x].rev ELSE None]
<1>4. /\ old[k] = schemas[k].rev
      /\ old = [x \in Keys |-> IF HasSchema(x)' THEN schemas'[x].rev ELSE None]
    BY DEF HasSchema
<1>5. [o \in Procs |-> AbstractOp(o)'] = [o \in Procs |-> AbstractOp(o)]
    BY <1>1, <1>2
<1>6. [o \in Procs |-> AbstractResult(o)'] =
          [[o \in Procs |-> AbstractResult(o)] EXCEPT ![p] = Ok(old[k])]
    BY <1>2, <1>4
<1> HIDE DEF old
<1> QED BY <1>1, <1>3, <1>4, <1>5, <1>6 DEF Abstract!Read, Abstract!Succeeded, Ok, old

(* The requests that change a schema: refused, or begun. *)
LEMMA ArrivalRefines ==
    ASSUME NEW p \in Procs, Typing, CreateSchema(p) \/ ReloadSchema(p) \/ DeleteSchema(p)
    PROVE  Abstract!Next
<1>1. PICK q \in Requests :
          /\ q.op \in {"create", "add", "reload", "delete"}
          /\ pc[p] \in {"idle", "done"} /\ req' = [req EXCEPT ![p] = q]
          /\ \/ Return(p, Error) /\ UNCHANGED lone
             \/ \E l \in {"resolve", "drop"} :
                   Begin(p, q.key) /\ Goto(p, l) /\ UNCHANGED <<rsp, sc>>
    BY DEF CreateSchema, ReloadSchema, DeleteSchema, Start
<1>2. UNCHANGED schemas /\ \A o \in Procs \ {p} : req'[o] = req[o]
    BY <1>1 DEF CreateSchema, ReloadSchema, DeleteSchema, Typing, TypeOK
<1>3. CASE Return(p, Error) /\ UNCHANGED lone
    <2>1. Abstract!Fail(p)
        BY <1>2, <1>3, FailRefines
    <2> QED BY <2>1 DEF Abstract!Next
<1>4. ASSUME NEW l \in {"resolve", "drop"}, Begin(p, q.key), Goto(p, l), UNCHANGED <<rsp, sc>>
      PROVE  Abstract!Next
    <2>1. \E c \in Abstract!Changes, k \in Keys : Abstract!Invoke(p, c, k)
        BY <1>1, <1>2, <1>4, InvokeRefines
    <2> QED BY <2>1 DEF Abstract!Next
<1> QED BY <1>1, <1>3, <1>4

(* Parsing fails, or changes nothing of the abstract store. *)
LEMMA ParseRefines ==
    ASSUME NEW p \in Procs, Typing, ResolveFiles(p) \/ ReadYANGFiles(p)
    PROVE  Abstract!Next \/ UNCHANGED Abstract!vars
<1>1. /\ UNCHANGED <<schemas, req, lone>> /\ pc[p] \in {"resolve", "read"}
      /\ \/ Return(p, Error)
         \/ \E l \in {"read", "write"} : Goto(p, l) /\ UNCHANGED rsp
      /\ \A o \in Procs \ {p} : sc'[o] = sc[o]
    BY DEF ResolveFiles, ReadYANGFiles, Return, Typing, TypeOK
<1>2. CASE Return(p, Error)
    <2>1. Abstract!Fail(p)
        BY <1>1, <1>2, FailRefines
    <2> QED BY <2>1 DEF Abstract!Next
<1>3. ASSUME NEW l \in {"read", "write"}, Goto(p, l), UNCHANGED rsp
      PROVE  UNCHANGED Abstract!vars
    <2>1. pc'[p] = l /\ \A o \in Procs \ {p} : pc'[o] = pc[o]
        BY <1>3 DEF Goto, Typing, TypeOK
    <2>2. AbstractOp(p)' = AbstractOp(p) /\ AbstractResult(p)' = AbstractResult(p)
        BY <1>1, <1>3, <2>1 DEF AbstractOp, AbstractResult, InChange
    <2>3. \A o \in Procs : /\ AbstractOp(o)' = AbstractOp(o)
                           /\ AbstractResult(o)' = AbstractResult(o)
        BY <1>1, <1>3, <2>1, <2>2, SameHandler
    <2> QED BY <1>1, <2>3 DEF Abstract!vars, HasSchema
<1> QED BY <1>1, <1>2, <1>3

(* A lookup answers, finds no schema, or, having found it, works on what   *)
(* it took.                                                                *)
LEMMA ReadRefines ==
    ASSUME NEW p \in Procs, Typing, GetSchema(p) \/ TakeSchema(p) \/ AnswerPath(p)
    PROVE  Abstract!Next \/ UNCHANGED Abstract!vars
<1>1. /\ UNCHANGED <<schemas, lone>>
      /\ \A o \in Procs \ {p} : /\ pc'[o] = pc[o] /\ req'[o] = req[o]
                               /\ sc'[o] = sc[o] /\ rsp'[o] = rsp[o]
    BY DEF GetSchema, TakeSchema, AnswerPath, Return, Goto, Typing, TypeOK
<1>2. CASE AnswerPath(p)
    <2>1. /\ pc[p] = "answer" /\ pc'[p] = "done" /\ req' = req
          /\ rsp'[p] = Ok(sc[p].rev)
        BY <1>2 DEF AnswerPath, Return, Typing, TypeOK
    <2>2. AbstractOp(p)' = AbstractOp(p) /\ AbstractResult(p)' = AbstractResult(p)
        BY <2>1 DEF AbstractOp, AbstractResult, InChange
    <2>3. \A o \in Procs : /\ AbstractOp(o)' = AbstractOp(o)
                           /\ AbstractResult(o)' = AbstractResult(o)
        BY <1>1, <2>2, SameHandler
    <2> QED BY <1>1, <2>3 DEF Abstract!vars, HasSchema
<1>3. CASE GetSchema(p) \/ TakeSchema(p)
    <2>1. PICK q \in Requests :
              /\ q.key \in Keys /\ pc[p] \in {"idle", "done"}
              /\ \/ Return(p, Error)
                 \/ HasSchema(q.key) /\ Return(p, Ok(schemas[q.key].rev))
                 \/ /\ HasSchema(q.key) /\ Goto(p, "answer")
                    /\ sc' = [sc EXCEPT ![p] = schemas[q.key]]
        BY <1>3, MemAssumption DEF GetSchema, TakeSchema, Start
    <2>2. CASE Return(p, Error)
        <3>1. Abstract!Fail(p)
            BY <1>1, <2>2, FailRefines
        <3> QED BY <3>1 DEF Abstract!Next
    <2>3. ASSUME HasSchema(q.key),
                 \/ Return(p, Ok(schemas[q.key].rev))
                 \/ Goto(p, "answer") /\ sc' = [sc EXCEPT ![p] = schemas[q.key]]
          PROVE  Abstract!Next
        <3>1. \/ pc'[p] = "done" /\ rsp'[p] = Ok(schemas[q.key].rev)
              \/ pc'[p] = "answer" /\ sc'[p] = schemas[q.key]
            BY <2>3 DEF Return, Goto, Typing, TypeOK
        <3>2. pc'[p] \notin InChange /\ AbstractResult(p)' = Ok(schemas[q.key].rev)
            BY <3>1 DEF AbstractResult, InChange
        <3>3. Abstract!Read(p, q.key)
            BY <1>1, <2>1, <2>3, <3>2, LookupRefines
        <3> QED BY <2>1, <3>3 DEF Abstract!Next
    <2> QED BY <2>1, <2>2, <2>3
<1> QED BY <1>2, <1>3

(* Every step of the store is a step of SchemaStore, or changes nothing    *)
(* that SchemaStore sees.                                                  *)
LEMMA NextRefines == IInv /\ [Next]_vars => [Abstract!Next]_(Abstract!vars)
<1> SUFFICES ASSUME IInv, [Next]_vars PROVE Abstract!Next \/ UNCHANGED Abstract!vars
    OBVIOUS
<1>1. ASSUME UNCHANGED <<schemas, pc, req, rsp, sc, lone>>
      PROVE  UNCHANGED Abstract!vars
    BY <1>1 DEF Abstract!vars, HasSchema, AbstractOp, AbstractResult
<1>2. CASE UNCHANGED vars
    BY <1>1, <1>2 DEF vars
<1>3. CASE EditFiles
    BY <1>1, <1>3 DEF EditFiles
<1>4. CASE \E p \in Procs : Handler(p)
    BY <1>4, ArrivalRefines, ParseRefines, WriteRefines, ReadRefines DEF Handler, IInv
<1> QED BY <1>2, <1>3, <1>4 DEF Next

(* The in-memory store implements SchemaStore: every request takes effect  *)
(* in one step, readers see whole revisions, and a change that no other    *)
(* overlapped finds the schema as its check left it.                       *)
THEOREM StoreImplementsAbstract == Spec => ImplementsSchemaStore
BY InitRefines, NextRefines, Invariance, PTL DEF Spec, ImplementsSchemaStore, Abstract!Spec

=============================================================================
