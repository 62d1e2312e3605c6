------------------------- MODULE PersistStoreProofs -------------------------
(***************************************************************************)
(* Proofs about PersistStore: for every set of schemas, files, handlers    *)
(* and requests, with every interleaving and every fault.                  *)
(***************************************************************************)
EXTENDS PersistStore, WellFoundedInduction, TLAPS

(* The entries of a revision are entries; the root is among them. *)
LEMMA EntriesOfRev ==
    ASSUME NEW r \in Revs
    PROVE  /\ EntriesOf(r) \subseteq Entries
           /\ Root \in EntriesOf(r)
           /\ DOMAIN r \in SUBSET Files
<1>1. EntriesOf(r) \subseteq Entries
    BY DEF Entries
<1>2. Root \in EntriesOf(r)
    BY DEF EntriesOf
<1>3. DOMAIN r \in SUBSET Files
    BY DEF Revs
<1> QED BY <1>1, <1>2, <1>3

(* None is neither a revision nor a file list. *)
LEMMA NoneIsNothing ==
    /\ None \notin Revs
    /\ None \notin SUBSET Files
    /\ None # Dir
BY DataAssumption

(* A non-empty set of naturals has a least element. *)
LEMMA LeastNatural ==
    ASSUME NEW S \in SUBSET Nat, S # {}
    PROVE  \E n \in S : \A m \in S : n <= m
<1>1. IsWellFoundedOn(OpToRel(<, Nat), Nat)
    BY NatLessThanWellFounded
<1>2. PICK x \in S : \A y \in S : ~ (<<y, x>> \in OpToRel(<, Nat))
    BY <1>1, WFMin
<1>3. \A y \in S : ~ (y < x)
    BY <1>2 DEF OpToRel
<1> QED BY <1>3

(* A set of modules has one with the least name. *)
LEMMA LeastName ==
    ASSUME NEW M \in SUBSET Files, M # {}
    PROVE  \E m \in M : \A n \in M \ {m} : Lex[m] < Lex[n]
<1> DEFINE S == {Lex[m] : m \in M}
<1>1. S \in SUBSET Nat /\ S # {}
    BY DataAssumption
<1>2. PICK i \in S : \A j \in S : i <= j
    BY <1>1, LeastNatural
<1>3. PICK m \in M : i = Lex[m]
    BY <1>2
<1>4. \A n \in M \ {m} : Lex[m] # Lex[n] /\ Lex[m] \in Nat /\ Lex[n] \in Nat
    BY DataAssumption
<1>5. \A n \in M \ {m} : Lex[m] < Lex[n]
    BY <1>2, <1>3, <1>4
<1> QED BY <1>5

(* The order of SortModulesAB singles out a first module, so the module    *)
(* getSchema tries first is one of those it tries, before the others.      *)
LEMMA FirstIsMember ==
    ASSUME NEW M \in SUBSET Files, M # {}
    PROVE  First(M) \in M /\ \A n \in M \ {First(M)} : Before(First(M), n)
<1> DEFINE P == M \ Deprioritized
<1>1. \E m \in M : \A n \in M \ {m} : Before(m, n)
    <2>1. CASE P # {}
        <3>1. PICK m \in P : \A n \in P \ {m} : Lex[m] < Lex[n]
            BY <2>1, LeastName
        <3> QED BY <3>1 DEF Before
    <2>2. CASE P = {}
        <3>1. PICK m \in M : \A n \in M \ {m} : Lex[m] < Lex[n]
            BY LeastName
        <3> QED BY <2>2, <3>1 DEF Before
    <2> QED BY <2>1, <2>2
<1> QED BY <1>1 DEF First

-----------------------------------------------------------------------------
(* Type correctness *)

Reading == {"cache", "root", "modules", "lookup", "put"}

(* What the handlers know at each point of their code. *)
LocalOK ==
    \A p \in Procs :
        /\ pc[p] # "idle" => req[p] \in Requests
        /\ pc[p] = "parse" => /\ src[p] \in {Dir} \union SUBSET Files
                              /\ req[p].op \in {"create", "reload"}
        /\ pc[p] = "recheck" => /\ req[p].op = "reload"
                                /\ sc[p] \in Revs /\ todo[p] = EntriesOf(sc[p])
        /\ pc[p] = "drop" => \/ req[p].op = "delete"
                             \/ /\ req[p].op = "reload"
                                /\ sc[p] \in Revs /\ todo[p] = EntriesOf(sc[p])
        /\ pc[p] = "add" => /\ req[p].op \in {"create", "reload"}
                            /\ sc[p] \in Revs /\ todo[p] \subseteq EntriesOf(sc[p])
        /\ pc[p] \in Reading => req[p].op = "get"

Typing == TypeOK /\ LocalOK

(* The replies the handlers build are replies. *)
LEMMA RepliesTyped ==
    /\ Error \in Replies
    /\ \A r \in Revs \union {None} : Done(r) \in Replies
    /\ \A r \in Revs \union {None}, e \in Entries \union {None}, d \in BOOLEAN :
          Element(r, e, d) \in Replies
BY DEF Error, Done, Element, Replies

(* The initial states are well typed. *)
LEMMA InitTyping == Init => Typing
<1> SUFFICES ASSUME Init PROVE Typing
    OBVIOUS
<1>1. TypeOK
    BY DataAssumption, RepliesTyped DEF Init, TypeOK, InWindow
<1>2. LocalOK
    BY DEF Init, LocalOK, Reading
<1> QED BY <1>1, <1>2 DEF Typing

(* Returning keeps the handler's own variables typed. *)
LEMMA ReturnTyping ==
    ASSUME NEW p \in Procs, NEW r \in Replies, Return(p, r), Typing
    PROVE  /\ pc' \in [Procs -> InWindow \union
                 {"idle", "done", "cache", "root", "modules", "lookup", "put"}]
           /\ rsp' \in [Procs -> Replies]
           /\ src' \in [Procs -> {Dir, None} \union SUBSET Files]
           /\ sc' \in [Procs -> Revs \union {None}]
           /\ todo' \in [Procs -> SUBSET Entries]
           /\ mods' \in [Procs -> SUBSET Files]
           /\ pc'[p] = "done"
           /\ \A o \in Procs \ {p} : /\ pc'[o] = pc[o] /\ src'[o] = src[o]
                                     /\ sc'[o] = sc[o] /\ todo'[o] = todo[o]
BY DEF Return, Typing, TypeOK

(* A handler that returned knows nothing of its request but the request    *)
(* itself, and the others know what they knew.                             *)
LEMMA ReturnLocal ==
    ASSUME NEW p \in Procs, NEW r \in Replies, Return(p, r), Typing,
           \/ pc[p] # "idle" /\ req' = req
           \/ \E q \in Requests : req' = [req EXCEPT ![p] = q]
    PROVE  LocalOK'
<1>1. req'[p] \in Requests /\ \A o \in Procs \ {p} : req'[o] = req[o]
    BY DEF Typing, TypeOK, LocalOK, Reading
<1>2. /\ pc'[p] = "done"
      /\ \A o \in Procs \ {p} : /\ pc'[o] = pc[o] /\ src'[o] = src[o]
                                /\ sc'[o] = sc[o] /\ todo'[o] = todo[o]
    BY ReturnTyping
<1> QED BY <1>1, <1>2 DEF Typing, LocalOK, Reading

(* A parse, failed or not, keeps the types: its result is a revision. *)
LEMMA NewSchemaTyping ==
    ASSUME NEW p \in Procs, NewSchema(p), Typing
    PROVE  Typing'
<1> DEFINE F == Resolve(src[p])
           r == [f \in F |-> disk[f]]
<1>1. pc[p] = "parse" /\ F \in SUBSET Files
    BY DEF NewSchema, Typing, LocalOK, Reading, Resolve
<1>2. UNCHANGED <<disk, db, cache, req, history>>
    BY DEF NewSchema
<1>3. CASE Return(p, Error)
    <2>1. TypeOK'
        BY <1>2, <1>3, RepliesTyped, ReturnTyping DEF Typing, TypeOK, db, history
    <2>2. LocalOK'
        BY <1>1, <1>2, <1>3, RepliesTyped, ReturnLocal
    <2> QED BY <2>1, <2>2 DEF Typing
<1>4. CASE /\ Parses(F)
           /\ sc' = [sc EXCEPT ![p] = r]
           /\ todo' = [todo EXCEPT ![p] = EntriesOf(r)]
           /\ Goto(p, IF req[p].op = "reload" THEN "recheck" ELSE "add")
           /\ UNCHANGED <<rsp, src, mods>>
    <2>1. r \in Revs
        BY <1>1, <1>4 DEF Parses, Revs
    <2>2. EntriesOf(r) \subseteq Entries
        BY <2>1, EntriesOfRev
    <2> HIDE DEF r, F
    <2>3. TypeOK'
        BY <1>2, <1>4, <2>1, <2>2 DEF Typing, TypeOK, db, history, Goto, InWindow
    <2>4. LocalOK'
        BY <1>1, <1>2, <1>4, <2>1 DEF Typing, TypeOK, LocalOK, Reading, Goto
    <2> QED BY <2>3, <2>4 DEF Typing
<1> QED BY <1>3, <1>4 DEF NewSchema

(* The transactions of AddSchema, and their failure, keep the types. *)
LEMMA CommitTyping ==
    ASSUME NEW p \in Procs, CommitChunk(p) \/ CommitLast(p) \/ CommitFails(p), Typing
    PROVE  Typing'
<1>1. /\ pc[p] = "add" /\ sc[p] \in Revs /\ todo[p] \subseteq EntriesOf(sc[p])
      /\ req[p] \in Requests /\ req[p].key \in Keys /\ req[p].op \in {"create", "reload"}
    BY RequestAssumption DEF CommitChunk, CommitLast, CommitFails, Typing, LocalOK, Reading
<1>2. DOMAIN sc[p] \in SUBSET Files
    BY <1>1, EntriesOfRev
<1>3. ASSUME NEW S, Store(p, S)
      PROVE  objects' \in [Keys -> [Entries -> Revs \union {None}]]
    BY <1>1, <1>3 DEF Store, Typing, TypeOK
<1>4. ASSUME NEW K, Disturb(p, K)
      PROVE  quiet' \in [Procs -> BOOLEAN]
    BY <1>4 DEF Disturb, Typing, TypeOK
<1>5. CASE CommitChunk(p)
    <2>1. PICK S \in BatchPrefixes(todo[p]) :
              Store(p, S) /\ todo' = [todo EXCEPT ![p] = @ \ S]
        BY <1>5 DEF CommitChunk
    <2>2. TypeOK'
        BY <1>3, <1>4, <1>5, <2>1 DEF CommitChunk, Typing, TypeOK
    <2>3. LocalOK'
        BY <1>1, <1>5, <2>1 DEF CommitChunk, Typing, TypeOK, LocalOK, Reading
    <2> QED BY <2>2, <2>3 DEF Typing
<1>6. CASE CommitLast(p)
    <2>1. Done(sc[p]) \in Replies
        BY <1>1, RepliesTyped
    <2>2. TypeOK'
        BY <1>2, <1>3, <1>4, <1>6, <2>1, ReturnTyping DEF CommitLast, Typing, TypeOK
    <2>3. LocalOK'
        BY <1>1, <1>6, <2>1, ReturnLocal DEF CommitLast
    <2> QED BY <2>2, <2>3 DEF Typing
<1>7. CASE CommitFails(p)
    <2>1. TypeOK'
        BY <1>1, <1>7, RepliesTyped, ReturnTyping DEF CommitFails, Typing, TypeOK, db, Taints
    <2>2. LocalOK'
        BY <1>1, <1>7, RepliesTyped, ReturnLocal DEF CommitFails
    <2> QED BY <2>1, <2>2 DEF Typing
<1> QED BY <1>5, <1>6, <1>7

(* Validation and existence check of DeleteSchema keep the types. *)
LEMMA CheckedDeleteTyping ==
    ASSUME NEW p \in Procs, NEW k, CheckedDelete(p, k), Typing, UNCHANGED <<disk, db, cache>>,
           taint' \in [Keys -> SUBSET Taints], dropped' = dropped,
           quiet' \in [Procs -> BOOLEAN],
           NEW q \in Requests, req' = [req EXCEPT ![p] = q],
           \/ q.op = "delete"
           \/ q.op = "reload" /\ sc[p] \in Revs /\ todo[p] = EntriesOf(sc[p])
    PROVE  Typing'
<1>1. CASE Goto(p, "drop") /\ UNCHANGED <<rsp, local>>
    <2>1. TypeOK'
        BY <1>1 DEF Goto, local, db, Typing, TypeOK, InWindow
    <2>2. LocalOK'
        BY <1>1 DEF Goto, local, Typing, TypeOK, LocalOK, Reading
    <2> QED BY <2>1, <2>2 DEF Typing
<1>2. CASE Return(p, Error)
    <2>1. TypeOK'
        BY <1>2, RepliesTyped, ReturnTyping DEF db, Typing, TypeOK
    <2>2. LocalOK'
        BY <1>2, RepliesTyped, ReturnLocal
    <2> QED BY <2>1, <2>2 DEF Typing
<1> QED BY <1>1, <1>2 DEF CheckedDelete

(* The histories an arriving request touches stay typed. *)
LEMMA ArriveTyping ==
    ASSUME NEW p \in Procs, NEW q \in Requests, Typing, Arrive(p, q)
    PROVE  quiet' \in [Procs -> BOOLEAN]
BY DEF Arrive, Typing, TypeOK, OtherMutator, Mutating

(* Noting a contended change keeps the taints typed. *)
LEMMA ContendTyping ==
    ASSUME NEW p \in Procs, NEW k \in Keys, Typing, Contend(p, k) \/ UNCHANGED taint
    PROVE  taint' \in [Keys -> SUBSET Taints]
BY DEF Contend, Typing, TypeOK, Taints

(* The first half of DeleteSchema keeps the types, as a request and as a   *)
(* step of ReloadSchema.                                                   *)
LEMMA DeleteTyping ==
    ASSUME NEW p \in Procs, DeleteSchema(p) \/ ReloadDeletes(p), Typing
    PROVE  Typing'
<1>1. CASE DeleteSchema(p)
    <2>1. PICK q \in Requests :
              /\ q.op = "delete" /\ req' = [req EXCEPT ![p] = q]
              /\ Arrive(p, q) /\ CheckedDelete(p, q.key)
              /\ Contend(p, q.key) \/ UNCHANGED taint
        BY <1>1 DEF DeleteSchema, Start
    <2>2. q.key \in Keys
        BY RequestAssumption
    <2> QED BY <1>1, <2>1, <2>2, ArriveTyping, ContendTyping, CheckedDeleteTyping
            DEF DeleteSchema
<1>2. CASE ReloadDeletes(p)
    <2>1. /\ req[p] \in Requests /\ req' = [req EXCEPT ![p] = req[p]]
          /\ req[p].op = "reload" /\ sc[p] \in Revs /\ todo[p] = EntriesOf(sc[p])
        BY <1>2 DEF ReloadDeletes, Typing, TypeOK, LocalOK, Reading
    <2>2. taint' \in [Keys -> SUBSET Taints] /\ quiet' \in [Procs -> BOOLEAN]
        BY <1>2 DEF ReloadDeletes, history, Typing, TypeOK
    <2> QED BY <1>2, <2>1, <2>2, CheckedDeleteTyping DEF ReloadDeletes, history
<1> QED BY <1>1, <1>2

(* DropPrefix keeps the types, whole or half done. *)
LEMMA DropTyping ==
    ASSUME NEW p \in Procs, Drop(p) \/ DropFails(p), Typing
    PROVE  Typing'
<1> DEFINE k == req[p].key
<1>1. /\ pc[p] = "drop" /\ req[p] \in Requests /\ k \in Keys /\ Extends[k] \in SUBSET Keys
      /\ \/ req[p].op = "delete"
         \/ req[p].op = "reload" /\ sc[p] \in Revs /\ todo[p] = EntriesOf(sc[p])
    BY RequestAssumption, KeysAssumption DEF Drop, DropFails, Typing, LocalOK, Reading
<1>2. ASSUME NEW K, Disturb(p, K)
      PROVE  quiet' \in [Procs -> BOOLEAN]
    BY <1>2 DEF Disturb, Typing, TypeOK
<1>3. CASE Drop(p)
    <2>1. /\ schemas' \in [Keys -> {None} \union SUBSET Files]
          /\ objects' \in [Keys -> [Entries -> Revs \union {None}]]
        BY <1>3 DEF Drop, Typing, TypeOK
    <2>2. Dropped(p, k, Extends[k])
        BY <1>3 DEF Drop, RecordsUnder
    <2>3. taint' \in [Keys -> SUBSET Taints]
        BY <2>2 DEF Dropped, Typing, TypeOK, Taints
    <2>4. dropped' \in SUBSET Keys /\ quiet' \in [Procs -> BOOLEAN]
        BY <1>1, <1>2, <2>2 DEF Dropped, Typing, TypeOK
    <2>5. CASE Return(p, Done(None))
        <3>1. TypeOK'
            BY <1>3, <2>1, <2>3, <2>4, <2>5, RepliesTyped, ReturnTyping DEF Drop, Typing, TypeOK
        <3>2. LocalOK'
            BY <1>1, <1>3, <2>5, RepliesTyped, ReturnLocal DEF Drop
        <3> QED BY <3>1, <3>2 DEF Typing
    <2>6. CASE req[p].op # "delete" /\ Goto(p, "add") /\ UNCHANGED <<rsp, local>>
        <3>1. TypeOK'
            BY <1>3, <2>1, <2>3, <2>4, <2>6 DEF Drop, Goto, local, Typing, TypeOK, InWindow
        <3>2. LocalOK'
            BY <1>1, <1>3, <2>6 DEF Drop, Goto, local, Typing, TypeOK, LocalOK, Reading
        <3> QED BY <3>1, <3>2 DEF Typing
    <2> QED BY <1>3, <2>5, <2>6 DEF Drop
<1>4. CASE DropFails(p)
    <2>1. PICK K \in SUBSET Extends[k], E \in SUBSET StoredEntries(k) :
          /\ schemas' = [x \in Keys |-> IF x \in K THEN None ELSE schemas[x]]
          /\ objects' = [objects EXCEPT ![k] =
                            [e \in Entries |-> IF e \in E THEN None ELSE @[e]]]
          /\ taint' = [x \in Keys |->
                IF x = k THEN taint[x] \union {"halfDropped"}
                ELSE taint[x] \union (IF x \in K /\ HasSchema(x) THEN {"orphans"} ELSE {})]
          /\ dropped' = dropped \union K \union {k}
          /\ Disturb(p, K \union {k})
        BY <1>4 DEF DropFails, RecordsUnder
    <2>2. /\ schemas' \in [Keys -> {None} \union SUBSET Files]
          /\ objects' \in [Keys -> [Entries -> Revs \union {None}]]
        BY <1>1, <2>1 DEF Typing, TypeOK
    <2>3. taint' \in [Keys -> SUBSET Taints]
        BY <2>1 DEF Typing, TypeOK, Taints
    <2>4. dropped' \in SUBSET Keys /\ quiet' \in [Procs -> BOOLEAN]
        BY <1>1, <1>2, <2>1 DEF Typing, TypeOK
    <2>5. TypeOK'
        BY <1>4, <2>2, <2>3, <2>4, RepliesTyped, ReturnTyping DEF DropFails, Typing, TypeOK
    <2>6. LocalOK'
        BY <1>1, <1>4, RepliesTyped, ReturnLocal DEF DropFails
    <2> QED BY <2>5, <2>6 DEF Typing
<1> QED BY <1>3, <1>4

(* The arrival of a create, a reload or a get keeps the types. *)
LEMMA ArrivalTyping ==
    ASSUME NEW p \in Procs, CreateSchema(p) \/ ReloadSchema(p) \/ GetSchema(p), Typing
    PROVE  Typing'
<1>1. PICK q \in Requests :
          /\ q.op \in {"create", "reload", "get"}
          /\ req' = [req EXCEPT ![p] = q]
          /\ Arrive(p, q)
          /\ Contend(p, q.key) \/ UNCHANGED taint
          /\ \/ Return(p, Error)
             \/ /\ Goto(p, "parse") /\ q.op \in {"create", "reload"}
                /\ \E F \in {Dir} \union SUBSET Files : src' = [src EXCEPT ![p] = F]
                /\ UNCHANGED <<rsp, sc, todo, mods>>
             \/ q.op = "get" /\ Goto(p, "cache") /\ UNCHANGED <<rsp, local>>
    <2>1. CASE CreateSchema(p)
        BY <2>1, RequestAssumption DEF CreateSchema, Start
    <2>2. CASE ReloadSchema(p)
        <3>1. PICK q \in Start(p, "reload") :
                  /\ req' = [req EXCEPT ![p] = q]
                  /\ Arrive(p, q)
                  /\ IF schemas[q.key] # None
                     THEN /\ Goto(p, "parse")
                          /\ src' = [src EXCEPT ![p] = schemas[q.key]]
                          /\ Contend(p, q.key)
                          /\ UNCHANGED <<rsp, sc, todo, mods>>
                     ELSE Return(p, Error) /\ UNCHANGED taint
            BY <2>2 DEF ReloadSchema, GetSchemaDetails
        <3>2. q \in Requests /\ q.op = "reload" /\ q.key \in Keys
            BY RequestAssumption DEF Start
        <3>3. schemas[q.key] # None => schemas[q.key] \in SUBSET Files
            BY <3>2 DEF Typing, TypeOK
        <3> QED BY <3>1, <3>2, <3>3
    <2>3. CASE GetSchema(p)
        BY <2>3 DEF GetSchema, Start
    <2> QED BY <2>1, <2>2, <2>3
<1>2. UNCHANGED <<disk, db, cache, dropped>>
    BY DEF CreateSchema, ReloadSchema, GetSchema
<1>3. taint' \in [Keys -> SUBSET Taints] /\ quiet' \in [Procs -> BOOLEAN]
    BY <1>1, RequestAssumption, ArriveTyping, ContendTyping
<1>4. CASE Return(p, Error)
    <2>1. TypeOK'
        BY <1>1, <1>2, <1>3, <1>4, RepliesTyped, ReturnTyping DEF db, Typing, TypeOK
    <2>2. LocalOK'
        BY <1>1, <1>4, RepliesTyped, ReturnLocal
    <2> QED BY <2>1, <2>2 DEF Typing
<1>5. CASE /\ Goto(p, "parse") /\ q.op \in {"create", "reload"}
           /\ \E F \in {Dir} \union SUBSET Files : src' = [src EXCEPT ![p] = F]
           /\ UNCHANGED <<rsp, sc, todo, mods>>
    <2>1. TypeOK'
        BY <1>1, <1>2, <1>3, <1>5 DEF db, Goto, Typing, TypeOK, InWindow
    <2>2. LocalOK'
        BY <1>1, <1>2, <1>5 DEF Goto, Typing, TypeOK, LocalOK, Reading
    <2> QED BY <2>1, <2>2 DEF Typing
<1>6. CASE q.op = "get" /\ Goto(p, "cache") /\ UNCHANGED <<rsp, local>>
    <2>1. TypeOK'
        BY <1>1, <1>2, <1>3, <1>6 DEF db, Goto, local, Typing, TypeOK
    <2>2. LocalOK'
        BY <1>1, <1>2, <1>6 DEF Goto, local, Typing, TypeOK, LocalOK, Reading
    <2> QED BY <2>1, <2>2 DEF Typing
<1> QED BY <1>1, <1>4, <1>5, <1>6

(* The reads of getSchema keep the types: the modules it collects are      *)
(* files, what it answers and caches are replies.                          *)
LEMMA ReadTyping ==
    ASSUME NEW p \in Procs, Typing,
           CacheGet(p) \/ ReadRoot(p) \/ GetModules(p) \/ Lookup(p) \/ CacheSet(p)
    PROVE  Typing'
<1> DEFINE k == req[p].key
<1>1. /\ pc[p] # "idle" /\ req[p] \in Requests /\ k \in Keys
      /\ req[p].op = "get" /\ UNCHANGED <<disk, db, req, history>>
    BY RequestAssumption
       DEF CacheGet, ReadRoot, GetModules, Lookup, CacheSet, Typing, LocalOK, Reading
<1>2. ASSUME NEW r \in Replies, Return(p, r),
             cache' \in [Keys \X PathRequests -> Replies \union {None}]
      PROVE  Typing'
    <2>1. TypeOK'
        BY <1>1, <1>2, ReturnTyping DEF db, history, Typing, TypeOK
    <2>2. LocalOK'
        BY <1>1, <1>2, ReturnLocal
    <2> QED BY <2>1, <2>2 DEF Typing
<1>3. ASSUME NEW l \in {"root", "modules", "lookup", "put"}, Goto(p, l),
             UNCHANGED <<cache, src, sc, todo>>,
             mods' \in [Procs -> SUBSET Files], rsp' \in [Procs -> Replies]
      PROVE  Typing'
    <2>1. TypeOK'
        BY <1>1, <1>3 DEF Goto, db, history, Typing, TypeOK
    <2>2. LocalOK'
        BY <1>1, <1>3 DEF Goto, Typing, TypeOK, LocalOK, Reading
    <2> QED BY <2>1, <2>2 DEF Typing
<1>4. Root \in Entries => objects[k][Root] \in Revs \union {None}
    BY <1>1 DEF Typing, TypeOK
<1>5. Root \in Entries
    <2>1. [f \in {} |-> None] \in Revs
        BY DEF Revs
    <2> QED BY <2>1, EntriesOfRev
<1>6. CASE CacheGet(p)
    <2> DEFINE hit == cache[CacheKey(req[p])]
               l == IF req[p].path = <<>> THEN "root"
                    ELSE IF req[p].mod = NoModule THEN "modules" ELSE "lookup"
               M == IF req[p].mod = NoModule THEN {} ELSE {req[p].mod}
    <2>1. req[p].op = "get" /\ cache' = cache
        BY <1>6 DEF CacheGet, Typing, LocalOK, Reading
    <2>2. M \in SUBSET Files /\ req[p].desc \in BOOLEAN
        BY <1>1, <2>1, RequestAssumption
    <2>3. CacheKey(req[p]) \in Keys \X PathRequests
        BY <1>1, <2>1 DEF CacheKey, PathRequests
    <2>4. CASE hit # None /\ Return(p, Modified(hit, req[p]))
        <3>1. hit \in Replies
            BY <2>3, <2>4 DEF Typing, TypeOK
        <3>3. hit.rev \in Revs \union {None} /\ hit.entry \in Entries \union {None} /\ hit.desc \in BOOLEAN
            BY <3>1 DEF Replies
        <3> DEFINE d == hit.desc /\ (req[p].desc \/ ~ CacheWithDescription)
        <3>2. d \in BOOLEAN
            BY <2>2, <3>3, DataAssumption
        <3> HIDE DEF d
        <3>4. Element(hit.rev, hit.entry, d) \in Replies
            BY <3>2, <3>3, RepliesTyped
        <3>5. Modified(hit, req[p]) \in Replies
            BY <3>4 DEF Modified, d
        <3> QED BY <1>2, <2>1, <2>4, <3>5 DEF Typing, TypeOK
    <2>5. CASE Goto(p, l) /\ mods' = [mods EXCEPT ![p] = M] /\ UNCHANGED <<rsp, src, sc, todo>>
        <3>1. mods' \in [Procs -> SUBSET Files] /\ rsp' \in [Procs -> Replies]
            BY <2>2, <2>5 DEF Typing, TypeOK
        <3>2. l \in {"root", "modules", "lookup", "put"}
            OBVIOUS
        <3> HIDE DEF l, M
        <3> QED BY <1>3, <2>1, <2>5, <3>1, <3>2
    <2> QED BY <1>6, <2>4, <2>5 DEF CacheGet
<1>7. CASE ReadRoot(p)
    <2> DEFINE r == objects[k][Root]
               a == IF r = None THEN Error ELSE Element(r, Root, TRUE)
    <2>1. a \in Replies
        BY <1>4, <1>5, RepliesTyped
    <2>2. Return(p, a) /\ cache' = cache
        BY <1>7 DEF ReadRoot
    <2> HIDE DEF a
    <2> QED BY <1>2, <2>1, <2>2 DEF Typing, TypeOK
<1>8. CASE GetModules(p)
    <2> DEFINE r == objects[k][Root]
    <2>1. cache' = cache
        BY <1>8 DEF GetModules
    <2>2. CASE Return(p, Error)
        BY <1>2, <2>1, <2>2, RepliesTyped DEF Typing, TypeOK
    <2>3. CASE /\ r # None
               /\ mods' = [mods EXCEPT ![p] = DOMAIN r]
               /\ Goto(p, "lookup")
               /\ UNCHANGED <<rsp, src, sc, todo>>
        <3>1. DOMAIN r \in SUBSET Files
            BY <1>4, <1>5, <2>3, EntriesOfRev
        <3>2. mods' \in [Procs -> SUBSET Files] /\ rsp' \in [Procs -> Replies]
            BY <2>3, <3>1 DEF Typing, TypeOK
        <3> QED BY <1>3, <2>1, <2>3, <3>2
    <2> QED BY <1>8, <2>2, <2>3 DEF GetModules
<1>9. CASE Lookup(p)
    <2> DEFINE M == Holders(k, mods[p], req[p].path)
               e == EntryKey(First(M), req[p].path)
               answer == Element(objects[k][e], e, TRUE)
    <2>1. cache' = cache
        BY <1>9 DEF Lookup
    <2>2. M # {} => answer \in Replies
        <3> SUFFICES ASSUME M # {} PROVE answer \in Replies
            OBVIOUS
        <3>1. M \in SUBSET Files
            BY DEF Holders, Typing, TypeOK
        <3>2. First(M) \in M
            BY <3>1, FirstIsMember
        <3>3. e \in Entries
            BY <3>2 DEF Holders, StoredEntries
        <3>4. objects[k][e] \in Revs \union {None}
            BY <1>1, <3>3 DEF Typing, TypeOK
        <3> HIDE DEF e
        <3> QED BY <3>3, <3>4, RepliesTyped
    <2>3. CASE Return(p, Error)
        BY <1>2, <2>1, <2>3, RepliesTyped DEF Typing, TypeOK
    <2>4. CASE M # {} /\ Return(p, answer)
        <3> HIDE DEF M, answer
        <3> QED BY <1>2, <2>1, <2>2, <2>4 DEF Typing, TypeOK
    <2>5. CASE M # {} /\ rsp' = [rsp EXCEPT ![p] = answer] /\ Goto(p, "put") /\ UNCHANGED local
        <3> HIDE DEF M, answer
        <3>1. mods' \in [Procs -> SUBSET Files] /\ rsp' \in [Procs -> Replies]
            BY <2>2, <2>5 DEF Typing, TypeOK, local
        <3> QED BY <1>3, <2>1, <2>5, <3>1 DEF local
    <2> QED BY <1>9, <2>3, <2>4, <2>5 DEF Lookup
<1>10. CASE CacheSet(p)
    <2>1. rsp[p] \in Replies
        BY DEF Typing, TypeOK
    <2>2. cache' \in [Keys \X PathRequests -> Replies \union {None}]
        BY <1>10, <2>1 DEF CacheSet, Typing, TypeOK
    <2> QED BY <1>2, <1>10, <2>1, <2>2 DEF CacheSet
<1> QED BY <1>6, <1>7, <1>8, <1>9, <1>10

(* Eviction, edits of the files and a crash keep the types. *)
LEMMA EnvironmentTyping ==
    ASSUME Evict \/ EditFiles \/ Crash, Typing
    PROVE  Typing'
<1>1. CASE Evict
    <2>1. TypeOK'
        BY <1>1 DEF Evict, db, local, history, Typing, TypeOK
    <2>2. LocalOK'
        BY <1>1 DEF Evict, local, Typing, LocalOK, Reading
    <2> QED BY <2>1, <2>2 DEF Typing
<1>2. CASE EditFiles
    <2>1. TypeOK'
        BY <1>2, DataAssumption DEF EditFiles, db, local, history, Typing, TypeOK
    <2>2. LocalOK'
        BY <1>2 DEF EditFiles, local, Typing, LocalOK, Reading
    <2> QED BY <2>1, <2>2 DEF Typing
<1>3. CASE Crash
    <2>1. TypeOK'
        BY <1>3, RepliesTyped DEF Crash, db, Typing, TypeOK, InWindow, Taints
    <2>2. LocalOK'
        BY <1>3 DEF Crash, LocalOK, Reading
    <2> QED BY <2>1, <2>2 DEF Typing
<1> QED BY <1>1, <1>2, <1>3

(* Every step keeps the types. *)
LEMMA NextTyping == Typing /\ [Next]_vars => Typing'
<1> SUFFICES ASSUME Typing, [Next]_vars PROVE Typing'
    OBVIOUS
<1>1. CASE UNCHANGED vars
    BY <1>1 DEF vars, Typing, TypeOK, LocalOK, Reading
<1>2. CASE \E p \in Procs : Handler(p) \/ Arrival(p)
    BY <1>2, NewSchemaTyping, CommitTyping, DeleteTyping, DropTyping, ArrivalTyping, ReadTyping
       DEF Handler, Arrival
<1>3. CASE Evict \/ EditFiles \/ Crash
    BY <1>3, EnvironmentTyping
<1> QED BY <1>1, <1>2, <1>3 DEF Next

(* Every variable of the store and of its handlers keeps its type, in      *)
(* every interleaving of the handlers and with every fault.                *)
THEOREM TypeCorrect == Spec => []TypeOK
<1>1. Spec => []Typing
    BY InitTyping, NextTyping, PTL DEF Spec
<1>2. Typing => TypeOK
    BY DEF Typing
<1> QED BY <1>1, <1>2, PTL

-----------------------------------------------------------------------------
(* The inductive invariant.  RecordedIsComplete and StoredExactly speak of *)
(* schemas at rest; what carries them through a change is the following.   *)

(* Two handlers changing one schema at a time have been noticed. *)
Contention ==
    \A p, o \in Procs :
        p # o /\ pc[p] \in InWindow /\ pc[o] \in InWindow /\ req[p].key = req[o].key
            => "contended" \in taint[req[p].key]

(* A schema about to be created, or being written, has no record yet. *)
Pending ==
    \A p \in Procs :
        /\ pc[p] = "add" \/ (pc[p] = "parse" /\ req[p].op = "create")
        /\ "contended" \notin taint[req[p].key]
        => schemas[req[p].key] = None

(* What a batch has committed so far is in the database... *)
Progress ==
    \A p \in Procs :
        pc[p] = "add" /\ "contended" \notin taint[req[p].key]
            => \A e \in EntriesOf(sc[p]) \ todo[p] : objects[req[p].key][e] = sc[p]

(* ... and nothing else is. *)
ExactProgress ==
    \A p \in Procs :
        pc[p] = "add" /\ taint[req[p].key] = {}
            => \A e \in Entries : objects[req[p].key][e] =
                  IF e \in EntriesOf(sc[p]) \ todo[p] THEN sc[p] ELSE None

IInv == /\ Typing /\ Contention /\ Pending /\ Progress /\ ExactProgress
        /\ RecordedIsComplete /\ StoredExactly

(* The inductive invariant holds of the empty database. *)
LEMMA InitIInv == Init => IInv
<1> SUFFICES ASSUME Init PROVE IInv
    OBVIOUS
<1>1. Typing
    BY InitTyping
<1>2. Contention /\ Pending /\ Progress /\ ExactProgress
    BY DEF Init, Contention, Pending, Progress, ExactProgress, InWindow
<1>3. RecordedIsComplete
    BY DEF Init, RecordedIsComplete, HasSchema
<1>4. StoredExactly
    BY DEF Init, StoredExactly, Empty
<1> QED BY <1>1, <1>2, <1>3, <1>4 DEF IInv

(* A step that leaves the database alone, forgives no schema, and lets no  *)
(* handler begin a change or stop writing.                                 *)
LEMMA NoWrite ==
    ASSUME IInv, Typing', UNCHANGED db,
           \A k \in Keys : taint[k] \subseteq taint'[k],
           \A p \in Procs :
               /\ pc'[p] \in InWindow => /\ pc[p] \in InWindow /\ req'[p] = req[p]
                                         /\ sc'[p] = sc[p] \/ pc'[p] # "add"
                                         /\ todo'[p] = todo[p] \/ pc'[p] # "add"
               /\ pc'[p] = "parse" => pc[p] = "parse"
               /\ pc[p] = "add" <=> pc'[p] = "add"
    PROVE  IInv'
<1>1. \A p \in Procs : pc'[p] \in InWindow => req[p].key \in Keys
    BY RequestAssumption DEF IInv, Typing, LocalOK, InWindow
<1>2. Contention'
    BY <1>1 DEF IInv, Contention
<1>3. Pending'
    BY <1>1 DEF IInv, Pending, InWindow, db
<1>4. Progress'
    BY <1>1 DEF IInv, Progress, InWindow, db
<1>5. ExactProgress'
    BY <1>1 DEF IInv, ExactProgress, InWindow, db
<1>6. RecordedIsComplete'
    BY DEF IInv, RecordedIsComplete, HasSchema, Complete, db
<1>7. StoredExactly'
    <2> SUFFICES ASSUME NEW k \in Keys, taint'[k] = {}, \A p \in Procs : ~ Adding(p, k)'
                 PROVE  (Empty(k) \/ Exact(k, objects[k][Root]))'
        BY DEF StoredExactly
    <2>1. taint[k] = {} /\ \A p \in Procs : ~ Adding(p, k)
        BY DEF Adding, InWindow
    <2>2. Empty(k) \/ Exact(k, objects[k][Root])
        BY <2>1 DEF IInv, StoredExactly
    <2> QED BY <2>2 DEF Empty, Exact, Complete, db
<1> QED BY <1>2, <1>3, <1>4, <1>5, <1>6, <1>7 DEF IInv

(* The reads of getSchema preserve the inductive invariant. *)
LEMMA ReadIInv ==
    ASSUME NEW p \in Procs, IInv,
           CacheGet(p) \/ ReadRoot(p) \/ GetModules(p) \/ Lookup(p) \/ CacheSet(p)
           \/ ReloadDeletes(p)
    PROVE  IInv'
<1>1. Typing'
    BY ReadTyping, DeleteTyping DEF IInv
<1>2. UNCHANGED <<db, req, taint>>
    BY DEF CacheGet, ReadRoot, GetModules, Lookup, CacheSet, ReloadDeletes, history
<1>3. /\ pc[p] # "add" /\ pc[p] # "parse"
      /\ \/ \E l \in Reading \union {"done"} : pc' = [pc EXCEPT ![p] = l]
         \/ pc[p] = "recheck" /\ pc' = [pc EXCEPT ![p] = "drop"]
    <2>1. CASE CacheGet(p)
        BY <2>1 DEF CacheGet, Return, Goto, Reading
    <2>2. CASE ReadRoot(p)
        BY <2>2 DEF ReadRoot, Return, Goto, Reading
    <2>3. CASE GetModules(p)
        BY <2>3 DEF GetModules, Return, Goto, Reading
    <2>4. CASE Lookup(p)
        BY <2>4 DEF Lookup, Return, Goto, Reading
    <2>5. CASE CacheSet(p)
        BY <2>5 DEF CacheSet, Return, Goto, Reading
    <2>6. CASE ReloadDeletes(p)
        BY <2>6 DEF ReloadDeletes, CheckedDelete, Return, Goto, Reading
    <2> QED BY <2>1, <2>2, <2>3, <2>4, <2>5, <2>6
<1>4. \A o \in Procs \ {p} : sc'[o] = sc[o] /\ todo'[o] = todo[o]
    BY DEF CacheGet, ReadRoot, GetModules, Lookup, CacheSet, ReloadDeletes, CheckedDelete,
           Return, local, IInv, Typing, TypeOK
<1>5. \A o \in Procs \ {p} : pc'[o] = pc[o]
    BY <1>3 DEF IInv, Typing, TypeOK
<1>6. /\ pc'[p] \notin {"add", "parse"}
      /\ pc'[p] \in InWindow => pc[p] \in InWindow
    BY <1>3 DEF IInv, Typing, TypeOK, Reading, InWindow
<1> QED BY <1>1, <1>2, <1>3, <1>4, <1>5, <1>6, NoWrite

(* Eviction and edits of the files preserve the inductive invariant: what  *)
(* was parsed is not read again.                                           *)
LEMMA EvictEditIInv ==
    ASSUME IInv, Evict \/ EditFiles
    PROVE  IInv'
<1>1. Typing'
    BY EnvironmentTyping DEF IInv
<1>2. UNCHANGED <<db, pc, req, local, taint>>
    BY DEF Evict, EditFiles, history
<1> QED BY <1>1, <1>2, NoWrite DEF local

(* A request arrives that changes nothing, or one that begins a change of  *)
(* a schema, which has no record if the request is a create.               *)
LEMMA BeginIInv ==
    ASSUME NEW p \in Procs, NEW q \in Requests, IInv, Typing', UNCHANGED db,
           pc[p] \in {"idle", "done"}, req' = [req EXCEPT ![p] = q],
           \/ /\ \E l \in {"cache", "done"} : pc' = [pc EXCEPT ![p] = l]
              /\ UNCHANGED taint
           \/ /\ pc' = [pc EXCEPT ![p] = "parse"]
              /\ q.op = "create" => ~ HasSchema(q.key)
              /\ Contend(p, q.key)
           \/ /\ pc' = [pc EXCEPT ![p] = "drop"]
              /\ Contend(p, q.key),
           \A o \in Procs \ {p} : sc'[o] = sc[o] /\ todo'[o] = todo[o]
    PROVE  IInv'
<1>1. q.key \in Keys /\ req'[p] = q
    BY RequestAssumption DEF IInv, Typing, TypeOK
<1>2. \A o \in Procs \ {p} : /\ pc'[o] = pc[o] /\ req'[o] = req[o]
                             /\ sc'[o] = sc[o] /\ todo'[o] = todo[o]
    BY DEF IInv, Typing, TypeOK
<1>3. \A k \in Keys : taint[k] \subseteq taint'[k]
    <2>1. taint \in [Keys -> SUBSET Taints]
        BY DEF IInv, Typing, TypeOK
    <2>2. CASE UNCHANGED taint
        BY <2>2
    <2>3. CASE Contend(p, q.key)
        BY <2>1, <2>3 DEF Contend
    <2> QED BY <2>2, <2>3
<1>4. pc'[p] # "add" /\ pc[p] \notin InWindow
    BY DEF IInv, Typing, TypeOK, InWindow
<1>5. ASSUME pc'[p] \in InWindow, OtherMutator(p, q.key)
      PROVE  "contended" \in taint'[q.key]
    <2>1. Contend(p, q.key)
        BY <1>5 DEF IInv, Typing, TypeOK, InWindow
    <2> QED BY <1>1, <1>5, <2>1 DEF Contend, IInv, Typing, TypeOK
<1>6. \A o \in Procs : pc[o] \in InWindow => req[o].key \in Keys
    BY RequestAssumption DEF IInv, Typing, LocalOK, InWindow
<1>7. Contention'
    <2> SUFFICES ASSUME NEW a \in Procs, NEW b \in Procs, a # b,
                        pc'[a] \in InWindow, pc'[b] \in InWindow, req'[a].key = req'[b].key
                 PROVE  "contended" \in taint'[req'[a].key]
        BY DEF Contention
    <2>1. CASE a # p /\ b # p
        BY <1>2, <1>3, <1>6, <2>1 DEF IInv, Contention
    <2>2. CASE a = p
        BY <1>1, <1>2, <1>5, <2>2 DEF OtherMutator, Mutating
    <2>3. CASE b = p
        BY <1>1, <1>2, <1>5, <2>3 DEF OtherMutator, Mutating
    <2> QED BY <2>1, <2>2, <2>3
<1>8. Pending'
    <2>1. pc'[p] = "parse" /\ q.op = "create" => schemas[q.key] = None
        BY DEF IInv, Typing, TypeOK, HasSchema
    <2> QED BY <1>1, <1>2, <1>3, <1>4, <1>6, <2>1 DEF IInv, Pending, InWindow, db
<1>9. Progress' /\ ExactProgress'
    BY <1>2, <1>3, <1>4, <1>6 DEF IInv, Progress, ExactProgress, InWindow, db
<1>10. RecordedIsComplete'
    BY <1>3 DEF IInv, RecordedIsComplete, HasSchema, Complete, db
<1>11. StoredExactly'
    <2> SUFFICES ASSUME NEW k \in Keys, taint'[k] = {}, \A o \in Procs : ~ Adding(o, k)'
                 PROVE  (Empty(k) \/ Exact(k, objects[k][Root]))'
        BY DEF StoredExactly
    <2>1. taint[k] = {} /\ \A o \in Procs : ~ Adding(o, k)
        BY <1>2, <1>3, <1>4 DEF Adding, InWindow
    <2>2. Empty(k) \/ Exact(k, objects[k][Root])
        BY <2>1 DEF IInv, StoredExactly
    <2> QED BY <2>2 DEF Empty, Exact, Complete, db
<1> QED BY <1>7, <1>8, <1>9, <1>10, <1>11 DEF IInv

(* Every request that arrives preserves the inductive invariant. *)
LEMMA ArrivalIInv ==
    ASSUME NEW p \in Procs, IInv, Arrival(p)
    PROVE  IInv'
<1>1. Typing'
    BY ArrivalTyping, DeleteTyping DEF Arrival, IInv
<1>2. PICK q \in Requests :
          /\ pc[p] \in {"idle", "done"}
          /\ req' = [req EXCEPT ![p] = q]
          /\ \/ /\ \E l \in {"cache", "done"} : pc' = [pc EXCEPT ![p] = l]
                /\ UNCHANGED taint
             \/ /\ pc' = [pc EXCEPT ![p] = "parse"]
                /\ q.op = "create" => ~ HasSchema(q.key)
                /\ Contend(p, q.key)
             \/ /\ pc' = [pc EXCEPT ![p] = "drop"]
                /\ Contend(p, q.key)
    BY DEF Arrival, CreateSchema, ReloadSchema, DeleteSchema, GetSchema, CheckedDelete,
           Start, Return, Goto, Creatable
<1>3. UNCHANGED db
    BY DEF Arrival, CreateSchema, ReloadSchema, DeleteSchema, GetSchema
<1>4. \A o \in Procs \ {p} : sc'[o] = sc[o] /\ todo'[o] = todo[o]
    BY DEF Arrival, CreateSchema, ReloadSchema, DeleteSchema, GetSchema, CheckedDelete,
           Return, local, IInv, Typing, TypeOK
<1> QED BY <1>1, <1>2, <1>3, <1>4, BeginIInv

(* A parse that fails ends the request; one that succeeds hands a create   *)
(* over to AddSchema, and a reload to the second existence check.          *)
LEMMA NewSchemaIInv ==
    ASSUME NEW p \in Procs, IInv, NewSchema(p)
    PROVE  IInv'
<1> DEFINE k == req[p].key
           r == [f \in Resolve(src[p]) |-> disk[f]]
<1>1. Typing'
    BY NewSchemaTyping DEF IInv
<1>2. UNCHANGED <<db, req, taint>> /\ pc[p] = "parse" /\ req[p].op \in {"create", "reload"}
      /\ k \in Keys
    BY RequestAssumption DEF NewSchema, history, IInv, Typing, LocalOK
<1>3. \A o \in Procs \ {p} : pc'[o] = pc[o] /\ sc'[o] = sc[o] /\ todo'[o] = todo[o]
    BY DEF NewSchema, Return, Goto, IInv, Typing, TypeOK
<1>4. CASE pc'[p] # "add"
    <2>1. pc'[p] \in {"done", "recheck"}
        BY <1>4 DEF NewSchema, Return, Goto, IInv, Typing, TypeOK
    <2> QED BY <1>1, <1>2, <1>3, <2>1, NoWrite DEF InWindow
<1>5. CASE pc'[p] = "add"
    <2>1. /\ req[p].op = "create" /\ sc'[p] = r /\ todo'[p] = EntriesOf(r)
        BY <1>2, <1>5 DEF NewSchema, Return, Goto, IInv, Typing, TypeOK
    <2> HIDE DEF r
    <2>2. Contention'
        BY <1>2, <1>3 DEF IInv, Contention, InWindow
    <2>3. Pending'
        BY <1>2, <1>3, <2>1 DEF IInv, Pending, db
    <2>4. Progress'
        BY <1>2, <1>3, <2>1 DEF IInv, Progress, db
    <2>5. taint[k] = {} => \A o \in Procs : ~ Adding(o, k)
        BY <1>2 DEF IInv, Contention, Adding, InWindow
    <2>6. taint[k] = {} => Empty(k)
        <3> SUFFICES ASSUME taint[k] = {} PROVE Empty(k)
            OBVIOUS
        <3>1. schemas[k] = None
            BY <1>2, <2>1 DEF IInv, Pending
        <3>2. Empty(k) \/ Exact(k, objects[k][Root])
            BY <1>2, <2>5 DEF IInv, StoredExactly
        <3>3. Exact(k, objects[k][Root]) => schemas[k] # None
            <4>1. [f \in {} |-> None] \in Revs
                BY DEF Revs
            <4>2. objects[k][Root] \in Revs \union {None}
                BY <1>2, <4>1, EntriesOfRev DEF IInv, Typing, TypeOK
            <4> QED BY <4>2, EntriesOfRev, NoneIsNothing DEF Exact, Complete
        <3> QED BY <3>1, <3>2, <3>3
    <2>7. ExactProgress'
        BY <1>2, <1>3, <2>1, <2>6 DEF IInv, ExactProgress, Empty, db
    <2>8. RecordedIsComplete'
        BY <1>2 DEF IInv, RecordedIsComplete, HasSchema, Complete, db
    <2>9. StoredExactly'
        <3> SUFFICES ASSUME NEW x \in Keys, taint'[x] = {}, \A o \in Procs : ~ Adding(o, x)'
                     PROVE  (Empty(x) \/ Exact(x, objects[x][Root]))'
            BY DEF StoredExactly
        <3>1. \A o \in Procs : ~ Adding(o, x)
            BY <1>2, <1>3 DEF Adding
        <3>2. Empty(x) \/ Exact(x, objects[x][Root])
            BY <1>2, <3>1 DEF IInv, StoredExactly
        <3> QED BY <1>2, <3>2 DEF Empty, Exact, Complete, db
    <2> QED BY <1>1, <2>2, <2>3, <2>4, <2>7, <2>8, <2>9 DEF IInv
<1> QED BY <1>4, <1>5

(* What a transaction of p's batch may rely on. *)
LEMMA BatchFacts ==
    ASSUME NEW p \in Procs, IInv, pc[p] = "add"
    PROVE  /\ req[p].key \in Keys /\ sc[p] \in Revs /\ sc[p] # None
           /\ todo[p] \subseteq EntriesOf(sc[p]) /\ EntriesOf(sc[p]) \subseteq Entries
           /\ Root \in EntriesOf(sc[p]) /\ DOMAIN sc[p] \in SUBSET Files
           /\ "contended" \notin taint[req[p].key] =>
                \A o \in Procs \ {p} : pc[o] \in InWindow => req[o].key # req[p].key
<1>1. /\ req[p].key \in Keys /\ sc[p] \in Revs /\ todo[p] \subseteq EntriesOf(sc[p])
    BY RequestAssumption DEF IInv, Typing, LocalOK
<1>2. "contended" \notin taint[req[p].key] =>
          \A o \in Procs \ {p} : pc[o] \in InWindow => req[o].key # req[p].key
    BY DEF IInv, Contention, InWindow
<1> QED BY <1>1, <1>2, EntriesOfRev, NoneIsNothing

(* A transaction in the middle of AddSchema's batch preserves the          *)
(* inductive invariant.                                                    *)
LEMMA CommitChunkIInv ==
    ASSUME NEW p \in Procs, IInv, CommitChunk(p)
    PROVE  IInv'
<1> DEFINE k == req[p].key
<1>1. Typing'
    BY CommitTyping DEF IInv
<1>2. pc[p] = "add" /\ UNCHANGED <<schemas, pc, req, sc, taint>>
    BY DEF CommitChunk
<1>3. PICK S \in SUBSET todo[p] :
          Store(p, S) /\ todo' = [todo EXCEPT ![p] = @ \ S]
    BY DEF CommitChunk, BatchPrefixes
<1>4. /\ \A e \in Entries : objects'[k][e] = IF e \in S THEN sc[p] ELSE objects[k][e]
      /\ \A x \in Keys \ {k} : objects'[x] = objects[x]
    BY <1>2, <1>3, BatchFacts DEF Store, IInv, Typing, TypeOK
<1>5. todo'[p] = todo[p] \ S /\ \A o \in Procs \ {p} : todo'[o] = todo[o]
    BY <1>3 DEF IInv, Typing, TypeOK
<1>6. Contention' /\ Pending'
    BY <1>2 DEF IInv, Contention, Pending
<1>7. \A o \in Procs : pc[o] = "add" => req[o].key \in Keys
    BY BatchFacts
<1>8. Progress'
    <2> SUFFICES ASSUME NEW o \in Procs, pc[o] = "add", "contended" \notin taint[req[o].key],
                        NEW e \in EntriesOf(sc[o]) \ todo'[o]
                 PROVE  objects'[req[o].key][e] = sc[o]
        BY <1>2 DEF Progress
    <2>1. e \in Entries
        BY BatchFacts
    <2>2. CASE o = p
        BY <1>4, <1>5, <2>1, <2>2 DEF IInv, Progress
    <2>3. CASE o # p
        <3>1. req[o].key # k
            BY <1>2, <2>3, BatchFacts DEF InWindow
        <3> QED BY <1>4, <1>5, <1>7, <2>3, <3>1 DEF IInv, Progress
    <2> QED BY <2>2, <2>3
<1>9. ExactProgress'
    <2> SUFFICES ASSUME NEW o \in Procs, pc[o] = "add", taint[req[o].key] = {},
                        NEW e \in Entries
                 PROVE  objects'[req[o].key][e] =
                            IF e \in EntriesOf(sc[o]) \ todo'[o] THEN sc[o] ELSE None
        BY <1>2 DEF ExactProgress
    <2>1. CASE o = p
        BY <1>2, <1>3, <1>4, <1>5, <2>1, BatchFacts DEF IInv, ExactProgress
    <2>2. CASE o # p
        <3>1. req[o].key # k
            BY <1>2, <2>2, BatchFacts DEF InWindow
        <3> QED BY <1>4, <1>5, <1>7, <2>2, <3>1 DEF IInv, ExactProgress
    <2> QED BY <2>1, <2>2
<1>10. RecordedIsComplete'
    <2> SUFFICES ASSUME NEW x \in Keys, taint[x] \subseteq {"orphans"}, schemas[x] # None
                 PROVE  Complete(x, objects[x][Root])'
        BY <1>2 DEF RecordedIsComplete, HasSchema
    <2>1. x # k
        BY <1>2 DEF IInv, Pending
    <2> QED BY <1>2, <1>4, <2>1 DEF IInv, RecordedIsComplete, HasSchema, Complete
<1>11. StoredExactly'
    <2> SUFFICES ASSUME NEW x \in Keys, taint[x] = {}, \A o \in Procs : ~ Adding(o, x)
                 PROVE  (Empty(x) \/ Exact(x, objects[x][Root]))'
        BY <1>2 DEF StoredExactly, Adding
    <2>1. x # k
        BY <1>2 DEF Adding
    <2>2. Empty(x) \/ Exact(x, objects[x][Root])
        BY DEF IInv, StoredExactly
    <2> QED BY <1>2, <1>4, <2>1, <2>2 DEF Empty, Exact, Complete
<1> QED BY <1>1, <1>6, <1>8, <1>9, <1>10, <1>11 DEF IInv

(* The last transaction of AddSchema's batch, record included, preserves   *)
(* the inductive invariant.                                                *)
LEMMA CommitLastIInv ==
    ASSUME NEW p \in Procs, IInv, CommitLast(p)
    PROVE  IInv'
<1> DEFINE k == req[p].key
           r == sc[p]
<1>1. Typing'
    BY CommitTyping DEF IInv
<1>2. pc[p] = "add" /\ UNCHANGED <<req, taint>> /\ Store(p, todo[p])
      /\ schemas' = [schemas EXCEPT ![k] = DOMAIN r] /\ Return(p, Done(r))
    BY DEF CommitLast
<1>3. /\ \A e \in Entries : objects'[k][e] = IF e \in todo[p] THEN r ELSE objects[k][e]
      /\ \A x \in Keys \ {k} : objects'[x] = objects[x] /\ schemas'[x] = schemas[x]
      /\ schemas'[k] = DOMAIN r
    BY <1>2, BatchFacts DEF Store, IInv, Typing, TypeOK
<1>4. Done(r) \in Replies
    BY <1>2, BatchFacts, RepliesTyped
<1>5. /\ pc'[p] = "done"
      /\ \A o \in Procs \ {p} : pc'[o] = pc[o] /\ sc'[o] = sc[o] /\ todo'[o] = todo[o]
    BY <1>2, <1>4, ReturnTyping DEF IInv
<1>6. \A o \in Procs : pc[o] \in InWindow => req[o].key \in Keys
    BY RequestAssumption DEF IInv, Typing, LocalOK, InWindow
<1>7. \A o \in Procs \ {p} :
          pc[o] \in InWindow /\ "contended" \notin taint[req[o].key] => req[o].key # k
    BY <1>2, BatchFacts
<1>8. Contention'
    BY <1>2, <1>5 DEF IInv, Contention, InWindow
<1>9. Pending'
    BY <1>2, <1>3, <1>5, <1>6, <1>7 DEF IInv, Pending, InWindow
<1>10. Progress'
    BY <1>2, <1>3, <1>5, <1>6, <1>7 DEF IInv, Progress, InWindow
<1>11. ExactProgress'
    BY <1>2, <1>3, <1>5, <1>6, <1>7 DEF IInv, ExactProgress, InWindow
<1>12. "contended" \notin taint[k] => Complete(k, objects[k][Root])'
    <2> SUFFICES ASSUME "contended" \notin taint[k]
                 PROVE  Complete(k, objects[k][Root])'
        OBVIOUS
    <2>1. \A e \in EntriesOf(r) : objects'[k][e] = r
        BY <1>2, <1>3, BatchFacts DEF IInv, Progress
    <2>2. objects'[k][Root] = r /\ r # None
        BY <1>2, <2>1, BatchFacts
    <2> QED BY <1>2, <1>3, <2>1, <2>2 DEF Complete
<1>13. RecordedIsComplete'
    <2> SUFFICES ASSUME NEW x \in Keys, taint[x] \subseteq {"orphans"}, schemas'[x] # None
                 PROVE  Complete(x, objects[x][Root])'
        BY <1>2 DEF RecordedIsComplete, HasSchema
    <2>1. CASE x = k
        BY <1>2, <1>12, <2>1 DEF Complete
    <2>2. CASE x # k
        BY <1>3, <2>2 DEF IInv, RecordedIsComplete, HasSchema, Complete
    <2> QED BY <2>1, <2>2
<1>14. StoredExactly'
    <2> SUFFICES ASSUME NEW x \in Keys, taint[x] = {}, \A o \in Procs : ~ Adding(o, x)'
                 PROVE  (Empty(x) \/ Exact(x, objects[x][Root]))'
        BY <1>2 DEF StoredExactly
    <2>1. CASE x = k
        <3>1. Complete(k, objects[k][Root])'
            BY <1>12, <2>1
        <3>2. objects'[k][Root] = r
            BY <1>2, <1>3, <2>1, BatchFacts DEF IInv, ExactProgress
        <3>3. \A e \in Entries \ EntriesOf(r) : objects'[k][e] = None
            BY <1>2, <1>3, <2>1, BatchFacts DEF IInv, ExactProgress
        <3> QED BY <1>2, <2>1, <3>1, <3>2, <3>3 DEF Exact, Complete
    <2>2. CASE x # k
        <3>1. \A o \in Procs : ~ Adding(o, x)
            BY <1>2, <1>5, <2>2 DEF Adding
        <3>2. Empty(x) \/ Exact(x, objects[x][Root])
            BY <3>1 DEF IInv, StoredExactly
        <3> QED BY <1>3, <2>2, <3>2 DEF Empty, Exact, Complete
    <2> QED BY <2>1, <2>2
<1> QED BY <1>1, <1>8, <1>9, <1>10, <1>11, <1>13, <1>14 DEF IInv

(* A batch of which nothing has been committed has left no trace. *)
LEMMA UnwrittenIsEmpty ==
    ASSUME NEW p \in Procs, IInv, pc[p] = "add", Written(p) = {}, taint[req[p].key] = {}
    PROVE  Empty(req[p].key)
<1>1. schemas[req[p].key] = None
    BY DEF IInv, Pending
<1>2. \A e \in Entries : objects[req[p].key][e] = None
    BY DEF IInv, ExactProgress, Written
<1> QED BY <1>1, <1>2 DEF Empty

(* A failed commit preserves the inductive invariant: what it leaves       *)
(* behind is remembered.                                                   *)
LEMMA CommitFailsIInv ==
    ASSUME NEW p \in Procs, IInv, CommitFails(p)
    PROVE  IInv'
<1> DEFINE k == req[p].key
<1>1. Typing'
    BY CommitTyping DEF IInv
<1>2. pc[p] = "add" /\ UNCHANGED <<db, req>> /\ Return(p, Error)
    BY DEF CommitFails
<1>3. /\ pc'[p] = "done"
      /\ \A o \in Procs \ {p} : pc'[o] = pc[o] /\ sc'[o] = sc[o] /\ todo'[o] = todo[o]
    BY <1>2, RepliesTyped, ReturnTyping DEF IInv
<1>4. /\ \A x \in Keys : taint[x] \subseteq taint'[x]
      /\ taint'[k] = {} => Written(p) = {}
    BY <1>2, BatchFacts DEF CommitFails, IInv, Typing, TypeOK
<1>5. \A o \in Procs : pc[o] \in InWindow => req[o].key \in Keys
    BY RequestAssumption DEF IInv, Typing, LocalOK, InWindow
<1>6. Contention'
    BY <1>2, <1>3, <1>4, <1>5 DEF IInv, Contention, InWindow
<1>7. Pending'
    BY <1>2, <1>3, <1>4, <1>5 DEF IInv, Pending, InWindow, db
<1>8. Progress' /\ ExactProgress'
    BY <1>2, <1>3, <1>4, <1>5 DEF IInv, Progress, ExactProgress, InWindow, db
<1>9. RecordedIsComplete'
    BY <1>2, <1>4 DEF IInv, RecordedIsComplete, HasSchema, Complete, db
<1>10. StoredExactly'
    <2> SUFFICES ASSUME NEW x \in Keys, taint'[x] = {}, \A o \in Procs : ~ Adding(o, x)'
                 PROVE  Empty(x) \/ Exact(x, objects[x][Root])
        BY <1>2 DEF StoredExactly, Empty, Exact, Complete, db
    <2>1. taint[x] = {}
        BY <1>4
    <2>2. CASE x = k
        BY <1>2, <1>4, <2>1, <2>2, UnwrittenIsEmpty
    <2>3. CASE x # k
        <3>1. \A o \in Procs : ~ Adding(o, x)
            BY <1>2, <1>3, <2>3 DEF Adding
        <3> QED BY <2>1, <3>1 DEF IInv, StoredExactly
    <2> QED BY <2>2, <2>3
<1> QED BY <1>1, <1>6, <1>7, <1>8, <1>9, <1>10 DEF IInv

(* A crash preserves the inductive invariant: what a batch under way       *)
(* leaves behind is remembered.                                            *)
LEMMA CrashIInv ==
    ASSUME IInv, Crash
    PROVE  IInv'
<1>1. Typing'
    BY EnvironmentTyping DEF IInv
<1>2. /\ \A o \in Procs : pc'[o] = "idle"
      /\ UNCHANGED db
      /\ \A x \in Keys : taint[x] \subseteq taint'[x] /\ (taint'[x] = {} => ~ CutOff(x))
    BY DEF Crash
<1>3. Contention' /\ Pending' /\ Progress' /\ ExactProgress'
    BY <1>2 DEF Contention, Pending, Progress, ExactProgress, InWindow
<1>4. RecordedIsComplete'
    BY <1>2 DEF IInv, RecordedIsComplete, HasSchema, Complete, db
<1>5. StoredExactly'
    <2> SUFFICES ASSUME NEW x \in Keys, taint'[x] = {}
                 PROVE  Empty(x) \/ Exact(x, objects[x][Root])
        BY <1>2 DEF StoredExactly, Empty, Exact, Complete, db
    <2>1. taint[x] = {} /\ ~ CutOff(x)
        BY <1>2
    <2>2. CASE \E p \in Procs : Adding(p, x)
        <3>1. PICK p \in Procs : pc[p] = "add" /\ req[p].key = x
            BY <2>2 DEF Adding
        <3>2. Written(p) = {}
            BY <2>1, <3>1 DEF CutOff
        <3> QED BY <2>1, <3>1, <3>2, UnwrittenIsEmpty
    <2>3. CASE \A p \in Procs : ~ Adding(p, x)
        BY <2>1, <2>3 DEF IInv, StoredExactly
    <2> QED BY <2>2, <2>3
<1> QED BY <1>1, <1>3, <1>4, <1>5 DEF IInv

(* A drop, whole or half done, of p's schema: nothing is added, the        *)
(* entries of other schemas stay, and a record that goes is remembered.    *)
LEMMA DropIInv ==
    ASSUME NEW p \in Procs, IInv, Drop(p)
    PROVE  IInv'
<1>1. Typing'
    BY DropTyping DEF IInv
<1>2. PICK k \in Keys : k = req[p].key
    BY RequestAssumption DEF Drop, IInv, Typing, LocalOK
<1>3. /\ pc[p] = "drop" /\ UNCHANGED req
      /\ schemas' = [x \in Keys |-> IF x \in Extends[k] THEN None ELSE schemas[x]]
      /\ objects' = [objects EXCEPT ![k] = [e \in Entries |-> None]]
      /\ Dropped(p, k, Extends[k])
    BY <1>2 DEF Drop, RecordsUnder
<1>4. /\ pc'[p] = "done" \/ (pc'[p] = "add" /\ sc'[p] = sc[p] /\ todo'[p] = EntriesOf(sc[p]))
      /\ \A o \in Procs \ {p} : pc'[o] = pc[o] /\ sc'[o] = sc[o] /\ todo'[o] = todo[o]
    <2>1. CASE Return(p, Done(None))
        BY <2>1, RepliesTyped, ReturnTyping DEF IInv
    <2>2. CASE req[p].op # "delete" /\ Goto(p, "add") /\ UNCHANGED <<rsp, local>>
        BY <1>3, <2>2 DEF Goto, local, IInv, Typing, TypeOK, LocalOK
    <2> QED BY <2>1, <2>2 DEF Drop
<1>5. /\ OtherMutator(p, k) => taint'[k] = {"contended"}
      /\ \A x \in Keys \ {k} :
            /\ taint[x] \subseteq taint'[x]
            /\ taint'[x] = {} => ~ (x \in Extends[k] /\ HasSchema(x))
    BY <1>3 DEF Dropped
<1>6. /\ schemas'[k] = None
      /\ \A e \in Entries : objects'[k][e] = None
      /\ \A x \in Keys \ {k} : /\ objects'[x] = objects[x]
                               /\ schemas'[x] = None \/ schemas'[x] = schemas[x]
                               /\ taint'[x] = {} => schemas'[x] = schemas[x]
    BY <1>2, <1>3, <1>5, KeysAssumption DEF HasSchema, IInv, Typing, TypeOK
<1>7. \A o \in Procs : pc[o] \in InWindow => req[o].key \in Keys
    BY RequestAssumption DEF IInv, Typing, LocalOK, InWindow
<1>8. \A o \in Procs \ {p} :
          pc[o] \in InWindow /\ "contended" \notin taint'[req[o].key] => req[o].key # k
    BY <1>5 DEF OtherMutator, Mutating
<1>9. Contention'
    <2> SUFFICES ASSUME NEW a \in Procs, NEW b \in Procs, a # b,
                        pc'[a] \in InWindow, pc'[b] \in InWindow, req[a].key = req[b].key
                 PROVE  "contended" \in taint'[req[a].key]
        BY <1>3 DEF Contention
    <2>1. CASE req[a].key = k
        BY <1>4, <1>8, <2>1
    <2>2. CASE req[a].key # k
        BY <1>2, <1>4, <1>5, <1>7, <2>2 DEF IInv, Contention
    <2> QED BY <2>1, <2>2
<1>10. Pending'
    <2> SUFFICES ASSUME NEW o \in Procs, "contended" \notin taint'[req[o].key],
                        pc'[o] = "add" \/ (pc'[o] = "parse" /\ req[o].op = "create")
                 PROVE  schemas'[req[o].key] = None
        BY <1>3 DEF Pending
    <2>1. CASE req[o].key = k
        BY <1>6, <2>1
    <2>2. CASE req[o].key # k
        BY <1>2, <1>4, <1>5, <1>6, <1>7, <2>2 DEF IInv, Pending, InWindow
    <2> QED BY <2>1, <2>2
<1>11. Progress'
    <2> SUFFICES ASSUME NEW o \in Procs, "contended" \notin taint'[req[o].key], pc'[o] = "add",
                        NEW e \in EntriesOf(sc'[o]) \ todo'[o]
                 PROVE  objects'[req[o].key][e] = sc'[o]
        BY <1>3 DEF Progress
    <2>1. o # p
        BY <1>4
    <2>2. req[o].key # k
        BY <1>4, <1>8, <2>1 DEF InWindow
    <2> QED BY <1>4, <1>5, <1>6, <1>7, <2>1, <2>2 DEF IInv, Progress, InWindow
<1>12. ExactProgress'
    <2> SUFFICES ASSUME NEW o \in Procs, taint'[req[o].key] = {}, pc'[o] = "add",
                        NEW e \in Entries
                 PROVE  objects'[req[o].key][e] =
                            IF e \in EntriesOf(sc'[o]) \ todo'[o] THEN sc'[o] ELSE None
        BY <1>3 DEF ExactProgress
    <2>1. CASE o = p
        BY <1>2, <1>4, <1>6, <2>1
    <2>2. CASE o # p
        <3>1. req[o].key # k
            BY <1>4, <1>8, <2>2 DEF InWindow
        <3> QED BY <1>4, <1>5, <1>6, <1>7, <2>2, <3>1 DEF IInv, ExactProgress, InWindow
    <2> QED BY <2>1, <2>2
<1>13. RecordedIsComplete'
    <2> SUFFICES ASSUME NEW x \in Keys, taint'[x] \subseteq {"orphans"}, schemas'[x] # None
                 PROVE  Complete(x, objects[x][Root])'
        BY DEF RecordedIsComplete, HasSchema
    <2>1. x # k /\ schemas'[x] = schemas[x] /\ objects'[x] = objects[x]
        BY <1>6
    <2> QED BY <1>5, <2>1 DEF IInv, RecordedIsComplete, HasSchema, Complete
<1>14. StoredExactly'
    <2> SUFFICES ASSUME NEW x \in Keys, taint'[x] = {}, \A o \in Procs : ~ Adding(o, x)'
                 PROVE  (Empty(x) \/ Exact(x, objects[x][Root]))'
        BY DEF StoredExactly
    <2>1. CASE x = k
        BY <1>6, <2>1 DEF Empty
    <2>2. CASE x # k
        <3>1. taint[x] = {} /\ schemas'[x] = schemas[x] /\ objects'[x] = objects[x]
            BY <1>5, <1>6, <2>2
        <3>2. \A o \in Procs : ~ Adding(o, x)
            BY <1>2, <1>3, <1>4, <2>2 DEF Adding
        <3>3. Empty(x) \/ Exact(x, objects[x][Root])
            BY <3>1, <3>2 DEF IInv, StoredExactly
        <3> QED BY <3>1, <3>3 DEF Empty, Exact, Complete
    <2> QED BY <2>1, <2>2
<1> QED BY <1>1, <1>9, <1>10, <1>11, <1>12, <1>13, <1>14 DEF IInv

(* A DropPrefix that fails half way preserves the inductive invariant. *)
LEMMA DropFailsIInv ==
    ASSUME NEW p \in Procs, IInv, DropFails(p)
    PROVE  IInv'
<1>1. Typing'
    BY DropTyping DEF IInv
<1>2. PICK k \in Keys : k = req[p].key
    BY RequestAssumption DEF DropFails, IInv, Typing, LocalOK
<1>3. PICK K \in SUBSET Extends[req[p].key], E \in SUBSET StoredEntries(req[p].key) :
          /\ schemas' = [x \in Keys |-> IF x \in K THEN None ELSE schemas[x]]
          /\ objects' = [objects EXCEPT ![req[p].key] =
                            [e \in Entries |-> IF e \in E THEN None ELSE @[e]]]
          /\ taint' = [x \in Keys |->
                IF x = req[p].key THEN taint[x] \union {"halfDropped"}
                ELSE taint[x] \union (IF x \in K /\ HasSchema(x) THEN {"orphans"} ELSE {})]
    BY DEF DropFails, RecordsUnder
<1>4. pc[p] = "drop" /\ UNCHANGED req /\ Return(p, Error)
    BY DEF DropFails
<1>5. /\ pc'[p] = "done"
      /\ \A o \in Procs \ {p} : pc'[o] = pc[o] /\ sc'[o] = sc[o] /\ todo'[o] = todo[o]
    BY <1>4, RepliesTyped, ReturnTyping DEF IInv
<1>6. /\ \A x \in Keys : /\ taint[x] \subseteq taint'[x]
                         /\ schemas'[x] = None \/ schemas'[x] = schemas[x]
      /\ "halfDropped" \in taint'[k]
      /\ \A x \in Keys \ {k} : /\ objects'[x] = objects[x]
                               /\ taint'[x] = {} => schemas'[x] = schemas[x]
    <2>1. \A x \in Keys : /\ taint[x] \subseteq taint'[x]
                          /\ schemas'[x] = None \/ schemas'[x] = schemas[x]
        BY <1>2, <1>3
    <2>2. "halfDropped" \in taint'[k]
        BY <1>2, <1>3
    <2>3. \A x \in Keys \ {k} : objects'[x] = objects[x]
        BY <1>2, <1>3 DEF IInv, Typing, TypeOK
    <2>4. \A x \in Keys \ {k} : taint'[x] = {} => schemas'[x] = schemas[x]
        BY <1>2, <1>3 DEF HasSchema
    <2> QED BY <2>1, <2>2, <2>3, <2>4
<1>7. \A o \in Procs : pc[o] \in InWindow => req[o].key \in Keys
    BY RequestAssumption DEF IInv, Typing, LocalOK, InWindow
<1>8. \A o \in Procs \ {p} :
          pc[o] \in InWindow /\ "contended" \notin taint'[req[o].key] => req[o].key # k
    BY <1>2, <1>4, <1>6 DEF IInv, Contention, InWindow
<1>9. Contention'
    BY <1>4, <1>5, <1>6, <1>7 DEF IInv, Contention, InWindow
<1>10. Pending'
    BY <1>4, <1>5, <1>6, <1>7 DEF IInv, Pending, InWindow
<1>11. Progress'
    BY <1>4, <1>5, <1>6, <1>7, <1>8 DEF IInv, Progress, InWindow
<1>12. ExactProgress'
    BY <1>4, <1>5, <1>6, <1>7, <1>8 DEF IInv, ExactProgress, InWindow
<1>13. RecordedIsComplete'
    <2> SUFFICES ASSUME NEW x \in Keys, taint'[x] \subseteq {"orphans"}, schemas'[x] # None
                 PROVE  Complete(x, objects[x][Root])'
        BY DEF RecordedIsComplete, HasSchema
    <2>1. x # k /\ schemas'[x] = schemas[x] /\ objects'[x] = objects[x]
        BY <1>6
    <2> QED BY <1>6, <2>1 DEF IInv, RecordedIsComplete, HasSchema, Complete
<1>14. StoredExactly'
    <2> SUFFICES ASSUME NEW x \in Keys, taint'[x] = {}, \A o \in Procs : ~ Adding(o, x)'
                 PROVE  (Empty(x) \/ Exact(x, objects[x][Root]))'
        BY DEF StoredExactly
    <2>1. x # k /\ taint[x] = {} /\ schemas'[x] = schemas[x] /\ objects'[x] = objects[x]
        BY <1>6
    <2>2. \A o \in Procs : ~ Adding(o, x)
        BY <1>2, <1>4, <1>5, <2>1 DEF Adding
    <2>3. Empty(x) \/ Exact(x, objects[x][Root])
        BY <2>1, <2>2 DEF IInv, StoredExactly
    <2> QED BY <2>1, <2>3 DEF Empty, Exact, Complete
<1> QED BY <1>1, <1>9, <1>10, <1>11, <1>12, <1>13, <1>14 DEF IInv

(* Every step preserves the inductive invariant. *)
LEMMA NextIInv == IInv /\ [Next]_vars => IInv'
<1> SUFFICES ASSUME IInv, [Next]_vars PROVE IInv'
    OBVIOUS
<1>1. CASE UNCHANGED vars
    <2>1. Typing'
        BY <1>1, NextTyping DEF IInv
    <2>2. UNCHANGED <<db, pc, req, local, taint>>
        BY <1>1 DEF vars, db, local
    <2> QED BY <2>1, <2>2, NoWrite DEF local
<1>2. CASE \E p \in Procs : Handler(p) \/ Arrival(p)
    BY <1>2, NewSchemaIInv, CommitChunkIInv, CommitLastIInv, CommitFailsIInv, DropIInv,
       DropFailsIInv, ReadIInv, ArrivalIInv DEF Handler
<1>3. CASE Evict \/ EditFiles \/ Crash
    BY <1>3, EvictEditIInv, CrashIInv
<1> QED BY <1>1, <1>2, <1>3 DEF Next

(* The inductive invariant holds in every state the store reaches. *)
THEOREM Invariance == Spec => []IInv
BY InitIInv, NextIInv, PTL DEF Spec

(* A schema with a record has every entry of one parse: readers that find  *)
(* the record never miss an element because a write, a crash or a failed   *)
(* commit got in between.                                                  *)
THEOREM RecordedSchemasAreComplete == Spec => []RecordedIsComplete
<1>1. IInv => RecordedIsComplete
    BY DEF IInv
<1> QED BY <1>1, Invariance, PTL

(* Deletes and reloads leave nothing behind: a schema whose changes        *)
(* neither overlapped nor failed is absent without a trace or holds the    *)
(* entries of one parse and no others.                                     *)
THEOREM StoredSchemasAreExact == Spec => []StoredExactly
<1>1. IInv => StoredExactly
    BY DEF IInv
<1> QED BY <1>1, Invariance, PTL

(* A create replaces no record, unless another change of the same schema   *)
(* overlapped with it.                                                     *)
THEOREM LoneCreatesNeverOverwrite == Spec => LoneCreateNeverOverwrites
<1>1. IInv /\ [Next]_vars =>
          [\A p \in Procs :
              /\ pc[p] = "add" /\ req[p].op = "create"
              /\ pc'[p] = "done" /\ rsp'[p].ok
              /\ "contended" \notin taint[req[p].key]
              => ~ HasSchema(req[p].key)]_vars
    BY DEF IInv, Pending, HasSchema
<1> QED BY <1>1, Invariance, PTL DEF Spec, LoneCreateNeverOverwrites

-----------------------------------------------------------------------------
(* What the clients of the store are told: a change that reports success   *)
(* has done what it says, and a read, spread over several transactions and *)
(* the cache, answers as one read of the stored schema.                    *)

(* The inductive invariant, handler by handler.  What a batch nobody       *)
(* disturbed has committed so far is in the database; in that of a reload, *)
(* which dropped everything before, nothing else is.                       *)
QuietBatch(p) ==
    pc[p] = "add" /\ quiet[p] =>
        /\ \A e \in EntriesOf(sc[p]) \ todo[p] : objects[req[p].key][e] = sc[p]
        /\ req[p].op = "reload" =>
              \A e \in Entries \ (EntriesOf(sc[p]) \ todo[p]) : objects[req[p].key][e] = None

(* The schema of a request is clean, and nobody has written it since the   *)
(* request came, or nobody has dropped it since the process started.       *)
Steady(p) ==
    taint[req[p].key] = {} /\ (quiet[p] \/ req[p].key \notin dropped)

(* The modules request q is looked up in, in a schema stored as r. *)
SearchedIn(r, q) == IF q.mod = NoModule THEN DOMAIN r ELSE {q.mod}

(* A reader under way. *)
ReaderAt(p) ==
    /\ pc[p] = "root" => req[p].path = <<>>
    /\ pc[p] \in {"modules", "lookup", "put"} => req[p].path # <<>>
    /\ pc[p] = "modules" => req[p].mod = NoModule
    /\ pc[p] = "put" => rsp[p].desc

(* ... which has found the schema as it is. *)
ReaderFinds(p) ==
    pc[p] \in Reading /\ Steady(p) =>
        /\ HasSchema(req[p].key)
        /\ pc[p] = "lookup" => mods[p] = SearchedIn(objects[req[p].key][Root], req[p])
        /\ pc[p] = "put" => /\ rsp[p].ok
                            /\ Answers(rsp[p], objects[req[p].key][Root], req[p])

(* What the client of a handler has been told. *)
TookEffect(p) ==
    pc[p] = "done" /\ rsp[p].ok /\ quiet[p] =>
        /\ req[p].op = "create" => Complete(req[p].key, rsp[p].rev)
        /\ req[p].op = "reload" => Exact(req[p].key, rsp[p].rev)
        /\ req[p].op = "delete" => Empty(req[p].key)

ExactRead(p) == Read(p) /\ (WithCache => req[p].key \notin dropped) => ReadIsExact(p)

Described(p) ==
    pc[p] = "done" /\ rsp[p].ok /\ req[p].op = "get" /\ req[p].desc => rsp[p].desc

HandlerOK(p) ==
    /\ QuietBatch(p) /\ ReaderAt(p) /\ ReaderFinds(p)
    /\ TookEffect(p) /\ ExactRead(p) /\ Described(p)

(* What the cache holds of a clean schema is what a read would answer. *)
CacheOK ==
    \A q \in Requests :
        /\ q.op = "get" /\ taint[q.key] = {} /\ q.key \notin dropped
        /\ cache[CacheKey(q)] # None
        => /\ HasSchema(q.key) /\ cache[CacheKey(q)].ok
           /\ Answers(cache[CacheKey(q)], objects[q.key][Root], q)

(* What the cache holds was read with its description, and no hit takes it *)
(* away from the others.                                                   *)
CacheDescribed ==
    \A q \in Requests :
        q.op = "get" /\ cache[CacheKey(q)] # None => cache[CacheKey(q)].desc

ClientInv == (\A p \in Procs : HandlerOK(p)) /\ CacheOK /\ CacheDescribed

(* The properties of the store follow. *)
LEMMA ClientProperties ==
    ClientInv => WriteTookEffect /\ QuietReadIsExact /\ DescriptionOnRequest
<1> SUFFICES ASSUME ClientInv
             PROVE  WriteTookEffect /\ QuietReadIsExact /\ DescriptionOnRequest
    OBVIOUS
<1>1. WriteTookEffect
    BY DEF ClientInv, HandlerOK, TookEffect, WriteTookEffect
<1>2. QuietReadIsExact
    BY DEF ClientInv, HandlerOK, ExactRead, QuietReadIsExact
<1>3. DescriptionOnRequest
    BY DEF ClientInv, HandlerOK, Described, DescriptionOnRequest
<1> QED BY <1>1, <1>2, <1>3

(* The inductive invariant holds of the empty store. *)
LEMMA InitClientInv == Init => ClientInv
<1> SUFFICES ASSUME Init PROVE ClientInv
    OBVIOUS
<1>1. ASSUME NEW p \in Procs PROVE HandlerOK(p)
    BY DEF Init, HandlerOK, QuietBatch, ReaderAt, ReaderFinds, Reading, TookEffect, ExactRead,
           Read, Described
<1>2. CacheOK /\ CacheDescribed
    <2> SUFFICES ASSUME NEW q \in Requests, q.op = "get" PROVE cache[CacheKey(q)] = None
        BY DEF CacheOK, CacheDescribed
    <2>1. CacheKey(q) \in Keys \X PathRequests
        BY RequestAssumption DEF CacheKey, PathRequests
    <2> QED BY <2>1 DEF Init
<1> QED BY <1>1, <1>2 DEF ClientInv

-----------------------------------------------------------------------------
(* What a step of one handler leaves to the others *)

(* A handler leaves the variables of the others alone. *)
LEMMA OthersKept ==
    ASSUME Typing, NEW p \in Procs, Handler(p) \/ Arrival(p), NEW o \in Procs \ {p}
    PROVE  /\ pc'[o] = pc[o] /\ req'[o] = req[o] /\ rsp'[o] = rsp[o]
           /\ sc'[o] = sc[o] /\ todo'[o] = todo[o] /\ mods'[o] = mods[o]
<1>1. CASE NewSchema(p) \/ CommitChunk(p) \/ CommitLast(p) \/ CommitFails(p)
    BY <1>1 DEF NewSchema, CommitChunk, CommitLast, CommitFails, Return, Goto, Typing, TypeOK
<1>2. CASE ReloadDeletes(p) \/ Drop(p) \/ DropFails(p)
    BY <1>2 DEF ReloadDeletes, CheckedDelete, Drop, DropFails, Return, Goto, local, Typing, TypeOK
<1>3. CASE CacheGet(p) \/ ReadRoot(p) \/ GetModules(p) \/ Lookup(p) \/ CacheSet(p)
    BY <1>3 DEF CacheGet, ReadRoot, GetModules, Lookup, CacheSet, Return, Goto, local,
                Typing, TypeOK
<1>4. CASE Arrival(p)
    BY <1>4 DEF Arrival, CreateSchema, ReloadSchema, DeleteSchema, GetSchema, CheckedDelete,
                Return, Goto, local, Typing, TypeOK
<1> QED BY <1>1, <1>2, <1>3, <1>4 DEF Handler

(* The schemas K a handler writes, or may clear of what happened to them:  *)
(* it drops them, or writes the one it is adding.  Requests for them are   *)
(* quiet no more.                                                          *)
Footprint(p, K) ==
    /\ \A x \in Keys \ K : /\ schemas'[x] = schemas[x] /\ objects'[x] = objects[x]
                           /\ taint[x] \subseteq taint'[x]
    /\ \A o \in Procs \ {p} : quiet'[o] => quiet[o] /\ (pc[o] # "idle" => req[o].key \notin K)
    /\ dropped \subseteq dropped'
    /\ \/ K \subseteq dropped'
       \/ pc[p] = "add" /\ K = {req[p].key} /\ taint' = taint

(* Every step of a handler has a footprint. *)
LEMMA FootprintExists ==
    ASSUME Typing, NEW p \in Procs, Handler(p) \/ Arrival(p)
    PROVE  \E K \in SUBSET Keys : Footprint(p, K)
<1>1. ASSUME UNCHANGED <<db, dropped>>,
             \A x \in Keys : taint[x] \subseteq taint'[x],
             \A o \in Procs \ {p} : quiet'[o] = quiet[o]
      PROVE  Footprint(p, {})
    BY <1>1 DEF Footprint, db
<1>2. ASSUME NEW K \in SUBSET Keys, Disturb(p, K), NEW o \in Procs \ {p}, quiet'[o]
      PROVE  quiet[o] /\ (pc[o] # "idle" => req[o].key \notin K)
    BY <1>2 DEF Disturb
<1>3. CASE NewSchema(p) \/ ReloadDeletes(p) \/ CacheGet(p) \/ ReadRoot(p) \/ GetModules(p)
           \/ Lookup(p) \/ CacheSet(p)
    <2>1. UNCHANGED <<db, history>>
        BY <1>3 DEF NewSchema, ReloadDeletes, CacheGet, ReadRoot, GetModules, Lookup, CacheSet
    <2> QED BY <1>1, <2>1 DEF history
<1>4. CASE Arrival(p)
    <2>1. PICK q \in Requests : /\ Arrive(p, q)
                                /\ Contend(p, q.key) \/ UNCHANGED taint
        BY <1>4 DEF Arrival, CreateSchema, ReloadSchema, DeleteSchema, GetSchema, Start
    <2>2. UNCHANGED <<db, dropped>>
        BY <1>4 DEF Arrival, CreateSchema, ReloadSchema, DeleteSchema, GetSchema
    <2>3. \A x \in Keys : taint[x] \subseteq taint'[x]
        <3>1. CASE Contend(p, q.key)
            <4>1. PICK T : taint' = [taint EXCEPT ![q.key] = @ \union T]
                BY <3>1 DEF Contend
            <4>2. DOMAIN taint = Keys
                BY DEF Typing, TypeOK
            <4> QED BY <4>1, <4>2
        <3> QED BY <2>1, <3>1
    <2>4. \A o \in Procs \ {p} : quiet'[o] = quiet[o]
        BY <2>1 DEF Arrive, Typing, TypeOK
    <2> QED BY <1>1, <2>2, <2>3, <2>4
<1>5. CASE CommitFails(p)
    <2>1. req[p].key \in Keys
        BY <1>5, RequestAssumption DEF CommitFails, Typing, LocalOK
    <2>2. \A x \in Keys : taint[x] \subseteq taint'[x]
        BY <1>5, <2>1 DEF CommitFails, Typing, TypeOK
    <2> QED BY <1>1, <1>5, <2>2 DEF CommitFails
<1>6. CASE CommitChunk(p) \/ CommitLast(p)
    <2>1. PICK k \in Keys : k = req[p].key
        BY <1>6, RequestAssumption DEF CommitChunk, CommitLast, Typing, LocalOK
    <2>2. /\ pc[p] = "add" /\ UNCHANGED <<taint, dropped>> /\ Disturb(p, {k})
          /\ schemas' = schemas \/ schemas' = [schemas EXCEPT ![k] = DOMAIN sc[p]]
          /\ \E S : Store(p, S)
        BY <1>6, <2>1 DEF CommitChunk, CommitLast
    <2>3. \A x \in Keys \ {k} : schemas'[x] = schemas[x] /\ objects'[x] = objects[x]
        BY <2>1, <2>2 DEF Store, Typing, TypeOK
    <2>4. Footprint(p, {k})
        BY <1>2, <2>1, <2>2, <2>3 DEF Footprint
    <2> QED BY <2>4
<1>7. CASE Drop(p)
    <2>1. PICK k \in Keys : k = req[p].key
        BY <1>7, RequestAssumption DEF Drop, Typing, LocalOK
    <2>2. /\ schemas' = [x \in Keys |-> IF x \in Extends[k] THEN None ELSE schemas[x]]
          /\ objects' = [objects EXCEPT ![k] = [e \in Entries |-> None]]
          /\ Dropped(p, k, Extends[k])
        BY <1>7, <2>1 DEF Drop, RecordsUnder
    <2> DEFINE K == Extends[k] \union {k}
    <2>3. K \in SUBSET Keys /\ Disturb(p, K) /\ dropped' = dropped \union K
        BY <2>2, KeysAssumption DEF Dropped
    <2>4. \A x \in Keys \ K : /\ schemas'[x] = schemas[x] /\ objects'[x] = objects[x]
                              /\ taint[x] \subseteq taint'[x]
        BY <2>2 DEF Dropped, Typing, TypeOK
    <2> HIDE DEF K
    <2>5. Footprint(p, K)
        BY <1>2, <2>3, <2>4 DEF Footprint
    <2> QED BY <2>3, <2>5
<1>8. CASE DropFails(p)
    <2>1. PICK k \in Keys : k = req[p].key
        BY <1>8, RequestAssumption DEF DropFails, Typing, LocalOK
    <2>2. PICK L \in SUBSET Extends[req[p].key], E \in SUBSET StoredEntries(req[p].key) :
              /\ schemas' = [x \in Keys |-> IF x \in L THEN None ELSE schemas[x]]
              /\ objects' = [objects EXCEPT ![req[p].key] =
                                [e \in Entries |-> IF e \in E THEN None ELSE @[e]]]
              /\ taint' = [x \in Keys |->
                    IF x = req[p].key THEN taint[x] \union {"halfDropped"}
                    ELSE taint[x] \union (IF x \in L /\ HasSchema(x) THEN {"orphans"} ELSE {})]
              /\ dropped' = dropped \union L \union {req[p].key}
              /\ Disturb(p, L \union {req[p].key})
        BY <1>8 DEF DropFails, RecordsUnder
    <2> DEFINE K == L \union {k}
    <2>3. K \in SUBSET Keys /\ Disturb(p, K) /\ dropped' = dropped \union K
        BY <2>1, <2>2, KeysAssumption
    <2>4. \A x \in Keys \ K : /\ schemas'[x] = schemas[x] /\ objects'[x] = objects[x]
                              /\ taint[x] \subseteq taint'[x]
        BY <2>1, <2>2 DEF Typing, TypeOK
    <2> HIDE DEF K
    <2>5. Footprint(p, K)
        BY <1>2, <2>3, <2>4 DEF Footprint
    <2> QED BY <2>3, <2>5
<1> QED BY <1>3, <1>4, <1>5, <1>6, <1>7, <1>8 DEF Handler

(* A clean schema that has a record holds one parse, root and all. *)
LEMMA RecordedIsExact ==
    ASSUME IInv, NEW k \in Keys, HasSchema(k), taint[k] = {}
    PROVE  /\ Exact(k, objects[k][Root]) /\ objects[k][Root] \in Revs
           /\ StoredEntries(k) = EntriesOf(objects[k][Root])
           /\ \A p \in Procs : ~ Adding(p, k)
<1>1. \A p \in Procs : ~ Adding(p, k)
    BY DEF IInv, Pending, Adding, HasSchema
<1>2. Exact(k, objects[k][Root])
    BY <1>1 DEF IInv, StoredExactly, Empty, HasSchema
<1>3. Root \in Entries
    <2>1. [f \in {} |-> None] \in Revs
        BY DEF Revs
    <2> QED BY <2>1, EntriesOfRev
<1>4. objects[k][Root] \in Revs /\ objects[k][Root] # None
    BY <1>2, <1>3 DEF Exact, Complete, IInv, Typing, TypeOK
<1>5. StoredEntries(k) = EntriesOf(objects[k][Root])
    BY <1>2, <1>4, EntriesOfRev DEF StoredEntries, Exact, Complete
<1> QED BY <1>1, <1>2, <1>4, <1>5

(* A clean schema that has a record and is not dropped stays as it is.     *)
LEMMA RecordedStays ==
    ASSUME IInv, NEW p \in Procs, Handler(p) \/ Arrival(p), NEW k \in Keys,
           taint'[k] = {}, k \notin dropped', taint[k] = {} => HasSchema(k)
    PROVE  /\ schemas'[k] = schemas[k] /\ objects'[k] = objects[k]
           /\ taint[k] = {} /\ k \notin dropped
<1>1. PICK K \in SUBSET Keys : Footprint(p, K)
    BY FootprintExists DEF IInv
<1>2. CASE k \notin K
    BY <1>1, <1>2 DEF Footprint
<1>3. CASE k \in K
    <2>1. pc[p] = "add" /\ k = req[p].key /\ taint[k] = {}
        BY <1>1, <1>3 DEF Footprint
    <2> QED BY <2>1, RecordedIsExact DEF Adding
<1> QED BY <1>2, <1>3

(* The step of one handler leaves what the others know, and what their     *)
(* clients have been told, true.                                           *)
LEMMA OthersOK ==
    ASSUME IInv, ClientInv, NEW p \in Procs, Handler(p) \/ Arrival(p), NEW o \in Procs \ {p}
    PROVE  HandlerOK(o)'
<1> DEFINE k == req[o].key
<1>1. /\ pc'[o] = pc[o] /\ req'[o] = req[o] /\ rsp'[o] = rsp[o]
      /\ sc'[o] = sc[o] /\ todo'[o] = todo[o] /\ mods'[o] = mods[o]
    BY OthersKept DEF IInv
<1>2. HandlerOK(o)
    BY DEF ClientInv
<1>3. pc[o] # "idle" => k \in Keys
    BY RequestAssumption DEF IInv, Typing, LocalOK
<1>4. pc[o] # "idle" /\ quiet'[o] =>
          /\ quiet[o] /\ schemas'[k] = schemas[k] /\ objects'[k] = objects[k]
          /\ taint'[k] = {} => taint[k] = {}
          /\ k \notin dropped' => k \notin dropped
    <2>1. PICK K \in SUBSET Keys : Footprint(p, K)
        BY FootprintExists DEF IInv
    <2> QED BY <1>3, <2>1 DEF Footprint
<1>5. pc[o] \in Reading /\ Steady(o)' =>
          /\ Steady(o) /\ schemas'[k] = schemas[k] /\ objects'[k] = objects[k]
    <2> SUFFICES ASSUME pc[o] \in Reading, Steady(o)'
                 PROVE  Steady(o) /\ schemas'[k] = schemas[k] /\ objects'[k] = objects[k]
        OBVIOUS
    <2>1. pc[o] # "idle"
        BY DEF Reading
    <2>2. CASE quiet'[o]
        BY <1>1, <1>4, <2>1, <2>2 DEF Steady
    <2>3. CASE k \notin dropped'
        <3>1. k \notin dropped /\ taint'[k] = {}
            <4>1. PICK K \in SUBSET Keys : Footprint(p, K)
                BY FootprintExists DEF IInv
            <4> QED BY <1>1, <2>3, <4>1 DEF Footprint, Steady
        <3>2. taint[k] = {} => HasSchema(k)
            BY <1>2, <3>1 DEF HandlerOK, ReaderFinds, Steady
        <3> QED BY <1>3, <2>1, <2>3, <3>1, <3>2, RecordedStays DEF Steady
    <2> QED BY <1>1, <2>2, <2>3 DEF Steady
<1>6. QuietBatch(o)'
    BY <1>1, <1>2, <1>4 DEF HandlerOK, QuietBatch
<1>7. ReaderAt(o)'
    BY <1>1, <1>2 DEF HandlerOK, ReaderAt
<1>8. ReaderFinds(o)'
    <2> SUFFICES ASSUME pc[o] \in Reading, Steady(o)'
                 PROVE  ReaderFinds(o)'
        BY <1>1 DEF ReaderFinds
    <2>1. ReaderFinds(o) /\ Steady(o) /\ schemas'[k] = schemas[k] /\ objects'[k] = objects[k]
        BY <1>2, <1>5 DEF HandlerOK
    <2> QED BY <1>1, <2>1 DEF ReaderFinds, HasSchema
<1>9. TookEffect(o)'
    <2> SUFFICES ASSUME pc[o] = "done", quiet'[o] PROVE TookEffect(o)'
        BY <1>1 DEF TookEffect
    <2>1. quiet[o] /\ schemas'[k] = schemas[k] /\ objects'[k] = objects[k]
        BY <1>4
    <2> QED BY <1>1, <1>2, <2>1 DEF HandlerOK, TookEffect, Complete, Exact, Empty
<1>10. ExactRead(o)'
    <2> SUFFICES ASSUME Read(o)', (WithCache => req[o].key \notin dropped)'
                 PROVE  ReadIsExact(o)'
        BY DEF ExactRead
    <2>1. /\ pc[o] = "done" /\ quiet[o] /\ schemas'[k] = schemas[k] /\ objects'[k] = objects[k]
          /\ taint[k] = {} /\ (WithCache => k \notin dropped)
        BY <1>1, <1>4 DEF Read
    <2>2. ReadIsExact(o)
        BY <1>1, <1>2, <2>1 DEF HandlerOK, ExactRead, Read
    <2> QED BY <1>1, <2>1, <2>2 DEF ReadIsExact, HasSchema
<1>11. Described(o)'
    BY <1>1, <1>2 DEF HandlerOK, Described
<1> QED BY <1>6, <1>7, <1>8, <1>9, <1>10, <1>11 DEF HandlerOK

(* A step that caches nothing leaves the cache true. *)
LEMMA CacheStays ==
    ASSUME IInv, ClientInv, NEW p \in Procs, Handler(p) \/ Arrival(p),
           NEW q \in Requests, q.op = "get", cache'[CacheKey(q)] = cache[CacheKey(q)],
           taint'[q.key] = {}, q.key \notin dropped', cache'[CacheKey(q)] # None
    PROVE  /\ HasSchema(q.key)' /\ cache'[CacheKey(q)].ok
           /\ Answers(cache[CacheKey(q)], objects[q.key][Root], q)'
<1>1. q.key \in Keys
    BY RequestAssumption
<1>2. q.key \notin dropped
    <2>1. PICK K \in SUBSET Keys : Footprint(p, K)
        BY FootprintExists DEF IInv
    <2> QED BY <2>1 DEF Footprint
<1>3. taint[q.key] = {} =>
          /\ HasSchema(q.key) /\ cache[CacheKey(q)].ok
          /\ Answers(cache[CacheKey(q)], objects[q.key][Root], q)
    BY <1>2 DEF ClientInv, CacheOK
<1>4. /\ schemas'[q.key] = schemas[q.key] /\ objects'[q.key] = objects[q.key]
      /\ taint[q.key] = {}
    BY <1>1, <1>3, RecordedStays
<1> QED BY <1>3, <1>4 DEF HasSchema, CacheKey

-----------------------------------------------------------------------------
(* What a handler's own step makes of it.  Returning an error promises     *)
(* nothing, unless to a reader.                                            *)
LEMMA RefusedOK ==
    ASSUME Typing, NEW p \in Procs, Return(p, Error), req'[p].op # "get"
    PROVE  HandlerOK(p)'
<1>1. pc'[p] = "done" /\ rsp'[p] = Error
    BY DEF Return, Typing, TypeOK
<1> QED BY <1>1 DEF HandlerOK, QuietBatch, ReaderAt, ReaderFinds, TookEffect, ExactRead, Read,
                    Described, Reading, Error

(* A handler in the middle of a change, before it writes. *)
LEMMA UnwrittenOK ==
    ASSUME NEW p \in Procs, pc'[p] \in {"parse", "recheck", "drop"}
    PROVE  HandlerOK(p)'
BY DEF HandlerOK, QuietBatch, ReaderAt, ReaderFinds, TookEffect, ExactRead, Read, Described, Reading

(* A handler in the middle of its batch. *)
LEMMA BatchOK ==
    ASSUME NEW p \in Procs, pc'[p] = "add", QuietBatch(p)'
    PROVE  HandlerOK(p)'
BY DEF HandlerOK, ReaderAt, ReaderFinds, TookEffect, ExactRead, Read, Described, Reading

(* A change that is over. *)
LEMMA ChangedOK ==
    ASSUME NEW p \in Procs, pc'[p] = "done", req'[p].op # "get", TookEffect(p)'
    PROVE  HandlerOK(p)'
BY DEF HandlerOK, QuietBatch, ReaderAt, ReaderFinds, ExactRead, Read, Described, Reading

(* The arrival of a change. *)
LEMMA ChangeArrivalOK ==
    ASSUME Typing, NEW p \in Procs, CreateSchema(p) \/ ReloadSchema(p) \/ DeleteSchema(p)
    PROVE  HandlerOK(p)'
<1>1. PICK q \in Requests :
          /\ q.op # "get" /\ req' = [req EXCEPT ![p] = q]
          /\ Return(p, Error) \/ Goto(p, "parse") \/ Goto(p, "drop")
    BY DEF CreateSchema, ReloadSchema, DeleteSchema, CheckedDelete, Start
<1>2. req'[p].op # "get"
    BY <1>1 DEF Typing, TypeOK
<1>3. CASE Return(p, Error)
    BY <1>2, <1>3, RefusedOK
<1>4. CASE Goto(p, "parse") \/ Goto(p, "drop")
    <2>1. pc'[p] \in {"parse", "recheck", "drop"}
        BY <1>4 DEF Goto, Typing, TypeOK
    <2> QED BY <2>1, UnwrittenOK
<1> QED BY <1>1, <1>3, <1>4

(* A parse: a create goes on with nothing written. *)
LEMMA NewSchemaOK ==
    ASSUME Typing, NEW p \in Procs, NewSchema(p)
    PROVE  HandlerOK(p)'
<1> DEFINE r == [f \in Resolve(src[p]) |-> disk[f]]
<1>1. pc[p] = "parse" /\ req' = req /\ req[p].op \in {"create", "reload"}
    BY DEF NewSchema, Typing, LocalOK
<1>2. CASE Return(p, Error)
    BY <1>1, <1>2, RefusedOK
<1>3. CASE /\ sc' = [sc EXCEPT ![p] = r]
           /\ todo' = [todo EXCEPT ![p] = EntriesOf(r)]
           /\ Goto(p, IF req[p].op = "reload" THEN "recheck" ELSE "add")
    <2>1. sc'[p] = r /\ todo'[p] = EntriesOf(r)
        BY <1>3 DEF Typing, TypeOK
    <2> HIDE DEF r
    <2>2. CASE req[p].op = "reload"
        <3>1. pc'[p] = "recheck"
            BY <1>3, <2>2 DEF Goto, Typing, TypeOK
        <3> QED BY <3>1, UnwrittenOK
    <2>3. CASE req[p].op = "create"
        <3>1. pc'[p] = "add"
            BY <1>3, <2>3 DEF Goto, Typing, TypeOK
        <3>2. QuietBatch(p)'
            BY <1>1, <2>1, <2>3 DEF QuietBatch
        <3> QED BY <3>1, <3>2, BatchOK
    <2> QED BY <1>1, <2>2, <2>3
<1> QED BY <1>2, <1>3 DEF NewSchema

(* Another transaction of a batch. *)
LEMMA CommitChunkOK ==
    ASSUME IInv, NEW p \in Procs, QuietBatch(p), CommitChunk(p)
    PROVE  HandlerOK(p)'
<1> DEFINE k == req[p].key
<1>1. pc[p] = "add" /\ UNCHANGED <<pc, req, sc>> /\ Disturb(p, {k})
    BY DEF CommitChunk
<1>2. PICK S \in SUBSET todo[p] :
          Store(p, S) /\ todo' = [todo EXCEPT ![p] = @ \ S]
    BY DEF CommitChunk, BatchPrefixes
<1>3. \A e \in Entries : objects'[k][e] = IF e \in S THEN sc[p] ELSE objects[k][e]
    BY <1>1, <1>2, BatchFacts DEF Store, IInv, Typing, TypeOK
<1>4. todo'[p] = todo[p] \ S /\ (quiet'[p] => quiet[p])
    BY <1>1, <1>2 DEF Disturb, IInv, Typing, TypeOK
<1>5. QuietBatch(p)'
    BY <1>1, <1>3, <1>4, BatchFacts DEF QuietBatch
<1> QED BY <1>1, <1>5, BatchOK

(* The last transaction: the whole revision is there, and after a reload   *)
(* nothing else.                                                           *)
LEMMA CommitLastOK ==
    ASSUME IInv, NEW p \in Procs, QuietBatch(p), CommitLast(p)
    PROVE  HandlerOK(p)'
<1> DEFINE k == req[p].key
<1>1. PICK r \in Revs : r = sc[p] /\ r # None
    BY BatchFacts DEF CommitLast
<1>2. /\ pc[p] = "add" /\ req' = req /\ req[p].op \in {"create", "reload"}
      /\ Disturb(p, {k}) /\ Return(p, Done(r))
      /\ Store(p, todo[p]) /\ schemas' = [schemas EXCEPT ![k] = DOMAIN r]
    BY <1>1 DEF CommitLast, IInv, Typing, LocalOK
<1>3. /\ \A e \in Entries : objects'[k][e] = IF e \in todo[p] THEN r ELSE objects[k][e]
      /\ schemas'[k] = DOMAIN r
    BY <1>1, <1>2, BatchFacts DEF Store, IInv, Typing, TypeOK
<1>4. pc'[p] = "done" /\ rsp'[p].rev = r /\ (quiet'[p] => quiet[p])
    BY <1>2 DEF Return, Done, Disturb, IInv, Typing, TypeOK
<1>5. ASSUME quiet[p]
      PROVE  /\ \A e \in EntriesOf(r) : objects'[k][e] = r
             /\ req[p].op = "reload" =>
                   \A e \in Entries \ EntriesOf(r) : objects'[k][e] = None
    BY <1>1, <1>2, <1>3, <1>5, BatchFacts DEF QuietBatch
<1>6. TookEffect(p)'
    BY <1>1, <1>2, <1>3, <1>4, <1>5 DEF TookEffect, Complete, Exact
<1> QED BY <1>2, <1>4, <1>6, ChangedOK

(* A drop leaves nothing, as the last step of a delete and as the step of  *)
(* a reload before its batch.                                              *)
LEMMA DropOK ==
    ASSUME IInv, NEW p \in Procs, Drop(p)
    PROVE  HandlerOK(p)'
<1>1. PICK k \in Keys : k = req[p].key
    BY RequestAssumption DEF Drop, IInv, Typing, LocalOK
<1>2. /\ req' = req
      /\ schemas' = [x \in Keys |-> IF x \in Extends[k] THEN None ELSE schemas[x]]
      /\ objects' = [objects EXCEPT ![k] = [e \in Entries |-> None]]
    BY <1>1 DEF Drop, RecordsUnder
<1>3. schemas'[k] = None /\ \A e \in Entries : objects'[k][e] = None
    BY <1>2, KeysAssumption DEF IInv, Typing, TypeOK
<1>4. CASE req[p].op = "delete" /\ Return(p, Done(None))
    <2>1. pc'[p] = "done"
        BY <1>4 DEF Return, IInv, Typing, TypeOK
    <2>2. TookEffect(p)'
        BY <1>1, <1>2, <1>3, <1>4 DEF TookEffect, Empty
    <2> QED BY <1>2, <1>4, <2>1, <2>2, ChangedOK
<1>5. CASE req[p].op # "delete" /\ Goto(p, "add") /\ UNCHANGED local
    <2>1. pc'[p] = "add" /\ todo'[p] = EntriesOf(sc'[p])
        BY <1>5 DEF Drop, Goto, local, IInv, Typing, TypeOK, LocalOK
    <2>2. QuietBatch(p)'
        BY <1>1, <1>2, <1>3, <2>1 DEF QuietBatch
    <2> QED BY <2>1, <2>2, BatchOK
<1> QED BY <1>4, <1>5 DEF Drop

(* Every step of a change. *)
LEMMA ChangeOK ==
    ASSUME IInv, ClientInv, NEW p \in Procs,
           \/ NewSchema(p) \/ CommitChunk(p) \/ CommitLast(p) \/ CommitFails(p)
           \/ ReloadDeletes(p) \/ Drop(p) \/ DropFails(p)
           \/ CreateSchema(p) \/ ReloadSchema(p) \/ DeleteSchema(p)
    PROVE  HandlerOK(p)'
<1>1. QuietBatch(p) /\ Typing
    BY DEF ClientInv, HandlerOK, IInv
<1>2. CASE CommitFails(p) \/ DropFails(p)
    <2>1. Return(p, Error) /\ req'[p].op # "get"
        BY <1>1, <1>2 DEF CommitFails, DropFails, Typing, LocalOK
    <2> QED BY <1>1, <2>1, RefusedOK
<1>3. CASE ReloadDeletes(p)
    <2>1. req'[p].op # "get" /\ (Return(p, Error) \/ Goto(p, "drop"))
        BY <1>1, <1>3 DEF ReloadDeletes, CheckedDelete, Typing, LocalOK
    <2>2. Goto(p, "drop") => pc'[p] \in {"parse", "recheck", "drop"}
        BY <1>1 DEF Goto, Typing, TypeOK
    <2> QED BY <1>1, <2>1, <2>2, RefusedOK, UnwrittenOK
<1> QED BY <1>1, <1>2, <1>3, NewSchemaOK, CommitChunkOK, CommitLastOK, DropOK, ChangeArrivalOK

-----------------------------------------------------------------------------
(* The steps of a reader.  One that returns a must have answered as the    *)
(* stored schema does, whenever that is promised.                          *)
LEMMA AnsweredOK ==
    ASSUME IInv, NEW p \in Procs, ReaderFinds(p), pc[p] \in Reading,
           UNCHANGED <<db, req, history>>, NEW a, Return(p, a), a.ok /\ req[p].desc => a.desc,
           Steady(p) /\ (WithCache => req[p].key \notin dropped)
               => Answers(a, objects[req[p].key][Root], req[p])
    PROVE  HandlerOK(p)'
<1>1. pc'[p] = "done" /\ rsp'[p] = a /\ req[p].op = "get"
    BY DEF Return, IInv, Typing, TypeOK, LocalOK
<1>2. ExactRead(p)'
    <2> SUFFICES ASSUME Read(p)', (WithCache => req[p].key \notin dropped)'
                 PROVE  ReadIsExact(p)'
        BY DEF ExactRead
    <2>1. Steady(p) /\ (WithCache => req[p].key \notin dropped)
        BY DEF Read, Steady, history
    <2>2. HasSchema(req[p].key)
        BY <2>1 DEF ReaderFinds
    <2> QED BY <1>1, <2>1, <2>2 DEF ReadIsExact, HasSchema, db
<1>3. Described(p)'
    BY <1>1 DEF Described
<1>4. TookEffect(p)'
    BY <1>1 DEF TookEffect
<1> QED BY <1>1, <1>2, <1>3, <1>4 DEF HandlerOK, QuietBatch, ReaderAt, ReaderFinds, Reading

(* A reader that goes on. *)
LEMMA ReadingOK ==
    ASSUME NEW p \in Procs, pc'[p] \in Reading, ReaderAt(p)', ReaderFinds(p)'
    PROVE  HandlerOK(p)'
BY DEF HandlerOK, QuietBatch, TookEffect, ExactRead, Read, Described, Reading

(* The arrival of a read. *)
LEMMA GetSchemaOK ==
    ASSUME IInv, NEW p \in Procs, GetSchema(p)
    PROVE  HandlerOK(p)'
<1>1. PICK q \in Requests :
          /\ q.op = "get" /\ req' = [req EXCEPT ![p] = q]
          /\ IF HasSchema(q.key) THEN Goto(p, "cache") ELSE Return(p, Error)
    BY DEF GetSchema, Start
<1>2. req'[p] = q /\ UNCHANGED db
    BY <1>1 DEF GetSchema, IInv, Typing, TypeOK
<1>3. CASE HasSchema(q.key)
    <2>1. pc'[p] = "cache"
        BY <1>1, <1>3 DEF Goto, IInv, Typing, TypeOK
    <2> QED BY <1>2, <1>3, <2>1, ReadingOK DEF Reading, ReaderAt, ReaderFinds, HasSchema, db
<1>4. CASE ~ HasSchema(q.key)
    <2>1. pc'[p] = "done" /\ ~ rsp'[p].ok
        BY <1>1, <1>4 DEF Return, Error, IInv, Typing, TypeOK
    <2>2. ReadIsExact(p)'
        BY <1>2, <1>4, <2>1 DEF ReadIsExact, HasSchema, db
    <2> QED BY <2>1, <2>2 DEF HandlerOK, QuietBatch, ReaderAt, ReaderFinds, Reading, TookEffect,
                              ExactRead, Described
<1> QED BY <1>3, <1>4

(* A hit answers as a read would; a miss goes on to read. *)
LEMMA CacheGetOK ==
    ASSUME IInv, ClientInv, NEW p \in Procs, CacheGet(p)
    PROVE  HandlerOK(p)'
<1> DEFINE q == req[p]
           hit == cache[CacheKey(q)]
<1>1. /\ pc[p] = "cache" /\ q \in Requests /\ q.op = "get" /\ ReaderFinds(p)
      /\ UNCHANGED <<db, cache, req, history>>
    BY DEF CacheGet, IInv, Typing, LocalOK, Reading, ClientInv, HandlerOK
<1>2. CASE /\ WithCache /\ hit # None
           /\ Return(p, Modified(hit, q))
    <2> DEFINE a == Modified(hit, q)
    <2>1. a.ok /\ a.rev = hit.rev /\ a.entry = hit.entry /\ (q.desc => a.desc)
        <3>1. hit.desc
            BY <1>1, <1>2 DEF ClientInv, CacheDescribed
        <3>2. /\ a.ok /\ a.rev = hit.rev /\ a.entry = hit.entry
              /\ a.desc = (hit.desc /\ (q.desc \/ ~ CacheWithDescription))
            BY DEF Modified, Element
        <3> HIDE DEF a, hit, q
        <3> QED BY <3>1, <3>2
    <2>2. ASSUME Steady(p), WithCache => q.key \notin dropped
          PROVE  Answers(a, objects[q.key][Root], q)
        <3>1. hit.ok /\ Answers(hit, objects[q.key][Root], q)
            BY <1>1, <1>2, <2>2 DEF Steady, ClientInv, CacheOK
        <3> HIDE DEF a, hit, q
        <3> QED BY <2>1, <3>1 DEF Answers
    <2> HIDE DEF a
    <2> QED BY <1>1, <1>2, <2>1, <2>2, AnsweredOK DEF a, Reading
<1>3. CASE /\ Goto(p, IF q.path = <<>> THEN "root"
                      ELSE IF q.mod = NoModule THEN "modules" ELSE "lookup")
           /\ mods' = [mods EXCEPT ![p] = IF q.mod = NoModule THEN {} ELSE {q.mod}]
    <2>1. /\ pc'[p] = IF q.path = <<>> THEN "root"
                      ELSE IF q.mod = NoModule THEN "modules" ELSE "lookup"
          /\ mods'[p] = IF q.mod = NoModule THEN {} ELSE {q.mod}
        BY <1>3 DEF Goto, IInv, Typing, TypeOK
    <2>2. pc'[p] \in Reading /\ pc'[p] \notin {"put", "cache"}
        BY <2>1 DEF Reading
    <2>3. ReaderAt(p)'
        BY <1>1, <2>1 DEF ReaderAt
    <2>4. ReaderFinds(p)'
        <3> SUFFICES ASSUME Steady(p)
                     PROVE  /\ HasSchema(q.key)
                            /\ pc'[p] = "lookup" =>
                                  mods'[p] = SearchedIn(objects[q.key][Root], q)
            BY <1>1, <2>2 DEF ReaderFinds, Steady, HasSchema, db, history
        <3>1. HasSchema(q.key)
            BY <1>1 DEF ReaderFinds, Reading
        <3> QED BY <2>1, <3>1 DEF SearchedIn
    <2> QED BY <2>2, <2>3, <2>4, ReadingOK
<1> QED BY <1>2, <1>3 DEF CacheGet

(* The root and the module list are those of the stored schema. *)
LEMMA RootOK ==
    ASSUME IInv, ClientInv, NEW p \in Procs, ReadRoot(p) \/ GetModules(p)
    PROVE  HandlerOK(p)'
<1> DEFINE q == req[p]
           r == objects[q.key][Root]
<1>1. /\ pc[p] \in Reading /\ q \in Requests /\ q.op = "get" /\ q.key \in Keys
      /\ ReaderFinds(p) /\ ReaderAt(p) /\ UNCHANGED <<db, req, history>>
    BY RequestAssumption DEF ReadRoot, GetModules, IInv, Typing, LocalOK, Reading, ClientInv, HandlerOK
<1>2. Steady(p) => HasSchema(q.key) /\ r # None
    <2> SUFFICES ASSUME Steady(p) PROVE HasSchema(q.key) /\ r # None
        OBVIOUS
    <2>1. HasSchema(q.key) /\ taint[q.key] = {}
        BY <1>1 DEF ReaderFinds, Steady
    <2> QED BY <1>1, <2>1, RecordedIsExact, NoneIsNothing
<1>3. CASE ReadRoot(p)
    <2> DEFINE a == IF r = None THEN Error ELSE Element(r, Root, TRUE)
    <2>1. Return(p, a) /\ q.path = <<>>
        BY <1>1, <1>3 DEF ReadRoot, ReaderAt
    <2>2. a.ok => a.desc
        BY DEF Error, Element
    <2>3. Steady(p) => Answers(a, r, q)
        BY <1>2, <2>1 DEF Answers, Element
    <2> HIDE DEF a
    <2> QED BY <1>1, <2>1, <2>2, <2>3, AnsweredOK
<1>4. CASE GetModules(p)
    <2>1. pc[p] = "modules" /\ q.path # <<>> /\ q.mod = NoModule
        BY <1>1, <1>4 DEF GetModules, ReaderAt
    <2>2. CASE r = None /\ Return(p, Error)
        BY <1>1, <1>2, <2>2, AnsweredOK DEF Error
    <2>3. CASE /\ mods' = [mods EXCEPT ![p] = DOMAIN r] /\ Goto(p, "lookup")
        <3>1. mods'[p] = DOMAIN r /\ pc'[p] = "lookup"
            BY <2>3 DEF Goto, IInv, Typing, TypeOK
        <3>2. ReaderAt(p)'
            BY <1>1, <2>1, <3>1 DEF ReaderAt
        <3>3. ReaderFinds(p)'
            BY <1>1, <1>2, <2>1, <3>1 DEF ReaderFinds, Steady, HasSchema, SearchedIn, db, history
        <3> QED BY <3>1, <3>2, <3>3, ReadingOK DEF Reading
    <2> QED BY <1>4, <2>2, <2>3 DEF GetModules
<1> QED BY <1>3, <1>4

(* The element of the first module that has the path is the answer.        *)
LEMMA FirstAnswers ==
    ASSUME NEW r \in Revs, NEW q \in Requests, q.path # <<>>,
           Reachable(r, q) \in SUBSET Files, Reachable(r, q) # {},
           NEW m, m = First(Reachable(r, q)), NEW a, a.ok, a.rev = r, a.entry = EntryKey(m, q.path)
    PROVE  Answers(a, r, q)
<1> DEFINE M == Reachable(r, q)
<1>1. m \in M /\ \A n \in M \ {m} : Before(m, n)
    BY FirstIsMember
<1>2. \A n \in M : Lex[n] \in Nat
    BY DataAssumption
<1> HIDE DEF M
<1>3. \A n \in M : /\ m \in Deprioritized => n \in Deprioritized
                   /\ m \in Deprioritized \/ n \notin Deprioritized => Lex[m] <= Lex[n]
    <2> SUFFICES ASSUME NEW n \in M
                 PROVE  /\ m \in Deprioritized => n \in Deprioritized
                        /\ m \in Deprioritized \/ n \notin Deprioritized => Lex[m] <= Lex[n]
        OBVIOUS
    <2>1. CASE n = m
        BY <1>2, <2>1
    <2>2. CASE n # m
        BY <1>1, <1>2, <2>2 DEF Before
    <2> QED BY <2>1, <2>2
<1> QED BY <1>1, <1>3 DEF Answers, M

(* The lookup answers from the stored schema. *)
LEMMA LookupOK ==
    ASSUME IInv, ClientInv, NEW p \in Procs, Lookup(p)
    PROVE  HandlerOK(p)'
<1> DEFINE q == req[p]
           k == q.key
           r == objects[k][Root]
           M == Holders(k, mods[p], q.path)
           e == EntryKey(First(M), q.path)
           a == Element(objects[k][e], e, TRUE)
<1>1. /\ pc[p] = "lookup" /\ pc[p] \in Reading /\ q \in Requests /\ q.op = "get" /\ k \in Keys
      /\ q.path # <<>> /\ ReaderFinds(p) /\ UNCHANGED <<db, req, history>>
    BY RequestAssumption
       DEF Lookup, IInv, Typing, LocalOK, Reading, ClientInv, HandlerOK, ReaderAt
<1>2. ASSUME Steady(p)
      PROVE  /\ r \in Revs /\ M = Reachable(r, q) /\ HasSchema(k)
             /\ \A x \in EntriesOf(r) : objects[k][x] = r
    <2>1. HasSchema(k) /\ taint[k] = {} /\ mods[p] = SearchedIn(r, q)
        BY <1>1, <1>2 DEF ReaderFinds, Steady
    <2>2. r \in Revs /\ Exact(k, r) /\ StoredEntries(k) = EntriesOf(r)
        BY <1>1, <2>1, RecordedIsExact
    <2>3. M = Reachable(r, q)
        BY <2>1, <2>2 DEF Holders, SearchedIn, Reachable
    <2> QED BY <2>1, <2>2, <2>3 DEF Exact, Complete
<1>3. M \in SUBSET Files
    BY DEF Holders, IInv, Typing, TypeOK
<1>4. a.ok /\ a.desc /\ a.entry = e /\ a.rev = objects[k][e]
    BY DEF Element
<1>5. ASSUME Steady(p), M # {}
      PROVE  Answers(a, r, q)
    <2>1. First(M) \in M
        BY <1>3, <1>5, FirstIsMember
    <2>2. objects[k][e] = r
        BY <1>2, <1>5, <2>1 DEF Reachable
    <2> HIDE DEF q, r, M, a
    <2> QED BY <1>1, <1>2, <1>3, <1>4, <1>5, <2>2, FirstAnswers
<1>6. ASSUME Steady(p), M = {}
      PROVE  Answers(Error, r, q)
    <2>1. Reachable(r, q) = {}
        BY <1>2, <1>6
    <2> QED BY <1>1, <2>1 DEF Answers, Error
<1> HIDE DEF M, a, r
<1>7. CASE M = {} /\ Return(p, Error)
    BY <1>1, <1>6, <1>7, AnsweredOK DEF Error, r
<1>8. CASE M # {} /\ Return(p, a)
    BY <1>1, <1>4, <1>5, <1>8, AnsweredOK DEF r
<1>9. CASE M # {} /\ rsp' = [rsp EXCEPT ![p] = a] /\ Goto(p, "put")
    <2>1. rsp'[p] = a /\ pc'[p] = "put"
        BY <1>9 DEF Goto, IInv, Typing, TypeOK
    <2>2. ReaderAt(p)'
        BY <1>1, <1>4, <2>1 DEF ReaderAt
    <2>3. ReaderFinds(p)'
        <3> SUFFICES ASSUME Steady(p) PROVE HasSchema(k) /\ a.ok /\ Answers(a, r, q)
            BY <1>1, <2>1 DEF ReaderFinds, Steady, HasSchema, db, history, r
        <3> QED BY <1>2, <1>4, <1>5, <1>9
    <2> QED BY <2>1, <2>2, <2>3, ReadingOK DEF Reading
<1> QED BY <1>7, <1>8, <1>9 DEF Lookup, M, a

(* An answer goes into the cache and to the client. *)
LEMMA CacheSetOK ==
    ASSUME IInv, ClientInv, NEW p \in Procs, CacheSet(p)
    PROVE  HandlerOK(p)' /\ CacheOK' /\ CacheDescribed'
<1> DEFINE q == req[p]
           a == rsp[p]
<1>1. /\ pc[p] = "put" /\ pc[p] \in Reading /\ q \in Requests /\ q.op = "get" /\ q.key \in Keys
      /\ q.path # <<>> /\ ReaderFinds(p) /\ a.desc /\ UNCHANGED <<db, req, history>>
      /\ Return(p, a) /\ cache' = [cache EXCEPT ![CacheKey(q)] = a]
    BY RequestAssumption
       DEF CacheSet, IInv, Typing, LocalOK, Reading, ClientInv, HandlerOK, ReaderAt
<1>2. Steady(p) => HasSchema(q.key) /\ a.ok /\ Answers(a, objects[q.key][Root], q)
    BY <1>1 DEF ReaderFinds
<1>3. HandlerOK(p)'
    BY <1>1, <1>2, AnsweredOK
<1>4. CacheOK'
    <2> SUFFICES ASSUME NEW x \in Requests, x.op = "get", taint'[x.key] = {},
                        x.key \notin dropped', cache'[CacheKey(x)] # None
                 PROVE  /\ HasSchema(x.key)' /\ cache'[CacheKey(x)].ok
                        /\ Answers(cache[CacheKey(x)], objects[x.key][Root], x)'
        BY DEF CacheOK, CacheKey
    <2>1. CASE CacheKey(x) = CacheKey(q)
        <3>1. x.key = q.key /\ x.mod = q.mod /\ x.path = q.path
            BY <2>1 DEF CacheKey
        <3>2. Steady(p)
            BY <1>1, <3>1 DEF Steady, history
        <3>3. CacheKey(q) \in Keys \X PathRequests
            BY <1>1 DEF CacheKey, PathRequests
        <3>4. cache'[CacheKey(x)] = a
            BY <1>1, <2>1, <3>3 DEF IInv, Typing, TypeOK
        <3>5. Reachable(objects[q.key][Root], x) = Reachable(objects[q.key][Root], q)
            BY <3>1 DEF Reachable
        <3>6. Answers(a, objects[q.key][Root], x)
            BY <1>2, <3>1, <3>2, <3>5 DEF Answers
        <3> QED BY <1>1, <1>2, <3>1, <3>2, <3>4, <3>6 DEF HasSchema, db, CacheKey
    <2>2. CASE CacheKey(x) # CacheKey(q)
        <3>1. cache'[CacheKey(x)] = cache[CacheKey(x)]
            BY <1>1, <2>2 DEF IInv, Typing, TypeOK
        <3> QED BY <3>1, CacheStays DEF Handler
    <2> QED BY <2>1, <2>2
<1>5. CacheDescribed'
    <2> SUFFICES ASSUME NEW x \in Requests, x.op = "get", cache'[CacheKey(x)] # None
                 PROVE  cache'[CacheKey(x)].desc
        BY DEF CacheDescribed, CacheKey
    <2>1. CacheKey(x) \in Keys \X PathRequests
        BY RequestAssumption DEF CacheKey, PathRequests
    <2>2. cache'[CacheKey(x)] \in {a, cache[CacheKey(x)]}
        BY <1>1, <2>1 DEF IInv, Typing, TypeOK
    <2> QED BY <1>1, <2>2 DEF ClientInv, CacheDescribed
<1> QED BY <1>3, <1>4, <1>5

(* Every step preserves the inductive invariant. *)
LEMMA NextClientInv == IInv /\ ClientInv /\ [Next]_vars => ClientInv'
<1> SUFFICES ASSUME IInv, ClientInv, [Next]_vars PROVE ClientInv'
    OBVIOUS
<1>1. ASSUME NEW p \in Procs, Handler(p) \/ Arrival(p) PROVE ClientInv'
    <2>1. \A o \in Procs \ {p} : HandlerOK(o)'
        BY <1>1, OthersOK
    <2>2. HandlerOK(p)'
        BY <1>1, ChangeOK, GetSchemaOK, CacheGetOK, RootOK, LookupOK, CacheSetOK
           DEF Handler, Arrival
    <2>3. CacheOK' /\ CacheDescribed'
        <3>1. CASE CacheSet(p)
            BY <3>1, CacheSetOK
        <3>2. CASE ~ CacheSet(p)
            <4>1. cache' = cache
                BY <1>1, <3>2 DEF Handler, Arrival, NewSchema, CommitChunk, CommitLast,
                   CommitFails, ReloadDeletes, Drop, DropFails, CacheGet, ReadRoot, GetModules,
                   Lookup, CreateSchema, ReloadSchema, DeleteSchema, GetSchema
            <4>2. CacheDescribed'
                BY <4>1 DEF ClientInv, CacheDescribed, CacheKey
            <4> SUFFICES ASSUME NEW x \in Requests, x.op = "get", taint'[x.key] = {},
                                x.key \notin dropped', cache'[CacheKey(x)] # None
                         PROVE  /\ HasSchema(x.key)' /\ cache'[CacheKey(x)].ok
                                /\ Answers(cache[CacheKey(x)], objects[x.key][Root], x)'
                BY <4>2 DEF CacheOK, CacheKey
            <4> QED BY <1>1, <4>1, CacheStays
        <3> QED BY <3>1, <3>2
    <2> QED BY <2>1, <2>2, <2>3 DEF ClientInv
<1>2. ASSUME UNCHANGED <<db, pc, req, rsp, local, history>>,
             \A q \in Requests : q.op = "get" =>
                 cache'[CacheKey(q)] \in {None, cache[CacheKey(q)]}
      PROVE  ClientInv'
    <2>1. \A p \in Procs : HandlerOK(p)'
        BY <1>2 DEF ClientInv, HandlerOK, QuietBatch, ReaderAt, ReaderFinds, TookEffect, ExactRead,
           Described, Steady, Read, ReadIsExact, HasSchema, Complete, Exact, Empty,
           db, local, history
    <2>2. CacheOK'
        BY <1>2 DEF ClientInv, CacheOK, HasSchema, CacheKey, db, history
    <2>3. CacheDescribed'
        BY <1>2 DEF ClientInv, CacheDescribed, CacheKey
    <2> QED BY <2>1, <2>2, <2>3 DEF ClientInv
<1>3. \A q \in Requests : q.op = "get" => CacheKey(q) \in Keys \X PathRequests
    BY RequestAssumption DEF CacheKey, PathRequests
<1>4. CASE UNCHANGED vars \/ EditFiles
    BY <1>2, <1>4 DEF vars, EditFiles, db, local, history, CacheKey
<1>5. CASE Evict
    <2>1. \A q \in Requests : q.op = "get" =>
              cache'[CacheKey(q)] \in {None, cache[CacheKey(q)]}
        BY <1>3, <1>5 DEF Evict, IInv, Typing, TypeOK
    <2> QED BY <1>2, <1>5, <2>1 DEF Evict
<1>6. CASE Crash
    <2>1. \A p \in Procs : HandlerOK(p)'
        BY <1>6 DEF Crash, HandlerOK, QuietBatch, ReaderAt, ReaderFinds, Reading, TookEffect,
                    ExactRead, Read, Described
    <2>2. CacheOK' /\ CacheDescribed'
        BY <1>3, <1>6 DEF Crash, CacheOK, CacheDescribed, CacheKey
    <2> QED BY <2>1, <2>2 DEF ClientInv
<1> QED BY <1>1, <1>4, <1>5, <1>6 DEF Next

(* The inductive invariant holds in every state the store reaches. *)
THEOREM ClientInvariance == Spec => []ClientInv
BY InitClientInv, NextClientInv, Invariance, PTL DEF Spec

(* A create, reload or delete that reports success has done what it says   *)
(* and its effect stays until another request writes the schema; a reload  *)
(* leaves nothing of what was there, whatever failed before.               *)
THEOREM WritesTakeEffect == Spec => []WriteTookEffect
BY ClientProperties, ClientInvariance, PTL

(* A read of a clean schema nobody writes meanwhile returns the element of *)
(* the stored schema that the order of the modules prefers, from the cache *)
(* or from the database, or an error when there is none.                   *)
THEOREM QuietReadsAreExact == Spec => []QuietReadIsExact
BY ClientProperties, ClientInvariance, PTL

(* A request for descriptions gets them, from the cache too, whoever asked *)
(* before and whatever was removed from the answers to others.             *)
THEOREM DescriptionsOnRequest == Spec => []DescriptionOnRequest
BY ClientProperties, ClientInvariance, PTL

=============================================================================
