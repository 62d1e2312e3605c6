---------------------------- MODULE ServerProofs ----------------------------
(***************************************************************************)
(* Proofs about Server: the loaders of every start of the process keep the *)
(* invariant of the store, leave what is stored alone, and are done before *)
(* the first request is served.                                            *)
(***************************************************************************)
EXTENDS Server, PersistStoreProofs

(* The phases of the process, and who may be running in them: nobody while *)
(* the process is down or has just come up, the loaders alone while they   *)
(* load.                                                                   *)
Phases ==
    /\ phase \in {"down", "opening", "loading", "serving"}
    /\ locked \in BOOLEAN
    /\ phase = "down" => ~ locked
    /\ phase \in {"loading", "serving"} => locked
    /\ ~ locked => \A p \in Procs : pc[p] = "idle"
    /\ phase = "loading" => \A p \in Procs \ Loaders : pc[p] = "idle"
    /\ phase = "serving" => Loaded

(* A loader does nothing but create the schema it is configured for, and   *)
(* what it reports to have loaded is there until somebody writes it.       *)
LoaderOK(p) ==
    /\ pc[p] # "idle" => req[p] = Configured[p]
    /\ pc[p] = "done" /\ rsp[p].ok /\ quiet[p] => HasSchema(Configured[p].key)

LoadersOK == \A p \in Loaders : LoaderOK(p)

(* Schema k is there, about to be there, or accounted for. *)
Served(k) == HasSchema(k) \/ k \in lost \/ \E o \in Procs : Adding(o, k)

(* A configured schema is served from the moment its loader is done, until *)
(* the process has to start over.                                          *)
ServedOnceLoaded ==
    phase \in {"loading", "serving"} =>
        \A p \in Loaders : pc[p] = "done" => Served(Configured[p].key)

ServerInv == IInv /\ Phases /\ LoadersOK /\ ServedOnceLoaded

-----------------------------------------------------------------------------
(* The loaders and the store *)

(* A loader's request is a valid create. *)
LEMMA ConfiguredFacts ==
    ASSUME NEW p \in Loaders
    PROVE  /\ p \in Procs /\ Configured[p] \in Requests /\ Configured[p].op = "create"
           /\ Configured[p].key \in Keys /\ Configured[p].files \in {Dir} \union SUBSET Files
<1>1. p \in Procs /\ Configured[p] \in Requests /\ Configured[p].op = "create"
    BY LoadersAssumption
<1> QED BY <1>1, RequestAssumption

(* A loader that starts keeps the types. *)
LEMMA LoadTyping ==
    ASSUME NEW p \in Loaders, Load(p), Typing
    PROVE  Typing'
<1>1. PICK q \in Requests :
          /\ q = Configured[p] /\ q.op = "create" /\ q.key \in Keys
          /\ q.files \in {Dir} \union SUBSET Files
    BY ConfiguredFacts
<1>2. /\ p \in Procs /\ UNCHANGED <<disk, db, cache, dropped>>
      /\ req' = [req EXCEPT ![p] = q] /\ Arrive(p, q)
      /\ Contend(p, q.key) \/ UNCHANGED taint
    BY <1>1, ConfiguredFacts DEF Load
<1>3. taint' \in [Keys -> SUBSET Taints] /\ quiet' \in [Procs -> BOOLEAN]
    BY <1>1, <1>2, ArriveTyping, ContendTyping
<1>4. CASE Return(p, Done(None))
    <2>1. TypeOK'
        BY <1>2, <1>3, <1>4, RepliesTyped, ReturnTyping DEF db, Typing, TypeOK
    <2>2. LocalOK'
        BY <1>2, <1>4, RepliesTyped, ReturnLocal
    <2> QED BY <2>1, <2>2 DEF Typing
<1>5. CASE /\ Goto(p, "parse") /\ src' = [src EXCEPT ![p] = q.files]
           /\ UNCHANGED <<rsp, sc, todo, mods>>
    <2>1. TypeOK'
        BY <1>1, <1>2, <1>3, <1>5 DEF db, Goto, Typing, TypeOK, InWindow
    <2>2. LocalOK'
        BY <1>1, <1>2, <1>5 DEF Goto, Typing, TypeOK, LocalOK, Reading
    <2> QED BY <2>1, <2>2 DEF Typing
<1> QED BY <1>1, <1>4, <1>5 DEF Load

(* A loader that starts leaves the variables of the others alone. *)
LEMMA LoadFrame ==
    ASSUME NEW p \in Loaders, Load(p), Typing
    PROVE  /\ pc[p] = "idle" /\ phase = "loading"
           /\ UNCHANGED <<db, process>> /\ req' = [req EXCEPT ![p] = Configured[p]]
           /\ \A o \in Procs \ {p} : /\ pc'[o] = pc[o] /\ req'[o] = req[o] /\ rsp'[o] = rsp[o]
                                     /\ sc'[o] = sc[o] /\ todo'[o] = todo[o]
                                     /\ quiet'[o] = quiet[o]
<1>1. p \in Procs
    BY ConfiguredFacts
<1> QED BY <1>1 DEF Load, Arrive, Return, Goto, Typing, TypeOK

(* A loader that starts preserves the inductive invariant of the store. *)
LEMMA LoadIInv ==
    ASSUME NEW p \in Loaders, Load(p), IInv
    PROVE  IInv'
<1>1. Typing'
    BY LoadTyping DEF IInv
<1>2. PICK q \in Requests : q = Configured[p] /\ p \in Procs
    BY ConfiguredFacts
<1>3. /\ pc[p] = "idle" /\ req' = [req EXCEPT ![p] = q] /\ UNCHANGED db
      /\ \A o \in Procs \ {p} : sc'[o] = sc[o] /\ todo'[o] = todo[o]
    BY <1>2, LoadFrame DEF IInv
<1>4. \/ pc' = [pc EXCEPT ![p] = "done"] /\ UNCHANGED taint
      \/ /\ pc' = [pc EXCEPT ![p] = "parse"]
         /\ q.op = "create" => ~ HasSchema(q.key)
         /\ Contend(p, q.key)
    BY <1>2 DEF Load, Return, Goto
<1>5. CASE pc' = [pc EXCEPT ![p] = "done"] /\ UNCHANGED taint
    BY <1>1, <1>2, <1>3, <1>5, BeginIInv
<1>6. CASE /\ pc' = [pc EXCEPT ![p] = "parse"]
           /\ q.op = "create" => ~ HasSchema(q.key)
           /\ Contend(p, q.key)
    BY <1>1, <1>2, <1>3, <1>6, BeginIInv
<1> QED BY <1>4, <1>5, <1>6

(* Apart from the loaders' first step, the server only does what the store *)
(* does.                                                                   *)
LEMMA StoreStep ==
    ASSUME ServerNext \/ UNCHANGED allVars
    PROVE  [Next]_vars \/ \E p \in Loaders : Load(p)
<1>1. CASE UNCHANGED allVars
    BY <1>1 DEF allVars
<1>2. CASE Boot \/ Startup \/ ServeFails \/ Killed
    BY <1>2 DEF Startup, Boot, OpenDB, OpenDBFails, Serve, ServeFails, Killed, Exit, Next
<1>3. CASE \E p \in Procs : HandlerStep(p)
    BY <1>3 DEF HandlerStep, Next
<1>4. CASE \E p \in Procs \ Loaders : Request(p)
    BY <1>4 DEF Request, Next
<1>5. CASE Evict \/ EditFiles
    BY <1>5 DEF Next
<1> QED BY <1>1, <1>2, <1>3, <1>4, <1>5 DEF ServerNext

-----------------------------------------------------------------------------
(* The phases and the loaders *)

(* A handler that takes a step is busy; its request stays. *)
LEMMA HandlerBusy ==
    ASSUME NEW p \in Procs, Handler(p)
    PROVE  pc[p] \in InWindow \union Reading /\ req' = req
BY DEF Handler, NewSchema, CommitChunk, CommitLast, CommitFails, ReloadDeletes, Drop, DropFails,
       CacheGet, ReadRoot, GetModules, Lookup, CacheSet, InWindow, Reading

(* A loader only parses and adds, and reports success when it has added. *)
LEMMA LoaderStep ==
    ASSUME NEW p \in Loaders, Handler(p), IInv, LoadersOK
    PROVE  LoaderOK(p)'
<1>1. p \in Procs /\ pc[p] \in InWindow \union Reading /\ req' = req
    BY ConfiguredFacts, HandlerBusy
<1>2. req[p] = Configured[p] /\ req[p].op = "create" /\ req[p].key \in Keys
    BY <1>1, ConfiguredFacts DEF LoadersOK, LoaderOK, InWindow, Reading
<1>3. pc[p] \in {"parse", "add"}
    BY <1>1, <1>2 DEF IInv, Typing, LocalOK, InWindow, Reading
<1>4. NewSchema(p) \/ CommitChunk(p) \/ CommitLast(p) \/ CommitFails(p)
    BY <1>3 DEF Handler, ReloadDeletes, Drop, DropFails, CacheGet, ReadRoot, GetModules, Lookup,
                CacheSet
<1>5. CASE CommitLast(p)
    <2>1. schemas'[req[p].key] = DOMAIN sc[p] /\ DOMAIN sc[p] # None
        BY <1>1, <1>2, <1>5, BatchFacts, NoneIsNothing DEF CommitLast, IInv, Typing, TypeOK
    <2> QED BY <1>1, <1>2, <2>1 DEF LoaderOK, HasSchema
<1>6. CASE NewSchema(p) \/ CommitChunk(p) \/ CommitFails(p)
    <2>1. pc'[p] # "done" \/ rsp'[p] = Error
        BY <1>1, <1>3, <1>6 DEF NewSchema, CommitChunk, CommitFails, Return, Goto,
                                IInv, Typing, TypeOK
    <2> QED BY <1>1, <1>2, <2>1 DEF LoaderOK, Error
<1> QED BY <1>4, <1>5, <1>6

(* What a loader knows survives the steps of the other handlers.           *)
LEMMA LoaderKept ==
    ASSUME NEW o \in Loaders, LoaderOK(o), IInv, NEW p \in Procs \ {o}, Handler(p) \/ Arrival(p)
    PROVE  LoaderOK(o)'
<1>1. /\ pc'[o] = pc[o] /\ req'[o] = req[o] /\ rsp'[o] = rsp[o] /\ o \in Procs
    BY OthersKept, ConfiguredFacts DEF IInv
<1>2. PICK K \in SUBSET Keys : Footprint(p, K)
    BY FootprintExists DEF IInv
<1>3. pc[o] = "done" /\ quiet'[o] =>
          quiet[o] /\ schemas'[Configured[o].key] = schemas[Configured[o].key]
    BY <1>1, <1>2, ConfiguredFacts DEF Footprint, LoaderOK
<1> QED BY <1>1, <1>3 DEF LoaderOK, HasSchema

(* A handler takes a record away only in a drop; its own schema it writes  *)
(* again or accounts for, the others it accounts for.                      *)
LEMMA StaysServed ==
    ASSUME NEW p \in Procs, HandlerStep(p), IInv, NEW k \in Keys, Served(k)
    PROVE  Served(k)'
<1>1. Handler(p) /\ req' = req /\ pc[p] \in InWindow \union Reading
    BY HandlerBusy DEF HandlerStep
<1>2. \A o \in Procs \ {p} : pc'[o] = pc[o]
    BY <1>1, OthersKept DEF IInv
<1>3. SUFFICES ASSUME schemas'[k] = None, k \notin lost, k \notin Accounted(p)
               PROVE  \E o \in Procs : Adding(o, k)'
    BY DEF HandlerStep, Served, HasSchema
<1>4. CASE \E o \in Procs \ {p} : Adding(o, k)
    BY <1>1, <1>2, <1>4 DEF Adding
<1>5. CASE Adding(p, k)
    <2>1. pc[p] = "add" /\ req[p].key = k /\ pc'[p] # "done"
        BY <1>3, <1>5 DEF Adding, Accounted
    <2>2. CommitChunk(p)
        <3>1. CommitChunk(p) \/ CommitLast(p) \/ CommitFails(p)
            BY <1>1, <2>1 DEF Handler, NewSchema, ReloadDeletes, Drop, DropFails, CacheGet,
                              ReadRoot, GetModules, Lookup, CacheSet
        <3> QED BY <2>1, <3>1 DEF CommitLast, CommitFails, Return, IInv, Typing, TypeOK
    <2>3. Adding(p, k)'
        BY <1>1, <2>1, <2>2 DEF CommitChunk, Adding
    <2> QED BY <2>3
<1>6. CASE HasSchema(k)
    <2>1. req[p].key = k
        BY <1>3, <1>6 DEF Accounted
    <2>2. CommitLast(p) \/ Drop(p) \/ DropFails(p)
        BY <1>1, <1>3, <1>6 DEF Handler, NewSchema, CommitChunk, CommitFails, ReloadDeletes,
                    CacheGet, ReadRoot, GetModules, Lookup, CacheSet, db, HasSchema
    <2>3. pc[p] \in {"add", "drop"} /\ pc'[p] # "done"
        BY <1>3, <2>1, <2>2 DEF CommitLast, Drop, DropFails, Accounted
    <2>4. Drop(p) /\ pc' = [pc EXCEPT ![p] = "add"]
        BY <2>2, <2>3 DEF CommitLast, Drop, DropFails, Return, Goto, IInv, Typing, TypeOK
    <2>5. Adding(p, k)'
        BY <1>1, <2>1, <2>4 DEF Adding, IInv, Typing, TypeOK
    <2> QED BY <2>5
<1> QED BY <1>3, <1>4, <1>5, <1>6 DEF Served

(* A loader that ends has stored its schema or accounts for it. *)
LEMMA LoaderServed ==
    ASSUME NEW p \in Loaders, HandlerStep(p), LoadersOK, pc'[p] = "done"
    PROVE  Served(Configured[p].key)'
<1>1. p \in Procs /\ Configured[p].key \in Keys /\ Handler(p)
    BY ConfiguredFacts DEF HandlerStep
<1>2. pc[p] # "idle"
    BY <1>1, HandlerBusy DEF InWindow, Reading
<1>3. req[p].key = Configured[p].key
    BY <1>2 DEF LoadersOK, LoaderOK
<1>4. Configured[p].key \in Accounted(p)
    BY <1>1, <1>3 DEF Accounted
<1> QED BY <1>4 DEF HandlerStep, Served, HasSchema

(* The steps of the process itself. *)
LEMMA ProcessStep ==
    ASSUME ServerInv, Boot \/ Startup \/ ServeFails \/ Killed
    PROVE  Phases' /\ LoadersOK' /\ ServedOnceLoaded'
<1>1. CASE Boot \/ OpenDB \/ Serve \/ ServeFails
    <2>1. UNCHANGED <<pc, req, rsp, quiet, schemas, lost>>
        BY <1>1 DEF Boot, OpenDB, Serve, ServeFails, vars
    <2>2. LoadersOK'
        BY <2>1 DEF ServerInv, LoadersOK, LoaderOK, HasSchema
    <2>3. Phases'
        BY <1>1, <2>1 DEF Boot, OpenDB, Serve, ServeFails, ServerInv, Phases, Loaded
    <2>4. ServedOnceLoaded'
        <3>1. CASE phase \in {"loading", "serving"}
            BY <2>1, <3>1 DEF ServerInv, ServedOnceLoaded, Served, Adding, HasSchema
        <3>2. CASE phase = "opening" /\ ~ locked
            BY <2>1, <3>2, ConfiguredFacts DEF ServerInv, Phases, ServedOnceLoaded
        <3>3. CASE phase' \notin {"loading", "serving"}
            BY <3>3 DEF ServedOnceLoaded
        <3> QED BY <1>1, <3>1, <3>2, <3>3 DEF Boot, OpenDB, Serve, ServeFails
    <2> QED BY <2>2, <2>3, <2>4
<1>2. CASE OpenDBFails \/ Killed
    <2>1. phase' = "down" /\ locked' = FALSE /\ \A p \in Procs : pc'[p] = "idle"
        BY <1>2 DEF OpenDBFails, Killed, Exit, Crash
    <2> QED BY <2>1, ConfiguredFacts DEF Phases, LoadersOK, LoaderOK, Loaded, ServedOnceLoaded
<1> QED BY <1>1, <1>2 DEF Startup

(* Every step of the server preserves the inductive invariant. *)
LEMMA NextServerInv == ServerInv /\ [ServerNext]_allVars => ServerInv'
<1> SUFFICES ASSUME ServerInv, ServerNext \/ UNCHANGED allVars PROVE ServerInv'
    OBVIOUS
<1>1. IInv'
    BY StoreStep, LoadIInv, NextIInv DEF ServerInv
<1>2. CASE Boot \/ Startup \/ ServeFails \/ Killed
    BY <1>1, <1>2, ProcessStep DEF ServerInv
<1>3. ASSUME UNCHANGED <<pc, req, rsp, quiet, schemas, process>>
      PROVE  Phases' /\ LoadersOK' /\ ServedOnceLoaded'
    BY <1>3 DEF ServerInv, Phases, Loaded, LoadersOK, LoaderOK, HasSchema, process,
                ServedOnceLoaded, Served, Adding
<1>4. CASE UNCHANGED allVars
    BY <1>1, <1>3, <1>4 DEF allVars, vars, ServerInv
<1>5. CASE (Evict \/ EditFiles) /\ UNCHANGED process
    BY <1>1, <1>3, <1>5 DEF Evict, EditFiles, db, history, ServerInv
<1>6. ASSUME NEW p \in Loaders, Load(p)
      PROVE  Phases' /\ LoadersOK' /\ ServedOnceLoaded'
    <2>1. /\ p \in Procs /\ phase = "loading" /\ UNCHANGED <<db, process>>
          /\ req' = [req EXCEPT ![p] = Configured[p]]
          /\ \A o \in Procs \ {p} : /\ pc'[o] = pc[o] /\ req'[o] = req[o] /\ rsp'[o] = rsp[o]
                                    /\ quiet'[o] = quiet[o]
        BY <1>6, LoadFrame, ConfiguredFacts DEF ServerInv, IInv
    <2>2. Phases'
        BY <1>6, <2>1 DEF ServerInv, Phases, process
    <2>3. LoaderOK(p)'
        <3>1. req'[p] = Configured[p]
            BY <2>1 DEF ServerInv, IInv, Typing, TypeOK
        <3>2. HasSchema(Configured[p].key) \/ pc'[p] = "parse"
            BY <1>6, <2>1 DEF Load, Goto, ServerInv, IInv, Typing, TypeOK
        <3> QED BY <2>1, <3>1, <3>2 DEF LoaderOK, HasSchema, db
    <2>4. \A o \in Loaders \ {p} : LoaderOK(o)'
        BY <2>1, ConfiguredFacts DEF ServerInv, LoadersOK, LoaderOK, HasSchema, db
    <2>5. ServedOnceLoaded'
        <3>1. ASSUME NEW k \in Keys, Served(k) PROVE Served(k)'
            BY <1>6, <2>1, <3>1, LoadFrame DEF Served, Adding, HasSchema, db, process, ServerInv, IInv
        <3>2. HasSchema(Configured[p].key) \/ pc'[p] = "parse"
            BY <1>6, <2>1 DEF Load, Goto, ServerInv, IInv, Typing, TypeOK
        <3>3. pc'[p] = "done" => Served(Configured[p].key)
            BY <3>2 DEF Served
        <3> QED BY <2>1, <3>1, <3>3, ConfiguredFacts DEF ServerInv, ServedOnceLoaded, process
    <2> QED BY <2>2, <2>3, <2>4, <2>5 DEF LoadersOK
<1>7. ASSUME NEW p \in Procs, HandlerStep(p)
      PROVE  Phases' /\ LoadersOK' /\ ServedOnceLoaded'
    <2>1. /\ Handler(p) /\ UNCHANGED <<phase, locked, failures>> /\ pc[p] \notin {"idle", "done"}
          /\ \A o \in Procs \ {p} : pc'[o] = pc[o]
        BY <1>7, HandlerBusy, OthersKept
           DEF HandlerStep, InWindow, Reading, ServerInv, IInv
    <2>2. locked /\ (phase = "loading" => p \in Loaders) /\ (phase = "serving" => p \notin Loaders)
        BY <2>1 DEF ServerInv, Phases, Loaded
    <2>3. Phases'
        BY <2>1, <2>2, ConfiguredFacts DEF ServerInv, Phases, Loaded
    <2>4. LoadersOK'
        BY <2>1, LoaderStep, LoaderKept DEF ServerInv, LoadersOK
    <2>5. ServedOnceLoaded'
        BY <1>7, <2>1, StaysServed, LoaderServed, ConfiguredFacts DEF ServerInv, ServedOnceLoaded
    <2> QED BY <2>3, <2>4, <2>5
<1>8. ASSUME NEW p \in Procs \ Loaders, Request(p)
      PROVE  Phases' /\ LoadersOK' /\ ServedOnceLoaded'
    <2>1. /\ Arrival(p) /\ UNCHANGED process /\ phase = "serving"
          /\ \A o \in Procs \ {p} : pc'[o] = pc[o]
        BY <1>8, OthersKept DEF Request, ServerInv, IInv
    <2>2. Phases'
        BY <1>8, <2>1, ConfiguredFacts DEF ServerInv, Phases, Loaded, process
    <2>3. LoadersOK'
        BY <1>8, <2>1, LoaderKept DEF ServerInv, LoadersOK
    <2>4. ServedOnceLoaded'
        <3>1. UNCHANGED <<schemas, lost>> /\ pc[p] \in {"idle", "done"}
            BY <2>1 DEF Arrival, CreateSchema, ReloadSchema, DeleteSchema, GetSchema, Start,
                        db, process
        <3>2. ASSUME NEW k \in Keys, Served(k) PROVE Served(k)'
            BY <1>8, <2>1, <3>1, <3>2, OthersKept DEF Served, Adding, HasSchema, ServerInv, IInv
        <3> QED BY <1>8, <2>1, <3>2, ConfiguredFacts DEF ServerInv, ServedOnceLoaded, process
    <2> QED BY <2>2, <2>3, <2>4
<1> QED BY <1>1, <1>2, <1>4, <1>5, <1>6, <1>7, <1>8 DEF ServerNext, ServerInv

(* The inductive invariant holds before the first start. *)
LEMMA InitServerInv == ServerInit => ServerInv
<1> SUFFICES ASSUME ServerInit PROVE ServerInv
    OBVIOUS
<1>1. IInv
    BY InitIInv DEF ServerInit
<1>2. Phases /\ LoadersOK /\ ServedOnceLoaded
    BY ConfiguredFacts DEF ServerInit, Init, Phases, LoadersOK, LoaderOK, ServedOnceLoaded
<1> QED BY <1>1, <1>2 DEF ServerInv

(* The inductive invariant holds in every state the server reaches: the    *)
(* loaders of every start keep what the store promises.                    *)
THEOREM ServerInvariance == ServerSpec => []ServerInv
BY InitServerInv, NextServerInv, PTL DEF ServerSpec

(* Before the first request is served every configured schema whose loader *)
(* did not fail is stored with all its entries, however often the process  *)
(* was killed while it loaded.                                             *)
THEOREM ServingMeansSchemasLoaded == ServerSpec => []ServingMeansLoaded
<1>1. ServerInv => ServingMeansLoaded
    BY ConfiguredFacts
       DEF ServerInv, Phases, Loaded, LoadersOK, LoaderOK, IInv, RecordedIsComplete,
           ServingMeansLoaded
<1> QED BY <1>1, ServerInvariance, PTL

(* While the server serves, a configured schema that is not there is being *)
(* written again by a reload, or its loss was answered or logged: parses   *)
(* that fail and ends of the process lose none.                            *)
THEOREM ConfiguredSchemasAreServed == ServerSpec => []ConfiguredAreServed
<1>1. ServerInv => ConfiguredAreServed
    BY DEF ServerInv, Phases, Loaded, ServedOnceLoaded, Served, ConfiguredAreServed
<1> QED BY <1>1, ServerInvariance, PTL

(* While the server loads, no step changes a schema that has a record. *)
LEMMA LoadingWrites ==
    ASSUME ServerInv, ServerNext \/ UNCHANGED allVars, phase = "loading",
           NEW k \in Keys, HasSchema(k), "contended" \notin taint[k]
    PROVE  schemas'[k] = schemas[k] /\ objects'[k] = objects[k]
<1>1. CASE UNCHANGED db
    BY <1>1 DEF db
<1>2. ASSUME NEW p \in Procs, HandlerStep(p), ~ UNCHANGED db
      PROVE  schemas'[k] = schemas[k] /\ objects'[k] = objects[k]
    <2>1. Handler(p) /\ pc[p] \notin {"idle", "done"}
        BY <1>2, HandlerBusy DEF HandlerStep, InWindow, Reading
    <2>2. p \in Loaders /\ req[p].op = "create"
        BY <2>1, ConfiguredFacts DEF ServerInv, Phases, LoadersOK, LoaderOK
    <2>3. pc[p] # "drop"
        BY <2>2 DEF ServerInv, IInv, Typing, LocalOK
    <2>4. CommitChunk(p) \/ CommitLast(p)
        BY <1>2, <2>1, <2>3 DEF Handler, NewSchema, CommitFails, ReloadDeletes, Drop, DropFails,
                    CacheGet, ReadRoot, GetModules, Lookup, CacheSet
    <2>5. pc[p] = "add" /\ req[p].key # k
        BY <2>4 DEF CommitChunk, CommitLast, ServerInv, IInv, Pending, HasSchema
    <2> QED BY <2>4, <2>5 DEF CommitChunk, CommitLast, Store, ServerInv, IInv, Typing, TypeOK
<1>3. UNCHANGED db \/ \E p \in Procs : HandlerStep(p)
    <2>1. CASE UNCHANGED allVars
        BY <2>1 DEF allVars, vars, db
    <2>2. CASE Boot \/ Startup \/ ServeFails \/ Killed
        BY <2>2 DEF Startup, Boot, OpenDB, OpenDBFails, Serve, ServeFails, Killed, Exit, Crash,
                    vars, db
    <2>3. CASE \E p \in Loaders : Load(p)
        BY <2>3 DEF Load
    <2>4. CASE Evict \/ EditFiles
        BY <2>4 DEF Evict, EditFiles
    <2>5. CASE \E p \in Procs \ Loaders : Request(p)
        BY <2>5 DEF Request
    <2> QED BY <2>1, <2>2, <2>3, <2>4, <2>5 DEF ServerNext
<1> QED BY <1>1, <1>2, <1>3

(* Starting again changes nothing that is stored: whatever became of its   *)
(* files, a schema that has a record keeps record and entries while the    *)
(* server loads.                                                           *)
THEOREM StartupKeepsSchemas == ServerSpec => StartupKeepsStored
<1>1. ServerInv /\ [ServerNext]_allVars =>
          [phase = "loading" =>
              \A k \in Keys :
                 HasSchema(k) /\ "contended" \notin taint[k]
                    => schemas'[k] = schemas[k] /\ objects'[k] = objects[k]]_allVars
    BY LoadingWrites
<1> QED BY <1>1, ServerInvariance, PTL DEF ServerSpec, StartupKeepsStored

(* The store of a server that is started again and again, and killed at    *)
(* any moment, keeps the promise that a recorded schema is complete.       *)
THEOREM RestartsKeepSchemasComplete == ServerSpec => [](RecordedIsComplete /\ StoredExactly)
<1>1. ServerInv => RecordedIsComplete /\ StoredExactly
    BY DEF ServerInv, IInv
<1> QED BY <1>1, ServerInvariance, PTL

=============================================================================
