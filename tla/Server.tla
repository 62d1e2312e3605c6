------------------------------- MODULE Server -------------------------------
(***************************************************************************)
(* The life of the server process over its persistent store (main.go,      *)
(* pkg/server/server.go): open the database, load the configured schemas   *)
(* in goroutines of their own, serve, and, when serving fails, start over  *)
(* in the same process.  Loaders are handlers of PersistStore that take    *)
(* their request from the configuration and run before clients are served. *)
(*                                                                         *)
(* Nothing ever closes the database, so starting over finds it locked and  *)
(* ends the process.  Whether the process is started again is not up to    *)
(* this code: Boot may happen, and nothing below relies on it.             *)
(***************************************************************************)
EXTENDS PersistStore

CONSTANTS
    Loaders,       \* the handlers that load configured schemas
    Configured,    \* Configured[p]: the create request loader p stands for
    MaxFailures    \* bound: times serving fails or the process dies

(* The configuration is refused if a schema lacks its vendor or version. *)
ASSUME LoadersAssumption ==
    /\ Loaders \subseteq Procs
    /\ Configured \in [Loaders -> Requests]
    /\ \A p \in Loaders : Configured[p].op = "create" /\ Configured[p].key \in ValidKeys
    /\ MaxFailures \in Nat

VARIABLES
    phase,      \* "down", "opening", "loading" or "serving"
    locked,     \* this process holds the lock of the database directory
    failures,   \* failures so far
    lost        \* history: schemas without record that a request or a loader of
                \* this process accounts for, having deleted or failed to store them

process == <<phase, locked, failures, lost>>
allVars == <<vars, process>>

-----------------------------------------------------------------------------
(* main is started, reads its configuration and calls NewServer. *)
Boot ==
    /\ phase = "down"
    /\ phase' = "opening"
    /\ UNCHANGED <<vars, locked, failures, lost>>

(* The process ends: requests, loaders and cache are gone, the operating   *)
(* system takes the lock back.                                             *)
Exit ==
    /\ Crash
    /\ phase' = "down"
    /\ locked' = FALSE
    /\ lost' = {}

OpenDB ==
    /\ phase = "opening" /\ ~ locked
    /\ locked' = TRUE
    /\ phase' = "loading"
    /\ UNCHANGED <<vars, failures, lost>>

(* Mutant: main tries again instead of exiting. *)
OpenDBFails_TriesAgain ==
    /\ phase = "opening" /\ locked
    /\ UNCHANGED allVars

(* The database is locked, by the server this process ran before. *)
OpenDBFails ==
    /\ phase = "opening" /\ locked
    /\ Exit
    /\ UNCHANGED failures

(* Mutant: schemas are loaded whether they are stored or not. *)
Load_Always(p) ==
    /\ phase = "loading" /\ pc[p] = "idle"
    /\ LET q == Configured[p] IN
          /\ req' = [req EXCEPT ![p] = q]
          /\ Arrive(p, q)
          /\ Goto(p, "parse")
          /\ src' = [src EXCEPT ![p] = q.files]
          /\ Contend(p, q.key)
    /\ UNCHANGED <<rsp, sc, todo, mods, disk, db, cache, dropped, process>>

(* Loader p: a schema in the store stays as it is, one that is not there   *)
(* is parsed and added.  Failures are logged.                              *)
Load(p) ==
    /\ phase = "loading" /\ pc[p] = "idle"
    /\ LET q == Configured[p] IN
          /\ req' = [req EXCEPT ![p] = q]
          /\ Arrive(p, q)
          /\ \/ /\ HasSchema(q.key)
                /\ Return(p, Done(None))
                /\ UNCHANGED taint
             \/ /\ ~ HasSchema(q.key)
                /\ Goto(p, "parse")
                /\ src' = [src EXCEPT ![p] = q.files]
                /\ Contend(p, q.key)
                /\ UNCHANGED <<rsp, sc, todo, mods>>
    /\ UNCHANGED <<disk, db, cache, dropped, process>>

Loaded == \A p \in Loaders : pc[p] = "done"

(* Mutant: nobody waits for the loaders. *)
Serve_NoWait ==
    /\ phase = "loading"
    /\ phase' = "serving"
    /\ UNCHANGED <<vars, locked, failures, lost>>

(* All loaders are done: register the service and serve. *)
Serve ==
    /\ phase = "loading" /\ Loaded
    /\ phase' = "serving"
    /\ UNCHANGED <<vars, locked, failures, lost>>

(* Serve returns an error: main stops the gRPC server and creates another. *)
(* Handlers under way are not waited for.                                  *)
ServeFails ==
    /\ phase = "serving" /\ failures < MaxFailures
    /\ phase' = "opening"
    /\ failures' = failures + 1
    /\ UNCHANGED <<vars, locked, lost>>

(* A signal, or worse. *)
Killed ==
    /\ phase # "down" /\ failures < MaxFailures
    /\ Exit
    /\ failures' = failures + 1

-----------------------------------------------------------------------------
ServerInit ==
    /\ Init
    /\ phase = "down"
    /\ locked = FALSE
    /\ failures = 0
    /\ lost = {}

(* The schemas that handler p's step accounts for: its own when it answers *)
(* after having tried to write it, and every other record it takes away.   *)
Accounted(p) ==
    {k \in Keys : IF k = req[p].key
                  THEN pc'[p] = "done" /\ (pc[p] \in {"drop", "add"} \/ p \in Loaders)
                  ELSE HasSchema(k)}

HandlerStep(p) ==
    /\ Handler(p)
    /\ lost' = {k \in lost \union Accounted(p) : schemas'[k] = None}
    /\ UNCHANGED <<phase, locked, failures>>

Request(p) ==
    /\ phase = "serving"
    /\ Arrival(p)
    /\ UNCHANGED process

Startup == OpenDB \/ OpenDBFails \/ Serve

ServerNext ==
    \/ Boot \/ Startup \/ ServeFails \/ Killed
    \/ \E p \in Loaders : Load(p)
    \/ \E p \in Procs : HandlerStep(p)
    \/ \E p \in Procs \ Loaders : Request(p)
    \/ (Evict \/ EditFiles) /\ UNCHANGED process

(* Goroutines run and main goes on.  Nobody has to start the process.      *)
ServerSpec ==
    /\ ServerInit /\ [][ServerNext]_allVars
    /\ WF_allVars(Startup)
    /\ \A p \in Loaders : WF_allVars(Load(p))
    /\ \A p \in Procs : WF_allVars(HandlerStep(p))

-----------------------------------------------------------------------------
(* Properties *)

(* Starting again changes nothing: whatever became of its files, a schema  *)
(* that has a record keeps record and entries while the server loads.      *)
(* (A schema configured twice is stored by whichever loader is last.)      *)
StartupKeepsStored ==
    [][phase = "loading" =>
          \A k \in Keys :
             HasSchema(k) /\ "contended" \notin taint[k]
                => schemas'[k] = schemas[k] /\ objects'[k] = objects[k]]_allVars

(* Before the first request is served every configured schema is stored    *)
(* with all its entries, unless its loader failed: a client never meets a  *)
(* schema that is still being loaded.                                      *)
ServingMeansLoaded ==
    phase = "serving" =>
        \A p \in Loaders :
            LET k == Configured[p].key IN
            (pc[p] = "done" => rsp[p].ok) /\ quiet[p] /\ taint[k] \subseteq {"orphans"}
                => HasSchema(k) /\ Complete(k, objects[k][Root])

(* While the server serves, a configured schema without a record is one    *)
(* that a reload is about to write again, or one whose loss was answered   *)
(* or logged in the life of this process: a delete, a failed load, or a    *)
(* reload or delete that failed in the database.  A reload of files that   *)
(* do not parse loses nothing, and a reload cut off by the end of the      *)
(* process is made good by the loaders before the next one serves.         *)
ConfiguredAreServed ==
    phase = "serving" =>
        \A p \in Loaders :
            LET k == Configured[p].key IN
            HasSchema(k) \/ k \in lost \/ \E o \in Procs : Adding(o, k)

(* A start comes to an end: the loaders, whatever fails, let the server    *)
(* serve, or the process is gone.  Starting over in the same process, as   *)
(* main does when serving fails, never serves: it ends the process.        *)
StartDecides ==
    /\ phase \in {"opening", "loading"} ~> phase \in {"serving", "down"}
    /\ phase = "opening" /\ locked ~> phase = "down"

=============================================================================
