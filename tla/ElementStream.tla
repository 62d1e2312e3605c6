--------------------------- MODULE ElementStream ---------------------------
(***************************************************************************)
(* GetSchemaElements: the elements along a path, streamed.  The persistent *)
(* store looks the prefixes of the path up one by one, in a goroutine that *)
(* fills a channel with room for one.  The in-memory store walks down the  *)
(* tree in one goroutine (GetEntryCh), converts in another and closes the  *)
(* channel in a third, over channels without room.  The handler passes on  *)
(* what it gets until the channel is closed, sending fails or the stream's *)
(* context is cancelled, which it also is once the handler has returned.   *)
(*                                                                         *)
(* A revision says how far down the requested path each module goes, as    *)
(* the store reads the path: an unprefixed first element that is the name  *)
(* of a module is that module, and in memory a prefix that is the name of  *)
(* none is one more element in front of the path.  The modules themselves  *)
(* are there in every revision, and the path names no choice.              *)
(***************************************************************************)
EXTENDS Integers, Sequences, FiniteSets, FiniteSetsExt

CONSTANTS
    Modules,
    Rank,        \* Rank[m]: the order in which modules are preferred
    MaxLen,      \* bound: the length of the requested path
    Depths,      \* how far down the path a module may go
    Stores,      \* {"persistent", "memory"}
    Defects,     \* <<m, n>>: the n-th element of the path cannot be converted in m
    Foreign,     \* a prefix that is not the name of a module
    NoModule, None

Revs == [Modules -> Depths]

ASSUME StreamAssumption ==
    /\ MaxLen \in Nat \ {0}
    /\ Depths \subseteq Nat
    /\ Rank \in [Modules -> Nat]
    /\ \A m, n \in Modules : Rank[m] = Rank[n] => m = n
    /\ NoModule \notin Modules /\ Foreign \notin Modules \union {NoModule}
    /\ Defects \subseteq Modules \X Nat
    /\ None \notin Modules /\ None \notin Revs
    /\ None \notin [mod : Modules \union {None}, rev : Revs]
    /\ None \notin {"ok", "error"}
    /\ Stores \subseteq {"persistent", "memory"}

VARIABLES
    kind, len, mod,   \* the store, the length of the path, its module prefix
    named,     \* without a prefix: the module the first element is the name of
    stored,    \* the revision in the store, or None
    walked,    \* the tree and module the in-memory walk goes down
    ctx,       \* the context of the stream: "live", "cancelled" by the client, "done"
    sch,       \* the channel of elements the handler reads
    closed,    \* it is closed
    walker,    \* the looking or walking goroutine: "off", "look", "send", "done"
    next,      \* the element it is at
    elem,      \* the element it is about to send
    converter, \* the converting goroutine: "off", "recv", "send", "done"
    holds,     \* the element it has
    handler,   \* "start", "serve" or "done"
    status,    \* what the handler returned: "ok", "error" or None
    got,       \* the elements the client was sent
    changed    \* history: the schema changed since the stream began

request == <<kind, len, mod, named>>
goroutines == <<walker, next, elem, converter, holds>>
vars == <<request, stored, walked, ctx, sch, closed, goroutines, handler, status,
          got, changed>>

-----------------------------------------------------------------------------
(* A failed lookup leaves no response, whose schema is nil. *)
Nil == [n |-> -1, mod |-> None, rev |-> None]
Elem(n, m, r) == [n |-> n, mod |-> m, rev |-> r]

(* What may be stored: a module is where its name leads to. *)
RevsHere == {r \in Revs : named # NoModule => r[named] >= 1}

(* The modules of r in which the first n elements of the path are found. *)
Holders(r, n) == {m \in IF mod = NoModule THEN Modules ELSE Modules \intersect {mod} : r[m] >= n}

(* getSchema of the persistent store, for the first n elements (PersistStore *)
(* has its inside).                                                        *)
Lookup(n) ==
    IF stored = None \/ Holders(stored, n) = {} THEN Nil
    ELSE LET H == Holders(stored, n)
         IN  Elem(n, CHOOSE m \in H : \A x \in H : Rank[m] <= Rank[x], stored)

Finish(s) ==
    /\ handler' = "done"
    /\ status' = s
    /\ ctx' = IF ctx = "live" THEN "done" ELSE ctx

-----------------------------------------------------------------------------
(* The call of the store's GetSchemaElements by the handler *)

Refuse ==
    /\ handler = "start"
    /\ \/ stored = None
       \/ kind = "persistent" /\ Lookup(len) = Nil
    /\ Finish("error")
    /\ UNCHANGED <<request, stored, walked, sch, closed, goroutines, got, changed>>

(* A path of one element is answered with the element that was looked up   *)
(* to see whether the path exists.                                         *)
StartPersistent ==
    /\ handler = "start" /\ kind = "persistent"
    /\ stored # None /\ Lookup(len) # Nil
    /\ handler' = "serve"
    /\ IF len = 1
       THEN /\ sch' = <<Lookup(1)>>
            /\ closed' = TRUE
            /\ walker' = "done"
            /\ UNCHANGED next
       ELSE /\ walker' = IF len = 0 THEN "done" ELSE "look"
            /\ next' = 1
            /\ closed' = (len = 0)
            /\ UNCHANGED sch
    /\ changed' = FALSE
    /\ UNCHANGED <<request, stored, walked, ctx, elem, converter, holds, status, got>>

(* GetEntryCh: the walk starts in the module named by the prefix or, that  *)
(* element skipped, by the first element, or else in any that has a node   *)
(* at its top of the name of the prefix or the first element (a Go map is  *)
(* searched); an empty path yields the root.                               *)
Starts(r) ==
    IF len = 0 THEN {None}
    ELSE IF named # NoModule THEN {named}
    ELSE IF mod \in Modules THEN {mod}
    ELSE {m \in Modules : r[m] >= 1}

(* The first element of the stream: what a prefix is taken for is number 0.*)
First ==
    IF kind = "persistent" THEN 1
    ELSE IF len = 0 \/ mod = Foreign THEN 0
    ELSE IF named # NoModule THEN 2
    ELSE 1

StartMemory ==
    /\ handler = "start" /\ kind = "memory" /\ stored # None
    /\ handler' = "serve"
    /\ converter' = "recv"
    /\ next' = First
    /\ \/ /\ Starts(stored) = {}
          /\ walker' = "done"
          /\ UNCHANGED walked
       \/ \E m \in Starts(stored) :
             /\ walked' = [mod |-> m, rev |-> stored]
             /\ walker' = "look"
    /\ changed' = FALSE
    /\ UNCHANGED <<request, stored, ctx, sch, closed, elem, holds, status, got>>

-----------------------------------------------------------------------------
(* The goroutine of the persistent store *)

(* Mutant: the prefix is one element too long. *)
LookUpPrefix_OneMore ==
    /\ kind = "persistent" /\ walker = "look"
    /\ elem' = Lookup(next + 1)
    /\ walker' = "send"
    /\ UNCHANGED <<request, stored, walked, ctx, sch, closed, next, converter, holds,
                   handler, status, got, changed>>

LookUpPrefix ==
    /\ kind = "persistent" /\ walker = "look"
    /\ elem' = Lookup(next)
    /\ walker' = "send"
    /\ UNCHANGED <<request, stored, walked, ctx, sch, closed, next, converter, holds,
                   handler, status, got, changed>>

(* Mutant: the goroutine stops before the last element. *)
SendPrefix_StopsEarly ==
    /\ kind = "persistent" /\ walker = "send" /\ sch = <<>>
    /\ sch' = <<elem>>
    /\ next' = next + 1
    /\ walker' = IF next + 1 >= len THEN "done" ELSE "look"
    /\ closed' = (next + 1 >= len)
    /\ UNCHANGED <<request, stored, walked, ctx, elem, converter, holds, handler,
                   status, got, changed>>

SendPrefix ==
    /\ kind = "persistent" /\ walker = "send" /\ sch = <<>>
    /\ sch' = <<elem>>
    /\ next' = next + 1
    /\ walker' = IF next = len THEN "done" ELSE "look"
    /\ closed' = (next = len)
    /\ UNCHANGED <<request, stored, walked, ctx, elem, converter, holds, handler,
                   status, got, changed>>

(* Mutant: the goroutine sends without looking at the context. *)
SendCancelled_Never == FALSE /\ UNCHANGED vars

SendCancelled ==
    /\ kind = "persistent" /\ walker = "send" /\ ctx # "live"
    /\ walker' = "done"
    /\ closed' = TRUE
    /\ UNCHANGED <<request, stored, walked, ctx, sch, next, elem, converter, holds,
                   handler, status, got, changed>>

-----------------------------------------------------------------------------
(* The goroutines of the in-memory store *)

(* The last element that the walk w finds. *)
LastOf(w) ==
    IF len = 0 THEN 0
    ELSE Min({len, IF mod = Foreign THEN w.rev[w.mod] - 1 ELSE w.rev[w.mod]})

(* Mutant: every step looks at the schema that is stored by now. *)
Walk_Stored ==
    /\ kind = "memory" /\ walker = "look"
    /\ LET over == stored = None \/ next > LastOf([walked EXCEPT !.rev = stored])
       IN  /\ walker' = IF over THEN "done" ELSE "send"
           /\ elem' = IF over THEN elem ELSE Elem(next, walked.mod, stored)
    /\ UNCHANGED <<request, stored, walked, ctx, sch, closed, next, converter, holds,
                   handler, status, got, changed>>

(* One step down: the walk ends behind the last element, or, with an error *)
(* in the log, where the module has no such child.                         *)
Walk ==
    /\ kind = "memory" /\ walker = "look"
    /\ LET over == next > LastOf(walked)
       IN  /\ walker' = IF over THEN "done" ELSE "send"
           /\ elem' = IF over THEN elem ELSE Elem(next, walked.mod, walked.rev)
    /\ UNCHANGED <<request, stored, walked, ctx, sch, closed, next, converter, holds,
                   handler, status, got, changed>>

(* An entry that cannot be converted is logged, and its place left empty.  *)
Converted(e) == IF <<e.mod, e.n>> \in Defects THEN Nil ELSE e

(* The walker hands an element to the converter: a channel without room    *)
(* takes both.                                                             *)
PassEntry ==
    /\ kind = "memory" /\ walker = "send" /\ converter = "recv"
    /\ holds' = Converted(elem)
    /\ converter' = "send"
    /\ next' = next + 1
    /\ walker' = "look"
    /\ UNCHANGED <<request, stored, walked, ctx, sch, closed, elem, handler, status,
                   got, changed>>

(* The converter stops when the context is cancelled or the walker has     *)
(* closed its channel.                                                     *)
ConverterStops ==
    /\ converter = "recv"
    /\ ctx # "live" \/ walker = "done"
    /\ converter' = "done"
    /\ UNCHANGED <<request, stored, walked, ctx, sch, closed, walker, next, elem, holds,
                   handler, status, got, changed>>

(* Mutant: the wait group counts a goroutine more than there are. *)
CloseElements_Never == FALSE /\ UNCHANGED vars

CloseElements ==
    /\ kind = "memory" /\ walker = "done" /\ converter = "done" /\ ~ closed
    /\ closed' = TRUE
    /\ UNCHANGED <<request, stored, walked, ctx, sch, goroutines, handler, status, got,
                   changed>>

-----------------------------------------------------------------------------
(* The handler *)

(* It receives an element, from the channel's buffer or directly from the  *)
(* converter, and sends it; sending fails when the stream is broken.       *)
Receive ==
    /\ handler = "serve"
    /\ \/ /\ sch # <<>>
          /\ got' = Append(got, Head(sch))
          /\ sch' = Tail(sch)
          /\ UNCHANGED <<converter, holds>>
       \/ /\ converter = "send"
          /\ got' = Append(got, holds)
          /\ converter' = "recv"
          /\ UNCHANGED <<sch, holds>>
    /\ UNCHANGED <<request, stored, walked, ctx, closed, walker, next, elem, handler,
                   status, changed>>

SendFails ==
    /\ handler = "serve"
    /\ \/ /\ sch # <<>>
          /\ sch' = Tail(sch)
          /\ UNCHANGED converter
       \/ /\ converter = "send"
          /\ converter' = "recv"
          /\ UNCHANGED sch
    /\ Finish("error")
    /\ UNCHANGED <<request, stored, walked, closed, walker, next, elem, holds, got, changed>>

EndOfElements ==
    /\ handler = "serve" /\ closed /\ sch = <<>>
    /\ Finish("ok")
    /\ UNCHANGED <<request, stored, walked, sch, closed, goroutines, got, changed>>

HandlerCancelled ==
    /\ handler = "serve" /\ ctx # "live"
    /\ Finish("error")
    /\ UNCHANGED <<request, stored, walked, sch, closed, goroutines, got, changed>>

-----------------------------------------------------------------------------
(* The environment: the client goes away, the schema is changed *)

Cancel ==
    /\ handler = "serve" /\ ctx = "live"
    /\ ctx' = "cancelled"
    /\ UNCHANGED <<request, stored, walked, sch, closed, goroutines, handler, status,
                   got, changed>>

ChangeSchema ==
    /\ handler = "serve"
    /\ stored' \in (RevsHere \union {None}) \ {stored}
    /\ changed' = TRUE
    /\ UNCHANGED <<request, walked, ctx, sch, closed, goroutines, handler, status, got>>

-----------------------------------------------------------------------------
Init ==
    /\ kind \in Stores /\ len \in 0..MaxLen
    /\ mod \in Modules \union {NoModule, Foreign} /\ named \in Modules \union {NoModule}
    /\ len = 0 \/ named # NoModule => mod = NoModule
    /\ len = 0 => named = NoModule
    /\ stored \in RevsHere \union {None}
    /\ walked = None
    /\ ctx = "live" /\ sch = <<>> /\ closed = FALSE
    /\ walker = "off" /\ next = 0 /\ elem = Nil
    /\ converter = "off" /\ holds = Nil
    /\ handler = "start" /\ status = None
    /\ got = <<>> /\ changed = FALSE

Goroutine ==
    \/ LookUpPrefix \/ SendPrefix \/ SendCancelled
    \/ Walk \/ PassEntry \/ ConverterStops \/ CloseElements

Handle ==
    \/ Refuse \/ StartPersistent \/ StartMemory
    \/ Receive \/ SendFails \/ EndOfElements \/ HandlerCancelled

Next == Goroutine \/ Handle \/ Cancel \/ ChangeSchema

Spec == Init /\ [][Next]_vars /\ WF_vars(Goroutine) /\ WF_vars(Handle)

-----------------------------------------------------------------------------
(* Properties *)

(* What the walk w has of the path, in order. *)
ElementsOf(w) ==
    [i \in 1..LastOf(w) - First + 1 |-> Converted(Elem(i + First - 1, w.mod, w.rev))]

(* The elements of a stream are those of the prefixes of the path, one     *)
(* after the other; there is an empty one in its place when the schema was *)
(* changed under a persistent stream or an entry could not be converted in *)
(* memory: nothing is skipped, doubled or out of order.  Only the walk in  *)
(* memory begins with the second prefix if the first is the name of a      *)
(* module, and with a node named like the prefix if that is no module.     *)
InOrder ==
    \A i \in 1..Len(got) :
        LET n == i + First - 1
        IN  \/ got[i].n = n
            \/ got[i] = Nil /\ kind = "persistent" /\ changed
            \/ got[i] = Nil /\ kind = "memory" /\ <<walked.mod, n>> \in Defects

(* A stream that ends well, whose client stayed and whose schema was left  *)
(* alone has every element, each from the module GetSchema would answer    *)
(* from.  In memory the walk stays in one module and ends, without an      *)
(* error, where that module does: it has all from where it begins, and     *)
(* nothing for a path that is just the name of a module.                   *)
CompleteWhenOk ==
    status = "ok" /\ ctx # "cancelled" /\ ~ changed =>
        \/ /\ kind = "persistent"
           /\ got = [i \in 1..len |-> Lookup(i)]
        \/ /\ kind = "memory" /\ walked # None
           /\ got = ElementsOf(walked)
        \/ /\ kind = "memory" /\ walked = None
           /\ got = <<>>

(* A walk in memory never mixes two parses: it goes on in the tree it      *)
(* began with, whatever is stored meanwhile.                               *)
OneTreePerWalk ==
    kind = "memory" /\ walked # None =>
        \E n \in 0..len + 1 : got = SubSeq(ElementsOf(walked), 1, n)

(* Every stream comes to an end. *)
StreamReturns == <>(handler = "done")

GoroutinesOver == walker \in {"off", "done"} /\ converter \in {"off", "done"}

(* No goroutine outlives a stream for good: the one of the persistent      *)
(* store never, those of the in-memory store unless the client went away   *)
(* before the end (the converter sends without looking at the context).    *)
NoGoroutineLeft ==
    handler = "done" /\ (kind = "persistent" \/ status = "ok") ~> GoroutinesOver

=============================================================================
