------------------------ MODULE ElementStreamProofs ------------------------
(***************************************************************************)
(* Proofs about ElementStream, for paths of any length and any number of   *)
(* modules: what is on its way from the goroutines to the client, taken    *)
(* together, is the path from its beginning.                               *)
(***************************************************************************)
EXTENDS ElementStream, WellFoundedInduction, TLAPS

Walks == [mod : Modules \union {None}, rev : Revs]
Elements == {Nil} \union [n : Nat, mod : Modules \union {None}, rev : Revs]

(* The types of what an invariant below speaks of. *)
Typing ==
    /\ kind \in {"persistent", "memory"} /\ len \in Nat
    /\ mod \in Modules \union {NoModule, Foreign} /\ named \in Modules \union {NoModule}
    /\ len = 0 \/ named # NoModule => mod = NoModule
    /\ len = 0 => named = NoModule
    /\ stored \in Revs \union {None}
    /\ stored # None /\ named # NoModule => stored[named] >= 1
    /\ walked \in Walks \union {None}
    /\ ctx \in {"live", "cancelled", "done"}
    /\ closed \in BOOLEAN /\ changed \in BOOLEAN
    /\ handler \in {"start", "serve", "done"}
    /\ handler = "serve" => ctx # "done"
    /\ next \in Nat
    /\ got \in Seq(Elements) /\ sch \in Seq(Elements)
    /\ elem \in Elements /\ holds \in Elements
    /\ walker \in {"off", "look", "send", "done"}
    /\ converter \in {"off", "recv", "send", "done"}
    /\ kind = "memory" /\ walker \in {"look", "send"} => walked # None

(* Before the handler has called the store nothing is under way. *)
Fresh ==
    handler = "start" =>
        /\ walked = None /\ sch = <<>> /\ got = <<>> /\ ~ closed /\ ~ changed
        /\ walker = "off" /\ converter = "off" /\ status = None /\ next = 0 /\ ctx = "live"

(* x is what a persistent stream has for the prefix of length i. *)
ForPrefix(x, i) ==
    /\ ~ changed => x = Lookup(i)
    /\ changed => x.n = i \/ x = Nil

(* A persistent stream that is served: what the client has and what is in  *)
(* the channel are the prefixes that were looked up, and the goroutine     *)
(* holds the one that follows.                                             *)
Prefixes ==
    handler = "serve" /\ kind = "persistent" =>
        /\ converter = "off" /\ walker \in {"look", "send", "done"}
        /\ Len(sch) <= 1
        /\ ~ changed => stored # None /\ Lookup(len) # Nil
        /\ closed <=> walker = "done"
        /\ \A i \in 1..Len(got) : ForPrefix(got[i], i)
        /\ sch # <<>> => ForPrefix(sch[1], Len(got) + 1)
        /\ len = 0 => walker = "done" /\ got = <<>> /\ sch = <<>>
        /\ len = 1 => walker = "done" /\ Len(got) + Len(sch) = 1
        /\ len > 1 => /\ Len(got) + Len(sch) = next - 1
                      /\ next \in 1..(len + 1)
                      /\ walker # "done" => next <= len
                      /\ walker = "done" => next = len + 1 \/ ctx # "live"
                      /\ walker = "send" => ForPrefix(elem, next)

(* The last element of the walk, and what the converter makes of one. *)
End == LastOf(walked)
Sent(n) == Converted(Elem(n, walked.mod, walked.rev))

(* The number of elements that the converter has passed on. *)
PassedOn == IF converter = "send" THEN next - First - 1 ELSE next - First

(* A stream in memory that is served: the same, with one element at most   *)
(* in the walker's and one in the converter's hands.                       *)
Walking ==
    handler = "serve" /\ kind = "memory" =>
        /\ sch = <<>>
        /\ walker \in {"look", "send", "done"} /\ converter \in {"recv", "send", "done"}
        /\ closed => walker = "done" /\ converter = "done"
        /\ converter = "done" => walker = "done" \/ ctx # "live"
        /\ walked = None => walker = "done" /\ converter # "send" /\ got = <<>>
        /\ walked # None =>
              /\ next \in First..(End + 1)
              /\ Len(got) = PassedOn
              /\ walker = "send" => next <= End /\ elem = Elem(next, walked.mod, walked.rev)
              /\ converter = "send" => next > First /\ holds = Sent(next - 1)
              /\ walker = "done" => next = End + 1

(* The walk is in a module of the tree that goes as far as it was found    *)
(* to, or at the root.                                                     *)
Begun ==
    kind = "memory" /\ walked # None =>
        /\ len > 0 => walked.mod \in Modules
        /\ len > 0 /\ First # 1 => walked.rev[walked.mod] >= 1

(* What the client was sent in memory comes from one module of one tree,   *)
(* during the stream and after it.                                         *)
Walked ==
    kind = "memory" =>
        /\ walked = None => got = <<>>
        /\ walked # None => /\ Len(got) <= End - First + 1
                            /\ \A i \in 1..Len(got) : got[i] = Sent(i + First - 1)

(* A stream ends well only when it has ended. *)
Ending == status = "ok" => handler = "done"

StreamInv ==
    /\ Typing
    /\ Fresh
    /\ Prefixes
    /\ Walking
    /\ Begun
    /\ Walked
    /\ Ending
    /\ InOrder
    /\ CompleteWhenOk

-----------------------------------------------------------------------------
(* Lookups *)

(* A non-empty set of naturals has a least element. *)
LEMMA LeastNatural ==
    ASSUME NEW S \in SUBSET Nat, S # {}
    PROVE  \E n \in S : \A m \in S : n <= m
<1>1. IsWellFoundedOn(OpToRel(<, Nat), Nat)
    BY NatLessThanWellFounded
<1>2. PICK x \in S : \A y \in S : ~ (<<y, x>> \in OpToRel(<, Nat))
    BY <1>1, WFMin
<1>3. \A y \in S : ~ (y < x)
    BY <1>2 DEF OpToRel
<1> QED BY <1>3

(* The smaller of two numbers. *)
LEMMA ShorterOf ==
    ASSUME NEW a \in Nat, NEW b \in Nat
    PROVE  Min({a, b}) \in {a, b} /\ Min({a, b}) <= a /\ Min({a, b}) <= b
BY DEF Min

(* Among the modules that hold a prefix there is a most preferred one. *)
LEMMA PreferredModule ==
    ASSUME NEW H \in SUBSET Modules, H # {}
    PROVE  (CHOOSE m \in H : \A x \in H : Rank[m] <= Rank[x]) \in H
<1> DEFINE S == {Rank[m] : m \in H}
<1>1. S \in SUBSET Nat /\ S # {}
    BY StreamAssumption
<1>2. PICK i \in S : \A j \in S : i <= j
    BY <1>1, LeastNatural
<1>3. \E m \in H : \A x \in H : Rank[m] <= Rank[x]
    BY <1>2
<1> QED BY <1>3

(* A lookup yields an element of the length looked for, or none. *)
LEMMA LookupIsElement ==
    ASSUME Typing, NEW n \in Nat
    PROVE  /\ Lookup(n) \in Elements
           /\ Lookup(n) # Nil => Lookup(n).n = n
           /\ stored # None /\ Holders(stored, n) # {} <=> Lookup(n) # Nil
<1>1. CASE stored = None \/ Holders(stored, n) = {}
    BY <1>1 DEF Lookup, Elements
<1>2. CASE ~ (stored = None \/ Holders(stored, n) = {})
    <2> DEFINE H == Holders(stored, n)
               p == CHOOSE m \in H : \A x \in H : Rank[m] <= Rank[x]
    <2>1. H \in SUBSET Modules /\ stored \in Revs
        BY <1>2 DEF Holders, Typing
    <2>2. p \in Modules
        BY <1>2, <2>1, PreferredModule
    <2> HIDE DEF p
    <2>3. Lookup(n) = Elem(n, p, stored)
        BY <1>2 DEF Lookup, p
    <2>4. /\ Elem(n, p, stored) \in [n : Nat, mod : Modules \union {None}, rev : Revs]
          /\ Elem(n, p, stored).n = n
        BY <2>1, <2>2 DEF Elem
    <2>5. Nil.n = -1 /\ n # -1
        BY DEF Nil
    <2>6. Elem(n, p, stored) # Nil
        BY <2>4, <2>5
    <2> QED BY <1>2, <2>3, <2>4, <2>6 DEF Elements
<1> QED BY <1>1, <1>2

(* Where a path is found, so are its prefixes. *)
LEMMA PrefixesFound ==
    ASSUME Typing, NEW n \in Nat, NEW i \in 0..n, Lookup(n) # Nil
    PROVE  Lookup(i) # Nil /\ Lookup(i).n = i
<1>1. i \in Nat /\ stored \in Revs /\ stored # None
    BY LookupIsElement, StreamAssumption DEF Typing
<1>2. PICK m : m \in Holders(stored, n)
    BY LookupIsElement
<1>3. m \in Holders(stored, i)
    <2>1. m \in Modules /\ stored[m] >= n
        BY <1>2 DEF Holders, Typing
    <2>2. stored[m] \in Nat
        BY <1>1, <2>1, StreamAssumption DEF Revs
    <2>3. stored[m] >= i
        BY <2>1, <2>2
    <2> QED BY <1>2, <2>3 DEF Holders
<1> QED BY <1>1, <1>3, LookupIsElement

-----------------------------------------------------------------------------
(* Steps that leave what the client has alone *)

(* What a walk finds depends on the request and on where it goes. *)
LEMMA SameWalk ==
    ASSUME UNCHANGED <<request, walked>>
    PROVE  /\ First' = First /\ End' = End
           /\ \A n : Sent(n)' = Sent(n)
           /\ ElementsOf(walked)' = ElementsOf(walked)
<1>1. UNCHANGED <<kind, len, mod, named, walked>>
    BY DEF request
<1>2. First' = First /\ LastOf(walked)' = LastOf(walked)
    BY <1>1 DEF First, LastOf
<1> QED BY <1>1, <1>2 DEF End, Sent, ElementsOf

(* After the stream nothing the properties speak of changes any more. *)
LEMMA AfterTheStream ==
    ASSUME StreamInv, handler = "done",
           UNCHANGED <<request, stored, walked, ctx, handler, status, got, changed>>
    PROVE  Fresh' /\ Prefixes' /\ Walking' /\ Begun' /\ Walked' /\ Ending' /\ InOrder' /\ CompleteWhenOk'
<1>1. UNCHANGED <<kind, len, mod, named>>
    BY DEF request
<1>2. Fresh' /\ Prefixes' /\ Walking' /\ Ending'
    BY DEF Fresh, Prefixes, Walking, Ending
<1>3. Begun' /\ Walked' /\ InOrder'
    BY <1>1, SameWalk DEF StreamInv, Begun, Walked, InOrder
<1>4. \A i : Lookup(i)' = Lookup(i)
    BY <1>1 DEF Lookup, Holders
<1>5. CompleteWhenOk'
    BY <1>1, <1>4, SameWalk DEF StreamInv, CompleteWhenOk
<1> QED BY <1>2, <1>3, <1>5

(* While it is served it is only what is under way that changes. *)
LEMMA DuringTheStream ==
    ASSUME StreamInv, handler = "serve",
           UNCHANGED <<request, walked, handler, status, got>>, changed => changed'
    PROVE  Fresh' /\ Begun' /\ Walked' /\ Ending' /\ InOrder' /\ CompleteWhenOk'
<1>1. UNCHANGED <<kind, len, mod, named>> /\ status # "ok"
    BY DEF request, StreamInv, Ending
<1>2. Fresh' /\ Ending' /\ CompleteWhenOk'
    BY <1>1 DEF Fresh, Ending, CompleteWhenOk
<1>3. Begun' /\ Walked' /\ InOrder'
    BY <1>1, SameWalk DEF StreamInv, Begun, Walked, InOrder
<1> QED BY <1>2, <1>3

(* A handler that returns an error. *)
LEMMA ErrorEnds ==
    ASSUME StreamInv, Finish("error"), UNCHANGED <<request, walked, got, changed>>
    PROVE  Fresh' /\ Prefixes' /\ Walking' /\ Begun' /\ Walked' /\ Ending' /\ InOrder' /\ CompleteWhenOk'
<1>1. UNCHANGED <<kind, len, mod, named>> /\ handler' = "done" /\ status' = "error"
    BY DEF request, Finish
<1>2. Fresh' /\ Prefixes' /\ Walking' /\ Ending' /\ CompleteWhenOk'
    BY <1>1 DEF Fresh, Prefixes, Walking, Ending, CompleteWhenOk
<1>3. Begun' /\ Walked' /\ InOrder'
    BY <1>1, SameWalk DEF StreamInv, Begun, Walked, InOrder
<1> QED BY <1>2, <1>3

(* How far a walk can go. *)
LEMMA WalkLength ==
    ASSUME Typing, Begun, kind = "memory", walked # None
    PROVE  /\ End \in Nat /\ End <= len /\ First \in 0..2 /\ First <= End + 1
           /\ walked.mod \in Modules \union {None} /\ walked.rev \in Revs
<1>1. /\ walked.mod \in Modules \union {None} /\ walked.rev \in Revs /\ len \in Nat
      /\ len = 0 \/ named # NoModule => mod # Foreign
      /\ len = 0 => named = NoModule
    BY StreamAssumption DEF Typing, Walks
<1>2. CASE len = 0
    BY <1>1, <1>2 DEF End, LastOf, First
<1>3. CASE len > 0
    <2> DEFINE d == walked.rev[walked.mod]
               far == IF mod = Foreign THEN d - 1 ELSE d
    <2>1. walked.mod \in Modules /\ (First # 1 => d >= 1)
        BY <1>3 DEF Begun
    <2>2. d \in Nat
        BY <1>1, <2>1, StreamAssumption DEF Revs
    <2> HIDE DEF d
    <2>3. /\ First = IF mod = Foreign THEN 0 ELSE IF named # NoModule THEN 2 ELSE 1
          /\ mod = Foreign => named = NoModule
        BY <1>1, <1>3 DEF First
    <2>4. far \in Nat /\ First <= far + 1
        BY <2>1, <2>2, <2>3
    <2> HIDE DEF far
    <2>5. Min({len, far}) \in {len, far} /\ Min({len, far}) <= len /\ Min({len, far}) <= far
        BY <1>1, <2>4, ShorterOf
    <2>6. End = Min({len, far})
        BY <1>3 DEF End, LastOf, far, d
    <2>7. First <= len + 1
        BY <1>1, <1>3, <2>3
    <2> QED BY <1>1, <2>1, <2>3, <2>4, <2>5, <2>6, <2>7
<1> QED BY <1>1, <1>2, <1>3

-----------------------------------------------------------------------------
(* The start of a stream *)

(* A request that is refused starts nothing. *)
LEMMA RefuseKeeps ==
    ASSUME StreamInv, Refuse
    PROVE  StreamInv'
<1>1. Typing'
    BY DEF Refuse, Finish, request, goroutines, StreamInv, Typing
<1> QED BY <1>1, ErrorEnds DEF Refuse, StreamInv

(* A persistent stream starts with its channel empty. *)
LEMMA StartPersistentKeeps ==
    ASSUME StreamInv, StartPersistent
    PROVE  StreamInv'
<1>1. /\ kind = "persistent" /\ handler' = "serve" /\ handler = "start" /\ changed' = FALSE
      /\ UNCHANGED <<kind, len, mod, named, stored, walked, ctx, elem, converter, holds, status, got>>
      /\ stored # None /\ Lookup(len) # Nil /\ len \in Nat
    BY DEF StartPersistent, request, StreamInv, Typing
<1>2. /\ sch = <<>> /\ got = <<>> /\ ~ closed /\ converter = "off" /\ status = None
      /\ ctx = "live" /\ status # "ok"
    BY <1>1, StreamAssumption DEF StreamInv, Fresh
<1>3. Lookup(1) \in Elements /\ (\A i : Lookup(i)' = Lookup(i))
    BY <1>1, LookupIsElement DEF StreamInv, Lookup, Holders
<1>4. \/ /\ len = 1 /\ sch' = <<Lookup(1)>> /\ closed' = TRUE /\ walker' = "done" /\ next' = next
      \/ /\ len # 1 /\ walker' = (IF len = 0 THEN "done" ELSE "look") /\ next' = 1
         /\ len = 0 => closed' = TRUE
         /\ len # 0 => closed' = FALSE
         /\ sch' = sch
    BY DEF StartPersistent
<1>5. Typing'
    <2>1. closed' \in BOOLEAN
        BY <1>4
    <2>2. walker' \in {"look", "done"} /\ next' \in Nat /\ sch' \in Seq(Elements)
        <3>1. CASE len = 1
            <4>1. sch' = <<Lookup(1)>> /\ walker' = "done" /\ next' = next
                BY <1>4, <3>1
            <4>2. <<Lookup(1)>> \in Seq(Elements)
                BY <1>3
            <4> QED BY <4>1, <4>2 DEF StreamInv, Typing
        <3>2. CASE len # 1
            BY <1>4, <3>2 DEF StreamInv, Typing
        <3> QED BY <3>1, <3>2
    <2> QED BY <1>1, <1>2, <2>1, <2>2 DEF StreamInv, Typing
<1>6. Prefixes'
    <2>1. CASE len = 1
        <3>1. sch' = <<Lookup(1)>> /\ closed' = TRUE /\ walker' = "done"
            BY <1>4, <2>1
        <3>2. Len(sch') = 1 /\ sch'[1] = Lookup(1) /\ Len(got') = 0
            BY <1>1, <1>2, <3>1
        <3>3. ForPrefix(sch[1], Len(got) + 1)'
            BY <1>1, <1>3, <3>2 DEF ForPrefix
        <3> QED BY <1>1, <1>2, <1>3, <2>1, <3>1, <3>2, <3>3 DEF Prefixes
    <2>2. CASE len # 1
        <3>1. /\ Len(got') = 0 /\ Len(sch') = 0 /\ got' = <<>> /\ sch' = <<>> /\ next' = 1
              /\ len = 0 => walker' = "done" /\ closed' = TRUE
              /\ len # 0 => walker' = "look" /\ closed' = FALSE
            BY <1>1, <1>2, <1>4, <2>2
        <3> QED BY <1>1, <1>2, <1>3, <2>2, <3>1 DEF Prefixes
    <2> QED BY <2>1, <2>2
<1>7. Fresh' /\ Walking' /\ Begun' /\ Walked' /\ Ending' /\ InOrder' /\ CompleteWhenOk'
    BY <1>1, <1>2 DEF Fresh, Walking, Begun, Walked, Ending, InOrder, CompleteWhenOk
<1> QED BY <1>5, <1>6, <1>7 DEF StreamInv

(* An in-memory stream starts its walk of one tree. *)
LEMMA StartMemoryKeeps ==
    ASSUME StreamInv, StartMemory
    PROVE  StreamInv'
<1>1. /\ kind = "memory" /\ handler' = "serve" /\ handler = "start" /\ changed' = FALSE
      /\ UNCHANGED <<kind, len, mod, named, stored, ctx, sch, closed, elem, holds, status, got>>
      /\ stored # None /\ stored \in Revs /\ len \in Nat /\ converter' = "recv"
      /\ next' = First
    BY DEF StartMemory, request, StreamInv, Typing
<1>2. /\ sch = <<>> /\ got = <<>> /\ ~ closed /\ status # "ok" /\ ctx = "live" /\ walked = None
      /\ Len(got) = 0
    BY <1>1, StreamAssumption DEF StreamInv, Fresh
<1>3. First' = First /\ First \in 0..2
    BY <1>1 DEF First
<1>4. CASE walker' = "done" /\ walked' = walked
    <2>1. Typing'
        <3>1. next' \in Nat /\ Typing
            BY <1>1, <1>3 DEF StreamInv
        <3> QED BY <1>1, <1>2, <1>4, <3>1 DEF Typing
    <2>2. Walking' /\ Begun' /\ Walked'
        BY <1>1, <1>2, <1>4 DEF Walking, Begun, Walked
    <2>3. Fresh' /\ Prefixes' /\ Ending' /\ InOrder' /\ CompleteWhenOk'
        BY <1>1, <1>2 DEF Fresh, Prefixes, Ending, InOrder, CompleteWhenOk
    <2> QED BY <2>1, <2>2, <2>3 DEF StreamInv
<1>5. ASSUME NEW m \in Starts(stored),
             walked' = [mod |-> m, rev |-> stored], walker' = "look"
      PROVE  StreamInv'
    <2>1. /\ len = 0 => m = None
          /\ len > 0 => m \in Modules
          /\ len > 0 /\ First # 1 => stored[m] >= 1
        <3>1. /\ mod \in Modules \union {NoModule, Foreign} /\ named \in Modules \union {NoModule}
              /\ named # NoModule => stored[named] >= 1
            BY <1>1 DEF StreamInv, Typing
        <3>2. CASE len = 0
            BY <3>2 DEF Starts
        <3>3. CASE len > 0 /\ named # NoModule
            <4>1. m = named
                BY <3>3 DEF Starts
            <4> QED BY <1>1, <3>1, <3>3, <4>1
        <3>4. CASE len > 0 /\ named = NoModule
            <4>1. m \in IF mod \in Modules THEN {mod} ELSE {x \in Modules : stored[x] >= 1}
                BY <3>4 DEF Starts
            <4>2. First # 1 => mod = Foreign
                BY <1>1, <3>4 DEF First
            <4> QED BY <1>1, <3>4, <4>1, <4>2, StreamAssumption
        <3> QED BY <1>1, <3>2, <3>3, <3>4
    <2>2. walked' \in Walks /\ walked' # None /\ walked'.mod = m /\ walked'.rev = stored
        BY <1>1, <1>5, <2>1, StreamAssumption DEF Walks
    <2>3. Typing'
        <3>1. next' \in Nat /\ Typing
            BY <1>1, <1>3 DEF StreamInv
        <3> QED BY <1>1, <1>2, <1>5, <2>2, <3>1 DEF Typing
    <2>4. Begun'
        BY <1>1, <1>3, <2>1, <2>2 DEF Begun
    <2>5. End' \in Nat /\ First <= End' + 1
        <3> DEFINE far == IF mod = Foreign THEN stored[m] - 1 ELSE stored[m]
        <3>1. CASE len = 0
            BY <1>1, <3>1 DEF End, LastOf, First, StreamInv, Typing
        <3>2. CASE len > 0
            <4>1. stored[m] \in Nat
                BY <1>1, <2>1, <3>2, StreamAssumption DEF Revs
            <4>2. /\ First = IF mod = Foreign THEN 0 ELSE IF named # NoModule THEN 2 ELSE 1
                  /\ mod = Foreign => named = NoModule
                BY <1>1, <3>2, StreamAssumption DEF First, StreamInv, Typing
            <4>3. far \in Nat /\ First <= far + 1 /\ First <= len + 1
                BY <1>1, <2>1, <3>2, <4>1, <4>2
            <4>4. End' = Min({len, far})
                BY <1>1, <2>2, <3>2 DEF End, LastOf
            <4> HIDE DEF far
            <4> QED BY <1>1, <4>3, <4>4, ShorterOf
        <3> QED BY <1>1, <3>1, <3>2
    <2>6. PassedOn' = 0
        BY <1>1, <1>3 DEF PassedOn
    <2>7. Walking'
        BY <1>1, <1>2, <1>3, <1>5, <2>2, <2>5, <2>6 DEF Walking
    <2>8. Walked'
        BY <1>1, <1>2, <1>3, <2>2, <2>5 DEF Walked
    <2>9. Fresh' /\ Prefixes' /\ Ending' /\ InOrder' /\ CompleteWhenOk'
        BY <1>1, <1>2 DEF Fresh, Prefixes, Ending, InOrder, CompleteWhenOk
    <2> QED BY <2>3, <2>4, <2>7, <2>8, <2>9 DEF StreamInv
<1> QED BY <1>4, <1>5 DEF StartMemory

-----------------------------------------------------------------------------
(* The goroutine of the persistent store *)

(* A prefix is looked up. *)
LEMMA LookUpPrefixKeeps ==
    ASSUME StreamInv, LookUpPrefix
    PROVE  StreamInv'
<1>1. /\ kind = "persistent" /\ walker = "look" /\ elem' = Lookup(next) /\ walker' = "send"
      /\ UNCHANGED <<kind, len, mod, named, stored, walked, ctx, sch, closed, next, converter, holds,
                     handler, status, got, changed, request>>
    BY DEF LookUpPrefix, request
<1>2. next \in Nat /\ Typing /\ \A i : Lookup(i)' = Lookup(i)
    BY <1>1 DEF StreamInv, Typing, Lookup, Holders
<1>3. Typing'
    BY <1>1, <1>2, LookupIsElement DEF Typing
<1>4. handler # "start"
    BY <1>1 DEF StreamInv, Fresh
<1>5. CASE handler = "serve"
    <2>1. ForPrefix(elem, next)'
        BY <1>1, <1>2, LookupIsElement DEF ForPrefix
    <2>2. /\ \A i \in 1..Len(got) : ForPrefix(got[i], i)'
          /\ sch # <<>> => ForPrefix(sch[1], Len(got) + 1)'
        BY <1>1, <1>2, <1>5 DEF StreamInv, Prefixes, ForPrefix
    <2>3. Prefixes'
        BY <1>1, <1>2, <1>5, <2>1, <2>2 DEF StreamInv, Prefixes
    <2>4. Walking'
        BY <1>1 DEF Walking
    <2> QED BY <1>1, <1>3, <1>5, <2>3, <2>4, DuringTheStream DEF StreamInv
<1> QED BY <1>1, <1>3, <1>4, <1>5, AfterTheStream DEF StreamInv, Typing

(* What was looked up is put on the channel. *)
LEMMA SendPrefixKeeps ==
    ASSUME StreamInv, SendPrefix
    PROVE  StreamInv'
<1>1. /\ kind = "persistent" /\ walker = "send" /\ sch = <<>> /\ sch' = <<elem>>
      /\ next' = next + 1 /\ walker' = (IF next = len THEN "done" ELSE "look")
      /\ next = len => closed' = TRUE
      /\ next # len => closed' = FALSE
      /\ UNCHANGED <<kind, len, mod, named, stored, walked, ctx, elem, converter, holds,
                     handler, status, got, changed, request>>
    BY DEF SendPrefix, request
<1>2. next \in Nat /\ len \in Nat /\ elem \in Elements /\ Typing /\ \A i : Lookup(i)' = Lookup(i)
    BY <1>1 DEF StreamInv, Typing, Lookup, Holders
<1>3. Typing'
    <2>1. closed' \in BOOLEAN
        BY <1>1
    <2>2. walker' \in {"look", "done"} /\ next' \in Nat /\ sch' \in Seq(Elements)
        BY <1>1, <1>2
    <2> QED BY <1>1, <1>2, <2>1, <2>2 DEF Typing
<1>4. handler # "start"
    BY <1>1 DEF StreamInv, Fresh
<1>5. CASE handler = "serve"
    <2>1. /\ Len(sch') = 1 /\ sch'[1] = elem /\ sch' # <<>> /\ len > 1 /\ next <= len
          /\ Len(got) = next - 1 /\ ForPrefix(elem, next)
        BY <1>1, <1>2, <1>5 DEF StreamInv, Prefixes
    <2>2. /\ \A i \in 1..Len(got) : ForPrefix(got[i], i)'
          /\ ForPrefix(sch[1], Len(got) + 1)'
        BY <1>1, <1>2, <1>5, <2>1 DEF StreamInv, Prefixes, ForPrefix
    <2>3. Prefixes'
        BY <1>1, <1>2, <1>5, <2>1, <2>2 DEF StreamInv, Prefixes
    <2>4. Walking'
        BY <1>1 DEF Walking
    <2> QED BY <1>1, <1>3, <1>5, <2>3, <2>4, DuringTheStream DEF StreamInv
<1> QED BY <1>1, <1>3, <1>4, <1>5, AfterTheStream DEF StreamInv, Typing

(* The walker gives up when the context is cancelled. *)
LEMMA SendCancelledKeeps ==
    ASSUME StreamInv, SendCancelled
    PROVE  StreamInv'
<1>1. /\ kind = "persistent" /\ walker = "send" /\ ctx # "live" /\ walker' = "done"
      /\ closed' = TRUE
      /\ UNCHANGED <<kind, len, mod, named, stored, walked, ctx, sch, next, elem, converter, holds,
                     handler, status, got, changed, request>>
    BY DEF SendCancelled, request
<1>2. next \in Nat /\ len \in Nat /\ Typing /\ \A i : Lookup(i)' = Lookup(i)
    BY <1>1 DEF StreamInv, Typing, Lookup, Holders
<1>3. Typing'
    BY <1>1, <1>2 DEF Typing
<1>4. handler # "start"
    BY <1>1 DEF StreamInv, Fresh
<1>5. CASE handler = "serve"
    <2>1. /\ \A i \in 1..Len(got) : ForPrefix(got[i], i)'
          /\ sch # <<>> => ForPrefix(sch[1], Len(got) + 1)'
        BY <1>1, <1>2, <1>5 DEF StreamInv, Prefixes, ForPrefix
    <2>2. Prefixes'
        BY <1>1, <1>2, <1>5, <2>1 DEF StreamInv, Prefixes
    <2>3. Walking'
        BY <1>1 DEF Walking
    <2> QED BY <1>1, <1>3, <1>5, <2>2, <2>3, DuringTheStream DEF StreamInv
<1> QED BY <1>1, <1>3, <1>4, <1>5, AfterTheStream DEF StreamInv, Typing

-----------------------------------------------------------------------------
(* The goroutines of the in-memory store *)

(* The in-memory walk goes one element down. *)
LEMMA WalkKeeps ==
    ASSUME StreamInv, Walk
    PROVE  StreamInv'
<1>1. /\ kind = "memory" /\ walker = "look"
      /\ walker' = (IF next > End THEN "done" ELSE "send")
      /\ elem' = IF next > End THEN elem ELSE Elem(next, walked.mod, walked.rev)
      /\ UNCHANGED <<kind, len, mod, named, stored, walked, ctx, sch, closed, next, converter,
                     holds, handler, status, got, changed, request>>
    BY DEF Walk, request, End
<1>2. next \in Nat /\ len \in Nat /\ Typing /\ walked # None /\ walked \in Walks
    BY <1>1 DEF StreamInv, Typing
<1>3. Typing'
    <2>1. Elem(next, walked.mod, walked.rev) \in Elements
        BY <1>2 DEF Elem, Elements, Walks
    <2>2. elem' \in Elements /\ walker' \in {"done", "send"}
        BY <1>1, <1>2, <2>1 DEF Typing
    <2> QED BY <1>1, <1>2, <2>2 DEF Typing
<1>4. handler # "start"
    BY <1>1 DEF StreamInv, Fresh
<1>5. CASE handler = "serve"
    <2>1. End \in Nat /\ First \in 0..2 /\ next \in First..(End + 1)
        BY <1>1, <1>2, <1>5, WalkLength DEF StreamInv, Walking
    <2>2. /\ walker' = "done" => next = End + 1
          /\ walker' = "send" => next <= End /\ elem' = Elem(next, walked.mod, walked.rev)
        BY <1>1, <1>2, <2>1
    <2>3. /\ End' = End /\ First' = First /\ PassedOn' = PassedOn
          /\ \A n : Sent(n)' = Sent(n)
        BY <1>1, SameWalk DEF PassedOn
    <2>4. Walking'
        BY <1>1, <1>2, <1>3, <1>5, <2>1, <2>2, <2>3 DEF StreamInv, Walking, Typing
    <2>5. Prefixes'
        BY <1>1 DEF Prefixes
    <2> QED BY <1>1, <1>3, <1>5, <2>4, <2>5, DuringTheStream DEF StreamInv
<1> QED BY <1>1, <1>3, <1>4, <1>5, AfterTheStream DEF StreamInv, Typing

(* What the converter makes of an element is one, or nothing. *)
LEMMA ConvertedIsElement ==
    ASSUME NEW e \in Elements
    PROVE  Converted(e) \in Elements
BY DEF Converted, Elements

(* An entry is handed over to the converter. *)
LEMMA PassEntryKeeps ==
    ASSUME StreamInv, PassEntry
    PROVE  StreamInv'
<1>1. /\ kind = "memory" /\ walker = "send" /\ converter = "recv" /\ holds' = Converted(elem)
      /\ converter' = "send" /\ next' = next + 1 /\ walker' = "look"
      /\ UNCHANGED <<kind, len, mod, named, stored, walked, ctx, sch, closed, elem,
                     handler, status, got, changed, request>>
    BY DEF PassEntry, request
<1>2. next \in Nat /\ len \in Nat /\ Typing /\ walked # None
    BY <1>1 DEF StreamInv, Typing
<1>3. Typing'
    BY <1>1, <1>2, ConvertedIsElement DEF Typing
<1>4. handler # "start"
    BY <1>1 DEF StreamInv, Fresh
<1>5. CASE handler = "serve"
    <2>1. End \in Nat /\ First \in 0..2
        BY <1>1, <1>2, WalkLength DEF StreamInv
    <2>2. /\ next \in First..(End + 1) /\ next <= End /\ Len(got) = next - First
          /\ elem = Elem(next, walked.mod, walked.rev)
        BY <1>1, <1>2, <1>5 DEF StreamInv, Walking, PassedOn
    <2>3. /\ End' = End /\ First' = First /\ \A n : Sent(n)' = Sent(n)
        BY <1>1, SameWalk
    <2>4. PassedOn' = next - First /\ next' - 1 = next
        BY <1>1, <1>2, <2>1, <2>3 DEF PassedOn
    <2>5. holds' = Converted(Elem(next' - 1, walked'.mod, walked'.rev))
        BY <1>1, <1>2, <2>2, <2>4
    <2>6. next' \in First..(End + 1) /\ next' > First
        BY <1>1, <2>1, <2>2
    <2>7. Walking'
        BY <1>1, <1>2, <1>5, <2>2, <2>3, <2>4, <2>5, <2>6 DEF StreamInv, Walking, Sent
    <2>8. Prefixes'
        BY <1>1 DEF Prefixes
    <2> QED BY <1>1, <1>3, <1>5, <2>7, <2>8, DuringTheStream DEF StreamInv
<1> QED BY <1>1, <1>3, <1>4, <1>5, AfterTheStream DEF StreamInv, Typing

(* The converter ends after the walker. *)
LEMMA ConverterStopsKeeps ==
    ASSUME StreamInv, ConverterStops
    PROVE  StreamInv'
<1>1. /\ converter = "recv" /\ converter' = "done" /\ (ctx # "live" \/ walker = "done")
      /\ UNCHANGED <<kind, len, mod, named, stored, walked, ctx, sch, closed, walker, next, elem, holds,
                     handler, status, got, changed, request>>
    BY DEF ConverterStops, request
<1>2. Typing' /\ len \in Nat
    BY <1>1 DEF StreamInv, Typing
<1>3. handler # "start"
    BY <1>1 DEF StreamInv, Fresh
<1>4. CASE handler = "serve"
    <2>1. kind = "memory"
        BY <1>1, <1>4 DEF StreamInv, Prefixes, Typing
    <2>2. First' = First /\ End' = End /\ PassedOn' = PassedOn /\ \A n : Sent(n)' = Sent(n)
        BY <1>1, SameWalk DEF PassedOn
    <2>3. Walking'
        BY <1>1, <1>2, <1>4, <2>1, <2>2 DEF StreamInv, Walking
    <2>4. Prefixes'
        BY <1>1, <2>1 DEF Prefixes
    <2> QED BY <1>1, <1>2, <1>4, <2>3, <2>4, DuringTheStream DEF StreamInv
<1> QED BY <1>1, <1>2, <1>3, <1>4, AfterTheStream DEF StreamInv, Typing

(* The last goroutine closes the channel. *)
LEMMA CloseElementsKeeps ==
    ASSUME StreamInv, CloseElements
    PROVE  StreamInv'
<1>1. /\ kind = "memory" /\ walker = "done" /\ converter = "done" /\ closed' = TRUE
      /\ UNCHANGED <<kind, len, mod, named, stored, walked, ctx, sch, walker, next, elem, converter,
                     holds, handler, status, got, changed, request>>
    BY DEF CloseElements, request, goroutines
<1>2. Typing' /\ len \in Nat
    BY <1>1 DEF StreamInv, Typing
<1>3. handler # "start"
    BY <1>1 DEF StreamInv, Fresh
<1>4. CASE handler = "serve"
    <2>1. First' = First /\ End' = End /\ PassedOn' = PassedOn /\ \A n : Sent(n)' = Sent(n)
        BY <1>1, SameWalk DEF PassedOn
    <2>2. Walking'
        BY <1>1, <1>2, <1>4, <2>1 DEF StreamInv, Walking
    <2>3. Prefixes'
        BY <1>1 DEF Prefixes
    <2> QED BY <1>1, <1>2, <1>4, <2>2, <2>3, DuringTheStream DEF StreamInv
<1> QED BY <1>1, <1>2, <1>3, <1>4, AfterTheStream DEF StreamInv, Typing

-----------------------------------------------------------------------------
(* The handler *)

(* The channel has room for one element. *)
LEMMA ChannelFull == ASSUME NEW n \in Nat, n # 0, n <= 1 PROVE n = 1
OBVIOUS

(* An element from the channel is the next prefix. *)
LEMMA ReceivePrefixKeeps ==
    ASSUME StreamInv, handler = "serve", sch # <<>>,
           got' = Append(got, Head(sch)), sch' = Tail(sch),
           UNCHANGED <<request, stored, walked, ctx, closed, walker, next, elem, converter,
                       holds, handler, status, changed>>
    PROVE  StreamInv'
<1>1. /\ UNCHANGED <<kind, len, mod, named>> /\ Typing /\ len \in Nat /\ next \in Nat
      /\ got \in Seq(Elements) /\ sch \in Seq(Elements)
    BY DEF request, StreamInv, Typing
<1>2. kind = "persistent"
    BY <1>1 DEF StreamInv, Typing, Walking
<1>3. /\ Len(sch) = 1 /\ sch[1] = Head(sch) /\ sch' = <<>> /\ Len(sch') = 0
      /\ Head(sch) \in Elements /\ ForPrefix(Head(sch), Len(got) + 1)
    <2>1. Len(sch) <= 1 /\ ForPrefix(sch[1], Len(got) + 1)
        BY <1>2 DEF StreamInv, Prefixes
    <2>2. Len(sch) = 1
        <3>1. Len(sch) \in Nat /\ Len(sch) # 0
            BY <1>1
        <3>2. Len(sch) <= 1
            BY <2>1
        <3> QED BY <3>1, <3>2, ChannelFull
    <2> QED BY <1>1, <2>1, <2>2
<1>4. /\ got' \in Seq(Elements) /\ Len(got') = Len(got) + 1 /\ got' # <<>>
      /\ \A i \in 1..Len(got) : got'[i] = got[i]
      /\ got'[Len(got) + 1] = Head(sch)
    BY <1>1, <1>3
<1>5. Typing'
    BY <1>1, <1>3, <1>4 DEF Typing
<1>6. \A i : Lookup(i)' = Lookup(i)
    BY <1>1 DEF Lookup, Holders
<1>7. \A i \in 1..Len(got') : ForPrefix(got'[i], i)
    <2>1. \A i \in 1..Len(got) : ForPrefix(got[i], i)
        BY <1>2 DEF StreamInv, Prefixes
    <2>2. ASSUME NEW i \in 1..Len(got')
          PROVE  ForPrefix(got'[i], i)
        <3>1. CASE i \in 1..Len(got)
            BY <1>4, <2>1, <3>1
        <3>2. CASE i = Len(got) + 1
            BY <1>3, <1>4, <3>2
        <3> QED BY <1>1, <1>4, <3>1, <3>2
    <2> QED BY <2>2
<1>8. \A i \in 1..Len(got') : ForPrefix(got[i], i)'
    BY <1>6, <1>7 DEF ForPrefix
<1>9. Prefixes'
    <2>1. len # 0
        BY <1>2 DEF StreamInv, Prefixes
    <2>2. walker = "send" => (ForPrefix(elem, next) => ForPrefix(elem, next)')
        BY <1>6 DEF ForPrefix
    <2>3. Len(got') + Len(sch') = Len(got) + Len(sch)
        BY <1>1, <1>3, <1>4
    <2> QED BY <1>1, <1>2, <1>3, <1>6, <1>8, <2>1, <2>2, <2>3 DEF StreamInv, Prefixes
<1>10. InOrder'
    <2>1. ASSUME NEW i \in 1..Len(got')
          PROVE  got'[i].n = i \/ (got'[i] = Nil /\ changed)
        <3>1. CASE changed
            BY <1>7, <3>1 DEF ForPrefix
        <3>2. CASE ~ changed
            <4>1. got'[i] = Lookup(i) /\ Lookup(len) # Nil
                BY <1>2, <1>7, <3>2 DEF ForPrefix, StreamInv, Prefixes
            <4>2. i \in 0..len
                BY <1>1, <1>2, <1>3, <1>4 DEF StreamInv, Prefixes
            <4> QED BY <1>1, <4>1, <4>2, PrefixesFound
        <3> QED BY <3>1, <3>2
    <2> QED BY <1>1, <1>2, <2>1 DEF InOrder, First
<1>11. Fresh' /\ Walking' /\ Begun' /\ Walked' /\ Ending' /\ CompleteWhenOk'
    BY <1>1, <1>2 DEF StreamInv, Ending, Fresh, Walking, Begun, Walked, CompleteWhenOk
<1> QED BY <1>5, <1>9, <1>10, <1>11 DEF StreamInv

(* An element from the converter is the next one of the walk. *)
LEMMA ReceiveEntryKeeps ==
    ASSUME StreamInv, handler = "serve", converter = "send",
           got' = Append(got, holds), converter' = "recv",
           UNCHANGED <<request, stored, walked, ctx, closed, walker, next, elem, sch,
                       holds, handler, status, changed>>
    PROVE  StreamInv'
<1>1. /\ UNCHANGED <<kind, len, mod, named>> /\ Typing /\ len \in Nat /\ next \in Nat
      /\ got \in Seq(Elements) /\ holds \in Elements
    BY DEF request, StreamInv, Typing
<1>2. kind = "memory"
    BY <1>1 DEF StreamInv, Typing, Prefixes
<1>3. /\ got' \in Seq(Elements) /\ Len(got') = Len(got) + 1 /\ got' # <<>>
      /\ \A i \in 1..Len(got) : got'[i] = got[i]
      /\ got'[Len(got) + 1] = holds
    BY <1>1
<1>4. Typing'
    BY <1>1, <1>3 DEF Typing
<1>5. walked # None
    BY <1>2 DEF StreamInv, Walking
<1>6. /\ End \in Nat /\ First \in 0..2
      /\ First' = First /\ End' = End /\ \A n : Sent(n)' = Sent(n)
    BY <1>1, <1>2, <1>5, WalkLength, SameWalk DEF StreamInv
<1>7. /\ next \in First..(End + 1) /\ next > First /\ Len(got) = next - First - 1
      /\ holds = Sent(next - 1)
    BY <1>1, <1>2, <1>5 DEF StreamInv, Walking, PassedOn
<1>8. /\ Len(got') = next - First /\ PassedOn' = next - First /\ Len(got') <= End - First + 1
    BY <1>1, <1>3, <1>6, <1>7 DEF PassedOn
<1>9. \A i \in 1..Len(got') : got'[i] = Sent(i + First - 1)
    <2>1. \A i \in 1..Len(got) : got[i] = Sent(i + First - 1)
        BY <1>2, <1>5 DEF StreamInv, Walked
    <2>2. ASSUME NEW i \in 1..Len(got')
          PROVE  got'[i] = Sent(i + First - 1)
        <3>1. CASE i \in 1..Len(got)
            BY <1>3, <2>1, <3>1
        <3>2. CASE i = Len(got) + 1
            <4>1. i + First - 1 = next - 1
                BY <1>1, <1>6, <1>7, <3>2
            <4> QED BY <1>3, <1>7, <3>2, <4>1
        <3> QED BY <1>1, <1>3, <3>1, <3>2
    <2> QED BY <2>2
<1>10. Walking'
    BY <1>1, <1>2, <1>5, <1>6, <1>7, <1>8 DEF StreamInv, Walking
<1>11. Begun' /\ Walked'
    BY <1>1, <1>2, <1>5, <1>6, <1>8, <1>9 DEF StreamInv, Begun, Walked
<1>12. InOrder'
    <2>1. ASSUME NEW n
          PROVE  Sent(n).n = n \/ (Sent(n) = Nil /\ <<walked.mod, n>> \in Defects)
        <3>1. Elem(n, walked.mod, walked.rev).n = n /\ Elem(n, walked.mod, walked.rev).mod = walked.mod
            BY DEF Elem
        <3> QED BY <3>1 DEF Sent, Converted
    <2> QED BY <1>1, <1>2, <1>6, <1>9, <2>1 DEF InOrder
<1>13. Fresh' /\ Prefixes' /\ Ending' /\ CompleteWhenOk'
    BY <1>1, <1>2 DEF StreamInv, Fresh, Prefixes, Ending, CompleteWhenOk
<1> QED BY <1>4, <1>10, <1>11, <1>12, <1>13 DEF StreamInv

(* The client cannot be reached. *)
LEMMA SendFailsKeeps ==
    ASSUME StreamInv, SendFails
    PROVE  StreamInv'
<1>1. Typing'
    <2>1. sch' \in Seq(Elements) /\ converter' \in {"off", "recv", "send", "done"}
        <3>1. CASE sch # <<>> /\ sch' = Tail(sch) /\ converter' = converter
            BY <3>1 DEF StreamInv, Typing
        <3>2. CASE converter' = "recv" /\ sch' = sch
            BY <3>2 DEF StreamInv, Typing
        <3> QED BY <3>1, <3>2 DEF SendFails
    <2>2. /\ UNCHANGED <<kind, len, mod, named, stored, walked, closed, walker, next, elem, holds,
                         got, changed>>
          /\ handler' = "done" /\ ctx' = IF ctx = "live" THEN "done" ELSE ctx
        BY DEF SendFails, Finish, request
    <2> QED BY <2>1, <2>2 DEF StreamInv, Typing
<1> QED BY <1>1, ErrorEnds DEF SendFails, StreamInv

(* The handler sees the cancellation. *)
LEMMA HandlerCancelledKeeps ==
    ASSUME StreamInv, HandlerCancelled
    PROVE  StreamInv'
<1>1. Typing'
    BY DEF HandlerCancelled, Finish, request, goroutines, StreamInv, Typing
<1> QED BY <1>1, ErrorEnds DEF HandlerCancelled, StreamInv

(* At the end of an undisturbed stream everything has reached the client. *)
LEMMA EndOfElementsKeeps ==
    ASSUME StreamInv, EndOfElements
    PROVE  StreamInv'
<1>1. /\ handler = "serve" /\ closed /\ sch = <<>> /\ handler' = "done" /\ status' = "ok"
      /\ ctx' = IF ctx = "live" THEN "done" ELSE ctx
      /\ UNCHANGED <<kind, len, mod, named, stored, walked, sch, closed, walker, next, elem,
                     converter, holds, got, changed>>
    BY DEF EndOfElements, Finish, request, goroutines
<1>2. /\ Typing /\ got \in Seq(Elements) /\ len \in Nat /\ next \in Nat /\ Len(sch) = 0
      /\ kind \in {"persistent", "memory"} /\ Len(got) \in Nat
      /\ got = [i \in 1..Len(got) |-> got[i]]
    BY <1>1 DEF StreamInv, Typing
<1>3. Typing'
    BY <1>1 DEF StreamInv, Typing
<1>4. Fresh' /\ Prefixes' /\ Walking' /\ Begun' /\ Walked' /\ Ending' /\ InOrder'
    BY <1>1, SameWalk DEF StreamInv, Fresh, Prefixes, Walking, Begun, Walked, Ending, InOrder, request
<1>5. CompleteWhenOk'
    <2> SUFFICES ASSUME ctx' # "cancelled", ~ changed
                 PROVE  \/ /\ kind = "persistent"
                           /\ got = [i \in 1..len |-> Lookup(i)]
                        \/ /\ kind = "memory" /\ walked # None
                           /\ got = ElementsOf(walked)
                        \/ /\ kind = "memory" /\ walked = None
                           /\ got = <<>>
        <3>1. \A i : Lookup(i)' = Lookup(i)
            BY <1>1 DEF Lookup, Holders
        <3> QED BY <1>1, <3>1, SameWalk DEF CompleteWhenOk, request
    <2>1. ctx = "live"
        BY <1>1 DEF StreamInv, Typing
    <2>2. CASE kind = "persistent"
        <3>1. Len(got) = len
            BY <1>1, <1>2, <2>1, <2>2 DEF StreamInv, Prefixes
        <3>2. \A i \in 1..Len(got) : got[i] = Lookup(i)
            BY <1>1, <2>2 DEF StreamInv, Prefixes, ForPrefix
        <3> QED BY <1>2, <2>2, <3>1, <3>2
    <2>3. CASE kind = "memory" /\ walked = None
        BY <2>3 DEF StreamInv, Walked
    <2>4. CASE kind = "memory" /\ walked # None
        <3>1. End \in Nat /\ First \in 0..2
            BY <1>2, <2>4, WalkLength DEF StreamInv
        <3>2. Len(got) = End - First + 1
            BY <1>1, <1>2, <2>1, <2>4, <3>1 DEF StreamInv, Walking, PassedOn
        <3>3. \A i \in 1..Len(got) : got[i] = Sent(i + First - 1)
            BY <2>4 DEF StreamInv, Walked
        <3> QED BY <1>2, <2>4, <3>2, <3>3 DEF ElementsOf, Sent, End
    <2> QED BY <1>2, <2>2, <2>3, <2>4
<1> QED BY <1>3, <1>4, <1>5 DEF StreamInv

-----------------------------------------------------------------------------
(* The environment *)

(* The client goes away. *)
LEMMA CancelKeeps ==
    ASSUME StreamInv, Cancel
    PROVE  StreamInv'
<1>1. /\ handler = "serve" /\ ctx' = "cancelled"
      /\ UNCHANGED <<kind, len, mod, named, stored, walked, sch, closed, walker, next, elem,
                     converter, holds, handler, status, got, changed, request>>
    BY DEF Cancel, request, goroutines
<1>2. Typing'
    BY <1>1 DEF StreamInv, Typing
<1>3. /\ \A i : Lookup(i)' = Lookup(i)
      /\ First' = First /\ End' = End /\ PassedOn' = PassedOn /\ \A n : Sent(n)' = Sent(n)
    BY <1>1, SameWalk DEF Lookup, Holders, PassedOn
<1>4. Prefixes'
    BY <1>1, <1>3 DEF StreamInv, Prefixes, ForPrefix
<1>5. Walking'
    BY <1>1, <1>3 DEF StreamInv, Walking
<1> QED BY <1>1, <1>2, <1>4, <1>5, DuringTheStream DEF StreamInv

(* A change of the schema: from here on a persistent stream may have empty *)
(* elements.                                                               *)
LEMMA ChangeSchemaKeeps ==
    ASSUME StreamInv, ChangeSchema
    PROVE  StreamInv'
<1>1. /\ handler = "serve" /\ changed' = TRUE /\ stored' \in Revs \union {None}
      /\ stored' # None /\ named # NoModule => stored'[named] >= 1
      /\ UNCHANGED <<kind, len, mod, named, walked, ctx, sch, closed, walker, next, elem,
                     converter, holds, handler, status, got, request>>
    BY DEF ChangeSchema, RevsHere, request, goroutines
<1>2. /\ Typing /\ len \in Nat /\ next \in Nat /\ got \in Seq(Elements) /\ sch \in Seq(Elements)
      /\ Len(got) \in Nat /\ Len(sch) \in Nat
    BY DEF StreamInv, Typing
<1>3. Typing'
    BY <1>1 DEF StreamInv, Typing
<1>4. First' = First /\ End' = End /\ PassedOn' = PassedOn /\ \A n : Sent(n)' = Sent(n)
    BY <1>1, SameWalk DEF PassedOn
<1>5. Walking'
    BY <1>1, <1>4 DEF StreamInv, Walking
<1>6. Prefixes'
    <2> SUFFICES ASSUME kind = "persistent"
                 PROVE  Prefixes'
        BY <1>1 DEF Prefixes
    <2>1. ASSUME NEW x, NEW i \in Nat, ForPrefix(x, i)
          PROVE  x.n = i \/ x = Nil
        BY <1>2, <2>1, LookupIsElement DEF ForPrefix
    <2>2. /\ \A i \in 1..Len(got) : ForPrefix(got[i], i)'
          /\ sch # <<>> => ForPrefix(sch[1], Len(got) + 1)'
          /\ len > 1 /\ walker = "send" => ForPrefix(elem, next)'
        <3>1. \A i \in 1..Len(got) : got[i].n = i \/ got[i] = Nil
            BY <1>1, <2>1 DEF StreamInv, Prefixes
        <3>2. sch # <<>> => sch[1].n = Len(got) + 1 \/ sch[1] = Nil
            BY <1>1, <1>2, <2>1 DEF StreamInv, Prefixes
        <3>3. len > 1 /\ walker = "send" => elem.n = next \/ elem = Nil
            BY <1>1, <1>2, <2>1 DEF StreamInv, Prefixes
        <3> QED BY <1>1, <3>1, <3>2, <3>3 DEF ForPrefix
    <2> QED BY <1>1, <2>2 DEF StreamInv, Prefixes
<1> QED BY <1>1, <1>3, <1>5, <1>6, DuringTheStream DEF StreamInv

-----------------------------------------------------------------------------
(* The theorems *)

(* The invariant holds at the start. *)
LEMMA StreamInit ==
    ASSUME Init
    PROVE  StreamInv
<1>1. <<>> \in Seq(Elements) /\ Len(<<>>) = 0 /\ Nil \in Elements /\ None # "ok"
    BY StreamAssumption DEF Elements
<1>2. len \in Nat /\ kind \in {"persistent", "memory"}
    BY StreamAssumption DEF Init
<1>3. Typing
    BY <1>1, <1>2 DEF Init, Typing, RevsHere
<1>4. Fresh /\ Prefixes /\ Walking /\ Begun /\ Walked /\ Ending /\ InOrder /\ CompleteWhenOk
    BY <1>1 DEF Init, Fresh, Prefixes, Walking, Begun, Walked, Ending, InOrder, CompleteWhenOk
<1> QED BY <1>3, <1>4 DEF StreamInv

(* The inductive invariant. *)
THEOREM StreamInvariance == Spec => []StreamInv
<1>1. Init => StreamInv
    BY StreamInit
<1>2. StreamInv /\ [Next]_vars => StreamInv'
    <2> SUFFICES ASSUME StreamInv, [Next]_vars
                 PROVE  StreamInv'
        OBVIOUS
    <2>1. CASE Goroutine
        BY <2>1, LookUpPrefixKeeps, SendPrefixKeeps, SendCancelledKeeps, WalkKeeps,
           PassEntryKeeps, ConverterStopsKeeps, CloseElementsKeeps DEF Goroutine
    <2>2. CASE Receive
        BY <2>2, ReceivePrefixKeeps, ReceiveEntryKeeps DEF Receive
    <2>3. CASE Handle /\ ~ Receive
        BY <2>3, RefuseKeeps, StartPersistentKeeps, StartMemoryKeeps, SendFailsKeeps,
           EndOfElementsKeeps, HandlerCancelledKeeps DEF Handle
    <2>4. CASE Cancel \/ ChangeSchema
        BY <2>4, CancelKeeps, ChangeSchemaKeeps
    <2>5. CASE UNCHANGED vars
        <3>1. UNCHANGED <<kind, len, mod, named, stored, walked, ctx, sch, closed, walker, next, elem,
                          converter, holds, handler, status, got, changed>>
            BY <2>5 DEF vars, request, goroutines
        <3>2. /\ \A i : Lookup(i)' = Lookup(i)
              /\ First' = First /\ End' = End /\ PassedOn' = PassedOn
              /\ \A n : Sent(n)' = Sent(n)
              /\ ElementsOf(walked)' = ElementsOf(walked)
            BY <3>1, SameWalk DEF Lookup, Holders, PassedOn, request
        <3>3. Typing' /\ Fresh' /\ Ending' /\ InOrder'
            BY <3>1, <3>2 DEF StreamInv, Typing, Fresh, Ending, InOrder
        <3>4. Prefixes'
            BY <3>1, <3>2 DEF StreamInv, Prefixes, ForPrefix
        <3>5. Walking' /\ Begun' /\ Walked'
            BY <3>1, <3>2 DEF StreamInv, Walking, Begun, Walked
        <3>6. CompleteWhenOk'
            BY <3>1, <3>2 DEF StreamInv, CompleteWhenOk
        <3> QED BY <3>3, <3>4, <3>5, <3>6 DEF StreamInv
    <2> QED BY <2>1, <2>2, <2>3, <2>4, <2>5 DEF Next
<1> QED BY <1>1, <1>2, PTL DEF Spec

(* The elements of every stream are in the order of the path, without a    *)
(* gap and without a repetition, from where the store begins; a persistent *)
(* stream may have empty ones when the schema was changed under it, one in *)
(* memory where an entry could not be converted.                           *)
THEOREM ElementsInOrder == Spec => []InOrder
<1>1. StreamInv => InOrder
    BY DEF StreamInv
<1> QED BY <1>1, StreamInvariance, PTL

(* A stream that ends well without a change and without a cancellation has *)
(* every element that there is.                                            *)
THEOREM StreamsAreComplete == Spec => []CompleteWhenOk
<1>1. StreamInv => CompleteWhenOk
    BY DEF StreamInv
<1> QED BY <1>1, StreamInvariance, PTL

(* What a stream in memory has sent at any time is a beginning of what one *)
(* module of one parse has of the path.                                    *)
THEOREM WalksStayInOneTree == Spec => []OneTreePerWalk
<1>1. ASSUME StreamInv
      PROVE  OneTreePerWalk
    <2> SUFFICES ASSUME kind = "memory", walked # None
                 PROVE  \E n \in 0..len + 1 : got = SubSeq(ElementsOf(walked), 1, n)
        BY DEF OneTreePerWalk
    <2> DEFINE E == ElementsOf(walked)
               n == Len(got)
               all == End - First + 1
    <2>1. /\ End \in Nat /\ End <= len /\ First \in 0..2 /\ First <= End + 1
          /\ walked.mod \in Modules \union {None} /\ walked.rev \in Revs
        BY <1>1, WalkLength DEF StreamInv
    <2>2. /\ got \in Seq(Elements) /\ n \in Nat /\ n <= all /\ len \in Nat
          /\ \A i \in 1..n : got[i] = Sent(i + First - 1)
        BY <1>1 DEF StreamInv, Typing, Walked
    <2>3. all \in Nat /\ E = [i \in 1..all |-> Sent(i + First - 1)]
        BY <2>1 DEF ElementsOf, Sent, End
    <2>4. \A i \in 1..all : Sent(i + First - 1) \in Elements
        <3>1. ASSUME NEW i \in 1..all
              PROVE  Elem(i + First - 1, walked.mod, walked.rev) \in Elements
            BY <2>1 DEF Elem, Elements
        <3> QED BY <3>1, ConvertedIsElement DEF Sent
    <2>5. E \in Seq(Elements) /\ Len(E) = all
        BY <2>3, <2>4
    <2>6. /\ SubSeq(E, 1, n) \in Seq(Elements) /\ Len(SubSeq(E, 1, n)) = n
          /\ \A i \in 1..n : SubSeq(E, 1, n)[i] = E[i]
        BY <2>2, <2>3, <2>5
    <2>7. \A i \in 1..n : SubSeq(E, 1, n)[i] = got[i]
        BY <2>2, <2>3, <2>6
    <2>8. got = SubSeq(E, 1, n)
        BY <2>2, <2>6, <2>7
    <2>9. n \in 0..len + 1
        BY <2>1, <2>2
    <2> QED BY <2>8, <2>9
<1> QED BY <1>1, StreamInvariance, PTL

=============================================================================
