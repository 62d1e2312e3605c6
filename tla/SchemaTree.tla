----------------------------- MODULE SchemaTree -----------------------------
(***************************************************************************)
(* A parsed YANG schema and the questions asked about it, as the two       *)
(* stores answer them.  The in-memory store works on the tree (pkg/schema) *)
(* and the persistent one on the entries written from it, looked up by     *)
(* path (pkg/store/persiststore); both see choices and cases, which do not *)
(* exist in paths.                                                         *)
(*                                                                         *)
(* A node is the sequence of names that leads to it, choices and cases     *)
(* included; the parser (goyang) puts a case between every choice and what *)
(* is in it.  A path is a sequence of names with a module prefix or none.  *)
(* One action asks both stores the same question.                          *)
(***************************************************************************)
EXTENDS Integers, Sequences, FiniteSets, SequencesExt

CONSTANTS
    Idents,        \* the names of modules and nodes
    Trees,         \* the schemas considered
    MaxDepth,      \* how deep they are at most
    Modules,       \* module names
    Prefix,        \* Prefix[m]: the prefix module m declares
    Rank,          \* Rank[s]: the order of names, of modules and keys
    Value,         \* Value[k]: the value a client has for key k
    Bogus,         \* a name no node has
    NoModule, None, Error, Panic

(* A schema: above every node but the modules is another, the children of  *)
(* a choice, and nothing else, are cases, leaves have no children, only    *)
(* they may be leafrefs, the keys of a list are different leaves right     *)
(* below it (RFC 7950, 7.8.2) and no two nodes are at the same place of    *)
(* the data tree (6.2.1).                                                  *)
IsSchema(t) ==
    LET InChoice(n) == t[n].kind \in {"choice", "case"}
        Below(n, k) == k < Len(n) /\ \A i \in k + 1 .. Len(n) - 1 : InChoice(SubSeq(n, 1, i))
    IN  /\ {<<m>> : m \in Modules} \subseteq DOMAIN t
        /\ \A n \in DOMAIN t :
              /\ n \in Seq(Idents) /\ Len(n) \in 1..MaxDepth
              /\ IF Len(n) > 1 THEN Front(n) \in DOMAIN t /\ t[Front(n)].kind \notin {"leaf", "leaflist"}
                              ELSE n[1] \in Modules /\ t[n].kind = "module"
              /\ t[n].kind = "case" <=> Len(n) > 1 /\ t[Front(n)].kind = "choice"
              /\ t[n].keys \in Seq(Idents) /\ IsInjective(t[n].keys)
              /\ \A k \in Range(t[n].keys) :
                    t[n].kind = "list" /\ n \o <<k>> \in DOMAIN t /\ t[n \o <<k>>].kind = "leaf"
              /\ t[n].ref # None => /\ t[n].kind \in {"leaf", "leaflist"}
                                    /\ t[n].ref.up \in Nat /\ t[n].ref.down \in Seq(Idents)
        /\ \A a, b \in {n \in DOMAIN t : ~ InChoice(n)} : \A k \in 1..Len(a) :
              Below(a, k) /\ Below(b, k) /\ SubSeq(a, 1, k) = SubSeq(b, 1, k) /\ Last(a) = Last(b)
              => a = b

ASSUME SchemaAssumption ==
    /\ MaxDepth \in Nat
    /\ \A t \in Trees : IsSchema(t)

(* Modules are tried one after the other. *)
ASSUME ModulesAssumption ==
    /\ Modules \subseteq Idents
    /\ \A m \in Modules : Rank[m] \in Nat /\ Prefix[m] # NoModule
    /\ \A m, x \in Modules : Rank[m] = Rank[x] => m = x

(* Keys are told apart by their names, and there is a value for each. *)
ASSUME KeysAssumption ==
    /\ \A t \in Trees : \A n \in DOMAIN t : Range(t[n].keys) \subseteq DOMAIN Value
    /\ \A k \in DOMAIN Value : Rank[k] \in Nat
    /\ \A k, l \in DOMAIN Value : Rank[k] = Rank[l] => k = l

(* What is written in a row is names and key values; an element of a path  *)
(* is a name with the keys it carries.                                     *)
Words == Idents \union Range(Value)
Elements == [name : Words, keys : SUBSET (Words \X (Words \union {"*"}))]

ASSUME ValuesAssumption ==
    /\ None \notin Seq(Idents)
    /\ {Error, Panic} \intersect Seq(Elements) = {} /\ Error # Panic
    /\ NoModule \notin Modules /\ Bogus \in Idents

VARIABLES
    tree,     \* the schema
    op,       \* the last thing done: "parse", "failed", "panicked", "loaded", or a question
    q,        \* the question
    mem, db   \* the answers of the two stores

vars == <<tree, op, q, mem, db>>

-----------------------------------------------------------------------------
(* The tree *)

Nodes == DOMAIN tree
Kind(n) == tree[n].kind
Name(n) == Last(n)
Parent(n) == Front(n)
Dir(n) == {c \in Nodes : Parent(c) = n}
Child(n, s) == n \o <<s>>
HasChild(n, s) == Child(n, s) \in Nodes

Transparent(n) == n \in Nodes /\ Kind(n) \in {"choice", "case"}
(* A node with others in it that is of none of the kinds the tree is       *)
(* searched in: goyang keeps a notification so.                            *)
Opaque(n) ==
    /\ n \in Nodes /\ Len(n) > 1
    /\ Kind(n) \notin {"container", "list", "choice", "case", "leaf", "leaflist"}

(* The names on the way to n that exist in the data tree. *)
DataNames[n \in Nodes \union {<<>>}] ==
    IF n = <<>> THEN <<>>
    ELSE IF Transparent(n) THEN DataNames[Parent(n)]
    ELSE Append(DataNames[Parent(n)], Name(n))

(* The nearest node above n that exists in the data tree. *)
DataParent[n \in Nodes] ==
    IF Transparent(Parent(n)) THEN DataParent[Parent(n)] ELSE Parent(n)

DataNodes == {n \in Nodes : ~ Transparent(n)}
IsDir(n) == n = <<>> \/ Kind(n) \notin {"leaf", "leaflist"}
KeysOf(n) == IF n = <<>> THEN <<>> ELSE tree[n].keys
(* The keys of n in the order of their names. *)
SortedKeys(n) ==
    LET K == Range(KeysOf(n))
        Before(k) == {l \in K : Rank[l] < Rank[k]}
    IN  [i \in 1..Cardinality(K) |-> CHOOSE k \in K : Cardinality(Before(k)) = i - 1]

(* The children of n, and in place of a choice or case those in it. *)
GetChildren(n) == {c \in DataNodes : DataParent[c] = n /\ ~ Opaque(n)}

IsState(n) == \E i \in 1..Len(n) : tree[SubSeq(n, 1, i)].state

First(M) == CHOOSE m \in M : \A x \in M : Rank[m] <= Rank[x]

-----------------------------------------------------------------------------
(* GetEntry: lookup in the tree *)

Descend(n, names) ==
    LET At[i \in 0..Len(names)] ==
          IF i = 0 THEN n
          ELSE LET C == {c \in GetChildren(At[i - 1]) : Name(c) = names[i]}
               IN  IF C = {} THEN None ELSE CHOOSE c \in C : TRUE
    IN  At[Len(names)]

(* FindPossibleModulesForPathElement: a module of that name, or those with *)
(* such a node at their top.  The prefix is the one the module declares.   *)
PossibleModules(p) ==
    LET s == Head(p.names)
        Matches(m) == p.mod = NoModule \/ Prefix[m] = p.mod
    IN  IF s \in Modules /\ Matches(s) THEN {s}
        ELSE {m \in Modules : HasChild(<<m>>, s) /\ Matches(m)}

(* Mutant: only the preferred module is searched. *)
GetEntry_FirstOnly(p) ==
    IF p.names = <<>> THEN <<>>
    ELSE IF PossibleModules(p) = {} THEN None
    ELSE Descend(<<First(PossibleModules(p))>>, p.names)

GetEntry(p) ==
    IF p.names = <<>> THEN <<>>
    ELSE LET M == PossibleModules(p)
             F == {m \in M : Descend(<<m>>, p.names) # None}
         IN  IF F # {} THEN Descend(<<First(F)>>, p.names)
             ELSE IF p.mod = NoModule /\ M = {Head(p.names)} /\ Len(p.names) = 1 THEN p.names
             ELSE None

-----------------------------------------------------------------------------
(* getSchema: lookup among the entries addSchemaElem wrote *)

(* Mutant: cases and choices stay in the path. *)
EntryPath_Raw(n) == n

GetEntryPath[n \in Nodes] ==
    IF Len(n) > 1 THEN Append(GetEntryPath[DataParent[n]], Name(n)) ELSE n

(* What an entry is stored under. *)
EntryPath(n) == GetEntryPath[n]

(* A path that starts with the name of the module tried is taken as it is. *)
EntryKey(m, names) == IF Head(names) = m THEN names ELSE <<m>> \o names

GetSchema(p) ==
    IF p.names = <<>> THEN <<>>
    ELSE LET At(m) == {n \in DataNodes : EntryPath(n) = EntryKey(m, p.names)}
             M == {m \in IF p.mod = NoModule THEN Modules ELSE {p.mod} : At(m) # {}}
         IN  IF M = {} THEN None ELSE CHOOSE n \in At(First(M)) : TRUE

-----------------------------------------------------------------------------
(* ExpandPath: the leaves below an element. *)

Elem(s, keys) == [name |-> s, keys |-> keys]
InFront(e, s) == IF s \in {Error, Panic} THEN s ELSE <<e>> \o s
Star(n) == {<<k, "*">> : k \in Range(KeysOf(n))}
StarElem(n) == Elem(Name(n), IF Kind(n) = "list" THEN Star(n) ELSE {})

Wanted(n, dt) ==
    CASE dt = "ALL" -> TRUE [] dt = "CONFIG" -> ~ IsState(n) [] dt = "STATE" -> IsState(n)

IsKey(n, c) == Name(c) \in Range(KeysOf(n))

(* getPathElems, from the tree *)
GetPathElems(top, dt) ==
    LET Elems[n \in Nodes] ==
          LET Below(C) == UNION {Elems[c] : c \in C}
          IN  CASE Opaque(n) -> {}
                [] Transparent(n) -> Below(Dir(n))
                [] ~ IsDir(n) -> IF Wanted(n, dt) THEN {<<StarElem(n)>>} ELSE {}
                [] OTHER -> {<<StarElem(n)>> \o s : s \in Below({c \in Dir(n) : ~ IsKey(n, c)})}
    IN  Elems[top]

(* Mutant: the children in a choice are left out. *)
MemExpand_NoChoices(n, dt) ==
    IF n # <<>> /\ Kind(n) = "leaf" THEN {<<>>}
    ELSE UNION {GetPathElems(c, dt) : c \in {x \in Dir(n) : ~ IsKey(n, x) /\ ~ Transparent(x)}}

MemExpand(n, dt) ==
    IF n # <<>> /\ Kind(n) = "leaf" THEN {<<>>}
    ELSE UNION {GetPathElems(c, dt) : c \in {x \in Dir(n) : ~ IsKey(n, x)}}

(* Mutant: the keys of the requested element only. *)
PopulatePathKeys_Last(n, names) ==
    [i \in 1..Len(names) |->
        IF i = Len(names) THEN StarElem(n) ELSE Elem(names[i], {})]

(* populatePathKeys goes up one node per element of the path. *)
PopulatePathKeys(n, names) ==
    [i \in 1..Len(names) |->
        LET a == SubSeq(n, 1, Len(n) - (Len(names) - i))
        IN  Elem(names[i], IF a \in Nodes /\ Kind(a) = "list" THEN Star(a) ELSE {})]

(* ExpandPath of the persistent store: containerFromYEntry tells keys,     *)
(* leaves and directories below an element, and each directory is looked   *)
(* up by its path.                                                         *)
DbExpand(p, dt) ==
    LET Below[names \in Seq(Idents)] ==
          LET n == GetSchema([p EXCEPT !.names = names])
              C == {c \in GetChildren(n) : ~ IsKey(n, c)}
              Leaves == {c \in C : ~ IsDir(c) /\ Wanted(c, dt)}
          IN  IF n = None THEN {Error}
              ELSE IF ~ IsDir(n) THEN (IF Wanted(n, dt) THEN {<<>>} ELSE {})
              ELSE {<<StarElem(c)>> : c \in Leaves}
                     \union UNION {{InFront(StarElem(c), s) : s \in Below[Append(names, Name(c))]} :
                                      c \in {x \in C : IsDir(x)}}
    IN  Below[p.names]

-----------------------------------------------------------------------------
(* ToPath: from names and key values in a row to a path *)

After(s, n) == SubSeq(s, n + 1, Len(s))

(* Mutant: only the choice itself is searched, not its cases. *)
FindChoiceCase_NotDeeper(n, s) ==
    LET C == {c \in Nodes : /\ Len(c) = Len(n) + 2 /\ SubSeq(c, 1, Len(n)) = n
                            /\ Kind(Parent(c)) = "choice" /\ Kind(c) # "case" /\ Name(c) = s}
    IN  IF C = {} THEN None ELSE CHOOSE c \in C : TRUE

(* The child named s of a case of a choice of n. *)
FindChoiceCase(n, s) ==
    LET C == {c \in Nodes : /\ Len(c) = Len(n) + 3 /\ SubSeq(c, 1, Len(n)) = n
                            /\ Kind(Parent(Parent(c))) = "choice" /\ Name(c) = s}
    IN  IF C = {} THEN None ELSE CHOOSE c \in C : TRUE

(* buildPath, from the tree.  For leaves, lists and most containers pe     *)
(* begins with the node's own name; what a choice or case passes on does   *)
(* not.  Nothing is added for nodes of other kinds.                        *)
BuildPath[n \in Nodes] == [pe \in Seq(Words) |->
    LET me == Elem(Name(n), {})
        On(c, rest) == IF c = None THEN Error ELSE BuildPath[c][rest]
        To(i) == IF HasChild(n, pe[i]) THEN Child(n, pe[i]) ELSE FindChoiceCase(n, pe[i])
        keys == SortedKeys(n)
        given == IF Len(keys) < Len(pe) THEN Len(keys) ELSE Len(pe) - 1
        InCase == {c \in Nodes : Len(c) = Len(n) + 2 /\ SubSeq(c, 1, Len(n)) = n /\ Name(c) = pe[1]}
    IN  IF pe = <<>> THEN <<me>>
        ELSE CASE Kind(n) = "list" ->
                    LET e == Elem(Name(n), {<<keys[i], pe[i + 1]>> : i \in 1..given})
                    IN  IF Len(pe) = given + 1 THEN <<e>>
                        ELSE InFront(e, On(To(given + 2), After(pe, given + 1)))
               [] Kind(n) = "choice" ->
                    IF InCase = {} THEN Error
                    ELSE InFront(me, BuildPath[CHOOSE c \in InCase : TRUE][Tail(pe)])
               [] Kind(n) = "case" ->
                    IF HasChild(n, pe[1]) THEN BuildPath[Child(n, pe[1])][Tail(pe)]
                    ELSE IF HasChild(n, Name(n)) THEN BuildPath[Child(n, Name(n))][pe]
                    ELSE Error
               [] Kind(n) = "container" ->
                    IF HasChild(n, pe[1])
                    THEN LET c == Child(n, pe[1])
                         IN  IF Kind(c) = "choice" THEN BuildPath[c][Tail(pe)]
                             ELSE InFront(me, BuildPath[c][pe])
                    ELSE IF Len(pe) = 1 THEN <<me>>
                    ELSE InFront(me, On(To(2), Tail(pe)))
               [] Kind(n) = "leaf" -> IF Len(pe) = 1 THEN <<me>> ELSE Error
               [] Kind(n) = "leaflist" ->
                    IF Len(pe) = 1 THEN <<me>>
                    ELSE IF Len(pe) = 2 THEN <<Elem(Name(n), {<<Name(n), pe[2]>>})>>
                    ELSE Error
               [] OTHER -> <<>>]

(* BuildPath: in the module named first, or in any that has the node (a Go *)
(* map is searched): the possible answers.                                 *)
MemToPath(p) ==
    LET first == IF p.mod = NoModule THEN Head(p.names) ELSE p.mod
        M == IF first \in Modules THEN {first} ELSE Modules
        H == {m \in M : HasChild(<<m>>, Head(p.names))}
    IN  IF p.names = <<>> THEN {<<>>}
        ELSE IF H = {} THEN {Error}
        ELSE {BuildPath[<<m, Head(p.names)>>][p.names] : m \in H}

(* ToPath of the persistent store: one element is looked up after the      *)
(* other, and takes a value for each of its keys in the order of the       *)
(* schema, whether there are as many or not.  Rest is what it makes of the *)
(* i-th of the words and those after it, after the names before.           *)
ToPathFrom(p) ==
    LET s == p.names
        Lookup(names) == GetSchema([p EXCEPT !.names = names])
        Rest[i \in 1..Len(s) + 1] == [before \in Seq(Words) |->
          LET here == IF i <= Len(s) THEN Append(before, s[i]) ELSE before
              n == Lookup(here)
              keys == KeysOf(n)
              On(k, e) == InFront(e, Rest[i + 1 + k][here])
          IN  IF n = None THEN Error
              ELSE IF i > Len(s) THEN <<>>
              ELSE IF i = Len(s) THEN <<Elem(s[i], {})>>
              ELSE IF IsDir(n) THEN
                   (IF i + Len(keys) > Len(s) THEN Panic
                    ELSE On(Len(keys), Elem(s[i], {<<keys[j], s[i + j]>> : j \in 1..Len(keys)})))
              ELSE IF Kind(n) = "leaf" THEN On(0, Elem(s[i], {}))
              ELSE On(1, Elem(s[i], {<<s[i], s[i + 1]>>}))]
    IN  Rest[1][<<>>]

(* Mutant: a list takes the values that are left. *)
DbToPath_Tolerant(p) ==
    LET r == ToPathFrom(p) IN IF r = Panic THEN Error ELSE r

(* Mutant: the last element is left out. *)
DbToPath_Short(p) ==
    LET r == ToPathFrom(p) IN IF r \in {Error, Panic} \/ Len(r) < 2 THEN r ELSE Front(r)

DbToPath(p) == ToPathFrom(p)

-----------------------------------------------------------------------------
(* Leafrefs: relative paths, "up" steps and then names *)

(* One step up from n: out of the cases and choices too. *)
OutOfChoice[n \in Nodes \union {<<>>}] ==
    IF Transparent(n) THEN OutOfChoice[Parent(Parent(n))] ELSE n

StepUp(n, k) ==
    LET Up[i \in 0..k] == IF i = 0 THEN n ELSE OutOfChoice[Parent(Up[i - 1])]
    IN  Up[k]

(* Mutant: a step up may end in a case. *)
NormalizePath_Raw(n) ==
    LET r == tree[n].ref
        a == SubSeq(n, 1, Len(n) - r.up)
    IN  IF a = <<>> THEN r.down ELSE Tail(DataNames[a]) \o r.down

(* normalizePath: the names from below the module, without prefixes. *)
NormalizePath(n) ==
    LET r == tree[n].ref
        a == StepUp(n, r.up)
    IN  IF a = <<>> THEN r.down ELSE Tail(DataNames[a]) \o r.down

Leafrefs == {n \in Nodes : tree[n].ref # None /\ ~ IsState(n)}

(* The steps up lead beyond the root, whose parent is nil. *)
AboveRoot(n) == tree[n].ref.up > Len(DataNames[n])

RefEntry(n) == GetEntry([mod |-> NoModule, names |-> NormalizePath(n)])

(* Mutant: the cases are part of the way up. *)
BuildPathUp_Raw(n) == n

(* buildPathUpFromEntry: how a leaf names the leafrefs that point to it. *)
BuildPathUp(n) == GetEntryPath[n]

-----------------------------------------------------------------------------
(* NewSchema resolves every leafref, or ends at one it cannot: they come   *)
(* in any order, children are in a Go map.                                 *)
Load ==
    /\ op = "parse"
    /\ \/ /\ \A n \in Leafrefs : ~ AboveRoot(n) /\ RefEntry(n) # None
          /\ op' = "loaded"
       \/ /\ \E n \in Leafrefs : ~ AboveRoot(n) /\ RefEntry(n) = None
          /\ op' = "failed"
       \/ /\ \E n \in Leafrefs : AboveRoot(n)
          /\ op' = "panicked"
    /\ UNCHANGED <<tree, q, mem, db>>

(* Answers leave the schema as it is: one question is enough. *)
Asking == op = "loaded"

Names(n) == Tail(DataNames[n])
DataAncestor(n, i) ==
    CHOOSE a \in DataNodes : DataNames[a] = SubSeq(DataNames[n], 1, i + 1) /\ a[1] = n[1]

(* Paths of the nodes there are, and of some that are not. *)
Paths ==
    LET P == {Names(n) : n \in DataNodes} \union {DataNames[n] : n \in DataNodes}
    IN  [mod : Modules \union {NoModule}, names : P \union {Append(s, Bogus) : s \in P}]

(* The path of n, with a value for each key, and as the clients write it,  *)
(* in a row: ToStrings puts the values in the order of the key names.      *)
FullPath(n) ==
    [i \in 1..Len(Names(n)) |->
        Elem(Names(n)[i], {<<k, Value[k]>> : k \in Range(KeysOf(DataAncestor(n, i)))})]

ToStrings(n) ==
    FlattenSeq([i \in 1..Len(Names(n)) |->
        LET k == SortedKeys(DataAncestor(n, i))
        IN  <<Names(n)[i]>> \o [j \in 1..Len(k) |-> Value[k[j]]]])

AskSchema ==
    /\ Asking
    /\ \E p \in Paths :
          /\ q' = p
          /\ mem' = GetEntry(p)
          /\ db' = GetSchema(p)
    /\ op' = "get"
    /\ UNCHANGED tree

(* The path of n, with the name of its module in front or not. *)
PathOf(n, prefixed) ==
    IF prefixed /\ Len(n) > 1 THEN [mod |-> n[1], names |-> Names(n)]
    ELSE [mod |-> NoModule, names |-> IF Len(n) > 1 THEN Names(n) ELSE n]

AskExpand ==
    /\ Asking
    /\ \E n \in DataNodes \union {<<>>}, m \in {FALSE, TRUE}, dt \in {"ALL", "CONFIG", "STATE"} :
          LET p == PathOf(n, m)
          IN  /\ q' = [mod |-> p.mod, names |-> p.names, dt |-> dt]
              /\ mem' = IF GetEntry(p) = None THEN [base |-> Error, below |-> {Error}]
                        ELSE [base |-> PopulatePathKeys(GetEntry(p), p.names),
                              below |-> MemExpand(GetEntry(p), dt)]
              /\ db' = DbExpand(p, dt)
    /\ op' = "expand"
    /\ UNCHANGED tree

(* The whole path of a node, or the beginning of it. *)
AskToPath ==
    /\ Asking
    /\ \E n \in DataNodes, m \in {FALSE, TRUE} :
          \E len \in 0..Len(ToStrings(n)) :
             LET s == SubSeq(ToStrings(n), 1, len)
                 p == [mod |-> IF m THEN n[1] ELSE NoModule, names |-> s]
             IN  /\ s # <<>>
                 /\ q' = [mod |-> p.mod, names |-> s, node |-> n]
                 /\ mem' = MemToPath(p)
                 /\ db' = DbToPath(p)
    /\ op' = "toPath"
    /\ UNCHANGED tree

Init ==
    /\ tree \in Trees
    /\ op = "parse" /\ q = None /\ mem = None /\ db = None

Next == Load \/ AskSchema \/ AskExpand \/ AskToPath

Spec == Init /\ [][Next]_vars

-----------------------------------------------------------------------------
(* Properties *)

(* What lookup in the tree needs: the module itself has a node, if only a  *)
(* choice, of the name that the path of n begins with.                     *)
AtTop(n) == HasChild(<<n[1]>>, Names(n)[1])

(* Nothing above n hides it from a search of the tree. *)
InView(n) == \A i \in 1..Len(n) - 1 : ~ Opaque(SubSeq(n, 1, i))

(* No other module has the prefix of m. *)
OwnPrefix(m) == \A x \in Modules : Prefix[x] = Prefix[m] => x = m

(* Every node is found where it is in the data, under the name of its      *)
(* module in the persistent store and under the prefix of the module, if   *)
(* no other has it, in the tree, whatever choices it is in; except, in the *)
(* persistent store, below a node that is named like its module and, in    *)
(* the tree, below a choice that is itself at the top of the module and in *)
(* a notification, which the tree is not searched in.                      *)
NodesFound ==
    op = "loaded" =>
        \A n \in {x \in DataNodes : Len(x) > 1} :
            LET At(m) == [mod |-> m, names |-> Names(n)]
            IN  /\ GetSchema(At(n[1])) = n <=> Names(n)[1] # n[1]
                /\ OwnPrefix(n[1]) =>
                      (GetEntry(At(Prefix[n[1]])) = n
                          <=> (AtTop(n) \/ Names(n)[1] = n[1]) /\ InView(n))

(* Both stores take the path of q to mean the same. *)
SamePath ==
    /\ q.names # <<>> /\ Head(q.names) \notin Modules
    /\ q.mod = NoModule \/ (Prefix[q.mod] = q.mod /\ OwnPrefix(q.mod))

(* Both stores answer a lookup alike, found or not, as long as the path    *)
(* does not begin with a module and both know the prefix; except for what  *)
(* is in a notification, or in a choice at the top, which the persistent   *)
(* store alone finds.                                                      *)
LookupsAgree ==
    op = "get" /\ SamePath /\ (db = None \/ (AtTop(db) /\ InView(db))) => mem = db

(* The elements on the way to n, a star for every key. *)
Stars[n \in Nodes \union {<<>>}] ==
    IF n = <<>> THEN <<>>
    ELSE IF Transparent(n) THEN Stars[Parent(n)]
    ELSE Append(Stars[Parent(n)], StarElem(n))

(* The leaves and leaf-lists below n, as ExpandPath should list them: not  *)
(* those in a notification in it.                                          *)
LeavesBelow(n, dt) ==
    {After(Stars[x], Len(DataNames[n])) : x \in {y \in DataNodes :
        /\ IsStrictPrefix(n, y) /\ ~ IsDir(y) /\ ~ IsKey(Parent(y), y) /\ Wanted(y, dt)
        /\ \A i \in Len(n) + 1 .. Len(y) - 1 : ~ Opaque(SubSeq(y, 1, i))}}

(* ExpandPath lists all leaves of the wanted kind below an element but the *)
(* keys, those in choices too, in both stores; but asked about a           *)
(* notification itself only the in-memory store lists what is in it.       *)
ExpandsAgree ==
    op = "expand" =>
        LET n == GetSchema(q)
        IN  SamePath /\ n # None /\ IsDir(n) /\ AtTop(n) /\ InView(n)
            => /\ mem.below = LeavesBelow(n, q.dt)
               /\ db = IF Opaque(n) THEN {} ELSE LeavesBelow(n, q.dt)

(* The in-memory store adds the keys of every list on the way to the       *)
(* element to the path it was asked about, as long as no choice is on it.  *)
KeysFilledIn ==
    op = "expand" /\ mem.base # Error /\ q.names # <<>> =>
        LET n == GetEntry(q)
        IN  Len(n) = Len(q.names) + 1
            => \A i \in 1..Len(q.names) : mem.base[i] = StarElem(SubSeq(n, 1, i + 1))

(* Each lookup on the way to n ends at the node it should. *)
Unshadowed(n) ==
    \A i \in 1..Len(Names(n)) :
        GetSchema([mod |-> q.mod, names |-> SubSeq(Names(n), 1, i)]) = DataAncestor(n, i)

(* The first len words of the row of n end between the keys of a list. *)
EndsInKeys(n, len) ==
    \E i \in 1..Len(Names(n)) :
        LET a == DataAncestor(n, i)
            end == Len(ToStrings(a))
        IN  len \in end - Len(KeysOf(a)) + 1 .. end - 1

(* ToPath of the persistent store fails hard exactly on a path that ends   *)
(* between the keys of a list.                                             *)
PanicsInKeysOnly ==
    op = "toPath" /\ Unshadowed(q.node) =>
        (db = Panic <=> EndsInKeys(q.node, Len(q.names)))

(* What buildPath can follow: containers, lists and leaves, in choices     *)
(* that are neither at the top of a module nor in a case, where no choice  *)
(* is named like a node it looks for.  A container has no child of its own *)
(* name; but a choice of that name is provided for, with one node in it.   *)
Followed(n) ==
    LET Up(i) == SubSeq(n, 1, i)
        Clash(a, s) == \E c \in Nodes : /\ Kind(c) = "choice" /\ Name(c) = s
                                        /\ Len(c) \in {Len(a) + 1, Len(a) + 3} /\ SubSeq(c, 1, Len(a)) = a
    IN  /\ Kind(Up(2)) # "choice"
        /\ \A i \in 2..Len(n) :
              /\ Kind(Up(i)) \in {"container", "list", "leaf", "leaflist", "choice", "case"}
              /\ Kind(Up(i)) = "choice" => Kind(Up(i - 1)) # "case"
              /\ ~ Transparent(Up(i)) /\ Transparent(Up(i - 1)) => ~ Clash(DataParent[Up(i)], n[i])
              /\ Kind(Up(i)) = "container" /\ HasChild(Up(i), n[i]) =>
                    /\ Kind(Child(Up(i), n[i])) = "choice"
                    /\ i = Len(n) \/ (n[i + 1] = n[i] /\ Len(n) = i + 3 /\ KeysOf(n) = <<>>)

(* Where a path that starts with s and names no module is looked for. *)
Owners(s) == IF s \in Modules THEN {s} ELSE {m \in Modules : HasChild(<<m>>, s)}

(* A path that was written as a row of names and values is read back as    *)
(* the same path by the persistent store exactly if the values of its      *)
(* lists are the same in the order in which the keys are declared and in   *)
(* the order of their names.                                               *)
DbRoundTrip ==
    op = "toPath" /\ q.names = ToStrings(q.node) /\ Unshadowed(q.node) =>
        (db = FullPath(q.node)
            <=> \A i \in 1..Len(Names(q.node)) :
                   LET a == DataAncestor(q.node, i)
                   IN  \A j \in 1..Len(KeysOf(a)) : Value[KeysOf(a)[j]] = Value[SortedKeys(a)[j]])

(* The in-memory store reads it back if buildPath can follow it, as long   *)
(* as a module is named or only one comes into question.                   *)
MemRoundTrip ==
    op = "toPath" /\ q.names = ToStrings(q.node) /\ Followed(q.node) =>
        (q.mod # NoModule \/ Owners(Names(q.node)[1]) = {q.node[1]} => mem = {FullPath(q.node)})

(* Leafref n means t: up and down the data tree. *)
Means(n, t) ==
    LET r == tree[n].ref
    IN  /\ r.up < Len(DataNames[n]) /\ r.down # <<>>
        /\ DataNames[t] = SubSeq(DataNames[n], 1, Len(DataNames[n]) - r.up) \o r.down

(* A leafref annotates the node it means, or the node at the same place of *)
(* a module that is tried first or is named like the first element, or     *)
(* this module itself; and a schema is refused only if it has a leafref    *)
(* that means nothing, or such a module, a choice at the top or a          *)
(* notification hides what it means.                                       *)
RefsHitTarget ==
    LET Named(m, t) == m # t[1] /\ m = Names(t)[1]
        TriedFirst(m, t) == m # t[1] /\ (Rank[m] < Rank[t[1]] \/ ~ AtTop(t) \/ ~ InView(t))
    IN  /\ op = "loaded" =>
              \A n \in Leafrefs, t \in DataNodes : Means(n, t) =>
                 LET e == RefEntry(n)
                 IN  \/ e = t
                     \/ (Named(e[1], t) \/ TriedFirst(e[1], t)) /\ Names(e) = Names(t)
                     \/ Named(e[1], t) /\ e = Names(t)
        /\ op = "failed" =>
              \E n \in Leafrefs : \A t \in DataNodes :
                 Means(n, t) => \/ ~ AtTop(t) \/ ~ InView(t)
                                \/ Names(t)[1] \in Modules /\ Names(t)[1] # t[1]

(* The path by which a leaf names a leafref that points to it leads back   *)
(* to the leafref, unless a module that is tried first has a node named    *)
(* like the leafref's module, with the rest of the path below it.          *)
RefsLeadBack ==
    op = "loaded" =>
        \A n \in Leafrefs :
            LET e == GetSchema([mod |-> NoModule, names |-> BuildPathUp(n)])
            IN  e = n \/ (e # None /\ Rank[e[1]] < Rank[n[1]] /\ Names(e) = DataNames[n])

=============================================================================
