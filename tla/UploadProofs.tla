---------------------------- MODULE UploadProofs ----------------------------
(***************************************************************************)
(* Proofs about Upload: a command that reports success and has logged no   *)
(* error was answered ok, and an upload that is answered ok has stored the *)
(* files its client could read, for any arguments, any number of clients   *)
(* and any loss of the connection.                                         *)
(***************************************************************************)
EXTENDS Upload, UploadServerProofs, SequenceTheorems

Added(u) == scFiles[u] \union scDirs[u]

(* The paths that names lead to. *)
Targets(u, N) == {Target(u, n) : n \in N}

(* The files of an argument that can be sent. *)
SendableOf(u, a) ==
    {Args[u][a].files[i] : i \in {n \in DOMAIN Args[u][a].files :
        \A l \in 1..n : Local[u][Args[u][a].files[l]] # Unreadable}}

NameAt(u, p) == Args[u][p.arg].files[p.file]

(* A sender at p is at a file of an argument, at a chunk of it or at its   *)
(* end, or behind the last, and could read the files before it.            *)
PositionOK(u, p) ==
    /\ p \in [arg : Nat, file : Nat \ {0}, chunk : Nat \ {0}]
    /\ p.arg <= NArgs(u) + 2
    /\ p.arg \in 1..NArgs(u) =>
          /\ p.file \in 1..(Len(Args[u][p.arg].files) + 1)
          /\ \A l \in 1..(p.file - 1) : Local[u][Args[u][p.arg].files[l]] # Unreadable
          /\ p.file <= Len(Args[u][p.arg].files) /\ Local[u][NameAt(u, p)] # Unreadable =>
                p.chunk <= Len(Local[u][NameAt(u, p)]) + 1

(* The files sent with the arguments before n, the files before i of       *)
(* argument a, and those sent to their ends when the sender is at p.       *)
SentBefore(u, n) == UNION {SendableOf(u, a) : a \in {b \in 1..NArgs(u) : b < n}}

FilesBefore(u, a, i) == {Args[u][a].files[l] : l \in IF a \in 1..NArgs(u) THEN 1..(i - 1) ELSE {}}

SentAt(u, p) == SentBefore(u, p.arg) \union FilesBefore(u, p.arg, p.file)

(* What the client of u may send. *)
ReadableFiles(u) == {n \in Names : Local[u][n] # Unreadable}

ChunkMessages(u, f, ft) == {ChunkMessage(u, f, ft, j) : j \in 1..Len(Local[u][f])}

ClientMessages(u) ==
    {[kind |-> "create", key |-> KeyOf[u]], [kind |-> "final"]}
        \union {HashMessage(u, f, ft) : f \in ReadableFiles(u), ft \in FileTypes}
        \union UNION {ChunkMessages(u, f, ft) : f \in ReadableFiles(u), ft \in FileTypes}

-----------------------------------------------------------------------------
(* The invariant *)

ClientShape ==
    /\ at \in [Uploads -> [arg : Nat, file : Nat \ {0}, chunk : Nat \ {0}]]
    /\ main \in [Uploads -> {"wait", "rcv", "check", "return"} \union Ended]
    /\ DOMAIN net = Uploads
    /\ linked \in [Uploads -> BOOLEAN]

(* The stream holds what the client sent: create comes first, final last. *)
StreamOK(u) ==
    /\ net[u] \in Seq(ClientMessages(u))
    /\ net[u] # <<>> => linked[u]
    /\ \A k \in 1..Len(net[u]) :
          /\ net[u][k].kind = "create" => k = 1 /\ pc[u] = "first"
          /\ net[u][k].kind = "final" => k = Len(net[u]) /\ at[u].arg = NArgs(u) + 2
    /\ at[u].arg = 0 => net[u] = <<>> /\ (pc[u] = "first" \/ Over(u)) 

(* The command has received when the stream has ended, and the handler     *)
(* works for the schema it was asked to.                                   *)
OutcomeOK(u) ==
    /\ main[u] \in {"check", "return"} \union Ended => status[u] # None \/ ~ linked[u]
    /\ pc[u] = "done" => status[u] # None
    /\ status[u] # None => pc[u] = "done"
    /\ key[u] # None => key[u] = KeyOf[u]

(* The files whose hashes are among the messages s. *)
Hashed(s) ==
    {s[k].name : k \in {l \in 1..Len(s) : s[l].kind = "file" /\ s[l].hash # None}}

(* Nothing is lost between the client and the schema: while the stream     *)
(* lasts, what was added to the schema and what is on its way is what was  *)
(* sent, and what was added is what the client has.                        *)
NothingLost(u) ==
    /\ ~ Over(u) => Added(u) \union Targets(u, Hashed(net[u])) = Targets(u, SentAt(u, at[u]))
    /\ pc[u] \in {"parse", "add"} \/ status[u] = "ok" => Added(u) = Targets(u, Sendable(u))
    /\ \A n \in Names : Target(u, n) \in Added(u) => verified[u][Target(u, n)] = Local[u][n]

ClientOK(u) == PositionOK(u, at[u]) /\ StreamOK(u) /\ OutcomeOK(u) /\ NothingLost(u)

UploadInv == FilesInv /\ ClientShape /\ \A u \in Uploads : ClientOK(u)

-----------------------------------------------------------------------------
(* The arguments and the messages *)

(* The arguments are sequences of names. *)
LEMMA ArgFacts ==
    ASSUME NEW u \in Uploads
    PROVE  /\ NArgs(u) \in Nat /\ DOMAIN Args[u] = 1..NArgs(u)
           /\ \A a \in 1..NArgs(u) :
                 /\ Args[u][a].ft \in FileTypes
                 /\ Args[u][a].files \in Seq(Names)
                 /\ Len(Args[u][a].files) \in Nat
                 /\ DOMAIN Args[u][a].files = 1..Len(Args[u][a].files)
                 /\ \A i \in 1..Len(Args[u][a].files) : Args[u][a].files[i] \in Names
<1> DEFINE S == [ft : FileTypes, files : Seq(Names)]
<1>1. Args[u] \in Seq(S)
    BY ClientAssumption
<1> HIDE DEF S
<1>2. Len(Args[u]) \in Nat /\ DOMAIN Args[u] = 1..Len(Args[u]) /\ \A a \in 1..Len(Args[u]) : Args[u][a] \in S
    BY <1>1
<1>3. ASSUME NEW a \in 1..Len(Args[u])
      PROVE  /\ Args[u][a].ft \in FileTypes
             /\ Args[u][a].files \in Seq(Names)
             /\ Len(Args[u][a].files) \in Nat
             /\ DOMAIN Args[u][a].files = 1..Len(Args[u][a].files)
             /\ \A i \in 1..Len(Args[u][a].files) : Args[u][a].files[i] \in Names
    <2>1. PICK r \in S : r = Args[u][a]
        BY <1>2
    <2>2. r.ft \in FileTypes /\ r.files \in Seq(Names)
        BY <2>1 DEF S
    <2>3. Len(r.files) \in Nat /\ DOMAIN r.files = 1..Len(r.files)
        BY <2>2
    <2>4. \A i \in 1..Len(r.files) : r.files[i] \in Names
        BY <2>2
    <2> QED BY <2>1, <2>2, <2>3, <2>4
<1> QED BY <1>2, <1>3 DEF NArgs

(* A file that can be read has a length. *)
LEMMA ReadableHasLength ==
    ASSUME NEW u \in Uploads, NEW n \in Names, Local[u][n] # Unreadable
    PROVE  Local[u][n] \in Seq(Chunks) /\ Len(Local[u][n]) \in Nat
<1>1. Local[u][n] \in Seq(Chunks)
    BY ClientAssumption
<1> QED BY <1>1

(* Names lead to paths, one by one. *)
LEMMA TargetsFacts ==
    ASSUME NEW u \in Uploads
    PROVE  /\ \A N, M : Targets(u, N \union M) = Targets(u, N) \union Targets(u, M)
           /\ Targets(u, {}) = {}
           /\ \A n : Targets(u, {n}) = {Target(u, n)}
BY DEF Targets

(* The beginning of an argument is a position. *)
LEMMA ArgumentStart ==
    ASSUME NEW u \in Uploads, NEW a \in 1..(NArgs(u) + 2)
    PROVE  PositionOK(u, At(a, 1, 1))
<1>1. NArgs(u) \in Nat /\ \A b \in 1..NArgs(u) : Len(Args[u][b].files) \in Nat
                       /\ \A i \in 1..Len(Args[u][b].files) : Args[u][b].files[i] \in Names
    BY ArgFacts
<1>2. /\ At(a, 1, 1) \in [arg : Nat, file : Nat \ {0}, chunk : Nat \ {0}]
      /\ At(a, 1, 1).arg = a /\ At(a, 1, 1).file = 1 /\ At(a, 1, 1).chunk = 1
    BY <1>1 DEF At
<1>3. a \in 1..NArgs(u) /\ 1 <= Len(Args[u][a].files) => NameAt(u, At(a, 1, 1)) \in Names
    BY <1>1, <1>2 DEF NameAt
<1> QED BY <1>1, <1>2, <1>3, ReadableHasLength DEF PositionOK

(* Nothing is sent to its end before the first argument ... *)
LEMMA SentAtStart ==
    ASSUME NEW u \in Uploads
    PROVE  SentAt(u, At(0, 1, 1)) = {} /\ SentAt(u, At(1, 1, 1)) = {}
<1>1. NArgs(u) \in Nat
    BY ArgFacts
<1>2. SentBefore(u, 0) = {} /\ SentBefore(u, 1) = {}
    BY <1>1 DEF SentBefore
<1>3. FilesBefore(u, 0, 1) = {} /\ FilesBefore(u, 1, 1) = {}
    BY <1>1 DEF FilesBefore
<1> QED BY <1>2, <1>3 DEF SentAt, At

(* ... and after the last one everything that can be. *)
LEMMA SentAtEnd ==
    ASSUME NEW u \in Uploads, NEW p, p.arg \in {NArgs(u) + 1, NArgs(u) + 2}
    PROVE  SentAt(u, p) = Sendable(u)
<1>1. NArgs(u) \in Nat /\ DOMAIN Args[u] = 1..NArgs(u)
    BY ArgFacts
<1>2. p.arg \notin 1..NArgs(u) /\ {b \in 1..NArgs(u) : b < p.arg} = 1..NArgs(u)
    BY <1>1
<1>3. SentBefore(u, p.arg) = UNION {SendableOf(u, a) : a \in 1..NArgs(u)}
    BY <1>2 DEF SentBefore
<1>4. FilesBefore(u, p.arg, p.file) = {}
    BY <1>2 DEF FilesBefore
<1>5. SentBefore(u, p.arg) = Sendable(u)
    BY <1>1, <1>3 DEF Sendable, SendableOf
<1> QED BY <1>4, <1>5 DEF SentAt

(* One more argument that is finished. *)
LEMMA OneMoreArgument ==
    ASSUME NEW u \in Uploads, NEW a \in 1..NArgs(u)
    PROVE  SentAt(u, At(a + 1, 1, 1)) = SentBefore(u, a) \union SendableOf(u, a)
<1>1. NArgs(u) \in Nat
    BY ArgFacts
<1>2. \A b \in 1..NArgs(u) : b < a + 1 <=> (b < a \/ b = a)
    BY <1>1
<1>3. \A x, n : x \in SentBefore(u, n) <=> \E b \in 1..NArgs(u) : b < n /\ x \in SendableOf(u, b)
    BY DEF SentBefore
<1>4. ASSUME NEW x
      PROVE  (\E b \in 1..NArgs(u) : b < a + 1 /\ x \in SendableOf(u, b))
                 <=> (\E b \in 1..NArgs(u) : b < a /\ x \in SendableOf(u, b)) \/ x \in SendableOf(u, a)
    BY <1>2
<1>5. \A x : x \in SentBefore(u, a + 1) <=> x \in SentBefore(u, a) \/ x \in SendableOf(u, a)
    BY <1>3, <1>4
<1>6. SentBefore(u, a + 1) = SentBefore(u, a) \union SendableOf(u, a)
    BY <1>5
<1>7. FilesBefore(u, a + 1, 1) = {}
    BY DEF FilesBefore
<1>8. At(a + 1, 1, 1).arg = a + 1 /\ At(a + 1, 1, 1).file = 1
    BY DEF At
<1> QED BY <1>6, <1>7, <1>8 DEF SentAt

(* A walk that ends at a file that cannot be read has sent what it could. *)
LEMMA SentAtBadFile ==
    ASSUME NEW u \in Uploads, NEW p, PositionOK(u, p), p.arg \in 1..NArgs(u),
           p.file <= Len(Args[u][p.arg].files), Local[u][NameAt(u, p)] = Unreadable
    PROVE  SentAt(u, At(p.arg + 1, 1, 1)) = SentAt(u, p)
<1> DEFINE a == p.arg
           w == Args[u][a].files
<1>1. /\ NArgs(u) \in Nat /\ a \in 1..NArgs(u) /\ p.file \in 1..Len(w)
      /\ DOMAIN w = 1..Len(w) /\ Len(w) \in Nat
      /\ \A l \in 1..(p.file - 1) : Local[u][w[l]] # Unreadable
      /\ Local[u][w[p.file]] = Unreadable
    <2>1. NArgs(u) \in Nat /\ DOMAIN w = 1..Len(w) /\ Len(w) \in Nat
        BY ArgFacts
    <2>2. /\ p.file \in 1..(Len(w) + 1) /\ p.file <= Len(w)
          /\ \A l \in 1..(p.file - 1) : Local[u][w[l]] # Unreadable
          /\ Local[u][w[p.file]] = Unreadable
        BY DEF PositionOK, NameAt
    <2>3. p.file \in 1..Len(w)
        BY <2>1, <2>2
    <2> QED BY <2>1, <2>2, <2>3
<1> HIDE DEF a, w
<1>2. SendableOf(u, a) = FilesBefore(u, a, p.file)
    <2>1. {n \in DOMAIN w : \A l \in 1..n : Local[u][w[l]] # Unreadable} = 1..(p.file - 1)
        BY <1>1
    <2> QED BY <1>1, <2>1 DEF SendableOf, FilesBefore, w
<1> QED BY <1>1, <1>2, OneMoreArgument DEF a, SentAt

(* So has a walk that ends behind the last file. *)
LEMMA SentAtWalkEnd ==
    ASSUME NEW u \in Uploads, NEW p, PositionOK(u, p), p.arg \in 1..NArgs(u),
           p.file > Len(Args[u][p.arg].files)
    PROVE  SentAt(u, At(p.arg + 1, 1, 1)) = SentAt(u, p)
<1> DEFINE a == p.arg
           w == Args[u][a].files
<1>1. /\ NArgs(u) \in Nat /\ a \in 1..NArgs(u) /\ p.file \in 1..(Len(w) + 1) /\ p.file > Len(w)
      /\ DOMAIN w = 1..Len(w) /\ Len(w) \in Nat
      /\ \A l \in 1..(p.file - 1) : Local[u][w[l]] # Unreadable
    BY ArgFacts DEF PositionOK
<1> HIDE DEF a, w
<1>2. SendableOf(u, a) = FilesBefore(u, a, p.file)
    <2>1. {n \in DOMAIN w : \A l \in 1..n : Local[u][w[l]] # Unreadable} = 1..(p.file - 1)
        BY <1>1
    <2> QED BY <1>1, <2>1 DEF SendableOf, FilesBefore, w
<1> QED BY <1>1, <1>2, OneMoreArgument DEF a, SentAt

(* A file that was sent to its end is one more. *)
LEMMA SentAtFileEnd ==
    ASSUME NEW u \in Uploads, NEW p, PositionOK(u, p), p.arg \in 1..NArgs(u),
           p.file <= Len(Args[u][p.arg].files), Local[u][NameAt(u, p)] # Unreadable
    PROVE  /\ PositionOK(u, At(p.arg, p.file + 1, 1))
           /\ SentAt(u, At(p.arg, p.file + 1, 1)) = SentAt(u, p) \union {NameAt(u, p)}
<1> DEFINE a == p.arg
           w == Args[u][a].files
           n == p.file
           q == At(a, n + 1, 1)
<1>1. /\ NArgs(u) \in Nat /\ a \in 1..NArgs(u) /\ n \in 1..Len(w) /\ p.file \in Nat
      /\ DOMAIN w = 1..Len(w) /\ Len(w) \in Nat /\ \A i \in 1..Len(w) : w[i] \in Names
      /\ \A l \in 1..(n - 1) : Local[u][w[l]] # Unreadable
      /\ Local[u][w[n]] # Unreadable /\ NameAt(u, p) = w[n] /\ a <= NArgs(u) + 2
    <2>1. /\ NArgs(u) \in Nat /\ DOMAIN w = 1..Len(w) /\ Len(w) \in Nat
          /\ \A i \in 1..Len(w) : w[i] \in Names
        BY ArgFacts
    <2>2. /\ p.file \in 1..(Len(w) + 1) /\ p.file <= Len(w) /\ p.file \in Nat
          /\ \A l \in 1..(p.file - 1) : Local[u][w[l]] # Unreadable
          /\ Local[u][w[p.file]] # Unreadable /\ NameAt(u, p) = w[p.file] /\ a <= NArgs(u) + 2
        BY DEF PositionOK, NameAt
    <2>3. p.file \in 1..Len(w)
        BY <2>1, <2>2
    <2> QED BY <2>1, <2>2, <2>3
<1> HIDE DEF a, w, n
<1>2. \A l \in 1..n : Local[u][w[l]] # Unreadable
    BY <1>1
<1>3. FilesBefore(u, a, n + 1) = FilesBefore(u, a, n) \union {w[n]}
    <2>1. {w[i] : i \in 1..n} = {w[i] : i \in 1..(n - 1)} \union {w[n]}
        BY <1>1
    <2>2. FilesBefore(u, a, n + 1) = {w[i] : i \in 1..n}
        <3>1. (n + 1) - 1 = n
            BY <1>1
        <3> QED BY <1>1, <3>1 DEF FilesBefore, w
    <2>3. FilesBefore(u, a, n) = {w[i] : i \in 1..(n - 1)}
        BY <1>1 DEF FilesBefore, w
    <2> QED BY <2>1, <2>2, <2>3
<1>4. SentAt(u, p) = SentBefore(u, a) \union FilesBefore(u, a, n)
    BY DEF SentAt, a, n
<1>5. /\ q \in [arg : Nat, file : Nat \ {0}, chunk : Nat \ {0}]
      /\ q.arg = a /\ q.file = n + 1 /\ q.chunk = 1 /\ (n + 1) - 1 = n
    BY <1>1 DEF At
<1> HIDE DEF q
<1>6. SentAt(u, q) = SentBefore(u, a) \union FilesBefore(u, a, n + 1)
    BY <1>5 DEF SentAt
<1>7. NameAt(u, q) = w[n + 1] /\ (n + 1 <= Len(w) => w[n + 1] \in Names)
    BY <1>1, <1>5 DEF NameAt, w
<1>8. PositionOK(u, q)
    <2>1. Args[u][q.arg].files = w
        BY <1>5 DEF w
    <2>2. q.arg <= NArgs(u) + 2 /\ q.file \in 1..(Len(w) + 1)
        BY <1>1, <1>5
    <2>3. \A l \in 1..(q.file - 1) : Local[u][w[l]] # Unreadable
        BY <1>2, <1>5
    <2>4. q.file <= Len(w) /\ Local[u][NameAt(u, q)] # Unreadable =>
              q.chunk <= Len(Local[u][NameAt(u, q)]) + 1
        BY <1>5, <1>7, ReadableHasLength
    <2> QED BY <1>5, <2>1, <2>2, <2>3, <2>4 DEF PositionOK
<1>9. SentAt(u, q) = SentAt(u, p) \union {w[n]}
    BY <1>3, <1>4, <1>6
<1> QED BY <1>1, <1>8, <1>9 DEF q, a, n

-----------------------------------------------------------------------------
(* What a step of a handler does to its upload *)

(* It is the upload of u alone that changes. *)
OtherUploadsSame(u) ==
    \A o \in Uploads \ {u} :
        /\ pc'[o] = pc[o] /\ status'[o] = status[o] /\ key'[o] = key[o]
        /\ scFiles'[o] = scFiles[o] /\ scDirs'[o] = scDirs[o] /\ verified'[o] = verified[o]

Kept(u) == scFiles'[u] = scFiles[u] /\ scDirs'[u] = scDirs[u] /\ verified'[u] = verified[u]

Fails(u) ==
    /\ pc'[u] = "done" /\ status'[u] \notin {None, "ok"} /\ key'[u] = key[u]
    /\ scFiles'[u] = {} /\ scDirs'[u] = {}

MovesTo(u, l) == pc'[u] = l /\ status'[u] = status[u] /\ key'[u] = key[u] /\ Kept(u)

Begins(u, k) == pc'[u] = "clean" /\ status'[u] = status[u] /\ key'[u] = k /\ Kept(u)

Adds(u, m) ==
    /\ pc'[u] = pc[u] /\ status'[u] = status[u] /\ key'[u] = key[u]
    /\ scFiles'[u] \union scDirs'[u] = Added(u) \union {FileName(u, m)}
    /\ verified'[u] = [verified[u] EXCEPT ![FileName(u, m)] = m.hash.sum[2]]

(* A handler that returns an error has failed. *)
LEMMA ReturnEffect ==
    ASSUME Shape, NEW u \in Uploads, NEW s \in {"hash", "error"}, Return(u, s)
    PROVE  OtherUploadsSame(u) /\ Fails(u)
<1>1. s # None /\ s # "ok"
    BY UploadAssumption DEF Statuses
<1> QED BY <1>1 DEF Return, End, OtherUploadsSame, Fails

(* A handler that goes on changes its place and nothing else here. *)
LEMMA GotoEffect ==
    ASSUME Shape, NEW u \in Uploads, NEW l, Goto(u, l),
           UNCHANGED <<key, scFiles, scDirs, status, verified>>
    PROVE  OtherUploadsSame(u) /\ MovesTo(u, l)
<1>1. pc \in [Uploads -> {"first", "done"} \union Working]
    BY DEF Shape, ShapeOf
<1> QED BY <1>1 DEF Goto, OtherUploadsSame, MovesTo, Kept

(* Opening a file does not change the upload, or fails. *)
LEMMA CreateFileEffect ==
    ASSUME Shape, NEW u \in Uploads, NEW m, CreateFileWithDir(u, m)
    PROVE  OtherUploadsSame(u) /\ pc[u] = "recv" /\ (Fails(u) \/ MovesTo(u, "recv"))
<1>1. pc[u] = "recv"
    BY DEF CreateFileWithDir, IsFileOf
<1>2. Return(u, "error") \/ UNCHANGED <<pc, key, scFiles, scDirs, status, verified>>
    BY DEF CreateFileWithDir
<1> QED BY <1>1, <1>2, ReturnEffect DEF OtherUploadsSame, MovesTo, Kept

(* A hash that matches adds the file. *)
LEMMA VerifyHashEffect ==
    ASSUME FilesInv, NEW u \in Uploads, NEW m, WellFormed(m), VerifyHash(u, m)
    PROVE  /\ OtherUploadsSame(u) /\ pc[u] = "recv"
           /\ m.kind = "file" /\ m.name \in Names /\ m.hash # None
           /\ Fails(u) \/ Adds(u, m)
<1>1. Shape /\ pc[u] = "recv" /\ m.kind = "file" /\ m.name \in Names /\ m.hash # None
    BY DEF FilesInv, VerifyHash, IsOpenFileOf, IsFileOf, WellFormed
<1>2. CASE CleanAndReturn(u, "hash") \/ CleanAndReturn(u, "error")
    BY <1>1, <1>2, ReturnEffect DEF CleanAndReturn
<1>3. CASE ~ (CleanAndReturn(u, "hash") \/ CleanAndReturn(u, "error"))
    <2> DEFINE f == FileName(u, m)
    <2>0. f \in Files
        BY DEF VerifyHash, IsOpenFileOf, Open
    <2>1. /\ UNCHANGED <<pc, key, status>>
          /\ verified' = [verified EXCEPT ![u][f] = m.hash.sum[2]]
        BY <1>3 DEF VerifyHash
    <2>2. \/ /\ scFiles' = [scFiles EXCEPT ![u] = scFiles[u] \union {f}]
             /\ scDirs' = scDirs
          \/ /\ scDirs' = [scDirs EXCEPT ![u] = scDirs[u] \union {f}]
             /\ scFiles' = scFiles
        BY <1>3 DEF VerifyHash
    <2>3. /\ scFiles \in [Uploads -> SUBSET Files] /\ scDirs \in [Uploads -> SUBSET Files]
          /\ verified \in [Uploads -> [Files -> Texts \union {None}]]
        BY <1>1 DEF Shape, ShapeOf
    <2> HIDE DEF f
    <2>4. /\ verified'[u] = [verified[u] EXCEPT ![f] = m.hash.sum[2]]
          /\ \A o \in Uploads \ {u} : verified'[o] = verified[o]
        BY <2>1, <2>3
    <2>5. scFiles'[u] \union scDirs'[u] = Added(u) \union {f}
        BY <2>2, <2>3 DEF Added
    <2>6. \A o \in Uploads \ {u} : scFiles'[o] = scFiles[o] /\ scDirs'[o] = scDirs[o]
        BY <2>2, <2>3
    <2> QED BY <1>1, <2>1, <2>4, <2>5, <2>6 DEF OtherUploadsSame, Adds, f
<1> QED BY <1>2, <1>3

(* The effect of a message, by what the handler was doing. *)
LEMMA ConsumeEffect ==
    ASSUME FilesInv, NEW u \in Uploads, NEW m, WellFormed(m), Consume(u, m)
    PROVE  /\ OtherUploadsSame(u) /\ pc[u] \in {"first", "recv"}
           /\ \/ Fails(u)
              \/ pc[u] = "first" /\ m.kind = "create" /\ Begins(u, m.key)
              \/ pc[u] = "recv" /\ m.kind = "file" /\ m.hash = None /\ MovesTo(u, "recv")
              \/ /\ pc[u] = "recv" /\ m.kind = "file" /\ m.name \in Names /\ m.hash # None
                 /\ Adds(u, m)
              \/ pc[u] = "recv" /\ m.kind = "final" /\ MovesTo(u, "parse")
<1>1. Shape /\ pc[u] \in {"first", "recv"}
    BY DEF FilesInv, Consume, CreateSchema, NotCreateSchema, NamelessFile, WriteChunk, WriteFails,
           VerifyHash, UnspecifiedHash, Finalize, UnexpectedMessage, IsOpenFileOf, IsFileOf
<1>2. CASE Return(u, "error")
    BY <1>1, <1>2, ReturnEffect
<1>3. CASE CreateSchema(u, m)
    <2>1. CASE ~ Return(u, "error")
        <3>1. /\ pc[u] = "first" /\ m.kind = "create"
              /\ pc' = [pc EXCEPT ![u] = "clean"] /\ key' = [key EXCEPT ![u] = m.key]
              /\ UNCHANGED <<scFiles, scDirs, status, verified>>
            BY <1>3, <2>1 DEF CreateSchema, Goto
        <3>2. pc \in [Uploads -> {"first", "done"} \union Working] /\ key \in [Uploads -> Keys \union {None}]
            BY <1>1 DEF Shape, ShapeOf
        <3> QED BY <3>1, <3>2 DEF OtherUploadsSame, Begins, Kept
    <2> QED BY <1>2, <2>1
<1>4. CASE WriteChunk(u, m)
    <2>1. /\ pc[u] = "recv" /\ m.kind = "file" /\ m.hash = None
          /\ UNCHANGED <<pc, key, scFiles, scDirs, status, verified>>
        BY <1>4 DEF WriteChunk, IsOpenFileOf, IsFileOf
    <2> QED BY <1>1, <2>1 DEF OtherUploadsSame, MovesTo, Kept
<1>5. CASE VerifyHash(u, m)
    BY <1>1, <1>5, VerifyHashEffect
<1>6. CASE Finalize(u, m)
    <2>1. CASE ~ CleanAndReturn(u, "error")
        <3>1. /\ pc[u] = "recv" /\ m.kind = "final" /\ Goto(u, "parse")
              /\ UNCHANGED <<key, scFiles, scDirs, status, verified>>
            BY <1>6, <2>1 DEF Finalize
        <3> QED BY <1>1, <3>1, GotoEffect
    <2> QED BY <1>2, <2>1 DEF CleanAndReturn
<1>7. CASE NotCreateSchema(u, m) \/ NamelessFile(u, m) \/ WriteFails(u, m)
           \/ UnspecifiedHash(u, m) \/ UnexpectedMessage(u, m)
    BY <1>2, <1>7 DEF NotCreateSchema, NamelessFile, WriteFails, UnspecifiedHash,
                      UnexpectedMessage, CleanAndReturn
<1> QED BY <1>3, <1>4, <1>5, <1>6, <1>7 DEF Consume

(* The effect of a step the handler takes by itself. *)
LEMMA ProceedEffect ==
    ASSUME Shape, NEW u \in Uploads, RecvFails(u) \/ Proceed(u)
    PROVE  /\ OtherUploadsSame(u) /\ pc[u] # "done"
           /\ pc[u] = "first" => RecvFails(u)
           /\ \/ Fails(u)
              \/ pc[u] = "clean" /\ MovesTo(u, "recv")
              \/ pc[u] = "parse" /\ MovesTo(u, "add")
              \/ pc[u] = "add" /\ pc'[u] = "done" /\ status'[u] = "ok" /\ key'[u] = key[u] /\ Kept(u)
<1>1. pc[u] # "done" /\ (pc[u] = "first" => RecvFails(u))
    BY DEF RecvFails, Proceed, CleanDirectory, NewSchema, AddSchema
<1>2. CASE Return(u, "error")
    BY <1>1, <1>2, ReturnEffect
<1>3. CASE RecvFails(u)
    BY <1>2, <1>3 DEF RecvFails
<1>4. CASE CleanDirectory(u)
    <2>1. CASE ~ Return(u, "error")
        <3>1. /\ pc[u] = "clean" /\ Goto(u, "recv")
              /\ UNCHANGED <<key, scFiles, scDirs, status, verified>>
            BY <1>4, <2>1 DEF CleanDirectory
        <3> QED BY <1>1, <3>1, GotoEffect
    <2> QED BY <1>2, <2>1
<1>5. CASE NewSchema(u)
    <2>1. CASE ~ CleanAndReturn(u, "error")
        <3>1. /\ pc[u] = "parse" /\ Goto(u, "add")
              /\ UNCHANGED <<key, scFiles, scDirs, status, verified>>
            BY <1>5, <2>1 DEF NewSchema
        <3> QED BY <1>1, <3>1, GotoEffect
    <2> QED BY <1>2, <2>1 DEF CleanAndReturn
<1>6. CASE AddSchema(u)
    <2>1. CASE ~ Return(u, "error")
        <3>1. /\ pc \in [Uploads -> {"first", "done"} \union Working]
              /\ status \in [Uploads -> Statuses \union {None}]
            BY DEF Shape, ShapeOf
        <3>2. /\ pc' = [pc EXCEPT ![u] = "done"] /\ status' = [status EXCEPT ![u] = "ok"]
              /\ UNCHANGED <<key, scFiles, scDirs, verified>> /\ pc[u] = "add"
            BY <1>6, <2>1 DEF Goto, AddSchema
        <3> QED BY <1>1, <3>1, <3>2 DEF OtherUploadsSame, Kept
    <2> QED BY <1>2, <2>1
<1> QED BY <1>3, <1>4, <1>5, <1>6 DEF Proceed

-----------------------------------------------------------------------------
(* The messages of a client *)

(* A client's messages are well formed, and a hash is that of its file. *)
LEMMA MessageFacts ==
    ASSUME NEW u \in Uploads, NEW m \in ClientMessages(u)
    PROVE  /\ WellFormed(m)
           /\ m.kind \in {"create", "file", "final"}
           /\ m.kind = "create" => m.key = KeyOf[u]
           /\ m.kind = "file" /\ m.hash # None => m.hash.sum[2] = Local[u][m.name]
<1>1. CASE m = [kind |-> "create", key |-> KeyOf[u]] \/ m = [kind |-> "final"]
    BY <1>1, ClientAssumption DEF WellFormed
<1>2. ASSUME NEW f \in ReadableFiles(u), NEW ft \in FileTypes, m = HashMessage(u, f, ft)
      PROVE  /\ WellFormed(m) /\ m.kind = "file"
             /\ m.hash.sum[2] = Local[u][m.name]
    <2>1. /\ m.kind = "file" /\ m.name = f /\ m.contents = None
          /\ m.hash.sum = <<HashMethod[u], Local[u][f]>>
        BY <1>2 DEF HashMessage, CalcHash, Digest
    <2> QED BY <2>1 DEF WellFormed, ReadableFiles
<1>3. ASSUME NEW f \in ReadableFiles(u), NEW ft \in FileTypes, NEW j \in 1..Len(Local[u][f]),
             m = ChunkMessage(u, f, ft, j)
      PROVE  WellFormed(m) /\ m.kind = "file" /\ m.hash = None
    <2>1. m.kind = "file" /\ m.name = f /\ m.contents = Local[u][f][j] /\ m.hash = None
        BY <1>3 DEF ChunkMessage
    <2>2. Local[u][f] \in Seq(Chunks)
        BY ClientAssumption DEF ReadableFiles
    <2>3. Local[u][f][j] \in Chunks
        BY <2>2
    <2> QED BY <2>1, <2>3 DEF WellFormed, ReadableFiles
<1>4. \/ m = [kind |-> "create", key |-> KeyOf[u]] \/ m = [kind |-> "final"]
      \/ \E f \in ReadableFiles(u), ft \in FileTypes : m = HashMessage(u, f, ft)
      \/ \E f \in ReadableFiles(u), ft \in FileTypes :
            \E j \in 1..Len(Local[u][f]) : m = ChunkMessage(u, f, ft, j)
    BY DEF ClientMessages, ChunkMessages
<1>5. CASE \E f \in ReadableFiles(u), ft \in FileTypes : m = HashMessage(u, f, ft)
    BY <1>2, <1>5
<1>6. CASE \E f \in ReadableFiles(u), ft \in FileTypes :
              \E j \in 1..Len(Local[u][f]) : m = ChunkMessage(u, f, ft, j)
    BY <1>3, <1>6
<1> QED BY <1>1, <1>4, <1>5, <1>6

(* What receiving the first message, or sending one more, leaves on its way. *)
LEMMA HashedTail ==
    ASSUME NEW S, NEW s \in Seq(S), s # <<>>
    PROVE  /\ Hashed(s) = Hashed(Tail(s)) \union Hashed(<<Head(s)>>)
           /\ Hashed(<<Head(s)>>) =
                 IF Head(s).kind = "file" /\ Head(s).hash # None THEN {Head(s).name} ELSE {}
<1>1. /\ Len(s) \in Nat \ {0} /\ Len(Tail(s)) = Len(s) - 1 /\ Head(s) = s[1]
      /\ \A k \in 1..(Len(s) - 1) : Tail(s)[k] = s[k + 1]
    <2>1. Len(s) \in Nat /\ Len(s) # 0
        OBVIOUS
    <2>2. Len(Tail(s)) = Len(s) - 1 /\ \A k \in 1..(Len(s) - 1) : Tail(s)[k] = s[k + 1]
        BY HeadTailProperties
    <2> QED BY <2>1, <2>2
<1> DEFINE h(m) == m.kind = "file" /\ m.hash # None
<1>2. \A x : x \in Hashed(s) <=> \E k \in 1..Len(s) : h(s[k]) /\ x = s[k].name
    BY DEF Hashed
<1>3. \A x : x \in Hashed(Tail(s)) <=> \E k \in 1..(Len(s) - 1) : h(s[k + 1]) /\ x = s[k + 1].name
    <2>1. \A x : x \in Hashed(Tail(s)) <=>
                    \E k \in 1..Len(Tail(s)) : h(Tail(s)[k]) /\ x = Tail(s)[k].name
        BY DEF Hashed
    <2> HIDE DEF h
    <2> QED BY <1>1, <2>1
<1>4. \A x : x \in Hashed(<<Head(s)>>) <=> h(Head(s)) /\ x = Head(s).name
    <2>1. Len(<<Head(s)>>) = 1 /\ <<Head(s)>>[1] = Head(s) /\ 1..1 = {1}
        OBVIOUS
    <2> QED BY <2>1 DEF Hashed
<1> HIDE DEF h
<1>5. ASSUME NEW x
      PROVE  (\E k \in 1..Len(s) : h(s[k]) /\ x = s[k].name)
                 <=> \/ \E k \in 1..(Len(s) - 1) : h(s[k + 1]) /\ x = s[k + 1].name
                     \/ h(s[1]) /\ x = s[1].name
    <2>1. ASSUME NEW k \in 1..Len(s), k # 1
          PROVE  k - 1 \in 1..(Len(s) - 1) /\ (k - 1) + 1 = k
        BY <1>1, <2>1
    <2>2. \A k \in 1..(Len(s) - 1) : k + 1 \in 1..Len(s)
        BY <1>1
    <2>3. 1 \in 1..Len(s)
        BY <1>1
    <2> QED BY <2>1, <2>2, <2>3
<1>6. Hashed(s) = Hashed(Tail(s)) \union Hashed(<<Head(s)>>)
    BY <1>1, <1>2, <1>3, <1>4, <1>5
<1>7. Hashed(<<Head(s)>>) = IF h(Head(s)) THEN {Head(s).name} ELSE {}
    BY <1>4
<1> QED BY <1>6, <1>7 DEF h

(* The same at the other end. *)
LEMMA HashedAppend ==
    ASSUME NEW S, NEW s \in Seq(S), NEW m \in S
    PROVE  Hashed(Append(s, m)) =
               Hashed(s) \union (IF m.kind = "file" /\ m.hash # None THEN {m.name} ELSE {})
<1> DEFINE t == Append(s, m)
           h(n) == n.kind = "file" /\ n.hash # None
<1>1. /\ Len(s) \in Nat /\ Len(t) = Len(s) + 1 /\ t[Len(s) + 1] = m
      /\ \A k \in 1..Len(s) : t[k] = s[k]
    OBVIOUS
<1>2. \A x : x \in Hashed(s) <=> \E k \in 1..Len(s) : h(s[k]) /\ x = s[k].name
    BY DEF Hashed
<1>3. \A x : x \in Hashed(t) <=> \E k \in 1..Len(t) : h(t[k]) /\ x = t[k].name
    BY DEF Hashed
<1> HIDE DEF h, t
<1>4. ASSUME NEW x
      PROVE  (\E k \in 1..Len(t) : h(t[k]) /\ x = t[k].name)
                 <=> (\E k \in 1..Len(s) : h(s[k]) /\ x = s[k].name) \/ (h(m) /\ x = m.name)
    <2>1. \A k \in 1..Len(t) : k \in 1..Len(s) \/ k = Len(s) + 1
        BY <1>1
    <2>2. \A k \in 1..Len(s) : k \in 1..Len(t)
        BY <1>1
    <2>3. Len(s) + 1 \in 1..Len(t)
        BY <1>1
    <2> QED BY <1>1, <2>1, <2>2, <2>3
<1>5. Hashed(t) = Hashed(s) \union (IF h(m) THEN {m.name} ELSE {})
    BY <1>2, <1>3, <1>4
<1> QED BY <1>5 DEF h, t

-----------------------------------------------------------------------------
(* The steps of the server *)

(* The client of u does nothing, and loses nothing. *)
ClientWaits(u) == at'[u] = at[u] /\ linked'[u] = linked[u] /\ main'[u] = main[u]

(* Nothing happens to the upload of u. *)
LEMMA ClientSame ==
    ASSUME NEW u \in Uploads, ClientOK(u), ClientWaits(u), net'[u] = net[u],
           MovesTo(u, pc[u])
    PROVE  ClientOK(u)'
<1> USE DEF ClientWaits, MovesTo, Kept
<1>1. PositionOK(u, at[u])'
    BY DEF ClientOK, PositionOK, NameAt
<1>2. Over(u)' <=> Over(u)
    BY DEF Over
<1>3. StreamOK(u)'
    BY <1>2 DEF ClientOK, StreamOK
<1>4. OutcomeOK(u)'
    BY DEF ClientOK, OutcomeOK
<1>5. NothingLost(u)'
    <2>1. Added(u)' = Added(u) /\ Hashed(net[u])' = Hashed(net[u]) /\ SentAt(u, at[u])' = SentAt(u, at[u])
        BY DEF Added, Hashed, SentAt
    <2> QED BY <1>2, <2>1 DEF ClientOK, NothingLost, Targets, Sendable
<1> QED BY <1>1, <1>3, <1>4, <1>5 DEF ClientOK

(* A handler that fails leaves nothing to be said about what it received. *)
LEMMA ClientAfterFailure ==
    ASSUME NEW u \in Uploads, ClientOK(u), ClientWaits(u), pc[u] # "done", Fails(u),
           \/ net'[u] = net[u] /\ (pc[u] = "first" => net[u] = <<>>)
           \/ net[u] # <<>> /\ net'[u] = Tail(net[u])
    PROVE  ClientOK(u)'
<1>1. PositionOK(u, at[u])'
    BY DEF ClientOK, PositionOK, NameAt, ClientWaits
<1>2. Over(u)' /\ pc'[u] = "done"
    BY DEF Fails, Over
<1>3. StreamOK(u)'
    <2>1. net[u] \in Seq(ClientMessages(u)) /\ Len(net[u]) \in Nat
        BY DEF ClientOK, StreamOK
    <2>2. CASE net'[u] = net[u] /\ (pc[u] = "first" => net[u] = <<>>)
        <3>1. \A k \in 1..Len(net[u]) : net[u][k].kind # "create"
            BY <2>1, <2>2 DEF ClientOK, StreamOK
        <3> QED BY <1>2, <2>2, <3>1 DEF ClientOK, StreamOK, ClientWaits
    <2>3. CASE net[u] # <<>> /\ net'[u] = Tail(net[u])
        <3>1. /\ Tail(net[u]) \in Seq(ClientMessages(u)) /\ Len(Tail(net[u])) = Len(net[u]) - 1
              /\ \A k \in 1..Len(Tail(net[u])) : Tail(net[u])[k] = net[u][k + 1]
            BY <2>1, <2>3, HeadTailProperties
        <3>2. at[u].arg # 0 /\ linked[u]
            BY <2>3 DEF ClientOK, StreamOK
        <3>3. ASSUME NEW k \in 1..Len(Tail(net[u]))
              PROVE  /\ Tail(net[u])[k].kind # "create"
                     /\ Tail(net[u])[k].kind = "final" =>
                           k = Len(Tail(net[u])) /\ at[u].arg = NArgs(u) + 2
            <4>1. k + 1 \in 1..Len(net[u]) /\ k + 1 # 1 /\ (k + 1 = Len(net[u]) => k = Len(Tail(net[u])))
                BY <2>1, <3>1
            <4> QED BY <3>1, <4>1 DEF ClientOK, StreamOK
        <3> QED BY <2>3, <3>1, <3>2, <3>3 DEF StreamOK, ClientWaits
    <2> QED BY <2>2, <2>3
<1>4. OutcomeOK(u)'
    BY <1>2 DEF ClientOK, OutcomeOK, Fails, ClientWaits
<1>5. NothingLost(u)'
    <2>1. Added(u)' = {}
        BY DEF Added, Fails
    <2> QED BY <1>2, <2>1 DEF NothingLost, Fails
<1> QED BY <1>1, <1>3, <1>4, <1>5 DEF ClientOK

(* Opening a file. *)
LEMMA ClientAfterCreateFile ==
    ASSUME Shape, NEW u \in Uploads, ClientOK(u), ClientWaits(u), NEW m,
           CreateFileWithDir(u, m), net'[u] = net[u]
    PROVE  ClientOK(u)'
<1>1. pc[u] = "recv" /\ (Fails(u) \/ MovesTo(u, "recv"))
    BY CreateFileEffect
<1> QED BY <1>1, ClientSame, ClientAfterFailure

(* A message: what is no longer on its way has been added. *)
LEMMA ClientAfterMessage ==
    ASSUME FilesInv, NEW u \in Uploads, ClientOK(u), ClientWaits(u), net[u] # <<>>,
           Consume(u, Head(net[u])), net'[u] = Tail(net[u])
    PROVE  ClientOK(u)'
<1> DEFINE m == Head(net[u])
           t == Tail(net[u])
<1>1. net[u] \in Seq(ClientMessages(u)) /\ Len(net[u]) \in Nat \ {0}
    BY DEF ClientOK, StreamOK
<1>2. /\ m \in ClientMessages(u) /\ m = net[u][1]
      /\ t \in Seq(ClientMessages(u)) /\ Len(t) = Len(net[u]) - 1
      /\ \A k \in 1..Len(t) : t[k] = net[u][k + 1]
    BY <1>1, HeadTailProperties
<1>3. /\ WellFormed(m)
      /\ m.kind = "create" => m.key = KeyOf[u]
      /\ m.kind = "file" /\ m.hash # None => m.hash.sum[2] = Local[u][m.name]
    BY <1>2, MessageFacts
<1>4. Consume(u, m) /\ net'[u] = t
    OBVIOUS
<1> HIDE DEF m, t
<1>5. /\ pc[u] \in {"first", "recv"}
      /\ \/ Fails(u)
         \/ pc[u] = "first" /\ m.kind = "create" /\ Begins(u, m.key)
         \/ pc[u] = "recv" /\ m.kind = "file" /\ m.hash = None /\ MovesTo(u, "recv")
         \/ /\ pc[u] = "recv" /\ m.kind = "file" /\ m.name \in Names /\ m.hash # None
            /\ Adds(u, m)
         \/ pc[u] = "recv" /\ m.kind = "final" /\ MovesTo(u, "parse")
    BY <1>3, <1>4, ConsumeEffect
<1>6. CASE Fails(u)
    BY <1>5, <1>6, ClientAfterFailure
<1>7. CASE ~ Fails(u)
    <2>1. /\ pc'[u] \in {"clean", "recv", "parse"} /\ status'[u] = status[u]
          /\ key'[u] = key[u] \/ key'[u] = KeyOf[u]
        BY <1>3, <1>5, <1>7 DEF MovesTo, Begins, Adds
    <2>2. /\ ~ Over(u) /\ linked[u] /\ status[u] = None /\ at[u].arg # 0
          /\ main[u] \notin Ended
        BY <1>5 DEF ClientOK, StreamOK, OutcomeOK, Over
    <2>3. PositionOK(u, at[u])'
        BY DEF ClientOK, PositionOK, NameAt, ClientWaits
    <2>4. \A k \in 1..Len(t) : k + 1 \in 1..Len(net[u]) /\ k + 1 # 1
                               /\ (k + 1 = Len(net[u]) => k = Len(t))
        BY <1>1, <1>2
    <2>5. StreamOK(u)'
        <3>1. ASSUME NEW k \in 1..Len(t)
              PROVE  /\ t[k].kind # "create"
                     /\ t[k].kind = "final" => k = Len(t) /\ at[u].arg = NArgs(u) + 2
            BY <1>2, <2>4 DEF ClientOK, StreamOK
        <3> QED BY <1>2, <1>4, <2>2, <3>1 DEF StreamOK, ClientWaits
    <2>6. OutcomeOK(u)'
        BY <2>1, <2>2, UploadAssumption DEF ClientOK, OutcomeOK, ClientWaits, Ended
    <2> DEFINE N == IF m.kind = "file" /\ m.hash # None THEN {m.name} ELSE {}
    <2>7. /\ Targets(u, SentAt(u, at[u])) = Added(u) \union Targets(u, Hashed(net[u]))
          /\ SentAt(u, at[u])' = SentAt(u, at[u])
        BY <2>2 DEF ClientOK, NothingLost, ClientWaits, SentAt
    <2>8. Hashed(net[u]) = Hashed(t) \union N
        BY <1>1, HashedTail DEF m, t
    <2>9. Hashed(net[u])' = Hashed(t)
        BY <1>4 DEF Hashed
    <2>10. m.kind = "file" /\ m.hash # None => FileName(u, m) = Target(u, m.name)
        <3> SUFFICES ASSUME pc[u] = "recv"
                     PROVE  FileName(u, m) = Target(u, m.name)
            BY <1>5, <1>7 DEF MovesTo, Begins, Adds
        <3>1. key[u] \in Keys
            BY DEF FilesInv, HandlerOK, Active, Working
        <3>2. key[u] = KeyOf[u]
            BY <3>1, UploadAssumption DEF ClientOK, OutcomeOK
        <3> QED BY <3>2 DEF FileName, Target, DirU
    <2>11. Added(u)' = Added(u) \union Targets(u, N)
        BY <1>5, <1>7, <2>10, TargetsFacts DEF MovesTo, Begins, Adds, Kept, Added
    <2>12. Added(u)' \union Targets(u, Hashed(net[u]))' = Targets(u, SentAt(u, at[u]))'
        <3>1. Targets(u, Hashed(net[u])) = Targets(u, Hashed(t)) \union Targets(u, N)
            BY <2>8, TargetsFacts
        <3>2. Targets(u, Hashed(net[u]))' = Targets(u, Hashed(t))
            BY <2>9 DEF Targets
        <3>3. Targets(u, SentAt(u, at[u]))' = Targets(u, SentAt(u, at[u]))
            BY <2>7 DEF Targets
        <3> QED BY <2>7, <2>11, <3>1, <3>2, <3>3
    <2>13. \A n \in Names : Target(u, n) \in Added(u)' => verified'[u][Target(u, n)] = Local[u][n]
        <3>1. \A n \in Names : Target(u, n) \in Added(u) => verified[u][Target(u, n)] = Local[u][n]
            BY DEF ClientOK, NothingLost
        <3>2. CASE m.kind = "file" /\ m.hash # None
            <4> DEFINE f == Target(u, m.name)
            <4>1. verified'[u] = [verified[u] EXCEPT ![f] = Local[u][m.name]] /\ m.name \in Names
                BY <1>3, <1>5, <1>7, <2>10, <3>2 DEF Adds
            <4>2. verified[u] \in [Files -> Texts \union {None}] /\ Added(u) \subseteq Files
                BY DEF FilesInv, Shape, ShapeOf, Added
            <4>3. f \in Files
                BY <4>1, UploadAssumption, ClientAssumption DEF Target
            <4>4. Added(u)' = Added(u) \union {f}
                BY <2>11, <3>2, TargetsFacts
            <4>5. \A n \in Names : Target(u, n) = f => Local[u][n] = Local[u][m.name]
                BY <4>1, ClientAssumption
            <4> HIDE DEF f
            <4> QED BY <3>1, <4>1, <4>2, <4>3, <4>4, <4>5
        <3>3. CASE ~ (m.kind = "file" /\ m.hash # None)
            <4>1. verified'[u] = verified[u]
                BY <1>5, <1>7, <3>3 DEF MovesTo, Begins, Kept
            <4>2. Added(u)' = Added(u)
                BY <2>11, <3>3, TargetsFacts
            <4> QED BY <3>1, <4>1, <4>2
        <3> QED BY <3>2, <3>3
    <2>14. pc'[u] \in {"parse", "add"} => Added(u)' = Targets(u, Sendable(u))
        <3> SUFFICES ASSUME pc'[u] \in {"parse", "add"}
                     PROVE  Added(u)' = Targets(u, Sendable(u))
            OBVIOUS
        <3>1. m.kind = "final"
            BY <1>5, <1>7 DEF MovesTo, Begins, Adds
        <3>2. Len(net[u]) = 1 /\ at[u].arg = NArgs(u) + 2
            <4>1. 1 \in 1..Len(net[u]) /\ net[u][1].kind = "final"
                BY <1>1, <1>2, <3>1
            <4> QED BY <4>1 DEF ClientOK, StreamOK
        <3>3. Len(t) = 0
            BY <1>2, <3>2
        <3>4. Hashed(t) = {}
            BY <3>3 DEF Hashed
        <3>5. SentAt(u, at[u]) = Sendable(u)
            BY <3>2, SentAtEnd
        <3>6. Targets(u, Hashed(net[u]))' = {}
            BY <2>9, <3>4 DEF Targets
        <3>7. Targets(u, SentAt(u, at[u]))' = Targets(u, Sendable(u))
            BY <2>7, <3>5 DEF Targets
        <3> QED BY <2>12, <3>6, <3>7
    <2>15. status'[u] # "ok"
        BY <2>1, <2>2, UploadAssumption DEF Statuses
    <2>16. Targets(u, Sendable(u))' = Targets(u, Sendable(u))
        BY DEF Targets, Sendable
    <2>17. NothingLost(u)'
        BY <2>12, <2>13, <2>14, <2>15, <2>16 DEF NothingLost
    <2> QED BY <2>3, <2>5, <2>6, <2>17 DEF ClientOK
<1> QED BY <1>6, <1>7

(* The handler goes on by itself. *)
LEMMA ClientAfterProceed ==
    ASSUME Shape, NEW u \in Uploads, ClientOK(u), ClientWaits(u), net'[u] = net[u],
           Proceed(u) \/ (RecvFails(u) /\ ~ linked[u])
    PROVE  ClientOK(u)'
<1>1. /\ pc[u] # "done" /\ (pc[u] = "first" => RecvFails(u))
      /\ \/ Fails(u)
         \/ pc[u] = "clean" /\ MovesTo(u, "recv")
         \/ pc[u] = "parse" /\ MovesTo(u, "add")
         \/ pc[u] = "add" /\ pc'[u] = "done" /\ status'[u] = "ok" /\ key'[u] = key[u] /\ Kept(u)
    BY ProceedEffect
<1>2. CASE Fails(u)
    <2>1. pc[u] = "first" => net[u] = <<>>
        <3>1. pc[u] = "first" => ~ Proceed(u)
            BY DEF Proceed, CleanDirectory, NewSchema, AddSchema
        <3> QED BY <3>1 DEF ClientOK, StreamOK
    <2> QED BY <1>1, <1>2, <2>1, ClientAfterFailure
<1>3. CASE ~ Fails(u)
    <2>1. /\ pc[u] \in {"clean", "parse", "add"} /\ pc'[u] # "first" /\ Kept(u)
          /\ status[u] = None /\ key'[u] = key[u]
          /\ \/ pc'[u] # "done" /\ status'[u] = None
             \/ pc'[u] = "done" /\ status'[u] = "ok"
        BY <1>1, <1>3 DEF MovesTo, ClientOK, OutcomeOK
    <2>2. "ok" # None
        BY UploadAssumption DEF Statuses
    <2>3. PositionOK(u, at[u])'
        BY DEF ClientOK, PositionOK, NameAt, ClientWaits
    <2>4. Over(u) => Over(u)'
        BY <2>1 DEF Over, ClientWaits
    <2>5. StreamOK(u)'
        <3>1. \A k \in 1..Len(net[u]) : net[u][k].kind # "create"
            BY <2>1 DEF ClientOK, StreamOK
        <3> QED BY <2>1, <2>4, <3>1 DEF ClientOK, StreamOK, ClientWaits
    <2>6. OutcomeOK(u)'
        BY <2>1, <2>2 DEF ClientOK, OutcomeOK, ClientWaits
    <2>7. NothingLost(u)'
        <3>1. /\ Added(u)' = Added(u) /\ verified'[u] = verified[u]
              /\ Hashed(net[u])' = Hashed(net[u]) /\ SentAt(u, at[u])' = SentAt(u, at[u])
            BY <2>1 DEF Kept, Added, Hashed, SentAt, ClientWaits
        <3>2. pc'[u] \in {"parse", "add"} \/ status'[u] = "ok" => pc[u] \in {"parse", "add"}
            BY <1>1, <1>3, <2>1, <2>2 DEF MovesTo
        <3> QED BY <2>4, <3>1, <3>2 DEF ClientOK, NothingLost, Targets, Sendable
    <2> QED BY <2>3, <2>5, <2>6, <2>7 DEF ClientOK
<1> QED BY <1>2, <1>3

-----------------------------------------------------------------------------
(* The steps of the client *)

(* The sender goes on at next, having sent m, or nothing that counts. *)
LEMMA ClientMoves ==
    ASSUME NEW u \in Uploads, ClientOK(u), MovesTo(u, pc[u]), NEW m, NEW next,
           at[u].arg \in 0..(NArgs(u) + 1), PositionOK(u, next), next.arg # 0,
           at'[u] = next, linked'[u] = linked[u], main'[u] = main[u],
           \/ net'[u] = net[u] /\ (Over(u) \/ SentAt(u, next) = SentAt(u, at[u]))
           \/ /\ ~ Over(u) /\ net'[u] = Append(net[u], m) /\ m \in ClientMessages(u)
              /\ m.kind = "create" => at[u].arg = 0
              /\ m.kind = "final" => next.arg = NArgs(u) + 2
              /\ SentAt(u, next) = SentAt(u, at[u])
                     \union (IF m.kind = "file" /\ m.hash # None THEN {m.name} ELSE {})
    PROVE  ClientOK(u)'
<1>1. PositionOK(u, at[u])'
    BY DEF PositionOK, NameAt
<1>2. (Over(u) => Over(u)') /\ (Over(u)' => Over(u))
    BY DEF Over, MovesTo
<1>3. /\ net[u] \in Seq(ClientMessages(u)) /\ Len(net[u]) \in Nat
      /\ \A k \in 1..Len(net[u]) : net[u][k].kind # "final"
    <2>1. NArgs(u) \in Nat
        BY ArgFacts
    <2>2. at[u].arg # NArgs(u) + 2
        BY <2>1
    <2> QED BY <2>2 DEF ClientOK, StreamOK
<1>4. CASE net'[u] = net[u] /\ (Over(u) \/ SentAt(u, next) = SentAt(u, at[u]))
    <2>1. StreamOK(u)'
        BY <1>2, <1>3, <1>4 DEF ClientOK, StreamOK, MovesTo
    <2>2. OutcomeOK(u)'
        BY DEF ClientOK, OutcomeOK, MovesTo
    <2>3. NothingLost(u)'
        <3>1. /\ Added(u)' = Added(u) /\ verified'[u] = verified[u]
              /\ Hashed(net[u])' = Hashed(net[u]) /\ SentAt(u, at[u])' = SentAt(u, next)
            BY <1>4 DEF MovesTo, Kept, Added, Hashed, SentAt
        <3> QED BY <1>2, <1>4, <3>1 DEF ClientOK, NothingLost, MovesTo, Targets, Sendable
    <2> QED BY <1>1, <2>1, <2>2, <2>3 DEF ClientOK
<1>5. CASE /\ ~ Over(u) /\ net'[u] = Append(net[u], m) /\ m \in ClientMessages(u)
           /\ m.kind = "create" => at[u].arg = 0
           /\ m.kind = "final" => next.arg = NArgs(u) + 2
           /\ SentAt(u, next) = SentAt(u, at[u])
                  \union (IF m.kind = "file" /\ m.hash # None THEN {m.name} ELSE {})
    <2> DEFINE s == net[u]
               t == Append(s, m)
    <2>1. /\ t \in Seq(ClientMessages(u)) /\ Len(t) = Len(s) + 1 /\ t[Len(s) + 1] = m
          /\ \A k \in 1..Len(s) : t[k] = s[k]
        BY <1>3, <1>5
    <2>2. net'[u] = t
        BY <1>5
    <2> HIDE DEF t
    <2>3. StreamOK(u)'
        <3>1. at[u].arg = 0 => Len(s) = 0 /\ pc[u] = "first"
            BY <1>5 DEF ClientOK, StreamOK
        <3>2. ASSUME NEW k \in 1..Len(t)
              PROVE  /\ t[k].kind = "create" => k = 1 /\ pc[u] = "first"
                     /\ t[k].kind = "final" => k = Len(t) /\ next.arg = NArgs(u) + 2
            <4>1. CASE k = Len(s) + 1
                BY <1>3, <1>5, <2>1, <3>1, <4>1
            <4>2. CASE k # Len(s) + 1
                <5>1. k \in 1..Len(s) /\ t[k] = s[k]
                    BY <1>3, <2>1, <4>2
                <5> QED BY <1>3, <5>1 DEF ClientOK, StreamOK
            <4> QED BY <4>1, <4>2
        <3>3. linked[u]
            BY <1>5 DEF Over
        <3> QED BY <2>1, <2>2, <3>2, <3>3 DEF StreamOK, MovesTo
    <2>4. OutcomeOK(u)'
        BY DEF ClientOK, OutcomeOK, MovesTo
    <2>5. NothingLost(u)'
        <3>1. /\ Added(u)' = Added(u) /\ verified'[u] = verified[u]
              /\ Hashed(net[u])' = Hashed(t) /\ SentAt(u, at[u])' = SentAt(u, next)
            BY <2>2 DEF MovesTo, Kept, Added, Hashed, SentAt
        <3> DEFINE N == IF m.kind = "file" /\ m.hash # None THEN {m.name} ELSE {}
        <3>2. Hashed(t) = Hashed(net[u]) \union N
            BY <1>3, <1>5, HashedAppend DEF t
        <3>3. Added(u) \union Targets(u, Hashed(net[u])) = Targets(u, SentAt(u, at[u]))
            BY <1>5 DEF ClientOK, NothingLost
        <3>4. SentAt(u, next) = SentAt(u, at[u]) \union N
            BY <1>5
        <3> HIDE DEF N
        <3>5. /\ Targets(u, Hashed(t)) = Targets(u, Hashed(net[u])) \union Targets(u, N)
              /\ Targets(u, SentAt(u, next)) = Targets(u, SentAt(u, at[u])) \union Targets(u, N)
            BY <3>2, <3>4, TargetsFacts
        <3>6. /\ Targets(u, Hashed(net[u]))' = Targets(u, Hashed(t))
              /\ Targets(u, SentAt(u, at[u]))' = Targets(u, SentAt(u, next))
              /\ Targets(u, Sendable(u))' = Targets(u, Sendable(u))
            BY <3>1 DEF Targets, Sendable
        <3>7. Added(u)' \union Targets(u, Hashed(net[u]))' = Targets(u, SentAt(u, at[u]))'
            BY <3>1, <3>3, <3>5, <3>6
        <3> QED BY <3>1, <3>6, <3>7 DEF ClientOK, NothingLost, MovesTo
    <2> QED BY <1>1, <2>3, <2>4, <2>5 DEF ClientOK
<1> QED BY <1>4, <1>5

(* A step of u's client that leaves the server alone. *)
LEMMA StaysPut ==
    ASSUME UNCHANGED vars, NEW o
    PROVE  MovesTo(o, pc[o])
BY DEF vars, server, MovesTo, Kept

(* It is enough to look at the client that moves. *)
LEMMA OneClient ==
    ASSUME UploadInv, UNCHANGED vars, ClientShape', NEW u \in Uploads, ClientOK(u)',
           \A o \in Uploads \ {u} : ClientWaits(o) /\ net'[o] = net[o]
    PROVE  UploadInv'
<1>1. FilesInv'
    BY UnchangedSafe DEF UploadInv
<1>2. ASSUME NEW o \in Uploads, o # u
      PROVE  ClientOK(o)'
    <2>1. ClientOK(o)
        BY DEF UploadInv
    <2> QED BY <1>2, <2>1, StaysPut, ClientSame
<1> QED BY <1>1, <1>2 DEF UploadInv

(* The sender sends and goes on at next, or fails and goes on at other. *)
LEMMA SendSafe ==
    ASSUME UploadInv, UNCHANGED <<vars, main, linked>>, NEW u \in Uploads,
           NEW m \in ClientMessages(u), NEW next, NEW other, NEW sent \in BOOLEAN,
           Send(u, m, sent), MoveTo(u, IF sent THEN next ELSE other),
           at[u].arg \in 0..(NArgs(u) + 1),
           PositionOK(u, next), next.arg # 0, PositionOK(u, other), other.arg # 0,
           m.kind = "create" => at[u].arg = 0,
           m.kind = "final" => next.arg = NArgs(u) + 2,
           SentAt(u, next) = SentAt(u, at[u])
               \union (IF m.kind = "file" /\ m.hash # None THEN {m.name} ELSE {})
    PROVE  UploadInv'
<1>1. UNCHANGED vars /\ main' = main /\ linked' = linked
    OBVIOUS
<1>2. PICK q \in {next, other} :
          /\ at' = [at EXCEPT ![u] = q]
          /\ \/ Over(u) /\ net' = net
             \/ ~ Over(u) /\ net' = [net EXCEPT ![u] = Append(net[u], m)] /\ q = next
    BY DEF Send, MoveTo
<1>3. ClientShape /\ ClientOK(u) /\ MovesTo(u, pc[u])
    BY <1>1, StaysPut DEF UploadInv
<1>4. ClientShape'
    <2>1. q \in [arg : Nat, file : Nat \ {0}, chunk : Nat \ {0}]
        BY <1>2 DEF PositionOK
    <2>2. at' \in [Uploads -> [arg : Nat, file : Nat \ {0}, chunk : Nat \ {0}]]
        BY <1>2, <1>3, <2>1 DEF ClientShape
    <2>3. DOMAIN net' = Uploads
        BY <1>2, <1>3 DEF ClientShape
    <2> QED BY <1>1, <1>3, <2>2, <2>3 DEF ClientShape
<1>5. \A o \in Uploads \ {u} : ClientWaits(o) /\ net'[o] = net[o]
    BY <1>1, <1>2, <1>3 DEF ClientShape, ClientWaits
<1>6. ClientOK(u)'
    <2>1. at'[u] = q /\ PositionOK(u, q) /\ q.arg # 0
        BY <1>2, <1>3 DEF ClientShape
    <2>2. CASE Over(u) /\ net' = net
        BY <1>1, <1>3, <2>1, <2>2, ClientMoves
    <2>3. CASE ~ Over(u) /\ net' = [net EXCEPT ![u] = Append(net[u], m)] /\ q = next
        <3>1. at'[u] = next /\ net'[u] = Append(net[u], m)
            BY <1>3, <2>1, <2>3 DEF ClientShape
        <3> QED BY <1>1, <1>3, <2>3, <3>1, ClientMoves
    <2> QED BY <1>2, <2>2, <2>3
<1> QED BY <1>1, <1>4, <1>5, <1>6, OneClient

(* The first message and the last one. *)
LEMMA EndsSafe ==
    ASSUME UploadInv, NEW u \in Uploads, SendCreate(u) \/ SendFinalize(u)
    PROVE  UploadInv'
<1>1. NArgs(u) \in Nat /\ UNCHANGED <<vars, main, linked>>
    BY ArgFacts DEF SendCreate, SendFinalize
<1>2. at[u] \in [arg : Nat, file : Nat \ {0}, chunk : Nat \ {0}] /\ PositionOK(u, at[u])
    BY DEF UploadInv, ClientShape, ClientOK
<1>3. CASE SendCreate(u)
    <2> DEFINE m == [kind |-> "create", key |-> KeyOf[u]]
    <2>1. /\ m \in ClientMessages(u) /\ m.kind = "create"
          /\ PositionOK(u, At(1, 1, 1)) /\ At(1, 1, 1).arg = 1
        BY <1>1, ArgumentStart DEF ClientMessages, At
    <2>2. PICK sent \in BOOLEAN : at[u].arg = 0 /\ Send(u, m, sent) /\ MoveTo(u, At(1, 1, 1))
        BY <1>3 DEF SendCreate
    <2>3. SentAt(u, At(1, 1, 1)) = SentAt(u, at[u])
        <3>1. SentAt(u, at[u]) = {}
            <4>1. SentBefore(u, 0) = {} /\ \A i : FilesBefore(u, 0, i) = {}
                BY <1>1 DEF SentBefore, FilesBefore
            <4> QED BY <2>2, <4>1 DEF SentAt
        <3> QED BY <3>1, SentAtStart
    <2> HIDE DEF m
    <2> QED BY <1>1, <2>1, <2>2, <2>3, SendSafe
<1>4. CASE SendFinalize(u)
    <2> DEFINE m == [kind |-> "final"]
               q == At(NArgs(u) + 2, 1, 1)
    <2>1. /\ m \in ClientMessages(u) /\ m.kind = "final"
          /\ PositionOK(u, q) /\ q.arg = NArgs(u) + 2
        BY <1>1, ArgumentStart DEF ClientMessages, At
    <2>2. PICK sent \in BOOLEAN : at[u].arg = NArgs(u) + 1 /\ Send(u, m, sent) /\ MoveTo(u, q)
        BY <1>4 DEF SendFinalize
    <2> HIDE DEF m, q
    <2>3. SentAt(u, q) = SentAt(u, at[u])
        BY <2>1, <2>2, SentAtEnd
    <2> QED BY <1>1, <2>1, <2>2, <2>3, SendSafe
<1> QED BY <1>3, <1>4

(* From an argument the sender goes on to the next, or to the end. *)
LEMMA NextArgument ==
    ASSUME NEW n \in Nat, NEW a \in 1..n
    PROVE  /\ a + 1 \in 1..(n + 2) /\ a \in 0..(n + 1)
           /\ a \in Nat \ {0} /\ a + 1 # 0
OBVIOUS

(* A step of the walk through the files. *)
LEMMA UploadFileSafe ==
    ASSUME UploadInv, NEW u \in Uploads, UploadFile(u)
    PROVE  UploadInv'
<1> DEFINE p == at[u]
           a == p.arg
           i == p.file
           j == p.chunk
           walk == Args[u][a].files
           ft == Args[u][a].ft
           f == walk[i]
           skip == At(a + 1, 1, 1)
           SendOr(m, next) ==
               \E sent \in BOOLEAN : Send(u, m, sent) /\ MoveTo(u, IF sent THEN next ELSE skip)
<1>1. /\ UNCHANGED <<vars, main, linked>> /\ a \in 1..NArgs(u)
      /\ \/ /\ i > Len(walk) \/ (i <= Len(walk) /\ Local[u][f] = Unreadable)
            /\ MoveTo(u, skip) /\ net' = net
         \/ /\ i <= Len(walk) /\ Local[u][f] # Unreadable /\ j <= Len(Local[u][f])
            /\ SendOr(ChunkMessage(u, f, ft, j), At(a, i, j + 1))
         \/ /\ i <= Len(walk) /\ Local[u][f] # Unreadable /\ j > Len(Local[u][f])
            /\ SendOr(HashMessage(u, f, ft), At(a, i + 1, 1))
    BY DEF UploadFile, EndWalk
<1>2. ClientShape /\ ClientOK(u) /\ PositionOK(u, p) /\ NameAt(u, p) = f
    BY DEF UploadInv, ClientOK, NameAt
<1>3. /\ NArgs(u) \in Nat /\ p \in [arg : Nat, file : Nat \ {0}, chunk : Nat \ {0}]
      /\ ft \in FileTypes /\ Len(walk) \in Nat /\ i \in 1..(Len(walk) + 1)
      /\ i <= Len(walk) => f \in Names
    <2>1. /\ NArgs(u) \in Nat /\ ft \in FileTypes /\ Len(walk) \in Nat
          /\ \A l \in 1..Len(walk) : walk[l] \in Names
        BY <1>1, ArgFacts
    <2>2. p \in [arg : Nat, file : Nat \ {0}, chunk : Nat \ {0}] /\ i \in 1..(Len(walk) + 1)
        BY <1>1, <1>2 DEF PositionOK
    <2> HIDE DEF walk, i
    <2>3. i <= Len(walk) => i \in 1..Len(walk)
        BY <2>1, <2>2
    <2> QED BY <2>1, <2>2, <2>3
<1>4. PositionOK(u, skip) /\ skip.arg = a + 1
    <2>1. a + 1 \in 1..(NArgs(u) + 2)
        BY <1>1, <1>3, NextArgument
    <2> QED BY <2>1, ArgumentStart DEF At
<1>5. a \in 0..(NArgs(u) + 1) /\ a \in Nat \ {0} /\ a + 1 # 0
    BY <1>1, <1>3, NextArgument
<1> HIDE DEF skip, f, walk, ft, a, i, j
<1>6. CASE /\ i > Len(walk) \/ (i <= Len(walk) /\ Local[u][f] = Unreadable)
           /\ MoveTo(u, skip) /\ net' = net
    <2>1. SentAt(u, skip) = SentAt(u, p)
        BY <1>1, <1>2, <1>6, SentAtBadFile, SentAtWalkEnd DEF skip, a, i, walk
    <2>2. at' = [at EXCEPT ![u] = skip]
        BY <1>6 DEF MoveTo
    <2>3. at'[u] = skip /\ \A o \in Uploads \ {u} : at'[o] = at[o]
        BY <1>2, <2>2 DEF ClientShape
    <2>4. ClientShape'
        <3>1. skip \in [arg : Nat, file : Nat \ {0}, chunk : Nat \ {0}]
            BY <1>4 DEF PositionOK
        <3>2. at' \in [Uploads -> [arg : Nat, file : Nat \ {0}, chunk : Nat \ {0}]]
            BY <1>2, <2>2, <3>1 DEF ClientShape
        <3> QED BY <1>1, <1>2, <1>6, <3>2 DEF ClientShape
    <2>5. UNCHANGED vars /\ main' = main /\ linked' = linked /\ net' = net
        BY <1>1, <1>6
    <2>6. at[u].arg \in 0..(NArgs(u) + 1) /\ skip.arg # 0
        BY <1>4, <1>5 DEF a
    <2>7. ClientOK(u)'
        BY <1>2, <1>4, <2>1, <2>3, <2>5, <2>6, StaysPut, ClientMoves
    <2>8. \A o \in Uploads \ {u} : ClientWaits(o) /\ net'[o] = net[o]
        BY <2>3, <2>5 DEF ClientWaits
    <2> QED BY <2>4, <2>5, <2>7, <2>8, OneClient
<1>7. ASSUME i <= Len(walk), Local[u][f] # Unreadable
      PROVE  Local[u][f] \in Seq(Chunks) /\ Len(Local[u][f]) \in Nat /\ f \in ReadableFiles(u)
    BY <1>3, <1>7, ReadableHasLength DEF ReadableFiles
<1>8. CASE /\ i <= Len(walk) /\ Local[u][f] # Unreadable /\ j <= Len(Local[u][f])
           /\ SendOr(ChunkMessage(u, f, ft, j), At(a, i, j + 1))
    <2> DEFINE m == ChunkMessage(u, f, ft, j)
               q == At(a, i, j + 1)
    <2>1. j \in 1..Len(Local[u][f])
        BY <1>3, <1>7, <1>8 DEF j
    <2>2. m \in ClientMessages(u) /\ m.kind = "file" /\ m.hash = None
        <3>1. m.kind = "file" /\ m.hash = None
            BY DEF ChunkMessage
        <3>2. m \in ChunkMessages(u, f, ft)
            BY <2>1 DEF ChunkMessages
        <3>3. f \in ReadableFiles(u) /\ ft \in FileTypes
            BY <1>3, <1>7, <1>8
        <3> HIDE DEF m
        <3> QED BY <3>1, <3>2, <3>3 DEF ClientMessages
    <2>3. q.arg = a /\ q.file = i /\ q.chunk = j + 1
        BY DEF At
    <2>4. q \in [arg : Nat, file : Nat \ {0}, chunk : Nat \ {0}] /\ j + 1 <= Len(Local[u][f]) + 1
        BY <1>3, <1>7, <1>8, <2>1 DEF At, a, i, j
    <2>5. NameAt(u, q) = f
        BY <2>3 DEF NameAt, f, walk
    <2> HIDE DEF q, m
    <2>6. PositionOK(u, q)
        BY <1>2, <2>3, <2>4, <2>5 DEF PositionOK, a, i, walk
    <2>7. SentAt(u, q) = SentAt(u, at[u])
        BY <2>3 DEF SentAt, a, i
    <2>8. PICK sent \in BOOLEAN : Send(u, m, sent) /\ MoveTo(u, IF sent THEN q ELSE skip)
        BY <1>8 DEF m, q
    <2>9. at[u].arg \in 0..(NArgs(u) + 1) /\ q.arg # 0 /\ skip.arg # 0
        BY <1>4, <1>5, <2>3 DEF a
    <2> QED BY <1>1, <1>4, <2>2, <2>6, <2>7, <2>8, <2>9, SendSafe
<1>9. CASE /\ i <= Len(walk) /\ Local[u][f] # Unreadable /\ j > Len(Local[u][f])
           /\ SendOr(HashMessage(u, f, ft), At(a, i + 1, 1))
    <2> DEFINE m == HashMessage(u, f, ft)
               q == At(a, i + 1, 1)
    <2>1. m \in ClientMessages(u) /\ m.kind = "file" /\ m.name = f /\ m.hash # None
        <3>1. m.hash = [method |-> "md5", sum |-> <<HashMethod[u], Local[u][f]>>]
            BY DEF HashMessage, CalcHash, Digest
        <3>2. m.hash # None
            BY <1>7, <1>9, <3>1, ClientAssumption
        <3> QED BY <1>3, <1>7, <1>9, <3>2 DEF ClientMessages, HashMessage
    <2>2. q.arg = a
        BY DEF At
    <2> HIDE DEF m, q
    <2>3. /\ PositionOK(u, q) /\ SentAt(u, q) = SentAt(u, at[u]) \union {f}
        BY <1>1, <1>2, <1>9, SentAtFileEnd DEF q, a, i, walk
    <2>4. PICK sent \in BOOLEAN : Send(u, m, sent) /\ MoveTo(u, IF sent THEN q ELSE skip)
        BY <1>9 DEF m, q
    <2>5. at[u].arg \in 0..(NArgs(u) + 1) /\ skip.arg # 0 /\ q.arg # 0
        BY <1>4, <1>5, <2>2 DEF a
    <2> QED BY <1>1, <1>4, <2>1, <2>3, <2>4, <2>5, SendSafe
<1> QED BY <1>1, <1>6, <1>8, <1>9

(* The errors of the sender, and the command that waits for them. *)
LEMMA ErrorsSafe ==
    ASSUME UploadInv, NEW u \in Uploads, CheckSent(u) \/ PutError(u) \/ CloseErrors(u)
    PROVE  UploadInv'
<1>1. UNCHANGED vars /\ at' = at /\ main' = main /\ net' = net /\ linked' = linked
    BY DEF CheckSent, PutError, CloseErrors
<1>2. ClientShape'
    BY <1>1 DEF UploadInv, ClientShape
<1>3. \A o \in Uploads : ClientWaits(o) /\ net'[o] = net[o]
    BY <1>1 DEF ClientWaits
<1>4. ClientOK(u)'
    <2>1. ClientOK(u)
        BY DEF UploadInv
    <2> QED BY <1>1, <1>3, <2>1, StaysPut, ClientSame
<1> QED BY <1>1, <1>2, <1>3, <1>4, OneClient

(* The command goes on, and ends when the stream has. *)
LEMMA MainSafe ==
    ASSUME UploadInv, NEW u \in Uploads, MainStep(u)
    PROVE  UploadInv'
<1>1. ClientShape /\ ClientOK(u)
    BY DEF UploadInv
<1>2. UNCHANGED vars /\ at' = at /\ net' = net /\ linked' = linked
    BY DEF MainStep, AwaitSender, AwaitReceiver, CheckErr
<1>3. PICK x \in {"rcv", "check", "return", "ok", "failed"} :
          /\ main' = [main EXCEPT ![u] = x]
          /\ main[u] \in {"wait", "rcv", "check", "return"}
          /\ x # "rcv" => status[u] # None \/ ~ linked[u]
    <2>1. CASE AwaitSender(u)
        BY <2>1 DEF AwaitSender
    <2>2. CASE AwaitReceiver(u)
        BY <2>2 DEF AwaitReceiver
    <2>3. CASE CheckErr(u)
        <3>1. PICK x \in {"return", "ok", "failed"} :
                  main' = [main EXCEPT ![u] = x] /\ main[u] \in {"check", "return"}
            BY <2>3 DEF CheckErr
        <3> QED BY <1>1, <3>1 DEF ClientOK, OutcomeOK
    <2> QED BY <2>1, <2>2, <2>3 DEF MainStep
<1>4. main'[u] = x /\ \A o \in Uploads \ {u} : main'[o] = main[o]
    BY <1>1, <1>3 DEF ClientShape
<1>5. ClientShape'
    BY <1>1, <1>2, <1>3 DEF ClientShape, Ended
<1>6. \A o \in Uploads \ {u} : ClientWaits(o) /\ net'[o] = net[o]
    BY <1>2, <1>4 DEF ClientWaits
<1>7. pc'[u] = pc[u] /\ status'[u] = status[u] /\ key'[u] = key[u] /\ Kept(u)
    BY <1>2 DEF vars, server, Kept
<1>8. (Over(u) => Over(u)') /\ (Over(u)' => Over(u))
    BY <1>2, <1>3, <1>4, <1>7 DEF Over, Ended
<1>9. ClientOK(u)'
    <2>1. PositionOK(u, at[u])'
        BY <1>1, <1>2 DEF ClientOK, PositionOK, NameAt
    <2>2. StreamOK(u)'
        BY <1>1, <1>2, <1>7, <1>8 DEF ClientOK, StreamOK
    <2>3. OutcomeOK(u)'
        <3>1. /\ pc[u] = "done" => status[u] # None
              /\ status[u] # None => pc[u] = "done"
              /\ key[u] # None => key[u] = KeyOf[u]
            BY <1>1 DEF ClientOK, OutcomeOK
        <3>2. x \in {"check", "return"} \union Ended => x # "rcv"
            BY DEF Ended
        <3> QED BY <1>2, <1>3, <1>4, <1>7, <3>1, <3>2 DEF OutcomeOK
    <2>4. NothingLost(u)'
        <3>1. /\ Added(u)' = Added(u) /\ verified'[u] = verified[u]
              /\ Hashed(net[u])' = Hashed(net[u]) /\ SentAt(u, at[u])' = SentAt(u, at[u])
            BY <1>2, <1>7 DEF Kept, Added, Hashed, SentAt
        <3> QED BY <1>1, <1>7, <1>8, <3>1 DEF ClientOK, NothingLost, Targets, Sendable
    <2> QED BY <2>1, <2>2, <2>3, <2>4 DEF ClientOK
<1> QED BY <1>2, <1>5, <1>6, <1>9, OneClient

(* A broken connection loses what was on its way. *)
LEMMA DisconnectSafe ==
    ASSUME UploadInv, NEW u \in Uploads, Disconnect(u)
    PROVE  UploadInv'
<1>1. ClientShape /\ ClientOK(u)
    BY DEF UploadInv
<1>2. /\ UNCHANGED vars /\ at' = at /\ main' = main
      /\ linked' = [linked EXCEPT ![u] = FALSE] /\ net' = [net EXCEPT ![u] = <<>>]
    BY DEF Disconnect
<1>3. /\ linked'[u] = FALSE /\ net'[u] = <<>>
      /\ \A o \in Uploads \ {u} : linked'[o] = linked[o] /\ net'[o] = net[o]
    BY <1>1, <1>2 DEF ClientShape
<1>4. ClientShape'
    BY <1>1, <1>2 DEF ClientShape
<1>5. \A o \in Uploads \ {u} : ClientWaits(o) /\ net'[o] = net[o]
    BY <1>2, <1>3 DEF ClientWaits
<1>6. pc'[u] = pc[u] /\ status'[u] = status[u] /\ key'[u] = key[u] /\ Kept(u) /\ Over(u)'
    BY <1>2, <1>3 DEF vars, server, Kept, Over
<1>7. ClientOK(u)'
    <2>1. PositionOK(u, at[u])'
        BY <1>1, <1>2 DEF ClientOK, PositionOK, NameAt
    <2>2. StreamOK(u)'
        <3>1. <<>> \in Seq(ClientMessages(u)) /\ 1..Len(<<>>) = {}
            OBVIOUS
        <3> QED BY <1>3, <1>6, <3>1 DEF StreamOK
    <2>3. OutcomeOK(u)'
        BY <1>1, <1>2, <1>3, <1>6 DEF ClientOK, OutcomeOK
    <2>4. NothingLost(u)'
        <3>1. Added(u)' = Added(u) /\ verified'[u] = verified[u]
            BY <1>6 DEF Kept, Added
        <3> QED BY <1>1, <1>6, <3>1 DEF ClientOK, NothingLost, Targets, Sendable
    <2> QED BY <2>1, <2>2, <2>3, <2>4 DEF ClientOK
<1> QED BY <1>2, <1>4, <1>5, <1>7, OneClient

(* A step of the handler. *)
LEMMA ServerStepSafe ==
    ASSUME UploadInv, NEW u \in Uploads, ServerStep(u)
    PROVE  UploadInv'
<1>1. FilesInv /\ Shape /\ ClientShape /\ \A o \in Uploads : ClientOK(o)
    BY DEF UploadInv, FilesInv
<1>2. at' = at /\ linked' = linked /\ main' = main
    BY DEF ServerStep, Receive, client
<1>3. \A o \in Uploads : ClientWaits(o)
    BY <1>2 DEF ClientWaits
<1>4. ASSUME FilesInv', OtherUploadsSame(u), ClientOK(u)', DOMAIN net' = Uploads,
             \A o \in Uploads \ {u} : net'[o] = net[o]
      PROVE  UploadInv'
    <2>1. ASSUME NEW o \in Uploads, o # u
          PROVE  ClientOK(o)'
        <3>1. MovesTo(o, pc[o])
            BY <1>4, <2>1 DEF OtherUploadsSame, MovesTo, Kept
        <3>2. net'[o] = net[o]
            BY <1>4, <2>1
        <3> QED BY <1>1, <1>3, <3>1, <3>2, ClientSame
    <2>2. ClientShape'
        BY <1>1, <1>2, <1>4 DEF ClientShape
    <2> QED BY <1>4, <2>1, <2>2 DEF UploadInv
<1>5. CASE Receive(u)
    <2> DEFINE m == Head(net[u])
    <2>1. m \in ClientMessages(u) /\ net[u] # <<>>
        <3>1. net[u] \in Seq(ClientMessages(u)) /\ net[u] # <<>>
            BY <1>1, <1>5 DEF ClientOK, StreamOK, Receive
        <3> QED BY <3>1
    <2>2. \/ CreateFileWithDir(u, m) /\ net' = net
          \/ Consume(u, m) /\ net' = [net EXCEPT ![u] = Tail(net[u])]
        BY <1>5 DEF Receive
    <2>3. WellFormed(m)
        BY <2>1, MessageFacts
    <2>4. CASE CreateFileWithDir(u, m) /\ net' = net
        <3>1. FilesInv'
            BY <1>1, <2>3, <2>4, MessageSafe
        <3>2. OtherUploadsSame(u)
            BY <1>1, <2>4, CreateFileEffect
        <3>3. ClientOK(u)'
            BY <1>1, <1>3, <2>4, ClientAfterCreateFile
        <3> QED BY <1>1, <1>4, <2>4, <3>1, <3>2, <3>3 DEF ClientShape
    <2>5. CASE Consume(u, m) /\ net' = [net EXCEPT ![u] = Tail(net[u])]
        <3>1. FilesInv'
            BY <1>1, <2>3, <2>5, MessageSafe
        <3>2. OtherUploadsSame(u)
            BY <1>1, <2>3, <2>5, ConsumeEffect
        <3>3. /\ net'[u] = Tail(net[u]) /\ DOMAIN net' = Uploads
              /\ \A o \in Uploads \ {u} : net'[o] = net[o]
            BY <1>1, <2>5 DEF ClientShape
        <3>4. ClientOK(u)'
            BY <1>1, <1>3, <2>1, <2>5, <3>3, ClientAfterMessage
        <3> QED BY <1>4, <3>1, <3>2, <3>3, <3>4
    <2> QED BY <2>2, <2>4, <2>5
<1>6. CASE /\ Proceed(u) \/ (RecvFails(u) /\ ~ linked[u])
           /\ net' = net
    <2>1. FilesInv'
        BY <1>1, <1>6, ProceedSafe
    <2>2. OtherUploadsSame(u)
        BY <1>1, <1>6, ProceedEffect
    <2>3. ClientOK(u)'
        BY <1>1, <1>3, <1>6, ClientAfterProceed
    <2> QED BY <1>1, <1>4, <1>6, <2>1, <2>2, <2>3 DEF ClientShape
<1> QED BY <1>5, <1>6 DEF ServerStep

-----------------------------------------------------------------------------
(* The theorem *)

(* At the start nothing was sent. *)
LEMMA UploadInitSafe ==
    ASSUME UploadInit
    PROVE  UploadInv
<1>1. FilesInv
    BY InitSafe DEF UploadInit
<1>2. /\ At(0, 1, 1) \in [arg : Nat, file : Nat \ {0}, chunk : Nat \ {0}]
      /\ At(0, 1, 1).arg = 0
    BY DEF At
<1>3. ClientShape
    BY <1>2 DEF UploadInit, ClientShape
<1>4. ASSUME NEW u \in Uploads
      PROVE  ClientOK(u)
    <2>1. /\ at[u] = At(0, 1, 1) /\ main[u] = "wait" /\ net[u] = <<>> /\ linked[u]
          /\ pc[u] = "first" /\ status[u] = None /\ scFiles[u] = {} /\ scDirs[u] = {}
          /\ key[u] = None
        BY DEF UploadInit, Init
    <2>2. PositionOK(u, at[u])
        <3>1. NArgs(u) \in Nat
            BY ArgFacts
        <3> QED BY <1>2, <2>1, <3>1 DEF PositionOK
    <2>3. StreamOK(u)
        <3>1. <<>> \in Seq(ClientMessages(u)) /\ 1..Len(<<>>) = {}
            OBVIOUS
        <3> QED BY <2>1, <3>1 DEF StreamOK
    <2>4. OutcomeOK(u)
        BY <2>1 DEF OutcomeOK, Ended
    <2>5. NothingLost(u)
        <3>1. Added(u) = {} /\ Hashed(net[u]) = {} /\ SentAt(u, at[u]) = {}
            BY <2>1, SentAtStart DEF Added, Hashed
        <3>2. status[u] # "ok"
            BY <2>1, UploadAssumption DEF Statuses
        <3> QED BY <2>1, <3>1, <3>2, TargetsFacts DEF NothingLost
    <2> QED BY <2>2, <2>3, <2>4, <2>5 DEF ClientOK
<1> QED BY <1>1, <1>3, <1>4 DEF UploadInv

(* The client's and the server's invariants hold together. *)
THEOREM UploadInvariance == UploadSpec => []UploadInv
<1>1. UploadInit => UploadInv
    BY UploadInitSafe
<1>2. UploadInv /\ [UploadNext]_allVars => UploadInv'
    <2> SUFFICES ASSUME UploadInv, [UploadNext]_allVars
                 PROVE  UploadInv'
        OBVIOUS
    <2>1. ASSUME NEW u \in Uploads,
                 SenderStep(u) \/ MainStep(u) \/ ServerStep(u) \/ Disconnect(u)
          PROVE  UploadInv'
        BY <2>1, EndsSafe, UploadFileSafe, ErrorsSafe, MainSafe, ServerStepSafe,
           DisconnectSafe DEF SenderStep
    <2>2. CASE UNCHANGED allVars
        <3>1. UNCHANGED vars /\ at' = at /\ main' = main /\ linked' = linked /\ net' = net
            BY <2>2 DEF allVars, client
        <3>2. FilesInv'
            BY <3>1, UnchangedSafe DEF UploadInv
        <3>3. ClientShape'
            BY <3>1 DEF UploadInv, ClientShape
        <3>4. ASSUME NEW o \in Uploads
              PROVE  ClientOK(o)'
            <4>1. ClientOK(o) /\ ClientWaits(o) /\ net'[o] = net[o]
                BY <3>1 DEF UploadInv, ClientWaits
            <4> QED BY <3>1, <4>1, StaysPut, ClientSame
        <3> QED BY <3>2, <3>3, <3>4 DEF UploadInv
    <2> QED BY <2>1, <2>2 DEF UploadNext
<1> QED BY <1>1, <1>2, PTL DEF UploadSpec

(* What the invariant says of an upload that was answered ok. *)
LEMMA AnsweredMeansUploaded ==
    ASSUME UploadInv, NEW u \in Uploads, status[u] = "ok", Alone(u), scFiles[u] # {}
    PROVE  /\ DOMAIN rev[u] = Targets(u, Sendable(u))
           /\ \A n \in Sendable(u) : rev[u][Target(u, n)] = Local[u][n]
<1>1. ClientOK(u) /\ Accepted(u) /\ Active(u)
    BY DEF UploadInv, Accepted, Active
<1>2. /\ Added(u) = Targets(u, Sendable(u))
      /\ \A n \in Names : Target(u, n) \in Added(u) => verified[u][Target(u, n)] = Local[u][n]
    BY <1>1 DEF ClientOK, NothingLost
<1>3. Sendable(u) \subseteq Names
    BY ArgFacts DEF Sendable
<1>4. Added(u) \subseteq Yang
    BY <1>2, <1>3, ClientAssumption DEF Targets
<1>5. OwnFiles(u)
    BY <1>1 DEF UploadInv, FilesInv, Undisturbed
<1>6. DOMAIN rev[u] = Added(u) /\ \A f \in DOMAIN rev[u] : rev[u][f] = verified[u][f]
    <2>1. scFiles[u] \intersect Yang # {}
        BY <1>4 DEF Added
    <2> QED BY <1>1, <1>4, <1>5, <2>1 DEF OwnFiles, Added
<1> QED BY <1>2, <1>3, <1>6 DEF Targets

-----------------------------------------------------------------------------
(* The errors of the sender *)

ErrorShape ==
    /\ sender \in [Uploads -> {"send", "check", "put", "closed"}]
    /\ err \in [Uploads -> BOOLEAN]
    /\ errCh \in [Uploads -> {0, 1}]
    /\ logged \in [Uploads -> BOOLEAN]

(* The arguments before the sender's position could be read. *)
NoneBad(u) == \A b \in BadArgs(u) : b >= at[u].arg

(* The sender has no error to report. *)
Quiet(u) == sender[u] \in {"send", "closed"} \/ (sender[u] = "check" /\ ~ err[u])

(* As long as the command waits for the sender, err is the sender's; when  *)
(* the command goes on without an error, the sender has ended, and err is  *)
(* its own.                                                                *)
ErrorsOK(u) ==
    /\ sender[u] = "closed" => at[u].arg = NArgs(u) + 2
    /\ main[u] = "wait" /\ errCh[u] = 0 /\ Quiet(u) => NoneBad(u)
    /\ main[u] # "wait" /\ ~ logged[u] => sender[u] = "closed" /\ NoneBad(u)
    /\ ~ logged[u] /\ (main[u] = "ok" \/ (main[u] \in {"check", "return"} /\ ~ err[u])) =>
          status[u] = "ok"

ErrorInv == ErrorShape /\ \A u \in Uploads : ErrorsOK(u)

ErrorsWait(o) ==
    /\ at'[o] = at[o] /\ sender'[o] = sender[o] /\ err'[o] = err[o] /\ errCh'[o] = errCh[o]
    /\ main'[o] = main[o] /\ logged'[o] = logged[o]

(* Nothing happens at the client, and an answer stays what it is. *)
LEMMA ErrorsSame ==
    ASSUME NEW o \in Uploads, ErrorsOK(o), ErrorsWait(o), status[o] = "ok" => status'[o] = "ok"
    PROVE  ErrorsOK(o)'
BY DEF ErrorsOK, ErrorsWait, NoneBad, Quiet, BadArgs

(* It is enough to look at the client that moves. *)
LEMMA OneSender ==
    ASSUME ErrorInv, UNCHANGED vars, ErrorShape', NEW u \in Uploads, ErrorsOK(u)',
           \A o \in Uploads \ {u} : ErrorsWait(o)
    PROVE  ErrorInv'
<1>1. ASSUME NEW o \in Uploads, o # u
      PROVE  ErrorsOK(o)'
    <2>1. ErrorsOK(o) /\ ErrorsWait(o) /\ status'[o] = status[o]
        BY <1>1 DEF ErrorInv, vars, server
    <2> QED BY <2>1, ErrorsSame
<1> QED BY <1>1 DEF ErrorInv

(* The bad arguments are arguments. *)
LEMMA BadArgsFacts ==
    ASSUME NEW u \in Uploads
    PROVE  /\ BadArgs(u)' = BadArgs(u) /\ NArgs(u) \in Nat
           /\ \A b \in BadArgs(u) : b \in 1..NArgs(u)
<1>1. NArgs(u) \in Nat /\ DOMAIN Args[u] = 1..NArgs(u)
    BY ArgFacts
<1> QED BY <1>1 DEF BadArgs

(* A sender that goes on either has an error to report, or has passed over *)
(* nothing that it could not read.                                         *)
LEMMA SenderErrors ==
    ASSUME ErrorInv, ClientShape, NEW u \in Uploads, Sending(u), UNCHANGED <<vars, errCh, main, logged>>,
           NEW q \in [arg : Nat, file : Nat \ {0}, chunk : Nat \ {0}], MoveTo(u, q),
           \/ UNCHANGED <<err, sender>> /\ q.arg = at[u].arg
           \/ \E e \in BOOLEAN :
                 /\ AssignErr(u, e)
                 /\ ~ e => \A b \in BadArgs(u) : b >= at[u].arg => b >= q.arg
    PROVE  ErrorInv'
<1>1. /\ ErrorsOK(u) /\ ErrorShape /\ sender[u] = "send" /\ main' = main /\ errCh' = errCh
      /\ logged' = logged /\ UNCHANGED vars
    BY DEF ErrorInv, Sending
<1>2. at' = [at EXCEPT ![u] = q] /\ at'[u] = q /\ \A o \in Uploads \ {u} : at'[o] = at[o]
    BY DEF MoveTo, ClientShape
<1>3. main[u] = "wait" \/ logged[u]
    BY <1>1 DEF ErrorsOK
<1>4. BadArgs(u)' = BadArgs(u)
    BY BadArgsFacts
<1>5. CASE UNCHANGED <<err, sender>> /\ q.arg = at[u].arg
    <2>1. NoneBad(u) => NoneBad(u)'
        BY <1>2, <1>4, <1>5 DEF NoneBad
    <2>2. ErrorsOK(u)'
        BY <1>1, <1>3, <1>5, <2>1 DEF ErrorsOK, Quiet
    <2>3. ErrorShape' /\ \A o \in Uploads \ {u} : ErrorsWait(o)
        BY <1>1, <1>2, <1>5 DEF ErrorShape, ErrorsWait
    <2> QED BY <1>1, <2>2, <2>3, OneSender
<1>6. ASSUME NEW e \in BOOLEAN, AssignErr(u, e),
             ~ e => \A b \in BadArgs(u) : b >= at[u].arg => b >= q.arg
      PROVE  ErrorInv'
    <2>1. /\ err' = [err EXCEPT ![u] = e] /\ sender' = [sender EXCEPT ![u] = "check"]
          /\ err'[u] = e /\ sender'[u] = "check"
        BY <1>1, <1>6 DEF AssignErr, ErrorShape
    <2>2. ErrorShape'
        BY <1>1, <2>1 DEF ErrorShape
    <2>3. \A o \in Uploads \ {u} : ErrorsWait(o)
        BY <1>1, <1>2, <2>1 DEF ErrorShape, ErrorsWait
    <2>4. NoneBad(u) /\ ~ e => NoneBad(u)'
        BY <1>2, <1>4, <1>6 DEF NoneBad
    <2>5. ErrorsOK(u)'
        BY <1>1, <1>3, <2>1, <2>4 DEF ErrorsOK, Quiet
    <2> QED BY <1>1, <2>2, <2>3, <2>5, OneSender
<1> QED BY <1>5, <1>6

(* The steps of the sender ... *)
LEMMA SendErrors ==
    ASSUME UploadInv, ErrorInv, NEW u \in Uploads,
           SendCreate(u) \/ UploadFile(u) \/ SendFinalize(u)
    PROVE  ErrorInv'
<1>1. ClientShape /\ PositionOK(u, at[u]) /\ NArgs(u) \in Nat
    BY BadArgsFacts DEF UploadInv, ClientOK
<1>2. Sending(u) /\ UNCHANGED <<vars, errCh, main, logged>>
    BY DEF SendCreate, UploadFile, SendFinalize
<1>3. /\ \A b \in BadArgs(u) : b \in 1..NArgs(u)
      /\ \A a \in Nat : At(a, 1, 1) \in [arg : Nat, file : Nat \ {0}, chunk : Nat \ {0}]
      /\ \A a \in Nat : At(a, 1, 1).arg = a
    BY BadArgsFacts DEF At
<1>4. CASE SendCreate(u)
    <2>1. PICK e \in BOOLEAN : AssignErr(u, e) /\ MoveTo(u, At(1, 1, 1))
        BY <1>4 DEF SendCreate
    <2>2. \A b \in BadArgs(u) : b >= 1
        BY <1>1, <1>3
    <2>3. At(1, 1, 1) \in [arg : Nat, file : Nat \ {0}, chunk : Nat \ {0}] /\ At(1, 1, 1).arg = 1
        BY <1>3
    <2> QED BY <1>1, <1>2, <2>1, <2>2, <2>3, SenderErrors
<1>5. CASE SendFinalize(u)
    <2> DEFINE q == At(NArgs(u) + 2, 1, 1)
    <2>1. PICK e \in BOOLEAN : AssignErr(u, e) /\ MoveTo(u, q)
        BY <1>5 DEF SendFinalize
    <2>2. at[u].arg = NArgs(u) + 1
        BY <1>5 DEF SendFinalize
    <2>3. \A b \in BadArgs(u) : ~ (b >= at[u].arg)
        BY <1>1, <1>3, <2>2
    <2>4. q \in [arg : Nat, file : Nat \ {0}, chunk : Nat \ {0}]
        <3>1. NArgs(u) + 2 \in Nat
            BY <1>1
        <3> QED BY <1>3, <3>1
    <2> HIDE DEF q
    <2> QED BY <1>1, <1>2, <2>1, <2>3, <2>4, SenderErrors
<1>6. CASE UploadFile(u)
    <2> DEFINE a == at[u].arg
               i == at[u].file
               j == at[u].chunk
               walk == Args[u][a].files
               skip == At(a + 1, 1, 1)
    <2>1. a \in 1..NArgs(u) /\ a \in Nat /\ i \in Nat \ {0} /\ j \in Nat \ {0}
        BY <1>1, <1>6 DEF UploadFile, ClientShape
    <2>2. \/ i > Len(walk) /\ AssignErr(u, FALSE) /\ MoveTo(u, skip)
          \/ AssignErr(u, TRUE) /\ MoveTo(u, skip)
          \/ UNCHANGED <<err, sender>> /\ MoveTo(u, At(a, i, j + 1))
          \/ UNCHANGED <<err, sender>> /\ MoveTo(u, At(a, i + 1, 1))
        BY <1>6 DEF UploadFile, EndWalk
    <2>3. /\ skip \in [arg : Nat, file : Nat \ {0}, chunk : Nat \ {0}] /\ skip.arg = a + 1
          /\ At(a, i, j + 1) \in [arg : Nat, file : Nat \ {0}, chunk : Nat \ {0}]
          /\ At(a, i + 1, 1) \in [arg : Nat, file : Nat \ {0}, chunk : Nat \ {0}]
          /\ At(a, i, j + 1).arg = a /\ At(a, i + 1, 1).arg = a
        BY <2>1 DEF At
    <2>4. ASSUME i > Len(walk)
          PROVE  \A b \in BadArgs(u) : b >= a => b >= a + 1
        <3>1. a \notin BadArgs(u)
            <4>1. DOMAIN walk = 1..Len(walk) /\ Len(walk) \in Nat
                BY <2>1, ArgFacts
            <4>2. \A l \in 1..(i - 1) : Local[u][walk[l]] # Unreadable
                BY <1>1, <2>1 DEF PositionOK
            <4>3. \A l \in DOMAIN walk : l \in 1..(i - 1)
                BY <2>1, <2>4, <4>1
            <4> QED BY <4>2, <4>3 DEF BadArgs
        <3>2. \A b \in BadArgs(u) : b # a /\ b \in 1..NArgs(u)
            BY <1>3, <3>1
        <3>3. a \in Nat /\ NArgs(u) \in Nat
            BY <1>1, <2>1
        <3> HIDE DEF a
        <3> QED BY <3>2, <3>3
    <2> HIDE DEF skip, walk
    <2>5. CASE i > Len(walk) /\ AssignErr(u, FALSE) /\ MoveTo(u, skip)
        BY <1>1, <1>2, <2>3, <2>4, <2>5, SenderErrors
    <2>6. CASE AssignErr(u, TRUE) /\ MoveTo(u, skip)
        BY <1>1, <1>2, <2>3, <2>6, SenderErrors
    <2>7. CASE UNCHANGED <<err, sender>> /\ MoveTo(u, At(a, i, j + 1))
        BY <1>1, <1>2, <2>3, <2>7, SenderErrors
    <2>8. CASE UNCHANGED <<err, sender>> /\ MoveTo(u, At(a, i + 1, 1))
        BY <1>1, <1>2, <2>3, <2>8, SenderErrors
    <2> QED BY <2>2, <2>5, <2>6, <2>7, <2>8
<1> QED BY <1>4, <1>5, <1>6

(* ... which reports its errors and ends ... *)
LEMMA ReportErrors ==
    ASSUME ErrorInv, NEW u \in Uploads, CheckSent(u) \/ PutError(u) \/ CloseErrors(u)
    PROVE  ErrorInv'
<1>1. /\ ErrorsOK(u) /\ ErrorShape /\ UNCHANGED vars
      /\ at' = at /\ err' = err /\ main' = main /\ logged' = logged
    BY DEF ErrorInv, CheckSent, PutError, CloseErrors
<1>2. sender[u] # "closed"
    BY DEF CheckSent, PutError, CloseErrors, Sending
<1>3. main[u] = "wait" \/ logged[u]
    BY <1>1, <1>2 DEF ErrorsOK
<1>4. NoneBad(u)' <=> NoneBad(u)
    BY <1>1, BadArgsFacts DEF NoneBad
<1>5. PICK l \in {"send", "put", "closed"}, n \in {0, 1} :
          /\ sender' = [sender EXCEPT ![u] = l] /\ errCh' = [errCh EXCEPT ![u] = n]
          /\ l = "closed" => at[u].arg = NArgs(u) + 2
          /\ l # "put" /\ n = 0 => errCh[u] = 0 /\ Quiet(u)
    <2>1. errCh[u] \in {0, 1} /\ errCh = [errCh EXCEPT ![u] = errCh[u]]
        BY <1>1 DEF ErrorShape
    <2>2. CASE CheckSent(u)
        BY <2>1, <2>2 DEF CheckSent, Quiet
    <2>3. CASE PutError(u)
        BY <2>3 DEF PutError
    <2>4. CASE CloseErrors(u)
        BY <2>1, <2>4 DEF CloseErrors, Sending, Quiet
    <2> QED BY <2>2, <2>3, <2>4
<1>6. sender'[u] = l /\ errCh'[u] = n
    BY <1>1, <1>5 DEF ErrorShape
<1>7. ErrorShape' /\ \A o \in Uploads \ {u} : ErrorsWait(o)
    BY <1>1, <1>5 DEF ErrorShape, ErrorsWait
<1>8. ErrorsOK(u)'
    <2>1. main[u] = "wait" /\ n = 0 /\ l # "put" => NoneBad(u)
        BY <1>1, <1>5 DEF ErrorsOK
    <2>2. ~ logged[u] => main[u] = "wait"
        BY <1>3
    <2> QED BY <1>1, <1>4, <1>5, <1>6, <2>1, <2>2 DEF ErrorsOK, Quiet
<1> QED BY <1>1, <1>7, <1>8, OneSender

(* ... and those of the command. *)
LEMMA MainErrors ==
    ASSUME ClientShape, ErrorInv, NEW u \in Uploads, MainStep(u)
    PROVE  ErrorInv'
<1>1. ErrorsOK(u) /\ ErrorShape /\ UNCHANGED vars /\ at' = at /\ sender' = sender
    BY DEF ErrorInv, MainStep, AwaitSender, AwaitReceiver, CheckErr
<1>2. NoneBad(u)' <=> NoneBad(u)
    BY <1>1, BadArgsFacts DEF NoneBad
<1>3. status' = status
    BY <1>1 DEF vars, server
<1>4. CASE AwaitSender(u)
    <2>1. /\ err' = err /\ main[u] = "wait" /\ main' = [main EXCEPT ![u] = "rcv"]
          /\ errCh' = [errCh EXCEPT ![u] = 0] /\ logged' = [logged EXCEPT ![u] = (errCh[u] = 1)]
          /\ errCh[u] = 1 \/ sender[u] = "closed"
        BY <1>4 DEF AwaitSender
    <2>2. main'[u] = "rcv" /\ logged'[u] = (errCh[u] = 1) /\ errCh[u] \in {0, 1}
        BY <1>1, <2>1 DEF ClientShape, ErrorShape
    <2>3. ErrorShape' /\ \A o \in Uploads \ {u} : ErrorsWait(o)
        BY <1>1, <2>1 DEF ErrorShape, ErrorsWait, ClientShape
    <2>4. ~ logged'[u] => sender[u] = "closed" /\ NoneBad(u)
        BY <1>1, <2>1, <2>2 DEF ErrorsOK, Quiet
    <2>5. ErrorsOK(u)'
        BY <1>1, <1>2, <2>2, <2>4 DEF ErrorsOK
    <2> QED BY <1>1, <2>3, <2>5, OneSender
<1>5. CASE AwaitReceiver(u)
    <2>1. /\ errCh' = errCh /\ logged' = logged /\ main[u] = "rcv"
          /\ main' = [main EXCEPT ![u] = "check"]
          /\ err' = [err EXCEPT ![u] = ~ (linked[u] /\ status[u] = "ok")]
        BY <1>5 DEF AwaitReceiver
    <2>2. main'[u] = "check" /\ (~ err'[u] => status[u] = "ok")
        BY <1>1, <2>1 DEF ClientShape, ErrorShape
    <2>3. ErrorShape' /\ \A o \in Uploads \ {u} : ErrorsWait(o)
        BY <1>1, <2>1 DEF ErrorShape, ErrorsWait, ClientShape
    <2>4. ErrorsOK(u)'
        BY <1>1, <1>2, <1>3, <2>1, <2>2 DEF ErrorsOK
    <2> QED BY <1>1, <2>3, <2>4, OneSender
<1>6. CASE CheckErr(u)
    <2>1. PICK x \in {"return", "ok", "failed"} :
              /\ main[u] \in {"check", "return"} /\ main' = [main EXCEPT ![u] = x]
              /\ x = "ok" => ~ err[u]
              /\ x = "return" => err[u]
        BY <1>6 DEF CheckErr
    <2>2. errCh' = errCh /\ logged' = logged /\ err' = err /\ main'[u] = x
        BY <1>6, <2>1 DEF CheckErr, ClientShape
    <2>3. ErrorShape' /\ \A o \in Uploads \ {u} : ErrorsWait(o)
        BY <1>1, <2>1, <2>2 DEF ErrorShape, ErrorsWait, ClientShape
    <2>4. ErrorsOK(u)'
        BY <1>1, <1>2, <1>3, <2>1, <2>2 DEF ErrorsOK
    <2> QED BY <1>1, <2>3, <2>4, OneSender
<1> QED BY <1>4, <1>5, <1>6 DEF MainStep

(* An answer is given once. *)
LEMMA AnswerStays ==
    ASSUME UploadInv, NEW u \in Uploads, ServerStep(u), NEW o \in Uploads, status[o] = "ok"
    PROVE  status'[o] = "ok"
<1>1. FilesInv /\ Shape /\ pc[o] = "done"
    BY DEF UploadInv, FilesInv, HandlerOK
<1>2. OtherUploadsSame(u) /\ pc[u] # "done"
    <2>1. CASE Receive(u)
        <3> DEFINE m == Head(net[u])
        <3>1. net[u] \in Seq(ClientMessages(u)) /\ net[u] # <<>>
            BY <2>1 DEF UploadInv, ClientOK, StreamOK, Receive
        <3>2. m \in ClientMessages(u)
            BY <3>1
        <3>3. WellFormed(m) /\ (CreateFileWithDir(u, m) \/ Consume(u, m))
            BY <2>1, <3>2, MessageFacts DEF Receive
        <3> HIDE DEF m
        <3> QED BY <1>1, <3>3, CreateFileEffect, ConsumeEffect
    <2> QED BY <1>1, <2>1, ProceedEffect DEF ServerStep
<1> QED BY <1>1, <1>2 DEF OtherUploadsSame

(* The errors of the senders are reported. *)
THEOREM ErrorInvariance == UploadSpec => []ErrorInv
<1>1. UploadInit => ErrorInv
    <2> SUFFICES ASSUME UploadInit
                 PROVE  ErrorInv
        OBVIOUS
    <2>1. ErrorShape
        BY DEF UploadInit, ErrorShape
    <2>2. ASSUME NEW u \in Uploads
          PROVE  ErrorsOK(u)
        <3>1. at[u].arg = 0 /\ sender[u] = "send" /\ main[u] = "wait"
            BY DEF UploadInit, At
        <3>2. NoneBad(u)
            BY <3>1, BadArgsFacts DEF NoneBad
        <3> QED BY <3>1, <3>2 DEF ErrorsOK
    <2> QED BY <2>1, <2>2 DEF ErrorInv
<1>2. UploadInv /\ ErrorInv /\ [UploadNext]_allVars => ErrorInv'
    <2> SUFFICES ASSUME UploadInv, ErrorInv, [UploadNext]_allVars
                 PROVE  ErrorInv'
        OBVIOUS
    <2>1. ClientShape
        BY DEF UploadInv
    <2>2. ASSUME UNCHANGED <<at, sender, err, errCh, main, logged>>,
                 \A o \in Uploads : status[o] = "ok" => status'[o] = "ok"
          PROVE  ErrorInv'
        <3>1. ErrorShape' /\ \A o \in Uploads : ErrorsWait(o)
            BY <2>2 DEF ErrorInv, ErrorShape, ErrorsWait
        <3> QED BY <2>2, <3>1, ErrorsSame DEF ErrorInv
    <2>3. ASSUME NEW u \in Uploads, SenderStep(u)
          PROVE  ErrorInv'
        BY <2>3, SendErrors, ReportErrors DEF SenderStep
    <2>4. ASSUME NEW u \in Uploads, MainStep(u)
          PROVE  ErrorInv'
        BY <2>1, <2>4, MainErrors
    <2>5. ASSUME NEW u \in Uploads, ServerStep(u)
          PROVE  ErrorInv'
        <3>1. UNCHANGED <<at, sender, err, errCh, main, logged>>
            BY <2>5 DEF ServerStep, Receive, client
        <3> QED BY <2>2, <2>5, <3>1, AnswerStays
    <2>6. ASSUME NEW u \in Uploads, Disconnect(u)
          PROVE  ErrorInv'
        <3>1. UNCHANGED <<at, sender, err, errCh, main, logged, status>>
            BY <2>6 DEF Disconnect, vars, server
        <3> QED BY <2>2, <3>1
    <2>7. CASE UNCHANGED allVars
        <3>1. UNCHANGED <<at, sender, err, errCh, main, logged, status>>
            BY <2>7 DEF allVars, client, vars, server
        <3> QED BY <2>2, <3>1
    <2> QED BY <2>3, <2>4, <2>5, <2>6, <2>7 DEF UploadNext
<1> QED BY <1>1, <1>2, UploadInvariance, PTL DEF UploadSpec

(* A command that reports success and has logged no error was answered ok  *)
(* and could read all its files; an upload that is answered ok has stored  *)
(* exactly the files its client could read, as they are at the client;     *)
(* whatever the arguments, however many clients there are, and whichever   *)
(* connections break.                                                      *)
THEOREM AcknowledgedMeansUploaded == UploadSpec => []AckedIsUploaded
<1>1. UploadInv /\ ErrorInv => AckedIsUploaded
    <2> SUFFICES ASSUME UploadInv, ErrorInv, NEW u \in Uploads
                 PROVE  /\ main[u] = "ok" /\ ~ logged[u] => status[u] = "ok" /\ BadArgs(u) = {}
                        /\ status[u] = "ok" /\ Alone(u) /\ scFiles[u] # {} =>
                              /\ DOMAIN rev[u] = Targets(u, Sendable(u))
                              /\ \A n \in Sendable(u) : rev[u][Target(u, n)] = Local[u][n]
        BY DEF AckedIsUploaded, Targets
    <2>1. ASSUME main[u] = "ok", ~ logged[u]
          PROVE  status[u] = "ok" /\ BadArgs(u) = {}
        <3>1. status[u] = "ok" /\ NoneBad(u) /\ at[u].arg = NArgs(u) + 2
            BY <2>1 DEF ErrorInv, ErrorsOK
        <3>2. NArgs(u) \in Nat /\ \A b \in BadArgs(u) : b \in 1..NArgs(u) /\ b >= NArgs(u) + 2
            BY <3>1, BadArgsFacts DEF NoneBad
        <3> QED BY <3>1, <3>2
    <2> QED BY <2>1, AnsweredMeansUploaded
<1> QED BY <1>1, UploadInvariance, ErrorInvariance, PTL

=============================================================================
