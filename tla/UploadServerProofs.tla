------------------------- MODULE UploadServerProofs -------------------------
(***************************************************************************)
(* Proofs about UploadServer: whatever clients send, and however the       *)
(* handlers interleave, a schema that is stored by an upload which had its *)
(* directory to itself was made of files the client vouched for, and these *)
(* files stay where they are.                                              *)
(***************************************************************************)
EXTENDS UploadServer, TLAPS

(* What a file may hold when no bound is put on its length. *)
Bytes == Chunks \union {Hole}
Texts == Seq(Bytes)

(* What a schema may be made of, with files from C. *)
RevisionsOf(C) == UNION {[F -> C] : F \in SUBSET Files}

(* The types, with contents from C and write positions from N: TypeOK is   *)
(* the instance with bounded files.                                        *)
ShapeOf(C, N) ==
    /\ link \in [Files -> Inodes \union {None}]
    /\ data \in [Inodes -> C]
    /\ stored \in [Keys -> {None} \union RevisionsOf(C)]
    /\ pc \in [Uploads -> {"first", "done"} \union Working]
    /\ key \in [Uploads -> Keys \union {None}]
    /\ handled \in [Uploads -> [Files -> {None} \union [ino : Inodes, pos : N]]]
    /\ scFiles \in [Uploads -> SUBSET Files]
    /\ scDirs \in [Uploads -> SUBSET Files]
    /\ rev \in [Uploads -> {None} \union RevisionsOf(C)]
    /\ status \in [Uploads -> Statuses \union {None}]
    /\ verified \in [Uploads -> [Files -> C \union {None}]]
    /\ user \in [Dirs -> Uploads \union {None}]
    /\ shared \in SUBSET Dirs

Shape == ShapeOf(Texts, Nat)

(* A path is the only one that leads to its inode, and handlers that have  *)
(* the inode open opened it under that path.                               *)
Links ==
    /\ \A f, g \in Files : link[f] # None /\ link[f] = link[g] => f = g
    /\ \A f \in Files, o \in Uploads, g \in Files :
          handled[o][g] # None /\ link[f] = handled[o][g].ino => f = g

(* The schemas a handler is at work on or has stored. *)
Active(u) == pc[u] \in Working \/ status[u] = "ok"

(* What a handler knows by itself: it has files open only while it         *)
(* receives, and a schema is made of its modules and of dependencies.      *)
HandlerOK(u) ==
    /\ Active(u) => key[u] \in Keys
    /\ status[u] = "ok" => pc[u] = "done"
    /\ \A f \in Files : handled[u][f] # None => pc[u] = "recv"
    /\ pc[u] \in {"first", "clean"} => scFiles[u] = {} /\ scDirs[u] = {}
    /\ Accepted(u) => /\ rev[u] \in RevisionsOf(Texts)
                      /\ scFiles[u] \intersect Yang \subseteq DOMAIN rev[u]
                      /\ DOMAIN rev[u] \subseteq scFiles[u] \union scDirs[u]

(* What it may rely on while it has its directory to itself: nobody else   *)
(* works there, the files it has open are there and are the ones linked,   *)
(* and those it has closed have the contents it verified, up to the moment *)
(* they are parsed and after.                                              *)
OwnFiles(u) ==
    /\ \A o \in Uploads \ {u} : ~ WorksIn(o, DirU(u))
    /\ \A f \in Files : handled[u][f] # None =>
          In[f] = DirU(u) /\ link[f] = handled[u][f].ino
    /\ \A f \in scFiles[u] \union scDirs[u] :
          /\ In[f] = DirU(u)
          /\ handled[u][f] = None => link[f] # None /\ data[link[f]] = verified[u][f]
    /\ Accepted(u) => \A f \in DOMAIN rev[u] : rev[u][f] = verified[u][f]
    /\ Accepted(u) /\ scFiles[u] \intersect Yang # {} =>
          DOMAIN rev[u] = (scFiles[u] \union scDirs[u]) \intersect Yang

Undisturbed(u) == Active(u) /\ Alone(u) => OwnFiles(u)

FilesInv ==
    /\ Shape
    /\ Links
    /\ \A u \in Uploads : HandlerOK(u)
    /\ \A u \in Uploads : Undisturbed(u)

-----------------------------------------------------------------------------
(* Typing *)

(* What every message must have, whoever sends it. *)
WellFormed(m) ==
    /\ m.kind = "create" => m.key \in Keys
    /\ m.kind = "file" => /\ m.name \in Names \union {NoName}
                          /\ m.contents \in Chunks \union {None}

(* The step of u for m keeps to the contents C and the positions N. *)
KeepsTo(u, m, C, N) ==
    IsOpenFileOf(u, m) =>
        /\ Updated(u, m) \in C
        /\ m.contents # None => handled[u][FileName(u, m)].pos + 1 \in N

(* A write yields a file that ends where it ended, or behind the chunk. *)
LEMMA WriteAtFile ==
    ASSUME NEW s \in Texts, NEW n \in Nat, NEW c \in Bytes
    PROVE  /\ WriteAt(s, n, c) \in Texts
           /\ Len(WriteAt(s, n, c)) = IF n < Len(s) THEN Len(s) ELSE n + 1
<1> DEFINE k == IF n < Len(s) THEN Len(s) ELSE n + 1
<1>1. Len(s) \in Nat /\ k \in Nat /\ \A i \in 1..Len(s) : s[i] \in Bytes
    BY DEF Texts
<1>2. \A i \in 1..k : (IF i = n + 1 THEN c ELSE IF i <= Len(s) THEN s[i] ELSE Hole) \in Bytes
    BY <1>1 DEF Bytes
<1>3. WriteAt(s, n, c) \in [1..k -> Bytes]
    BY <1>2 DEF WriteAt
<1> QED BY <1>1, <1>3 DEF Texts

(* A content is a file of bounded length. *)
LEMMA ContentsAreTexts ==
    /\ Contents \subseteq Texts
    /\ \A s \in Texts : Len(s) <= MaxChunks => s \in Contents
    /\ \A s \in Contents : Len(s) <= MaxChunks
    /\ <<>> \in Contents
<1>1. ASSUME NEW s \in Contents
      PROVE  s \in Texts /\ Len(s) <= MaxChunks
    <2>1. PICK n \in 0..MaxChunks : s \in [1..n -> Bytes]
        BY DEF Contents, Bytes
    <2> QED BY <2>1, UploadAssumption DEF Texts
<1>2. ASSUME NEW s \in Texts, Len(s) <= MaxChunks
      PROVE  s \in Contents
    <2>1. Len(s) \in 0..MaxChunks /\ s \in [1..Len(s) -> Bytes]
        BY <1>2, UploadAssumption DEF Texts
    <2> QED BY <2>1 DEF Contents, Bytes
<1>3. <<>> \in Texts /\ Len(<<>>) <= MaxChunks
    BY UploadAssumption DEF Texts
<1> QED BY <1>1, <1>2, <1>3

(* A write below the bound keeps a file within it. *)
LEMMA WriteWithin ==
    ASSUME NEW s \in Contents, NEW p \in 0..MaxChunks, p < MaxChunks, NEW c \in Bytes
    PROVE  WriteAt(s, p, c) \in Contents /\ p + 1 \in 0..MaxChunks
<1>1. MaxChunks \in Nat /\ p \in Nat
    BY UploadAssumption
<1>2. s \in Texts /\ Len(s) \in Nat /\ Len(s) <= MaxChunks
    BY ContentsAreTexts DEF Texts
<1>3. PICK t : t = WriteAt(s, p, c)
    OBVIOUS
<1>4. t \in Texts /\ Len(t) = IF p < Len(s) THEN Len(s) ELSE p + 1
    BY <1>1, <1>2, <1>3, WriteAtFile
<1>5. p + 1 <= MaxChunks /\ p + 1 \in 0..MaxChunks
    BY <1>1
<1>6. Len(t) <= MaxChunks
    BY <1>1, <1>2, <1>4, <1>5
<1>7. t \in Contents
    BY <1>4, <1>6, ContentsAreTexts
<1> QED BY <1>3, <1>5, <1>7

(* A message leaves a file with chunks and holes in it. *)
LEMMA UpdatedIsText ==
    ASSUME Shape, NEW u \in Uploads, NEW m, WellFormed(m), IsOpenFileOf(u, m)
    PROVE  Updated(u, m) \in Texts /\ handled[u][FileName(u, m)].pos + 1 \in Nat
<1> DEFINE p == FileName(u, m)
<1>0. p \in Files /\ handled[u][p] # None
    BY DEF Open, IsOpenFileOf
<1>1. /\ p \in Files /\ handled[u][p] \in [ino : Inodes, pos : Nat]
      /\ m.contents \in Chunks \union {None}
    <2>1. m.contents \in Chunks \union {None}
        BY DEF WellFormed, IsOpenFileOf, IsFileOf
    <2> HIDE DEF p
    <2> QED BY <1>0, <2>1 DEF Shape, ShapeOf
<1>2. data[handled[u][p].ino] \in Texts
    BY <1>1 DEF Shape, ShapeOf
<1>3. m.contents # None => m.contents \in Bytes
    BY <1>1 DEF Bytes
<1>4. Updated(u, m) = IF m.contents = None THEN data[handled[u][p].ino]
                      ELSE WriteAt(data[handled[u][p].ino], handled[u][p].pos, m.contents)
    BY DEF Updated
<1> HIDE DEF p
<1>5. Updated(u, m) \in Texts /\ handled[u][p].pos + 1 \in Nat
    <2> DEFINE q == handled[u][p].pos
               t == data[handled[u][p].ino]
    <2>1. q \in Nat /\ t \in Texts /\ (m.contents # None => WriteAt(t, q, m.contents) \in Texts)
        <3>1. q \in Nat /\ t \in Texts
            BY <1>1, <1>2
        <3> HIDE DEF q, t
        <3> QED BY <1>3, <3>1, WriteAtFile
    <2> QED BY <1>4, <2>1
<1> QED BY <1>5 DEF p

(* The path a name leads to. *)
LEMMA FileNameIsFile ==
    ASSUME NEW u, NEW m, WellFormed(m), IsFileOf(u, m), DirU(u) \in Dirs
    PROVE  FileName(u, m) \in Files
BY UploadAssumption DEF WellFormed, IsFileOf, FileName

(* Handlers that end leave variables of their types. *)
LEMMA EndTyping ==
    ASSUME NEW C, NEW N, ShapeOf(C, N), NEW O, NEW s \in Statuses, End(O, s),
           link' \in [Files -> Inodes \union {None}], data' \in [Inodes -> C],
           stored' \in [Keys -> {None} \union RevisionsOf(C)]
    PROVE  ShapeOf(C, N)'
<1>1. [f \in Files |-> None] \in [Files -> {None} \union [ino : Inodes, pos : N]]
    OBVIOUS
<1>2. [f \in Files |-> None] \in [Files -> C \union {None}]
    OBVIOUS
<1>3. handled' \in [Uploads -> [Files -> {None} \union [ino : Inodes, pos : N]]]
    BY <1>1 DEF End, ShapeOf
<1>4. verified' \in [Uploads -> [Files -> C \union {None}]]
    BY <1>2 DEF End, ShapeOf
<1>5. /\ pc' \in [Uploads -> {"first", "done"} \union Working]
      /\ status' \in [Uploads -> Statuses \union {None}]
      /\ rev' \in [Uploads -> {None} \union RevisionsOf(C)]
    BY DEF End, ShapeOf
<1>6. scFiles' \in [Uploads -> SUBSET Files] /\ scDirs' \in [Uploads -> SUBSET Files]
    BY DEF End, ShapeOf
<1>7. UNCHANGED <<key, user, shared>>
    BY DEF End
<1> QED BY <1>3, <1>4, <1>5, <1>6, <1>7 DEF ShapeOf

(* Removing a directory unlinks its files. *)
LEMMA RemoveAllTyping ==
    ASSUME NEW C, NEW N, ShapeOf(C, N), NEW d, RemoveAll(d) \/ link' = link
    PROVE  link' \in [Files -> Inodes \union {None}]
BY DEF RemoveAll, ShapeOf

(* A handler that returns, having cleaned its directory or not. *)
LEMMA ReturnTyping ==
    ASSUME NEW C, NEW N, ShapeOf(C, N), NEW u \in Uploads, NEW s \in Statuses,
           \/ Return(u, s) /\ UNCHANGED link
           \/ CleanAndReturn(u, s),
           data' \in [Inodes -> C], UNCHANGED stored
    PROVE  ShapeOf(C, N)'
<1>1. End({u}, s) /\ (RemoveAll(DirU(u)) \/ link' = link)
    BY DEF Return, CleanAndReturn
<1>2. link' \in [Files -> Inodes \union {None}]
    BY <1>1, RemoveAllTyping
<1>3. stored' \in [Keys -> {None} \union RevisionsOf(C)]
    BY DEF ShapeOf
<1> QED BY <1>1, <1>2, <1>3, EndTyping

(* Every step of a handler keeps the types. *)
LEMMA CreateFileTyping ==
    ASSUME NEW C, NEW N, <<>> \in C, 0 \in N, ShapeOf(C, N), NEW u \in Uploads, NEW m,
           WellFormed(m), CreateFileWithDir(u, m), DirU(u) \in Dirs
    PROVE  ShapeOf(C, N)'
<1>0. data \in [Inodes -> C]
    BY DEF ShapeOf
<1>1. CASE Return(u, "error") /\ UNCHANGED files
    BY <1>0, <1>1, ReturnTyping DEF CreateFileWithDir, files, Statuses
<1>2. CASE ~ (Return(u, "error") /\ UNCHANGED files)
    <2> DEFINE p == FileName(u, m)
               free == Inodes \ InUse
               i == IF link[p] # None THEN link[p] ELSE CHOOSE j \in free : TRUE
    <2>1. /\ link[p] # None \/ free # {}
          /\ link' = [link EXCEPT ![p] = i]
          /\ data' = [data EXCEPT ![i] = <<>>]
          /\ handled' = [handled EXCEPT ![u][p] = [ino |-> i, pos |-> 0]]
          /\ shared' = IF In[p] = DirU(u) THEN shared ELSE shared \union {DirU(u), In[p]}
          /\ UNCHANGED <<pc, key, scFiles, scDirs, rev, status, verified, user, stored>>
        BY <1>2 DEF CreateFileWithDir
    <2>2. p \in Files /\ In[p] \in Dirs
        BY FileNameIsFile, UploadAssumption DEF CreateFileWithDir
    <2> HIDE DEF p
    <2>3. i \in Inodes
        <3>1. CASE link[p] # None
            BY <3>1, <2>2 DEF ShapeOf
        <3>2. CASE link[p] = None
            <4>1. (CHOOSE j \in free : TRUE) \in free
                BY <3>2, <2>1
            <4> QED BY <4>1, <3>2
        <3> QED BY <3>1, <3>2
    <2> HIDE DEF i
    <2>4. handled' \in [Uploads -> [Files -> {None} \union [ino : Inodes, pos : N]]]
        BY <2>1, <2>2, <2>3 DEF ShapeOf
    <2>5. /\ link' \in [Files -> Inodes \union {None}] /\ data' \in [Inodes -> C]
          /\ shared' \in SUBSET Dirs
        BY <2>1, <2>2, <2>3 DEF ShapeOf
    <2> QED BY <2>1, <2>4, <2>5 DEF ShapeOf
<1> QED BY <1>1, <1>2

(* A handler that writes to a file, then goes on or returns. *)
LEMMA WriteTyping ==
    ASSUME NEW C, NEW N, <<>> \in C, N \subseteq Nat, ShapeOf(C, N), NEW u \in Uploads,
           NEW m, WellFormed(m), KeepsTo(u, m, C, N),
           \/ WriteChunk(u, m) \/ WriteFails(u, m) \/ VerifyHash(u, m)
           \/ UnspecifiedHash(u, m)
    PROVE  ShapeOf(C, N)'
<1> DEFINE p == FileName(u, m)
<1>1. IsOpenFileOf(u, m)
    BY DEF WriteChunk, WriteFails, VerifyHash, UnspecifiedHash
<1>2. /\ p \in Files /\ handled[u][p] \in [ino : Inodes, pos : N]
      /\ Updated(u, m) \in C /\ (m.contents # None => handled[u][p].pos + 1 \in N)
    BY <1>1 DEF KeepsTo, IsOpenFileOf, Open, ShapeOf
<1>3. /\ data' \in [Inodes -> C]
      /\ UNCHANGED stored
    <2>1. \/ data' = [data EXCEPT ![handled[u][p].ino] = Updated(u, m)]
          \/ data' = [data EXCEPT ![handled[u][p].ino] = <<>>]
          \/ data' = data
        BY DEF WriteChunk, WriteFails, VerifyHash, UnspecifiedHash, Write
    <2>2. UNCHANGED stored
        BY DEF WriteChunk, WriteFails, VerifyHash, UnspecifiedHash
    <2> HIDE DEF p
    <2> QED BY <2>1, <2>2, <1>2 DEF ShapeOf
<1>4. CASE \E s \in Statuses : CleanAndReturn(u, s)
    BY <1>3, <1>4, ReturnTyping
<1>5. CASE WriteChunk(u, m)
    <2>0. /\ handled' = [handled EXCEPT ![u][p].pos = @ + (IF m.contents = None THEN 0 ELSE 1)]
          /\ UNCHANGED <<link, pc, key, scFiles, scDirs, rev, status, verified, user, shared>>
        BY <1>5 DEF WriteChunk
    <2> HIDE DEF p
    <2>1. handled[u][p].pos + (IF m.contents = None THEN 0 ELSE 1) \in N
        <3>1. CASE m.contents # None
            BY <3>1, <1>2
        <3>2. CASE m.contents = None
            <4>1. handled[u][p].pos \in N /\ handled[u][p].pos \in Nat
                BY <1>2
            <4> QED BY <3>2, <4>1
        <3> QED BY <3>1, <3>2
    <2>2. handled' \in [Uploads -> [Files -> {None} \union [ino : Inodes, pos : N]]]
        BY <1>2, <2>0, <2>1 DEF ShapeOf
    <2> QED BY <2>0, <1>3, <2>2 DEF ShapeOf
<1>6. CASE /\ VerifyHash(u, m) /\ HashMatches(u, m)
           /\ UNCHANGED <<link, pc, key, rev, status, user, shared>>
           /\ IF m.ft = "MODULE"
              THEN scFiles' = [scFiles EXCEPT ![u] = @ \union {p}] /\ UNCHANGED scDirs
              ELSE scDirs' = [scDirs EXCEPT ![u] = @ \union {p}] /\ UNCHANGED scFiles
           /\ handled' = [handled EXCEPT ![u][p] = None]
           /\ verified' = [verified EXCEPT ![u][p] = m.hash.sum[2]]
    <2>1. m.hash.sum[2] \in C
        BY <1>2, <1>6 DEF HashMatches, Digest, ReadBack
    <2> HIDE DEF p
    <2>2. handled' \in [Uploads -> [Files -> {None} \union [ino : Inodes, pos : N]]]
        <3>1. handled' = [handled EXCEPT ![u][p] = None]
            BY <1>6
        <3> QED BY <1>2, <3>1 DEF ShapeOf
    <2>3. verified' \in [Uploads -> [Files -> C \union {None}]]
        <3>1. verified' = [verified EXCEPT ![u][p] = m.hash.sum[2]]
            BY <1>6
        <3> QED BY <1>2, <2>1, <3>1 DEF ShapeOf
    <2>4. scFiles' \in [Uploads -> SUBSET Files] /\ scDirs' \in [Uploads -> SUBSET Files]
        <3>1. \/ /\ scFiles' = [scFiles EXCEPT ![u] = scFiles[u] \union {p}]
                 /\ scDirs' = scDirs
              \/ /\ scDirs' = [scDirs EXCEPT ![u] = scDirs[u] \union {p}]
                 /\ scFiles' = scFiles
            BY <1>6
        <3>2. scFiles[u] \union {p} \in SUBSET Files /\ scDirs[u] \union {p} \in SUBSET Files
            BY <1>2 DEF ShapeOf
        <3>3. scFiles \in [Uploads -> SUBSET Files] /\ scDirs \in [Uploads -> SUBSET Files]
            BY DEF ShapeOf
        <3> QED BY <3>1, <3>2, <3>3
    <2> QED BY <1>6, <1>3, <2>2, <2>3, <2>4 DEF ShapeOf
<1> QED BY <1>4, <1>5, <1>6 DEF WriteFails, VerifyHash, UnspecifiedHash, Statuses

(* A process that dies leaves what its handlers had written. *)
LEMMA CrashTyping ==
    ASSUME NEW C, NEW N, ShapeOf(C, N), NEW u \in Uploads, NEW m, KeepsTo(u, m, C, N),
           UnknownHash(u, m)
    PROVE  ShapeOf(C, N)'
<1> DEFINE p == FileName(u, m)
<1>1. /\ p \in Files /\ handled[u][p] \in [ino : Inodes, pos : N] /\ Updated(u, m) \in C
    BY DEF UnknownHash, KeepsTo, IsOpenFileOf, Open, ShapeOf
<1>2. /\ data' = [data EXCEPT ![handled[u][p].ino] = Updated(u, m)] /\ UNCHANGED link
      /\ End({o \in Uploads : pc[o] \in Working}, "error")
      /\ stored' = stored \/ stored' = [k \in Keys |-> None]
    BY DEF UnknownHash, Write
<1> HIDE DEF p
<1>3. /\ data' \in [Inodes -> C] /\ link' \in [Files -> Inodes \union {None}]
      /\ stored' \in [Keys -> {None} \union RevisionsOf(C)]
    BY <1>1, <1>2 DEF ShapeOf
<1>4. "error" \in Statuses
    BY DEF Statuses
<1> QED BY <1>2, <1>3, <1>4, EndTyping

(* The first message, the last one, and those that are refused. *)
LEMMA OtherMessageTyping ==
    ASSUME NEW C, NEW N, ShapeOf(C, N), NEW u \in Uploads, NEW m, WellFormed(m),
           \/ CreateSchema(u, m) \/ NotCreateSchema(u, m) \/ NamelessFile(u, m)
           \/ Finalize(u, m) \/ UnexpectedMessage(u, m)
    PROVE  ShapeOf(C, N)'
<1>0. data \in [Inodes -> C]
    BY DEF ShapeOf
<1>1. CASE \E s \in Statuses : Return(u, s) /\ UNCHANGED <<files, stored>>
    BY <1>0, <1>1, ReturnTyping DEF files
<1>2. CASE \E s \in Statuses : CleanAndReturn(u, s) /\ UNCHANGED <<data, stored>>
    BY <1>0, <1>2, ReturnTyping
<1>3. CASE CreateSchema(u, m) /\ TakeOver(u, m.key)
           /\ key' = [key EXCEPT ![u] = m.key] /\ Goto(u, "clean") /\ m.key \in ValidKeys
           /\ UNCHANGED <<handled, scFiles, scDirs, rev, status, verified>>
    <2>1. m.key \in Keys /\ DirOf[m.key] \in Dirs
        BY <1>3, UploadAssumption
    <2>2. user' \in [Dirs -> Uploads \union {None}] /\ shared' \in SUBSET Dirs
        BY <1>3, <2>1 DEF TakeOver, ShapeOf
    <2>3. key' \in [Uploads -> Keys \union {None}] /\ pc' \in [Uploads -> {"first", "done"} \union Working]
        BY <1>3, <2>1 DEF Goto, Working, ShapeOf
    <2> QED BY <1>3, <2>2, <2>3 DEF CreateSchema, files, ShapeOf
<1>4. CASE Finalize(u, m) /\ Goto(u, "parse")
           /\ UNCHANGED <<link, key, handled, scFiles, scDirs, rev, status, verified, user, shared>>
    BY <1>4 DEF Finalize, Goto, Working, ShapeOf
<1> QED BY <1>1, <1>2, <1>3, <1>4
        DEF CreateSchema, NotCreateSchema, NamelessFile, Finalize, UnexpectedMessage, Statuses

(* The steps without a message. *)
LEMMA ProceedTyping ==
    ASSUME NEW C, NEW N, ShapeOf(C, N), NEW u \in Uploads,
           RecvFails(u) \/ Proceed(u)
    PROVE  ShapeOf(C, N)'
<1>0. data \in [Inodes -> C] /\ "error" \in Statuses
    BY DEF ShapeOf, Statuses
<1>1. CASE RecvFails(u)
    BY <1>0, <1>1, ReturnTyping DEF RecvFails, files
<1>2. CASE CleanDirectory(u)
    <2>1. CASE Return(u, "error") /\ UNCHANGED link
        BY <1>0, <1>2, <2>1, ReturnTyping DEF CleanDirectory
    <2>2. CASE RemoveAll(DirU(u)) /\ Goto(u, "recv")
               /\ UNCHANGED <<key, handled, scFiles, scDirs, rev, status, verified, user, shared>>
        <3>1. pc' \in [Uploads -> {"first", "done"} \union Working]
            BY <2>2 DEF Goto, Working, ShapeOf
        <3>2. link' \in [Files -> Inodes \union {None}]
            BY <2>2, RemoveAllTyping
        <3> QED BY <1>2, <2>2, <3>1, <3>2 DEF CleanDirectory, ShapeOf
    <2> QED BY <1>2, <2>1, <2>2 DEF CleanDirectory
<1>3. CASE NewSchema(u)
    <2> DEFINE modules == scFiles[u] \intersect Yang
               read == IF modules = {} THEN {}
                       ELSE {f \in modules \union (scDirs[u] \intersect Yang) : link[f] # None}
    <2>1. CASE CleanAndReturn(u, "error")
        BY <1>0, <1>3, <2>1, ReturnTyping DEF NewSchema
    <2>2. CASE /\ rev' = [rev EXCEPT ![u] = [f \in read |-> data[link[f]]]]
               /\ Goto(u, "add")
               /\ UNCHANGED <<link, key, handled, scFiles, scDirs, status, verified, user, shared>>
        <3>1. read \in SUBSET Files /\ \A f \in read : link[f] \in Inodes
            BY DEF ShapeOf
        <3>2. [f \in read |-> data[link[f]]] \in [read -> C]
            BY <3>1 DEF ShapeOf
        <3>3. [f \in read |-> data[link[f]]] \in RevisionsOf(C)
            BY <3>1, <3>2 DEF RevisionsOf
        <3> HIDE DEF read
        <3>4. rev' \in [Uploads -> {None} \union RevisionsOf(C)]
            BY <2>2, <3>3 DEF ShapeOf
        <3>5. pc' \in [Uploads -> {"first", "done"} \union Working]
            BY <2>2 DEF Goto, Working, ShapeOf
        <3> QED BY <1>3, <2>2, <3>4, <3>5 DEF NewSchema, ShapeOf
    <2> QED BY <1>3, <2>1, <2>2 DEF NewSchema, FindYangFiles
<1>4. CASE AddSchema(u)
    <2>1. CASE Return(u, "error") /\ UNCHANGED stored
        BY <1>0, <1>4, <2>1, ReturnTyping DEF AddSchema, files
    <2>2. CASE /\ stored' = [stored EXCEPT ![key[u]] = rev[u]]
               /\ Goto(u, "done")
               /\ status' = [status EXCEPT ![u] = "ok"]
               /\ UNCHANGED <<key, handled, scFiles, scDirs, rev, verified, user, shared>>
        <3>1. stored' \in [Keys -> {None} \union RevisionsOf(C)]
            BY <2>2 DEF ShapeOf
        <3>2. pc' \in [Uploads -> {"first", "done"} \union Working]
            BY <2>2 DEF Goto, ShapeOf
        <3>3. status' \in [Uploads -> Statuses \union {None}]
            BY <2>2 DEF ShapeOf, Statuses
        <3> QED BY <1>4, <2>2, <3>1, <3>2, <3>3 DEF AddSchema, files, ShapeOf
    <2> QED BY <1>4, <2>1, <2>2 DEF AddSchema
<1> QED BY <1>1, <1>2, <1>3, <1>4 DEF Proceed

(* The types, for any bounds the step keeps to. *)
LEMMA MessageTyping ==
    ASSUME NEW C, NEW N, <<>> \in C, 0 \in N, N \subseteq Nat, ShapeOf(C, N), NEW u \in Uploads,
           NEW m, WellFormed(m), KeepsTo(u, m, C, N), pc[u] \in Working => DirU(u) \in Dirs,
           CreateFileWithDir(u, m) \/ Consume(u, m)
    PROVE  ShapeOf(C, N)'
<1>1. CreateFileWithDir(u, m) => DirU(u) \in Dirs
    BY DEF CreateFileWithDir, IsFileOf, Working
<1> QED BY <1>1, CreateFileTyping, WriteTyping, OtherMessageTyping DEF Consume

(* Another request deletes a schema. *)
LEMMA DeleteTyping ==
    ASSUME NEW C, NEW N, ShapeOf(C, N), NEW k \in Keys, DeleteSchema(k)
    PROVE  ShapeOf(C, N)'
BY DEF DeleteSchema, files, server, ShapeOf

-----------------------------------------------------------------------------
(* What one handler's step does to the files and to the other handlers *)

(* A handler's directory, once it has one. *)
LEMMA DirUIsDir ==
    ASSUME NEW u \in Uploads, HandlerOK(u), Active(u)
    PROVE  DirU(u) \in Dirs
BY UploadAssumption DEF HandlerOK, DirU

(* Unlinking and closing files keeps paths and inodes apart. *)
LEMMA LinksShrink ==
    ASSUME Links,
           \A f \in Files : link'[f] = None \/ link'[f] = link[f],
           \A o \in Uploads, f \in Files :
               handled'[o][f] # None =>
                   /\ handled[o][f] # None /\ handled'[o][f].ino = handled[o][f].ino
                   /\ handled'[o][f].ino # None
    PROVE  Links'
<1>1. ASSUME NEW f \in Files, NEW g \in Files, link'[f] # None, link'[f] = link'[g]
      PROVE  f = g
    BY <1>1 DEF Links
<1>2. ASSUME NEW f \in Files, NEW o \in Uploads, NEW g \in Files,
             handled'[o][g] # None, link'[f] = handled'[o][g].ino
      PROVE  f = g
    BY <1>2 DEF Links
<1> QED BY <1>1, <1>2 DEF Links

(* The variables of the handlers other than u. *)
OthersSame(u) ==
    \A o \in Uploads \ {u} :
        /\ pc'[o] = pc[o] /\ key'[o] = key[o] /\ handled'[o] = handled[o]
        /\ scFiles'[o] = scFiles[o] /\ scDirs'[o] = scDirs[o] /\ rev'[o] = rev[o]
        /\ status'[o] = status[o] /\ verified'[o] = verified[o]

(* A step of u touches no file that is linked in a directory it does not   *)
(* work in, unless it says so in shared.                                   *)
OnlyOwnFiles(u) ==
    \A f \in Files :
        ~ WorksIn(u, In[f]) /\ In[f] \notin shared' =>
            /\ link'[f] = link[f]
            /\ link[f] # None => data'[link[f]] = data[link[f]]

(* Where a handler works is its own affair. *)
LEMMA WorksInSame ==
    ASSUME NEW o, NEW d, pc'[o] = pc[o], key'[o] = key[o], handled'[o] = handled[o]
    PROVE  WorksIn(o, d)' <=> WorksIn(o, d)
BY DEF WorksIn, DirU, Open

(* A step leaves an upload undisturbed that keeps its own variables, its   *)
(* files and its directory.                                                *)
LEMMA KeepsOwnFiles ==
    ASSUME FilesInv, NEW o \in Uploads, user' = user, shared \subseteq shared',
           /\ key'[o] = key[o] /\ handled'[o] = handled[o]
           /\ scFiles'[o] = scFiles[o] /\ scDirs'[o] = scDirs[o] /\ rev'[o] = rev[o]
           /\ verified'[o] = verified[o],
           pc'[o] = pc[o], status'[o] = status[o],
           Active(o) /\ Alone(o) /\ DirU(o) \notin shared' =>
               /\ \A v \in Uploads \ {o} : ~ WorksIn(v, DirU(o))'
               /\ \A f \in Files : In[f] = DirU(o) =>
                     /\ link'[f] = link[f]
                     /\ link[f] # None => data'[link[f]] = data[link[f]]
    PROVE  HandlerOK(o)' /\ Undisturbed(o)'
<1>1. HandlerOK(o) /\ Undisturbed(o) /\ scFiles[o] \union scDirs[o] \subseteq Files
    BY DEF FilesInv, Shape, ShapeOf
<1>2. HandlerOK(o)'
    BY <1>1 DEF HandlerOK, Active, Accepted
<1>3. ASSUME Active(o)', Alone(o)'
      PROVE  OwnFiles(o)'
    <2>1. Active(o) /\ Alone(o) /\ DirU(o)' = DirU(o) /\ DirU(o) \notin shared'
        BY <1>3 DEF Active, Alone, DirU
    <2>2. OwnFiles(o)
        BY <1>1, <2>1 DEF Undisturbed
    <2>3. \A v \in Uploads \ {o} : ~ WorksIn(v, DirU(o))'
        BY <2>1
    <2>4. \A f \in Files : handled'[o][f] # None =>
              In[f] = DirU(o)' /\ link'[f] = handled'[o][f].ino
        BY <2>1, <2>2 DEF OwnFiles
    <2>5. \A f \in scFiles'[o] \union scDirs'[o] :
              /\ In[f] = DirU(o)'
              /\ handled'[o][f] = None => link'[f] # None /\ data'[link'[f]] = verified'[o][f]
        BY <1>1, <2>1, <2>2 DEF OwnFiles
    <2>6. /\ Accepted(o)' => \A f \in DOMAIN rev'[o] : rev'[o][f] = verified'[o][f]
          /\ Accepted(o)' /\ scFiles'[o] \intersect Yang # {} =>
                DOMAIN rev'[o] = (scFiles'[o] \union scDirs'[o]) \intersect Yang
        BY <2>2 DEF OwnFiles, Accepted
    <2> QED BY <2>3, <2>4, <2>5, <2>6 DEF OwnFiles
<1> QED BY <1>2, <1>3 DEF Undisturbed

(* Such a step, by a handler that does not take a directory over, leaves   *)
(* everybody else undisturbed.                                             *)
LEMMA OthersUndisturbed ==
    ASSUME FilesInv, NEW u \in Uploads, OthersSame(u), OnlyOwnFiles(u),
           user' = user, shared \subseteq shared',
           \A d \in Dirs : WorksIn(u, d)' => WorksIn(u, d) \/ d \in shared'
    PROVE  \A o \in Uploads \ {u} : HandlerOK(o)' /\ Undisturbed(o)'
<1> SUFFICES ASSUME NEW o \in Uploads \ {u}
             PROVE  HandlerOK(o)' /\ Undisturbed(o)'
    OBVIOUS
<1>1. /\ pc'[o] = pc[o] /\ key'[o] = key[o] /\ handled'[o] = handled[o]
      /\ scFiles'[o] = scFiles[o] /\ scDirs'[o] = scDirs[o] /\ rev'[o] = rev[o]
      /\ status'[o] = status[o] /\ verified'[o] = verified[o]
    BY DEF OthersSame
<1>2. ASSUME Active(o), Alone(o), DirU(o) \notin shared'
      PROVE  /\ \A v \in Uploads \ {o} : ~ WorksIn(v, DirU(o))'
             /\ \A f \in Files : In[f] = DirU(o) =>
                   /\ link'[f] = link[f]
                   /\ link[f] # None => data'[link[f]] = data[link[f]]
    <2>1. OwnFiles(o) /\ DirU(o) \in Dirs
        BY <1>2, DirUIsDir DEF FilesInv, Undisturbed
    <2>2. DirU(o)' = DirU(o)
        BY <1>1 DEF DirU
    <2>3. ASSUME NEW v \in Uploads \ {o}
          PROVE  ~ WorksIn(v, DirU(o))'
        <3>1. ~ WorksIn(v, DirU(o))
            BY <2>1 DEF OwnFiles
        <3>2. PICK d \in Dirs : d = DirU(o)
            BY <2>1
        <3>3. ~ WorksIn(v, d)'
            <4>1. CASE v = u
                BY <1>2, <3>1, <3>2, <4>1
            <4>2. CASE v # u
                <5>1. pc'[v] = pc[v] /\ key'[v] = key[v] /\ handled'[v] = handled[v]
                    BY <4>2 DEF OthersSame
                <5> QED BY <3>1, <3>2, <5>1, WorksInSame
            <4> QED BY <4>1, <4>2
        <3> QED BY <2>2, <3>2, <3>3 DEF WorksIn
    <2>4. ~ WorksIn(u, DirU(o))
        BY <2>1 DEF OwnFiles
    <2> QED BY <1>2, <2>3, <2>4 DEF OnlyOwnFiles
<1> QED BY <1>1, <1>2, KeepsOwnFiles

(* It empties its directory or leaves it, and writes to one open file or   *)
(* none.                                                                   *)
FileStep(u) ==
    /\ link' = link \/ (pc[u] \in Working /\ RemoveAll(DirU(u)))
    /\ \/ data' = data
       \/ \E f \in Files, c \in Texts :
             /\ handled[u][f] # None
             /\ data' = [data EXCEPT ![handled[u][f].ino] = c]

(* Emptying its own directory and writing to a file it has open is all a   *)
(* working handler does to what is there.                                  *)
LEMMA FilesLeft ==
    ASSUME FilesInv, NEW u \in Uploads, FileStep(u), NEW g \in Files, ~ WorksIn(u, In[g])
    PROVE  /\ link'[g] = link[g]
           /\ link[g] # None => data'[link[g]] = data[link[g]]
<1>1. link'[g] = link[g]
    <2>1. CASE link' = link
        BY <2>1
    <2>2. CASE pc[u] \in Working /\ RemoveAll(DirU(u))
        BY <2>2 DEF RemoveAll, WorksIn
    <2> QED BY <2>1, <2>2 DEF FileStep
<1>2. ASSUME NEW f \in Files, NEW c, handled[u][f] # None, link[g] # None,
             data' = [data EXCEPT ![handled[u][f].ino] = c]
      PROVE  data'[link[g]] = data[link[g]]
    <2>1. pc[u] \in Working
        BY <1>2 DEF FilesInv, HandlerOK, Working
    <2>2. f # g
        BY <1>2, <2>1 DEF WorksIn, Open
    <2>3. link[g] # handled[u][f].ino
        BY <1>2, <2>2 DEF FilesInv, Links
    <2>4. link[g] \in Inodes /\ data \in [Inodes -> Texts]
        BY <1>2 DEF FilesInv, Shape, ShapeOf
    <2> QED BY <1>2, <2>3, <2>4
<1> QED BY <1>1, <1>2 DEF FileStep

LEMMA OwnFilesOnly ==
    ASSUME FilesInv, NEW u \in Uploads, FileStep(u)
    PROVE  OnlyOwnFiles(u)
BY FilesLeft DEF OnlyOwnFiles

(* The invariant but for the types. *)
Safe == Links /\ \A o \in Uploads : HandlerOK(o) /\ Undisturbed(o)

(* A handler that does not touch the files. *)
LEMMA LeavesFiles ==
    ASSUME NEW u, UNCHANGED files
    PROVE  FileStep(u)
<1>1. link' = link /\ data' = data
    BY DEF files
<1> QED BY <1>1 DEF FileStep

(* A step of u unlinks files or leaves them. *)
LEMMA FileStepLinks ==
    ASSUME NEW u, FileStep(u)
    PROVE  \A f \in Files : link'[f] = None \/ link'[f] = link[f]
BY DEF FileStep, RemoveAll

(* Handlers that end with an error leave the others undisturbed and have   *)
(* nothing left to answer for.                                             *)
LEMMA EndSafe ==
    ASSUME FilesInv, NEW u \in Uploads, NEW O, u \in O, NEW s \in Statuses, s # "ok",
           End(O, s), FileStep(u), \A o \in O : pc[o] # "done"
    PROVE  Safe'
<1>1. ASSUME NEW o \in Uploads, o \in O
      PROVE  pc'[o] = "done" /\ status'[o] = s /\ \A f \in Files : handled'[o][f] = None
    BY <1>1 DEF End
<1>2. ASSUME NEW o \in Uploads, o \notin O
      PROVE  /\ pc'[o] = pc[o] /\ key'[o] = key[o] /\ handled'[o] = handled[o]
             /\ scFiles'[o] = scFiles[o] /\ scDirs'[o] = scDirs[o] /\ rev'[o] = rev[o]
             /\ status'[o] = status[o] /\ verified'[o] = verified[o]
    BY <1>2 DEF End
<1>3. UNCHANGED <<key, user, shared>>
    BY DEF End
<1>4. Links'
    <2>1. ASSUME NEW o \in Uploads, NEW f \in Files, handled'[o][f] # None
          PROVE  /\ handled[o][f] # None /\ handled'[o][f].ino = handled[o][f].ino
                 /\ handled'[o][f].ino # None
        <3>1. handled'[o] = handled[o] /\ handled[o][f] # None
            BY <1>1, <1>2, <2>1
        <3>2. handled[o][f] \in [ino : Inodes, pos : Nat]
            BY <3>1 DEF FilesInv, Shape, ShapeOf
        <3> QED BY <3>1, <3>2, UploadAssumption
    <2> QED BY <2>1, FileStepLinks, LinksShrink DEF FilesInv
<1>5. ASSUME NEW o \in Uploads
      PROVE  HandlerOK(o)' /\ Undisturbed(o)'
    <2>1. CASE o \in O
        BY <1>1, <2>1 DEF HandlerOK, Undisturbed, Active, Accepted, Working
    <2>2. CASE o \notin O
        <3>1. ASSUME Active(o), Alone(o)
              PROVE  /\ \A v \in Uploads \ {o} : ~ WorksIn(v, DirU(o))'
                     /\ \A f \in Files : In[f] = DirU(o) =>
                           /\ link'[f] = link[f]
                           /\ link[f] # None => data'[link[f]] = data[link[f]]
            <4>1. OwnFiles(o) /\ o # u
                BY <3>1, <2>2 DEF FilesInv, Undisturbed
            <4>2. DirU(o)' = DirU(o)
                BY <1>3 DEF DirU
            <4>3. ASSUME NEW v \in Uploads \ {o}
                  PROVE  ~ WorksIn(v, DirU(o))'
                <5>1. PICK d : d = DirU(o)
                    OBVIOUS
                <5>2. ~ WorksIn(v, d)
                    BY <4>1, <5>1 DEF OwnFiles
                <5>3. ~ WorksIn(v, d)'
                    <6>1. CASE v \in O
                        BY <1>1, <6>1 DEF WorksIn, Working
                    <6>2. CASE v \notin O
                        BY <1>2, <5>2, <6>2, WorksInSame
                    <6> QED BY <6>1, <6>2
                <5> QED BY <4>2, <5>1, <5>3 DEF WorksIn
            <4>4. ~ WorksIn(u, DirU(o))
                BY <4>1 DEF OwnFiles
            <4> QED BY <4>3, <4>4, FilesLeft
        <3> QED BY <1>2, <1>3, <2>2, <3>1, KeepsOwnFiles
    <2> QED BY <2>1, <2>2
<1> QED BY <1>4, <1>5 DEF Safe

(* One of them. *)
LEMMA ReturnSafe ==
    ASSUME FilesInv, NEW u \in Uploads, NEW s \in Statuses, s # "ok", Return(u, s),
           FileStep(u), pc[u] # "done"
    PROVE  Safe'
<1>1. End({u}, s) /\ u \in {u} /\ \A o \in {u} : pc[o] # "done"
    BY DEF Return
<1> QED BY <1>1, EndSafe

(* ... having cleaned its directory. *)
LEMMA CleanAndReturnSafe ==
    ASSUME FilesInv, NEW u \in Uploads, NEW s \in Statuses, s # "ok", CleanAndReturn(u, s),
           pc[u] \in Working,
           \/ data' = data
           \/ \E f \in Files, c \in Texts :
                 /\ handled[u][f] # None
                 /\ data' = [data EXCEPT ![handled[u][f].ino] = c]
    PROVE  Safe'
<1>1. FileStep(u) /\ Return(u, s) /\ pc[u] # "done"
    BY DEF FileStep, CleanAndReturn, Working
<1> QED BY <1>1, ReturnSafe

-----------------------------------------------------------------------------
(* The steps of a handler that goes on *)

(* A step that is the handler's own business: what is left to show is what *)
(* it means for itself.                                                    *)
LEMMA OwnStep ==
    ASSUME FilesInv, NEW u \in Uploads, OthersSame(u), user' = user, shared' = shared,
           pc[u] \in Working, key'[u] = key[u],
           FileStep(u),
           \A f \in Files : handled'[u][f] # None =>
               /\ handled[u][f] # None /\ handled'[u][f].ino = handled[u][f].ino,
           HandlerOK(u)', Undisturbed(u)'
    PROVE  Safe'
<1>1. ASSUME NEW o \in Uploads, NEW f \in Files, handled'[o][f] # None
      PROVE  /\ handled[o][f] # None /\ handled'[o][f].ino = handled[o][f].ino
             /\ handled'[o][f].ino # None
    <2>1. handled[o][f] # None /\ handled'[o][f].ino = handled[o][f].ino
        BY <1>1 DEF OthersSame
    <2>2. handled[o][f] \in [ino : Inodes, pos : Nat]
        BY <2>1 DEF FilesInv, Shape, ShapeOf
    <2> QED BY <2>1, <2>2, UploadAssumption
<1>2. Links'
    BY <1>1, FileStepLinks, LinksShrink DEF FilesInv
<1>3. \A d \in Dirs : WorksIn(u, d)' => WorksIn(u, d)
    BY <1>1 DEF WorksIn, DirU, Open
<1>4. \A o \in Uploads \ {u} : HandlerOK(o)' /\ Undisturbed(o)'
    BY <1>3, OwnFilesOnly, OthersUndisturbed
<1> QED BY <1>2, <1>4 DEF Safe

(* A handler that takes a directory over disturbs who was there, and says  *)
(* so in user and shared.                                                  *)
LEMMA TakeOverSafe ==
    ASSUME FilesInv, NEW u \in Uploads, NEW k \in Keys, pc[u] = "first",
           key' = [key EXCEPT ![u] = k], TakeOver(u, k), Goto(u, "clean"),
           UNCHANGED <<handled, scFiles, scDirs, rev, status, verified, files>>
    PROVE  Safe'
<1>1. /\ link' = link /\ data' = data /\ key'[u] = k /\ pc'[u] = "clean"
      /\ OthersSame(u) /\ DirU(u)' = DirOf[k] /\ DirOf[k] \in Dirs
      /\ \A o \in Uploads \ {u} : DirU(o)' = DirU(o)
    BY UploadAssumption DEF files, Goto, OthersSame, DirU, FilesInv, Shape, ShapeOf
<1>2. \A f \in Files : handled[u][f] = None
    BY DEF FilesInv, HandlerOK
<1>3. scFiles[u] = {} /\ scDirs[u] = {} /\ status[u] # "ok"
    BY DEF FilesInv, HandlerOK
<1>4. Links'
    BY <1>1 DEF FilesInv, Links
<1>5. HandlerOK(u)'
    BY <1>1, <1>2, <1>3 DEF HandlerOK, Active, Accepted
<1>6. Undisturbed(u)'
    <2> SUFFICES ASSUME Alone(u)'
                 PROVE  \A o \in Uploads \ {u} : ~ WorksIn(o, DirU(u))'
        BY <1>1, <1>2, <1>3 DEF Undisturbed, OwnFiles, Accepted
    <2>1. DirOf[k] \notin shared'
        BY <1>1 DEF Alone
    <2>2. \A o \in Uploads \ {u} : ~ WorksIn(o, DirOf[k])
        BY <2>1 DEF TakeOver
    <2>3. ASSUME NEW o \in Uploads \ {u}
          PROVE  ~ WorksIn(o, DirU(u))'
        <3>1. pc'[o] = pc[o] /\ key'[o] = key[o] /\ handled'[o] = handled[o]
            BY <1>1 DEF OthersSame
        <3>2. ~ WorksIn(o, DirOf[k])'
            BY <2>2, <3>1, WorksInSame
        <3> QED BY <1>1, <3>2 DEF WorksIn
    <2> QED BY <2>3
<1>7. ASSUME NEW o \in Uploads \ {u}
      PROVE  HandlerOK(o)' /\ Undisturbed(o)'
    <2>1. /\ pc'[o] = pc[o] /\ key'[o] = key[o] /\ handled'[o] = handled[o]
          /\ scFiles'[o] = scFiles[o] /\ scDirs'[o] = scDirs[o] /\ rev'[o] = rev[o]
          /\ status'[o] = status[o] /\ verified'[o] = verified[o]
          /\ HandlerOK(o) /\ Undisturbed(o)
        BY <1>1 DEF OthersSame, FilesInv
    <2>2. HandlerOK(o)'
        BY <2>1 DEF HandlerOK, Active, Accepted
    <2>3. ASSUME Active(o)', Alone(o)'
          PROVE  Active(o) /\ Alone(o) /\ DirU(o) # DirOf[k]
        <3>1. Active(o) /\ DirU(o) \in Dirs
            BY <2>1, <2>3, DirUIsDir DEF Active
        <3>2. user'[DirU(o)] = o /\ DirU(o) \notin shared'
            BY <1>1, <2>3 DEF Alone
        <3>3. DirU(o) # DirOf[k]
            BY <1>1, <3>2 DEF TakeOver, FilesInv, Shape, ShapeOf
        <3>4. user[DirU(o)] = o /\ DirU(o) \notin shared
            BY <3>1, <3>2, <3>3 DEF TakeOver, FilesInv, Shape, ShapeOf
        <3> QED BY <3>1, <3>3, <3>4 DEF Alone
    <2>4. ASSUME Active(o)', Alone(o)'
          PROVE  OwnFiles(o)'
        <3>1. OwnFiles(o) /\ DirU(o) # DirOf[k] /\ DirU(o)' = DirU(o)
            BY <1>1, <2>1, <2>3, <2>4 DEF Undisturbed
        <3>2. ASSUME NEW v \in Uploads \ {o}
              PROVE  ~ WorksIn(v, DirU(o))'
            <4>1. PICK d : d = DirU(o)
                OBVIOUS
            <4>2. ~ WorksIn(v, d)
                BY <3>1, <4>1 DEF OwnFiles
            <4>3. ~ WorksIn(v, d)'
                <5>1. CASE v = u
                    BY <1>1, <1>2, <3>1, <4>1, <5>1 DEF WorksIn, Open
                <5>2. CASE v # u
                    BY <1>1, <4>2, <5>2, WorksInSame DEF OthersSame
                <5> QED BY <5>1, <5>2
            <4> QED BY <3>1, <4>1, <4>3 DEF WorksIn
        <3> QED BY <1>1, <2>1, <3>1, <3>2 DEF OwnFiles, Accepted
    <2> QED BY <2>2, <2>4 DEF Undisturbed
<1> QED BY <1>4, <1>5, <1>6, <1>7 DEF Safe

(* The first message. *)
LEMMA CreateSchemaSafe ==
    ASSUME FilesInv, NEW u \in Uploads, NEW m, WellFormed(m), CreateSchema(u, m)
    PROVE  Safe'
<1>1. CASE \E s \in Statuses \ {"ok"} : Return(u, s) /\ UNCHANGED files
    <2>1. PICK s \in Statuses \ {"ok"} : Return(u, s) /\ UNCHANGED files
        BY <1>1
    <2>2. pc[u] # "done"
        BY DEF CreateSchema
    <2> QED BY <2>1, <2>2, LeavesFiles, ReturnSafe
<1>2. CASE /\ pc[u] = "first" /\ m.key \in ValidKeys
           /\ key' = [key EXCEPT ![u] = m.key] /\ TakeOver(u, m.key) /\ Goto(u, "clean")
           /\ UNCHANGED <<handled, scFiles, scDirs, rev, status, verified, files>>
    <2>1. m.key \in Keys
        BY <1>2, UploadAssumption
    <2> QED BY <1>2, <2>1, TakeOverSafe
<1> QED BY <1>1, <1>2 DEF CreateSchema, Statuses

(* Opening a file: the inode is the one under the path or one nobody uses, *)
(* so that no other path leads to it.                                      *)
CreatedAs(u, p, i) ==
    /\ UNCHANGED <<pc, key, scFiles, scDirs, rev, status, verified, user, stored>>
    /\ shared' = IF In[p] = DirU(u) THEN shared ELSE shared \union {DirU(u), In[p]}
    /\ i # None /\ data'[i] = <<>>
    /\ \A f \in Files : link[f] = i => f = p
    /\ \A o \in Uploads, g \in Files : handled[o][g] # None /\ handled[o][g].ino = i => g = p
    /\ \A f \in Files : link'[f] = IF f = p THEN i ELSE link[f]
    /\ \A j \in Inodes : j # i => data'[j] = data[j]
    /\ \A o \in Uploads, g \in Files :
          handled'[o][g] = IF o = u /\ g = p THEN [ino |-> i, pos |-> 0] ELSE handled[o][g]

(* A file that could be created is so created, and nothing else changes. *)
LEMMA CreatedFile ==
    ASSUME FilesInv, NEW u \in Uploads, NEW m, WellFormed(m), CreateFileWithDir(u, m),
           ~ (Return(u, "error") /\ UNCHANGED files)
    PROVE  /\ \E i \in Inodes : CreatedAs(u, FileName(u, m), i)
           /\ OthersSame(u) /\ OnlyOwnFiles(u)
           /\ FileName(u, m) \in Files /\ pc[u] = "recv" /\ DirU(u) \in Dirs
           /\ handled[u][FileName(u, m)] = None
<1> DEFINE p == FileName(u, m)
           free == Inodes \ InUse
           i == IF link[p] # None THEN link[p] ELSE CHOOSE j \in free : TRUE
<1>1. /\ link[p] # None \/ free # {}
      /\ link' = [link EXCEPT ![p] = i]
      /\ data' = [data EXCEPT ![i] = <<>>]
      /\ handled' = [handled EXCEPT ![u][p] = [ino |-> i, pos |-> 0]]
      /\ shared' = IF In[p] = DirU(u) THEN shared ELSE shared \union {DirU(u), In[p]}
      /\ UNCHANGED <<pc, key, scFiles, scDirs, rev, status, verified, user, stored>>
    BY DEF CreateFileWithDir
<1>2. pc[u] = "recv" /\ HandlerOK(u) /\ Links /\ Shape /\ IsFileOf(u, m)
    BY DEF CreateFileWithDir, IsFileOf, FilesInv
<1>3. DirU(u) \in Dirs
    BY <1>2, DirUIsDir DEF Active, Working
<1>4. p \in Files /\ handled[u][p] = None
    <2>1. p \in Files
        BY <1>2, <1>3, FileNameIsFile
    <2> QED BY <2>1 DEF CreateFileWithDir, Open
<1> HIDE DEF p
<1>5. /\ i \in Inodes /\ i # None
      /\ \A f \in Files : link[f] = i => f = p
      /\ \A o \in Uploads, g \in Files : handled[o][g] # None /\ handled[o][g].ino = i => g = p
    <2>1. CASE link[p] # None
        <3>1. i = link[p] /\ link[p] \in Inodes
            BY <2>1, <1>2, <1>4 DEF Shape, ShapeOf
        <3>2. \A f \in Files : link[f] = link[p] => f = p
            BY <2>1, <1>2, <1>4 DEF Links
        <3>3. \A o \in Uploads, g \in Files :
                 handled[o][g] # None /\ handled[o][g].ino = link[p] => g = p
            BY <1>2, <1>4 DEF Links
        <3> QED BY <3>1, <3>2, <3>3, <2>1
    <2>2. CASE link[p] = None
        <3>1. (CHOOSE j \in free : TRUE) \in free
            BY <2>2, <1>1
        <3>2. i \in free
            BY <3>1, <2>2
        <3> HIDE DEF i
        <3>3. \A f \in Files : link[f] # i
            BY <3>2 DEF InUse
        <3>4. \A o \in Uploads, g \in Files : handled[o][g] # None => handled[o][g].ino # i
            <4> SUFFICES ASSUME NEW o \in Uploads, NEW g \in Files, handled[o][g] # None
                         PROVE  handled[o][g].ino \in InUse
                BY <3>2
            <4>1. g \in Open(o)
                BY DEF Open
            <4>2. handled[o][g].ino \in {handled[o][f].ino : f \in Open(o)}
                BY <4>1
            <4>3. handled[o][g].ino \in
                     UNION {{handled[v][f].ino : f \in Open(v)} : v \in Uploads}
                BY <4>2
            <4> QED BY <4>3 DEF InUse
        <3> QED BY <3>2, <3>3, <3>4, UploadAssumption
    <2> QED BY <2>1, <2>2
<1> HIDE DEF i, free
<1>6. CreatedAs(u, p, i)
    <2>1. /\ \A f \in Files : link'[f] = IF f = p THEN i ELSE link[f]
          /\ \A j \in Inodes : j # i => data'[j] = data[j]
          /\ data'[i] = <<>>
          /\ \A o \in Uploads, g \in Files :
                handled'[o][g] = IF o = u /\ g = p THEN [ino |-> i, pos |-> 0] ELSE handled[o][g]
        BY <1>1, <1>2, <1>4, <1>5 DEF Shape, ShapeOf
    <2> QED BY <1>1, <1>5, <2>1 DEF CreatedAs
<1>7. OthersSame(u)
    <2>1. handled \in [Uploads -> [Files -> {None} \union [ino : Inodes, pos : Nat]]]
        BY <1>2 DEF Shape, ShapeOf
    <2>2. \A o \in Uploads \ {u} : handled'[o] = handled[o]
        BY <1>1, <2>1
    <2> QED BY <1>1, <2>2 DEF OthersSame
<1>8. OnlyOwnFiles(u)
    <2> SUFFICES ASSUME NEW f \in Files, ~ WorksIn(u, In[f]), In[f] \notin shared'
                 PROVE  /\ link'[f] = link[f]
                        /\ link[f] # None => data'[link[f]] = data[link[f]]
        BY DEF OnlyOwnFiles
    <2>1. link[f] \in Inodes \union {None}
        BY <1>2 DEF Shape, ShapeOf
    <2>2. f # p
        BY <1>1, <1>2 DEF WorksIn, Working
    <2> QED BY <2>1, <2>2, <1>5, <1>6 DEF CreatedAs
<1> QED BY <1>2, <1>3, <1>4, <1>5, <1>6, <1>7, <1>8 DEF p

(* Opening a file disturbs nobody who is still alone. *)
LEMMA CreateFileSafe ==
    ASSUME FilesInv, NEW u \in Uploads, NEW m, WellFormed(m), CreateFileWithDir(u, m)
    PROVE  Safe'
<1>1. CASE Return(u, "error") /\ UNCHANGED files
    BY <1>1, LeavesFiles, ReturnSafe DEF Statuses, CreateFileWithDir, IsFileOf
<1>2. CASE ~ (Return(u, "error") /\ UNCHANGED files)
    <2> DEFINE p == FileName(u, m)
    <2>0. PICK i \in Inodes : CreatedAs(u, p, i)
        BY <1>2, CreatedFile
    <2>1. /\ UNCHANGED <<pc, key, scFiles, scDirs, rev, status, verified, user, stored>>
          /\ shared' = IF In[p] = DirU(u) THEN shared ELSE shared \union {DirU(u), In[p]}
        BY <2>0 DEF CreatedAs
    <2>2. /\ p \in Files /\ pc[u] = "recv" /\ handled[u][p] = None /\ DirU(u) \in Dirs
          /\ HandlerOK(u) /\ Undisturbed(u) /\ Links /\ Shape
          /\ OthersSame(u) /\ OnlyOwnFiles(u)
        BY <1>2, CreatedFile DEF FilesInv
    <2>4. /\ i \in Inodes /\ i # None
          /\ \A f \in Files : link[f] = i => f = p
          /\ \A o \in Uploads, g \in Files :
                handled[o][g] # None /\ handled[o][g].ino = i => g = p
        BY <2>0 DEF CreatedAs
    <2>5. /\ \A f \in Files : link'[f] = IF f = p THEN i ELSE link[f]
          /\ \A j \in Inodes : j # i => data'[j] = data[j]
          /\ \A o \in Uploads, g \in Files :
                handled'[o][g] = IF o = u /\ g = p THEN [ino |-> i, pos |-> 0] ELSE handled[o][g]
        BY <2>0 DEF CreatedAs
    <2> HIDE DEF p
    <2>6. \A o \in Uploads : DirU(o)' = DirU(o)
        BY <2>1 DEF DirU
    <2>7. [ino |-> i, pos |-> 0] # None /\ [ino |-> i, pos |-> 0].ino = i
        BY <2>4, UploadAssumption
    <2>8. Links'
        <3>1. ASSUME NEW f \in Files, NEW g \in Files, link'[f] # None, link'[f] = link'[g]
              PROVE  f = g
            BY <3>1, <2>2, <2>4, <2>5 DEF Links
        <3>2. ASSUME NEW f \in Files, NEW o \in Uploads, NEW g \in Files,
                     handled'[o][g] # None, link'[f] = handled'[o][g].ino
              PROVE  f = g
            <4>1. CASE o = u /\ g = p
                BY <4>1, <3>2, <2>4, <2>5, <2>7
            <4>2. CASE ~ (o = u /\ g = p)
                BY <4>2, <3>2, <2>2, <2>4, <2>5 DEF Links
            <4> QED BY <4>1, <4>2
        <3> QED BY <3>1, <3>2 DEF Links
    <2>10. \A d \in Dirs : WorksIn(u, d)' => WorksIn(u, d) \/ d \in shared'
        BY <2>1, <2>2, <2>5, <2>6 DEF WorksIn, Open, Working
    <2>11. \A o \in Uploads \ {u} : HandlerOK(o)' /\ Undisturbed(o)'
        BY <2>1, <2>2, <2>10, OthersUndisturbed
    <2>12. HandlerOK(u)'
        BY <2>1, <2>2, <2>5 DEF HandlerOK, Active, Accepted
    <2>13. ASSUME Active(u)', Alone(u)'
           PROVE  OwnFiles(u)'
        <3>1. Active(u) /\ Alone(u) /\ In[p] = DirU(u)
            BY <2>1, <2>2, <2>6, <2>13 DEF Active, Alone
        <3>2. OwnFiles(u)
            BY <2>2, <3>1 DEF Undisturbed
        <3>3. \A v \in Uploads \ {u} : ~ WorksIn(v, DirU(u))'
            BY <2>1, <2>2, <2>6, <3>2 DEF OwnFiles, OthersSame, WorksIn, Open
        <3>4. \A f \in Files : handled'[u][f] # None =>
                  In[f] = DirU(u)' /\ link'[f] = handled'[u][f].ino
            BY <2>2, <2>5, <2>6, <2>7, <3>1, <3>2 DEF OwnFiles
        <3>5. ASSUME NEW f \in scFiles'[u] \union scDirs'[u]
              PROVE  /\ In[f] = DirU(u)'
                     /\ handled'[u][f] = None =>
                           link'[f] # None /\ data'[link'[f]] = verified'[u][f]
            <4>1. f \in Files /\ f \in scFiles[u] \union scDirs[u]
                BY <2>1, <2>2 DEF Shape, ShapeOf
            <4>2. handled'[u][f] = None => f # p /\ handled[u][f] = None
                BY <4>1, <2>5, <2>7
            <4>3. In[f] = DirU(u)'
                BY <2>6, <3>2, <4>1 DEF OwnFiles
            <4>4. ASSUME f # p, handled[u][f] = None
                  PROVE  link'[f] # None /\ data'[link'[f]] = verified[u][f]
                <5>1. link[f] # None /\ data[link[f]] = verified[u][f]
                    BY <4>1, <4>4, <3>2 DEF OwnFiles
                <5>2. link[f] \in Inodes /\ link[f] # i /\ link'[f] = link[f]
                    BY <4>1, <4>4, <5>1, <2>2, <2>4, <2>5 DEF Shape, ShapeOf
                <5> QED BY <5>1, <5>2, <2>5
            <4> QED BY <2>1, <4>2, <4>3, <4>4
        <3>6. ~ Accepted(u)'
            BY <2>1, <2>2 DEF Accepted, HandlerOK
        <3> QED BY <3>3, <3>4, <3>5, <3>6 DEF OwnFiles
    <2> QED BY <2>8, <2>11, <2>12, <2>13 DEF Safe, Undisturbed
<1> QED BY <1>1, <1>2

(* The file of a message that u has open. *)
LEMMA OpenFile ==
    ASSUME FilesInv, NEW u \in Uploads, NEW m, IsOpenFileOf(u, m)
    PROVE  /\ FileName(u, m) \in Files /\ pc[u] = "recv" /\ pc[u] \in Working
           /\ handled[u][FileName(u, m)] # None
           /\ handled[u][FileName(u, m)] \in [ino : Inodes, pos : Nat]
           /\ HandlerOK(u) /\ Undisturbed(u) /\ Active(u) /\ DirU(u) \in Dirs
           /\ status[u] # "ok"
<1> DEFINE p == FileName(u, m)
<1>1. /\ p \in Files /\ handled[u][p] # None /\ pc[u] = "recv"
      /\ HandlerOK(u) /\ Undisturbed(u)
    BY DEF IsOpenFileOf, IsFileOf, Open, FilesInv
<1>2. pc[u] \in Working /\ Active(u) /\ status[u] # "ok"
    BY <1>1 DEF Working, Active, HandlerOK
<1> HIDE DEF p
<1>3. handled[u][p] \in [ino : Inodes, pos : Nat]
    BY <1>1 DEF FilesInv, Shape, ShapeOf
<1> QED BY <1>1, <1>2, <1>3, DirUIsDir DEF p

(* A write to an open file. *)
LEMMA WritesOpen ==
    ASSUME NEW u, NEW f \in Files, NEW c \in Texts, handled[u][f] # None,
           data' = [data EXCEPT ![handled[u][f].ino] = c]
    PROVE  \E g \in Files, b \in Texts :
              /\ handled[u][g] # None
              /\ data' = [data EXCEPT ![handled[u][g].ino] = b]
OBVIOUS

(* A handler that goes on receiving after it wrote to one of its files:    *)
(* the files it has closed are other ones.                                 *)
LEMMA ClosedFilesKept ==
    ASSUME FilesInv, NEW u \in Uploads, NEW g \in Files, NEW c, handled[u][g] # None,
           Active(u), Alone(u),
           data' = [data EXCEPT ![handled[u][g].ino] = c],
           NEW f \in scFiles[u] \union scDirs[u], f # g, handled[u][f] = None
    PROVE  link[f] # None /\ data'[link[f]] = verified[u][f]
<1>1. f \in Files /\ OwnFiles(u)
    BY DEF FilesInv, Shape, ShapeOf, Undisturbed
<1>2. link[f] # None /\ data[link[f]] = verified[u][f]
    BY <1>1 DEF OwnFiles
<1>3. link[f] \in Inodes /\ link[f] # handled[u][g].ino
    BY <1>1, <1>2 DEF FilesInv, Links, Shape, ShapeOf
<1> QED BY <1>2, <1>3 DEF FilesInv, Shape, ShapeOf

(* A chunk is written to an open file. *)
LEMMA WriteChunkSafe ==
    ASSUME FilesInv, NEW u \in Uploads, NEW m, WellFormed(m), WriteChunk(u, m)
    PROVE  Safe'
<1> DEFINE n == FileName(u, m)
           h == handled[u][n]
<1>1. /\ n \in Files /\ pc[u] = "recv" /\ pc[u] \in Working /\ h # None
      /\ h \in [ino : Inodes, pos : Nat] /\ HandlerOK(u) /\ Undisturbed(u) /\ Active(u)
      /\ DirU(u) \in Dirs /\ status[u] # "ok" /\ Updated(u, m) \in Texts
    BY OpenFile, UpdatedIsText DEF WriteChunk, FilesInv
<1>2. /\ data' = [data EXCEPT ![h.ino] = Updated(u, m)]
      /\ handled' = [handled EXCEPT ![u][n].pos = @ + (IF m.contents = None THEN 0 ELSE 1)]
      /\ UNCHANGED <<link, pc, key, scFiles, scDirs, rev, status, verified, user, shared>>
    BY DEF WriteChunk, Write
<1> HIDE DEF n
<1>3. FileStep(u)
    BY <1>1, <1>2, WritesOpen DEF FileStep
<1>4. OthersSame(u) /\ \A o \in Uploads : DirU(o)' = DirU(o)
    BY <1>2 DEF OthersSame, DirU, FilesInv, Shape, ShapeOf
<1>5. handled \in [Uploads -> [Files -> {None} \union [ino : Inodes, pos : Nat]]]
    BY DEF FilesInv, Shape, ShapeOf
<1>6. /\ \A f \in Files : f # n => handled'[u][f] = handled[u][f]
      /\ handled'[u][n].ino = handled[u][n].ino
    BY <1>1, <1>2, <1>5
<1>7. handled'[u][n] # None
    <2> DEFINE k == h.pos + (IF m.contents = None THEN 0 ELSE 1)
    <2>1. k \in Nat
        BY <1>1
    <2>2. handled'[u][n] = [h EXCEPT !.pos = k]
        BY <1>1, <1>2, <1>5
    <2>3. [h EXCEPT !.pos = k] \in [ino : Inodes, pos : Nat]
        BY <1>1, <2>1
    <2> QED BY <2>2, <2>3, UploadAssumption
<1>8. \A f \in Files : handled'[u][f] # None =>
          handled[u][f] # None /\ handled'[u][f].ino = handled[u][f].ino
    BY <1>1, <1>6
<1>9. HandlerOK(u)'
    BY <1>1, <1>2, <1>8 DEF HandlerOK, Active, Accepted
<1>10. ASSUME Active(u)', Alone(u)'
       PROVE  OwnFiles(u)'
    <2>1. Active(u) /\ Alone(u)
        BY <1>1, <1>2, <1>4, <1>10 DEF Alone
    <2>2. OwnFiles(u)
        BY <1>1, <2>1 DEF Undisturbed
    <2>3. \A v \in Uploads \ {u} : ~ WorksIn(v, DirU(u))'
        BY <1>2, <1>4, <2>2 DEF OwnFiles, OthersSame, WorksIn, Open
    <2>4. \A f \in Files : handled'[u][f] # None =>
              In[f] = DirU(u)' /\ link'[f] = handled'[u][f].ino
        BY <1>2, <1>4, <1>8, <2>2 DEF OwnFiles
    <2>5. ASSUME NEW f \in scFiles'[u] \union scDirs'[u]
          PROVE  /\ In[f] = DirU(u)'
                 /\ handled'[u][f] = None => link'[f] # None /\ data'[link'[f]] = verified'[u][f]
        <3>1. f \in scFiles[u] \union scDirs[u] /\ f \in Files
            BY <1>2 DEF FilesInv, Shape, ShapeOf
        <3>2. In[f] = DirU(u)'
            BY <1>4, <2>2, <3>1 DEF OwnFiles
        <3>3. handled'[u][f] = None => f # n /\ handled[u][f] = None
            BY <1>6, <1>7, <3>1
        <3>4. f # n /\ handled[u][f] = None => link[f] # None /\ data'[link[f]] = verified[u][f]
            BY <1>1, <1>2, <2>1, <3>1, ClosedFilesKept
        <3> QED BY <1>2, <3>2, <3>3, <3>4
    <2>6. ~ Accepted(u)'
        BY <1>1, <1>2 DEF Accepted
    <2> QED BY <2>3, <2>4, <2>5, <2>6 DEF OwnFiles
<1> QED BY <1>1, <1>2, <1>3, <1>4, <1>8, <1>9, <1>10, OwnStep DEF Undisturbed

(* A hash is checked against the file that is linked, so that what is      *)
(* added to the schema is what the client vouched for.                     *)
LEMMA VerifyHashSafe ==
    ASSUME FilesInv, NEW u \in Uploads, NEW m, WellFormed(m), VerifyHash(u, m)
    PROVE  Safe'
<1> DEFINE n == FileName(u, m)
           h == handled[u][n]
<1>1. /\ n \in Files /\ pc[u] = "recv" /\ pc[u] \in Working /\ h # None
      /\ h \in [ino : Inodes, pos : Nat] /\ HandlerOK(u) /\ Undisturbed(u) /\ Active(u)
      /\ DirU(u) \in Dirs /\ status[u] # "ok" /\ Updated(u, m) \in Texts
    BY OpenFile, UpdatedIsText DEF VerifyHash, FilesInv
<1>2. data' = [data EXCEPT ![h.ino] = Updated(u, m)]
    BY DEF VerifyHash, Write
<1>3. CASE CleanAndReturn(u, "hash") \/ CleanAndReturn(u, "error")
    <2> HIDE DEF n
    <2>1. \E f \in Files, c \in Texts :
              handled[u][f] # None /\ data' = [data EXCEPT ![handled[u][f].ino] = c]
        BY <1>1, <1>2, WritesOpen
    <2> QED BY <1>1, <1>3, <2>1, CleanAndReturnSafe DEF Statuses
<1>4. CASE HashMatches(u, m) /\ ~ CleanAndReturn(u, "hash") /\ ~ CleanAndReturn(u, "error")
    <2>1. /\ handled' = [handled EXCEPT ![u][n] = None]
          /\ verified' = [verified EXCEPT ![u][n] = m.hash.sum[2]]
          /\ UNCHANGED <<link, pc, key, rev, status, user, shared>>
        BY <1>4 DEF VerifyHash
    <2>2. \/ scFiles' = [scFiles EXCEPT ![u] = @ \union {n}] /\ scDirs' = scDirs
          \/ scDirs' = [scDirs EXCEPT ![u] = @ \union {n}] /\ scFiles' = scFiles
        BY <1>4 DEF VerifyHash
    <2>3. m.hash.sum[2] = Updated(u, m)
        BY <1>4 DEF HashMatches, Digest, ReadBack
    <2> HIDE DEF n
    <2>4. FileStep(u)
        BY <1>1, <1>2, <2>1, WritesOpen DEF FileStep
    <2>5. /\ handled'[u][n] = None
          /\ \A f \in Files : f # n => handled'[u][f] = handled[u][f]
          /\ verified'[u][n] = Updated(u, m)
          /\ \A f \in Files : f # n => verified'[u][f] = verified[u][f]
        BY <1>1, <2>1, <2>3 DEF FilesInv, Shape, ShapeOf
    <2>6. scFiles'[u] \union scDirs'[u] = (scFiles[u] \union scDirs[u]) \union {n}
        BY <2>2 DEF FilesInv, Shape, ShapeOf
    <2>7. OthersSame(u) /\ \A o \in Uploads : DirU(o)' = DirU(o)
        <3>1. \A o \in Uploads \ {u} : scFiles'[o] = scFiles[o] /\ scDirs'[o] = scDirs[o]
            BY <2>2 DEF FilesInv, Shape, ShapeOf
        <3>2. \A o \in Uploads \ {u} : handled'[o] = handled[o] /\ verified'[o] = verified[o]
            BY <2>1 DEF FilesInv, Shape, ShapeOf
        <3> QED BY <2>1, <3>1, <3>2 DEF OthersSame, DirU
    <2>8. HandlerOK(u)'
        BY <1>1, <2>1, <2>5 DEF HandlerOK, Active, Accepted
    <2>9. ASSUME Active(u)', Alone(u)'
          PROVE  OwnFiles(u)'
        <3>1. Active(u) /\ Alone(u)
            BY <1>1, <2>1, <2>7, <2>9 DEF Alone
        <3>2. OwnFiles(u)
            BY <1>1, <3>1 DEF Undisturbed
        <3>3. \A v \in Uploads \ {u} : ~ WorksIn(v, DirU(u))'
            BY <2>1, <2>7, <3>2 DEF OwnFiles, OthersSame, WorksIn, Open
        <3>4. \A f \in Files : handled'[u][f] # None =>
                  In[f] = DirU(u)' /\ link'[f] = handled'[u][f].ino
            BY <1>1, <2>1, <2>5, <2>7, <3>2 DEF OwnFiles
        <3>5. ASSUME NEW f \in scFiles[u] \union scDirs[u], f # n
              PROVE  /\ In[f] = DirU(u)
                     /\ handled'[u][f] = None => link[f] # None /\ data'[link[f]] = verified'[u][f]
            <4>1. f \in Files
                BY DEF FilesInv, Shape, ShapeOf
            <4>2. handled'[u][f] = handled[u][f] /\ verified'[u][f] = verified[u][f]
                BY <2>5, <3>5, <4>1
            <4>3. In[f] = DirU(u)
                BY <3>2 DEF OwnFiles
            <4>4. handled[u][f] = None => link[f] # None /\ data'[link[f]] = verified[u][f]
                BY <1>1, <1>2, <3>1, <3>5, ClosedFilesKept
            <4> QED BY <4>2, <4>3, <4>4
        <3>6. In[n] = DirU(u) /\ link[n] # None /\ data'[link[n]] = verified'[u][n]
            <4>1. link[n] = h.ino /\ h.ino \in Inodes /\ In[n] = DirU(u)
                BY <1>1, <3>2 DEF OwnFiles
            <4>2. data'[h.ino] = Updated(u, m)
                BY <1>2, <4>1 DEF FilesInv, Shape, ShapeOf
            <4> QED BY <2>5, <4>1, <4>2, UploadAssumption
        <3>7. \A f \in scFiles'[u] \union scDirs'[u] :
                 /\ In[f] = DirU(u)'
                 /\ handled'[u][f] = None => link'[f] # None /\ data'[link'[f]] = verified'[u][f]
            BY <2>1, <2>6, <2>7, <3>5, <3>6
        <3>8. ~ Accepted(u)'
            BY <1>1, <2>1 DEF Accepted
        <3> QED BY <3>3, <3>4, <3>7, <3>8 DEF OwnFiles
    <2> QED BY <1>1, <2>1, <2>4, <2>5, <2>7, <2>8, <2>9, OwnStep DEF Undisturbed
<1> QED BY <1>3, <1>4 DEF VerifyHash

(* Messages that end the stream with an error. *)
LEMMA RefusalSafe ==
    ASSUME FilesInv, NEW u \in Uploads, NEW m, WellFormed(m),
           \/ NotCreateSchema(u, m) \/ NamelessFile(u, m) \/ UnspecifiedHash(u, m)
           \/ WriteFails(u, m) \/ UnexpectedMessage(u, m)
    PROVE  Safe'
<1>0. "error" \in Statuses
    BY DEF Statuses
<1>1. CASE NotCreateSchema(u, m) \/ NamelessFile(u, m)
    <2>1. Return(u, "error") /\ UNCHANGED files /\ pc[u] # "done"
        BY <1>1 DEF NotCreateSchema, NamelessFile
    <2> QED BY <1>0, <2>1, LeavesFiles, ReturnSafe
<1>2. CASE UnspecifiedHash(u, m)
    <2>1. FileName(u, m) \in Files /\ pc[u] \in Working /\ handled[u][FileName(u, m)] # None
        BY <1>2, OpenFile DEF UnspecifiedHash
    <2>2. <<>> \in Texts
        BY DEF Texts
    <2>3. /\ data' = [data EXCEPT ![handled[u][FileName(u, m)].ino] = <<>>]
          /\ CleanAndReturn(u, "error")
        BY <1>2 DEF UnspecifiedHash
    <2>4. \E f \in Files, c \in Texts :
              handled[u][f] # None /\ data' = [data EXCEPT ![handled[u][f].ino] = c]
        BY <2>1, <2>2, <2>3, WritesOpen
    <2> QED BY <1>0, <2>1, <2>3, <2>4, CleanAndReturnSafe
<1>3. CASE UnexpectedMessage(u, m) \/ WriteFails(u, m)
    <2>1. data' = data /\ pc[u] \in Working /\ CleanAndReturn(u, "error")
        BY <1>3 DEF UnexpectedMessage, WriteFails, IsOpenFileOf, IsFileOf, Working
    <2> QED BY <1>0, <2>1, CleanAndReturnSafe
<1> QED BY <1>1, <1>2, <1>3

(* The process ends. *)
LEMMA CrashSafe ==
    ASSUME FilesInv, NEW u \in Uploads, NEW m, WellFormed(m), UnknownHash(u, m)
    PROVE  Safe'
<1> DEFINE n == FileName(u, m)
           O == {o \in Uploads : pc[o] \in Working}
<1>1. /\ n \in Files /\ pc[u] \in Working /\ handled[u][n] # None
      /\ Updated(u, m) \in Texts
    BY OpenFile, UpdatedIsText DEF UnknownHash, FilesInv
<1>2. /\ data' = [data EXCEPT ![handled[u][n].ino] = Updated(u, m)]
      /\ link' = link /\ End(O, "error")
    BY DEF UnknownHash, Write
<1> HIDE DEF n
<1>3. FileStep(u)
    BY <1>1, <1>2, WritesOpen DEF FileStep
<1>4. u \in O /\ \A o \in O : pc[o] # "done"
    BY <1>1 DEF Working
<1>5. "error" \in Statuses /\ "error" # "ok"
    BY DEF Statuses
<1> HIDE DEF O
<1> QED BY <1>2, <1>3, <1>4, <1>5, EndSafe

(* The final message. *)
LEMMA FinalizeSafe ==
    ASSUME FilesInv, NEW u \in Uploads, NEW m, Finalize(u, m)
    PROVE  Safe'
<1>1. data' = data /\ pc[u] = "recv" /\ pc[u] \in Working /\ HandlerOK(u) /\ Undisturbed(u)
    BY DEF Finalize, Working, FilesInv
<1>2. CASE CleanAndReturn(u, "error")
    BY <1>1, <1>2, CleanAndReturnSafe DEF Statuses
<1>3. CASE /\ Open(u) = {} /\ Goto(u, "parse")
           /\ UNCHANGED <<link, key, handled, scFiles, scDirs, rev, status, verified, user, shared>>
    <2>1. FileStep(u)
        BY <1>1, <1>3 DEF FileStep
    <2>2. OthersSame(u) /\ pc'[u] = "parse" /\ \A o \in Uploads : DirU(o)' = DirU(o)
        BY <1>3 DEF Goto, OthersSame, DirU, FilesInv, Shape, ShapeOf
    <2>3. \A f \in Files : handled[u][f] = None
        BY <1>3 DEF Open
    <2>4. HandlerOK(u)'
        BY <1>1, <1>3, <2>2, <2>3 DEF HandlerOK, Active, Accepted
    <2>5. ASSUME Active(u)', Alone(u)'
          PROVE  OwnFiles(u)'
        <3>1. OwnFiles(u)
            BY <1>1, <1>3, <2>2, <2>5 DEF Undisturbed, Active, Alone
        <3>2. \A v \in Uploads \ {u} : ~ WorksIn(v, DirU(u))'
            BY <1>3, <2>2, <3>1 DEF OwnFiles, OthersSame, WorksIn, Open
        <3>3. ~ Accepted(u)'
            BY <1>1, <1>3, <2>2 DEF Accepted, HandlerOK
        <3> QED BY <1>1, <1>3, <2>2, <3>1, <3>2, <3>3 DEF OwnFiles
    <2> QED BY <1>1, <1>3, <2>1, <2>2, <2>4, <2>5, OwnStep DEF Undisturbed
<1> QED BY <1>2, <1>3 DEF Finalize

(* The directory is emptied. *)
LEMMA CleanDirectorySafe ==
    ASSUME FilesInv, NEW u \in Uploads, CleanDirectory(u)
    PROVE  Safe'
<1>1. data' = data /\ pc[u] = "clean" /\ pc[u] \in Working /\ HandlerOK(u) /\ Undisturbed(u)
    BY DEF CleanDirectory, Working, FilesInv
<1>2. CASE Return(u, "error") /\ UNCHANGED link
    <2>1. FileStep(u)
        BY <1>1, <1>2 DEF FileStep
    <2> QED BY <1>1, <1>2, <2>1, ReturnSafe DEF Statuses
<1>3. CASE /\ RemoveAll(DirU(u)) /\ Goto(u, "recv")
           /\ UNCHANGED <<key, handled, scFiles, scDirs, rev, status, verified, user, shared>>
    <2>1. FileStep(u)
        BY <1>1, <1>3 DEF FileStep
    <2>2. OthersSame(u) /\ pc'[u] = "recv" /\ \A o \in Uploads : DirU(o)' = DirU(o)
        BY <1>3 DEF Goto, OthersSame, DirU, FilesInv, Shape, ShapeOf
    <2>3. (\A f \in Files : handled[u][f] = None) /\ scFiles[u] = {} /\ scDirs[u] = {}
        BY <1>1 DEF HandlerOK
    <2>4. HandlerOK(u)'
        BY <1>1, <1>3, <2>2, <2>3 DEF HandlerOK, Active, Accepted
    <2>5. ASSUME Active(u)', Alone(u)'
          PROVE  OwnFiles(u)'
        <3>1. OwnFiles(u)
            BY <1>1, <1>3, <2>2, <2>5 DEF Undisturbed, Active, Alone
        <3>2. \A v \in Uploads \ {u} : ~ WorksIn(v, DirU(u))'
            BY <1>3, <2>2, <3>1 DEF OwnFiles, OthersSame, WorksIn, Open
        <3>3. ~ Accepted(u)'
            BY <1>1, <1>3, <2>2 DEF Accepted, HandlerOK
        <3> QED BY <1>1, <1>3, <2>2, <2>3, <3>2, <3>3 DEF OwnFiles
    <2> QED BY <1>1, <1>3, <2>1, <2>2, <2>4, <2>5, OwnStep DEF Undisturbed
<1> QED BY <1>2, <1>3 DEF CleanDirectory

(* Parsing reads the files of the schema from their paths, where the ones  *)
(* that were verified still are.                                           *)
LEMMA NewSchemaSafe ==
    ASSUME FilesInv, NEW u \in Uploads, NewSchema(u)
    PROVE  Safe'
<1> DEFINE modules == scFiles[u] \intersect Yang
           read == IF modules = {} THEN {}
                   ELSE {f \in modules \union (scDirs[u] \intersect Yang) : link[f] # None}
           new == [f \in read |-> data[link[f]]]
<1>1. /\ data' = data /\ pc[u] = "parse" /\ pc[u] \in Working /\ HandlerOK(u) /\ Undisturbed(u)
      /\ status[u] # "ok" /\ Active(u)
    BY DEF NewSchema, Working, FilesInv, HandlerOK, Active
<1>2. CASE CleanAndReturn(u, "error")
    BY <1>1, <1>2, CleanAndReturnSafe DEF Statuses
<1>3. CASE /\ \A f \in scFiles[u] : link[f] # None
           /\ rev' = [rev EXCEPT ![u] = new]
           /\ Goto(u, "add")
           /\ UNCHANGED <<link, key, handled, scFiles, scDirs, status, verified, user, shared>>
    <2>1. FileStep(u)
        BY <1>1, <1>3 DEF FileStep
    <2>2. /\ read \subseteq scFiles[u] \union scDirs[u] /\ read \subseteq Files
          /\ \A f \in read : link[f] # None /\ link[f] \in Inodes
          /\ modules \subseteq read
        BY <1>3 DEF FilesInv, Shape, ShapeOf
    <2>3. new \in [read -> Texts] /\ DOMAIN new = read /\ \A f \in read : new[f] = data[link[f]]
        BY <2>2 DEF FilesInv, Shape, ShapeOf
    <2>4. new \in RevisionsOf(Texts)
        BY <2>2, <2>3 DEF RevisionsOf
    <2> HIDE DEF new, read
    <2>6. /\ OthersSame(u) /\ pc'[u] = "add" /\ rev'[u] = new
          /\ \A o \in Uploads : DirU(o)' = DirU(o)
        BY <1>3 DEF Goto, OthersSame, DirU, FilesInv, Shape, ShapeOf
    <2>7. \A f \in Files : handled[u][f] = None
        BY <1>1 DEF HandlerOK
    <2>8. HandlerOK(u)'
        BY <1>1, <1>3, <2>2, <2>3, <2>4, <2>6, <2>7 DEF HandlerOK, Active, Accepted
    <2>9. ASSUME Active(u)', Alone(u)'
          PROVE  OwnFiles(u)'
        <3>1. OwnFiles(u)
            BY <1>1, <1>3, <2>6, <2>9 DEF Undisturbed, Alone
        <3>2. \A v \in Uploads \ {u} : ~ WorksIn(v, DirU(u))'
            BY <1>3, <2>6, <3>1 DEF OwnFiles, OthersSame, WorksIn, Open
        <3>3. \A f \in scFiles[u] \union scDirs[u] :
                  In[f] = DirU(u) /\ link[f] # None /\ data[link[f]] = verified[u][f]
            <4>1. scFiles[u] \union scDirs[u] \subseteq Files
                BY DEF FilesInv, Shape, ShapeOf
            <4> QED BY <2>7, <3>1, <4>1 DEF OwnFiles
        <3>4. \A f \in DOMAIN rev'[u] : rev'[u][f] = verified'[u][f]
            BY <1>3, <2>2, <2>3, <2>6, <3>3
        <3>5. modules # {} => read = (scFiles[u] \union scDirs[u]) \intersect Yang
            BY <3>3 DEF read
        <3> QED BY <1>1, <1>3, <2>3, <2>6, <2>7, <3>2, <3>3, <3>4, <3>5 DEF OwnFiles
    <2> QED BY <1>1, <1>3, <2>1, <2>6, <2>8, <2>9, OwnStep DEF Undisturbed
<1> QED BY <1>2, <1>3 DEF NewSchema, FindYangFiles

(* The schema is stored. *)
LEMMA AddSchemaSafe ==
    ASSUME FilesInv, NEW u \in Uploads, AddSchema(u)
    PROVE  Safe'
<1>1. /\ UNCHANGED files /\ FileStep(u) /\ pc[u] = "add" /\ pc[u] \in Working /\ Active(u)
      /\ HandlerOK(u) /\ Undisturbed(u) /\ Accepted(u) /\ link' = link /\ data' = data
    BY LeavesFiles DEF AddSchema, Working, Active, Accepted, FilesInv, files
<1>2. CASE Return(u, "error")
    BY <1>1, <1>2, ReturnSafe DEF Statuses
<1>3. CASE /\ Goto(u, "done") /\ status' = [status EXCEPT ![u] = "ok"]
           /\ UNCHANGED <<key, handled, scFiles, scDirs, rev, verified, user, shared>>
    <2>2. /\ OthersSame(u) /\ pc'[u] = "done" /\ status'[u] = "ok"
          /\ \A o \in Uploads : DirU(o)' = DirU(o)
        BY <1>3 DEF Goto, OthersSame, DirU, FilesInv, Shape, ShapeOf
    <2>3. \A f \in Files : handled[u][f] = None
        BY <1>1 DEF HandlerOK
    <2>4. HandlerOK(u)'
        BY <1>1, <1>3, <2>2, <2>3 DEF HandlerOK, Active, Accepted
    <2>5. ASSUME Alone(u)'
          PROVE  OwnFiles(u)'
        <3>1. OwnFiles(u)
            BY <1>1, <1>3, <2>2, <2>5 DEF Undisturbed, Alone
        <3>2. \A v \in Uploads \ {u} : ~ WorksIn(v, DirU(u))'
            BY <1>3, <2>2, <3>1 DEF OwnFiles, OthersSame, WorksIn, Open
        <3> QED BY <1>1, <1>3, <2>2, <3>1, <3>2 DEF OwnFiles
    <2> QED BY <1>1, <1>3, <2>2, <2>4, <2>5, OwnStep DEF Undisturbed
<1> QED BY <1>2, <1>3 DEF AddSchema

-----------------------------------------------------------------------------
(* The theorems *)

(* A handler's step for a message, whatever its length, keeps the          *)
(* invariant: clients need not keep to the bounds of the instance.         *)
LEMMA MessageSafe ==
    ASSUME FilesInv, NEW u \in Uploads, NEW m, WellFormed(m),
           CreateFileWithDir(u, m) \/ Consume(u, m) \/ UnknownHash(u, m)
    PROVE  FilesInv'
<1>1. Safe'
    BY CreateFileSafe, CreateSchemaSafe, WriteChunkSafe, VerifyHashSafe, RefusalSafe,
       FinalizeSafe, CrashSafe DEF Consume
<1>2. Shape'
    <2>1. pc[u] \in Working => DirU(u) \in Dirs
        BY DirUIsDir DEF FilesInv, Active
    <2>2. KeepsTo(u, m, Texts, Nat)
        BY UpdatedIsText DEF KeepsTo, FilesInv
    <2>3. <<>> \in Texts /\ 0 \in Nat /\ Nat \subseteq Nat
        BY DEF Texts
    <2> QED BY <2>1, <2>2, <2>3, MessageTyping, CrashTyping DEF FilesInv, Shape
<1> QED BY <1>1, <1>2 DEF FilesInv, Safe

(* So does a step of its own. *)
LEMMA ProceedSafe ==
    ASSUME FilesInv, NEW u \in Uploads, RecvFails(u) \/ Proceed(u)
    PROVE  FilesInv'
<1>1. Safe'
    <2>1. CASE RecvFails(u)
        <3>1. UNCHANGED files /\ Return(u, "error") /\ pc[u] # "done"
            BY <2>1 DEF RecvFails
        <3> QED BY <3>1, LeavesFiles, ReturnSafe DEF Statuses
    <2>2. CASE Proceed(u)
        BY <2>2, CleanDirectorySafe, NewSchemaSafe, AddSchemaSafe DEF Proceed
    <2> QED BY <2>1, <2>2
<1>2. Shape'
    BY ProceedTyping DEF FilesInv, Shape
<1> QED BY <1>1, <1>2 DEF FilesInv, Safe

(* Deleting a schema leaves its files and the handlers alone. *)
LEMMA DeleteSafe ==
    ASSUME FilesInv, NEW k \in Keys, DeleteSchema(k)
    PROVE  FilesInv'
<1>1. UNCHANGED <<link, data, pc, key, handled, scFiles, scDirs, rev, status, verified, user, shared>>
    BY DEF DeleteSchema, files, server
<1>2. Links'
    BY <1>1 DEF FilesInv, Links
<1>3. \A u \in Uploads : HandlerOK(u)'
    BY <1>1 DEF FilesInv, HandlerOK, Active, Accepted
<1>4. \A u \in Uploads : Undisturbed(u)'
    BY <1>1 DEF FilesInv, Undisturbed, OwnFiles, WorksIn, Open, Active, Alone, Accepted, DirU
<1> QED BY <1>2, <1>3, <1>4, DeleteTyping DEF FilesInv, Shape

(* Nothing happens to the server. *)
LEMMA UnchangedSafe ==
    ASSUME FilesInv, UNCHANGED vars
    PROVE  FilesInv'
<1>1. UNCHANGED <<link, data, stored, pc, key, handled, scFiles, scDirs, rev, status,
                  verified, user, shared>>
    BY DEF vars, files, server
<1>2. Shape'
    BY <1>1 DEF FilesInv, Shape, ShapeOf
<1>3. Links'
    BY <1>1 DEF FilesInv, Links
<1>4. \A u \in Uploads : HandlerOK(u)'
    BY <1>1 DEF FilesInv, HandlerOK, Active, Accepted
<1>5. \A u \in Uploads : Undisturbed(u)'
    BY <1>1 DEF FilesInv, Undisturbed, OwnFiles, WorksIn, Open, Active, Alone, Accepted, DirU
<1> QED BY <1>2, <1>3, <1>4, <1>5 DEF FilesInv

(* At the start there is nothing. *)
LEMMA InitSafe ==
    ASSUME Init
    PROVE  FilesInv /\ TypeOK
<1>1. <<>> \in Texts /\ <<>> \in Contents /\ 0 \in 0..MaxChunks
    BY ContentsAreTexts, UploadAssumption DEF Texts
<1>2. Shape /\ TypeOK
    BY <1>1 DEF Init, Shape, ShapeOf, TypeOK, RevisionsOf, Working
<1>3. Links
    BY DEF Init, Links
<1>4. \A u \in Uploads : HandlerOK(u) /\ ~ Active(u)
    BY UploadAssumption DEF Init, HandlerOK, Active, Accepted, Working, Statuses
<1> QED BY <1>2, <1>3, <1>4 DEF FilesInv, Undisturbed

(* The messages of the instance keep its bounds. *)
LEMMA BoundedTyping ==
    ASSUME FilesInv, TypeOK, Next
    PROVE  TypeOK'
<1> DEFINE N == 0..MaxChunks
<1>1. TypeOK <=> ShapeOf(Contents, N)
    BY DEF TypeOK, ShapeOf, RevisionsOf
<1>2. TypeOK' <=> ShapeOf(Contents, N)'
    BY DEF TypeOK, ShapeOf, RevisionsOf
<1>3. <<>> \in Contents /\ 0 \in N /\ N \subseteq Nat /\ Contents \subseteq Texts
    BY ContentsAreTexts, UploadAssumption
<1>4. ASSUME NEW u \in Uploads
      PROVE  pc[u] \in Working => DirU(u) \in Dirs
    BY DirUIsDir DEF FilesInv, Active
<1>5. ASSUME NEW u \in Uploads, NEW m \in Messages, Fits(u, m),
             CreateFileWithDir(u, m) \/ Consume(u, m) \/ UnknownHash(u, m)
      PROVE  TypeOK'
    <2>1. WellFormed(m)
        BY UploadAssumption DEF IsMessage, WellFormed
    <2>2. KeepsTo(u, m, Contents, N)
        <3> SUFFICES ASSUME IsOpenFileOf(u, m)
                     PROVE  /\ Updated(u, m) \in Contents
                            /\ m.contents # None => handled[u][FileName(u, m)].pos + 1 \in N
            BY DEF KeepsTo
        <3> DEFINE f == FileName(u, m)
        <3>0. f \in Files /\ handled[u][f] # None /\ m.kind = "file"
            BY DEF IsOpenFileOf, IsFileOf, Open
        <3>1. /\ handled[u][f] \in [ino : Inodes, pos : N]
              /\ data[handled[u][f].ino] \in Contents
            <4> HIDE DEF f
            <4> QED BY <3>0 DEF TypeOK
        <3>2. m.contents = None => Updated(u, m) \in Contents
            BY <3>1 DEF Updated
        <3>3. ASSUME m.contents # None
              PROVE  Updated(u, m) \in Contents /\ handled[u][f].pos + 1 \in N
            <4> DEFINE p == handled[u][f].pos
                       s == data[handled[u][f].ino]
            <4>1. p \in 0..MaxChunks /\ p < MaxChunks /\ s \in Contents
                BY <1>5, <3>0, <3>1, <3>3 DEF Fits
            <4> HIDE DEF p, s
            <4>2. m.contents \in Bytes /\ Updated(u, m) = WriteAt(s, p, m.contents)
                BY <2>1, <3>0, <3>3 DEF WellFormed, Bytes, Updated, p, s
            <4>3. WriteAt(s, p, m.contents) \in Contents /\ p + 1 \in 0..MaxChunks
                BY <4>1, <4>2, WriteWithin
            <4> QED BY <4>2, <4>3 DEF p
        <3> QED BY <3>2, <3>3
    <2> QED BY <1>1, <1>2, <1>3, <1>4, <1>5, <2>1, <2>2, MessageTyping, CrashTyping
<1>6. ASSUME NEW u \in Uploads, RecvFails(u) \/ Proceed(u)
      PROVE  TypeOK'
    BY <1>1, <1>2, <1>6, ProceedTyping
<1>7. ASSUME NEW k \in Keys, DeleteSchema(k)
      PROVE  TypeOK'
    BY <1>1, <1>2, <1>7, DeleteTyping
<1> QED BY <1>5, <1>6, <1>7 DEF Next

(* The inductive invariant, with the types of a bounded instance. *)
THEOREM Invariance == Spec => [](FilesInv /\ TypeOK)
<1>1. Init => FilesInv /\ TypeOK
    BY InitSafe
<1>2. FilesInv /\ TypeOK /\ [Next]_vars => (FilesInv /\ TypeOK)'
    <2> SUFFICES ASSUME FilesInv, TypeOK, [Next]_vars
                 PROVE  FilesInv' /\ TypeOK'
        OBVIOUS
    <2>1. ASSUME NEW u \in Uploads, NEW m \in Messages,
                 CreateFileWithDir(u, m) \/ Consume(u, m) \/ UnknownHash(u, m)
          PROVE  FilesInv'
        <3>1. WellFormed(m)
            BY UploadAssumption DEF IsMessage, WellFormed
        <3> QED BY <2>1, <3>1, MessageSafe
    <2>2. CASE Next
        BY <2>1, <2>2, ProceedSafe, DeleteSafe, BoundedTyping DEF Next
    <2>3. CASE UNCHANGED vars
        <3>1. TypeOK'
            BY <2>3 DEF vars, files, server, TypeOK
        <3> QED BY <2>3, <3>1, UnchangedSafe
    <2> QED BY <2>2, <2>3
<1> QED BY <1>1, <1>2, PTL DEF Spec

(* Every variable has its type, whatever is sent and in whatever order: a  *)
(* file that is handled is one that could be created.                      *)
THEOREM TypeCorrect == Spec => []TypeOK
BY Invariance, PTL

(* What the invariant says of accepted uploads. *)
LEMMA AcceptedFiles ==
    ASSUME FilesInv
    PROVE  StoredWasVerified /\ StoredFilesKept
<1>1. ASSUME NEW u \in Uploads, Accepted(u), Alone(u)
      PROVE  /\ scFiles[u] \intersect Yang \subseteq DOMAIN rev[u]
             /\ \A f \in DOMAIN rev[u] :
                   /\ rev[u][f] = verified[u][f]
                   /\ link[f] # None /\ data[link[f]] = rev[u][f]
    <2>1. HandlerOK(u) /\ Undisturbed(u) /\ Active(u) /\ pc[u] # "recv"
        BY <1>1 DEF FilesInv, HandlerOK, Accepted, Active, Working
    <2>2. /\ scFiles[u] \intersect Yang \subseteq DOMAIN rev[u]
          /\ DOMAIN rev[u] \subseteq scFiles[u] \union scDirs[u]
          /\ scFiles[u] \union scDirs[u] \subseteq Files
        BY <1>1, <2>1 DEF HandlerOK, FilesInv, Shape, ShapeOf
    <2>3. (\A f \in Files : handled[u][f] = None) /\ OwnFiles(u)
        BY <1>1, <2>1 DEF HandlerOK, Undisturbed
    <2> QED BY <1>1, <2>2, <2>3 DEF OwnFiles
<1>2. StoredWasVerified
    BY <1>1 DEF StoredWasVerified, FindYangFiles
<1>3. StoredFilesKept
    BY <1>1 DEF StoredFilesKept, Accepted
<1> QED BY <1>2, <1>3

(* A schema that an undisturbed upload stores is made of all the modules   *)
(* that were sent under a name ending in .yang, each with the content      *)
(* whose hash the client sent.                                             *)
THEOREM StoredSchemasWereVerified == Spec => []StoredWasVerified
BY Invariance, AcceptedFiles, PTL

(* Its files stay in its directory as they were parsed, whatever other     *)
(* uploads do, until one of them takes the directory over or sends a file  *)
(* name that leads there.                                                  *)
THEOREM UploadedFilesAreKept == Spec => []StoredFilesKept
BY Invariance, AcceptedFiles, PTL

=============================================================================
